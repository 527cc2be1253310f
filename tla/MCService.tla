----------------------------- MODULE MCService -----------------------------
(* An instance of Service for TLC.                                          *)
EXTENDS Service
=============================================================================
