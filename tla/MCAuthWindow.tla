---------------------------- MODULE MCAuthWindow ----------------------------
(* TLC instance of AuthWindow: one source.                                 *)
EXTENDS AuthWindow
=============================================================================
