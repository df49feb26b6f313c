-------------------------- MODULE MCDesktopSession --------------------------
(* Instances of DesktopSession for TLC. *)
EXTENDS DesktopSession


=============================================================================
