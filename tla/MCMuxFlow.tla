----------------------------- MODULE MCMuxFlow -----------------------------
(***************************************************************************)
(* One stream whose sockets, connect, connection and negotiation fail at   *)
(* any point, with lanes as small as they get.  Its three bytes overrun    *)
(* the server's window in legacy mode, and in records of one byte exceed   *)
(* the limit of the receive queue.                                         *)
(***************************************************************************)
EXTENDS MuxFlow

UpDown(m, n) == [e \in Ends |-> IF e = "c" THEN m ELSE n]

OneSid == 1..1
SmallWindows == UpDown(1, 2)
ThreeUp == <<UpDown(3, 0)>>
=============================================================================
