--------------------------- MODULE MCServerSession ---------------------------
(* ServerSession on small instances. *)
EXTENDS ServerSession

CONSTANTS c1, c2, c3, ip1, ip2

\* Two connections share a source, the third has its own.
TwoSources == [c \in Conns |-> IF c = c3 THEN ip2 ELSE ip1]

\* Every user may have one session.
LimitOne == [u \in Users |-> 1]
=============================================================================
