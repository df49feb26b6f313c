-------------------------- MODULE ConnectionInputs --------------------------
(***************************************************************************)
(* The inputs CamouflageFront and LocalProxy are checked on.               *)
(***************************************************************************)
EXTENDS Integers

\* Requests to the camouflage front: upgrades of several sizes, ranges, pages.
PlainRequest ==
  [upgrade |-> FALSE, ver13 |-> TRUE, method |-> "GET", path |-> "/", range |-> "none",
   from |-> -1, to |-> -1, head |-> 1, extra |-> 0]
FrontRequests ==
  {[PlainRequest EXCEPT !.upgrade = u, !.ver13 = v, !.path = p, !.head = h, !.extra = e] :
     u \in BOOLEAN, v \in BOOLEAN, p \in {"ws", "legacy", "other"}, h \in 1..3, e \in 0..2}
  \cup
  {[PlainRequest EXCEPT !.method = m, !.path = p, !.range = "bytes", !.from = f, !.to = t] :
     m \in {"GET", "HEAD"}, p \in {"/", "file"}, f \in -1..4, t \in -1..4}
  \cup
  {[PlainRequest EXCEPT !.method = m, !.path = p] :
     m \in {"GET", "HEAD", "POST"}, p \in {"/", "robots", "favicon", "other", "unsafe"}}
\* A few of them, for the question whether every request ends.
SomeRequests ==
  {PlainRequest, [PlainRequest EXCEPT !.method = "POST", !.head = 3],
   [PlainRequest EXCEPT !.upgrade = TRUE, !.path = "ws", !.extra = 2],
   [PlainRequest EXCEPT !.path = "file", !.range = "bytes", !.from = 1]}
FrontConfigs ==
  [mode : {"proxy", "static", "none"}, legacy : BOOLEAN, allow_private : BOOLEAN, file : {0, 2}]

\* Connections to the local proxies.
Connect ==
  [proto |-> "http", auth |-> FALSE, methods |-> {0}, good |-> TRUE, cmd |-> "connect",
   dest |-> "ip", p443 |-> TRUE, tls |-> TRUE, rec |-> 2, size |-> 4, early |-> 0]
LocalConns ==
  {[Connect EXCEPT !.dest = d, !.p443 = p, !.tls = t, !.rec = r, !.early = e] :
     d \in {"name", "ip", "private"}, p \in BOOLEAN, t \in BOOLEAN, r \in {2, 4, 6}, e \in {0, 2}}
  \cup
  {[Connect EXCEPT !.cmd = c, !.dest = d] :
     c \in {"forward", "health", "bad"}, d \in {"name", "private"}}
  \cup
  {[Connect EXCEPT !.proto = "socks", !.auth = a, !.methods = m, !.good = g, !.cmd = c] :
     a \in BOOLEAN, m \in SUBSET {0, 2}, g \in BOOLEAN, c \in {"connect", "udp", "bad"}}
\* A few of them, for the question whether every request is settled.
SomeConns ==
  {Connect, [Connect EXCEPT !.rec = 4, !.early = 2], [Connect EXCEPT !.tls = FALSE],
   [Connect EXCEPT !.cmd = "forward", !.dest = "name"],
   [Connect EXCEPT !.proto = "socks", !.auth = TRUE, !.methods = {0, 2}]}
=============================================================================
