--------------------------- MODULE MCConnections ----------------------------
(***************************************************************************)
(* A connection on its way: the handshake, the sealing of frames, the      *)
(* camouflage front, the local proxies, the bridge of a dedicated tunnel,  *)
(* the UDP mux and its sockets, each under the fairness of its tasks.      *)
(***************************************************************************)
EXTENDS RecordLayer

CONSTANT None   \* no value, of whatever kind

VARIABLES part,   \* the component that runs
          v1, v2, v3, v4, v5, v6, v7, v8, v9, v10, v11, v12, v13, v14, v15,
          v16, v17, v18, v19, v20, v21   \* its variables

Offered == INSTANCE ConnectionInputs

Hs == INSTANCE Handshake WITH
  MaxNoise <- 2, MaxJunk <- 2, MaxDecrypt <- 1,
  client <- v1, server <- v2, c2s <- v3, s2c <- v4, cpc <- v5, spc <- v6, noise <- v7,
  ckey <- v8, skey <- v9, junk <- v10, decrypt <- v11, opened <- v12, fault <- v13

Front == INSTANCE CamouflageFront WITH
  Requests <- Offered!SomeRequests, Configs <- Offered!FrontConfigs, Private <- {1},
  Public <- {2}, HeadCap <- 2, Chunk <- 2, OriginMax <- 3, MaxChanges <- 1,
  req <- v1, cfg <- v2, got <- v3, at <- v4, dns <- v5, peer <- v6, asked <- v7,
  origin <- v8, reply <- v9, gone <- v10, changes <- v11

Local == INSTANCE LocalProxy WITH
  Conns <- Offered!SomeConns, PeekMax <- 3, Scratch <- 2, MaxChanges <- 2,
  conn <- v1, list <- v2, mapped <- v3, changes <- v4, at <- v5, authed <- v6,
  sent <- v7, taken <- v8, held <- v9, out <- v10, via <- v11, replies <- v12,
  known <- v13, cut <- v14

Bridge == INSTANCE WsBridge WITH
  Size <- 1, QueueCap <- 1, WireCap <- 1, MaxNoise <- 1, Lookalikes <- {},
  wrote <- v1, fin <- v2, got <- v3, queue <- v4, wire <- v5, app <- v6, job <- v7,
  writer <- v8, up <- v9, noise <- v10, why <- v11, hand <- v12

Udp == INSTANCE UdpMux WITH
  Assocs <- {"a"}, Reqs <- {"r1", "r2"}, Ports <- {"p"}, Xids <- {"x"}, QueueCap <- 1,
  PendingCap <- 1, WorkerCap <- 1, Inflight <- 1, MaxRetries <- 0, BadLimit <- 2,
  BadKinds <- {}, MaxBad <- 0, WireCap <- 1, MaxSessions <- 1,
  assoc <- v1, ctrl <- v2, port <- v3, held <- v4, worker <- v5, spent <- v6,
  cmds <- v7, drv <- v8, pending <- v9, out <- v10, bad <- v11, badRun <- v12,
  badSent <- v13, sent <- v14, sessions <- v15, wire <- v16, up <- v17, down <- v18,
  hold <- v19, jobs <- v20, main <- v21

Shared == INSTANCE UdpSockets WITH
  Reqs <- 1..3, Dests <- {"d"}, Socks <- {"s1", "s2"}, Pooled <- TRUE, Cap <- 1,
  MaxAddrs <- 1, Copies <- 2, Drain <- 2,
  pc <- v1, addrs <- v2, sock <- v3, recycle <- v4, result <- v5, free <- v6,
  idle <- v7, pushing <- v8, permits <- v9, queue <- v10, net <- v11

Own == INSTANCE UdpSockets WITH
  Reqs <- 1..2, Dests <- {"d1", "d2"}, Socks <- {"s1", "s2"}, Pooled <- FALSE, Cap <- 1,
  MaxAddrs <- 2, Copies <- 2, Drain <- 2,
  pc <- v1, addrs <- v2, sock <- v3, recycle <- v4, result <- v5, free <- v6,
  idle <- v7, pushing <- v8, permits <- v9, queue <- v10, net <- v11

-----------------------------------------------------------------------------
(***************************************************************************)
(* A behaviour is one of a single component.  The variables it does not    *)
(* need keep the value <<>>, or the record layer's their initial value.    *)
(***************************************************************************)
Unused14 ==
  /\ v15 = <<>> /\ v16 = <<>> /\ v17 = <<>> /\ v18 = <<>> /\ v19 = <<>> /\ v20 = <<>> /\ v21 = <<>>
Rest14 == <<v15, v16, v17, v18, v19, v20, v21>>
Unused13 == v14 = <<>> /\ Unused14
Rest13 == <<v14, Rest14>>
Unused12 == v13 = <<>> /\ Unused13
Rest12 == <<v13, Rest13>>
Unused11 == v12 = <<>> /\ Unused12
Rest11 == <<v12, Rest12>>
Unused0 ==
  /\ v1 = <<>> /\ v2 = <<>> /\ v3 = <<>> /\ v4 = <<>> /\ v5 = <<>> /\ v6 = <<>>
  /\ v7 = <<>> /\ v8 = <<>> /\ v9 = <<>> /\ v10 = <<>> /\ v11 = <<>>
  /\ Unused11
Rest0 == <<v1, v2, v3, v4, v5, v6, v7, v8, v9, v10, v11, Rest11>>

SuiteInit ==
  /\ Init   \* of the record layer, which only its own part moves
  /\ \/ part = "handshake" /\ Hs!Init /\ Unused13
     \/ part = "record"    /\ Unused0
     \/ part = "front"     /\ Front!Init /\ Unused11
     \/ part = "local"     /\ Local!Init /\ Unused14
     \/ part = "bridge"    /\ Bridge!Init /\ Unused12
     \/ part = "udp"       /\ Udp!Init
     \/ part = "pooled"    /\ Shared!Init /\ Unused11
     \/ part = "own"       /\ Own!Init /\ Unused11

SuiteNext ==
  \/ part = "handshake" /\ Hs!Next /\ UNCHANGED <<part, recVars, Rest13>>
  \/ part = "record"    /\ Next /\ UNCHANGED <<part, Rest0>>
  \/ part = "front"     /\ Front!Next /\ UNCHANGED <<part, recVars, Rest11>>
  \/ part = "local"     /\ Local!Next /\ UNCHANGED <<part, recVars, Rest14>>
  \/ part = "bridge"    /\ Bridge!Next /\ UNCHANGED <<part, recVars, Rest12>>
  \/ part = "udp"       /\ Udp!Next /\ UNCHANGED <<part, recVars>>
  \/ part = "pooled"    /\ Shared!Next /\ UNCHANGED <<part, recVars, Rest11>>
  \/ part = "own"       /\ Own!Next /\ UNCHANGED <<part, recVars, Rest11>>

suiteVars == <<part, recVars, v1, v2, v3, v4, v5, v6, v7, v8, v9, v10, v11, v12, v13, v14, v15,
               v16, v17, v18, v19, v20, v21>>

\* The fairness of each component, while it runs.
SuiteFairness ==
  /\ WF_(Hs!hsVars)(part = "handshake" /\ Hs!ClientStep)
  /\ WF_(Hs!hsVars)(part = "handshake" /\ Hs!ServerStep)
  /\ WF_(Hs!hsVars)(part = "handshake" /\ Hs!ServerTimeout)
  /\ \A t \in Tasks : WF_recVars(part = "record" /\ Step(t))
  /\ WF_(Front!frontVars)(part = "front" /\ (Front!Step \/ Front!RequestTimeout))
  /\ WF_(Local!proxyVars)(part = "local" /\ Local!HandlerStep)
  /\ WF_(Bridge!bridgeVars)(part = "bridge" /\ Bridge!ServerOpens)
  /\ WF_(Bridge!bridgeVars)(part = "bridge" /\ (Bridge!OpenStatus \/ Bridge!OpenTimeout))
  /\ \A e \in {"C", "S"} :
       /\ WF_(Bridge!bridgeVars)(part = "bridge" /\ (Bridge!DownRead(e) \/ Bridge!DownEof(e)))
       /\ WF_(Bridge!bridgeVars)(part = "bridge" /\ Bridge!CloseTimeout(e))
       /\ WF_(Bridge!bridgeVars)(part = "bridge" /\ Bridge!WriterSend(e))
       /\ WF_(Bridge!bridgeVars)(part = "bridge" /\ Bridge!UpReads(e))
       /\ WF_(Bridge!bridgeVars)(part = "bridge" /\ Bridge!PeerGone(e))
  /\ WF_(Udp!vars)(part = "udp" /\ Udp!Forward) /\ WF_(Udp!vars)(part = "udp" /\ Udp!SendFrame)
  /\ WF_(Udp!vars)(part = "udp" /\ Udp!SendFails)
  /\ WF_(Udp!vars)(part = "udp" /\ (\/ Udp!ReadReply \/ Udp!ReadBad
                                   \/ Udp!ReadClose \/ Udp!ReadError))
  /\ WF_(Udp!vars)(part = "udp" /\ Udp!ReclaimTick)
  /\ WF_(Udp!vars)(part = "udp" /\ Udp!PauseOver)
  /\ WF_(Udp!vars)(part = "udp" /\ Udp!StopOnShutdown)
  /\ WF_(Udp!vars)(part = "udp" /\ Udp!ServerStep) /\ WF_(Udp!vars)(part = "udp" /\ Udp!AbortAll)
  /\ WF_(Udp!vars)(part = "udp" /\ Udp!AssocStep("a"))
  /\ \A r \in {"r1", "r2"} : WF_(Udp!vars)(part = "udp" /\ Udp!WorkerStep(r))
  /\ \A r \in 1..3 :
       /\ WF_(Shared!vars)(part = "pooled" /\ (Shared!Resolve(r) \/ Shared!Ephemeral(r)))
       /\ WF_(Shared!vars)(part = "pooled" /\ Shared!Lease(r))
       /\ WF_(Shared!vars)(part = "pooled" /\ (Shared!bind_udp_for_family(r) \/ Shared!BindFails(r)))
       /\ WF_(Shared!vars)(part = "pooled" /\ (Shared!Send(r) \/ Shared!SendFails(r)))
       /\ WF_(Shared!vars)(part = "pooled" /\ Shared!Recv(r))
       /\ WF_(Shared!vars)(part = "pooled" /\ Shared!RecvTimeout(r))
  /\ \A s \in {"s1", "s2"} : WF_(Shared!vars)(part = "pooled" /\ Shared!PushIdle(s))
  /\ \A r \in 1..2 :
       /\ WF_(Own!vars)(part = "own" /\ (Own!Resolve(r) \/ Own!Ephemeral(r)))
       /\ WF_(Own!vars)(part = "own" /\ Own!Lease(r))
       /\ WF_(Own!vars)(part = "own" /\ (Own!bind_udp_for_family(r) \/ Own!BindFails(r)))
       /\ WF_(Own!vars)(part = "own" /\ (Own!Send(r) \/ Own!SendFails(r)))
       /\ WF_(Own!vars)(part = "own" /\ Own!Recv(r))
       /\ WF_(Own!vars)(part = "own" /\ Own!RecvTimeout(r))
  /\ \A s \in {"s1", "s2"} : WF_(Own!vars)(part = "own" /\ Own!PushIdle(s))

SuiteSpec == SuiteInit /\ [][SuiteNext]_suiteVars /\ SuiteFairness

-----------------------------------------------------------------------------
\* Two ends that both finish hold the same keys, the server serves no client
\* of another configuration, and turns away none of its own that is quiet.
HandshakeAgrees == part = "handshake" => Hs!HandshakeAgrees

\* Every step of a connection's life ends: the handshake at both ends, also when
\* one takes a frame for another; the sealing of a frame; the first request; the
\* routing of a local connection, up to the dial of its target, which has no
\* deadline; and a bridge with a closed side, unless an application or a target
\* stops reading for good.
ConnectionsEnd ==
  /\ <>(part = "handshake" => Hs!ClientDone /\ Hs!ServerDone)
  /\ (part = "handshake" /\ Hs!Mistaken) ~> (part = "handshake" /\ Hs!ClientGone)
  /\ SealEnds
  /\ <>(part = "front" => Front!Answered)
  /\ (part = "local" /\ Local!Requested) ~> (part = "local" /\ Local!Routed)
  /\ \A e \in {"C", "S"} :
       (part = "bridge" /\ Bridge!Closing(e))
         ~> \/ part = "bridge" /\ (Bridge!Ended(e) \/ Bridge!PongDeadlock)
            \/ [](part = "bridge" /\ Bridge!Stalled("C"))
            \/ [](part = "bridge" /\ Bridge!Stalled("S"))

\* A slot whose request gave up is reclaimed, an association whose control
\* connection ended is over, and every request of the server ends.
UdpEnds ==
  /\ (part = "udp" /\ Udp!StaleSlot("x")) ~> (part = "udp" /\ ~Udp!StaleSlot("x"))
  /\ (part = "udp" /\ Udp!Orphaned("a")) ~> (part = "udp" /\ Udp!Over("a"))
  /\ <>((part = "pooled" => Shared!Done) /\ (part = "own" => Own!Done))
=============================================================================
