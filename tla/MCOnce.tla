------------------------------- MODULE MCOnce -------------------------------
(***************************************************************************)
(* What must happen at most once: a UDP datagram's request and its reply   *)
(* through the UDP mux, and the admission of a REALITY nonce.              *)
(***************************************************************************)
EXTENDS Reality, TLC

CONSTANT Xids   \* transaction ids

VARIABLES part,   \* the component that runs
          v1, v2, v3, v4, v5, v6, v7, v8, v9, v10, v11, v12, v13, v14, v15,
          v16, v17, v18, v19, v20, v21   \* the variables of UdpMux

udpVars == <<v1, v2, v3, v4, v5, v6, v7, v8, v9, v10, v11, v12, v13, v14, v15,
             v16, v17, v18, v19, v20, v21>>

Udp == INSTANCE UdpMux WITH
  Assocs <- {"a"}, Reqs <- Conns, Ports <- Clients, QueueCap <- 2, PendingCap <- 2,
  WorkerCap <- 2, Inflight <- 1, MaxRetries <- 1, BadLimit <- 2, BadKinds <- {},
  MaxBad <- 0, WireCap <- 2, MaxSessions <- 2,
  assoc <- v1, ctrl <- v2, port <- v3, held <- v4, worker <- v5, spent <- v6,
  cmds <- v7, drv <- v8, pending <- v9, out <- v10, bad <- v11, badRun <- v12,
  badSent <- v13, sent <- v14, sessions <- v15, wire <- v16, up <- v17, down <- v18,
  hold <- v19, jobs <- v20, main <- v21

Garbled == INSTANCE UdpMux WITH
  Assocs <- {"a"}, Reqs <- {"r"}, Ports <- {"p"}, Xids <- {"x"}, QueueCap <- 1,
  PendingCap <- 1, WorkerCap <- 1, Inflight <- 1, MaxRetries <- 0, BadLimit <- 2,
  BadKinds <- {"sealed", "decode"}, MaxBad <- 3, WireCap <- 1, MaxSessions <- 2,
  assoc <- v1, ctrl <- v2, port <- v3, held <- v4, worker <- v5, spent <- v6,
  cmds <- v7, drv <- v8, pending <- v9, out <- v10, bad <- v11, badRun <- v12,
  badSent <- v13, sent <- v14, sessions <- v15, wire <- v16, up <- v17, down <- v18,
  hold <- v19, jobs <- v20, main <- v21

-----------------------------------------------------------------------------
(***************************************************************************)
(* A behaviour is one of a single component.  The variables of UdpMux are  *)
(* <<>> where it does not run, those of Reality keep one first value.      *)
(***************************************************************************)
NoReality == Init /\ cap = 1 /\ \A c \in Clients : client[c].token = "good"

SuiteInit ==
  \/ part = "udp"     /\ Udp!Init /\ NoReality
  \/ part = "garbled" /\ Garbled!Init /\ NoReality
  \/ /\ part = "reality" /\ Init
     /\ v1 = <<>> /\ v2 = <<>> /\ v3 = <<>> /\ v4 = <<>> /\ v5 = <<>> /\ v6 = <<>> /\ v7 = <<>>
     /\ v8 = <<>> /\ v9 = <<>> /\ v10 = <<>> /\ v11 = <<>> /\ v12 = <<>> /\ v13 = <<>>
     /\ v14 = <<>> /\ v15 = <<>> /\ v16 = <<>> /\ v17 = <<>> /\ v18 = <<>> /\ v19 = <<>>
     /\ v20 = <<>> /\ v21 = <<>>

SuiteNext ==
  \/ part = "udp"     /\ Udp!Next /\ UNCHANGED <<part, realityVars>>
  \/ part = "garbled" /\ Garbled!Next /\ UNCHANGED <<part, realityVars>>
  \/ part = "reality" /\ Next /\ UNCHANGED <<part, udpVars>>

suiteVars == <<part, udpVars, realityVars>>

SuiteSpec == SuiteInit /\ [][SuiteNext]_suiteVars

\* Connections (or datagrams), clients (or ports) and xids are interchangeable;
\* only invariants are checked.
Symmetry == Permutations(Conns) \cup Permutations(Clients) \cup Permutations(Xids)

-----------------------------------------------------------------------------
\* A datagram is requested at most once and answered by its own reply, for an
\* association that lives, at the port it came from; frames that do not open end
\* a session, frames that only do not decode do not.
DatagramsOnce ==
  /\ part = "udp" => Udp!RepliesExact
  /\ part = "garbled" => Garbled!RepliesExact
=============================================================================
