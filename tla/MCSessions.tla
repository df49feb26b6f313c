----------------------------- MODULE MCSessions -----------------------------
(***************************************************************************)
(* The authentication limiter on its own, and the two ends of the outer    *)
(* connections: the server's connections with their permits and the        *)
(* callers of the client's session pool, each under the fairness of its    *)
(* scheduler.                                                              *)
(***************************************************************************)
EXTENDS AuthRateLimiter

VARIABLES part,   \* the component that runs
          v1, v2, v3, v4, v5, v6, v7, v8, v9, v10, v11, v12, v13, v14, v15,
          v16, v17   \* its variables

Server == INSTANCE ServerSession WITH
  Conns <- {"a", "b", "c"},
  IpOf <- [c \in {"a", "b", "c"} |-> IF c = "c" THEN 2 ELSE 1], Users <- {"u"},
  UserLimit <- [u \in {"u"} |-> 1], NoUser <- "none", MaxSessions <- 1, MaxJunk <- 1,
  MaxDecrypt <- 1, Ips <- {1, 2}, MaxFailures <- 2, WindowLen <- 1, BanLen <- 1,
  MaxTracked <- 1, MaxTime <- 2,
  now <- v1, tracked <- v2, banned <- v3, until <- v4, failures <- v5, start <- v6,
  bansActive <- v7, reality <- v8, enabled <- v9, active <- v10, pc <- v11, user <- v12,
  junk <- v13, decrypt <- v14, charged <- v15

Pool == INSTANCE MuxPool WITH
  Callers <- {"a", "b"}, Fill <- "fill", Parallel <- 2, ConnectAttempts <- 2,
  SlotRetries <- 1, MaxSessions <- 3,
  slot <- v1, members <- v2, ended <- v3, sess <- v4, serial <- v5, pc <- v6,
  tries <- v7, batches <- v8, dials <- v9, hand <- v10, registered <- v11, woken <- v12,
  fill <- v13, fillPool <- v14, filling <- v15, main <- v16, shutdown <- v17

-----------------------------------------------------------------------------
(***************************************************************************)
(* A behaviour is one of a single component.  The variables it does not    *)
(* need keep the value <<>>, and those of AuthRateLimiter their first      *)
(* value.                                                                  *)
(***************************************************************************)
Unused15 == v16 = <<>> /\ v17 = <<>>
Rest15 == <<v16, v17>>
Unused0 ==
  /\ v1 = <<>> /\ v2 = <<>> /\ v3 = <<>> /\ v4 = <<>> /\ v5 = <<>> /\ v6 = <<>> /\ v7 = <<>>
  /\ v8 = <<>> /\ v9 = <<>> /\ v10 = <<>> /\ v11 = <<>> /\ v12 = <<>> /\ v13 = <<>> /\ v14 = <<>>
  /\ v15 = <<>> /\ Unused15
Rest0 == <<v1, v2, v3, v4, v5, v6, v7, v8, v9, v10, v11, v12, v13, v14, v15, Rest15>>

SuiteInit ==
  \/ part = "limiter" /\ Init /\ Unused0
  \/ part = "server"  /\ Server!Init /\ Init /\ Unused15
  \/ part = "pool"    /\ Pool!Init /\ Init

SuiteNext ==
  \/ part = "limiter" /\ Next /\ UNCHANGED <<part, Rest0>>
  \/ part = "server"  /\ Server!Next /\ UNCHANGED <<part, Rest15, vars>>
  \/ part = "pool"    /\ Pool!Next /\ UNCHANGED <<part, vars>>

suiteVars == <<part, v1, v2, v3, v4, v5, v6, v7, v8, v9, v10, v11, v12, v13, v14, v15,
               v16, v17, vars>>

\* The fairness of each component, while it runs.
SuiteFairness ==
  /\ \A c \in {"a", "b", "c"} :
       /\ WF_(Server!vars)(part = "server" /\ Server!Timeout(c))
       /\ WF_(Server!vars)(part = "server" /\ Server!TaskStep(c))
  /\ \A c \in {"a", "b"} : WF_(Pool!vars)(part = "pool" /\ Pool!CallerStep(c))
  /\ WF_(Pool!vars)(part = "pool" /\ Pool!FillStep)
  /\ \A s \in 1..3 :
       /\ WF_(Pool!vars)(part = "pool" /\ Pool!RemoveSession(s))
       /\ WF_(Pool!vars)(part = "pool" /\ Pool!EndsOnShutdown(s))
  /\ WF_(Pool!vars)(part = "pool" /\ Pool!ClearSlot)
  /\ WF_(Pool!vars)(part = "pool" /\ Pool!AbortsCleared)

SuiteSpec == SuiteInit /\ [][SuiteNext]_suiteVars /\ SuiteFairness

-----------------------------------------------------------------------------
\* Whoever holds a permit before the tunnel, or waits for one, gets through or
\* is closed, although no peer need ever send anything.
SilentPeersGiveWay ==
  \A c \in {"a", "b", "c"} :
    (part = "server" /\ Server!BeforeTunnel(c)) ~> (part = "server" /\ Server!Through(c))

\* Unless the first answer of a batch never comes (no dial has a timeout),
\* every caller gets a stream, a dedicated tunnel or an error, even if the
\* other links of the batch stall for ever while the fill task owns the
\* connect lock.
CallersFinish ==
  []<>(part = "pool" => ~Pool!Dialing) =>
    \A c \in {"a", "b"} :
      (part = "pool" /\ Pool!Starts(c)) ~> (part = "pool" /\ Pool!Finished(c))
=============================================================================
