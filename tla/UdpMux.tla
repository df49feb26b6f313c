------------------------------- MODULE UdpMux -------------------------------
(***************************************************************************)
(* UDP over one WebSocket (udp_mux.rs and the SOCKS UDP ASSOCIATE loop of  *)
(* local_client.rs).                                                       *)
(*                                                                         *)
(* Each association turns an accepted datagram into a worker.  The worker  *)
(* draws a transaction id (xid), queues a Forward command for the one      *)
(* driver task and waits, at most reply_timeout, on a oneshot channel.     *)
(* The driver owns the outer session: it files the oneshot sender under    *)
(* its xid in `pending`, sends the request, and routes replies by xid; it  *)
(* reconnects when the session ends.  The server runs one task per request *)
(* under a semaphore and answers in any order, or not at all.              *)
(*                                                                         *)
(* A step is a stretch of code between two await points.  The payload of a *)
(* datagram is the datagram's name, so a reply says which request it       *)
(* answers.  Jitter, padding and pings carry no state.                     *)
(***************************************************************************)
EXTENDS Integers, Sequences, FiniteSets, Functions

CONSTANTS
  Assocs,        \* UDP associations
  Reqs,          \* datagrams the local applications send
  Ports,         \* source ports of the association owner's host
  Xids,          \* transaction ids (random u64 in the code)
  None,
  QueueCap,      \* UDP_MUX_CMD_QUEUE_CAP
  PendingCap,    \* UDP_MUX_CLIENT_PENDING_CAP
  WorkerCap,     \* SOCKS_UDP_WORKERS
  Inflight,      \* UDP_MUX_SERVER_MAX_INFLIGHT
  MaxRetries,    \* collision retries of a worker (8)
  BadLimit,      \* bad frames in a row that end a session (24)
  BadKinds,      \* which bad frames the peer may send: "sealed", "decode"
  MaxBad,        \* bound: bad frames ever received
  WireCap,       \* frames one direction of the connection can hold
  MaxSessions    \* bound: connections ever made

VARIABLES
  assoc,     \* each association: none, open, permit, closing, gone, dropped
  ctrl,      \* is its TCP control connection open
  port,      \* client_port: the latched source port
  held,      \* the datagram it holds while it waits for a worker permit
  worker,    \* per datagram: its worker task
  spent,     \* xids whose worker stopped waiting: not drawn again
  cmds,      \* the command queue, tickets [xid, req, try]
  drv,       \* the driver: none, connect, retry, idle, sending, backoff, stopped
  pending,   \* the session's map from xid to ticket
  out,       \* the ticket whose frame is being sent
  bad,       \* bad_frames
  badRun,    \* history: frames in a row that did not open
  badSent,   \* history: bad frames so far
  sent,      \* history: how often each request was put on a connection
  sessions,  \* history: connections so far
  wire,      \* the connection: open, closed
  up, down,  \* frames in flight
  hold,      \* request the server's reader holds while it waits for a permit
  jobs,      \* the server's request tasks
  main       \* run_local_client: running, shutdown, gone

assocVars == <<assoc, ctrl, port, held>>
serverVars == <<hold, jobs>>
wireVars == <<wire, up, down>>
sessionVars == <<pending, out, bad, badRun>>
vars == <<assocVars, worker, spent, cmds, drv, sessionVars, badSent, sent, sessions,
          wireVars, serverVars, main>>

Tickets == [xid : Xids, req : Reqs, try : 0..MaxRetries]
Ended == {"replied", "failed", "timeout", "aborted"}
InSession == {"idle", "sending"}
Live(r) == worker[r].st \in {"draw", "wait"}
WorkersOf(a) == {r \in Reqs : worker[r].assoc = a /\ Live(r)}

\* Types. The client's transaction table, the queues, both ends' tasks and limits.
TypeOK ==
  /\ assoc \in [Assocs -> {"none", "open", "permit", "closing", "gone", "dropped"}]
  /\ ctrl \in [Assocs -> BOOLEAN]
  /\ port \in [Assocs -> Ports \cup {None}]
  /\ held \in [Assocs -> Reqs \cup {None}]
  /\ worker \in [Reqs -> [st : {"none", "held", "draw", "wait"} \cup Ended,
                          assoc : Assocs \cup {None}, src : Ports \cup {None},
                          xid : Xids \cup {None}, try : 0..MaxRetries,
                          inbox : Reqs \cup {None, "collision", "error"},
                          got : Reqs \cup {None}]]
  /\ spent \subseteq Xids
  /\ cmds \in Seq(Tickets) /\ Len(cmds) <= QueueCap
  /\ drv \in {"none", "connect", "retry", "idle", "sending", "backoff", "stopped"}
  /\ DOMAIN pending \subseteq Xids /\ Range(pending) \subseteq Tickets
  /\ Cardinality(DOMAIN pending) <= PendingCap
  /\ out \in Tickets \cup {None}
  /\ bad \in 0..BadLimit /\ badRun \in 0..MaxBad /\ badSent \in 0..MaxBad
  /\ sent \in [Reqs -> Nat]
  /\ sessions \in 0..MaxSessions
  /\ wire \in {"open", "closed"}
  /\ Len(up) <= WireCap /\ Len(down) <= WireCap + MaxBad
  /\ jobs \subseteq [xid : Xids, req : Reqs]
  /\ Cardinality(jobs) <= Inflight
  /\ main \in {"running", "shutdown", "gone"}

Empty == [x \in {} |-> None]

Init ==
  /\ assoc = [a \in Assocs |-> "none"]
  /\ ctrl = [a \in Assocs |-> TRUE]
  /\ port = [a \in Assocs |-> None]
  /\ held = [a \in Assocs |-> None]
  /\ worker = [r \in Reqs |-> [st |-> "none", assoc |-> None, src |-> None,
                               xid |-> None, try |-> 0, inbox |-> None,
                               got |-> None]]
  /\ spent = {} /\ cmds = <<>> /\ drv = "none"
  /\ pending = Empty /\ out = None /\ bad = 0 /\ badRun = 0
  /\ badSent = 0 /\ sessions = 0 /\ sent = [r \in Reqs |-> 0]
  /\ wire = "closed" /\ up = <<>> /\ down = <<>>
  /\ hold = None /\ jobs = {}
  /\ main = "running"

-----------------------------------------------------------------------------
(* The oneshot channels. *)

\* The receiver of a ticket is gone: its worker gave up, or moved on.
IsClosed(t) == worker[t.req].st # "wait" \/ worker[t.req].try # t.try

\* entry.reply.send(v), which fails silently when the receiver is gone; a
\* sender that is dropped unused is an "error" to its receiver as well.
Answer(ts, v) ==
  [r \in Reqs |-> IF \E t \in ts : t.req = r /\ ~IsClosed(t)
                  THEN [worker[r] EXCEPT !.inbox = v] ELSE worker[r]]

\* The senders the driver holds.
HeldTickets == Range(cmds) \cup Range(pending)

reclaim_closed_pending == Restrict(pending, {x \in DOMAIN pending : ~IsClosed(pending[x])})

-----------------------------------------------------------------------------
(* The association loop. *)

\* The first association spawns the driver, under the slot lock.
Associate(a) ==
  /\ main = "running" /\ assoc[a] = "none"
  /\ assoc' = [assoc EXCEPT ![a] = "open"]
  /\ drv' = IF drv = "none" THEN "connect" ELSE drv
  /\ UNCHANGED <<ctrl, port, held, worker, spent, cmds, sessionVars, badSent, sent,
                 sessions, wireVars, serverVars, main>>

\* The IP of the source is the owner's: the others are dropped and leave no trace.
socks_udp_source_allowed(a, p) == port[a] \in {None, p}

\* The select is biased: a control connection that ended wins over a datagram.
RecvDatagram(a, r, p) ==
  /\ assoc[a] = "open" /\ ctrl[a]
  /\ worker[r].st = "none"
  /\ socks_udp_source_allowed(a, p)
  /\ port' = [port EXCEPT ![a] = IF @ = None THEN p ELSE @]
  /\ assoc' = [assoc EXCEPT ![a] = "permit"]
  /\ held' = [held EXCEPT ![a] = r]
  /\ worker' = [worker EXCEPT ![r].st = "held", ![r].assoc = a, ![r].src = p]
  /\ UNCHANGED <<ctrl, spent, cmds, drv, sessionVars, badSent, sent, sessions,
                 wireVars, serverVars, main>>

\* workers.acquire_owned().await: the loop sees nothing else meanwhile.
SpawnWorker(a) ==
  /\ assoc[a] = "permit"
  /\ Cardinality(WorkersOf(a)) < WorkerCap
  /\ assoc' = [assoc EXCEPT ![a] = "open"]
  /\ held' = [held EXCEPT ![a] = None]
  /\ worker' = [worker EXCEPT ![held[a]].st = "draw"]
  /\ UNCHANGED <<ctrl, port, spent, cmds, drv, sessionVars, badSent, sent, sessions,
                 wireVars, serverVars, main>>

\* The application closes the TCP control connection.
CtrlEof(a) ==
  /\ assoc[a] \in {"open", "permit"} /\ ctrl[a]
  /\ ctrl' = [ctrl EXCEPT ![a] = FALSE]
  /\ UNCHANGED <<assoc, port, held, worker, spent, cmds, drv, sessionVars,
                 badSent, sent, sessions, wireVars, serverVars, main>>

\* The loop breaks and abort_all marks the workers.
CloseAssoc(a) ==
  /\ assoc[a] = "open" /\ ~ctrl[a]
  /\ assoc' = [assoc EXCEPT ![a] = "closing"]
  /\ UNCHANGED <<ctrl, port, held, worker, spent, cmds, drv, sessionVars,
                 badSent, sent, sessions, wireVars, serverVars, main>>

\* join_next returned None.
AssocGone(a) ==
  /\ assoc[a] = "closing" /\ WorkersOf(a) = {}
  /\ assoc' = [assoc EXCEPT ![a] = "gone"]
  /\ UNCHANGED <<ctrl, port, held, worker, spent, cmds, drv, sessionVars,
                 badSent, sent, sessions, wireVars, serverVars, main>>

\* recv_from fails: `?` returns at once.  Dropping the JoinSet aborts the
\* workers, but a worker another thread is running still ends its step.
RecvError(a) ==
  /\ assoc[a] = "open" /\ ctrl[a]
  /\ assoc' = [assoc EXCEPT ![a] = "dropped"]
  /\ UNCHANGED <<ctrl, port, held, worker, spent, cmds, drv, sessionVars,
                 badSent, sent, sessions, wireVars, serverVars, main>>

-----------------------------------------------------------------------------
(* A worker. *)

\* The datagram does not parse.
WorkerRejects(r) ==
  /\ worker[r].st = "draw" /\ worker[r].try = 0
  /\ worker' = [worker EXCEPT ![r].st = "failed"]
  /\ UNCHANGED <<assocVars, spent, cmds, drv, sessionVars, badSent, sent, sessions,
                 wireVars, serverVars, main>>

\* UdpMuxHandle::forward: try_send of a fresh xid, or of one still in use.
forward(r, x) ==
  /\ worker[r].st = "draw" /\ x \notin spent
  /\ IF drv = "stopped" \/ Len(cmds) >= QueueCap
     THEN /\ worker' = [worker EXCEPT ![r].st = "failed"]
          /\ UNCHANGED cmds
     ELSE /\ worker' = [worker EXCEPT ![r].st = "wait", ![r].xid = x]
          /\ cmds' = Append(cmds, [xid |-> x, req |-> r, try |-> worker[r].try])
  /\ UNCHANGED <<assocVars, spent, drv, sessionVars, badSent, sent, sessions,
                 wireVars, serverVars, main>>

\* timeout(reply_timeout, rx): a value that is there is taken first.
WorkerTimeout(r) ==
  /\ worker[r].st = "wait" /\ worker[r].inbox = None
  /\ worker' = [worker EXCEPT ![r].st = "timeout"]
  /\ spent' = spent \cup {worker[r].xid}
  /\ UNCHANGED <<assocVars, cmds, drv, sessionVars, badSent, sent, sessions,
                 wireVars, serverVars, main>>

\* Mutant: every error is retried.
RetryEveryError(r) ==
  LET w == worker[r] IN
  /\ w.st = "wait" /\ w.inbox # None
  /\ worker' = [worker EXCEPT ![r] =
       IF w.inbox \in Reqs THEN [w EXCEPT !.st = "replied", !.got = w.inbox]
       ELSE IF w.try < MaxRetries
       THEN [w EXCEPT !.st = "draw", !.try = @ + 1, !.inbox = None]
       ELSE [w EXCEPT !.st = "failed"]]
  /\ spent' = spent \cup {w.xid}
  /\ UNCHANGED <<assocVars, cmds, drv, sessionVars, badSent, sent, sessions,
                 wireVars, serverVars, main>>

WorkerAnswered(r) ==
  LET w == worker[r] IN
  /\ w.st = "wait" /\ w.inbox # None
  /\ worker' = [worker EXCEPT ![r] =
       IF w.inbox \in Reqs THEN [w EXCEPT !.st = "replied", !.got = w.inbox]
       ELSE IF w.inbox = "collision" /\ w.try < MaxRetries
       THEN [w EXCEPT !.st = "draw", !.try = @ + 1, !.inbox = None]
       ELSE [w EXCEPT !.st = "failed"]]
  /\ spent' = spent \cup {w.xid}
  /\ UNCHANGED <<assocVars, cmds, drv, sessionVars, badSent, sent, sessions,
                 wireVars, serverVars, main>>

\* An abort lands when the worker is next polled.
WorkerAborted(r) ==
  /\ Live(r) /\ assoc[worker[r].assoc] \in {"closing", "gone", "dropped"}
  /\ worker' = [worker EXCEPT ![r].st = "aborted"]
  /\ spent' = IF worker[r].st = "wait" THEN spent \cup {worker[r].xid} ELSE spent
  /\ UNCHANGED <<assocVars, cmds, drv, sessionVars, badSent, sent, sessions,
                 wireVars, serverVars, main>>

-----------------------------------------------------------------------------
(* The driver: connecting. *)

ConnectOk ==
  /\ drv = "connect" /\ sessions < MaxSessions
  /\ drv' = "idle"
  /\ sessions' = sessions + 1
  /\ pending' = Empty /\ out' = None /\ bad' = 0 /\ badRun' = 0
  /\ wire' = "open" /\ up' = <<>> /\ down' = <<>>
  /\ hold' = None /\ jobs' = {}
  /\ UNCHANGED <<assocVars, worker, spent, cmds, badSent, sent, main>>

\* connect_udp_mux_ws_resilient sleeps after a failed connect.
ConnectFail ==
  /\ drv = "connect"
  /\ drv' = "retry"
  /\ UNCHANGED <<assocVars, worker, spent, cmds, sessionVars, badSent, sent,
                 sessions, wireVars, serverVars, main>>

\* The end of either pause.
PauseOver ==
  /\ drv \in {"retry", "backoff"} /\ main = "running"
  /\ drv' = "connect"
  /\ UNCHANGED <<assocVars, worker, spent, cmds, sessionVars, badSent, sent,
                 sessions, wireVars, serverVars, main>>

\* The receiver of the queue and the session's map are dropped with the driver.
Stopped ==
  /\ drv' = "stopped"
  /\ worker' = Answer(HeldTickets, "error")
  /\ cmds' = <<>> /\ pending' = Empty /\ out' = None
  /\ UNCHANGED <<bad, badRun>>

\* The shutdown flag is looked at before a connect and ends a pause.
StopOnShutdown ==
  /\ drv \in {"connect", "retry", "backoff"} /\ main # "running"
  /\ Stopped
  /\ UNCHANGED <<assocVars, spent, badSent, sent, sessions, wireVars, serverVars, main>>

-----------------------------------------------------------------------------
(* The driver: one session. *)

\* Ok(false): every pending request is answered, the queue is kept, and the
\* next iteration connects (or sees the shutdown flag).
SessionOver ==
  /\ worker' = Answer(Range(pending), "error")
  /\ pending' = Empty /\ out' = None
  /\ drv' = "connect"
  /\ wire' = "closed"
  /\ UNCHANGED <<bad, badRun>>

\* Err(..): the map is dropped, and the driver pauses.
SessionFailed ==
  /\ worker' = Answer(Range(pending), "error")
  /\ pending' = Empty /\ out' = None
  /\ drv' = "backoff"
  /\ wire' = "closed"

\* The Forward arm up to the send.
Forward ==
  /\ drv = "idle" /\ cmds # <<>>
  /\ LET t == Head(cmds)
         kept == reclaim_closed_pending
         refused == CASE Cardinality(DOMAIN kept) >= PendingCap -> "error"
                      [] t.xid \in DOMAIN kept -> "collision"
                      [] OTHER -> None
     IN /\ cmds' = Tail(cmds)
        /\ IF refused # None
           THEN /\ worker' = Answer({t}, refused)
                /\ pending' = kept
                /\ UNCHANGED <<drv, out>>
           ELSE \/ /\ pending' = [x \in DOMAIN kept \cup {t.xid} |->
                                    IF x = t.xid THEN t ELSE kept[x]]
                   /\ drv' = "sending" /\ out' = t
                   /\ UNCHANGED worker
                \/ \* encode_udp_req or pack_tunnel_out refuses it
                   /\ worker' = Answer({t}, "error")
                   /\ pending' = kept
                   /\ UNCHANGED <<drv, out>>
  /\ UNCHANGED <<assocVars, spent, bad, badRun, badSent, sent, sessions, wireVars,
                 serverVars, main>>

SendFrame ==
  /\ drv = "sending" /\ wire = "open" /\ Len(up) < WireCap
  /\ up' = Append(up, [xid |-> out.xid, req |-> out.req])
  /\ sent' = [sent EXCEPT ![out.req] = @ + 1]
  /\ drv' = "idle" /\ out' = None
  /\ UNCHANGED <<assocVars, worker, spent, cmds, pending, bad, badRun, badSent,
                 sessions, wire, down, serverVars, main>>

\* The send fails: the request is answered with it and the session is over.
SendFails ==
  /\ drv = "sending" /\ wire = "closed"
  /\ SessionOver
  /\ UNCHANGED <<assocVars, spent, cmds, badSent, sent, sessions, up, down,
                 serverVars, main>>

\* A reply: late ones find no entry.
ReadReply ==
  /\ drv = "idle" /\ down # <<>> /\ Head(down).kind = "rep"
  /\ LET m == Head(down) IN
     IF m.xid \in DOMAIN pending
     THEN \E v \in {m.req, "error"} :   \* build_socks5_udp_datagram may refuse
          /\ worker' = Answer({pending[m.xid]}, v)
          /\ pending' = Restrict(pending, DOMAIN pending \ {m.xid})
     ELSE UNCHANGED <<worker, pending>>
  /\ down' = Tail(down)
  /\ bad' = 0 /\ badRun' = 0
  /\ UNCHANGED <<assocVars, spent, cmds, drv, out, badSent, sent, sessions, wire, up,
                 serverVars, main>>

\* bad_frames after a bad frame: a frame that opens but does not decode has
\* already reset the count.
BadCount(kind) == (IF kind = "decode" THEN 0 ELSE bad) + 1

\* A frame that does not open, or does not decode as UDP_REP.
ReadBad ==
  /\ drv = "idle" /\ down # <<>> /\ Head(down).kind \in BadKinds
  /\ down' = Tail(down)
  /\ bad' = BadCount(Head(down).kind)
  /\ IF bad' >= BadLimit
     THEN SessionFailed /\ badRun' = 0
     ELSE /\ badRun' = IF Head(down).kind = "decode" THEN 0 ELSE badRun + 1
          /\ UNCHANGED <<worker, pending, out, drv, wire>>
  /\ UNCHANGED <<assocVars, spent, cmds, badSent, sent, sessions, up, serverVars, main>>

\* Close, or end of stream.
ReadClose ==
  /\ drv = "idle" /\ down = <<>> /\ wire = "closed"
  /\ SessionOver
  /\ UNCHANGED <<assocVars, spent, cmds, badSent, sent, sessions, up, down,
                 serverVars, main>>

\* ws read error.
ReadError ==
  /\ drv = "idle" /\ wire = "closed"
  /\ SessionFailed
  /\ UNCHANGED <<assocVars, spent, cmds, bad, badRun, badSent, sent, sessions, up,
                 down, serverVars, main>>

\* Mutant: slots are reclaimed by later Forward commands only.
IdleTick ==
  /\ drv = "idle" /\ UNCHANGED vars

ReclaimTick ==
  /\ drv = "idle" /\ reclaim_closed_pending # pending
  /\ pending' = reclaim_closed_pending
  /\ UNCHANGED <<assocVars, worker, spent, cmds, drv, out, bad, badRun, badSent, sent,
                 sessions, wireVars, serverVars, main>>

-----------------------------------------------------------------------------
(* The server's bridge. *)

SrvRead ==
  /\ wire = "open" /\ hold = None /\ up # <<>>
  /\ hold' = Head(up) /\ up' = Tail(up)
  /\ UNCHANGED <<assocVars, worker, spent, cmds, drv, sessionVars, badSent, sent,
                 sessions, wire, down, jobs, main>>

\* sem.acquire_owned().await, then spawn; the reader reads nothing meanwhile.
SrvSpawn ==
  /\ hold # None /\ wire = "open"
  /\ Cardinality(jobs) < Inflight
  /\ jobs' = jobs \cup {hold} /\ hold' = None
  /\ UNCHANGED <<assocVars, worker, spent, cmds, drv, sessionVars, badSent, sent,
                 sessions, wireVars, main>>

\* A reply, or the empty reply after recv_timeout, in any order.
JobReplies(j) ==
  /\ wire = "open" /\ Len(down) < WireCap
  /\ down' = Append(down, [kind |-> "rep", xid |-> j.xid, req |-> j.req])
  /\ jobs' = jobs \ {j}
  /\ UNCHANGED <<assocVars, worker, spent, cmds, drv, sessionVars, badSent, sent,
                 sessions, wire, up, hold, main>>

\* Resolution, bind, send or encoding fails: no reply.
JobFails(j) ==
  /\ jobs' = jobs \ {j}
  /\ UNCHANGED <<assocVars, worker, spent, cmds, drv, sessionVars, badSent, sent,
                 sessions, wireVars, hold, main>>

\* The bridge returns or the connection breaks; its tasks are aborted.
WireCloses ==
  /\ wire = "open"
  /\ wire' = "closed" /\ hold' = None /\ jobs' = {}
  /\ \E n \in 0..Len(down) : down' = SubSeq(down, 1, n)
  /\ UNCHANGED <<assocVars, worker, spent, cmds, drv, sessionVars, badSent, sent,
                 sessions, up, main>>

\* The peer sends a frame that does not open or does not decode.
PeerSendsBad(k) ==
  /\ wire = "open" /\ badSent < MaxBad
  /\ badSent' = badSent + 1
  /\ down' = Append(down, [kind |-> k])
  /\ UNCHANGED <<assocVars, worker, spent, cmds, drv, sessionVars, sent, sessions,
                 wire, up, serverVars, main>>

-----------------------------------------------------------------------------
(* The end of the client. *)

Shutdown ==
  /\ main = "running" /\ main' = "shutdown"
  /\ UNCHANGED <<assocVars, worker, spent, cmds, drv, sessionVars, badSent, sent,
                 sessions, wireVars, serverVars>>

\* The slot is cleared and abort_all drops the driver and the associations.
AbortAll ==
  /\ main = "shutdown" /\ main' = "gone"
  /\ assoc' = [a \in Assocs |-> IF assoc[a] \in {"open", "permit", "closing"}
                                THEN "dropped" ELSE assoc[a]]
  /\ drv' = "stopped"
  /\ worker' = [r \in Reqs |-> IF worker[r].st = "held"
                               THEN [worker[r] EXCEPT !.st = "aborted"]
                               ELSE Answer(HeldTickets, "error")[r]]
  /\ held' = [a \in Assocs |-> None]
  /\ cmds' = <<>> /\ pending' = Empty /\ out' = None /\ wire' = "closed"
  /\ UNCHANGED <<ctrl, port, spent, bad, badRun, badSent, sent, sessions, up, down,
                 serverVars>>

-----------------------------------------------------------------------------
DriverStep ==
  \/ ConnectOk \/ ConnectFail \/ PauseOver \/ StopOnShutdown
  \/ Forward \/ SendFrame \/ SendFails
  \/ ReadReply \/ ReadBad \/ ReadClose \/ ReadError
  \/ ReclaimTick

ServerStep ==
  \/ SrvRead \/ SrvSpawn
  \/ \E j \in jobs : JobReplies(j) \/ JobFails(j)

AssocStep(a) == SpawnWorker(a) \/ CloseAssoc(a) \/ AssocGone(a)

WorkerStep(r) ==
  \/ WorkerRejects(r) \/ WorkerTimeout(r) \/ WorkerAnswered(r) \/ WorkerAborted(r)
  \/ \E x \in Xids : forward(r, x)

Next ==
  \/ DriverStep \/ ServerStep
  \/ \E a \in Assocs :
       \/ Associate(a) \/ AssocStep(a) \/ CtrlEof(a) \/ RecvError(a)
       \/ \E r \in Reqs, p \in Ports : RecvDatagram(a, r, p)
  \/ \E r \in Reqs : WorkerStep(r)
  \/ WireCloses \/ \E k \in BadKinds : PeerSendsBad(k)
  \/ Shutdown \/ AbortAll

\* Tasks that can run are scheduled; timers fire; the server's tasks end (their
\* only unbounded wait is for room on the connection).  Nothing is assumed of
\* connects, of the peers or of the applications.
Fairness ==
  /\ WF_vars(Forward) /\ WF_vars(SendFrame) /\ WF_vars(SendFails)
  /\ WF_vars(ReadReply \/ ReadBad \/ ReadClose \/ ReadError)
  /\ WF_vars(ReclaimTick)
  /\ WF_vars(PauseOver) /\ WF_vars(StopOnShutdown)
  /\ WF_vars(ServerStep)
  /\ WF_vars(AbortAll)
  /\ \A a \in Assocs : WF_vars(AssocStep(a))
  /\ \A r \in Reqs : WF_vars(WorkerStep(r))

SafetySpec == Init /\ [][Next]_vars
Spec == SafetySpec /\ Fairness

-----------------------------------------------------------------------------
(* Properties. *)

\* Replies are routed by xid only.  A worker is handed the answer to another
\* datagram in one case alone: both drew the same xid and the other had already
\* given up; a request that still waits never loses its answer to another one.
RepliesMatch ==
  \A r \in Reqs : worker[r].got \notin {None, r} =>
    /\ worker[worker[r].got].st \in {"timeout", "aborted"}
    /\ worker[worker[r].got].xid = worker[r].xid

\* A datagram is put on a connection at most once, whatever ends sessions: only
\* a collision, refused before the send, makes a worker forward it again.
AtMostOnce == \A r \in Reqs : sent[r] <= 1

\* run_socks_udp_assoc: when the loop has returned after the control connection
\* ended, no worker of the association is left to send a reply.
NothingAfterAssociation ==
  \A a \in Assocs : assoc[a] = "gone" => WorkersOf(a) = {}

\* The same for every way the association can end.
\* The code does not keep this, see the README, section 4.
NothingAfterAnyEnd ==
  \A a \in Assocs : assoc[a] \in {"gone", "dropped"} => WorkersOf(a) = {}

\* All datagrams an association accepts come from one source port.
OneSourcePort ==
  \A r, s \in Reqs : worker[r].assoc # None /\ worker[r].assoc = worker[s].assoc
                       => worker[r].src = worker[s].src

\* A session does not survive BadLimit frames in a row that do not open.  A frame
\* that opens and does not decode starts the count again and adds one to it: such
\* frames by themselves never end a session, however many they are.
BadFramesCounted ==
  drv \in InSession => badRun < BadLimit /\ bad \in badRun..(badRun + 1)

\* The driver pauses before every reconnect.
\* The code does not keep this, see the README, section 4.
PausesBeforeReconnect == [][(drv \in InSession) => (drv' # "connect")]_drv

StaleSlot(x) == x \in DOMAIN pending /\ IsClosed(pending[x])
Orphaned(a) == ~ctrl[a]
Over(a) == assoc[a] \in {"gone", "dropped"}

\* The slot of a worker that stopped waiting does not stay in the map.
StaleSlotsReclaimed == \A x \in Xids : StaleSlot(x) ~> ~StaleSlot(x)

\* An association whose control connection ended goes away, even if the end came
\* while the loop was waiting for a worker permit.
AssociationEnds == \A a \in Assocs : Orphaned(a) ~> Over(a)

\* A datagram is requested at most once and answered by its own reply, for an
\* association that lives, at the port it came from; frames that do not open end
\* a session, frames that only do not decode do not.
RepliesExact ==
    /\ TypeOK
    /\ RepliesMatch
    /\ AtMostOnce
    /\ NothingAfterAssociation
    /\ OneSourcePort
    /\ BadFramesCounted
=============================================================================
