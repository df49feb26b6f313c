------------------------------- MODULE MuxPool -------------------------------
(***************************************************************************)
(* The client's pool of outer WSS sessions (local_client.rs, tcp_mux.rs).  *)
(*                                                                         *)
(* Every local connection (a Caller) needs a mux session.  The first one   *)
(* that finds the slot empty takes the process-wide connect lock, dials    *)
(* Parallel links at once and publishes the first that answers as a new    *)
(* pool; the rest of the batch, and the connect lock with it, move to a    *)
(* background fill task that publishes late answers into the same pool.    *)
(* Session tasks end on their own and take themselves out of the pool.     *)
(*                                                                         *)
(* A step is a stretch of code between two await points, except where the  *)
(* slot lock is held over a spawn: "spawn" has the lock, "push" has also   *)
(* spawned the session task, which already runs, and pushes it next.       *)
(***************************************************************************)
EXTENDS Integers, FiniteSets

CONSTANTS
  Callers,          \* the local connections
  Parallel,         \* cfg.ws_parallel, clamped to 1..4
  ConnectAttempts,  \* dial batches a caller makes before it gives up
  SlotRetries,      \* TCP_MUX_SLOT_RETRIES
  MaxSessions,      \* bound: sessions ever spawned
  Fill              \* the fill task, as an owner of the connect lock

ASSUME PoolAssumption ==
  /\ Parallel \in Nat \ {0} /\ ConnectAttempts \in Nat \ {0}
  /\ SlotRetries \in Nat \ {0} /\ MaxSessions \in Nat
  /\ Fill \notin Callers /\ "free" \notin Callers \cup {Fill}

Free == "free"      \* the connect lock has no owner
NoPool == 0         \* the slot holds None
Sessions == 1..MaxSessions

VARIABLES
  slot,        \* the current pool, named by its first session; or NoPool
  members,     \* pool.sessions of the current pool
  ended,       \* the `ended` watch the fill task holds fired or was dropped
  sess,        \* each session task
  serial,      \* owner of tcp_mux_connect_serial
  pc,          \* where each caller is
  tries,       \* loop counter of tcp_mux_open_stream_with_retry
  batches,     \* loop counter of connect_tcp_mux_handle_attempts
  dials,       \* links being dialled, by the caller or the fill task
  hand,        \* the session a caller picked or is pushing
  registered,  \* callers enrolled with tcp_mux_ready_notify
  woken,       \* those of them that notify_waiters reached
  fill,        \* the fill task: none, wait, lock, spawn, push
  fillPool,    \* the pool it fills (`expected`)
  filling,     \* the session it is pushing
  main,        \* run_local_client: running, cleared, gone
  shutdown     \* the shutdown watch

pool == <<slot, members>>
fillVars == <<fill, fillPool, filling, ended>>
notify == <<registered, woken>>
loops == <<tries, batches>>
vars == <<pool, sess, serial, pc, loops, dials, hand, notify, fillVars,
          main, shutdown>>

Final == {"served", "tunnel", "failed", "aborted"}
Steps == Final \cup {"idle", "start", "pick", "open", "prune", "register",
                     "check", "select", "recheck", "dial", "backoff",
                     "publish", "spawn", "push"}
Locked == {"spawn", "push"}
Owners == Callers \cup {Fill}

\* The slot of the pool, the sessions it holds and where each caller stands.
Values ==
  /\ slot \in {NoPool} \cup Sessions
  /\ members \subseteq Sessions
  /\ sess \in [Sessions -> {"none", "alive", "closed", "done", "aborted"}]
  /\ serial \in Owners \cup {Free}
  /\ pc \in [Callers -> Steps]
  /\ tries \in [Callers -> 0..SlotRetries]
  /\ batches \in [Callers -> 0..ConnectAttempts]
  /\ dials \in [Owners -> 0..Parallel]
  /\ hand \in [Callers -> {NoPool} \cup Sessions]
  /\ registered \subseteq Callers /\ woken \subseteq registered
  /\ fill \in {"none", "wait", "lock", "spawn", "push"}
  /\ fillPool \in {NoPool} \cup Sessions
  /\ filling \in {NoPool} \cup Sessions
  /\ main \in {"running", "cleared", "gone"}

\* Types: the values above and the two watches.
TypeOK == Values /\ ended \in BOOLEAN /\ shutdown \in BOOLEAN

Init ==
  /\ slot = NoPool /\ members = {} /\ ended = FALSE
  /\ sess = [s \in Sessions |-> "none"]
  /\ serial = Free
  /\ pc = [c \in Callers |-> "idle"]
  /\ tries = [c \in Callers |-> 0]
  /\ batches = [c \in Callers |-> 0]
  /\ dials = [o \in Owners |-> 0]
  /\ hand = [c \in Callers |-> NoPool]
  /\ registered = {} /\ woken = {}
  /\ fill = "none" /\ fillPool = NoPool /\ filling = NoPool
  /\ main = "running" /\ shutdown = FALSE

-----------------------------------------------------------------------------
(* The slot and the connect lock                                           *)

Goto(c, l) == pc' = [pc EXCEPT ![c] = l]

\* The slot lock is held over an await only to publish a session.
SlotFree == fill \notin Locked /\ \A c \in Callers : pc[c] \notin Locked

\* TcpMuxClientHandle.endpoint.load() is None once the endpoint is closed.
Loadable(s) == sess[s] = "alive"

HasSessions == slot # NoPool /\ members # {}

\* Give up the connect lock if o owns it, and drop the dials in progress.
Release(o) ==
  /\ serial' = IF serial = o THEN Free ELSE serial
  /\ dials' = [dials EXCEPT ![o] = 0]

\* Keep only the sessions in keep; an empty pool fires `ended` and clears
\* the slot.
Retain(keep) ==
  /\ members' = members \cap keep
  /\ IF slot # NoPool /\ members \cap keep = {}
       THEN slot' = NoPool /\ ended' = (ended \/ slot = fillPool)
       ELSE UNCHANGED <<slot, ended>>

\* The id of the next session: TCP_MUX_SESSION_GEN only grows.
Fresh == Cardinality({s \in Sessions : sess[s] # "none"}) + 1

\* Mutant: with_tasks does not look at the stopped flag.
UnguardedSpawn == sess' = [sess EXCEPT ![Fresh] = "alive"]

\* spawn_tcp_mux_client inside SessionGuard::with_tasks: a session spawned
\* after the guard was stopped is aborted before the guard's lock is freed.
Spawn == sess' = [sess EXCEPT ![Fresh] =
                    IF main = "gone" THEN "aborted" ELSE "alive"]

-----------------------------------------------------------------------------
(* A caller: tcp_mux_open_stream_with_retry                                *)

\* The accept loop spawns the task of a new local connection.
Arrive(c) ==
  /\ pc[c] = "idle" /\ main = "running"
  /\ Goto(c, "start")
  /\ UNCHANGED <<pool, sess, serial, loops, dials, hand, notify, fillVars,
                 main, shutdown>>

\* An empty slot sends the caller to connect_tcp_mux_handle.
Start(c) ==
  /\ pc[c] = "start" /\ SlotFree
  /\ Goto(c, IF slot = NoPool THEN "register" ELSE "pick")
  /\ UNCHANGED <<pool, sess, serial, loops, dials, hand, notify, fillVars,
                 main, shutdown>>

\* Another turn of the retry loop, or the end of it.
Retry(c) ==
  /\ tries' = [tries EXCEPT ![c] = @ + 1]
  /\ Goto(c, IF tries[c] + 1 < SlotRetries THEN "start" ELSE "failed")

\* Pool::pick under the slot lock: a loadable session, if there is one.  The
\* pool may have been cleared since Start looked.
Pick(c) ==
  /\ pc[c] = "pick" /\ SlotFree
  /\ \/ /\ slot = NoPool
        /\ Retry(c)
        /\ UNCHANGED hand
     \/ /\ slot # NoPool
        /\ \E s \in {m \in members : Loadable(m)} :
             hand' = [hand EXCEPT ![c] = s]
        /\ Goto(c, "open")
        /\ UNCHANGED tries
     \/ /\ slot # NoPool
        /\ \A s \in members : ~Loadable(s)
        /\ Goto(c, "prune")
        /\ UNCHANGED <<hand, tries>>
  /\ UNCHANGED <<pool, sess, serial, batches, dials, notify, fillVars,
                 main, shutdown>>

\* prune_stopped_mux_sessions, then the next turn of the loop.
Prune(c) ==
  /\ pc[c] = "prune" /\ SlotFree
  /\ IF slot = NoPool THEN UNCHANGED <<pool, ended>>
                      ELSE Retain({s \in Sessions : Loadable(s)})
  /\ Retry(c)
  /\ UNCHANGED <<sess, serial, batches, dials, hand, notify, fill, fillPool,
                 filling, main, shutdown>>

\* open_stream on the picked handle.  The session may have ended since it
\* was picked; it may be full, which sends a PSK client to a dedicated
\* tunnel; any other error is the caller's.
Open(c) ==
  /\ pc[c] = "open"
  /\ \/ Loadable(hand[c]) /\ \E l \in {"served", "tunnel", "failed"} : Goto(c, l)
     \/ ~Loadable(hand[c]) /\ Goto(c, "prune")
  /\ hand' = [hand EXCEPT ![c] = NoPool]
  /\ UNCHANGED <<pool, sess, serial, loops, dials, notify, fillVars,
                 main, shutdown>>

-----------------------------------------------------------------------------
(* A caller: wait_for_mux_connect                                          *)

\* Enrol with the notifier before looking at the slot.
Register(c) ==
  /\ pc[c] = "register"
  /\ woken' = woken \ {c}
  /\ IF shutdown
       THEN registered' = registered \ {c} /\ Goto(c, "failed")
       ELSE registered' = registered \cup {c} /\ Goto(c, "check")
  /\ UNCHANGED <<pool, sess, serial, loops, dials, hand, fillVars,
                 main, shutdown>>

\* tcp_mux_slot_has_sessions: a published pool ends the wait.
Check(c) ==
  /\ pc[c] = "check" /\ SlotFree
  /\ Goto(c, IF HasSessions THEN "pick" ELSE "select")
  /\ registered' = IF HasSessions THEN registered \ {c} ELSE registered
  /\ woken' = IF HasSessions THEN woken \ {c} ELSE woken
  /\ UNCHANGED <<pool, sess, serial, loops, dials, hand, fillVars,
                 main, shutdown>>

\* The biased select: shutdown, then the notification, then the lock.
Select(c) ==
  /\ pc[c] = "select"
  /\ CASE shutdown   -> Goto(c, "failed") /\ UNCHANGED serial
       [] ~shutdown /\ c \in woken -> Goto(c, "register") /\ UNCHANGED serial
       [] OTHER      -> /\ serial = Free
                        /\ serial' = c
                        /\ Goto(c, "recheck")
  /\ registered' = registered \ {c} /\ woken' = woken \ {c}
  /\ UNCHANGED <<pool, sess, loops, dials, hand, fillVars, main, shutdown>>

-----------------------------------------------------------------------------
(* The owner of the lock: connect_tcp_mux_handle_attempts                  *)

\* Somebody may have published a pool while this caller waited for the lock.
Recheck(c) ==
  /\ pc[c] = "recheck" /\ SlotFree
  /\ IF HasSessions
       THEN Release(c) /\ Goto(c, "pick") /\ UNCHANGED batches
       ELSE /\ dials' = [dials EXCEPT ![c] = Parallel]
            /\ batches' = [batches EXCEPT ![c] = 1]
            /\ Goto(c, "dial")
            /\ UNCHANGED serial
  /\ UNCHANGED <<pool, sess, tries, hand, notify, fillVars, main, shutdown>>

\* A shutdown while dialling or backing off ends the attempt.
ConnectStopped(c) ==
  /\ pc[c] \in {"dial", "backoff"} /\ shutdown
  /\ Release(c) /\ Goto(c, "failed")
  /\ UNCHANGED <<pool, sess, loops, hand, notify, fillVars, main, shutdown>>

\* A link of the batch fails; the last one ends the batch.
DialFails(c) ==
  /\ pc[c] = "dial" /\ ~shutdown
  /\ \/ /\ dials[c] > 1
        /\ dials' = [dials EXCEPT ![c] = @ - 1]
        /\ UNCHANGED <<serial, pc>>
     \/ /\ dials[c] = 1 /\ batches[c] < ConnectAttempts
        /\ dials' = [dials EXCEPT ![c] = 0]
        /\ Goto(c, "backoff")
        /\ UNCHANGED serial
     \/ /\ dials[c] = 1 /\ batches[c] = ConnectAttempts
        /\ Release(c) /\ Goto(c, "failed")
  /\ UNCHANGED <<pool, sess, loops, hand, notify, fillVars, main, shutdown>>

\* The backoff is over: dial another batch.
Backoff(c) ==
  /\ pc[c] = "backoff" /\ ~shutdown
  /\ batches' = [batches EXCEPT ![c] = @ + 1]
  /\ dials' = [dials EXCEPT ![c] = Parallel]
  /\ Goto(c, "dial")
  /\ UNCHANGED <<pool, sess, serial, tries, hand, notify, fillVars,
                 main, shutdown>>

\* The first link of the batch is ready (while the bound leaves a session).
DialReady(c) ==
  /\ pc[c] = "dial" /\ ~shutdown /\ Fresh \in Sessions
  /\ Goto(c, "publish")
  /\ UNCHANGED <<pool, sess, serial, loops, dials, hand, notify, fillVars,
                 main, shutdown>>

\* Take the slot lock.
Publish(c) ==
  /\ pc[c] = "publish" /\ SlotFree
  /\ Goto(c, "spawn")
  /\ UNCHANGED <<pool, sess, serial, loops, dials, hand, notify, fillVars,
                 main, shutdown>>

\* publish_mux_connection: spawn the session; the ready link becomes it.
SpawnFirst(c) ==
  /\ pc[c] = "spawn" /\ Fresh \in Sessions
  /\ Spawn
  /\ hand' = [hand EXCEPT ![c] = Fresh]
  /\ dials' = [dials EXCEPT ![c] = @ - 1]
  /\ Goto(c, "push")
  /\ UNCHANGED <<pool, serial, loops, notify, fillVars, main, shutdown>>

\* Mutant: no notify_waiters after the publication.
SilentPush(c) ==
  /\ pc[c] = "push"
  /\ slot' = hand[c] /\ members' = {hand[c]}
  /\ IF main = "gone"
       THEN /\ Release(c) /\ Goto(c, "aborted")
            /\ UNCHANGED fillVars
       ELSE /\ fill' = "wait" /\ fillPool' = hand[c] /\ filling' = NoPool
            /\ ended' = FALSE
            /\ serial' = Fill
            /\ dials' = [dials EXCEPT ![Fill] = dials[c], ![c] = 0]
            /\ Goto(c, "pick")
  /\ hand' = [hand EXCEPT ![c] = NoPool]
  /\ UNCHANGED <<sess, loops, notify, main, shutdown>>

\* Push the session, fill the slot, free it, wake the waiting callers, and
\* hand the lock and the rest of the batch to the fill task.  A guard that
\* was stopped meanwhile aborts the fill task, and this caller, at once.
Push(c) ==
  /\ pc[c] = "push"
  /\ slot' = hand[c] /\ members' = {hand[c]}
  /\ woken' = registered
  /\ IF main = "gone"
       THEN /\ Release(c) /\ Goto(c, "aborted")
            /\ UNCHANGED fillVars
       ELSE /\ fill' = "wait" /\ fillPool' = hand[c] /\ filling' = NoPool
            /\ ended' = FALSE
            /\ serial' = Fill
            /\ dials' = [dials EXCEPT ![Fill] = dials[c], ![c] = 0]
            /\ Goto(c, "pick")
  /\ hand' = [hand EXCEPT ![c] = NoPool]
  /\ UNCHANGED <<sess, loops, registered, main, shutdown>>

-----------------------------------------------------------------------------
(* The fill task: next_pool_mux_ready                                      *)

\* The task ends: its pending dials are dropped, the lock is freed.
FillStops ==
  /\ fill' = "none" /\ fillPool' = NoPool /\ filling' = NoPool /\ ended' = FALSE
  /\ Release(Fill)

\* The pool ended, the client stops, or no dial is left.
FillEnds ==
  /\ fill = "wait"
  /\ ended \/ shutdown \/ dials[Fill] = 0
  /\ FillStops
  /\ UNCHANGED <<pool, sess, pc, loops, hand, notify, main, shutdown>>

FillDialFails ==
  /\ fill = "wait" /\ ~shutdown /\ ~ended /\ dials[Fill] > 0
  /\ dials' = [dials EXCEPT ![Fill] = @ - 1]
  /\ UNCHANGED <<pool, sess, serial, pc, loops, hand, notify, fillVars,
                 main, shutdown>>

FillDialReady ==
  /\ fill = "wait" /\ ~shutdown /\ ~ended /\ dials[Fill] > 0
  /\ Fresh \in Sessions
  /\ fill' = "lock"
  /\ UNCHANGED <<pool, sess, serial, pc, loops, dials, hand, notify, fillPool,
                 filling, ended, main, shutdown>>

\* Under the slot lock: the pool must still be the one this task fills.
FillPublish ==
  /\ fill = "lock" /\ SlotFree
  /\ IF slot # fillPool \/ shutdown \/ ended
       THEN FillStops
       ELSE fill' = "spawn" /\ UNCHANGED <<serial, dials, fillPool, filling, ended>>
  /\ UNCHANGED <<pool, sess, pc, loops, hand, notify, main, shutdown>>

FillSpawn ==
  /\ fill = "spawn" /\ Fresh \in Sessions
  /\ Spawn
  /\ filling' = Fresh /\ fill' = "push"
  /\ dials' = [dials EXCEPT ![Fill] = @ - 1]
  /\ UNCHANGED <<pool, serial, pc, loops, hand, notify, fillPool, ended,
                 main, shutdown>>

\* A stopped guard aborts the task at its next await point.
FillPush ==
  /\ fill = "push"
  /\ members' = members \cup {filling}
  /\ IF main = "gone"
       THEN FillStops
       ELSE /\ fill' = "wait" /\ filling' = NoPool
            /\ UNCHANGED <<fillPool, ended, serial, dials>>
  /\ UNCHANGED <<slot, sess, pc, loops, hand, notify, main, shutdown>>

-----------------------------------------------------------------------------
(* Session tasks and the end of the client                                 *)

\* The session's run loop returns, on its own or because of the shutdown.
SessionEnds(s) ==
  /\ sess[s] = "alive"
  /\ sess' = [sess EXCEPT ![s] = "closed"]
  /\ UNCHANGED <<pool, serial, pc, loops, dials, hand, notify, fillVars,
                 main, shutdown>>

\* Mutant: the slot lock is not held from the spawn to the push.
EarlyRemoveSession(s) ==
  /\ sess[s] = "closed"
  /\ sess' = [sess EXCEPT ![s] = "done"]
  /\ IF slot = NoPool THEN UNCHANGED <<pool, ended>> ELSE Retain(Sessions \ {s})
  /\ UNCHANGED <<serial, pc, loops, dials, hand, notify, fill, fillPool,
                 filling, main, shutdown>>

\* remove_mux_session.  A newer pool in the slot does not hold s.
RemoveSession(s) ==
  /\ sess[s] = "closed" /\ SlotFree
  /\ sess' = [sess EXCEPT ![s] = "done"]
  /\ IF slot = NoPool THEN UNCHANGED <<pool, ended>> ELSE Retain(Sessions \ {s})
  /\ UNCHANGED <<serial, pc, loops, dials, hand, notify, fill, fillPool,
                 filling, main, shutdown>>

\* The embedder asks the client to stop.
AskShutdown ==
  /\ ~shutdown /\ main = "running"
  /\ shutdown' = TRUE
  /\ UNCHANGED <<pool, sess, serial, pc, loops, dials, hand, notify,
                 fillVars, main>>

\* The accept loop sees it and empties the slot; the dropped pool's `ended`
\* watch counts as fired.
ClearSlot ==
  /\ main = "running" /\ shutdown /\ SlotFree
  /\ main' = "cleared"
  /\ slot' = NoPool /\ members' = {}
  /\ ended' = (ended \/ (fill # "none" /\ slot = fillPool))
  /\ UNCHANGED <<sess, serial, pc, loops, dials, hand, notify, fill, fillPool,
                 filling, shutdown>>

\* abort_session_tasks_sync, called after ClearSlot, or by the guard's Drop
\* when run_local_client exits for any other reason.  A task that is
\* publishing stops at its next await point.
Abort ==
  /\ main # "gone"
  /\ main' = "gone"
  /\ sess' = [s \in Sessions |->
                IF sess[s] \in {"alive", "closed"} THEN "aborted" ELSE sess[s]]
  /\ pc' = [c \in Callers |->
              IF pc[c] \in Final \cup Locked THEN pc[c] ELSE "aborted"]
  /\ registered' = {} /\ woken' = {}
  /\ IF fill \in Locked THEN UNCHANGED fillVars
     ELSE /\ fill' = "none" /\ fillPool' = NoPool /\ filling' = NoPool
          /\ ended' = FALSE
  /\ dials' = [o \in Owners |->
                 IF (o = Fill /\ fill \in Locked) \/ (o # Fill /\ pc[o] \in Locked)
                   THEN dials[o] ELSE 0]
  /\ serial' = IF \/ serial = Fill /\ fill \in Locked
                  \/ serial \in Callers /\ pc[serial] \in Locked
                 THEN serial ELSE Free
  /\ hand' = [c \in Callers |-> IF pc[c] \in Locked THEN hand[c] ELSE NoPool]
  /\ UNCHANGED <<pool, loops, shutdown>>

-----------------------------------------------------------------------------
CallerStep(c) ==
  \/ Start(c) \/ Pick(c) \/ Prune(c) \/ Open(c)
  \/ Register(c) \/ Check(c) \/ Select(c) \/ Recheck(c)
  \/ ConnectStopped(c) \/ Backoff(c) \/ Publish(c) \/ SpawnFirst(c) \/ Push(c)

FillStep == FillEnds \/ FillPublish \/ FillSpawn \/ FillPush

Next ==
  \/ \E c \in Callers :
       Arrive(c) \/ CallerStep(c) \/ DialFails(c) \/ DialReady(c)
  \/ FillStep \/ FillDialFails \/ FillDialReady
  \/ \E s \in Sessions : SessionEnds(s) \/ RemoveSession(s)
  \/ AskShutdown \/ ClearSlot \/ Abort

\* Steps that nobody has to ask for once the shutdown has begun.
EndsOnShutdown(s) == shutdown /\ SessionEnds(s)
AbortsCleared == main = "cleared" /\ Abort

\* Runnable tasks run.  Nothing bounds a dial, nothing makes a session end
\* before the shutdown, and nobody has to stop the client: those steps are
\* not fair.
Fairness ==
  /\ \A c \in Callers : WF_vars(CallerStep(c))
  /\ WF_vars(FillStep)
  /\ \A s \in Sessions :
       WF_vars(RemoveSession(s)) /\ WF_vars(EndsOnShutdown(s))
  /\ WF_vars(ClearSlot) /\ WF_vars(AbortsCleared)

Spec == Init /\ [][Next]_vars /\ Fairness

-----------------------------------------------------------------------------
(* Properties                                                              *)

\* Whoever gets the slot lock finds either no pool or a pool with sessions:
\* "a pool is there" is what Start and wait_for_mux_connect take for "do not
\* dial", so an empty pool left behind would starve every later caller.
SlotHoldsSessions == SlotFree /\ slot # NoPool => members # {}

\* The sessions being pushed under the slot lock.
InPush == {s \in Sessions : \/ fill = "push" /\ filling = s
                            \/ \E c \in Callers : pc[c] = "push" /\ hand[c] = s}

\* While the client runs, the pool and the session tasks agree: a live
\* session is in the current pool (or being pushed), so it is used and not
\* leaked; a task that finished its remove_mux_session is not in the pool,
\* however early the session died and however many pools came after it.
PoolMatchesSessions ==
  main = "running" =>
    \A s \in Sessions :
      /\ sess[s] = "alive" => s \in members \cup InPush
      /\ sess[s] = "done" => s \notin members \cup InPush

\* Live sessions and dials in progress, over all callers and the fill task,
\* are never more than ws_parallel: the connect lock travels with the batch,
\* so a pool that dies while its batch is still dialling does not start a
\* second batch beside it.
LinksBounded ==
  Cardinality({s \in Sessions : sess[s] = "alive"})
    + Cardinality({d \in Owners \X (1..Parallel) : d[2] <= dials[d[1]]})
    <= Parallel

\* Once the guard is stopped and any push in progress is over, nothing of the
\* client is left: no session task, no dial, and the process-wide connect
\* lock is free for the next client of the process.
NothingOutlivesStop ==
  main = "gone" /\ SlotFree =>
    /\ \A s \in Sessions : sess[s] # "alive"
    /\ fill = "none" /\ serial = Free
    /\ \A o \in Owners : dials[o] = 0

\* Some caller waits for the first answer of its batch.
Dialing == \E c \in Callers : pc[c] = "dial"
Starts(c) == pc[c] = "start"
Finished(c) == pc[c] \in Final

\* Unless the first answer of a batch never comes (no dial has a timeout),
\* every caller gets a stream, a dedicated tunnel or an error, even if the
\* other links of the batch stall for ever while the fill task owns the
\* connect lock.
CallersFinish ==
  []<>~Dialing => \A c \in Callers : Starts(c) ~> Finished(c)

\* The slot, the pool in it and the session tasks agree, and there are never
\* more links than ws_parallel.
PoolExact == TypeOK /\ SlotHoldsSessions /\ PoolMatchesSessions /\ LinksBounded
=============================================================================
