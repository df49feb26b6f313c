----------------------------- MODULE ClientSlot -----------------------------
(***************************************************************************)
(* bibavpn-jni (client_slot.rs, lib.rs) and bibavpn-ffi: an application    *)
(* starts and stops the client of local_client.rs, which runs on a thread  *)
(* with a runtime of its own.  One lock guards the slot of the client; a   *)
(* start waits for the listener without it.  The Android library keeps a   *)
(* thread that outlives its stop in the slot, the iOS one lets go of it.   *)
(***************************************************************************)
EXTENDS Integers, FiniteSets

CONSTANTS Callers,    \* threads of the application that call the library
          MaxStarts,  \* bound on the client threads
          None

Ids == 1 .. MaxStarts
Entries == [st : {"Live", "Stopping"}, id : Ids]

ASSUME SlotAssumption ==
    MaxStarts \in Nat /\ None \notin Callers /\ None \notin Ids /\ None \notin Entries

VARIABLES kind,    \* "jni" or "ffi" (constant)
          mutex,   \* who holds STATE
          slot,    \* the client's entry: [st, id] or None
          thread,  \* what the client thread does; "none" before it exists
          told,    \* its shutdown was signalled
          ready,   \* it has reported that its listener is up
          hook,    \* the socket protection hook is installed
          call,    \* what the caller is doing
          mine,    \* the thread that the caller started
          served,  \* history: starts that returned success
          blamed   \* history: threads stopped in the clean-up of another start

slotVars == <<kind, mutex, slot, thread, told, ready, hook, call, mine, served, blamed>>

Alive(i) == thread[i] \notin {"none", "gone"}
\* is_finished, and the completion channel is closed: the runtime is dropped.
Finished(i) == thread[i] = "gone"
Fresh == {i \in Ids : thread[i] = "none"}
Goto(c, l) == call' = [call EXCEPT ![c] = l]

Init ==
    /\ kind \in {"jni", "ffi"} /\ mutex = None /\ slot = None
    /\ thread = [i \in Ids |-> "none"] /\ told = [i \in Ids |-> FALSE] /\ ready = [i \in Ids |-> FALSE]
    /\ hook = FALSE /\ call = [c \in Callers |-> "idle"] /\ mine = [c \in Callers |-> None]
    /\ served = {} /\ blamed = {}

-----------------------------------------------------------------------------
\* run_local_client.  The mux is connected, or its dialling ends with an error
\* or because of the shutdown signal.
Connects(i) ==
    /\ thread[i] = "connect"
    /\ thread' \in {[thread EXCEPT ![i] = "bind"], [thread EXCEPT ![i] = "exit"]}
    /\ UNCHANGED <<kind, mutex, slot, told, ready, hook, call, mine, served, blamed>>

\* The SOCKS listener is bound, unless another client still has the port, and
\* reported; then the HTTP listener.
SocksBinds(i) ==
    /\ thread[i] = "bind"
    /\ \/ /\ \A j \in Ids : thread[j] \notin {"http", "serve"}
          /\ thread' = [thread EXCEPT ![i] = "http"] /\ ready' = [ready EXCEPT ![i] = TRUE]
       \/ thread' = [thread EXCEPT ![i] = "exit"] /\ UNCHANGED ready
    /\ UNCHANGED <<kind, mutex, slot, told, hook, call, mine, served, blamed>>

HttpBinds(i) ==
    /\ thread[i] = "http"
    /\ thread' \in {[thread EXCEPT ![i] = "serve"], [thread EXCEPT ![i] = "exit"]}
    /\ UNCHANGED <<kind, mutex, slot, told, ready, hook, call, mine, served, blamed>>

\* Only the shutdown signal ends the accept loop.
Serves(i) ==
    /\ thread[i] = "serve" /\ told[i] /\ thread' = [thread EXCEPT ![i] = "exit"]
    /\ UNCHANGED <<kind, mutex, slot, told, ready, hook, call, mine, served, blamed>>

\* The runtime is dropped once its blocking work is done: the thread ends.
Exits(i) ==
    /\ thread[i] = "exit" /\ thread' = [thread EXCEPT ![i] = "gone"]
    /\ UNCHANGED <<kind, mutex, slot, told, ready, hook, call, mine, served, blamed>>

-----------------------------------------------------------------------------
Lock(c, from, to) ==
    /\ call[c] = from /\ mutex = None /\ mutex' = c /\ Goto(c, to)
    /\ UNCHANGED <<kind, slot, thread, told, ready, hook, mine, served, blamed>>

\* The call returns and its guard is dropped.
Return(c) == Goto(c, "idle") /\ mutex' = None /\ mine' = [mine EXCEPT ![c] = None]

StartCall(c) == Fresh # {} /\ Lock(c, "idle", "prepare")
StopCall(c) == Lock(c, "idle", "stop")

\* try_prepare_start, or the first part of bibavpn_ffi_start: a client that
\* runs is left alone, one that has ended is joined.
StartRefused(c) ==
    /\ call[c] = "prepare" /\ slot # None
    /\ IF kind = "jni" THEN slot.st = "Live" /\ ~Finished(slot.id) ELSE ~Finished(slot.id)
    /\ Return(c)
    /\ UNCHANGED <<kind, slot, thread, told, ready, hook, served, blamed>>

\* The wait for a stopping thread is over: the start fails closed.
StartGivesUp(c) ==
    /\ call[c] = "prepare" /\ kind = "jni" /\ slot # None /\ slot.st = "Stopping"
    /\ ~Finished(slot.id) /\ Return(c)
    /\ UNCHANGED <<kind, slot, thread, told, ready, hook, served, blamed>>

StartJoins(c) ==
    /\ call[c] = "prepare" /\ slot # None /\ Finished(slot.id)
    /\ slot' = None /\ hook' = FALSE
    /\ UNCHANGED <<kind, mutex, thread, told, ready, call, mine, served, blamed>>

\* The slot is free: the configuration is refused, or the hook is installed,
\* the thread is started and the lock released.
StartSpawns(c) ==
    /\ call[c] = "prepare" /\ slot = None
    /\ \/ /\ \E i \in Fresh :
                /\ \A j \in Fresh : i <= j
                /\ thread' = [thread EXCEPT ![i] = "connect"]
                /\ slot' = [st |-> "Live", id |-> i] /\ mine' = [mine EXCEPT ![c] = i]
          /\ hook' = (kind = "jni") /\ Goto(c, "wait") /\ mutex' = None
       \/ Return(c) /\ UNCHANGED <<thread, slot, hook>>
    /\ UNCHANGED <<kind, told, ready, served, blamed>>

\* recv_timeout on the ready channel: the report came first ...
StartReady(c) ==
    /\ call[c] = "wait" /\ ready[mine[c]]
    /\ served' = served \cup {mine[c]} /\ Goto(c, "idle") /\ mine' = [mine EXCEPT ![c] = None]
    /\ UNCHANGED <<kind, mutex, slot, thread, told, ready, hook, blamed>>

\* ... or 20 s passed, or the thread has let go of the channel: whatever is in
\* the slot once the lock is free is stopped.
StartTimesOut(c) ==
    /\ call[c] = "wait" /\ ~ready[mine[c]] /\ Goto(c, "failed")
    /\ UNCHANGED <<kind, mutex, slot, thread, told, ready, hook, mine, served, blamed>>

StartFails(c) == Lock(c, "failed", "stop")

-----------------------------------------------------------------------------
StopIdle(c) ==
    /\ call[c] = "stop" /\ slot = None /\ Return(c)
    /\ UNCHANGED <<kind, slot, thread, told, ready, hook, served, blamed>>

\* Shutdown is signalled and the wait begins.
StopSignals(c) ==
    /\ call[c] = "stop" /\ slot # None /\ Goto(c, "join")
    /\ slot' = [slot EXCEPT !.st = "Stopping"]
    /\ told' = [told EXCEPT ![slot.id] = TRUE]
    /\ blamed' = IF mine[c] \notin {None, slot.id} /\ ~told[slot.id] THEN blamed \cup {slot.id} ELSE blamed
    /\ UNCHANGED <<kind, mutex, thread, ready, hook, mine, served>>

StopJoins(c) ==
    /\ call[c] = "join" /\ Finished(slot.id)
    /\ slot' = None /\ hook' = FALSE /\ Return(c)
    /\ UNCHANGED <<kind, thread, told, ready, served, blamed>>

\* Mutant: the Android library lets go as well.
StopTimesOutDetaches(c) ==
    /\ call[c] = "join" /\ ~Finished(slot.id) /\ Return(c)
    /\ slot' = None /\ hook' = FALSE
    /\ UNCHANGED <<kind, thread, told, ready, served, blamed>>
\* Five seconds have passed: the thread stays in the slot, or is detached.
StopTimesOut(c) ==
    /\ call[c] = "join" /\ ~Finished(slot.id) /\ Return(c)
    /\ slot' = IF kind = "jni" THEN slot ELSE None
    /\ UNCHANGED <<kind, thread, told, ready, hook, served, blamed>>

-----------------------------------------------------------------------------
ThreadStep(i) == Connects(i) \/ SocksBinds(i) \/ HttpBinds(i) \/ Serves(i)

CallStep(c) ==
    \/ StartRefused(c) \/ StartGivesUp(c) \/ StartJoins(c) \/ StartSpawns(c) \/ StartReady(c)
    \/ StartTimesOut(c) \/ StartFails(c) \/ StopIdle(c) \/ StopSignals(c) \/ StopJoins(c) \/ StopTimesOut(c)

Next ==
    \/ \E c \in Callers : StartCall(c) \/ StopCall(c) \/ CallStep(c)
    \/ \E i \in Ids : ThreadStep(i) \/ Exits(i)

\* Callers and the client's tasks run and their timers fire; how long the
\* runtime's blocking work takes is up to the system's resolver.
Fairness ==
    /\ \A c \in Callers : SF_slotVars(CallStep(c))
    /\ \A i \in Ids : WF_slotVars(ThreadStep(i))

Spec == Init /\ [][Next]_slotVars /\ Fairness

-----------------------------------------------------------------------------
\* A stopping slot holds a thread that was told to stop, and only its holder
\* acts under the lock.
SlotTypeOK ==
    /\ slot # None => slot.id \in Ids /\ thread[slot.id] # "none"
    /\ slot # None /\ slot.st = "Stopping" => told[slot.id]
    /\ \A c \in Callers : call[c] \in {"prepare", "stop", "join"} <=> mutex = c

\* The Android library never has two client threads, however calls of several
\* threads interleave and however long a thread takes to end.
OneThread == kind = "jni" => Cardinality({i \in Ids : Alive(i)}) <= 1

\* No client is lost: one that nobody told to stop is the one in the slot, so
\* that a stop can still reach it.
NoOrphan == \A i \in Ids : Alive(i) /\ ~told[i] => slot # None /\ slot.id = i

\* The sockets of an Android client are protected for as long as it lives;
\* without the hook they would loop into its own tunnel.
ProtectedWhileAlive == kind = "jni" /\ (\E i \in Ids : Alive(i)) => hook

\* A start whose clean-up finds another client in the slot does not stop it.
\* The code does not keep this, see the README, section 4.
AbortsOwnStart == blamed = {}

\* "sent once ... local listeners are up": what is reported ready keeps serving
\* until it is told to stop.
\* The code does not keep this, see the README, section 4.
ReadyIsServing == \A i \in served : ~told[i] => thread[i] \in {"http", "serve"}

Returned(c) == call[c] = "idle"

\* Every call returns, also when the thread of the client hangs.
CallsReturn == \A c \in Callers : ~Returned(c) ~> Returned(c)

\* At most one client runs, it is in the slot or told to stop, and its
\* sockets are protected.
SlotExact == SlotTypeOK /\ OneThread /\ NoOrphan /\ ProtectedWhileAlive
=============================================================================
