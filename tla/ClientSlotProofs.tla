-------------------------- MODULE ClientSlotProofs --------------------------
(***************************************************************************)
(* The embedder's slot for any number of calling threads and starts.  The  *)
(* slot is touched under STATE only, and whatever is taken out of it has   *)
(* either ended (a join) or was told to stop (a detach), so a client that  *)
(* nobody told to stop cannot be lost; the Android library never detaches. *)
(***************************************************************************)
EXTENDS ClientSlot, FiniteSetTheorems, TLAPS

Threads == {"none", "connect", "bind", "http", "serve", "exit", "gone"}
Calls == {"idle", "prepare", "wait", "failed", "stop", "join"}

\* The values of the slot and of the threads.
SlotValues ==
  /\ kind \in {"jni", "ffi"}
  /\ mutex \in Callers \cup {None}
  /\ slot \in Entries \cup {None}
  /\ thread \in [Ids -> Threads]
  /\ told \in [Ids -> BOOLEAN]
  /\ call \in [Callers -> Calls]

\* A call acts on the slot under the lock.
UnderLock == \A c \in Callers : call[c] \in {"prepare", "stop", "join"} <=> mutex = c

\* The slot holds a thread that exists; one that is stopping was told so, and
\* nobody waits for another.
Held ==
  /\ slot # None => thread[slot.id] # "none"
  /\ slot # None /\ slot.st = "Stopping" => told[slot.id] = TRUE
  /\ \A c \in Callers : call[c] = "join" => slot # None /\ slot.st = "Stopping"

\* A thread that runs is the slot's and protected, or, in the iOS library, was
\* told to stop.
Accounted ==
  \A i \in Ids :
    Alive(i) => \/ slot # None /\ slot.id = i /\ (kind = "jni" => hook = TRUE)
                \/ kind = "ffi" /\ told[i] = TRUE

\* The inductive invariant.
KInv == SlotValues /\ UnderLock /\ Held /\ Accounted

-----------------------------------------------------------------------------
\* No client, no call.
LEMMA InitKInv == Init => KInv
  BY SlotAssumption
  DEF Init, KInv, SlotValues, UnderLock, Held, Accounted, Alive, Threads, Calls

\* A thread that moves on, or ends, stays accounted for.
LEMMA ThreadKeeps ==
  ASSUME KInv, NEW i \in Ids, Alive(i), NEW l \in Threads \ {"none"},
         thread' = [thread EXCEPT ![i] = l],
         UNCHANGED <<kind, mutex, slot, told, hook, call>>
  PROVE  KInv'
<1> USE SlotAssumption DEF KInv
<1>1. SlotValues'
  BY DEF SlotValues
<1>2. UnderLock' /\ Held' /\ Accounted'
  BY DEF SlotValues, UnderLock, Held, Accounted, Alive, Entries
<1> QED
  BY <1>1, <1>2

\* Every step of a call or of a client thread keeps the invariant.
LEMMA NextKInv ==
  ASSUME KInv, [Next]_slotVars
  PROVE  KInv'
<1> USE SlotAssumption
    DEF KInv, SlotValues, UnderLock, Held, Accounted, Alive, Finished, Entries, Calls,
        Goto, Return
<1>1. ASSUME NEW i \in Ids, ThreadStep(i) \/ Exits(i)
      PROVE  KInv'
  <2>1. Alive(i) /\ UNCHANGED <<kind, mutex, slot, told, hook, call>>
    BY <1>1 DEF ThreadStep, Connects, SocksBinds, HttpBinds, Serves, Exits
  <2>2. PICK l \in Threads \ {"none"} : thread' = [thread EXCEPT ![i] = l]
    BY <1>1 DEF ThreadStep, Connects, SocksBinds, HttpBinds, Serves, Exits, Threads
  <2> QED
    BY <2>1, <2>2, ThreadKeeps
<1>2. ASSUME NEW c \in Callers, StartCall(c) \/ StopCall(c) \/ StartFails(c)
      PROVE  KInv'
  BY <1>2 DEF StartCall, StopCall, StartFails, Lock
<1>3. ASSUME NEW c \in Callers, StartRefused(c) \/ StartGivesUp(c) \/ StopIdle(c)
      PROVE  KInv'
  BY <1>3 DEF StartRefused, StartGivesUp, StopIdle
<1>4. ASSUME NEW c \in Callers, StartJoins(c)
      PROVE  KInv'
  BY <1>4 DEF StartJoins
<1>5. ASSUME NEW c \in Callers, StartSpawns(c)
      PROVE  KInv'
  <2>1. call[c] = "prepare" /\ slot = None /\ UNCHANGED <<kind, told>>
    BY <1>5 DEF StartSpawns
  <2>2. CASE Return(c) /\ UNCHANGED <<thread, slot, hook>>
    BY <2>1, <2>2
  <2>3. ASSUME NEW i \in Fresh, thread' = [thread EXCEPT ![i] = "connect"],
               slot' = [st |-> "Live", id |-> i], hook' = (kind = "jni"),
               Goto(c, "wait"), mutex' = None
        PROVE  KInv'
    <3>1. i \in Ids /\ thread[i] = "none" /\ (kind = "jni" => hook' = TRUE)
      BY <2>3 DEF Fresh
    <3>2. slot' \in Entries /\ slot'.id = i /\ slot'.st = "Live" /\ slot' # None
      BY <2>3, <3>1
    <3>3. SlotValues'
      BY <2>1, <2>3, <3>1, <3>2 DEF Threads
    <3>4. UnderLock' /\ Held'
      BY <2>1, <2>3, <3>1, <3>2
    <3>5. Accounted'
      BY <2>1, <2>3, <3>1, <3>2
    <3> QED
      BY <3>3, <3>4, <3>5
  <2> QED
    BY <1>5, <2>2, <2>3 DEF StartSpawns
<1>6. ASSUME NEW c \in Callers, StartReady(c) \/ StartTimesOut(c)
      PROVE  KInv'
  BY <1>6 DEF StartReady, StartTimesOut
<1>7. ASSUME NEW c \in Callers, StopSignals(c)
      PROVE  KInv'
  BY <1>7 DEF StopSignals
<1>8. ASSUME NEW c \in Callers, StopJoins(c)
      PROVE  KInv'
  BY <1>8 DEF StopJoins
<1>9. ASSUME NEW c \in Callers, StopTimesOut(c)
      PROVE  KInv'
  BY <1>9 DEF StopTimesOut
<1>10. CASE UNCHANGED slotVars
  BY <1>10 DEF slotVars
<1> QED
  BY <1>1, <1>2, <1>3, <1>4, <1>5, <1>6, <1>7, <1>8, <1>9, <1>10 DEF Next, CallStep

\* Every reachable state satisfies the inductive invariant.
THEOREM SlotInvariant == Spec => []KInv
  BY InitKInv, NextKInv, PTL DEF Spec

\* The threads that run are at most the slot's one.
LEMMA OneClient == KInv => OneThread
<1> SUFFICES ASSUME KInv, kind = "jni"
             PROVE  Cardinality({i \in Ids : Alive(i)}) <= 1
  BY DEF OneThread
<1> DEFINE A == {i \in Ids : Alive(i)}
<1>1. CASE slot = None
  <2>1. A = {}
    BY <1>1 DEF KInv, Accounted
  <2> QED
    BY <2>1, FS_EmptySet
<1>2. CASE slot # None
  <2>1. A \subseteq {slot.id}
    BY <1>2 DEF KInv, Accounted
  <2>2. IsFiniteSet({slot.id}) /\ Cardinality({slot.id}) = 1
    BY FS_Singleton
  <2>3. Cardinality(A) <= 1
    BY <2>1, <2>2, FS_Subset
  <2> QED
    BY <2>3
<1> QED
  BY <1>1, <1>2

\* SlotExact: at most one Android client runs, a client that nobody told to
\* stop is in the slot, and its sockets are protected, for any number of calling
\* threads and starts.
THEOREM SlotAlwaysExact == Spec => []SlotExact
<1>1. KInv => SlotTypeOK
  BY DEF KInv, SlotValues, UnderLock, Held, SlotTypeOK, Entries
<1>2. KInv => NoOrphan
  BY DEF KInv, Accounted, NoOrphan
<1>3. KInv => ProtectedWhileAlive
  BY DEF KInv, Accounted, ProtectedWhileAlive
<1> QED
  BY <1>1, <1>2, <1>3, OneClient, SlotInvariant, PTL DEF SlotExact
=============================================================================
