---------------------------- MODULE MuxPoolProofs ----------------------------
(***************************************************************************)
(* The session pool is exact for any number of callers, links, retries and *)
(* sessions.  The connect lock is what everything hangs on: whoever dials, *)
(* spawns or pushes owns it (LockHeld, DialsHeld), it is taken only while  *)
(* there is no pool (WaitersKnow), and until its owner has pushed there is *)
(* no live session but its own (OwnerAlone).                               *)
(***************************************************************************)
EXTENDS MuxPool, FiniteSetTheorems, TLAPS

\* The live session tasks.
Alive == {s \in Sessions : sess[s] = "alive"}

\* Session ids are handed out in order.
Numbered == \E n \in 0..MaxSessions : \A s \in Sessions : sess[s] # "none" <=> s <= n

\* The steps of connect_tcp_mux_handle_attempts, up to the push.
Connecting == {"recheck", "dial", "backoff", "publish", "spawn"}

\* A caller owns the connect lock exactly while it connects, the fill task
\* exactly while there is one.
LockHeld ==
  /\ \A c \in Callers : pc[c] \in Connecting \cup {"push"} <=> serial = c
  /\ fill # "none" <=> serial = Fill

\* Only the owner of the connect lock dials.
DialsHeld == \A o \in Owners : dials[o] # 0 => serial = o

\* A link that answered is still counted as a dial until it is spawned.
DialsLeft ==
  /\ \A c \in Callers : pc[c] \in {"dial", "publish", "spawn"} => dials[c] # 0
  /\ fill \in {"lock", "spawn"} => dials[Fill] # 0

\* The first batch has no pool and no session beside it.
OwnerAlone ==
  \A c \in Callers :
    /\ pc[c] \in Connecting => slot = NoPool /\ \A s \in Sessions : sess[s] # "alive"
    /\ pc[c] = "push" => /\ slot = NoPool /\ hand[c] \in Sessions
                         /\ \A s \in Sessions : sess[s] = "alive" => s = hand[c]

\* There is no empty pool, not even under the slot lock.
PoolNotEmpty == slot = NoPool <=> members = {}

\* The fill task has a pool, and keeps it while it holds the slot lock.
FillsAPool ==
  /\ fill # "none" => fillPool # NoPool
  /\ fill \in Locked => slot # NoPool
  /\ fill = "push" => filling \in Sessions

\* A caller that waits for the lock has been woken by every publication since
\* it found no pool.
WaitersKnow ==
  \A c \in Callers :
    /\ pc[c] \in {"check", "select"} => c \in registered
    /\ pc[c] = "select" /\ c \notin woken => slot = NoPool

\* A stopped guard leaves nothing but pushes in progress.
GoneIsQuiet ==
  main = "gone" =>
    /\ \A c \in Callers : pc[c] \in Final \cup Locked
    /\ fill \in {"none"} \cup Locked
    /\ \A s \in Sessions : sess[s] # "alive"

\* The slot is cleared on the way out only.
ClearedIsShut == main = "cleared" => shutdown

\* The dials of the owner of the connect lock.
Held == IF serial \in Owners THEN dials[serial] ELSE 0

\* Live sessions and links being dialled fit in ws_parallel.
LinksCounted == Cardinality(Alive) + Held <= Parallel

\* Nobody goes round a loop more often than it allows.
LoopsBounded ==
  \A c \in Callers :
    /\ pc[c] \notin Final => tries[c] < SlotRetries
    /\ pc[c] = "backoff" => batches[c] < ConnectAttempts

\* The two watches, apart from the rest: they are formulas, not values.
Flags == ended \in BOOLEAN /\ shutdown \in BOOLEAN /\ ClearedIsShut

\* Types, with the bounds that keep the loop counters in theirs.
Typed == Values /\ LoopsBounded

\* What the locks protect.
Guarded ==
  /\ LockHeld /\ DialsHeld /\ DialsLeft /\ OwnerAlone /\ PoolNotEmpty
  /\ FillsAPool /\ WaitersKnow /\ GoneIsQuiet

\* The inductive invariant.
IInv == Typed /\ Flags /\ Guarded /\ PoolMatchesSessions /\ Numbered /\ LinksCounted

-----------------------------------------------------------------------------
\* TCP_MUX_SESSION_GEN hands out an id that nobody has.
LEMMA FreshIsUnused ==
  ASSUME Values, Numbered
  PROVE  /\ Fresh \in Sessions => sess[Fresh] = "none"
         /\ \A v : v # "none" /\ Fresh \in Sessions /\ sess' = [sess EXCEPT ![Fresh] = v]
                     => Numbered'
<1>1. PICK n \in 0..MaxSessions : \A s \in Sessions : sess[s] # "none" <=> s <= n
  BY DEF Numbered
<1>2. {s \in Sessions : sess[s] # "none"} = 1..n
  <2> DEFINE I == 1..n
  <2>1. \A s \in Sessions : sess[s] # "none" <=> s \in I
    BY <1>1, PoolAssumption DEF Sessions
  <2>2. I \subseteq Sessions
    BY PoolAssumption DEF Sessions
  <2> HIDE DEF I
  <2>3. {s \in Sessions : sess[s] # "none"} = I
    BY <2>1, <2>2
  <2> QED
    BY <2>3 DEF I
<1>3. Fresh = n + 1
  <2>1. Cardinality(1..n) = n
    BY FS_Interval, PoolAssumption
  <2>2. Cardinality({s \in Sessions : sess[s] # "none"}) = n
    BY <1>2, <2>1
  <2> QED
    BY <2>2 DEF Fresh
<1>4. Fresh \in Sessions => sess[Fresh] = "none"
  BY <1>1, <1>3, PoolAssumption DEF Sessions
<1>5. ASSUME NEW v, v # "none", Fresh \in Sessions, sess' = [sess EXCEPT ![Fresh] = v]
      PROVE  Numbered'
  <2>1. n + 1 \in 0..MaxSessions
    BY <1>3, <1>5, PoolAssumption DEF Sessions
  <2>2. \A s \in Sessions : sess'[s] # "none" <=> s <= n + 1
    BY <1>1, <1>3, <1>5, PoolAssumption DEF Sessions, Values
  <2> QED
    BY <2>1, <2>2 DEF Numbered, Sessions
<1> QED
  BY <1>4, <1>5

\* There are finitely many live sessions.
LEMMA AliveFinite == IsFiniteSet(Alive) /\ Cardinality(Alive) \in Nat
<1>1. IsFiniteSet(Sessions)
  BY FS_Interval, PoolAssumption DEF Sessions
<1>2. IsFiniteSet(Alive)
  BY <1>1, FS_Subset DEF Alive
<1> QED
  BY <1>2, FS_CardinalityType

-----------------------------------------------------------------------------
\* The client starts without sessions, pool or callers.
LEMMA InitIInv == Init => IInv
<1> SUFFICES ASSUME Init
             PROVE  IInv
  OBVIOUS
<1>1. Typed
  BY PoolAssumption
  DEF Init, Typed, Values, LoopsBounded, Owners, Free, NoPool, Sessions, Steps
<1>7. Flags
  BY DEF Init, Flags, ClearedIsShut
<1>2. Guarded
  BY PoolAssumption
  DEF Init, Guarded, LockHeld, DialsHeld, DialsLeft, OwnerAlone,
      PoolNotEmpty, FillsAPool, WaitersKnow, GoneIsQuiet, Connecting, Owners,
      Free, NoPool, Locked
<1>3. PoolMatchesSessions
  BY DEF Init, PoolMatchesSessions
<1>4. Numbered
  BY PoolAssumption DEF Init, Numbered, Sessions
<1>5. Alive = {}
  BY DEF Init, Alive
<1>6. LinksCounted
  BY <1>5, FS_EmptySet, PoolAssumption
  DEF Init, LinksCounted, Held, Owners, Free
<1> QED
  BY <1>1, <1>2, <1>3, <1>4, <1>6, <1>7 DEF IInv

\* A caller that is still looking has a turn of the retry loop left.
LEMMA RetryBound ==
  ASSUME Typed, NEW c \in Callers, pc[c] \notin Final
  PROVE  tries[c] + 1 \in 0..SlotRetries
<1>1. tries[c] < SlotRetries /\ tries[c] \in 0..SlotRetries
  BY DEF Typed, LoopsBounded, Values
<1> QED
  BY <1>1, PoolAssumption

\* Every step keeps the types and the bounds of the retry loops.
LEMMA NextTyped ==
  ASSUME IInv, [Next]_vars
  PROVE  Typed'
<1> USE PoolAssumption
    DEF IInv, Typed, Values, LoopsBounded, Guarded, LockHeld, DialsLeft,
        OwnerAlone, Owners, Free, NoPool, Sessions, Steps, Final, Locked,
        Connecting, pool, fillVars, notify, loops, Goto
<1>1. ASSUME NEW c \in Callers, Arrive(c)
      PROVE  Typed'
  BY <1>1 DEF Arrive
<1>2. ASSUME NEW c \in Callers, Start(c)
      PROVE  Typed'
  BY <1>2 DEF Start, SlotFree
<1>3. ASSUME NEW c \in Callers, Pick(c)
      PROVE  Typed'
  <2>1. pc[c] = "pick"
    BY <1>3 DEF Pick, Retry
  <2>2. UNCHANGED <<pool, sess, serial, batches, dials, notify, fill, fillPool, filling,
                  main>>
    BY <1>3 DEF Pick, Retry
  <2>3. tries[c] + 1 \in 0..SlotRetries
    BY RetryBound, <2>1, <2>2
  <2>4. CASE /\ tries[c] + 1 < SlotRetries
             /\ tries' = [tries EXCEPT ![c] = tries[c] + 1]
             /\ pc' = [pc EXCEPT ![c] = "start"] /\ hand' = hand
    BY <2>1, <2>2, <2>3, <2>4
  <2>5. CASE /\ tries' = [tries EXCEPT ![c] = tries[c] + 1]
             /\ pc' = [pc EXCEPT ![c] = "failed"] /\ hand' = hand
    BY <2>1, <2>2, <2>3, <2>5
  <2>6. CASE /\ tries' = tries /\ pc' = [pc EXCEPT ![c] = "open"]
             /\ \E s \in members : hand' = [hand EXCEPT ![c] = s]
    BY <2>1, <2>2, <2>3, <2>6
  <2>7. CASE hand' = hand /\ tries' = tries /\ pc' = [pc EXCEPT ![c] = "prune"]
    BY <2>1, <2>2, <2>3, <2>7
  <2> QED
    BY <1>3, <2>4, <2>5, <2>6, <2>7 DEF Pick, Retry
<1>4. ASSUME NEW c \in Callers, Prune(c)
      PROVE  Typed'
  <2>1. pc[c] = "prune"
    BY <1>4 DEF Prune, Retry, Retain
  <2>2. UNCHANGED <<sess, serial, batches, dials, hand, notify, fill, fillPool, filling,
                  main>>
    BY <1>4 DEF Prune, Retry, Retain
  <2>3. members' \subseteq members /\ slot' \in {slot, NoPool}
    BY <1>4 DEF Prune, Retry, Retain
  <2>4. tries[c] + 1 \in 0..SlotRetries
    BY RetryBound, <2>1, <2>2, <2>3
  <2>5. CASE /\ tries[c] + 1 < SlotRetries
             /\ tries' = [tries EXCEPT ![c] = tries[c] + 1]
             /\ pc' = [pc EXCEPT ![c] = "start"]
    BY <2>1, <2>2, <2>3, <2>4, <2>5
  <2>6. CASE /\ tries' = [tries EXCEPT ![c] = tries[c] + 1]
             /\ pc' = [pc EXCEPT ![c] = "failed"]
    BY <2>1, <2>2, <2>3, <2>4, <2>6
  <2> QED
    BY <1>4, <2>5, <2>6 DEF Prune, Retry, Retain
<1>5. ASSUME NEW c \in Callers, Open(c)
      PROVE  Typed'
  <2>1. pc[c] = "open"
    BY <1>5 DEF Open
  <2>2. hand' = [hand EXCEPT ![c] = NoPool]
    BY <1>5 DEF Open
  <2>3. UNCHANGED <<pool, sess, serial, loops, dials, notify, fill, fillPool, filling,
                  main>>
    BY <1>5 DEF Open
  <2>4. CASE pc' = [pc EXCEPT ![c] = "served"]
    BY <2>1, <2>2, <2>3, <2>4
  <2>5. CASE pc' = [pc EXCEPT ![c] = "tunnel"]
    BY <2>1, <2>2, <2>3, <2>5
  <2>6. CASE pc' = [pc EXCEPT ![c] = "failed"]
    BY <2>1, <2>2, <2>3, <2>6
  <2>7. CASE pc' = [pc EXCEPT ![c] = "prune"]
    BY <2>1, <2>2, <2>3, <2>7
  <2> QED
    BY <1>5, <2>4, <2>5, <2>6, <2>7 DEF Open
<1>6. ASSUME NEW c \in Callers, Register(c)
      PROVE  Typed'
  <2>1. pc[c] = "register" /\ woken' = woken \ {c}
    BY <1>6 DEF Register
  <2>2. UNCHANGED <<pool, sess, serial, loops, dials, hand, fill, fillPool, filling,
                  main>>
    BY <1>6 DEF Register
  <2>3. CASE pc' = [pc EXCEPT ![c] = "failed"] /\ registered' = registered \ {c}
    BY <2>1, <2>2, <2>3
  <2>4. CASE pc' = [pc EXCEPT ![c] = "check"] /\ registered' = registered \cup {c}
    BY <2>1, <2>2, <2>4
  <2> QED
    BY <1>6, <2>3, <2>4 DEF Register
<1>7. ASSUME NEW c \in Callers, Check(c)
      PROVE  Typed'
  BY <1>7 DEF Check, SlotFree, HasSessions
<1>8. ASSUME NEW c \in Callers, Select(c)
      PROVE  Typed'
  <2>1. pc[c] = "select"
    BY <1>8 DEF Select
  <2>2. registered' = registered \ {c} /\ woken' = woken \ {c}
    BY <1>8 DEF Select
  <2>3. UNCHANGED <<pool, sess, loops, dials, hand, fill, fillPool, filling,
                  main>>
    BY <1>8 DEF Select
  <2>4. CASE serial' = serial /\ pc' = [pc EXCEPT ![c] = "failed"]
    BY <2>1, <2>2, <2>3, <2>4
  <2>5. CASE serial' = serial /\ pc' = [pc EXCEPT ![c] = "register"]
    BY <2>1, <2>2, <2>3, <2>5
  <2>6. CASE serial = Free /\ serial' = c /\ pc' = [pc EXCEPT ![c] = "recheck"]
    BY <2>1, <2>2, <2>3, <2>6
  <2> QED
    BY <1>8, <2>4, <2>5, <2>6 DEF Select
<1>9. ASSUME NEW c \in Callers, Recheck(c)
      PROVE  Typed'
  <2>1. pc[c] = "recheck" /\ SlotFree
    BY <1>9 DEF Recheck, HasSessions, Release
  <2>2. UNCHANGED <<pool, sess, tries, hand, notify, fill, fillPool, filling,
                  main>>
    BY <1>9 DEF Recheck, HasSessions, Release
  <2>3. serial = c
    BY <2>1, <2>2
  <2>4. CASE /\ pc' = [pc EXCEPT ![c] = "pick"] /\ batches' = batches
             /\ serial' = Free /\ dials' = [dials EXCEPT ![c] = 0]
    BY <2>1, <2>2, <2>3, <2>4
  <2>5. CASE /\ pc' = [pc EXCEPT ![c] = "dial"] /\ batches' = [batches EXCEPT ![c] = 1]
             /\ serial' = serial /\ dials' = [dials EXCEPT ![c] = Parallel]
    BY <2>1, <2>2, <2>3, <2>5
  <2> QED
    BY <1>9, <2>4, <2>5 DEF Recheck, HasSessions, Release
<1>10. ASSUME NEW c \in Callers, ConnectStopped(c)
      PROVE  Typed'
  BY <1>10 DEF ConnectStopped, Release
<1>11. ASSUME NEW c \in Callers, DialFails(c)
      PROVE  Typed'
  <2>1. pc[c] = "dial"
    BY <1>11 DEF DialFails, Release
  <2>2. UNCHANGED <<pool, sess, loops, hand, notify, fill, fillPool, filling,
                  main>>
    BY <1>11 DEF DialFails, Release
  <2>3. serial = c
    BY <2>1, <2>2
  <2>4. CASE /\ dials[c] > 1 /\ dials' = [dials EXCEPT ![c] = dials[c] - 1]
             /\ UNCHANGED <<serial, pc>>
    BY <2>1, <2>2, <2>3, <2>4
  <2>5. CASE /\ batches[c] < ConnectAttempts /\ dials' = [dials EXCEPT ![c] = 0]
             /\ pc' = [pc EXCEPT ![c] = "backoff"] /\ serial' = serial
    BY <2>1, <2>2, <2>3, <2>5
  <2>6. CASE /\ pc' = [pc EXCEPT ![c] = "failed"] /\ dials' = [dials EXCEPT ![c] = 0]
             /\ serial' = Free
    BY <2>1, <2>2, <2>3, <2>6
  <2> QED
    BY <1>11, <2>4, <2>5, <2>6 DEF DialFails, Release
<1>12. ASSUME NEW c \in Callers, Backoff(c)
      PROVE  Typed'
  BY <1>12 DEF Backoff
<1>13. ASSUME NEW c \in Callers, DialReady(c)
      PROVE  Typed'
  BY <1>13 DEF DialReady
<1>14. ASSUME NEW c \in Callers, Publish(c)
      PROVE  Typed'
  BY <1>14 DEF Publish, SlotFree
<1>15. ASSUME NEW c \in Callers, SpawnFirst(c)
      PROVE  Typed'
  BY <1>15 DEF SpawnFirst, Spawn
<1>16. ASSUME NEW c \in Callers, Push(c)
      PROVE  Typed'
  <2>1. pc[c] = "push"
    BY <1>16 DEF Push, Release
  <2>2. slot' = hand[c] /\ members' = {hand[c]} /\ hand' = [hand EXCEPT ![c] = NoPool]
    BY <1>16 DEF Push, Release
  <2>3. woken' = registered /\ UNCHANGED <<sess, loops, registered, main>>
    BY <1>16 DEF Push, Release
  <2>4. serial = c /\ hand[c] \in Sessions
    BY <2>1, <2>2, <2>3
  <2>5. CASE /\ main = "gone" /\ pc' = [pc EXCEPT ![c] = "aborted"]
             /\ serial' = Free /\ dials' = [dials EXCEPT ![c] = 0]
             /\ UNCHANGED <<fill, fillPool, filling>>
    BY <2>1, <2>2, <2>3, <2>4, <2>5
  <2>6. CASE /\ main # "gone" /\ pc' = [pc EXCEPT ![c] = "pick"] /\ fill' = "wait"
             /\ fillPool' = hand[c] /\ filling' = NoPool /\ serial' = Fill
             /\ dials' = [dials EXCEPT ![Fill] = dials[c], ![c] = 0]
    BY <2>1, <2>2, <2>3, <2>4, <2>6
  <2> QED
    BY <1>16, <2>5, <2>6 DEF Push, Release
<1>17. CASE FillEnds
  BY <1>17 DEF FillEnds, FillStops, Release
<1>18. CASE FillDialFails
  BY <1>18 DEF FillDialFails
<1>19. CASE FillDialReady
  BY <1>19 DEF FillDialReady
<1>20. CASE FillPublish
  BY <1>20 DEF FillPublish, FillStops, Release, SlotFree
<1>21. CASE FillSpawn
  BY <1>21 DEF FillSpawn, Spawn
<1>22. CASE FillPush
  <2>1. UNCHANGED <<slot, sess, pc, loops, hand, notify, main>>
    BY <1>22 DEF FillPush
  <2>2. members' = members \cup {filling} /\ filling \in Sessions
    BY <1>22 DEF FillPush, FillsAPool
  <2>3. \/ /\ fill' = "none" /\ fillPool' = NoPool /\ filling' = NoPool
           /\ serial' = (IF serial = Fill THEN Free ELSE serial)
           /\ dials' = [dials EXCEPT ![Fill] = 0]
        \/ fill' = "wait" /\ filling' = NoPool /\ UNCHANGED <<fillPool, serial, dials>>
    BY <1>22 DEF FillPush, FillStops, Release
  <2> QED
    BY <2>1, <2>2, <2>3
<1>23. ASSUME NEW s \in Sessions, SessionEnds(s)
      PROVE  Typed'
  BY <1>23 DEF SessionEnds
<1>24. ASSUME NEW s \in Sessions, RemoveSession(s)
      PROVE  Typed'
  BY <1>24 DEF RemoveSession, SlotFree, Retain
<1>25. CASE AskShutdown
  BY <1>25 DEF AskShutdown
<1>26. CASE ClearSlot
  BY <1>26 DEF ClearSlot, SlotFree
<1>27. CASE Abort
  BY <1>27 DEF Abort
<1>28. CASE UNCHANGED vars
  BY <1>28 DEF vars
<1> QED
  BY <1>1, <1>2, <1>3, <1>4, <1>5, <1>6, <1>7, <1>8, <1>9, <1>10, <1>11,
     <1>12, <1>13, <1>14, <1>15, <1>16, <1>17, <1>18, <1>19, <1>20, <1>21,
     <1>22, <1>23, <1>24, <1>25, <1>26, <1>27, <1>28
  DEF Next, CallerStep, FillStep

\* Every step keeps what the connect lock and the slot lock protect.
LEMMA NextGuarded ==
  ASSUME IInv, [Next]_vars
  PROVE  Guarded'
<1> USE PoolAssumption
    DEF IInv, Typed, Values, Guarded, LockHeld, DialsHeld, DialsLeft,
        OwnerAlone, PoolNotEmpty, FillsAPool, WaitersKnow, GoneIsQuiet,
        Connecting, Owners, Free, NoPool, Sessions, Steps, Final, Locked, pool,
        fillVars, notify, loops, Goto
<1>1. ASSUME NEW c \in Callers, Arrive(c)
      PROVE  Guarded'
  BY <1>1 DEF Arrive
<1>2. ASSUME NEW c \in Callers, Start(c)
      PROVE  Guarded'
  BY <1>2 DEF Start, SlotFree
<1>3. ASSUME NEW c \in Callers, Pick(c)
      PROVE  Guarded'
  <2>1. pc[c] = "pick"
    BY <1>3 DEF Pick, Retry
  <2>2. UNCHANGED <<pool, sess, serial, batches, dials, notify, fill, fillPool, filling,
                  main>>
    BY <1>3 DEF Pick, Retry
  <2>3. CASE /\ tries[c] + 1 < SlotRetries
             /\ tries' = [tries EXCEPT ![c] = tries[c] + 1]
             /\ pc' = [pc EXCEPT ![c] = "start"] /\ hand' = hand
    BY <2>1, <2>2, <2>3
  <2>4. CASE /\ tries' = [tries EXCEPT ![c] = tries[c] + 1]
             /\ pc' = [pc EXCEPT ![c] = "failed"] /\ hand' = hand
    BY <2>1, <2>2, <2>4
  <2>5. CASE /\ tries' = tries /\ pc' = [pc EXCEPT ![c] = "open"]
             /\ \E s \in members : hand' = [hand EXCEPT ![c] = s]
    BY <2>1, <2>2, <2>5
  <2>6. CASE hand' = hand /\ tries' = tries /\ pc' = [pc EXCEPT ![c] = "prune"]
    BY <2>1, <2>2, <2>6
  <2> QED
    BY <1>3, <2>3, <2>4, <2>5, <2>6 DEF Pick, Retry
<1>4. ASSUME NEW c \in Callers, Prune(c)
      PROVE  Guarded'
  BY <1>4 DEF Prune, SlotFree, Retry, Retain, Loadable
<1>5. ASSUME NEW c \in Callers, Open(c)
      PROVE  Guarded'
  <2>1. pc[c] = "open"
    BY <1>5 DEF Open
  <2>2. hand' = [hand EXCEPT ![c] = NoPool]
    BY <1>5 DEF Open
  <2>3. UNCHANGED <<pool, sess, serial, loops, dials, notify, fill, fillPool, filling,
                  main>>
    BY <1>5 DEF Open
  <2>4. CASE pc' = [pc EXCEPT ![c] = "served"]
    BY <2>1, <2>2, <2>3, <2>4
  <2>5. CASE pc' = [pc EXCEPT ![c] = "tunnel"]
    BY <2>1, <2>2, <2>3, <2>5
  <2>6. CASE pc' = [pc EXCEPT ![c] = "failed"]
    BY <2>1, <2>2, <2>3, <2>6
  <2>7. CASE pc' = [pc EXCEPT ![c] = "prune"]
    BY <2>1, <2>2, <2>3, <2>7
  <2> QED
    BY <1>5, <2>4, <2>5, <2>6, <2>7 DEF Open
<1>6. ASSUME NEW c \in Callers, Register(c)
      PROVE  Guarded'
  <2>1. pc[c] = "register" /\ woken' = woken \ {c}
    BY <1>6 DEF Register
  <2>2. UNCHANGED <<pool, sess, serial, loops, dials, hand, fill, fillPool, filling,
                  main>>
    BY <1>6 DEF Register
  <2>3. CASE pc' = [pc EXCEPT ![c] = "failed"] /\ registered' = registered \ {c}
    BY <2>1, <2>2, <2>3
  <2>4. CASE pc' = [pc EXCEPT ![c] = "check"] /\ registered' = registered \cup {c}
    BY <2>1, <2>2, <2>4
  <2> QED
    BY <1>6, <2>3, <2>4 DEF Register
<1>7. ASSUME NEW c \in Callers, Check(c)
      PROVE  Guarded'
  BY <1>7 DEF Check, SlotFree, HasSessions
<1>8. ASSUME NEW c \in Callers, Select(c)
      PROVE  Guarded'
  <2>1. /\ pc[c] = "select" /\ registered' = registered \ {c} /\ woken' = woken \ {c}
        /\ UNCHANGED <<pool, sess, loops, dials, hand, fillVars, main>>
    BY <1>8 DEF Select
  <2>2. CASE serial' = serial /\ pc' = [pc EXCEPT ![c] = "failed"]
    BY <2>1, <2>2
  <2>4. CASE serial' = serial /\ pc' = [pc EXCEPT ![c] = "register"]
    BY <2>1, <2>4
  <2>3. CASE /\ serial = Free /\ serial' = c /\ pc' = [pc EXCEPT ![c] = "recheck"]
             /\ c \notin woken /\ ~shutdown
    <3>1. main # "cleared"
      BY <2>3 DEF Flags, ClearedIsShut
    <3>2. main = "running" /\ slot = NoPool /\ members = {}
      BY <2>1, <2>3, <3>1
    <3>3. \A s \in Sessions : sess[s] # "alive"
      BY <2>1, <2>3, <3>2 DEF PoolMatchesSessions, InPush
    <3> QED
      BY <2>1, <2>3, <3>2, <3>3
  <2> QED
    BY <1>8, <2>2, <2>3, <2>4 DEF Select
<1>9. ASSUME NEW c \in Callers, Recheck(c)
      PROVE  Guarded'
  <2>1. pc[c] = "recheck" /\ SlotFree
    BY <1>9 DEF Recheck, HasSessions, Release
  <2>2. UNCHANGED <<pool, sess, tries, hand, notify, fill, fillPool, filling,
                  main>>
    BY <1>9 DEF Recheck, HasSessions, Release
  <2>3. serial = c
    BY <2>1, <2>2
  <2>4. CASE /\ pc' = [pc EXCEPT ![c] = "pick"] /\ batches' = batches
             /\ serial' = Free /\ dials' = [dials EXCEPT ![c] = 0]
    BY <2>1, <2>2, <2>3, <2>4
  <2>5. CASE /\ pc' = [pc EXCEPT ![c] = "dial"] /\ batches' = [batches EXCEPT ![c] = 1]
             /\ serial' = serial /\ dials' = [dials EXCEPT ![c] = Parallel]
    BY <2>1, <2>2, <2>3, <2>5
  <2> QED
    BY <1>9, <2>4, <2>5 DEF Recheck, HasSessions, Release
<1>10. ASSUME NEW c \in Callers, ConnectStopped(c)
      PROVE  Guarded'
  BY <1>10 DEF ConnectStopped, Release
<1>11. ASSUME NEW c \in Callers, DialFails(c)
      PROVE  Guarded'
  <2>1. pc[c] = "dial"
    BY <1>11 DEF DialFails, Release
  <2>2. UNCHANGED <<pool, sess, loops, hand, notify, fill, fillPool, filling,
                  main>>
    BY <1>11 DEF DialFails, Release
  <2>3. serial = c
    BY <2>1, <2>2
  <2>4. CASE /\ dials[c] > 1 /\ dials' = [dials EXCEPT ![c] = dials[c] - 1]
             /\ UNCHANGED <<serial, pc>>
    BY <2>1, <2>2, <2>3, <2>4
  <2>5. CASE /\ batches[c] < ConnectAttempts /\ dials' = [dials EXCEPT ![c] = 0]
             /\ pc' = [pc EXCEPT ![c] = "backoff"] /\ serial' = serial
    BY <2>1, <2>2, <2>3, <2>5
  <2>6. CASE /\ pc' = [pc EXCEPT ![c] = "failed"] /\ dials' = [dials EXCEPT ![c] = 0]
             /\ serial' = Free
    BY <2>1, <2>2, <2>3, <2>6
  <2> QED
    BY <1>11, <2>4, <2>5, <2>6 DEF DialFails, Release
<1>12. ASSUME NEW c \in Callers, Backoff(c)
      PROVE  Guarded'
  BY <1>12 DEF Backoff
<1>13. ASSUME NEW c \in Callers, DialReady(c)
      PROVE  Guarded'
  BY <1>13 DEF DialReady
<1>14. ASSUME NEW c \in Callers, Publish(c)
      PROVE  Guarded'
  BY <1>14 DEF Publish, SlotFree
<1>15. ASSUME NEW c \in Callers, SpawnFirst(c)
      PROVE  Guarded'
  <2>1. Fresh \in Sessions /\ sess[Fresh] = "none"
    BY <1>15, FreshIsUnused DEF SpawnFirst
  <2> QED
    BY <1>15, <2>1 DEF SpawnFirst, Spawn
<1>16. ASSUME NEW c \in Callers, Push(c)
      PROVE  Guarded'
  <2>1. pc[c] = "push"
    BY <1>16 DEF Push, Release
  <2>2. slot' = hand[c] /\ members' = {hand[c]} /\ hand' = [hand EXCEPT ![c] = NoPool]
    BY <1>16 DEF Push, Release
  <2>3. woken' = registered /\ UNCHANGED <<sess, loops, registered, main>>
    BY <1>16 DEF Push, Release
  <2>4. serial = c /\ hand[c] \in Sessions
    BY <2>1, <2>2, <2>3
  <2>5. CASE /\ main = "gone" /\ pc' = [pc EXCEPT ![c] = "aborted"]
             /\ serial' = Free /\ dials' = [dials EXCEPT ![c] = 0]
             /\ UNCHANGED <<fill, fillPool, filling>>
    BY <2>1, <2>2, <2>3, <2>4, <2>5
  <2>6. CASE /\ main # "gone" /\ pc' = [pc EXCEPT ![c] = "pick"] /\ fill' = "wait"
             /\ fillPool' = hand[c] /\ filling' = NoPool /\ serial' = Fill
             /\ dials' = [dials EXCEPT ![Fill] = dials[c], ![c] = 0]
    BY <2>1, <2>2, <2>3, <2>4, <2>6
  <2> QED
    BY <1>16, <2>5, <2>6 DEF Push, Release
<1>17. CASE FillEnds
  BY <1>17 DEF FillEnds, FillStops, Release
<1>18. CASE FillDialFails
  BY <1>18 DEF FillDialFails
<1>19. CASE FillDialReady
  BY <1>19 DEF FillDialReady
<1>20. CASE FillPublish
  BY <1>20 DEF FillPublish, FillStops, Release, SlotFree
<1>21. CASE FillSpawn
  <2>1. Fresh \in Sessions /\ sess[Fresh] = "none"
    BY <1>21, FreshIsUnused DEF FillSpawn
  <2> QED
    BY <1>21, <2>1 DEF FillSpawn, Spawn
<1>22. CASE FillPush
  BY <1>22 DEF FillPush, FillStops, Release
<1>23. ASSUME NEW s \in Sessions, SessionEnds(s)
      PROVE  Guarded'
  BY <1>23 DEF SessionEnds
<1>24. ASSUME NEW s \in Sessions, RemoveSession(s)
      PROVE  Guarded'
  BY <1>24 DEF RemoveSession, SlotFree, Retain
<1>25. CASE AskShutdown
  BY <1>25 DEF AskShutdown
<1>26. CASE ClearSlot
  BY <1>26 DEF ClearSlot, SlotFree
<1>27. CASE Abort
  BY <1>27 DEF Abort
<1>28. CASE UNCHANGED vars
  BY <1>28 DEF vars
<1> QED
  BY <1>1, <1>2, <1>3, <1>4, <1>5, <1>6, <1>7, <1>8, <1>9, <1>10, <1>11,
     <1>12, <1>13, <1>14, <1>15, <1>16, <1>17, <1>18, <1>19, <1>20, <1>21,
     <1>22, <1>23, <1>24, <1>25, <1>26, <1>27, <1>28
  DEF Next, CallerStep, FillStep

\* Every step keeps the pool and the session tasks in agreement.
LEMMA NextPool ==
  ASSUME IInv, [Next]_vars
  PROVE  PoolMatchesSessions'
<1> USE PoolAssumption
    DEF IInv, Typed, Values, Guarded, LockHeld, OwnerAlone, PoolNotEmpty,
        FillsAPool, PoolMatchesSessions, Connecting, Owners, Free, NoPool,
        Sessions, Locked, InPush, pool, fillVars, notify, loops, Goto
<1>1. ASSUME NEW c \in Callers, Arrive(c)
      PROVE  PoolMatchesSessions'
  BY <1>1 DEF Arrive
<1>2. ASSUME NEW c \in Callers, Start(c)
      PROVE  PoolMatchesSessions'
  BY <1>2 DEF Start, SlotFree
<1>3. ASSUME NEW c \in Callers, Pick(c)
      PROVE  PoolMatchesSessions'
  BY <1>3 DEF Pick, SlotFree, Retry, Loadable
<1>4. ASSUME NEW c \in Callers, Prune(c)
      PROVE  PoolMatchesSessions'
  BY <1>4 DEF Prune, SlotFree, Retry, Retain, Loadable
<1>5. ASSUME NEW c \in Callers, Open(c)
      PROVE  PoolMatchesSessions'
  BY <1>5 DEF Open, Loadable
<1>6. ASSUME NEW c \in Callers, Register(c)
      PROVE  PoolMatchesSessions'
  BY <1>6 DEF Register
<1>7. ASSUME NEW c \in Callers, Check(c)
      PROVE  PoolMatchesSessions'
  BY <1>7 DEF Check, SlotFree, HasSessions
<1>8. ASSUME NEW c \in Callers, Select(c)
      PROVE  PoolMatchesSessions'
  BY <1>8 DEF Select
<1>9. ASSUME NEW c \in Callers, Recheck(c)
      PROVE  PoolMatchesSessions'
  BY <1>9 DEF Recheck, SlotFree, HasSessions, Release
<1>10. ASSUME NEW c \in Callers, ConnectStopped(c)
      PROVE  PoolMatchesSessions'
  BY <1>10 DEF ConnectStopped, Release
<1>11. ASSUME NEW c \in Callers, DialFails(c)
      PROVE  PoolMatchesSessions'
  BY <1>11 DEF DialFails, Release
<1>12. ASSUME NEW c \in Callers, Backoff(c)
      PROVE  PoolMatchesSessions'
  BY <1>12 DEF Backoff
<1>13. ASSUME NEW c \in Callers, DialReady(c)
      PROVE  PoolMatchesSessions'
  BY <1>13 DEF DialReady
<1>14. ASSUME NEW c \in Callers, Publish(c)
      PROVE  PoolMatchesSessions'
  BY <1>14 DEF Publish, SlotFree
<1>15. ASSUME NEW c \in Callers, SpawnFirst(c)
      PROVE  PoolMatchesSessions'
  <2>1. Fresh \in Sessions /\ sess[Fresh] = "none"
    BY <1>15, FreshIsUnused DEF SpawnFirst
  <2> QED
    BY <1>15, <2>1 DEF SpawnFirst, Spawn
<1>16. ASSUME NEW c \in Callers, Push(c)
      PROVE  PoolMatchesSessions'
  BY <1>16 DEF Push, Release
<1>17. CASE FillEnds
  BY <1>17 DEF FillEnds, FillStops, Release
<1>18. CASE FillDialFails
  BY <1>18 DEF FillDialFails
<1>19. CASE FillDialReady
  BY <1>19 DEF FillDialReady
<1>20. CASE FillPublish
  BY <1>20 DEF FillPublish, FillStops, Release, SlotFree
<1>21. CASE FillSpawn
  <2>1. Fresh \in Sessions /\ sess[Fresh] = "none"
    BY <1>21, FreshIsUnused DEF FillSpawn
  <2> QED
    BY <1>21, <2>1 DEF FillSpawn, Spawn
<1>22. CASE FillPush
  BY <1>22 DEF FillPush, FillStops, Release
<1>23. ASSUME NEW s \in Sessions, SessionEnds(s)
      PROVE  PoolMatchesSessions'
  BY <1>23 DEF SessionEnds
<1>24. ASSUME NEW s \in Sessions, RemoveSession(s)
      PROVE  PoolMatchesSessions'
  <2>1. InPush = {} /\ InPush' = {}
    BY <1>24 DEF RemoveSession, SlotFree
  <2>2. members' = members \ {s}
    BY <1>24 DEF RemoveSession, Retain
  <2> QED
    BY <1>24, <2>1, <2>2 DEF RemoveSession
<1>25. CASE AskShutdown
  BY <1>25 DEF AskShutdown
<1>26. CASE ClearSlot
  BY <1>26 DEF ClearSlot, SlotFree
<1>27. CASE Abort
  BY <1>27 DEF Abort
<1>28. CASE UNCHANGED vars
  BY <1>28 DEF vars
<1> QED
  BY <1>1, <1>2, <1>3, <1>4, <1>5, <1>6, <1>7, <1>8, <1>9, <1>10, <1>11,
     <1>12, <1>13, <1>14, <1>15, <1>16, <1>17, <1>18, <1>19, <1>20, <1>21,
     <1>22, <1>23, <1>24, <1>25, <1>26, <1>27, <1>28
  DEF Next, CallerStep, FillStep

\* The watches; only a client that was asked to stop clears its slot.
LEMMA NextFlags ==
  ASSUME IInv, [Next]_vars
  PROVE  Flags'
<1> USE DEF IInv, Flags, ClearedIsShut, pool, fillVars
<1>1. ASSUME NEW c \in Callers, Arrive(c)
      PROVE  Flags'
  BY <1>1, Zenon DEF Arrive
<1>2. ASSUME NEW c \in Callers, Start(c)
      PROVE  Flags'
  BY <1>2, Zenon DEF Start
<1>3. ASSUME NEW c \in Callers, Pick(c)
      PROVE  Flags'
  BY <1>3, Zenon DEF Pick
<1>4. ASSUME NEW c \in Callers, Prune(c)
      PROVE  Flags'
  BY <1>4, Zenon DEF Prune, Retain
<1>5. ASSUME NEW c \in Callers, Open(c)
      PROVE  Flags'
  BY <1>5, Zenon DEF Open
<1>6. ASSUME NEW c \in Callers, Register(c)
      PROVE  Flags'
  BY <1>6, Zenon DEF Register
<1>7. ASSUME NEW c \in Callers, Check(c)
      PROVE  Flags'
  BY <1>7, Zenon DEF Check
<1>8. ASSUME NEW c \in Callers, Select(c)
      PROVE  Flags'
  BY <1>8, Zenon DEF Select
<1>9. ASSUME NEW c \in Callers, Recheck(c)
      PROVE  Flags'
  BY <1>9, Zenon DEF Recheck
<1>10. ASSUME NEW c \in Callers, ConnectStopped(c)
      PROVE  Flags'
  BY <1>10, Zenon DEF ConnectStopped
<1>11. ASSUME NEW c \in Callers, DialFails(c)
      PROVE  Flags'
  BY <1>11, Zenon DEF DialFails
<1>12. ASSUME NEW c \in Callers, Backoff(c)
      PROVE  Flags'
  BY <1>12, Zenon DEF Backoff
<1>13. ASSUME NEW c \in Callers, DialReady(c)
      PROVE  Flags'
  BY <1>13, Zenon DEF DialReady
<1>14. ASSUME NEW c \in Callers, Publish(c)
      PROVE  Flags'
  BY <1>14, Zenon DEF Publish
<1>15. ASSUME NEW c \in Callers, SpawnFirst(c)
      PROVE  Flags'
  BY <1>15, Zenon DEF SpawnFirst
<1>16. ASSUME NEW c \in Callers, Push(c)
      PROVE  Flags'
  BY <1>16, Zenon DEF Push
<1>17. CASE FillEnds
  BY <1>17, Zenon DEF FillEnds, FillStops
<1>18. CASE FillDialFails
  BY <1>18, Zenon DEF FillDialFails
<1>19. CASE FillDialReady
  BY <1>19, Zenon DEF FillDialReady
<1>20. CASE FillPublish
  BY <1>20, Zenon DEF FillPublish, FillStops
<1>21. CASE FillSpawn
  BY <1>21, Zenon DEF FillSpawn
<1>22. CASE FillPush
  BY <1>22, Zenon DEF FillPush, FillStops
<1>23. ASSUME NEW s \in Sessions, SessionEnds(s)
      PROVE  Flags'
  BY <1>23, Zenon DEF SessionEnds
<1>24. ASSUME NEW s \in Sessions, RemoveSession(s)
      PROVE  Flags'
  BY <1>24, Zenon DEF RemoveSession, Retain
<1>25. CASE AskShutdown
  BY <1>25, Zenon DEF AskShutdown
<1>26. CASE ClearSlot
  BY <1>26, Zenon DEF ClearSlot
<1>27. CASE Abort
  BY <1>27, Zenon DEF Abort
<1>28. CASE UNCHANGED vars
  BY <1>28 DEF vars
<1> QED
  BY <1>1, <1>2, <1>3, <1>4, <1>5, <1>6, <1>7, <1>8, <1>9, <1>10, <1>11,
     <1>12, <1>13, <1>14, <1>15, <1>16, <1>17, <1>18, <1>19, <1>20, <1>21,
     <1>22, <1>23, <1>24, <1>25, <1>26, <1>27, <1>28
  DEF Next, CallerStep, FillStep

\* No session is spawned.
NoneBorn ==
  \A s \in Sessions : /\ sess'[s] = "none" <=> sess[s] = "none"
                      /\ sess'[s] = "alive" => sess[s] = "alive"

\* A step that spawns nothing and starts no dial keeps the counts.
LEMMA CountsKept ==
  ASSUME IInv, Values', Held' <= Held, NoneBorn
  PROVE  Numbered' /\ LinksCounted'
<1>1. Numbered'
  BY DEF IInv, Numbered, NoneBorn, Sessions
<1>2. Alive' \subseteq Alive
  BY DEF Alive, NoneBorn, Sessions
<1>3. Cardinality(Alive') <= Cardinality(Alive) /\ Cardinality(Alive') \in Nat
  BY <1>2, AliveFinite, FS_Subset, FS_CardinalityType
<1>4. Held \in Nat /\ Held' \in Nat
  BY PoolAssumption DEF IInv, Typed, Values, Held
<1> QED
  BY <1>1, <1>3, <1>4, AliveFinite, PoolAssumption DEF IInv, LinksCounted

\* A dial that becomes a session is counted once.
LEMMA CountsMoved ==
  ASSUME IInv, Values', Fresh \in Sessions, Spawn, Held' = Held - 1
  PROVE  Numbered' /\ LinksCounted'
<1>1. Numbered' /\ sess[Fresh] = "none"
  <2> DEFINE v == IF main = "gone" THEN "aborted" ELSE "alive"
  <2>1. v # "none" /\ sess' = [sess EXCEPT ![Fresh] = v]
    BY DEF Spawn
  <2> HIDE DEF v
  <2> QED
    BY <2>1, FreshIsUnused DEF IInv, Typed
<1>2. Alive' \subseteq Alive \cup {Fresh} /\ Fresh \notin Alive
  BY <1>1 DEF Alive, Spawn, IInv, Typed, Values, Sessions
<1>3. /\ IsFiniteSet(Alive \cup {Fresh})
      /\ Cardinality(Alive \cup {Fresh}) = Cardinality(Alive) + 1
  BY <1>2, AliveFinite, FS_AddElement
<1>4. Cardinality(Alive') <= Cardinality(Alive) + 1 /\ Cardinality(Alive') \in Nat
  BY <1>2, <1>3, FS_Subset, FS_CardinalityType
<1>5. Held \in Nat /\ Held' \in Nat
  BY PoolAssumption DEF IInv, Typed, Values, Held
<1> QED
  BY <1>1, <1>4, <1>5, AliveFinite, PoolAssumption DEF IInv, LinksCounted

\* A new batch starts only when no session lives.
LEMMA BatchFits ==
  ASSUME IInv, Values', sess' = sess, NEW c \in Callers, pc[c] \in Connecting
  PROVE  Numbered' /\ LinksCounted'
<1>1. Numbered'
  BY DEF IInv, Numbered, Sessions
<1>2. Alive' = {}
  BY DEF IInv, Guarded, OwnerAlone, Alive, Sessions
<1>3. Cardinality(Alive') = 0
  BY <1>2, FS_EmptySet
<1>4. Held' \in Nat /\ Held' <= Parallel
  BY PoolAssumption DEF Values, Held
<1>5. Cardinality(Alive') + Held' <= Parallel
  <2>1. \A h \in Nat : 0 + h = h
    OBVIOUS
  <2> QED
    BY <1>3, <1>4, <2>1, Zenon
<1> QED
  BY <1>1, <1>5 DEF LinksCounted

\* Links are counted once, from the dial to the end of the session.
LEMMA NextCounts ==
  ASSUME IInv, [Next]_vars
  PROVE  Numbered' /\ LinksCounted'
<1> USE PoolAssumption
    DEF LockHeld, DialsHeld, DialsLeft, Connecting, Owners, Free, pool,
        fillVars, notify, loops, Goto
<1>0. Values' /\ Values /\ LockHeld /\ DialsHeld /\ DialsLeft
  BY NextTyped DEF IInv, Typed, Guarded
<1>1. ASSUME NEW c \in Callers, Arrive(c)
      PROVE  Numbered' /\ LinksCounted'
  <2>1. sess' = sess /\ Held' = Held /\ Held \in Nat
    BY <1>0, <1>1 DEF Arrive, Held, Values
  <2> QED
    BY <1>0, <2>1, CountsKept DEF NoneBorn
<1>2. ASSUME NEW c \in Callers, Start(c)
      PROVE  Numbered' /\ LinksCounted'
  <2>1. sess' = sess /\ Held' = Held /\ Held \in Nat
    BY <1>0, <1>2 DEF Start, Held, Values
  <2> QED
    BY <1>0, <2>1, CountsKept DEF NoneBorn
<1>3. ASSUME NEW c \in Callers, Pick(c)
      PROVE  Numbered' /\ LinksCounted'
  <2>1. sess' = sess /\ Held' = Held /\ Held \in Nat
    BY <1>0, <1>3 DEF Pick, Held, Values
  <2> QED
    BY <1>0, <2>1, CountsKept DEF NoneBorn
<1>4. ASSUME NEW c \in Callers, Prune(c)
      PROVE  Numbered' /\ LinksCounted'
  <2>1. sess' = sess /\ Held' = Held /\ Held \in Nat
    BY <1>0, <1>4 DEF Prune, Held, Values
  <2> QED
    BY <1>0, <2>1, CountsKept DEF NoneBorn
<1>5. ASSUME NEW c \in Callers, Open(c)
      PROVE  Numbered' /\ LinksCounted'
  <2>1. sess' = sess /\ Held' = Held /\ Held \in Nat
    BY <1>0, <1>5 DEF Open, Held, Values
  <2> QED
    BY <1>0, <2>1, CountsKept DEF NoneBorn
<1>6. ASSUME NEW c \in Callers, Register(c)
      PROVE  Numbered' /\ LinksCounted'
  <2>1. sess' = sess /\ Held' = Held /\ Held \in Nat
    BY <1>0, <1>6 DEF Register, Held, Values
  <2> QED
    BY <1>0, <2>1, CountsKept DEF NoneBorn
<1>7. ASSUME NEW c \in Callers, Check(c)
      PROVE  Numbered' /\ LinksCounted'
  <2>1. sess' = sess /\ Held' = Held /\ Held \in Nat
    BY <1>0, <1>7 DEF Check, Held, Values
  <2> QED
    BY <1>0, <2>1, CountsKept DEF NoneBorn
<1>8. ASSUME NEW c \in Callers, Select(c)
      PROVE  Numbered' /\ LinksCounted'
  <2>1. NoneBorn
    BY <1>0, <1>8 DEF Select, NoneBorn, Values
  <2>2. Held' <= Held
    BY <1>0, <1>8 DEF Select, Held, Values
  <2> QED
    BY <1>0, <2>1, <2>2, CountsKept
<1>9. ASSUME NEW c \in Callers, Recheck(c)
      PROVE  Numbered' /\ LinksCounted'
  <2>1. sess' = sess /\ pc[c] \in Connecting
    BY <1>9 DEF Recheck
  <2> QED
    BY <1>0, <2>1, BatchFits
<1>10. ASSUME NEW c \in Callers, ConnectStopped(c)
      PROVE  Numbered' /\ LinksCounted'
  <2>1. NoneBorn
    BY <1>0, <1>10 DEF ConnectStopped, NoneBorn, Values
  <2>2. Held' <= Held
    BY <1>0, <1>10 DEF ConnectStopped, Release, Held, Values
  <2> QED
    BY <1>0, <2>1, <2>2, CountsKept
<1>11. ASSUME NEW c \in Callers, DialFails(c)
      PROVE  Numbered' /\ LinksCounted'
  <2>1. NoneBorn
    BY <1>0, <1>11 DEF DialFails, NoneBorn, Values
  <2>2. Held' <= Held
    BY <1>0, <1>11 DEF DialFails, Release, Held, Values
  <2> QED
    BY <1>0, <2>1, <2>2, CountsKept
<1>12. ASSUME NEW c \in Callers, Backoff(c)
      PROVE  Numbered' /\ LinksCounted'
  <2>1. sess' = sess /\ pc[c] \in Connecting
    BY <1>12 DEF Backoff
  <2> QED
    BY <1>0, <2>1, BatchFits
<1>13. ASSUME NEW c \in Callers, DialReady(c)
      PROVE  Numbered' /\ LinksCounted'
  <2>1. sess' = sess /\ Held' = Held /\ Held \in Nat
    BY <1>0, <1>13 DEF DialReady, Held, Values
  <2> QED
    BY <1>0, <2>1, CountsKept DEF NoneBorn
<1>14. ASSUME NEW c \in Callers, Publish(c)
      PROVE  Numbered' /\ LinksCounted'
  <2>1. sess' = sess /\ Held' = Held /\ Held \in Nat
    BY <1>0, <1>14 DEF Publish, Held, Values
  <2> QED
    BY <1>0, <2>1, CountsKept DEF NoneBorn
<1>15. ASSUME NEW c \in Callers, SpawnFirst(c)
      PROVE  Numbered' /\ LinksCounted'
  <2>1. Fresh \in Sessions /\ Spawn
    BY <1>15 DEF SpawnFirst
  <2>2. Held' = Held - 1
    BY <1>0, <1>15 DEF SpawnFirst, Held, Values
  <2> QED
    BY <1>0, <2>1, <2>2, CountsMoved
<1>16. ASSUME NEW c \in Callers, Push(c)
      PROVE  Numbered' /\ LinksCounted'
  <2>1. NoneBorn
    BY <1>0, <1>16 DEF Push, NoneBorn, Values
  <2>2. Held' <= Held
    BY <1>0, <1>16 DEF Push, Release, Held, Values
  <2> QED
    BY <1>0, <2>1, <2>2, CountsKept
<1>17. CASE FillEnds
  <2>1. NoneBorn
    BY <1>0, <1>17 DEF FillEnds, NoneBorn, Values
  <2>2. Held' <= Held
    BY <1>0, <1>17 DEF FillEnds, FillStops, Release, Held, Values
  <2> QED
    BY <1>0, <2>1, <2>2, CountsKept
<1>18. CASE FillDialFails
  <2>1. NoneBorn
    BY <1>0, <1>18 DEF FillDialFails, NoneBorn, Values
  <2>2. Held' <= Held
    BY <1>0, <1>18 DEF FillDialFails, Held, Values
  <2> QED
    BY <1>0, <2>1, <2>2, CountsKept
<1>19. CASE FillDialReady
  <2>1. sess' = sess /\ Held' = Held /\ Held \in Nat
    BY <1>0, <1>19 DEF FillDialReady, Held, Values
  <2> QED
    BY <1>0, <2>1, CountsKept DEF NoneBorn
<1>20. CASE FillPublish
  <2>1. NoneBorn
    BY <1>0, <1>20 DEF FillPublish, NoneBorn, Values
  <2>2. Held' <= Held
    BY <1>0, <1>20 DEF FillPublish, FillStops, Release, SlotFree, Held, Values
  <2> QED
    BY <1>0, <2>1, <2>2, CountsKept
<1>21. CASE FillSpawn
  <2>1. Fresh \in Sessions /\ Spawn
    BY <1>21 DEF FillSpawn
  <2>2. Held' = Held - 1
    BY <1>0, <1>21 DEF FillSpawn, Held, Values
  <2> QED
    BY <1>0, <2>1, <2>2, CountsMoved
<1>22. CASE FillPush
  <2>1. NoneBorn
    BY <1>0, <1>22 DEF FillPush, NoneBorn, Values
  <2>2. Held' <= Held
    BY <1>0, <1>22 DEF FillPush, FillStops, Release, Held, Values
  <2> QED
    BY <1>0, <2>1, <2>2, CountsKept
<1>23. ASSUME NEW s \in Sessions, SessionEnds(s)
      PROVE  Numbered' /\ LinksCounted'
  <2>1. NoneBorn
    BY <1>0, <1>23 DEF SessionEnds, NoneBorn, Values
  <2>2. Held' <= Held
    BY <1>0, <1>23 DEF SessionEnds, Held, Values
  <2> QED
    BY <1>0, <2>1, <2>2, CountsKept
<1>24. ASSUME NEW s \in Sessions, RemoveSession(s)
      PROVE  Numbered' /\ LinksCounted'
  <2>1. NoneBorn
    BY <1>0, <1>24 DEF RemoveSession, Retain, NoneBorn, Values
  <2>2. Held' <= Held
    BY <1>0, <1>24 DEF RemoveSession, SlotFree, Retain, Held, Values
  <2> QED
    BY <1>0, <2>1, <2>2, CountsKept
<1>25. CASE AskShutdown
  <2>1. sess' = sess /\ Held' = Held /\ Held \in Nat
    BY <1>0, <1>25 DEF AskShutdown, Held, Values
  <2> QED
    BY <1>0, <2>1, CountsKept DEF NoneBorn
<1>26. CASE ClearSlot
  <2>1. sess' = sess /\ Held' = Held /\ Held \in Nat
    BY <1>0, <1>26 DEF ClearSlot, Held, Values
  <2> QED
    BY <1>0, <2>1, CountsKept DEF NoneBorn
<1>27. CASE Abort
  <2>1. NoneBorn
    BY <1>0, <1>27 DEF Abort, NoneBorn, Values
  <2>2. Held' <= Held
    BY <1>0, <1>27 DEF Abort, Held, Values
  <2> QED
    BY <1>0, <2>1, <2>2, CountsKept
<1>28. CASE UNCHANGED vars
  <2>1. sess' = sess /\ Held' = Held /\ Held \in Nat
    BY <1>0, <1>28 DEF vars, Held, Values
  <2> QED
    BY <1>0, <2>1, CountsKept DEF NoneBorn
<1> QED
  BY <1>1, <1>2, <1>3, <1>4, <1>5, <1>6, <1>7, <1>8, <1>9, <1>10, <1>11,
     <1>12, <1>13, <1>14, <1>15, <1>16, <1>17, <1>18, <1>19, <1>20, <1>21,
     <1>22, <1>23, <1>24, <1>25, <1>26, <1>27, <1>28
  DEF Next, CallerStep, FillStep

\* Every reachable state satisfies the inductive invariant.
THEOREM PoolInvariant == Spec => []IInv
<1>1. IInv /\ [Next]_vars => IInv'
  BY NextTyped, NextFlags, NextGuarded, NextPool, NextCounts DEF IInv
<1> QED
  BY InitIInv, <1>1, PTL DEF Spec

\* The links as PoolExact counts them.
LEMMA LinksFit ==
  ASSUME IInv
  PROVE  LinksBounded
<1> DEFINE D == {d \in Owners \X (1..Parallel) : d[2] <= dials[d[1]]}
           N == 1..Held
           E == {serial} \X N
<1>1. Held \in 0..Parallel
  BY PoolAssumption DEF IInv, Typed, Values, Held
<1>2. IsFiniteSet(N) /\ Cardinality(N) = Held
  BY <1>1, FS_Interval
<1>3. IsFiniteSet({serial}) /\ Cardinality({serial}) = 1
  BY FS_Singleton
<1>4. IsFiniteSet(E) /\ Cardinality(E) = Held
  <2>1. IsFiniteSet(E) /\ Cardinality(E) = 1 * Cardinality(N)
    BY <1>2, <1>3, FS_Product
  <2> QED
    BY <2>1, <1>1, <1>2
<1>5. D \subseteq E
  <2> SUFFICES ASSUME NEW o \in Owners, NEW i \in 1..Parallel, i <= dials[o]
               PROVE  o = serial /\ i \in N
    OBVIOUS
  <2>1. dials[o] # 0
    BY PoolAssumption DEF IInv, Typed, Values
  <2>2. o = serial
    BY <2>1 DEF IInv, Guarded, DialsHeld
  <2> QED
    BY <2>2, <1>1 DEF Held
<1>6. Cardinality(D) <= Held /\ Cardinality(D) \in Nat
  BY <1>4, <1>5, FS_Subset, FS_CardinalityType
<1> HIDE DEF D
<1>7. Cardinality(Alive) + Cardinality(D) <= Parallel
  BY <1>1, <1>6, AliveFinite, PoolAssumption DEF IInv, LinksCounted
<1> QED
  BY <1>7 DEF LinksBounded, Alive, D

\* PoolExact: the slot never holds an empty pool, live sessions are in the
\* pool, finished ones are not, and sessions and dials together never exceed
\* ws_parallel, for any number of callers, links, retries and sessions.
THEOREM PoolAlwaysExact == Spec => []PoolExact
<1>1. IInv => PoolExact
  BY LinksFit
  DEF IInv, Typed, Flags, Guarded, PoolNotEmpty, PoolExact, TypeOK,
      SlotHoldsSessions
<1> QED
  BY PoolInvariant, <1>1, PTL

\* Once run_local_client stopped its guard and the last push is over, no
\* session, no dial and no owner of the connect lock is left.
THEOREM NothingEverOutlivesStop == Spec => []NothingOutlivesStop
<1>1. IInv => NothingOutlivesStop
  <2> SUFFICES ASSUME IInv, main = "gone", SlotFree
               PROVE  /\ \A s \in Sessions : sess[s] # "alive"
                      /\ fill = "none" /\ serial = Free
                      /\ \A o \in Owners : dials[o] = 0
    BY DEF NothingOutlivesStop
  <2> USE DEF IInv, Guarded
  <2>1. (\A s \in Sessions : sess[s] # "alive") /\ fill = "none"
    BY DEF GoneIsQuiet, SlotFree
  <2>2. serial = Free
    BY <2>1
    DEF GoneIsQuiet, SlotFree, LockHeld, Typed, Values, Owners, Connecting,
        Final, Locked
  <2>3. \A o \in Owners : dials[o] = 0
    BY <2>2, PoolAssumption DEF DialsHeld, Owners, Free
  <2> QED
    BY <2>1, <2>2, <2>3
<1> QED
  BY PoolInvariant, <1>1, PTL
=============================================================================
