-------------------------- MODULE MuxCreditProofs --------------------------
(***************************************************************************)
(* Credit flow control is safe for every window size and every limit of    *)
(* the queue.  Conservation is what makes NoFault inductive: the byte      *)
(* checks of enqueue, publish_credit and add_credit hold because credit,   *)
(* allowance and bytes on the way are parts of one constant sum.  The      *)
(* refusal of a full queue is reachable; RecordsHoldBytes bounds it.       *)
(***************************************************************************)
EXTENDS MuxCredit, TLAPS

\* A new stream (Flow::new not yet called) satisfies the invariant.
LEMMA InitIInv == Init => IInv
  BY WindowAssumption, MaxQueuedAssumption
     DEF Init, IInv, TypeOK, Conservation, NoFault, IdleIsEmpty, RecordsHoldBytes, Phases

\* Every operation of Flow preserves the invariant.
LEMMA NextIInv == IInv /\ [Next]_vars => IInv'
<1> SUFFICES ASSUME IInv, [Next]_vars
             PROVE  IInv'
  OBVIOUS
<1> USE WindowAssumption, MaxQueuedAssumption
    DEF IInv, TypeOK, Conservation, NoFault, IdleIsEmpty, RecordsHoldBytes, Phases, Dropped
<1>1. CASE Open
  BY <1>1 DEF Open
<1>2. ASSUME NEW n \in 1..Window, Take(n)
      PROVE  IInv'
  BY <1>2 DEF Take
<1>3. ASSUME NEW n \in 1..Window, Enqueue(n)
      PROVE  IInv'
  <2>1. n <= credit /\ held + n <= Window
    BY <1>3 DEF Enqueue
  <2>2. CASE queued < MaxQueued
    BY <1>3, <2>1, <2>2 DEF Enqueue
  <2>3. CASE queued >= MaxQueued
    BY <1>3, <2>1, <2>3 DEF Enqueue
  <2> QED
    BY <2>2, <2>3
<1>4. ASSUME NEW n \in 1..Window, Consume(n)
      PROVE  IInv'
  BY <1>4 DEF Consume
<1>5. CASE Publish
  <2>1. credit + pend <= Window
    BY <1>5 DEF Publish
  <2> QED
    BY <1>5, <2>1 DEF Publish
<1>6. ASSUME NEW n \in 1..Window, AddCredit(n)
      PROVE  IInv'
  <2>1. n <= Window - avail
    BY <1>6 DEF AddCredit
  <2> QED
    BY <1>6, <2>1 DEF AddCredit
<1>7. CASE Retire
  BY <1>7 DEF Retire
<1>8. CASE Receive
  BY <1>8 DEF Receive
<1>9. CASE UNCHANGED vars
  BY <1>9 DEF vars
<1> QED
  BY <1>1, <1>2, <1>3, <1>4, <1>5, <1>6, <1>7, <1>8, <1>9 DEF Next

\* The counters of Flow never leave 0..Window, so no u32 of it can wrap.
THEOREM TypeCorrect == Spec => []TypeOK
<1>1. IInv => TypeOK
  BY DEF IInv
<1> QED
  BY <1>1, InitIInv, NextIInv, PTL DEF Spec

\* The window is conserved between the two ends (take_credit, enqueue,
\* consumed, publish_credit, add_credit).
THEOREM WindowConserved == Spec => []Conservation
<1>1. IInv => Conservation
  BY DEF IInv
<1> QED
  BY <1>1, InitIInv, NextIInv, PTL DEF Spec

\* For any window and any limit of the queue: no byte check of enqueue,
\* publish_credit or add_credit ever fails, and the remaining refusal, of a
\* record that finds MAX_QUEUED_RECORDS queued, is out of reach when the window
\* is no larger than that many bytes.
THEOREM NeverFaults == Spec => []NoFault
<1>1. IInv => NoFault
  BY DEF IInv
<1> QED
  BY <1>1, InitIInv, NextIInv, PTL DEF Spec
=============================================================================
