-------------------------- MODULE RecordLayerProofs --------------------------
(***************************************************************************)
(* No nonce is used twice under a key, for any number of sealing tasks and *)
(* any range of the counter.  A value is used when the compare-and-swap    *)
(* moves the counter past it, so every used nonce is below its counter     *)
(* (UsedBelow); a task that found the counter at its end cannot have read  *)
(* a value ahead of it (NotAhead).                                         *)
(***************************************************************************)
EXTENDS RecordLayer, TLAPS

\* What a task of the session can be doing.
TaskStates ==
    [s : {"idle"}] \cup [s : {"failed"}, h : Halves]
        \cup [s : {"loaded", "sealed"}, h : Halves, c : 0 .. MaxCtr]

\* Types. The counter of a half, what its tasks hold and what was sealed.
TypeOK ==
    /\ ctr \in [Halves -> 0 .. MaxCtr]
    /\ task \in [Tasks -> TaskStates]
    /\ sealed \in Seq(Halves \X (0 .. MaxCtr))

\* The counter only grows, so a value that fetch_update read is not ahead.
NotAhead == \A t \in Tasks : task[t].s = "loaded" => task[t].c <= ctr[task[t].h]

\* A nonce that was used has been left behind by its counter.
UsedBelow == \A i \in 1 .. Len(sealed) : sealed[i][2] < ctr[sealed[i][1]]

\* A task fails only at the end of its counter.
FailedAtEnd == \A t \in Tasks : task[t].s = "failed" => ctr[task[t].h] = MaxCtr

IInv == TypeOK /\ NotAhead /\ UsedBelow /\ NonceOnce /\ FailedAtEnd

\* A fresh session has sealed nothing.
LEMMA InitIInv == Init => IInv
  BY CounterAssumption
  DEF Init, IInv, TypeOK, TaskStates, NotAhead, UsedBelow, NonceOnce, FailedAtEnd, Idle

\* Every step of the loop in next_nonce and of the sink preserves the
\* invariant.
LEMMA NextIInv == IInv /\ [Next]_recVars => IInv'
<1> SUFFICES ASSUME IInv, [Next]_recVars
             PROVE  IInv'
  OBVIOUS
<1> USE CounterAssumption DEF IInv
<1>1. ASSUME NEW t \in Tasks, NEW h \in Halves, Load(t, h)
      PROVE  IInv'
  BY <1>1 DEF Load, TypeOK, TaskStates, NotAhead, UsedBelow, NonceOnce, FailedAtEnd
<1>2. ASSUME NEW t \in Tasks, Exhausted(t)
      PROVE  IInv'
  BY <1>2 DEF Exhausted, TypeOK, TaskStates, NotAhead, UsedBelow, NonceOnce, FailedAtEnd
<1>3. ASSUME NEW t \in Tasks, Swap(t)
      PROVE  IInv'
  <2> DEFINE h == task[t].h
             c == task[t].c
  <2>1. h \in Halves /\ c \in 0 .. MaxCtr /\ c < MaxCtr /\ c = ctr[h]
    BY <1>3 DEF Swap, TypeOK, TaskStates
  <2>2. ctr' = [ctr EXCEPT ![h] = c + 1] /\ sealed' = Append(sealed, <<h, c>>)
        /\ task' = [task EXCEPT ![t] = [s |-> "sealed", h |-> h, c |-> c]]
    BY <1>3, <2>1 DEF Swap, KeyOf
  <2> HIDE DEF h, c
  <2>3. TypeOK'
    BY <2>1, <2>2 DEF TypeOK, TaskStates
  <2>4. NotAhead'
    BY <2>1, <2>2 DEF TypeOK, TaskStates, NotAhead
  <2>5. /\ Len(sealed') = Len(sealed) + 1
        /\ \A i \in 1 .. Len(sealed) : sealed'[i] = sealed[i]
        /\ sealed'[Len(sealed) + 1] = <<h, c>>
        /\ Len(sealed) \in Nat
    BY <2>1, <2>2 DEF TypeOK
  <2>6. \A i \in 1 .. Len(sealed) : sealed[i] \in Halves \X (0 .. MaxCtr)
    BY DEF TypeOK
  <2>7. UsedBelow'
    BY <2>1, <2>2, <2>5, <2>6 DEF TypeOK, UsedBelow
  <2>8. \A i \in 1 .. Len(sealed) : sealed[i] # <<h, c>>
    BY <2>1, <2>6 DEF UsedBelow
  <2>9. NonceOnce'
    BY <2>5, <2>8 DEF NonceOnce
  <2>10. FailedAtEnd'
    BY <2>1, <2>2 DEF TypeOK, TaskStates, FailedAtEnd
  <2> QED
    BY <2>3, <2>4, <2>7, <2>9, <2>10
<1>4. ASSUME NEW t \in Tasks, Retry(t)
      PROVE  IInv'
  <2>1. /\ task[t] \in [s : {"loaded"}, h : Halves, c : 0 .. MaxCtr]
        /\ ctr[task[t].h] \in 0 .. MaxCtr
    BY <1>4 DEF Retry, TypeOK, TaskStates
  <2>2. task' = [task EXCEPT ![t] =
                     [s |-> "loaded", h |-> task[t].h, c |-> ctr[task[t].h]]]
    <3> DEFINE r == task[t]
               n == ctr[task[t].h]
    <3>1. [r EXCEPT !.c = n] = [s |-> "loaded", h |-> r.h, c |-> n]
      BY <2>1
    <3>2. task' = [task EXCEPT ![t] = [r EXCEPT !.c = n]]
      BY <1>4 DEF Retry
    <3> QED
      BY <3>1, <3>2
  <2> QED
    BY <1>4, <2>1, <2>2
    DEF Retry, TypeOK, TaskStates, NotAhead, UsedBelow, NonceOnce, FailedAtEnd
<1>5. ASSUME NEW t \in Tasks, Send(t)
      PROVE  IInv'
  BY <1>5 DEF Send, Idle, TypeOK, TaskStates, NotAhead, UsedBelow, NonceOnce, FailedAtEnd
<1>6. CASE UNCHANGED recVars
  BY <1>6 DEF recVars, TypeOK, NotAhead, UsedBelow, NonceOnce, FailedAtEnd
<1> QED
  BY <1>1, <1>2, <1>3, <1>4, <1>5, <1>6 DEF Next, Step

\* No nonce is used twice under a key, and nothing is sealed beyond the end of
\* the counter (next_nonce of ChaHalf).
THEOREM NoncesAlwaysFresh == Spec => []NoncesFresh
<1>1. IInv => NoncesFresh
  <2> SUFFICES ASSUME IInv
               PROVE  \A i \in 1 .. Len(sealed) : sealed[i][2] < MaxCtr
    BY DEF IInv, NoncesFresh, StopsAtEnd, FailedAtEnd
  <2>1. \A i \in 1 .. Len(sealed) : sealed[i] \in Halves \X (0 .. MaxCtr)
    BY DEF IInv, TypeOK
  <2> QED
    BY <2>1, CounterAssumption DEF IInv, TypeOK, UsedBelow
<1> QED
  BY <1>1, InitIInv, NextIInv, PTL DEF Spec
=============================================================================
