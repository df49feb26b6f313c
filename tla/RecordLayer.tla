----------------------------- MODULE RecordLayer -----------------------------
(***************************************************************************)
(* The sealing of frames by crypto_layer.rs: the tasks of one session      *)
(* (tunnel tasks, UDP workers, pings) share a nonce counter per direction  *)
(* that they advance with a compare-and-swap loop, and put their frames on *)
(* the wire in whatever order they get to it.  The counter's 2^64 values   *)
(* are 0 .. MaxCtr here.                                                   *)
(***************************************************************************)
EXTENDS Integers, Sequences, FiniteSets

CONSTANTS Tasks, MaxCtr, MaxFrames

ASSUME CounterAssumption == MaxCtr \in Nat

Halves == {"c2s", "s2c"}

VARIABLES ctr,     \* ChaHalf.ctr
          task,    \* what each task is doing
          sealed,  \* history: <<key, nonce>> of every frame, in order
          wire     \* the nonces in the order of the frames on the wire

recVars == <<ctr, task, sealed, wire>>

Idle == [s |-> "idle"]

Init ==
    /\ ctr = [h \in Halves |-> 0] /\ task = [t \in Tasks |-> Idle]
    /\ sealed = <<>> /\ wire = [h \in Halves |-> <<>>]

\* transport_keys: the halves are derived under different labels.
KeyOf(h) == h

\* fetch_update reads the counter ...
Load(t, h) ==
    /\ task[t].s = "idle" /\ Len(sealed) < MaxFrames
    /\ task' = [task EXCEPT ![t] = [s |-> "loaded", h |-> h, c |-> ctr[h]]]
    /\ UNCHANGED <<ctr, sealed, wire>>

\* ... fails closed at its end ...
Exhausted(t) ==
    /\ task[t].s = "loaded" /\ task[t].c = MaxCtr
    /\ task' = [task EXCEPT ![t] = [s |-> "failed", h |-> task[t].h]]
    /\ UNCHANGED <<ctr, sealed, wire>>

\* Mutant: the counter is written back whatever it has become.
SwapStore(t) ==
    /\ task[t].s = "loaded" /\ task[t].c # MaxCtr
    /\ LET h == task[t].h IN
          /\ ctr' = [ctr EXCEPT ![h] = task[t].c + 1]
          /\ sealed' = Append(sealed, <<KeyOf(h), task[t].c>>)
          /\ task' = [task EXCEPT ![t] = [s |-> "sealed", h |-> h, c |-> task[t].c]]
    /\ UNCHANGED wire

\* ... or takes the value, if it is still there, and the frame is sealed.
Swap(t) ==
    /\ task[t].s = "loaded" /\ task[t].c # MaxCtr /\ task[t].c = ctr[task[t].h]
    /\ LET h == task[t].h IN
          /\ ctr' = [ctr EXCEPT ![h] = @ + 1]
          /\ sealed' = Append(sealed, <<KeyOf(h), task[t].c>>)
          /\ task' = [task EXCEPT ![t] = [s |-> "sealed", h |-> h, c |-> task[t].c]]
    /\ UNCHANGED wire

\* Somebody was faster: the loop reads again.
Retry(t) ==
    /\ task[t].s = "loaded" /\ task[t].c # MaxCtr /\ task[t].c # ctr[task[t].h]
    /\ task' = [task EXCEPT ![t].c = ctr[task[t].h]]
    /\ UNCHANGED <<ctr, sealed, wire>>

\* The sink's lock decides the order on the wire.
Send(t) ==
    /\ task[t].s = "sealed"
    /\ wire' = [wire EXCEPT ![task[t].h] = Append(@, task[t].c)]
    /\ task' = [task EXCEPT ![t] = Idle] /\ UNCHANGED <<ctr, sealed>>

Step(t) == Exhausted(t) \/ Swap(t) \/ Retry(t) \/ Send(t)

Next == \E t \in Tasks : Step(t) \/ \E h \in Halves : Load(t, h)

Spec == Init /\ [][Next]_recVars /\ \A t \in Tasks : WF_recVars(Step(t))

-----------------------------------------------------------------------------
\* No nonce is used twice under one key, however many tasks seal at once and
\* also when the counter is at its end.
NonceOnce == \A i, j \in 1 .. Len(sealed) : sealed[i] = sealed[j] => i = j

\* A counter that has run out stays there: nothing is sealed beyond it.
StopsAtEnd ==
    /\ \A i \in 1 .. Len(sealed) : sealed[i][2] < MaxCtr
    /\ \A t \in Tasks : task[t].s = "failed" => ctr[task[t].h] = MaxCtr

Sealing(t) == task[t].s \notin {"idle", "failed"}

\* The loop ends for every task: with a frame on the wire or an error.
SealEnds == \A t \in Tasks : Sealing(t) ~> ~Sealing(t)

\* No nonce is used twice under a key, also when tasks race at the end of the
\* counter.
NoncesFresh == NonceOnce /\ StopsAtEnd
=============================================================================
