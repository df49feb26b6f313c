----------------------------- MODULE MuxCredit -----------------------------
(***************************************************************************)
(* What credit flow control promises for ONE DIRECTION of ONE negotiated   *)
(* mux stream (bibavpn/src/tcp_mux_flow.rs, struct Flow): a sender may     *)
(* only put bytes on the session that the receiver has promised to store,  *)
(* so the shared session reader never has to wait for a slow application.  *)
(*                                                                         *)
(* The sender keeps `avail' (Flow.send_available), the receiver `credit',  *)
(* `held' and `queued' (ReceiveState.credit, .bytes and the length of      *)
(* .queue) and the downlink pump `pend' (its local pending_credit).        *)
(* Between them travel `flight' DATA bytes and `grant' bytes of WIN        *)
(* increments.  How records travel is left to MuxFlow, which implements    *)
(* this module.                                                            *)
(*                                                                         *)
(* Credit counts bytes; the receive queue is limited in records as well.   *)
(* A record within the credit that finds MaxQueued records queued fails    *)
(* the stream with the same error as one beyond the credit, but it is no   *)
(* "fault" of the accounting: it retires the stream.                       *)
(***************************************************************************)
EXTENDS Integers

CONSTANTS
    Window,      \* the receiver's window: Flow.receive_limit of one end
                 \* and Flow.send_limit of the other
    MaxQueued    \* MAX_QUEUED_RECORDS

ASSUME WindowAssumption == Window \in Nat \ {0}
ASSUME MaxQueuedAssumption == MaxQueued \in Nat \ {0}

VARIABLES phase, avail, flight, credit, held, queued, pend, grant

vars == <<phase, avail, flight, credit, held, queued, pend, grant>>

Phases == {"idle", "open", "retired", "fault"}

\* Nothing is left of the stream at either end.
Dropped ==
    /\ avail' = 0 /\ flight' = 0 /\ credit' = 0 /\ held' = 0
    /\ queued' = 0 /\ pend' = 0 /\ grant' = 0

----------------------------------------------------------------------------

Init ==
    /\ phase = "idle"
    /\ avail = 0 /\ flight = 0 /\ credit = 0
    /\ held = 0 /\ queued = 0 /\ pend = 0 /\ grant = 0

\* Flow::new at both ends: a full window of allowance and of credit.
Open ==
    /\ phase = "idle"
    /\ phase' = "open"
    /\ avail' = Window
    /\ credit' = Window
    /\ UNCHANGED <<flight, held, queued, pend, grant>>

\* take_credit: the uplink takes part of the allowance for one DATA record.
Take(n) ==
    /\ phase = "open"
    /\ n \in 1..avail
    /\ avail' = avail - n
    /\ flight' = flight + n
    /\ UNCHANGED <<phase, credit, held, queued, pend, grant>>

\* enqueue: a DATA record of n bytes reaches the receiver, which stores it, or
\* fails the stream when it exceeds the credit or the window, or when the queue
\* has all the records it may have.
Enqueue(n) ==
    LET covered == n <= credit /\ held + n <= Window
    IN  /\ phase = "open"
        /\ n \in 1..flight
        /\ \/ /\ covered /\ queued < MaxQueued
              /\ flight' = flight - n
              /\ credit' = credit - n
              /\ held' = held + n
              /\ queued' = queued + 1
              /\ UNCHANGED <<phase, avail, pend, grant>>
           \/ /\ ~covered
              /\ phase' = "fault"
              /\ Dropped
           \/ /\ covered /\ queued >= MaxQueued
              /\ phase' = "retired"
              /\ Dropped

\* receive: the downlink takes a record off the queue; its bytes are held
\* until write_all completes.
Receive ==
    /\ phase = "open"
    /\ queued > 0
    /\ queued' = queued - 1
    /\ UNCHANGED <<phase, avail, flight, credit, held, pend, grant>>

\* consumed: the application took n bytes; they are not promised again yet.
\* Every record still queued holds at least one byte.
Consume(n) ==
    /\ phase = "open"
    /\ n \in 1..(held - queued)
    /\ held' = held - n
    /\ pend' = pend + n
    /\ UNCHANGED <<phase, avail, flight, credit, queued, grant>>

\* A downlink that forgets to reset pending_credit after publishing it.
KeepPendingPublish ==
    /\ phase = "open"
    /\ pend > 0
    /\ phase' = IF credit + pend <= Window THEN "open" ELSE "fault"
    /\ credit' = credit + pend
    /\ grant' = grant + pend
    /\ UNCHANGED <<avail, flight, held, queued, pend>>

\* publish_credit: the receiver raises its own credit, refusing to exceed its
\* limit, before the WIN record exists.
Publish ==
    /\ phase = "open"
    /\ pend > 0
    /\ phase' = IF credit + pend <= Window THEN "open" ELSE "fault"
    /\ credit' = credit + pend
    /\ grant' = grant + pend
    /\ pend' = 0
    /\ UNCHANGED <<avail, flight, held, queued>>

\* A WIN record that is applied twice.
RepeatedAddCredit(n) ==
    /\ phase = "open"
    /\ n \in 1..grant
    /\ phase' = IF n <= Window - avail THEN "open" ELSE "fault"
    /\ avail' = avail + n
    /\ UNCHANGED <<flight, credit, held, queued, pend, grant>>

\* add_credit: a WIN record reaches the sender, which fails the stream when
\* the increment exceeds what is missing from its limit.
AddCredit(n) ==
    /\ phase = "open"
    /\ n \in 1..grant
    /\ phase' = IF n <= Window - avail THEN "open" ELSE "fault"
    /\ avail' = avail + n
    /\ grant' = grant - n
    /\ UNCHANGED <<flight, credit, held, queued, pend>>

\* Either end leaves the stream (finish, remove, shutdown), perhaps before
\* both have it.
Retire ==
    /\ phase \in {"idle", "open"}
    /\ phase' = "retired"
    /\ Dropped

Next ==
    \/ Open
    \/ \E n \in 1..Window : Take(n)
    \/ \E n \in 1..Window : Enqueue(n)
    \/ Receive
    \/ \E n \in 1..Window : Consume(n)
    \/ Publish
    \/ \E n \in 1..Window : AddCredit(n)
    \/ Retire

Spec == Init /\ [][Next]_vars

----------------------------------------------------------------------------

\* Every counter stays within a window: no u32 of Flow can wrap, at either end.
TypeOK ==
    /\ phase \in Phases
    /\ avail \in 0..Window
    /\ flight \in 0..Window
    /\ credit \in 0..Window
    /\ held \in 0..Window
    /\ queued \in 0..MaxQueued
    /\ pend \in 0..Window
    /\ grant \in 0..Window

\* No byte of allowance is ever lost or created: sender allowance, bytes in
\* flight, bytes stored, bytes consumed but unpublished and WIN increments in
\* flight always add up to the window, and the receiver's credit is exactly
\* what the sender has or will get (Flow.send_available vs ReceiveState).
Conservation ==
    phase = "open" =>
        /\ avail + flight + held + pend + grant = Window
        /\ credit = avail + flight + grant

\* Between two ends that run this code no byte check ever fails: neither the
\* two of enqueue ("mux receive window exceeded"), nor publish_credit's ("mux
\* receive credit overflow"), nor add_credit's ("invalid mux credit
\* increment").  The one refusal left is enqueue's third, of a record on its
\* way to a queue of MAX_QUEUED_RECORDS: it does reset a stream within its
\* credit, and it is within reach only when the window has more bytes than the
\* queue may have records.
NoFault ==
    /\ phase # "fault"
    /\ queued >= MaxQueued /\ flight > 0 => MaxQueued < Window

\* Nothing is on the way before the stream exists.
IdleIsEmpty ==
    phase = "idle" => flight = 0 /\ held = 0 /\ queued = 0 /\ pend = 0 /\ grant = 0

\* An empty payload is never queued, so records are no more than bytes.
RecordsHoldBytes == queued <= held

\* The inductive invariant behind them.
IInv == TypeOK /\ Conservation /\ NoFault /\ IdleIsEmpty /\ RecordsHoldBytes

=============================================================================
