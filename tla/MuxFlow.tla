------------------------------ MODULE MuxFlow ------------------------------
(***************************************************************************)
(* One TCP-mux session of bibavpn/src/tcp_mux_flow.rs: two Endpoints, the  *)
(* client "c" and the server "s", joined by one ordered WebSocket in each  *)
(* direction, carrying several TCP streams.                                *)
(*                                                                         *)
(* Each Endpoint has a stream table (`live' flows), two bounded lanes into *)
(* its single writer (`ctl' never waits, `out' waits), a reader that never *)
(* waits (the Dispatch actions), one bridge task per stream with an uplink *)
(* and a downlink pump, and a shutdown that may be started by any of them. *)
(* A step is what runs between two awaits or two lock acquisitions.        *)
(*                                                                         *)
(* Abstractions: the bytes of one direction of a stream are numbered 1, 2, *)
(* 3...; padding, encryption and framing are out (the wire is a FIFO of    *)
(* records); ping, pong and dummy frames are out; stream ids are not       *)
(* reused (2^32 opens in one session), so a sid stands for its epoch.      *)
(***************************************************************************)
EXTENDS Integers, Sequences, FiniteSets, SequencesExt

CONSTANTS
    Sids,         \* stream ids the client may open: 1..k
    Window,       \* [Ends -> Nat]: cfg.mux_window_mib of each end, in bytes
    CreditDiv,    \* the 8 of `receive_limit / 8'
    MaxStreams,   \* MAX_STREAMS
    MaxQueued,    \* MAX_QUEUED_RECORDS
    Budget,       \* RECEIVE_BUDGET in windows
    CtlCap,       \* capacity of the control lane (512)
    OutCap,       \* capacity of the output lane (512 records / OUTPUT_BUDGET)
    WireCap,      \* records the WebSocket buffers
    MaxChunk,     \* max_chunk of bridge
    ToSend,       \* [Sids -> [Ends -> Nat]]: bytes each socket delivers
    MayFail,      \* the ends whose sockets, connects and session may fail
    MayTimeOut    \* whether the CAP reply may miss NEGOTIATION_WAIT

Ends == {"c", "s"}
Peer(e) == IF e = "c" THEN "s" ELSE "c"

ASSUME ConstantsAssumption ==
    /\ Sids # {} /\ Sids \subseteq Nat \ {0} /\ Sids = 1..Cardinality(Sids)
    /\ Window \in [Ends -> Nat \ {0}]
    /\ {CreditDiv, MaxStreams, MaxQueued, Budget, CtlCap, OutCap, WireCap, MaxChunk}
           \subseteq Nat \ {0}
    /\ ToSend \in [Sids -> [Ends -> Nat]]
    /\ MayFail \subseteq Ends /\ MayTimeOut \in BOOLEAN

VARIABLES
    run,      \* [Ends -> BOOLEAN]: Endpoint::run is executing
    sess,     \* [Ends -> {"up", "closing", "down"}]: progress of shutdown()
    neg,      \* [Ends -> Negotiation]
    nextSid,  \* next_sid of the client
    flow,     \* [Ends -> [Sids -> Flow]], with the bridge task of each flow
    out,      \* [Ends -> Seq(Record)]: output lane
    ctl,      \* [Ends -> Seq(Record)]: control lane
    wire      \* [Ends -> Seq(Record)]: what the writer of that end fed

vars == <<run, sess, neg, nextSid, flow, out, ctl, wire>>

----------------------------------------------------------------------------
(* Records and flows                                                       *)

\* n is the increment of a WIN, the window of a CAP (sid 0); credit the
\* OPEN_CREDIT flag; owned whether the record holds its Flow (Record.flow).
Record(kind, sid, data, n, credit, owned) ==
    [kind |-> kind, sid |-> sid, data |-> data, n |-> n,
     credit |-> credit, owned |-> owned]

CapRecord(e)    == Record("CAP", 0, <<>>, Window[e], FALSE, FALSE)
OpenRecord(i, c) == Record("OPEN", i, <<>>, 0, c, TRUE)
DataRecord(i, d) == Record("DATA", i, d, 0, FALSE, TRUE)
CloseRecord(i)  == Record("CLOSE", i, <<>>, 0, FALSE, TRUE)
WinRecord(i, n) == Record("WIN", i, <<>>, n, FALSE, TRUE)
RstRecord(i, o) == Record("RST", i, <<>>, 0, FALSE, o)

\* Bytes of a sequence of payloads.
Bytes(payloads) == Len(FlattenSeq(payloads))

\* A flow and the state of the task that runs it.
\*   task   : none, opening (open_stream waits in send), connecting, bridged,
\*            failed (a pump returned an error), gone
\*   live   : the stream table holds it
\*   avail  : send_available;  credit, bytes, fin : ReceiveState
\*   read   : bytes the uplink has read;  buf : those without allowance yet;
\*   taken  : the chunk waiting in send;  up : run, eof, done
\*   writing: the payload in write_all;  pend : pending_credit;  pub : where
\*            publish_credit is;  down : run, done;  got : bytes written
\*   overrun: a byte check of enqueue, publish_credit or add_credit failed
NoFlow ==
    [task |-> "none", live |-> FALSE, negotiated |-> FALSE, avail |-> 0,
     rq |-> <<>>, bytes |-> 0, credit |-> 0, fin |-> FALSE,
     cancelled |-> FALSE, outValid |-> TRUE,
     read |-> 0, buf |-> <<>>, taken |-> <<>>, up |-> "run",
     writing |-> <<>>, pend |-> 0, pub |-> "none", down |-> "run",
     got |-> <<>>, overrun |-> FALSE]

NewFlow(e, task, negotiated) ==
    [NoFlow EXCEPT !.task = task, !.live = TRUE, !.negotiated = negotiated,
                   !.avail = IF negotiated THEN Window[Peer(e)] ELSE 0,
                   !.credit = Window[e]]

Cancel(fl, preserveOutput) ==
    [fl EXCEPT !.outValid = @ /\ preserveOutput,
               !.cancelled = TRUE,
               !.rq = <<>>]

\* finish: only the table's current entry is removed and cancelled.
Finish(fl, preserveOutput) ==
    IF fl.live THEN [Cancel(fl, preserveOutput) EXCEPT !.live = FALSE] ELSE fl

\* The task returns: its locals are dropped, the Flow only serves queued
\* records from now on.
Gone(fl) ==
    [NoFlow EXCEPT !.task = "gone", !.negotiated = fl.negotiated,
                   !.cancelled = fl.cancelled, !.outValid = fl.outValid,
                   !.read = fl.read, !.up = fl.up, !.got = fl.got,
                   !.overrun = fl.overrun]

\* Flows whose window reservation is held: by the table, by the task or by a
\* queued record.
Reserved(e) ==
    {i \in Sids :
        \/ flow[e][i].live
        \/ flow[e][i].task \notin {"none", "gone"}
        \/ \E r \in Range(out[e]) \cup Range(ctl[e]) : r.sid = i /\ r.owned}

Live(e) == {i \in Sids : flow[e][i].live}

\* Mutant: the windows of streams that are being torn down are not counted.
AllocateWithoutReservation(e) ==
    /\ sess[e] = "up"
    /\ Cardinality(Live(e)) < Budget

\* allocate succeeds (under the table lock).
CanAllocate(e) ==
    /\ sess[e] = "up"
    /\ Cardinality(Live(e)) < MaxStreams
    /\ Cardinality(Reserved(e)) < Budget

----------------------------------------------------------------------------
(* Sending                                                                 *)

Closing(e) == [sess EXCEPT ![e] = IF @ = "up" THEN "closing" ELSE @]

ControlRoom(e) == run[e] /\ Len(ctl[e]) < CtlCap

\* control() from the session reader: when the lane is full, run returns an
\* error, its lanes are dropped and shutdown starts.
ReaderControl(e, r) ==
    IF ControlRoom(e)
    THEN /\ ctl' = [ctl EXCEPT ![e] = Append(@, r)]
         /\ UNCHANGED <<run, sess, out>>
    ELSE /\ run' = [run EXCEPT ![e] = FALSE]
         /\ sess' = Closing(e)
         /\ ctl' = [ctl EXCEPT ![e] = <<>>]
         /\ out' = [out EXCEPT ![e] = <<>>]

\* control() from a bridge or connect task: when the lane is full the task
\* calls shutdown.
TaskControl(e, r) ==
    IF ControlRoom(e)
    THEN ctl' = [ctl EXCEPT ![e] = Append(@, r)] /\ UNCHANGED sess
    ELSE sess' = Closing(e) /\ UNCHANGED ctl

\* send() completes: room in the output lane, the writer still there.
Send(e, r) ==
    /\ run[e]
    /\ Len(out[e]) < OutCap
    /\ out' = [out EXCEPT ![e] = Append(@, r)]

----------------------------------------------------------------------------
(* Opening a stream                                                        *)

\* The client's run() sends its capability first.
Init ==
    /\ run = [e \in Ends |-> TRUE]
    /\ sess = [e \in Ends |-> "up"]
    /\ neg = [e \in Ends |-> "pending"]
    /\ nextSid = 1
    /\ flow = [e \in Ends |-> [i \in Sids |-> NoFlow]]
    /\ out = [e \in Ends |-> <<>>]
    /\ ctl = [e \in Ends |-> IF e = "c" THEN <<CapRecord("c")>> ELSE <<>>]
    /\ wire = [e \in Ends |-> <<>>]

\* peer_window's deadline: Legacy, unless the reply came first.
NegotiationDeadline ==
    /\ MayTimeOut
    /\ neg["c"] = "pending"
    /\ neg' = [neg EXCEPT !["c"] = "legacy"]
    /\ UNCHANGED <<run, sess, nextSid, flow, out, ctl, wire>>

\* open_stream up to send: the id is consumed even when allocate refuses.
OpenStream ==
    /\ neg["c"] # "pending"
    /\ nextSid \in Sids
    /\ nextSid' = nextSid + 1
    /\ flow' = [flow EXCEPT !["c"][nextSid] =
                   IF CanAllocate("c")
                   THEN NewFlow("c", "opening", neg["c"] = "credit")
                   ELSE [flow["c"][nextSid] EXCEPT !.task = "gone"]]
    /\ UNCHANGED <<run, sess, neg, out, ctl, wire>>

SendOpen(i) ==
    /\ flow["c"][i].task = "opening"
    /\ Send("c", OpenRecord(i, flow["c"][i].negotiated))
    /\ flow' = [flow EXCEPT !["c"][i].task = "bridged"]
    /\ UNCHANGED <<run, sess, neg, nextSid, ctl, wire>>

\* OpenAdmissionGuard: send failed, or its caller was dropped.
AbortOpen(i) ==
    /\ flow["c"][i].task = "opening"
    /\ "c" \in MayFail \/ sess["c"] # "up"
    /\ flow' = [flow EXCEPT !["c"][i] = Gone(Finish(flow["c"][i], FALSE))]
    /\ UNCHANGED <<run, sess, neg, nextSid, out, ctl, wire>>

\* The server's connect task: success, failure or timeout, cancellation.
Connected(i) ==
    /\ flow["s"][i].task = "connecting"
    /\ flow' = [flow EXCEPT !["s"][i].task = "bridged"]
    /\ UNCHANGED <<run, sess, neg, nextSid, out, ctl, wire>>

ConnectFailed(i) ==
    /\ "s" \in MayFail
    /\ flow["s"][i].task = "connecting"
    /\ flow' = [flow EXCEPT !["s"][i] = Gone(Finish(flow["s"][i], FALSE))]
    /\ IF flow["s"][i].live
       THEN TaskControl("s", RstRecord(i, TRUE))
       ELSE UNCHANGED <<ctl, sess>>
    /\ UNCHANGED <<run, neg, nextSid, out, wire>>

----------------------------------------------------------------------------
(* The bridge task: uplink                                                 *)

Bridged(e, i) == flow[e][i].task = "bridged"

\* One read of at most MaxChunk bytes, when the previous chunk is sent.
ReadSocket(e, i, n) ==
    LET fl == flow[e][i]
    IN  /\ Bridged(e, i)
        /\ fl.up = "run" /\ fl.buf = <<>> /\ fl.taken = <<>>
        /\ fl.read + n <= ToSend[i][e]
        /\ flow' = [flow EXCEPT ![e][i] =
              [fl EXCEPT !.read = fl.read + n, !.buf = [k \in 1..n |-> fl.read + k]]]
        /\ UNCHANGED <<run, sess, neg, nextSid, out, ctl, wire>>

\* The socket is at its end.
ReadEof(e, i) ==
    LET fl == flow[e][i]
    IN  /\ Bridged(e, i)
        /\ fl.up = "run" /\ fl.buf = <<>> /\ fl.taken = <<>>
        /\ fl.read = ToSend[i][e]
        /\ flow' = [flow EXCEPT ![e][i].up = "eof"]
        /\ UNCHANGED <<run, sess, neg, nextSid, out, ctl, wire>>

\* take_credit: as much of the chunk as the allowance covers.
TakeCredit(e, i) ==
    LET fl == flow[e][i]
        k  == IF fl.negotiated /\ fl.avail < Len(fl.buf)
              THEN fl.avail ELSE Len(fl.buf)
    IN  /\ Bridged(e, i)
        /\ fl.buf # <<>> /\ fl.taken = <<>>
        /\ k > 0
        /\ flow' = [flow EXCEPT ![e][i] =
              [fl EXCEPT !.avail = IF fl.negotiated THEN fl.avail - k ELSE fl.avail,
                         !.taken = SubSeq(fl.buf, 1, k),
                         !.buf = SubSeq(fl.buf, k + 1, Len(fl.buf))]]
        /\ UNCHANGED <<run, sess, neg, nextSid, out, ctl, wire>>

SendData(e, i) ==
    /\ Bridged(e, i)
    /\ flow[e][i].taken # <<>>
    /\ Send(e, DataRecord(i, flow[e][i].taken))
    /\ flow' = [flow EXCEPT ![e][i].taken = <<>>]
    /\ UNCHANGED <<run, sess, neg, nextSid, ctl, wire>>

SendClose(e, i) ==
    /\ Bridged(e, i)
    /\ flow[e][i].up = "eof"
    /\ Send(e, CloseRecord(i))
    /\ flow' = [flow EXCEPT ![e][i].up = "done"]
    /\ UNCHANGED <<run, sess, neg, nextSid, ctl, wire>>

----------------------------------------------------------------------------
(* The bridge task: downlink                                               *)

DownReady(e, i) ==
    /\ Bridged(e, i)
    /\ flow[e][i].down = "run"
    /\ flow[e][i].writing = <<>>
    /\ flow[e][i].pub = "none"

\* receive(): take a payload and start write_all.
Receive(e, i) ==
    LET fl == flow[e][i]
    IN  /\ DownReady(e, i)
        /\ fl.rq # <<>>
        /\ flow' = [flow EXCEPT ![e][i] =
              [fl EXCEPT !.writing = Head(fl.rq), !.rq = Tail(fl.rq)]]
        /\ UNCHANGED <<run, sess, neg, nextSid, out, ctl, wire>>

\* A receive() that looks at fin before the queue.
EagerReceiveFin(e, i) ==
    /\ DownReady(e, i)
    /\ flow[e][i].fin
    /\ flow' = [flow EXCEPT ![e][i].down = "done"]
    /\ UNCHANGED <<run, sess, neg, nextSid, out, ctl, wire>>

\* receive() returns None: the FIN was reached; the socket is shut down.
ReceiveFin(e, i) ==
    /\ DownReady(e, i)
    /\ flow[e][i].rq = <<>> /\ flow[e][i].fin
    /\ flow' = [flow EXCEPT ![e][i].down = "done"]
    /\ UNCHANGED <<run, sess, neg, nextSid, out, ctl, wire>>

\* write_all completed: consumed(), and the decision to publish.  In legacy
\* mode consumed() itself restores the credit.
Written(e, i) ==
    LET fl == flow[e][i]
        n  == Len(fl.writing)
        p  == fl.pend + n
        due == p >= Window[e] \div CreditDiv \/ fl.rq = <<>>
    IN  /\ Bridged(e, i)
        /\ n > 0
        /\ flow' = [flow EXCEPT ![e][i] =
              [fl EXCEPT !.writing = <<>>,
                         !.got = fl.got \o fl.writing,
                         !.bytes = fl.bytes - n,
                         !.credit = IF fl.negotiated THEN fl.credit ELSE fl.credit + n,
                         !.pend = IF fl.negotiated THEN p ELSE 0,
                         !.pub = IF fl.negotiated /\ due THEN "due" ELSE "none"]]
        /\ UNCHANGED <<run, sess, neg, nextSid, out, ctl, wire>>

\* A publish_credit that leaves the receiver's own credit behind.
UnraisedCredit(e, i) ==
    /\ Bridged(e, i)
    /\ flow[e][i].pub = "due"
    /\ flow' = [flow EXCEPT ![e][i].pub = "raised"]
    /\ UNCHANGED <<run, sess, neg, nextSid, out, ctl, wire>>

\* publish_credit, first half: the receiver's credit is raised.  The check
\* against receive_limit fails the stream.
RaiseCredit(e, i) ==
    LET fl == flow[e][i]
        c  == fl.credit + fl.pend
    IN  /\ Bridged(e, i)
        /\ fl.pub = "due"
        /\ flow' = [flow EXCEPT ![e][i] =
              IF c <= Window[e]
              THEN [fl EXCEPT !.credit = c, !.pub = "raised"]
              ELSE [fl EXCEPT !.task = "failed", !.overrun = TRUE]]
        /\ UNCHANGED <<run, sess, neg, nextSid, out, ctl, wire>>

\* publish_credit, second half: the WIN record; if it cannot be queued the
\* stream is cancelled and fails.
PublishWin(e, i) ==
    LET fl == flow[e][i]
    IN  /\ Bridged(e, i)
        /\ fl.pub = "raised"
        /\ IF ControlRoom(e)
           THEN /\ ctl' = [ctl EXCEPT ![e] = Append(@, WinRecord(i, fl.pend))]
                /\ flow' = [flow EXCEPT ![e][i] = [fl EXCEPT !.pend = 0, !.pub = "none"]]
           ELSE /\ flow' = [flow EXCEPT ![e][i] =
                               [Cancel(fl, FALSE) EXCEPT !.task = "failed"]]
                /\ UNCHANGED ctl
        /\ UNCHANGED <<run, sess, neg, nextSid, out, wire>>

----------------------------------------------------------------------------
(* The bridge task: ends                                                   *)

\* A socket error in either pump, or send() refused by a closing session.
PumpError(e, i) ==
    /\ Bridged(e, i)
    /\ e \in MayFail \/ sess[e] # "up"
    /\ flow' = [flow EXCEPT ![e][i].task = "failed"]
    /\ UNCHANGED <<run, sess, neg, nextSid, out, ctl, wire>>

\* finish(.., false) and, if the table still held the flow, RST.
BridgeFailed(e, i) ==
    /\ flow[e][i].task = "failed"
    /\ flow' = [flow EXCEPT ![e][i] = Gone(Finish(flow[e][i], FALSE))]
    /\ IF flow[e][i].live
       THEN TaskControl(e, RstRecord(i, TRUE))
       ELSE UNCHANGED <<ctl, sess>>
    /\ UNCHANGED <<run, neg, nextSid, out, wire>>

\* A bridge that treats a negotiated CLOSE like a legacy one.
LegacyBridgeDone(e, i) ==
    /\ Bridged(e, i)
    /\ flow[e][i].up = "done" \/ flow[e][i].down = "done"
    /\ flow' = [flow EXCEPT ![e][i] = Gone(Finish(flow[e][i], TRUE))]
    /\ UNCHANGED <<run, sess, neg, nextSid, out, ctl, wire>>

\* Both pumps done (negotiated: CLOSE is a directional FIN) or either one
\* (legacy: CLOSE closes both halves): queued output is preserved.
BridgeDone(e, i) ==
    LET fl == flow[e][i]
    IN  /\ Bridged(e, i)
        /\ IF fl.negotiated THEN fl.up = "done" /\ fl.down = "done"
                            ELSE fl.up = "done" \/ fl.down = "done"
        /\ flow' = [flow EXCEPT ![e][i] = Gone(Finish(flow[e][i], TRUE))]
        /\ UNCHANGED <<run, sess, neg, nextSid, out, ctl, wire>>

\* The cancellation watch wakes the connect or the bridge task.
TaskCancelled(e, i) ==
    /\ flow[e][i].task \in {"connecting", "bridged"}
    /\ flow[e][i].cancelled
    /\ flow' = [flow EXCEPT ![e][i] = Gone(Finish(flow[e][i], TRUE))]
    /\ UNCHANGED <<run, sess, neg, nextSid, out, ctl, wire>>

----------------------------------------------------------------------------
(* The writer                                                              *)

\* A writer without the output_valid check.
UnfilteredFed(e, r) == wire' = [wire EXCEPT ![e] = Append(@, r)]

\* Records of a flow whose output was invalidated are dropped, except RST.
Fed(e, r) ==
    IF r.kind = "RST" \/ ~r.owned \/ flow[e][r.sid].outValid
    THEN wire' = [wire EXCEPT ![e] = Append(@, r)]
    ELSE UNCHANGED wire

WriteControl(e) ==
    /\ run[e]
    /\ ctl[e] # <<>>
    /\ Len(wire[e]) < WireCap
    /\ Fed(e, Head(ctl[e]))
    /\ ctl' = [ctl EXCEPT ![e] = Tail(@)]
    /\ UNCHANGED <<run, sess, neg, nextSid, flow, out>>

WriteOutput(e) ==
    /\ run[e]
    /\ out[e] # <<>>
    /\ Len(wire[e]) < WireCap
    /\ Fed(e, Head(out[e]))
    /\ out' = [out EXCEPT ![e] = Tail(@)]
    /\ UNCHANGED <<run, sess, neg, nextSid, flow, ctl>>

----------------------------------------------------------------------------
(* The reader: dispatch                                                    *)

\* e's reader takes the next record of the given kind off the wire.
Arrives(e, kind) ==
    /\ run[e]
    /\ wire[Peer(e)] # <<>>
    /\ Head(wire[Peer(e)]).kind = kind
    /\ wire' = [wire EXCEPT ![Peer(e)] = Tail(@)]

Arrived(e) == Head(wire[Peer(e)])

\* The server adopts the client's capability and answers; the client only
\* settles a pending negotiation.
DispatchCap(e) ==
    /\ Arrives(e, "CAP")
    /\ IF e = "s"
       THEN /\ neg' = [neg EXCEPT !["s"] = "credit"]
            /\ ReaderControl("s", CapRecord("s"))
       ELSE /\ neg' = [neg EXCEPT !["c"] = IF @ = "pending" THEN "credit" ELSE @]
            /\ UNCHANGED <<ctl, run, sess, out>>
    /\ UNCHANGED <<nextSid, flow>>

\* A server that takes the mode from its own negotiation, not from the OPEN.
OwnModeDispatchOpen ==
    LET r == Arrived("s")
    IN  /\ Arrives("s", "OPEN")
        /\ CanAllocate("s")
        /\ flow' = [flow EXCEPT !["s"][r.sid] =
                       NewFlow("s", "connecting", neg["s"] = "credit")]
        /\ UNCHANGED <<ctl, run, sess, out, neg, nextSid>>

DispatchOpen ==
    LET r == Arrived("s")
    IN  /\ Arrives("s", "OPEN")
        /\ IF (r.credit => neg["s"] = "credit") /\ CanAllocate("s")
           THEN /\ flow' = [flow EXCEPT !["s"][r.sid] =
                               NewFlow("s", "connecting", r.credit)]
                /\ UNCHANGED <<ctl, run, sess, out>>
           ELSE /\ flow' = [flow EXCEPT !["s"][r.sid].task = "gone"]
                /\ ReaderControl("s", RstRecord(r.sid, FALSE))
        /\ UNCHANGED <<neg, nextSid>>

\* enqueue's byte checks (an empty payload passes them).
WindowFits(fl, e, data) ==
    /\ Len(data) <= fl.credit
    /\ fl.bytes + Len(data) <= Window[e]

\* All of enqueue's checks: the queue is limited in records as well, and a
\* record within its credit may find it full.
Fits(fl, e, data) ==
    /\ WindowFits(fl, e, data)
    /\ data = <<>> \/ Len(fl.rq) < MaxQueued

\* An enqueue that returns early on an empty payload, before setting fin.
LostFinEnqueued(fl, r) ==
    IF r.data = <<>> THEN fl
    ELSE [fl EXCEPT !.credit = @ - Len(r.data), !.bytes = @ + Len(r.data),
                    !.rq = Append(@, r.data)]

Enqueued(fl, r) ==
    [fl EXCEPT !.credit = @ - Len(r.data),
               !.bytes = @ + Len(r.data),
               !.rq = IF r.data = <<>> THEN @ ELSE Append(@, r.data),
               !.fin = r.kind = "CLOSE"]

\* A reader that waits until the application has taken the previous payload.
WaitingDispatchPayload(e) ==
    LET r  == Arrived(e)
        fl == flow[e][r.sid]
    IN  /\ Arrives(e, "DATA") \/ Arrives(e, "CLOSE")
        /\ fl.live /\ fl.rq = <<>> /\ fl.writing = <<>>
        /\ flow' = [flow EXCEPT ![e][r.sid] = Enqueued(fl, r)]
        /\ UNCHANGED <<ctl, run, sess, out, neg, nextSid>>

\* A DATA or CLOSE record: enqueue, or fail the stream with RST.  DATA for an
\* unknown stream is answered with RST by the server, ignored by the client.
DispatchPayload(e) ==
    LET r  == Arrived(e)
        fl == flow[e][r.sid]
        fit == Fits(fl, e, r.data)
    IN  /\ Arrives(e, "DATA") \/ Arrives(e, "CLOSE")
        /\ CASE ~fl.live ->
                  /\ UNCHANGED flow
                  /\ IF e = "s" /\ r.kind = "DATA"
                     THEN ReaderControl(e, RstRecord(r.sid, FALSE))
                     ELSE UNCHANGED <<ctl, run, sess, out>>
             [] fl.live /\ ~fl.fin /\ ~fl.cancelled /\ fit ->
                  /\ flow' = [flow EXCEPT ![e][r.sid] = Enqueued(fl, r)]
                  /\ UNCHANGED <<ctl, run, sess, out>>
             [] OTHER ->
                  /\ flow' = [flow EXCEPT ![e][r.sid] =
                        [Finish(fl, FALSE) EXCEPT
                           !.overrun = fl.overrun \/ ~WindowFits(fl, e, r.data)]]
                  /\ ReaderControl(e, RstRecord(r.sid, TRUE))
        /\ UNCHANGED <<neg, nextSid>>

DispatchRst(e) ==
    LET r == Arrived(e)
    IN  /\ Arrives(e, "RST")
        /\ flow' = [flow EXCEPT ![e][r.sid] = Finish(flow[e][r.sid], FALSE)]
        /\ UNCHANGED <<run, sess, neg, nextSid, out, ctl>>

\* WIN: add_credit (ignored by a legacy flow), or fail the stream.
DispatchWin(e) ==
    LET r  == Arrived(e)
        fl == flow[e][r.sid]
    IN  /\ Arrives(e, "WIN")
        /\ CASE ~fl.live \/ ~fl.negotiated ->
                  UNCHANGED <<flow, ctl, run, sess, out>>
             [] fl.live /\ fl.negotiated /\ r.n \in 1..(Window[Peer(e)] - fl.avail) ->
                  /\ flow' = [flow EXCEPT ![e][r.sid].avail = @ + r.n]
                  /\ UNCHANGED <<ctl, run, sess, out>>
             [] OTHER ->
                  /\ flow' = [flow EXCEPT ![e][r.sid] =
                        [Finish(fl, FALSE) EXCEPT !.overrun = TRUE]]
                  /\ ReaderControl(e, RstRecord(r.sid, TRUE))
        /\ UNCHANGED <<neg, nextSid>>

----------------------------------------------------------------------------
(* Shutdown                                                                *)

\* run() returns: shutdown requested, transport error, peer gone, or the
\* session_stop watch.  Its lanes are dropped.
RunEnds(e) ==
    /\ run[e]
    /\ e \in MayFail \/ sess[e] # "up" \/ ~run[Peer(e)]
    /\ run' = [run EXCEPT ![e] = FALSE]
    /\ sess' = Closing(e)
    /\ out' = [out EXCEPT ![e] = <<>>]
    /\ ctl' = [ctl EXCEPT ![e] = <<>>]
    /\ UNCHANGED <<neg, nextSid, flow, wire>>

\* shutdown() after `closed' is set: cancel every stream of the table and
\* settle the negotiation.
ShutdownDrain(e) ==
    /\ sess[e] = "closing"
    /\ sess' = [sess EXCEPT ![e] = "down"]
    /\ flow' = [flow EXCEPT ![e] = [i \in Sids |-> Finish(flow[e][i], FALSE)]]
    /\ neg' = [neg EXCEPT ![e] = IF @ = "pending" THEN "legacy" ELSE @]
    /\ UNCHANGED <<run, nextSid, out, ctl, wire>>

----------------------------------------------------------------------------

Uplink(e, i) ==
    \/ TakeCredit(e, i)
    \/ SendData(e, i)
    \/ SendClose(e, i)

Downlink(e, i) ==
    \/ Receive(e, i)
    \/ ReceiveFin(e, i)
    \/ RaiseCredit(e, i)
    \/ PublishWin(e, i)

TaskEnds(e, i) ==
    \/ BridgeFailed(e, i)
    \/ BridgeDone(e, i)
    \/ TaskCancelled(e, i)

Dispatch(e) ==
    \/ DispatchCap(e)
    \/ e = "s" /\ DispatchOpen
    \/ DispatchPayload(e)
    \/ DispatchRst(e)
    \/ DispatchWin(e)

Next ==
    \/ NegotiationDeadline
    \/ OpenStream
    \/ \E i \in Sids :
          SendOpen(i) \/ AbortOpen(i) \/ Connected(i) \/ ConnectFailed(i)
    \/ \E e \in Ends, i \in Sids :
          \/ \E n \in 1..MaxChunk : ReadSocket(e, i, n)
          \/ ReadEof(e, i)
          \/ Uplink(e, i)
          \/ Downlink(e, i)
          \/ Written(e, i)
          \/ PumpError(e, i)
          \/ TaskEnds(e, i)
    \/ \E e \in Ends :
          \/ WriteControl(e)
          \/ WriteOutput(e)
          \/ Dispatch(e)
          \/ RunEnds(e)
          \/ ShutdownDrain(e)

Spec == Init /\ [][Next]_vars

----------------------------------------------------------------------------
(* Safety                                                                  *)

Kinds == {"CAP", "OPEN", "DATA", "CLOSE", "WIN", "RST"}

\* The shape of the state: lanes within their capacity, flow counters within
\* the windows of the two ends.
TypeOK ==
    /\ run \in [Ends -> BOOLEAN]
    /\ sess \in [Ends -> {"up", "closing", "down"}]
    /\ neg \in [Ends -> {"pending", "legacy", "credit"}]
    /\ nextSid \in Nat
    /\ \A e \in Ends :
          /\ Len(out[e]) <= OutCap /\ Len(ctl[e]) <= CtlCap
          /\ Len(wire[e]) <= WireCap
          /\ \A r \in Range(out[e] \o ctl[e] \o wire[e]) :
                r.kind \in Kinds /\ r.sid \in Sids \cup {0}
          /\ \A i \in Sids :
                /\ flow[e][i].task \in {"none", "opening", "connecting",
                                        "bridged", "failed", "gone"}
                /\ flow[e][i].avail \in 0..Window[Peer(e)]
                /\ flow[e][i].credit \in 0..Window[e]
                /\ flow[e][i].bytes \in 0..Window[e]
                /\ flow[e][i].pend \in 0..Window[e]

Records(e, i, kind) ==
    SelectSeq(wire[e] \o out[e] \o ctl[e],
              LAMBDA r : r.sid = i /\ r.kind = kind)

\* DATA bytes of stream i on their way from e: taken, queued or on the wire.
InFlight(e, i) ==
    LET ds == Records(e, i, "DATA")
    IN  Bytes([k \in DOMAIN ds |-> ds[k].data]) + Len(flow[e][i].taken)

\* WIN increments on their way from e, the one being published included.
Granted(e, i) ==
    LET ws == Records(e, i, "WIN")
    IN  FoldSeq(LAMBDA r, n : r.n + n, 0, ws)
          + IF flow[e][i].pub = "raised" THEN flow[e][i].pend ELSE 0

Exists(e, i) == flow[e][i].live \/ flow[e][i].task \notin {"none", "gone"}

\* What an application reads from its end of a stream is always a prefix of
\* what the other application wrote, in order, whatever is reset, refused or
\* shut down on the way.
InOrderDelivery ==
    \A e \in Ends, i \in Sids :
        LET got == flow[e][i].got
        IN  /\ \A k \in DOMAIN got : got[k] = k
            /\ Len(got) <= flow[Peer(e)][i].read

\* A FIN is only shown to an application that has received everything: while
\* the stream is not reset, the downlink ends only after every byte that the
\* peer read from its socket was written ("DATA|FIN retains ordering through
\* the receive queue").
FinMeansComplete ==
    \A e \in Ends, i \in Sids :
        flow[e][i].live /\ flow[e][i].down = "done" =>
            /\ Len(flow[e][i].got) = flow[Peer(e)][i].read
            /\ flow[Peer(e)][i].up = "done"

\* Both ends of a stream agree on whether it is credit controlled, although
\* the client's 300 ms deadline races the server's capability reply.
ModeAgreement ==
    \A i \in Sids :
        Exists("c", i) /\ Exists("s", i) =>
            flow["c"][i].negotiated = flow["s"][i].negotiated

\* Whatever a sender has taken out of its allowance and not yet delivered is
\* within the receiver's credit and window: the byte checks of enqueue cannot
\* fail.  This is what the order in publish_credit (raise, then publish)
\* protects.
CreditCoversFlight ==
    \A e \in Ends, i \in Sids :
        flow[e][i].live /\ flow[Peer(e)][i].live /\ flow[e][i].negotiated =>
            /\ InFlight(Peer(e), i) + flow[Peer(e)][i].avail
                   + Granted(e, i) <= flow[e][i].credit
            /\ flow[e][i].credit + flow[e][i].bytes <= Window[e]

\* No byte check of enqueue, publish_credit or add_credit ever fails on a
\* negotiated stream between two ends that run this code; only the legacy
\* fallback can overrun a window.  (The limit of MAX_QUEUED_RECORDS is not one
\* of bytes: it does reset streams, see NoSpuriousReset.)
NeverOverrun ==
    \A e \in Ends, i \in Sids :
        flow[e][i].overrun => ~flow[e][i].negotiated

\* bytes counts exactly what is queued or inside write_all, and covers the
\* write even after a cancellation, so consumed() cannot underflow.
ReceiveAccounting ==
    \A e \in Ends, i \in Sids :
        LET fl == flow[e][i]
        IN  /\ fl.bytes >= Bytes(fl.rq) + Len(fl.writing)
            /\ ~fl.cancelled => fl.bytes = Bytes(fl.rq) + Len(fl.writing)

Sum(f, S) == FoldSet(LAMBDA i, n : f[i] + n, 0, S)

\* The received bytes an endpoint keeps in memory, those of removed streams
\* included, never exceed its receive budget.
MemoryBounded ==
    \A e \in Ends :
        Sum([i \in Sids |-> IF flow[e][i].task = "gone" THEN 0 ELSE
                Bytes(flow[e][i].rq) + Len(flow[e][i].writing)], Sids)
            <= Budget * Window[e]

\* After shutdown has drained the table no stream is ever in it again, so no
\* connect or bridge task outlives the session uncancelled.
NoStreamAfterShutdown ==
    \A e \in Ends : sess[e] = "down" => Live(e) = {}

\* A negotiated stream sends nothing but RST after its RST: the reset invalidates
\* what the slower output lane still holds.
ResetIsLast ==
    \A e \in Ends : \A j, k \in DOMAIN wire[e] :
        /\ j < k
        /\ wire[e][j].kind = "RST" /\ wire[e][k].kind # "RST"
        /\ wire[e][k].sid = wire[e][j].sid
        => ~flow[e][wire[e][j].sid].negotiated

\* e's reader finds the receive queue of stream i at MAX_QUEUED_RECORDS.
Crowded(e, i) ==
    /\ wire[Peer(e)] # <<>>
    /\ Arrived(e).sid = i /\ Arrived(e).data # <<>>
    /\ Len(flow[e][i].rq) >= MaxQueued

\* The other end's RST for stream i is what e's reader takes next.
ResetArrives(e, i) ==
    wire[Peer(e)] # <<>> /\ Arrived(e).kind = "RST" /\ Arrived(e).sid = i

\* Without a failure outside the session, a negotiated stream is only reset, and
\* the session only ends, for a queue at its limit: the step that invalidates
\* what a stream has sent is one that finds MAX_QUEUED_RECORDS records queued
\* for its reader, finds its own control lane full, hears the other end's RST,
\* or follows the end of the session; a session ends for a full control lane or
\* because the other end has ended; and an RST of an admitted stream comes only
\* from an end that has reset it itself.  No lost, doubled or late credit, no
\* half close and no race of the two ends ever resets a stream.
ResetsHaveCause ==
    MayFail = {} =>
        \A e \in Ends :
            /\ \A i \in Sids :
                  flow[e][i].negotiated /\ flow[e][i].outValid /\ ~flow'[e][i].outValid =>
                      \/ Crowded(e, i) \/ ResetArrives(e, i)
                      \/ Len(ctl[e]) >= CtlCap \/ sess[e] # "up"
            /\ \A i \in Sids :
                  flow["s"][i].negotiated /\ flow[e][i].outValid =>
                      Records(e, i, "RST") = <<>>
            /\ sess[e] = "up" /\ sess'[e] # "up" =>
                  Len(ctl[e]) >= CtlCap \/ ~run[Peer(e)]

NoSpuriousReset == [][ResetsHaveCause]_vars

----------------------------------------------------------------------------
(* Refinement: each direction of a negotiated stream implements MuxCredit. *)

Attached(e, i) ==
    \/ flow[e][i].live /\ ~flow[e][i].cancelled
    \/ flow[e][i].task = "none"

\* The phase of stream i's direction from e as MuxCredit sees it.
Phase(e, i) ==
    CASE ~flow["c"][i].negotiated -> "idle"
      [] flow["c"][i].negotiated
             /\ \E p \in Ends : flow[p][i].overrun -> "fault"
      [] flow["c"][i].live /\ flow["c"][i].negotiated
             /\ \A p \in Ends :
                    run[p] /\ Attached(p, i) /\ ~flow[p][i].overrun -> "open"
      [] OTHER -> "retired"

WhenOpen(e, i, n) == IF Phase(e, i) = "open" THEN n ELSE 0

\* The server's Flow appears with the OPEN record; until then its counters
\* stand for the full window the client already counts on.
OrWindow(e, i, w, n) == IF flow[e][i].task = "none" THEN w ELSE n

\* The first stream stands for all of them.
Up == INSTANCE MuxCredit WITH
    Window <- Window["s"],
    phase  <- Phase("c", 1),
    avail  <- WhenOpen("c", 1, flow["c"][1].avail),
    flight <- WhenOpen("c", 1, InFlight("c", 1)),
    credit <- WhenOpen("c", 1, OrWindow("s", 1, Window["s"], flow["s"][1].credit)),
    held   <- WhenOpen("c", 1, flow["s"][1].bytes),
    queued <- WhenOpen("c", 1, Len(flow["s"][1].rq)),
    pend   <- WhenOpen("c", 1, IF flow["s"][1].pub = "raised" THEN 0
                               ELSE flow["s"][1].pend),
    grant  <- WhenOpen("c", 1, Granted("s", 1))

Down == INSTANCE MuxCredit WITH
    Window <- Window["c"],
    phase  <- Phase("s", 1),
    avail  <- WhenOpen("s", 1, OrWindow("s", 1, Window["c"], flow["s"][1].avail)),
    flight <- WhenOpen("s", 1, InFlight("s", 1)),
    credit <- WhenOpen("s", 1, flow["c"][1].credit),
    held   <- WhenOpen("s", 1, flow["c"][1].bytes),
    queued <- WhenOpen("s", 1, Len(flow["c"][1].rq)),
    pend   <- WhenOpen("s", 1, IF flow["c"][1].pub = "raised" THEN 0
                               ELSE flow["c"][1].pend),
    grant  <- WhenOpen("s", 1, Granted("c", 1))

\* The uplink of the first stream is a MuxCredit channel, step by step.
UplinkIsCreditChannel == Up!Spec

\* So is its downlink.
DownlinkIsCreditChannel == Down!Spec

----------------------------------------------------------------------------
(* Liveness                                                                *)

\* Every task of the session that can continue does (the writer on either lane:
\* tokio's select is random, its batches bounded; the reader), and so do the
\* tasks of stream i, whose two applications keep reading.  Nothing is assumed
\* of the other streams: neither their applications nor their tasks need ever
\* run.
Fairness(i) ==
    /\ \A e \in Ends :
          /\ WF_vars(WriteControl(e)) /\ WF_vars(WriteOutput(e))
          /\ WF_vars(Dispatch(e))
          /\ WF_vars(Uplink(e, i)) /\ WF_vars(Written(e, i))
          /\ WF_vars(Downlink(e, i) \/ TaskEnds(e, i))
    /\ WF_vars(SendOpen(i)) /\ WF_vars(Connected(i))

Failed(i) == \E e \in Ends : flow[e][i].cancelled /\ ~flow[e][i].outValid

\* The uplink of e has read k bytes; the other application has them, unless the
\* stream was reset.
Accepted(e, i, k) == flow[e][i].read >= k
HasRead(e, i, k) == Len(flow[Peer(e)][i].got) >= k \/ Failed(i)

\* Both applications have finished; both ends have released the stream.
BothDone(i) == \A e \in Ends : flow[e][i].up = "done"
Released(i) == \A e \in Ends : flow[e][i].task = "gone" /\ i \notin Reserved(e)

\* Nothing of a stream goes missing between its two ends: credit covers what
\* is in flight, what is received is accounted for, and a FIN comes after the
\* last byte.
StreamIsWhole ==
    /\ TypeOK
    /\ CreditCoversFlight
    /\ ReceiveAccounting
    /\ FinMeansComplete

\* Whatever fails and whenever the negotiation is late: a prefix is
\* delivered, a FIN is shown only after the last byte, both ends agree whether
\* credit counts, and no byte check of a negotiated window ever fails.
SafeUnderFailure ==
    /\ InOrderDelivery
    /\ FinMeansComplete
    /\ ModeAgreement
    /\ NeverOverrun

\* A reset ends a stream on the wire, a shutdown ends every stream of the
\* table.
EndsAreFinal == ResetIsLast /\ NoStreamAfterShutdown
=============================================================================
