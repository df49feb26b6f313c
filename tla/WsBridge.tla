------------------------------ MODULE WsBridge ------------------------------
(***************************************************************************)
(* ws_bridge.rs and the legacy channel of local_client.rs and server.rs:   *)
(* one TCP connection carried by a WebSocket of its own, a bridge at each  *)
(* end.  At each end a writer owns the sink and takes messages from a      *)
(* bounded queue, "down" reads TCP, "up" reads the WebSocket, and a timer  *)
(* adds empty frames.  Chunk i of an end's TCP input is the number i.      *)
(***************************************************************************)
EXTENDS Integers, Sequences, SequencesExt

CONSTANTS Size,        \* chunks that the application of each end may send
          QueueCap,    \* WS_OUT_CAP
          WireCap,     \* messages that fit into the connection
          MaxNoise,    \* bound on the pings and empty frames of each end
          Lookalikes   \* chunks of the server that read like an OPEN_OK frame

\* Messages other than payload.
EMPTY == 0
PING == -1
PONG == -2
CLOSE == -3
OPEN_OK == -4
OPEN_ERR == -5

Ends == {"C", "S"}
Peer(e) == IF e = "C" THEN "S" ELSE "C"

VARIABLES wrote,   \* chunks the application of the end has written
          fin,     \* ... and it has closed its side
          got,     \* chunks that "down" has read
          queue,   \* ws_out: messages for the writer
          wire,    \* messages from the end's sink, not read by the peer yet
          hand,    \* the chunk that the reader is writing to TCP, or 0
          app,     \* chunks the application of the end has received
          job,     \* what the end does: "open", "run", "eof", "drain", "flush", "ok", "failed"
          writer,  \* the writer has ended
          up,      \* the reader has ended
          noise,   \* pings and empty frames so far
          why      \* history: why the end failed, or "eof" when it drained

bridgeVars == <<wrote, fin, got, queue, wire, hand, app, job, writer, up, noise, why>>

Chunks(n) == [i \in 1 .. n |-> i]
Active(e) == job[e] \in {"run", "eof", "drain"}
Ended(e) == job[e] \in {"ok", "failed"}
Fails(e, reason) == job' = [job EXCEPT ![e] = "failed"] /\ why' = [why EXCEPT ![e] = reason]

Init ==
    /\ wrote = [e \in Ends |-> 0] /\ fin = [e \in Ends |-> FALSE] /\ got = [e \in Ends |-> 0]
    /\ queue = [e \in Ends |-> <<>>] /\ wire = [e \in Ends |-> <<>>] /\ hand = [e \in Ends |-> 0]
    /\ app = [e \in Ends |-> <<>>]
    /\ job = [e \in Ends |-> "open"] /\ writer = [e \in Ends |-> FALSE]
    /\ up = [e \in Ends |-> FALSE] /\ noise = [e \in Ends |-> 0] /\ why = [e \in Ends |-> "none"]

AppWrites(e) ==
    /\ ~fin[e] /\ wrote[e] < Size /\ ~Ended(e) /\ (e = "S" => job[e] # "open")
    /\ wrote' = [wrote EXCEPT ![e] = @ + 1]
    /\ UNCHANGED <<fin, got, queue, wire, hand, app, job, writer, up, noise, why>>

AppCloses(e) ==
    /\ ~fin[e] /\ ~Ended(e) /\ (e = "S" => job[e] # "open")
    /\ fin' = [fin EXCEPT ![e] = TRUE]
    /\ UNCHANGED <<wrote, got, queue, wire, hand, app, job, writer, up, noise, why>>

-----------------------------------------------------------------------------
\* The server has connected to the target, or not, and says so.
ServerOpens ==
    /\ job["S"] = "open"
    /\ \/ /\ wire' = [wire EXCEPT !["S"] = <<OPEN_OK>>]
          /\ job' = [job EXCEPT !["S"] = "run"] /\ UNCHANGED why
       \/ wire' = [wire EXCEPT !["S"] = <<OPEN_ERR>>] /\ Fails("S", "target")
    /\ UNCHANGED <<wrote, fin, got, queue, hand, app, writer, up, noise>>

\* wait_open_status_or_payload sees the first frame of the server ...
OpenStatus ==
    /\ job["C"] = "open" /\ wire["S"] # <<>>
    /\ wire' = [wire EXCEPT !["S"] = Tail(@)]
    /\ IF Head(wire["S"]) = OPEN_OK THEN job' = [job EXCEPT !["C"] = "run"] /\ UNCHANGED why
       ELSE Fails("C", "target")
    /\ UNCHANGED <<wrote, fin, got, queue, hand, app, writer, up, noise>>

\* ... or 350 ms have passed and the bridge starts without it.
OpenTimeout ==
    /\ job["C"] = "open" /\ job' = [job EXCEPT !["C"] = "run"]
    /\ UNCHANGED <<wrote, fin, got, queue, wire, hand, app, writer, up, noise, why>>

-----------------------------------------------------------------------------
Room(e) == Len(queue[e]) < QueueCap
WireRoom(e) == Len(wire[e]) < WireCap
Queue(e, m) == queue' = [queue EXCEPT ![e] = Append(@, m)]

DownRead(e) ==
    /\ job[e] = "run" /\ got[e] < wrote[e] /\ Room(e)
    /\ got' = [got EXCEPT ![e] = @ + 1] /\ Queue(e, got[e] + 1)
    /\ UNCHANGED <<wrote, fin, wire, hand, app, job, writer, up, noise, why>>

\* Mutant: the bridge ends with the connection it reads from.
DownEofEnds(e) ==
    /\ job[e] = "run" /\ fin[e] /\ got[e] = wrote[e]
    /\ job' = [job EXCEPT ![e] = "ok"] /\ why' = [why EXCEPT ![e] = "eof"]
    /\ UNCHANGED <<wrote, fin, got, queue, wire, hand, app, writer, up, noise>>
\* TCP EOF: the timer and "down" stop, the close handshake starts.
DownEof(e) ==
    /\ job[e] = "run" /\ fin[e] /\ got[e] = wrote[e]
    /\ job' = [job EXCEPT ![e] = "eof"]
    /\ UNCHANGED <<wrote, fin, got, queue, wire, hand, app, writer, up, noise, why>>

QueueClose(e) ==
    /\ job[e] = "eof" /\ Room(e) /\ Queue(e, CLOSE)
    /\ job' = [job EXCEPT ![e] = "drain"]
    /\ UNCHANGED <<wrote, fin, got, wire, hand, app, writer, up, noise, why>>

\* The dummy timer adds an empty frame.
Dummy(e) ==
    /\ job[e] = "run" /\ Room(e) /\ noise[e] < MaxNoise
    /\ noise' = [noise EXCEPT ![e] = @ + 1] /\ Queue(e, EMPTY)
    /\ UNCHANGED <<wrote, fin, got, wire, hand, app, job, writer, up, why>>

-----------------------------------------------------------------------------
Put(e, m) == wire' = [wire EXCEPT ![e] = Append(@, m)]

\* The writer feeds the next message; it ends with a Close.
WriterSend(e) ==
    /\ Active(e) /\ ~writer[e] /\ ~up[e] /\ queue[e] # <<>> /\ WireRoom(e)
    /\ Put(e, Head(queue[e])) /\ queue' = [queue EXCEPT ![e] = Tail(@)]
    /\ writer' = [writer EXCEPT ![e] = Head(queue[e]) = CLOSE]
    /\ UNCHANGED <<wrote, fin, got, hand, app, job, up, noise, why>>

WriterPing(e) ==
    /\ Active(e) /\ ~writer[e] /\ ~up[e] /\ WireRoom(e) /\ noise[e] < MaxNoise
    /\ Put(e, PING) /\ noise' = [noise EXCEPT ![e] = @ + 1]
    /\ UNCHANGED <<wrote, fin, got, queue, hand, app, job, writer, up, why>>

\* The peer's Close was read: a WebSocket takes no more messages.
WriterRefused(e) ==
    /\ job[e] \in {"eof", "drain"} /\ ~writer[e] /\ up[e] /\ queue[e] # <<>> /\ Fails(e, "crossed")
    /\ UNCHANGED <<wrote, fin, got, queue, wire, hand, app, writer, up, noise>>

-----------------------------------------------------------------------------
\* filter_client_downlink: a frame of the client's downlink that reads like an
\* OPEN_OK is not payload.
Filtered(e, m) == m = OPEN_OK \/ (e = "C" /\ m \in Lookalikes)

\* Payload is for TCP, empty frames, pongs and a late OPEN_OK for nobody.
UpPayload(e, m) ==
    /\ m \in (1 .. Size) \cup {EMPTY, PONG, OPEN_OK}
    /\ hand' = IF m \in {EMPTY, PONG} \/ Filtered(e, m) THEN hand ELSE [hand EXCEPT ![e] = m]
    /\ UNCHANGED <<queue, job, up, why>>

\* A ping is answered through the queue, which is gone once the writer has ended.
UpPing(e, m) ==
    /\ m = PING
    /\ IF writer[e] THEN Fails(e, "ping") /\ UNCHANGED queue
       ELSE Room(e) /\ Queue(e, PONG) /\ UNCHANGED <<job, why>>
    /\ UNCHANGED <<hand, up>>

\* A late OPEN_ERR ends the bridge.
UpOpenErr(e, m) == m = OPEN_ERR /\ Fails(e, "target") /\ UNCHANGED <<hand, queue, up>>

\* The peer closes: the reply is flushed and what is queued is dropped, or,
\* when this end was closing too, its reader is done.
UpClose(e, m) ==
    /\ m = CLOSE /\ up' = [up EXCEPT ![e] = TRUE] /\ UNCHANGED <<hand, queue, why>>
    /\ job' = IF job[e] = "run" THEN [job EXCEPT ![e] = "flush"] ELSE job

\* The reader takes the next message, once the one before is written.
UpReads(e) ==
    /\ Active(e) /\ ~up[e] /\ hand[e] = 0 /\ wire[Peer(e)] # <<>>
    /\ LET m == Head(wire[Peer(e)]) IN
       UpPayload(e, m) \/ UpPing(e, m) \/ UpOpenErr(e, m) \/ UpClose(e, m)
    /\ wire' = [wire EXCEPT ![Peer(e)] = Tail(@)]
    /\ UNCHANGED <<wrote, fin, got, app, writer, noise>>

\* The application takes the chunk: when it reads, which it need not do ...
UpWrites(e) ==
    /\ Active(e) /\ hand[e] # 0
    /\ app' = [app EXCEPT ![e] = Append(@, hand[e])] /\ hand' = [hand EXCEPT ![e] = 0]
    /\ UNCHANGED <<wrote, fin, got, queue, wire, job, writer, up, noise, why>>

\* ... or its connection is gone.
UpWriteFails(e) ==
    /\ Active(e) /\ hand[e] # 0 /\ Fails(e, "app")
    /\ UNCHANGED <<wrote, fin, got, queue, wire, hand, app, writer, up, noise>>

\* The connection is gone: a reader sees it once it has read all that was in
\* it, a writer with its next message.
PeerGone(e) ==
    /\ Ended(Peer(e)) /\ Fails(e, "peer")
    /\ \/ ((Active(e) /\ ~up[e] /\ hand[e] = 0) \/ job[e] = "open") /\ wire[Peer(e)] = <<>>
       \/ Active(e) /\ ~writer[e] /\ queue[e] # <<>>
    /\ UNCHANGED <<wrote, fin, got, queue, wire, hand, app, writer, up, noise>>

FlushReply(e) ==
    /\ job[e] = "flush" /\ WireRoom(e) /\ Put(e, CLOSE)
    /\ job' = [job EXCEPT ![e] = "ok"]
    /\ UNCHANGED <<wrote, fin, got, queue, hand, app, writer, up, noise, why>>

DrainEnds(e) ==
    /\ job[e] = "drain" /\ writer[e] /\ up[e]
    /\ job' = [job EXCEPT ![e] = "ok"] /\ why' = [why EXCEPT ![e] = "eof"]
    /\ UNCHANGED <<wrote, fin, got, queue, wire, hand, app, writer, up, noise>>

\* Mutant: the close handshake is waited for.
CloseTimeoutNever(e) == FALSE /\ UNCHANGED bridgeVars
\* CLOSE_TIMEOUT, in either branch.
CloseTimeout(e) ==
    /\ job[e] \in {"eof", "drain", "flush"} /\ Fails(e, "timeout")
    /\ UNCHANGED <<wrote, fin, got, queue, wire, hand, app, writer, up, noise>>

-----------------------------------------------------------------------------
Step(e) ==
    \/ DownRead(e) \/ DownEof(e) \/ QueueClose(e) \/ WriterSend(e) \/ WriterRefused(e)
    \/ UpReads(e) \/ PeerGone(e) \/ FlushReply(e) \/ DrainEnds(e)

Next ==
    \/ ServerOpens \/ OpenStatus \/ OpenTimeout
    \/ \E e \in Ends : AppWrites(e) \/ AppCloses(e) \/ Dummy(e) \/ WriterPing(e) \/ Step(e)
                          \/ UpWrites(e) \/ UpWriteFails(e) \/ CloseTimeout(e)

\* Each task of a bridge runs when it can, its timers fire, and connecting ends.
\* Nothing makes an application read: UpWrites is not fair.
Fairness ==
    /\ WF_bridgeVars(ServerOpens) /\ WF_bridgeVars(OpenStatus \/ OpenTimeout)
    /\ \A e \in Ends :
          /\ WF_bridgeVars(DownRead(e) \/ DownEof(e)) /\ WF_bridgeVars(CloseTimeout(e))
          /\ WF_bridgeVars(WriterSend(e)) /\ WF_bridgeVars(UpReads(e)) /\ WF_bridgeVars(PeerGone(e))

Spec == Init /\ [][Next]_bridgeVars /\ Fairness

-----------------------------------------------------------------------------
\* The queues keep to their bounds, and chunks are read before they are passed on.
BridgeTypeOK ==
    \A e \in Ends :
        /\ got[e] <= wrote[e] /\ Len(queue[e]) <= QueueCap
        /\ job[e] \in {"open", "run", "eof", "drain", "flush", "ok", "failed"}
        /\ Len(app[e]) <= got[Peer(e)] /\ hand[e] \in 0 .. got[Peer(e)]
        /\ job[e] = "flush" => up[e]
        /\ job[e] = "run" => ~up[e] /\ ~writer[e]

\* Each application receives a prefix of what the other one sent: no chunk is
\* lost inside, repeated or reordered, and no control frame shows up as data.
PayloadExact ==
    \A e \in Ends : IsPrefix(app[e], Chunks(wrote[Peer(e)]))

\* TCP EOF flushes: when an end finishes because its TCP side has closed, all
\* that was read from it has reached the other application, or, when both have
\* closed at once, is still on its way to it; unless the peer has failed.
EofFlushes ==
    \A e \in Ends : job[e] = "ok" /\ why[e] = "eof" /\ job[Peer(e)] # "failed" =>
        app[Peer(e)] \o SelectSeq(<<hand[Peer(e)]>> \o wire[e], LAMBDA m : m > 0)
            = Chunks(wrote[e])

\* Nothing follows a Close on the WebSocket (the writer stops with it).
NothingAfterClose ==
    \A e \in Ends :
        /\ \A i \in DOMAIN wire[e] : wire[e][i] = CLOSE => i = Len(wire[e])
        /\ up[Peer(e)] => wire[e] = <<>> /\ hand[Peer(e)] = 0

\* Every reader waits for room to answer a ping while every writer waits for
\* the other reader.
PongDeadlock ==
    \A e \in Ends : ~WireRoom(e) /\ ~Room(e) /\ Head(wire[e]) = PING

Closing(e) == fin[e] \/ Ended(Peer(e))

\* The reader of an end waits for an application that does not read.
Stalled(e) == Active(e) /\ hand[e] # 0

\* A closed TCP side ends the bridge, whatever the peer does, and the end of one
\* bridge ends the other one: but for the case above, and as long as no application
\* stops reading for good, since no write to TCP has a deadline.
BridgeEnds ==
    \A e \in Ends : Closing(e) ~> \/ Ended(e) \/ PongDeadlock
                                 \/ []Stalled("C") \/ []Stalled("S")

\* An orderly end loses nothing: what was read is delivered, once and in
\* order, before the close, and nothing after it.
BridgeExact == BridgeTypeOK /\ PayloadExact /\ EofFlushes /\ NothingAfterClose
=============================================================================
