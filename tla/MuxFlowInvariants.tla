------------------------- MODULE MuxFlowInvariants -------------------------
(***************************************************************************)
(* The inductive invariants of a session of MuxFlow.  FInv is about the    *)
(* order of the records and the end of a stream, DInv about the bytes and  *)
(* the credit under way, EInv about the FIN.  MuxFlowProofs shows that     *)
(* every reachable state satisfies them, and what follows from them.       *)
(***************************************************************************)
EXTENDS MuxFlow

\* A flow, with any bytes in it.
FlowSet ==
  [task : {"none", "opening", "connecting", "bridged", "failed", "gone"},
   live : BOOLEAN, negotiated : BOOLEAN, avail : Int,
   rq : Seq(Seq(Int)), bytes : Int, credit : Int, fin : BOOLEAN,
   cancelled : BOOLEAN, outValid : BOOLEAN,
   read : Int, buf : Seq(Int), taken : Seq(Int), up : {"run", "eof", "done"},
   writing : Seq(Int), pend : Int, pub : {"none", "due", "raised"},
   down : {"run", "done"}, got : Seq(Int), overrun : BOOLEAN]

\* The records of the two lanes, and of the wire. Only an RST can be without its
\* Flow; only a CAP belongs to no stream.
RecordsOf(kinds, sids, owned) ==
  [kind : kinds, sid : sids, data : Seq(Int), n : Int, credit : BOOLEAN, owned : owned]
OutRecords == RecordsOf({"OPEN", "DATA", "CLOSE"}, Sids, {TRUE})
CtlRecords ==
  RecordsOf({"CAP"}, {0}, {FALSE}) \cup RecordsOf({"WIN"}, Sids, {TRUE})
    \cup RecordsOf({"RST"}, Sids, BOOLEAN)
WireRecords == OutRecords \cup CtlRecords

\* The values of the variables.
Values ==
  /\ run \in [Ends -> BOOLEAN]
  /\ sess \in [Ends -> {"up", "closing", "down"}]
  /\ neg \in [Ends -> {"pending", "legacy", "credit"}]
  /\ nextSid \in Nat
  /\ flow \in [Ends -> [Sids -> FlowSet]]
  /\ out \in [Ends -> Seq(OutRecords)]
  /\ ctl \in [Ends -> Seq(CtlRecords)]
  /\ wire \in [Ends -> Seq(WireRecords)]

\* A flow by itself: what is not in the table any more and still has a task had
\* its output invalidated; a cancelled flow stays in the table only until its
\* failed task removes it; what was read is sent before the FIN; the downlink is
\* done at a FIN.
Sound(f) ==
  /\ f.task = "none" => f = NoFlow
  /\ f.task \notin {"none", "gone"} /\ f.live = FALSE => f.outValid = FALSE
  /\ f.live = TRUE => f.task \notin {"none", "gone"}
  /\ f.live = TRUE /\ f.cancelled = TRUE => f.task = "failed"
  /\ f.up # "run" => f.buf = <<>> /\ f.taken = <<>>
  /\ f.down = "done" => f.fin = TRUE

FlowsSound ==
  /\ \A e \in Ends, i \in Sids : Sound(flow[e][i])
  /\ \A i \in Sids : i >= nextSid => flow["c"][i].task = "none"

\* The stream was reset or refused, or is legacy: ResetIsLast asks nothing of it
\* or the writer drops what it still has queued.
Dead(f) == f.task # "none" /\ (f.negotiated = FALSE \/ f.outValid = FALSE)

\* An RST under way belongs to such a stream.
ResetsAreDead ==
  \A e \in Ends :
    /\ \A k \in 1..Len(ctl[e]) : ctl[e][k].kind = "RST" => Dead(flow[e][ctl[e][k].sid])
    /\ \A k \in 1..Len(wire[e]) : wire[e][k].kind = "RST" => Dead(flow[e][wire[e][k].sid])

\* Record k of the queue q is one of stream i.
Is(q, k, kind, i) == q[k].kind = kind /\ q[k].sid = i
Holds(q, kind, i) == \E k \in 1..Len(q) : Is(q, k, kind, i)

\* No stream is opened twice in q; none has DATA behind its CLOSE.
Single(q) ==
  \A i \in Sids, j, k \in 1..Len(q) : Is(q, j, "OPEN", i) /\ Is(q, k, "OPEN", i) => j = k
Closed(q) ==
  \A i \in Sids, j, k \in 1..Len(q) : Is(q, j, "CLOSE", i) /\ Is(q, k, "DATA", i) => k < j

\* Stream i has not reached the server.
Unopened(i) == flow["s"][i].task = "none"

\* OPEN is sent once, and the server has not seen what is still under way.
OpenOnce ==
  /\ \A i \in Sids : flow["c"][i].task \in {"none", "opening"} => Unopened(i)
  /\ \A i \in Sids :
       Holds(wire["c"], "OPEN", i) \/ Holds(out["c"], "OPEN", i) =>
         Unopened(i) /\ flow["c"][i].task \notin {"none", "opening"}
  /\ \A i \in Sids : ~(Holds(wire["c"], "OPEN", i) /\ Holds(out["c"], "OPEN", i))
  /\ Single(wire["c"]) /\ Single(out["c"])

\* Before each payload of stream i in q is its OPEN.
After(q, i) ==
  \A k \in 1..Len(q) :
    Is(q, k, "DATA", i) \/ Is(q, k, "CLOSE", i) => \E j \in 1..Len(q) : j < k /\ Is(q, j, "OPEN", i)

\* A stream starts with its OPEN.
OpenFirst ==
  \A i \in Sids : Unopened(i) =>
    /\ After(wire["c"], i)
    /\ flow["c"][i].outValid = TRUE =>
         /\ Holds(wire["c"], "OPEN", i) \/ After(out["c"], i)
         /\ flow["c"][i].task = "bridged" /\ run["c"] = TRUE =>
              Holds(wire["c"], "OPEN", i) \/ Holds(out["c"], "OPEN", i)

\* A stream ends with its CLOSE.
CloseLast ==
  /\ Closed(wire["c"]) /\ Closed(out["c"])
  /\ \A i \in Sids : ~(Holds(wire["c"], "CLOSE", i) /\ Holds(out["c"], "DATA", i))
  /\ \A i \in Sids :
       Holds(wire["c"], "CLOSE", i) \/ Holds(out["c"], "CLOSE", i) => flow["c"][i].up = "done"

\* The server has seen the client's FIN.
Ended(f) == f.fin = TRUE \/ (f.task = "gone" /\ f.negotiated = TRUE /\ f.outValid = TRUE)

Quiet(i) ==
  /\ flow["c"][i].up = "done"
  /\ ~Holds(wire["c"], "DATA", i) /\ ~Holds(out["c"], "DATA", i)

\* After the client's FIN there is no more DATA.
EndedIsQuiet == \A i \in Sids : Ended(flow["s"][i]) => Quiet(i)

\* The inductive invariant.
FInv ==
  /\ Values /\ FlowsSound /\ ResetsAreDead
  /\ OpenOnce /\ OpenFirst /\ CloseLast /\ EndedIsQuiet
  /\ ResetIsLast /\ NoStreamAfterShutdown

-----------------------------------------------------------------------------
(***************************************************************************)
(* Delivery.  The bytes of a direction are numbered, so that what is in    *)
(* flight is known from the numbers at its ends and no sum over a queue is *)
(* needed; only the WINs under way have to be added up, by a function of   *)
(* partial sums.                                                           *)
(***************************************************************************)

\* Consecutive bytes, and the last of them.
LastByte(x) == x[1] + Len(x) - 1
Block(x) == Len(x) >= 1 /\ \A k \in 1..Len(x) : x[k] = x[1] + k - 1

\* The last byte with an allowance, and the last one handed to the output lane.
Took(f) == f.read - Len(f.buf)
Handed(f) == f.read - Len(f.buf) - Len(f.taken)

\* The sending half of a flow.
Sending(f) ==
  /\ Handed(f) >= 0 /\ f.avail >= 0
  /\ \A k \in 1..Len(f.buf) : f.buf[k] = Took(f) + k
  /\ \A k \in 1..Len(f.taken) : f.taken[k] = Handed(f) + k

\* The last byte accepted by enqueue, and the last one given to write_all.
Seen(f) == Len(f.got) + f.bytes
Passed(f) == Len(f.got) + Len(f.writing)

\* The receiving half: what is queued continues what was written.
Receiving(f) ==
  /\ \A k \in 1..Len(f.got) : f.got[k] = k
  /\ \A k \in 1..Len(f.writing) : f.writing[k] = Len(f.got) + k
  /\ f.bytes >= Len(f.writing)
  /\ \A k \in 1..Len(f.rq) :
       /\ Block(f.rq[k]) /\ LastByte(f.rq[k]) <= Seen(f)
       /\ f.rq[k][1] = IF k = 1 THEN Passed(f) + 1 ELSE LastByte(f.rq[k - 1]) + 1
  /\ f.cancelled = TRUE => f.rq = <<>>
  /\ f.cancelled = FALSE =>
       Seen(f) = IF f.rq = <<>> THEN Passed(f) ELSE LastByte(f.rq[Len(f.rq)])

\* The credit that is raised and not yet published.
Raised(f) == IF f.pub = "raised" THEN f.pend ELSE 0

\* The window is what is left of it, what is held, and what is not given back yet.
Crediting(f, w) ==
  /\ f.credit >= 0 /\ f.pend >= 0
  /\ f.pub # "none" => f.pend >= 1 /\ f.writing = <<>>
  /\ f.got = <<>> \/ f.negotiated = FALSE => f.pend = 0
  /\ f.task \notin {"none", "gone"} => f.credit + f.bytes + f.pend - Raised(f) = w
  /\ f.overrun = TRUE => f.negotiated = FALSE

Steady(e, f) == Sending(f) /\ Receiving(f) /\ Crediting(f, Window[e])

\* The payloads of stream i in q, and their order.
Datas(q, i) == {q[k].data : k \in {j \in 1..Len(q) : Is(q, j, "DATA", i)}}
Ascending(q, i) ==
  \A j, k \in 1..Len(q) :
    j < k /\ Is(q, j, "DATA", i) /\ Is(q, k, "DATA", i) => LastByte(q[j].data) < q[k].data[1]

\* In one direction of a stream f is the sender's flow, h the receiver's, W are
\* the payloads on the wire and O those in the output lane.

\* What was sent is numbered; the peer has seen no more than that.
Numbered(W, O, f, h) ==
  /\ \A x \in W, y \in O : LastByte(x) < y[1]
  /\ \A x \in W \cup O : Block(x) /\ x[1] >= 1 /\ LastByte(x) <= Handed(f)
  /\ Seen(h) <= Handed(f)

\* The flow takes what arrives, or will once it is opened.
Awaits(f) == f.live = TRUE \/ f.task = "none"

\* Byte n is the last one seen, or the last one of a payload in S.
Reaches(n, a, S) == n = a \/ \E y \in S : LastByte(y) = n

\* What arrives next follows what was seen, and so on to what was handed over.
Gapless(r, W, O, f, h) ==
  Awaits(h) =>
    /\ \A x \in W : Reaches(x[1] - 1, Seen(h), W)
    /\ f.outValid = TRUE => \A x \in O : Reaches(x[1] - 1, Seen(h), W \cup O)
    /\ f.outValid = TRUE /\ f.live = TRUE /\ r = TRUE => Reaches(Handed(f), Seen(h), W \cup O)

\* The last byte the flow f of end d takes, and the last one it has announced.
Limit(d, f) == IF f.task = "none" THEN Window[d] ELSE Seen(f) + f.credit
Announced(d, f) == Limit(d, f) - Raised(f)

\* What is under way to d fits.
Fitting(d, W, O, f, h) ==
  Awaits(h) =>
    /\ \A x \in W : LastByte(x) <= Limit(d, h)
    /\ f.outValid = TRUE => \A x \in O : LastByte(x) <= Limit(d, h)

\* With the WINs of stream i in q, a becomes b.
Inc(r, i) == IF r.kind = "WIN" /\ r.sid = i THEN r.n ELSE 0
Totals == Int
Adds(q, i, a, b) ==
  \E s \in [0..Len(q) -> Totals] :
    /\ s[0] = a /\ s[Len(q)] = b
    /\ \A k \in 1..Len(q) : s[k] = s[k - 1] + Inc(q[k], i)
    /\ \A k \in 0..Len(q) : s[k] <= b

\* An allowance up to byte m is covered by what d has announced.
Within(d, f, h, m) ==
  /\ m <= Took(f) + Window[d]
  /\ Awaits(h) => m <= Announced(d, h)

\* So is the allowance of f with all the WINs under way to it, on the wire w and
\* in the control lane c of d.
Allowed(d, w, c, i, f, h) ==
  \E m \in Totals :
    /\ Adds(w, i, Took(f) + f.avail, m) /\ Within(d, f, h, m)
    /\ h.outValid = TRUE => \E n \in Totals : Adds(c, i, m, n) /\ Within(d, f, h, n)

\* Stream i is credit controlled.
Counted(i) == flow["c"][i].negotiated = TRUE

\* The direction from e of stream i: what is under way, and what may follow.
Delivered(e, i) ==
  LET d == Peer(e)
      f == flow[e][i]
      h == flow[d][i]
      W == Datas(wire[e], i)
      O == Datas(out[e], i)
  IN  /\ Ascending(wire[e], i) /\ Ascending(out[e], i)
      /\ Numbered(W, O, f, h)
      /\ Gapless(run[e], W, O, f, h)
      /\ Counted(i) => Fitting(d, W, O, f, h)
Covered(e, i) ==
  LET d == Peer(e)
  IN  Counted(i) /\ flow[e][i].live = TRUE => Allowed(d, wire[d], ctl[d], i, flow[e][i], flow[d][i])
Directed(e, i) == Delivered(e, i) /\ Covered(e, i)

\* A WIN gives something back of what was written.
Earned(q, fs) ==
  \A k \in 1..Len(q) : q[k].kind = "WIN" => q[k].n >= 1 /\ fs[q[k].sid].got # <<>>
WinsEarned == \A e \in Ends : Earned(ctl[e], flow[e]) /\ Earned(wire[e], flow[e])

\* An OPEN tells the mode of the client's flow, and the server's flow has it.
OpensTell(q, fs) ==
  \A k \in 1..Len(q) : q[k].kind = "OPEN" => q[k].credit = fs[q[k].sid].negotiated
SameMode ==
  /\ OpensTell(wire["c"], flow["c"]) /\ OpensTell(out["c"], flow["c"])
  /\ \A i \in Sids : flow["s"][i].task \notin {"none", "gone"} =>
                       flow["s"][i].negotiated = flow["c"][i].negotiated

\* A CLOSE carries nothing.
Bare(q) == \A k \in 1..Len(q) : q[k].kind = "CLOSE" => q[k].data = <<>>
ClosesEmpty == \A e \in Ends : Bare(wire[e]) /\ Bare(out[e])

\* The inductive invariant of delivery, beside FInv.
DInv ==
  /\ \A e \in Ends, i \in Sids : Steady(e, flow[e][i])
  /\ \A e \in Ends, i \in Sids : Directed(e, i)
  /\ WinsEarned /\ SameMode /\ ClosesEmpty

-----------------------------------------------------------------------------
(***************************************************************************)
(* The FIN.  It comes after the last byte: CLOSE follows every payload of  *)
(* its stream on both queues, what is under way before it reaches up to    *)
(* the last byte read, and an end that has seen it has seen them all.      *)
(***************************************************************************)

\* In one direction of stream i f is the sender's flow, h the receiver's, w the
\* wire and o the output lane.
Ending(w, o, i, f, h) ==
  /\ Holds(w, "CLOSE", i) \/ Holds(o, "CLOSE", i) => f.up = "done"
  /\ Holds(w, "CLOSE", i) => Datas(o, i) = {}
  /\ Holds(w, "CLOSE", i) /\ Awaits(h) => Reaches(Handed(f), Seen(h), Datas(w, i))
  /\ Holds(o, "CLOSE", i) /\ Awaits(h) /\ f.outValid = TRUE =>
       Reaches(Handed(f), Seen(h), Datas(w, i) \cup Datas(o, i))
  /\ h.live = TRUE /\ h.fin = TRUE => f.up = "done" /\ Seen(h) = Handed(f)
  /\ h.live = TRUE /\ h.down = "done" => h.bytes = 0

\* The inductive invariant of the FIN, beside FInv and DInv.
EInv ==
  /\ \A e \in Ends : Closed(wire[e]) /\ Closed(out[e])
  /\ \A e \in Ends, i \in Sids : Ending(wire[e], out[e], i, flow[e][i], flow[Peer(e)][i])
-----------------------------------------------------------------------------
(***************************************************************************)
(* Most steps move little.  The three kinds that keep the invariants at    *)
(* once: Calm keeps FInv, Mild keeps DInv, Firm keeps EInv.                *)
(***************************************************************************)

\* What the steps of a task and of the reader do to a flow.
Evolves(f, g) ==
  /\ Sound(g)
  /\ f.task = "none" <=> g.task = "none"
  /\ g.task = "opening" => f.task = "opening"
  /\ g.live = TRUE => f.live = TRUE
  /\ g.negotiated = f.negotiated
  /\ g.outValid = TRUE => f.outValid = TRUE
  /\ f.up = "done" => g.up = "done"

FlowsEvolve ==
  /\ \A e \in Ends, i \in Sids : Evolves(flow[e][i], flow'[e][i])
  /\ \A i \in Sids : flow'["c"][i].task = "bridged" => flow["c"][i].task = "bridged"

\* What they do to the queues: the control lane may get a WIN, a CAP or the RST
\* of a dead stream, a record other than OPEN may leave a wire, and run may end.
QueuesShrink ==
  \A e \in Ends :
    /\ \/ ctl'[e] = ctl[e]
       \/ ctl'[e] = <<>>
       \/ \E r \in CtlRecords :
             ctl'[e] = Append(ctl[e], r) /\ (r.kind = "RST" => Dead(flow'[e][r.sid]))
    /\ \/ wire'[e] = wire[e]
       \/ /\ wire[e] # <<>> /\ wire'[e] = Tail(wire[e])
          /\ e = "c" => Head(wire["c"]).kind # "OPEN"
    /\ \/ out'[e] = out[e] /\ run'[e] = run[e]
       \/ out'[e] = <<>> /\ run'[e] = FALSE

\* Such a step is Calm.
Calm ==
  /\ Values' /\ nextSid' = nextSid
  /\ FlowsEvolve /\ QueuesShrink
  /\ \A e \in Ends :
       sess'[e] = "down" => sess[e] = "down" \/ \A i \in Sids : flow'[e][i].live = FALSE
  /\ \A i \in Sids : Ended(flow'["s"][i]) => Ended(flow["s"][i]) \/ Quiet(i)'

\* The sender hands nothing over; what it gives up counts as handed over.
Stays(f, g) ==
  /\ g.outValid = TRUE => f.outValid = TRUE
  /\ g.live = TRUE => f.live = TRUE /\ Handed(g) = Handed(f)
  /\ Handed(g) >= Handed(f) /\ Took(g) >= Took(f)
  /\ g.live = TRUE /\ g.negotiated = TRUE => Took(g) + g.avail = Took(f) + f.avail

\* The receiver, at end d, accepts nothing and takes nothing back.
Follows(d, h, k) ==
  /\ k.outValid = TRUE => h.outValid = TRUE
  /\ Seen(k) <= Seen(h)
  /\ Awaits(k) => /\ Awaits(h) /\ Seen(k) = Seen(h)
                  /\ Limit(d, k) >= Limit(d, h) /\ Announced(d, k) >= Announced(d, h)

\* A WIN that the flow h of end d, now k, may queue.
WinDue(d, r, h, k) ==
  /\ r.n >= 1 /\ k.got # <<>>
  /\ k.outValid = TRUE => Awaits(k) /\ Announced(d, k) >= Announced(d, h) + r.n

\* A step that sends no payload, accepts none and uses no WIN is Mild: what it
\* does to a flow of end e, and to the queues.
Mild(e, f, g) ==
  /\ Steady(e, g) /\ Stays(f, g) /\ Follows(e, f, g)
  /\ g.negotiated = f.negotiated
  /\ g.task \notin {"none", "gone"} => f.task \notin {"none", "gone"}
  /\ f.got # <<>> => g.got # <<>>

CtlMild(e) ==
  \/ ctl'[e] = ctl[e]
  \/ ctl'[e] = <<>>
  \/ \E r \in CtlRecords :
       /\ ctl'[e] = Append(ctl[e], r)
       /\ r.kind = "WIN" => WinDue(e, r, flow[e][r.sid], flow'[e][r.sid])

WireMild(e) ==
  \/ wire'[e] = wire[e]
  \/ /\ wire[e] # <<>> /\ wire'[e] = Tail(wire[e])
     /\ Head(wire[e]).kind = "DATA" => ~Awaits(flow'[Peer(e)][Head(wire[e]).sid])
     /\ Head(wire[e]).kind = "WIN" =>
          ~(flow'[Peer(e)][Head(wire[e]).sid].live = TRUE /\ Counted(Head(wire[e]).sid))

OutMild(e) ==
  \/ out'[e] = out[e] /\ run'[e] = run[e]
  \/ out'[e] = <<>> /\ run'[e] = FALSE
  \/ /\ run'[e] = run[e]
     /\ \E r \in OutRecords :
          /\ out'[e] = Append(out[e], r) /\ r.kind # "DATA"
          /\ r.kind = "OPEN" => r.credit = flow["c"][r.sid].negotiated
          /\ r.kind = "CLOSE" => r.data = <<>>

\* A step that accepts no payload and no FIN is Firm: what it does to a flow.
Firm(f, g) ==
  /\ g.outValid = TRUE => f.outValid = TRUE
  /\ f.up = "done" => g.up = "done" /\ Handed(g) = Handed(f)
  /\ Awaits(g) => Awaits(f) /\ Seen(g) = Seen(f)
  /\ g.live = TRUE /\ g.fin = TRUE => f.live = TRUE /\ f.fin = TRUE
  /\ g.live = TRUE /\ g.down = "done" =>
       g.bytes = 0 \/ (f.live = TRUE /\ f.down = "done" /\ (f.bytes = 0 => g.bytes = 0))

\* A step of the queues that moves no payload of stream i to a receiver that
\* takes it, and no CLOSE.
Lessens(w, w2, o, o2, i, k) ==
  /\ Holds(w2, "CLOSE", i) => Holds(w, "CLOSE", i)
  /\ Holds(o2, "CLOSE", i) => Holds(o, "CLOSE", i)
  /\ Awaits(k) => Datas(w2, i) = Datas(w, i)
  /\ Datas(o2, i) = Datas(o, i) \/ (Datas(o2, i) = {} /\ ~Holds(o2, "CLOSE", i))

\* What such a step does to the queues of end e.
WireFirm(e) ==
  \/ wire'[e] = wire[e]
  \/ /\ wire[e] # <<>> /\ wire'[e] = Tail(wire[e])
     /\ Head(wire[e]).kind = "DATA" => ~Awaits(flow'[Peer(e)][Head(wire[e]).sid])
  \/ \E r \in WireRecords : wire'[e] = Append(wire[e], r) /\ r.kind \notin {"DATA", "CLOSE"}
OutFirm(e) ==
  \/ out'[e] = out[e] \/ out'[e] = <<>>
  \/ \E r \in WireRecords : out'[e] = Append(out[e], r) /\ r.kind \notin {"DATA", "CLOSE"}
=============================================================================
