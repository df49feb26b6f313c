---------------------------- MODULE MuxFlowProofs ----------------------------
(***************************************************************************)
(* Two results about the session of MuxFlow, for any number of streams, any*)
(* windows and lanes, whatever fails.                                      *)
(*                                                                         *)
(* Resets and shutdowns are final (EndsAlwaysFinal).  The difficulty is the*)
(* server's answer to DATA of a stream it does not know: an RST without a  *)
(* Flow behind it, which invalidates nothing.  It is harmless because such *)
(* a stream was refused, was reset, or is legacy: the client's OPEN comes  *)
(* first (OpenFirst), and nothing comes after its CLOSE (CloseLast), so    *)
(* DATA never meets a stream that is not open yet or has ended in order    *)
(* (EndedIsQuiet).                                                         *)
(*                                                                         *)
(* Delivery is in order, the FIN comes after the last byte, both ends agree*)
(* on the mode, and no negotiated window is overrun                        *)
(* (SafeAlwaysUnderFailure).  The difficulty is that the credit for the    *)
(* bytes under way is spread over the sender's allowance, the WINs in a    *)
(* lane and on the wire and the receiver's own counters, any of which a    *)
(* reset may drop.                                                         *)
(*                                                                         *)
(* The first part of the module proves FInv, the second ("Delivery") DInv  *)
(* from it, the third ("The FIN") EInv from both.                          *)
(***************************************************************************)
EXTENDS MuxFlowInvariants, TLAPS

-----------------------------------------------------------------------------
(* Types of the updates of a flow.                                         *)

\* A flow with one field changed is a flow.
LEMMA FieldTypes ==
  ASSUME NEW f \in FlowSet
  PROVE  /\ \A v \in {"none", "opening", "connecting", "bridged", "failed", "gone"} :
              [f EXCEPT !.task = v] \in FlowSet
         /\ \A v \in BOOLEAN : /\ [f EXCEPT !.live = v] \in FlowSet
                               /\ [f EXCEPT !.negotiated = v] \in FlowSet
                               /\ [f EXCEPT !.fin = v] \in FlowSet
                               /\ [f EXCEPT !.cancelled = v] \in FlowSet
                               /\ [f EXCEPT !.outValid = v] \in FlowSet
                               /\ [f EXCEPT !.overrun = v] \in FlowSet
         /\ \A v \in Int : /\ [f EXCEPT !.avail = v] \in FlowSet
                           /\ [f EXCEPT !.bytes = v] \in FlowSet
                           /\ [f EXCEPT !.credit = v] \in FlowSet
                           /\ [f EXCEPT !.read = v] \in FlowSet
                           /\ [f EXCEPT !.pend = v] \in FlowSet
         /\ \A v \in Seq(Int) : /\ [f EXCEPT !.buf = v] \in FlowSet
                                /\ [f EXCEPT !.taken = v] \in FlowSet
                                /\ [f EXCEPT !.writing = v] \in FlowSet
                                /\ [f EXCEPT !.got = v] \in FlowSet
         /\ \A v \in Seq(Seq(Int)) : [f EXCEPT !.rq = v] \in FlowSet
         /\ \A v \in {"run", "eof", "done"} : [f EXCEPT !.up = v] \in FlowSet
         /\ \A v \in {"run", "done"} : [f EXCEPT !.down = v] \in FlowSet
         /\ \A v \in {"none", "due", "raised"} : [f EXCEPT !.pub = v] \in FlowSet
<1>1. ASSUME NEW v \in {"none", "opening", "connecting", "bridged", "failed", "gone"}
       PROVE  [f EXCEPT !.task = v] \in FlowSet
  BY DEF FlowSet
<1>2. ASSUME NEW v \in BOOLEAN
       PROVE  /\ [f EXCEPT !.live = v] \in FlowSet
              /\ [f EXCEPT !.negotiated = v] \in FlowSet
              /\ [f EXCEPT !.fin = v] \in FlowSet
              /\ [f EXCEPT !.cancelled = v] \in FlowSet
              /\ [f EXCEPT !.outValid = v] \in FlowSet
              /\ [f EXCEPT !.overrun = v] \in FlowSet
  BY DEF FlowSet
<1>3. ASSUME NEW v \in Int
       PROVE  /\ [f EXCEPT !.avail = v] \in FlowSet
              /\ [f EXCEPT !.bytes = v] \in FlowSet
              /\ [f EXCEPT !.credit = v] \in FlowSet
              /\ [f EXCEPT !.read = v] \in FlowSet
              /\ [f EXCEPT !.pend = v] \in FlowSet
  BY DEF FlowSet
<1>4. ASSUME NEW v \in Seq(Int)
       PROVE  /\ [f EXCEPT !.buf = v] \in FlowSet
              /\ [f EXCEPT !.taken = v] \in FlowSet
              /\ [f EXCEPT !.writing = v] \in FlowSet
              /\ [f EXCEPT !.got = v] \in FlowSet
  BY DEF FlowSet
<1>5. ASSUME NEW v \in Seq(Seq(Int))
       PROVE  [f EXCEPT !.rq = v] \in FlowSet
  BY DEF FlowSet
<1>6. ASSUME NEW v \in {"run", "eof", "done"}
       PROVE  [f EXCEPT !.up = v] \in FlowSet
  BY DEF FlowSet
<1>7. ASSUME NEW v \in {"run", "done"}
       PROVE  [f EXCEPT !.down = v] \in FlowSet
  BY DEF FlowSet
<1>8. ASSUME NEW v \in {"none", "due", "raised"}
       PROVE  [f EXCEPT !.pub = v] \in FlowSet
  BY DEF FlowSet
<1> QED
  BY <1>1, <1>2, <1>3, <1>4, <1>5, <1>6, <1>7, <1>8


\* A new flow (allocate).
NewTasks == {"opening", "connecting"}

\* The fields of a new flow that the invariant speaks of.
LEMMA NewFlowTyped ==
  ASSUME NEW e \in Ends, NEW n \in BOOLEAN, NEW t \in NewTasks
  PROVE  /\ NoFlow \in FlowSet
         /\ NewFlow(e, t, n) \in FlowSet
         /\ NewFlow(e, t, n).task = t /\ NewFlow(e, t, n).live = TRUE
         /\ NewFlow(e, t, n).negotiated = n /\ NewFlow(e, t, n).outValid = TRUE
         /\ NewFlow(e, t, n).fin = FALSE /\ NewFlow(e, t, n).cancelled = FALSE
         /\ NewFlow(e, t, n).up = "run" /\ NewFlow(e, t, n).down = "run"
<1>0. NoFlow \in FlowSet
  BY DEF NoFlow, FlowSet
<1>1. Peer(e) \in Ends /\ Window[e] \in Int /\ Window[Peer(e)] \in Int
  BY ConstantsAssumption DEF Peer, Ends
<1>2. PICK w \in Int : w = IF n THEN Window[Peer(e)] ELSE 0
  BY <1>1
<1>3. PICK a : a = [NoFlow EXCEPT !.task = t]
  OBVIOUS
<1>4. PICK b : b = [a EXCEPT !.live = TRUE]
  OBVIOUS
<1>5. PICK c : c = [b EXCEPT !.negotiated = n]
  OBVIOUS
<1>6. PICK d : d = [c EXCEPT !.avail = w]
  OBVIOUS
<1>7. a \in FlowSet
  BY <1>0, <1>3, FieldTypes DEF NewTasks
<1>8. b \in FlowSet
  BY <1>4, <1>7, FieldTypes
<1>9. c \in FlowSet
  BY <1>5, <1>8, FieldTypes
<1>10. d \in FlowSet
  BY <1>6, <1>9, FieldTypes
<1>11. [d EXCEPT !.credit = Window[e]] \in FlowSet
  BY <1>1, <1>10, FieldTypes
<1>12. NewFlow(e, t, n) = [d EXCEPT !.credit = Window[e]]
  BY <1>2, <1>3, <1>4, <1>5, <1>6 DEF NewFlow
<1>13. NewFlow(e, t, n) \in FlowSet
  BY <1>11, <1>12
<1>14. /\ NewFlow(e, t, n).task = t /\ NewFlow(e, t, n).live = TRUE
       /\ NewFlow(e, t, n).negotiated = n /\ NewFlow(e, t, n).outValid = TRUE
       /\ NewFlow(e, t, n).fin = FALSE /\ NewFlow(e, t, n).cancelled = FALSE
       /\ NewFlow(e, t, n).up = "run" /\ NewFlow(e, t, n).down = "run"
  BY DEF NewFlow, NoFlow
<1> QED
  BY <1>0, <1>13, <1>14

\* cancel: what it leaves alone, and what it takes.
LEMMA CancelTyped ==
  ASSUME NEW f \in FlowSet, NEW p \in BOOLEAN
  PROVE  /\ Cancel(f, p) \in FlowSet
         /\ Cancel(f, p).task = f.task /\ Cancel(f, p).live = f.live
         /\ Cancel(f, p).negotiated = f.negotiated /\ Cancel(f, p).fin = f.fin
         /\ Cancel(f, p).up = f.up /\ Cancel(f, p).down = f.down
         /\ Cancel(f, p).buf = f.buf /\ Cancel(f, p).taken = f.taken
         /\ Cancel(f, p).cancelled = TRUE
         /\ Cancel(f, p).outValid = (f.outValid /\ p)
<1>1. (f.outValid /\ p) \in BOOLEAN
  OBVIOUS
<1>2. PICK a : a = [f EXCEPT !.outValid = @ /\ p]
  OBVIOUS
<1>3. PICK b : b = [a EXCEPT !.cancelled = TRUE]
  OBVIOUS
<1>4. a \in FlowSet
  BY <1>1, <1>2, FieldTypes, Zenon
<1>5. b \in FlowSet
  BY <1>3, <1>4, FieldTypes
<1>6. [b EXCEPT !.rq = <<>>] \in FlowSet
  <2>1. <<>> \in Seq(Seq(Int))
    OBVIOUS
  <2> QED
    BY <1>5, <2>1, FieldTypes, Zenon
<1>7. Cancel(f, p) = [b EXCEPT !.rq = <<>>]
  BY <1>2, <1>3, Zenon DEF Cancel
<1> QED
  BY <1>1, <1>2, <1>3, <1>4, <1>5, <1>6, <1>7 DEF FlowSet

\* finish removes a flow of the table and cancels it; it leaves any other alone.
LEMMA FinishTyped ==
  ASSUME NEW f \in FlowSet, NEW p \in BOOLEAN
  PROVE  /\ Finish(f, p) \in FlowSet
         /\ Finish(f, p).task = f.task /\ Finish(f, p).live = FALSE
         /\ Finish(f, p).negotiated = f.negotiated /\ Finish(f, p).fin = f.fin
         /\ Finish(f, p).up = f.up /\ Finish(f, p).down = f.down
         /\ Finish(f, p).buf = f.buf /\ Finish(f, p).taken = f.taken
         /\ f.live = FALSE => Finish(f, p) = f
         /\ f.live = TRUE => Finish(f, p).outValid = (f.outValid /\ p)
<1>1. CASE f.live = FALSE
  BY <1>1 DEF Finish
<1>2. CASE f.live = TRUE
  <2>1. PICK c \in FlowSet : c = Cancel(f, p)
    BY CancelTyped
  <2>2. Finish(f, p) = [c EXCEPT !.live = FALSE]
    BY <1>2, <2>1 DEF Finish
  <2>3. Finish(f, p) \in FlowSet
    BY <2>1, <2>2, FieldTypes
  <2>4. /\ c.task = f.task /\ c.negotiated = f.negotiated /\ c.fin = f.fin
        /\ c.up = f.up /\ c.down = f.down /\ c.buf = f.buf /\ c.taken = f.taken
        /\ c.outValid = (f.outValid /\ p)
    BY <2>1, CancelTyped
  <2> QED
    BY <1>2, <2>1, <2>2, <2>3, <2>4 DEF FlowSet
<1> QED
  BY <1>1, <1>2 DEF FlowSet

\* The task returns.
LEMMA GoneTyped ==
  ASSUME NEW f \in FlowSet
  PROVE  /\ Gone(f) \in FlowSet
         /\ Gone(f).task = "gone" /\ Gone(f).live = FALSE
         /\ Gone(f).negotiated = f.negotiated /\ Gone(f).fin = FALSE
         /\ Gone(f).outValid = f.outValid /\ Gone(f).up = f.up
         /\ Gone(f).buf = <<>> /\ Gone(f).taken = <<>> /\ Gone(f).down = "run"
<1>0. NoFlow \in FlowSet
  BY DEF NoFlow, FlowSet
<1>1. PICK a : a = [NoFlow EXCEPT !.task = "gone"]
  OBVIOUS
<1>2. PICK b : b = [a EXCEPT !.negotiated = f.negotiated]
  OBVIOUS
<1>3. PICK c : c = [b EXCEPT !.cancelled = f.cancelled]
  OBVIOUS
<1>4. PICK d : d = [c EXCEPT !.outValid = f.outValid]
  OBVIOUS
<1>5. PICK g : g = [d EXCEPT !.read = f.read]
  OBVIOUS
<1>6. PICK h : h = [g EXCEPT !.up = f.up]
  OBVIOUS
<1>7. PICK k : k = [h EXCEPT !.got = f.got]
  OBVIOUS
<1>f. /\ f.negotiated \in BOOLEAN /\ f.cancelled \in BOOLEAN /\ f.outValid \in BOOLEAN
      /\ f.overrun \in BOOLEAN /\ f.read \in Int /\ f.up \in {"run", "eof", "done"}
      /\ f.got \in Seq(Int)
  BY DEF FlowSet
<1>8. a \in FlowSet
  BY <1>0, <1>1, FieldTypes
<1>9. b \in FlowSet
  BY <1>2, <1>8, <1>f, FieldTypes
<1>10. c \in FlowSet
  BY <1>3, <1>9, <1>f, FieldTypes
<1>11. d \in FlowSet
  BY <1>4, <1>10, <1>f, FieldTypes
<1>12. g \in FlowSet
  BY <1>5, <1>11, <1>f, FieldTypes
<1>13. h \in FlowSet
  BY <1>6, <1>12, <1>f, FieldTypes
<1>14. k \in FlowSet
  BY <1>7, <1>13, <1>f, FieldTypes
<1>15. [k EXCEPT !.overrun = f.overrun] \in FlowSet
  BY <1>14, <1>f, FieldTypes
<1>16. Gone(f) = [k EXCEPT !.overrun = f.overrun]
  BY <1>1, <1>2, <1>3, <1>4, <1>5, <1>6, <1>7 DEF Gone
<1>17. Gone(f) \in FlowSet
  BY <1>15, <1>16
<1>18. /\ Gone(f).task = "gone" /\ Gone(f).live = FALSE
       /\ Gone(f).negotiated = f.negotiated /\ Gone(f).fin = FALSE
       /\ Gone(f).outValid = f.outValid /\ Gone(f).up = f.up
       /\ Gone(f).buf = <<>> /\ Gone(f).taken = <<>> /\ Gone(f).down = "run"
  BY DEF Gone, NoFlow
<1> QED
  BY <1>17, <1>18

-----------------------------------------------------------------------------
(* Queues.                                                                 *)

\* A record r queued behind q.
AppendOrder(q, r) ==
  LET t == Append(q, r) IN
  /\ \A kind, i : Holds(t, kind, i) <=> Holds(q, kind, i) \/ (r.kind = kind /\ r.sid = i)
  /\ Single(q) /\ (r.kind = "OPEN" => ~Holds(q, "OPEN", r.sid)) => Single(t)
  /\ Closed(q) /\ (r.kind = "DATA" => ~Holds(q, "CLOSE", r.sid)) => Closed(t)
  /\ \A i : After(q, i) /\ (r.sid = i /\ r.kind \in {"DATA", "CLOSE"} => Holds(q, "OPEN", i))
              => After(t, i)

\* Queueing a record keeps the order of q, if the record itself is in order.
LEMMA AppendFacts ==
  ASSUME NEW S, NEW q \in Seq(S), NEW r \in S
  PROVE  AppendOrder(q, r)
<1> DEFINE t == Append(q, r)
<1>1. /\ Len(t) = Len(q) + 1 /\ Len(q) \in Nat /\ t[Len(q) + 1] = r
      /\ \A k \in 1..Len(q) : t[k] = q[k]
  OBVIOUS
<1> HIDE DEF t
<1>2. \A kind, i : Holds(t, kind, i) <=> Holds(q, kind, i) \/ (r.kind = kind /\ r.sid = i)
  BY <1>1 DEF Holds, Is
<1>3. Single(q) /\ (r.kind = "OPEN" => ~Holds(q, "OPEN", r.sid)) => Single(t)
  BY <1>1 DEF Holds, Is, Single
<1>4. Closed(q) /\ (r.kind = "DATA" => ~Holds(q, "CLOSE", r.sid)) => Closed(t)
  BY <1>1 DEF Holds, Is, Closed
<1>5. \A i : After(q, i) /\ (r.sid = i /\ r.kind \in {"DATA", "CLOSE"} => Holds(q, "OPEN", i))
               => After(t, i)
  BY <1>1 DEF Holds, Is, After
<1> QED
  BY <1>2, <1>3, <1>4, <1>5 DEF t, AppendOrder

\* The first record of q is taken.
TailOrder(q) ==
  LET t == Tail(q) h == Head(q) IN
  /\ Holds(q, h.kind, h.sid)
  /\ \A kind, i : Holds(t, kind, i) => Holds(q, kind, i)
  /\ \A kind, i : Holds(q, kind, i) => Holds(t, kind, i) \/ (h.kind = kind /\ h.sid = i)
  /\ Single(q) => Single(t) /\ (h.kind = "OPEN" /\ h.sid \in Sids => ~Holds(t, "OPEN", h.sid))
  /\ Closed(q) => Closed(t) /\ (h.kind = "CLOSE" /\ h.sid \in Sids => ~Holds(t, "DATA", h.sid))
  /\ \A i : After(q, i) => ~(h.sid = i /\ h.kind \in {"DATA", "CLOSE"})
  /\ \A i : After(q, i) /\ ~(h.sid = i /\ h.kind = "OPEN") => After(t, i)

\* Taking the first record keeps the order of what is left.
LEMMA TailFacts ==
  ASSUME NEW S, NEW q \in Seq(S), q # <<>>
  PROVE  TailOrder(q)
<1> DEFINE t == Tail(q) h == Head(q)
<1>1. /\ Len(q) \in Nat /\ Len(q) >= 1 /\ Len(t) = Len(q) - 1 /\ h = q[1] /\ h \in S /\ t \in Seq(S)
      /\ \A k \in 1..Len(t) : t[k] = q[k + 1]
  OBVIOUS
<1>2. \A k \in 1..Len(q) : k = 1 \/ (k - 1 \in 1..Len(t) /\ q[k] = t[k - 1])
  BY <1>1
<1> HIDE DEF t, h
<1>3. /\ Holds(q, h.kind, h.sid)
      /\ \A kind, i : Holds(t, kind, i) => Holds(q, kind, i)
      /\ \A kind, i : Holds(q, kind, i) => Holds(t, kind, i) \/ (h.kind = kind /\ h.sid = i)
  BY <1>1, <1>2 DEF Holds, Is
<1>4. Single(q) => Single(t) /\ (h.kind = "OPEN" /\ h.sid \in Sids => ~Holds(t, "OPEN", h.sid))
  BY <1>1, <1>2, SMTT(30) DEF Holds, Is, Single
<1>5. Closed(q) => Closed(t) /\ (h.kind = "CLOSE" /\ h.sid \in Sids => ~Holds(t, "DATA", h.sid))
  BY <1>1, <1>2 DEF Holds, Is, Closed
<1>6. \A i : After(q, i) => ~(h.sid = i /\ h.kind \in {"DATA", "CLOSE"})
  BY <1>1, <1>2 DEF Is, After
<1>7. ASSUME NEW i, After(q, i), ~(h.sid = i /\ h.kind = "OPEN")
      PROVE  After(t, i)
  <2> SUFFICES ASSUME NEW k \in 1..Len(t), Is(t, k, "DATA", i) \/ Is(t, k, "CLOSE", i)
               PROVE  \E j \in 1..Len(t) : j < k /\ Is(t, j, "OPEN", i)
    BY DEF After
  <2>1. k + 1 \in 1..Len(q) /\ (Is(q, k + 1, "DATA", i) \/ Is(q, k + 1, "CLOSE", i))
    BY <1>1 DEF Is
  <2>2. PICK j \in 1..Len(q) : j < k + 1 /\ Is(q, j, "OPEN", i)
    BY <1>7, <2>1 DEF After
  <2>3. j # 1
    BY <1>1, <1>7, <2>2 DEF Is
  <2>4. j - 1 \in 1..Len(t) /\ j - 1 < k /\ Is(t, j - 1, "OPEN", i)
    BY <1>1, <1>2, <2>2, <2>3 DEF Is
  <2> QED
    BY <2>4
<1> QED
  BY <1>3, <1>4, <1>5, <1>6, <1>7 DEF t, h, TailOrder

\* Nothing is queued.
LEMMA EmptyFacts ==
  /\ \A kind, i : ~Holds(<<>>, kind, i)
  /\ Single(<<>>) /\ Closed(<<>>)
  /\ \A i : After(<<>>, i)
  BY DEF Holds, Single, Closed, After

-----------------------------------------------------------------------------
(* Steps that open nothing and send nothing.                               *)

\* A dead stream stays dead.
LEMMA DeadStays ==
  ASSUME NEW f \in FlowSet, NEW g \in FlowSet, Evolves(f, g), Dead(f)
  PROVE  Dead(g)
  BY DEF Evolves, Dead, FlowSet

\* What the writer has sent or will send belongs to a stream.
LEMMA SidOfReset ==
  ASSUME NEW r \in WireRecords, r.kind # "CAP"
  PROVE  r.sid \in Sids
  BY DEF WireRecords, OutRecords, CtlRecords, RecordsOf

\* A calm step sends an RST only for a dead stream, and revives none.
LEMMA CalmResets ==
  ASSUME FInv, Calm
  PROVE  ResetsAreDead'
<1> SUFFICES ASSUME NEW e \in Ends
             PROVE  /\ \A k \in 1..Len(ctl'[e]) :
                         ctl'[e][k].kind = "RST" => Dead(flow'[e][ctl'[e][k].sid])
                    /\ \A k \in 1..Len(wire'[e]) :
                         wire'[e][k].kind = "RST" => Dead(flow'[e][wire'[e][k].sid])
  BY DEF ResetsAreDead
<1>1. /\ ctl[e] \in Seq(CtlRecords) /\ wire[e] \in Seq(WireRecords)
      /\ \A i \in Sids : flow[e][i] \in FlowSet /\ flow'[e][i] \in FlowSet
  BY DEF FInv, Calm, Values
<1>2. \A i \in Sids : Dead(flow[e][i]) => Dead(flow'[e][i])
  BY <1>1, DeadStays DEF Calm, FlowsEvolve
<1>3. \A k \in 1..Len(ctl[e]) : ctl[e][k].kind = "RST" => Dead(flow'[e][ctl[e][k].sid])
  <2> SUFFICES ASSUME NEW k \in 1..Len(ctl[e]), ctl[e][k].kind = "RST"
               PROVE  Dead(flow'[e][ctl[e][k].sid])
    OBVIOUS
  <2>1. ctl[e][k] \in WireRecords
    BY <1>1 DEF WireRecords
  <2>2. ctl[e][k].sid \in Sids
    BY <2>1, SidOfReset
  <2>3. Dead(flow[e][ctl[e][k].sid])
    BY DEF FInv, ResetsAreDead
  <2> QED
    BY <1>2, <2>2, <2>3
<1>4. \A k \in 1..Len(wire[e]) : wire[e][k].kind = "RST" => Dead(flow'[e][wire[e][k].sid])
  <2> SUFFICES ASSUME NEW k \in 1..Len(wire[e]), wire[e][k].kind = "RST"
               PROVE  Dead(flow'[e][wire[e][k].sid])
    OBVIOUS
  <2>2. wire[e][k].sid \in Sids
    BY <1>1, SidOfReset
  <2>3. Dead(flow[e][wire[e][k].sid])
    BY DEF FInv, ResetsAreDead
  <2> QED
    BY <1>2, <2>2, <2>3
<1>5. \A k \in 1..Len(ctl'[e]) : ctl'[e][k].kind = "RST" => Dead(flow'[e][ctl'[e][k].sid])
  <2>1. CASE ctl'[e] = ctl[e]
    BY <1>3, <2>1
  <2>2. CASE ctl'[e] = <<>>
    BY <2>2
  <2>3. ASSUME NEW r \in CtlRecords, ctl'[e] = Append(ctl[e], r), r.kind = "RST" => Dead(flow'[e][r.sid])
        PROVE  \A k \in 1..Len(ctl'[e]) : ctl'[e][k].kind = "RST" => Dead(flow'[e][ctl'[e][k].sid])
    <3>1. /\ Len(ctl'[e]) = Len(ctl[e]) + 1 /\ Len(ctl[e]) \in Nat /\ ctl'[e][Len(ctl[e]) + 1] = r
          /\ \A k \in 1..Len(ctl[e]) : ctl'[e][k] = ctl[e][k]
      BY <1>1, <2>3
    <3> QED
      BY <1>3, <2>3, <3>1
  <2> QED
    BY <2>1, <2>2, <2>3 DEF Calm, QueuesShrink
<1>6. \A k \in 1..Len(wire'[e]) : wire'[e][k].kind = "RST" => Dead(flow'[e][wire'[e][k].sid])
  <2>1. CASE wire'[e] = wire[e]
    BY <1>4, <2>1
  <2>2. CASE wire[e] # <<>> /\ wire'[e] = Tail(wire[e])
    <3>1. /\ Len(wire'[e]) = Len(wire[e]) - 1 /\ Len(wire[e]) \in Nat
          /\ \A k \in 1..Len(wire'[e]) : wire'[e][k] = wire[e][k + 1]
      BY <1>1, <2>2
    <3> QED
      BY <1>4, <3>1
  <2> QED
    BY <2>1, <2>2 DEF Calm, QueuesShrink
<1> QED
  BY <1>5, <1>6

\* The client's queues of a calm step.
LEMMA CalmQueues ==
  ASSUME FInv, Calm
  PROVE  /\ \A kind, i : Holds(wire'["c"], kind, i) => Holds(wire["c"], kind, i)
         /\ \A i : Holds(wire["c"], "OPEN", i) => Holds(wire'["c"], "OPEN", i)
         /\ Single(wire["c"]) => Single(wire'["c"])
         /\ Closed(wire["c"]) => Closed(wire'["c"])
         /\ \A i : After(wire["c"], i) => After(wire'["c"], i)
         /\ \A kind, i : Holds(out'["c"], kind, i) => Holds(out["c"], kind, i)
         /\ run'["c"] = TRUE => run["c"] = TRUE /\ out'["c"] = out["c"]
         /\ Single(out["c"]) => Single(out'["c"])
         /\ Closed(out["c"]) => Closed(out'["c"])
         /\ \A i : After(out["c"], i) => After(out'["c"], i)
<1>1. "c" \in Ends /\ wire["c"] \in Seq(WireRecords) /\ out["c"] \in Seq(OutRecords)
  BY DEF FInv, Values, Ends
<1>2. \/ wire'["c"] = wire["c"]
      \/ wire["c"] # <<>> /\ wire'["c"] = Tail(wire["c"]) /\ Head(wire["c"]).kind # "OPEN"
  BY <1>1 DEF Calm, QueuesShrink
<1>3. \/ out'["c"] = out["c"] /\ run'["c"] = run["c"]
      \/ out'["c"] = <<>> /\ run'["c"] = FALSE
  BY <1>1 DEF Calm, QueuesShrink
<1>4. /\ \A kind, i : Holds(wire'["c"], kind, i) => Holds(wire["c"], kind, i)
      /\ \A i : Holds(wire["c"], "OPEN", i) => Holds(wire'["c"], "OPEN", i)
      /\ Single(wire["c"]) => Single(wire'["c"])
      /\ Closed(wire["c"]) => Closed(wire'["c"])
      /\ \A i : After(wire["c"], i) => After(wire'["c"], i)
  BY <1>1, <1>2, TailFacts DEF TailOrder
<1>5. /\ \A kind, i : Holds(out'["c"], kind, i) => Holds(out["c"], kind, i)
      /\ Single(out["c"]) => Single(out'["c"])
      /\ Closed(out["c"]) => Closed(out'["c"])
      /\ \A i : After(out["c"], i) => After(out'["c"], i)
  BY <1>3, EmptyFacts
<1>6. run'["c"] = TRUE => run["c"] = TRUE /\ out'["c"] = out["c"]
  BY <1>3
<1> QED
  BY <1>4, <1>5, <1>6

\* A calm step leaves the order of the client's records.
LEMMA CalmOrder ==
  ASSUME FInv, Calm
  PROVE  OpenOnce' /\ OpenFirst' /\ CloseLast' /\ EndedIsQuiet'
<1>1. \A i \in Sids :
        /\ Evolves(flow["c"][i], flow'["c"][i]) /\ Evolves(flow["s"][i], flow'["s"][i])
        /\ flow'["c"][i].task = "bridged" => flow["c"][i].task = "bridged"
  BY DEF Calm, FlowsEvolve, Ends
<1>2. OpenOnce'
  BY <1>1, CalmQueues DEF FInv, OpenOnce, Unopened, Evolves
<1>3. OpenFirst'
  BY <1>1, CalmQueues DEF FInv, OpenFirst, Unopened, Evolves
<1>4. CloseLast'
  BY <1>1, CalmQueues DEF FInv, CloseLast, Evolves
<1>5. EndedIsQuiet'
  BY <1>1, CalmQueues DEF FInv, Calm, EndedIsQuiet, Quiet, Evolves
<1> QED
  BY <1>2, <1>3, <1>4, <1>5

\* The stream of an RST that is on the wire stays dead, and a step that sends
\* nothing puts nothing behind it.
LEMMA CalmEnds ==
  ASSUME FInv, Calm
  PROVE  FlowsSound' /\ ResetIsLast' /\ NoStreamAfterShutdown'
<1>1. FlowsSound'
  BY DEF FInv, Calm, FlowsSound, FlowsEvolve, Evolves, Ends
<1>2. NoStreamAfterShutdown'
  <2>1. \A e \in Ends, i \in Sids : flow'[e][i].live \in BOOLEAN
    <3>1. \A e \in Ends, i \in Sids : flow'[e][i] \in FlowSet
      BY DEF Calm, Values
    <3> QED
      BY <3>1 DEF FlowSet
  <2> SUFFICES ASSUME NEW e \in Ends, sess'[e] = "down", NEW i \in Sids
               PROVE  flow'[e][i].live = FALSE
    BY <2>1 DEF NoStreamAfterShutdown, Live
  <2>2. CASE \A h \in Sids : flow'[e][h].live = FALSE
    BY <2>2
  <2>3. CASE sess[e] = "down"
    <3>1. flow[e][i].live # TRUE
      BY <2>3 DEF FInv, NoStreamAfterShutdown, Live
    <3>2. flow'[e][i].live = TRUE => flow[e][i].live = TRUE
      BY DEF Calm, FlowsEvolve, Evolves
    <3> QED
      BY <2>1, <3>1, <3>2
  <2> QED
    BY <2>2, <2>3 DEF Calm
<1>3. ResetIsLast'
  <2> SUFFICES ASSUME NEW e \in Ends, NEW j \in DOMAIN wire'[e], NEW k \in DOMAIN wire'[e],
                      j < k, wire'[e][j].kind = "RST", wire'[e][k].kind # "RST",
                      wire'[e][k].sid = wire'[e][j].sid
               PROVE  ~flow'[e][wire'[e][j].sid].negotiated
    BY DEF ResetIsLast
  <2>1. wire[e] \in Seq(WireRecords) /\ wire'[e] \in Seq(WireRecords)
    BY DEF FInv, Calm, Values
  <2>2. PICK d \in {0, 1} : /\ j + d \in DOMAIN wire[e] /\ wire[e][j + d] = wire'[e][j]
                            /\ k + d \in DOMAIN wire[e] /\ wire[e][k + d] = wire'[e][k]
    <3>1. CASE wire'[e] = wire[e]
      BY <2>1, <3>1
    <3>2. CASE wire[e] # <<>> /\ wire'[e] = Tail(wire[e])
      BY <2>1, <3>2
    <3> QED
      BY <3>1, <3>2 DEF Calm, QueuesShrink
  <2>3. j + d < k + d
    BY <2>1
  <2>4. ~flow[e][wire[e][j + d].sid].negotiated
    BY <2>2, <2>3 DEF FInv, ResetIsLast
  <2>5. wire'[e][j].sid \in Sids
    BY <2>1, SidOfReset
  <2>6. flow'[e][wire'[e][j].sid].negotiated = flow[e][wire'[e][j].sid].negotiated
    BY <2>5 DEF Calm, FlowsEvolve, Evolves
  <2> QED
    BY <2>2, <2>4, <2>6
<1> QED
  BY <1>1, <1>2, <1>3

\* A calm step keeps the invariant.
LEMMA CalmKeeps ==
  ASSUME FInv, Calm
  PROVE  FInv'
<1>1. Values'
  BY DEF Calm
<1> QED
  BY <1>1, CalmResets, CalmOrder, CalmEnds DEF FInv

-----------------------------------------------------------------------------
(* The flow of one stream changes.                                         *)

\* Every flow has its type and is sound.
LEMMA FlowFacts ==
  ASSUME FInv, NEW e \in Ends, NEW i \in Sids
  PROVE  flow[e][i] \in FlowSet /\ Sound(flow[e][i])
  BY DEF FInv, Values, FlowsSound

\* Removing a flow from the table invalidates its output.
LEMMA FinishEvolves ==
  ASSUME NEW f \in FlowSet, Sound(f)
  PROVE  /\ Evolves(f, Finish(f, FALSE))
         /\ f.live = TRUE => Finish(f, FALSE).outValid = FALSE
<1>1. f.live = TRUE => Finish(f, FALSE).outValid = FALSE
  BY FinishTyped DEF FlowSet
<1>2. CASE f.live = FALSE
  BY <1>2, FinishTyped DEF Evolves
<1>3. CASE f.live = TRUE
  <2>1. PICK g \in FlowSet : g = Finish(f, FALSE)
    BY FinishTyped
  <2>2. /\ g.task = f.task /\ g.live = FALSE /\ g.negotiated = f.negotiated /\ g.fin = f.fin
        /\ g.up = f.up /\ g.down = f.down /\ g.buf = f.buf /\ g.taken = f.taken
        /\ g.outValid = FALSE
    BY <1>1, <1>3, <2>1, FinishTyped
  <2>3. Sound(g) /\ f.task # "none"
    BY <1>3, <2>2 DEF Sound
  <2> QED
    BY <2>1, <2>2, <2>3 DEF Evolves
<1> QED
  BY <1>1, <1>2, <1>3 DEF FlowSet

\* A task that ends leaves a flow without output, unless it preserved it.
LEMMA GoneEvolves ==
  ASSUME NEW f \in FlowSet, Sound(f), f.task \notin {"none", "gone"}, NEW p \in BOOLEAN
  PROVE  LET g == Gone(Finish(f, p)) IN
         /\ g \in FlowSet /\ Evolves(f, g) /\ g.task = "gone" /\ g.fin = FALSE
         /\ g.negotiated = f.negotiated
         /\ g.outValid = TRUE => f.live = TRUE /\ p = TRUE
<1>1. PICK h \in FlowSet : h = Finish(f, p)
  BY FinishTyped
<1>2. /\ h.task = f.task /\ h.live = FALSE /\ h.negotiated = f.negotiated /\ h.fin = f.fin
      /\ h.up = f.up /\ h.down = f.down /\ h.buf = f.buf /\ h.taken = f.taken
      /\ f.live = FALSE => h.outValid = f.outValid
      /\ f.live = TRUE => h.outValid = (f.outValid /\ p)
  BY <1>1, FinishTyped
<1>3. /\ h.outValid = TRUE => f.outValid = TRUE
      /\ h.outValid = TRUE => f.live = TRUE /\ p = TRUE
  <2>1. CASE f.live = FALSE
    BY <1>2, <2>1 DEF Sound
  <2>2. CASE f.live = TRUE
    BY <1>2, <2>2
  <2> QED
    BY <2>1, <2>2 DEF FlowSet
<1>4. PICK g \in FlowSet : g = Gone(h)
  BY GoneTyped
<1>5. /\ g.task = "gone" /\ g.live = FALSE /\ g.negotiated = h.negotiated /\ g.fin = FALSE
      /\ g.outValid = h.outValid /\ g.up = h.up /\ g.buf = <<>> /\ g.taken = <<>> /\ g.down = "run"
  BY <1>4, GoneTyped
<1>6. Sound(g)
  BY <1>5 DEF Sound
<1>7. Evolves(f, g)
  BY <1>2, <1>3, <1>5, <1>6 DEF Evolves
<1> QED
  BY <1>1, <1>2, <1>3, <1>4, <1>5, <1>7

\* Stream i of e becomes g; a client's stream is bridged by SendOpen only.
Becomes(e, i, g) ==
  /\ g \in FlowSet
  /\ flow' = [flow EXCEPT ![e][i] = g]
  /\ Evolves(flow[e][i], g)
  /\ e = "c" /\ g.task = "bridged" => flow[e][i].task = "bridged"

\* All other flows stay as they are.
LEMMA OneFlow ==
  ASSUME FInv, NEW e \in Ends, NEW i \in Sids, NEW g, Becomes(e, i, g)
  PROVE  /\ flow' \in [Ends -> [Sids -> FlowSet]]
         /\ FlowsEvolve
         /\ flow'[e][i] = g
         /\ \A d \in Ends, k \in Sids : ~(d = e /\ k = i) => flow'[d][k] = flow[d][k]
<1> USE DEF Becomes
<1>1. flow \in [Ends -> [Sids -> FlowSet]]
  BY DEF FInv, Values
<1>2. /\ flow' \in [Ends -> [Sids -> FlowSet]]
      /\ flow'[e][i] = g
      /\ \A d \in Ends, k \in Sids : ~(d = e /\ k = i) => flow'[d][k] = flow[d][k]
  BY <1>1
<1>3. \A d \in Ends, k \in Sids : Evolves(flow[d][k], flow[d][k])
  BY DEF FInv, FlowsSound, Evolves
<1>4. \A d \in Ends, k \in Sids : Evolves(flow[d][k], flow'[d][k])
  BY <1>2, <1>3
<1>5. \A k \in Sids : flow'["c"][k].task = "bridged" => flow["c"][k].task = "bridged"
  BY <1>2 DEF Ends
<1> QED
  BY <1>2, <1>4, <1>5 DEF FlowsEvolve

\* A task may queue a WIN, or the RST of its dead stream, or start the shutdown.
TaskQueues(e, i, g) ==
  /\ sess' = sess \/ sess' = Closing(e)
  /\ \/ ctl' = ctl
     \/ \E r \in CtlRecords : /\ ctl' = [ctl EXCEPT ![e] = Append(@, r)]
                              /\ r.kind = "RST" => r.sid = i /\ Dead(g)

\* A task changes its flow, without seeing a FIN it had not seen.
LEMMA LocalStep ==
  ASSUME FInv, NEW e \in Ends, NEW i \in Sids, NEW g, Becomes(e, i, g),
         e = "s" /\ Ended(g) => Ended(flow[e][i]),
         TaskQueues(e, i, g),
         UNCHANGED <<run, neg, nextSid, out, wire>>
  PROVE  FInv'
<1>1. /\ flow' \in [Ends -> [Sids -> FlowSet]] /\ FlowsEvolve /\ flow'[e][i] = g
      /\ \A d \in Ends, k \in Sids : ~(d = e /\ k = i) => flow'[d][k] = flow[d][k]
  BY OneFlow
<1>0. Values
  BY DEF FInv
<1>2. sess' \in [Ends -> {"up", "closing", "down"}] /\ \A d \in Ends : sess'[d] = "down" => sess[d] = "down"
  <2>1. sess \in [Ends -> {"up", "closing", "down"}]
    BY <1>0 DEF Values
  <2>2. CASE sess' = sess
    BY <2>1, <2>2
  <2>3. CASE sess' = [sess EXCEPT ![e] = IF @ = "up" THEN "closing" ELSE @]
    BY <2>1, <2>3
  <2> QED
    BY <2>2, <2>3 DEF Closing, TaskQueues
<1>3. /\ ctl' \in [Ends -> Seq(CtlRecords)]
      /\ \A d \in Ends :
           \/ ctl'[d] = ctl[d]
           \/ \E r \in CtlRecords :
                 ctl'[d] = Append(ctl[d], r) /\ (r.kind = "RST" => Dead(flow'[d][r.sid]))
  <2>1. ctl \in [Ends -> Seq(CtlRecords)]
    BY <1>0 DEF Values
  <2>2. CASE ctl' = ctl
    BY <2>1, <2>2
  <2>3. ASSUME NEW r \in CtlRecords, ctl' = [ctl EXCEPT ![e] = Append(@, r)],
               r.kind = "RST" => r.sid = i /\ Dead(g)
        PROVE  /\ ctl' \in [Ends -> Seq(CtlRecords)]
               /\ ctl'[e] = Append(ctl[e], r) /\ (r.kind = "RST" => Dead(flow'[e][r.sid]))
               /\ \A d \in Ends : d # e => ctl'[d] = ctl[d]
    BY <1>1, <2>1, <2>3
  <2> QED
    BY <2>2, <2>3 DEF TaskQueues
<1>4. Values'
  BY <1>0, <1>1, <1>2, <1>3 DEF Values
<1>5. QueuesShrink
  BY <1>3 DEF QueuesShrink
<1>6. \A k \in Sids : Ended(flow'["s"][k]) => Ended(flow["s"][k])
  BY <1>1 DEF Ends
<1>7. Calm
  BY <1>1, <1>2, <1>4, <1>5, <1>6 DEF Calm
<1> QED
  BY <1>7, CalmKeeps

-----------------------------------------------------------------------------
(* The steps of the tasks.                                                 *)

\* The uplink reads, or takes allowance.
LEMMA UplinkKeeps ==
  ASSUME FInv, NEW e \in Ends, NEW i \in Sids,
         \/ \E n \in 1..MaxChunk : ReadSocket(e, i, n)
         \/ ReadEof(e, i) \/ TakeCredit(e, i)
  PROVE  FInv'
<1> DEFINE f == flow[e][i]
<1>f. f \in FlowSet /\ Sound(f)
  BY FlowFacts
<1>t. /\ f.avail \in Int /\ f.read \in Int /\ f.buf \in Seq(Int) /\ f.taken \in Seq(Int)
  BY <1>f DEF FlowSet
<1> HIDE DEF f
<1>1. ASSUME NEW n \in 1..MaxChunk, ReadSocket(e, i, n)
      PROVE  FInv'
  <2>1. PICK b : b = [k \in 1..n |-> f.read + k]
    OBVIOUS
  <2>2. MaxChunk \in Nat
    BY ConstantsAssumption
  <2>3. b \in Seq(Int) /\ f.read + n \in Int
    BY <1>t, <2>1, <2>2
  <2>4. PICK h : h = [f EXCEPT !.read = f.read + n]
    OBVIOUS
  <2>5. PICK g : g = [h EXCEPT !.buf = b]
    OBVIOUS
  <2>6. h \in FlowSet
    BY <1>f, <2>3, <2>4, FieldTypes
  <2>7. g \in FlowSet
    BY <2>3, <2>5, <2>6, FieldTypes
  <2>8. /\ g.task = f.task /\ g.live = f.live /\ g.negotiated = f.negotiated
        /\ g.outValid = f.outValid /\ g.cancelled = f.cancelled /\ g.fin = f.fin
        /\ g.up = f.up /\ g.down = f.down
    BY <1>f, <2>4, <2>5, <2>6 DEF FlowSet
  <2>9. f.task = "bridged" /\ f.up = "run"
    BY <1>1, Zenon DEF ReadSocket, Bridged, f
  <2>10. Evolves(f, g) /\ (Ended(g) => Ended(f))
    BY <1>f, <2>8, <2>9 DEF Evolves, Sound, Ended
  <2>11. flow' = [flow EXCEPT ![e][i] = g]
    <3>1. g = [f EXCEPT !.read = f.read + n, !.buf = [k \in 1..n |-> f.read + k]]
      BY <2>1, <2>4, <2>5, Zenon
    <3>2. flow' = [flow EXCEPT ![e][i] = [f EXCEPT !.read = f.read + n, !.buf = [k \in 1..n |-> f.read + k]]]
      BY <1>1, ZenonT(30) DEF ReadSocket, f
    <3> QED
      BY <3>1, <3>2, Zenon
  <2>12. Becomes(e, i, g) /\ TaskQueues(e, i, g) /\ UNCHANGED <<run, neg, nextSid, out, wire>>
    BY <1>1, <2>7, <2>9, <2>10, <2>11, Zenon DEF Becomes, TaskQueues, ReadSocket, f
  <2> QED
    BY <2>10, <2>12, LocalStep DEF f
<1>2. CASE ReadEof(e, i)
  <2>1. PICK g : g = [f EXCEPT !.up = "eof"]
    OBVIOUS
  <2>2. g \in FlowSet
    BY <1>f, <2>1, FieldTypes
  <2>3. /\ g.task = f.task /\ g.live = f.live /\ g.negotiated = f.negotiated
        /\ g.outValid = f.outValid /\ g.cancelled = f.cancelled /\ g.fin = f.fin
        /\ g.down = f.down /\ g.buf = f.buf /\ g.taken = f.taken
    BY <1>f, <2>1 DEF FlowSet
  <2>4. f.task = "bridged" /\ f.up = "run" /\ f.buf = <<>> /\ f.taken = <<>>
    BY <1>2 DEF ReadEof, Bridged, f
  <2>5. Evolves(f, g) /\ (Ended(g) => Ended(f))
    BY <1>f, <2>3, <2>4 DEF Evolves, Sound, Ended
  <2>6. flow' = [flow EXCEPT ![e][i] = g]
    BY <1>2, <2>1 DEF ReadEof, f
  <2>7. Becomes(e, i, g) /\ TaskQueues(e, i, g) /\ UNCHANGED <<run, neg, nextSid, out, wire>>
    BY <1>2, <2>2, <2>4, <2>5, <2>6 DEF Becomes, TaskQueues, ReadEof, f
  <2> QED
    BY <2>5, <2>7, LocalStep DEF f
<1>3. CASE TakeCredit(e, i)
  <2>1. PICK k : k = IF f.negotiated /\ f.avail < Len(f.buf) THEN f.avail ELSE Len(f.buf)
    OBVIOUS
  <2>2. k > 0 /\ f.task = "bridged" /\ f.buf # <<>>
    BY <1>3, <2>1 DEF TakeCredit, Bridged, f
  <2>3. PICK a : a = IF f.negotiated THEN f.avail - k ELSE f.avail
    OBVIOUS
  <2>4. k \in 0..Len(f.buf) /\ a \in Int
    BY <1>t, <2>1, <2>2, <2>3
  <2>5. SubSeq(f.buf, 1, k) \in Seq(Int) /\ SubSeq(f.buf, k + 1, Len(f.buf)) \in Seq(Int)
    BY <1>t, <2>4
  <2>6. PICK h : h = [f EXCEPT !.avail = a]
    OBVIOUS
  <2>7. PICK m : m = [h EXCEPT !.taken = SubSeq(f.buf, 1, k)]
    OBVIOUS
  <2>8. PICK g : g = [m EXCEPT !.buf = SubSeq(f.buf, k + 1, Len(f.buf))]
    OBVIOUS
  <2>9. h \in FlowSet
    BY <1>f, <2>4, <2>6, FieldTypes
  <2>10. m \in FlowSet
    BY <2>5, <2>7, <2>9, FieldTypes
  <2>11. g \in FlowSet
    BY <2>5, <2>8, <2>10, FieldTypes
  <2>12. /\ g.task = f.task /\ g.live = f.live /\ g.negotiated = f.negotiated
         /\ g.outValid = f.outValid /\ g.cancelled = f.cancelled /\ g.fin = f.fin
         /\ g.up = f.up /\ g.down = f.down
    BY <1>f, <2>6, <2>7, <2>8, <2>9, <2>10 DEF FlowSet
  <2>13. Evolves(f, g) /\ (Ended(g) => Ended(f))
    BY <1>f, <2>2, <2>12 DEF Evolves, Sound, Ended
  <2>14. flow' = [flow EXCEPT ![e][i] = g]
    <3>1. g = [f EXCEPT !.avail = IF f.negotiated THEN f.avail - k ELSE f.avail,
                        !.taken = SubSeq(f.buf, 1, k),
                        !.buf = SubSeq(f.buf, k + 1, Len(f.buf))]
      BY <2>3, <2>6, <2>7, <2>8, Zenon
    <3>2. flow' = [flow EXCEPT ![e][i] =
                     [f EXCEPT !.avail = IF f.negotiated THEN f.avail - k ELSE f.avail,
                               !.taken = SubSeq(f.buf, 1, k),
                               !.buf = SubSeq(f.buf, k + 1, Len(f.buf))]]
      BY <1>3, <2>1, Zenon DEF TakeCredit, f
    <3> QED
      BY <3>1, <3>2, Zenon
  <2>15. Becomes(e, i, g) /\ TaskQueues(e, i, g) /\ UNCHANGED <<run, neg, nextSid, out, wire>>
    BY <1>3, <2>2, <2>11, <2>13, <2>14 DEF Becomes, TaskQueues, TakeCredit, f
  <2> QED
    BY <2>13, <2>15, LocalStep DEF f
<1> QED
  BY <1>1, <1>2, <1>3

\* Nothing that matters here has changed.
SameEnds(f, g) ==
  /\ g.task = f.task /\ g.live = f.live /\ g.negotiated = f.negotiated
  /\ g.outValid = f.outValid /\ g.cancelled = f.cancelled /\ g.fin = f.fin
  /\ g.up = f.up /\ g.down = f.down /\ g.buf = f.buf /\ g.taken = f.taken

\* A change of counters and queues alone changes nothing the invariant speaks of.
LEMMA SameEvolves ==
  ASSUME NEW f \in FlowSet, NEW g \in FlowSet, Sound(f), f.task # "none", SameEnds(f, g)
  PROVE  Evolves(f, g) /\ (Ended(g) => Ended(f))
  BY DEF SameEnds, Evolves, Sound, Ended

\* A pump fails.
LEMMA FailedEvolves ==
  ASSUME NEW f \in FlowSet, NEW g \in FlowSet, Sound(f), f.task = "bridged", g.task = "failed",
         g.live = f.live, g.negotiated = f.negotiated, g.fin = f.fin, g.up = f.up,
         g.down = f.down, g.buf = f.buf, g.taken = f.taken,
         g.outValid = f.outValid \/ g.outValid = FALSE
  PROVE  Evolves(f, g) /\ (Ended(g) => Ended(f))
  BY DEF Evolves, Sound, Ended

\* The downlink receives, writes and publishes.
LEMMA DownlinkKeeps ==
  ASSUME FInv, NEW e \in Ends, NEW i \in Sids,
         \/ Receive(e, i) \/ ReceiveFin(e, i) \/ Written(e, i)
         \/ RaiseCredit(e, i) \/ PublishWin(e, i) \/ PumpError(e, i)
  PROVE  FInv'
<1> DEFINE f == flow[e][i]
<1>f. f \in FlowSet /\ Sound(f)
  BY FlowFacts
<1>t. /\ f.rq \in Seq(Seq(Int)) /\ f.writing \in Seq(Int) /\ f.got \in Seq(Int) /\ f.bytes \in Int
      /\ f.credit \in Int /\ f.pend \in Int
  BY <1>f DEF FlowSet
<1>w. Window[e] \in Nat
  BY ConstantsAssumption
<1>b. f.task = "bridged"
  BY DEF Receive, ReceiveFin, DownReady, Written, RaiseCredit, PublishWin, PumpError, Bridged, f
<1> HIDE DEF f
<1>1. CASE Receive(e, i)
  <2>1. f.rq # <<>>
    BY <1>1 DEF Receive, f
  <2>2. Head(f.rq) \in Seq(Int) /\ Tail(f.rq) \in Seq(Seq(Int))
    BY <1>t, <2>1
  <2>3. PICK h : h = [f EXCEPT !.writing = Head(f.rq)]
    OBVIOUS
  <2>4. PICK g : g = [h EXCEPT !.rq = Tail(f.rq)]
    OBVIOUS
  <2>5. h \in FlowSet
    BY <1>f, <2>2, <2>3, FieldTypes
  <2>6. g \in FlowSet
    BY <2>2, <2>4, <2>5, FieldTypes, Zenon
  <2>7. SameEnds(f, g)
    BY <1>f, <2>3, <2>4, <2>5 DEF FlowSet, SameEnds
  <2>8. Evolves(f, g) /\ (Ended(g) => Ended(f))
    BY <1>f, <1>b, <2>6, <2>7, SameEvolves
  <2>9. flow' = [flow EXCEPT ![e][i] = g]
    BY <1>1, <2>3, <2>4, Zenon DEF Receive, f
  <2>10. Becomes(e, i, g) /\ TaskQueues(e, i, g) /\ UNCHANGED <<run, neg, nextSid, out, wire>>
    BY <1>1, <1>b, <2>6, <2>8, <2>9 DEF Becomes, TaskQueues, Receive, f
  <2> QED
    BY <2>8, <2>10, LocalStep DEF f
<1>2. CASE ReceiveFin(e, i)
  <2>1. PICK g : g = [f EXCEPT !.down = "done"]
    OBVIOUS
  <2>2. g \in FlowSet
    BY <1>f, <2>1, FieldTypes
  <2>3. /\ g.task = f.task /\ g.live = f.live /\ g.negotiated = f.negotiated
        /\ g.outValid = f.outValid /\ g.cancelled = f.cancelled /\ g.fin = f.fin
        /\ g.up = f.up /\ g.buf = f.buf /\ g.taken = f.taken
    BY <1>f, <2>1 DEF FlowSet
  <2>4. f.fin = TRUE
    BY <1>2, <1>f DEF ReceiveFin, f, FlowSet
  <2>5. Evolves(f, g) /\ (Ended(g) => Ended(f))
    BY <1>f, <1>b, <2>3, <2>4 DEF Evolves, Sound, Ended
  <2>6. flow' = [flow EXCEPT ![e][i] = g]
    BY <1>2, <2>1 DEF ReceiveFin, f
  <2>7. Becomes(e, i, g) /\ TaskQueues(e, i, g) /\ UNCHANGED <<run, neg, nextSid, out, wire>>
    BY <1>2, <1>b, <2>2, <2>5, <2>6 DEF Becomes, TaskQueues, ReceiveFin, f
  <2> QED
    BY <2>5, <2>7, LocalStep DEF f
<1>3. CASE Written(e, i)
  <2> DEFINE n == Len(f.writing)
             p == f.pend + n
             due == p >= Window[e] \div CreditDiv \/ f.rq = <<>>
             cr == IF f.negotiated THEN f.credit ELSE f.credit + n
             pe == IF f.negotiated THEN p ELSE 0
             pu == IF f.negotiated /\ due THEN "due" ELSE "none"
  <2>1. flow' = [flow EXCEPT ![e][i] =
                   [f EXCEPT !.writing = <<>>, !.got = f.got \o f.writing, !.bytes = f.bytes - n,
                             !.credit = cr, !.pend = pe, !.pub = pu]]
    BY <1>3, Zenon DEF Written, f
  <2>2. /\ f.got \o f.writing \in Seq(Int) /\ f.bytes - n \in Int /\ cr \in Int /\ pe \in Int
        /\ <<>> \in Seq(Int)
    BY <1>t
  <2>3. pu \in {"none", "due", "raised"}
    OBVIOUS
  <2> HIDE DEF n, p, due, cr, pe, pu
  <2>4. PICK h : h = [f EXCEPT !.writing = <<>>]
    OBVIOUS
  <2>5. PICK k : k = [h EXCEPT !.got = f.got \o f.writing]
    OBVIOUS
  <2>6. PICK l : l = [k EXCEPT !.bytes = f.bytes - n]
    OBVIOUS
  <2>7. PICK m : m = [l EXCEPT !.credit = cr]
    OBVIOUS
  <2>8. PICK q : q = [m EXCEPT !.pend = pe]
    OBVIOUS
  <2>9. PICK g : g = [q EXCEPT !.pub = pu]
    OBVIOUS
  <2>10. h \in FlowSet
    BY <1>f, <2>2, <2>4, FieldTypes
  <2>11. k \in FlowSet
    BY <2>2, <2>5, <2>10, FieldTypes
  <2>12. l \in FlowSet
    BY <2>2, <2>6, <2>11, FieldTypes
  <2>13. m \in FlowSet
    BY <2>2, <2>7, <2>12, FieldTypes
  <2>14. q \in FlowSet
    BY <2>2, <2>8, <2>13, FieldTypes
  <2>15. g \in FlowSet
    BY <2>3, <2>9, <2>14, FieldTypes
  <2>16. SameEnds(f, g)
    <3>1. SameEnds(f, l)
      BY <1>f, <2>4, <2>5, <2>6, <2>10, <2>11 DEF FlowSet, SameEnds
    <3>2. SameEnds(l, g)
      BY <2>7, <2>8, <2>9, <2>12, <2>13, <2>14 DEF FlowSet, SameEnds
    <3> QED
      BY <3>1, <3>2 DEF SameEnds
  <2>17. Evolves(f, g) /\ (Ended(g) => Ended(f))
    BY <1>f, <1>b, <2>15, <2>16, SameEvolves
  <2>18. flow' = [flow EXCEPT ![e][i] = g]
    BY <2>1, <2>4, <2>5, <2>6, <2>7, <2>8, <2>9, Zenon
  <2>19. Becomes(e, i, g) /\ TaskQueues(e, i, g) /\ UNCHANGED <<run, neg, nextSid, out, wire>>
    BY <1>3, <1>b, <2>15, <2>17, <2>18 DEF Becomes, TaskQueues, Written, f
  <2> QED
    BY <2>17, <2>19, LocalStep DEF f
<1>4. CASE RaiseCredit(e, i)
  <2>1. CASE f.credit + f.pend <= Window[e]
    <3>1. PICK h : h = [f EXCEPT !.credit = f.credit + f.pend]
      OBVIOUS
    <3>2. PICK g : g = [h EXCEPT !.pub = "raised"]
      OBVIOUS
    <3>3. h \in FlowSet
      <4>1. f.credit + f.pend \in Int
        BY <1>t
      <4> QED
        BY <1>f, <3>1, <4>1, FieldTypes, Zenon
    <3>4. g \in FlowSet
      BY <3>2, <3>3, FieldTypes
    <3>5. SameEnds(f, g)
      BY <1>f, <3>1, <3>2, <3>3 DEF FlowSet, SameEnds
    <3>6. Evolves(f, g) /\ (Ended(g) => Ended(f))
      BY <1>f, <1>b, <3>4, <3>5, SameEvolves
    <3>7. flow' = [flow EXCEPT ![e][i] = g]
      BY <1>4, <2>1, <3>1, <3>2, Zenon DEF RaiseCredit, f
    <3>8. Becomes(e, i, g) /\ TaskQueues(e, i, g) /\ UNCHANGED <<run, neg, nextSid, out, wire>>
      BY <1>4, <1>b, <3>4, <3>6, <3>7 DEF Becomes, TaskQueues, RaiseCredit, f
    <3> QED
      BY <3>6, <3>8, LocalStep DEF f
  <2>2. CASE ~(f.credit + f.pend <= Window[e])
    <3>1. PICK h : h = [f EXCEPT !.task = "failed"]
      OBVIOUS
    <3>2. PICK g : g = [h EXCEPT !.overrun = TRUE]
      OBVIOUS
    <3>3. h \in FlowSet
      BY <1>f, <3>1, FieldTypes
    <3>4. g \in FlowSet
      BY <3>2, <3>3, FieldTypes
    <3>5. /\ g.task = "failed" /\ g.live = f.live /\ g.negotiated = f.negotiated /\ g.fin = f.fin
          /\ g.up = f.up /\ g.down = f.down /\ g.buf = f.buf /\ g.taken = f.taken
          /\ g.outValid = f.outValid
      BY <1>f, <3>1, <3>2, <3>3 DEF FlowSet
    <3>6. Evolves(f, g) /\ (Ended(g) => Ended(f))
      BY <1>f, <1>b, <3>4, <3>5, FailedEvolves
    <3>7. flow' = [flow EXCEPT ![e][i] = g]
      BY <1>4, <2>2, <3>1, <3>2, Zenon DEF RaiseCredit, f
    <3>8. Becomes(e, i, g) /\ TaskQueues(e, i, g) /\ UNCHANGED <<run, neg, nextSid, out, wire>>
      BY <1>4, <3>4, <3>5, <3>6, <3>7 DEF Becomes, TaskQueues, RaiseCredit, f
    <3> QED
      BY <3>6, <3>8, LocalStep DEF f
  <2> QED
    BY <2>1, <2>2
<1>5. CASE PublishWin(e, i)
  <2>1. CASE ControlRoom(e)
    <3>1. PICK h : h = [f EXCEPT !.pend = 0]
      OBVIOUS
    <3>2. PICK g : g = [h EXCEPT !.pub = "none"]
      OBVIOUS
    <3>3. h \in FlowSet
      <4>1. 0 \in Int
        OBVIOUS
      <4> QED
        BY <1>f, <3>1, <4>1, FieldTypes, Zenon
    <3>4. g \in FlowSet
      BY <3>2, <3>3, FieldTypes
    <3>5. SameEnds(f, g)
      BY <1>f, <3>1, <3>2, <3>3 DEF FlowSet, SameEnds
    <3>6. Evolves(f, g) /\ (Ended(g) => Ended(f))
      BY <1>f, <1>b, <3>4, <3>5, SameEvolves
    <3>7. flow' = [flow EXCEPT ![e][i] = g]
      BY <1>5, <2>1, <3>1, <3>2, Zenon DEF PublishWin, f
    <3>8. Becomes(e, i, g) /\ UNCHANGED <<run, sess, neg, nextSid, out, wire>>
      BY <1>5, <1>b, <3>4, <3>6, <3>7 DEF Becomes, PublishWin, f
    <3>9. TaskQueues(e, i, g)
      <4>1. WinRecord(i, f.pend) \in CtlRecords /\ WinRecord(i, f.pend).kind = "WIN"
        BY <1>t DEF WinRecord, Record, CtlRecords, RecordsOf
      <4>2. ctl' = [ctl EXCEPT ![e] = Append(@, WinRecord(i, f.pend))]
        BY <1>5, <2>1 DEF PublishWin, f
      <4> QED
        BY <3>8, <4>1, <4>2 DEF TaskQueues
    <3> QED
      BY <3>6, <3>8, <3>9, LocalStep DEF f
  <2>2. CASE ~ControlRoom(e)
    <3>1. PICK h \in FlowSet : h = Cancel(f, FALSE)
      BY <1>f, CancelTyped
    <3>2. PICK g : g = [h EXCEPT !.task = "failed"]
      OBVIOUS
    <3>3. /\ h.live = f.live /\ h.negotiated = f.negotiated /\ h.fin = f.fin
          /\ h.up = f.up /\ h.down = f.down /\ h.buf = f.buf /\ h.taken = f.taken
          /\ h.outValid = FALSE
      BY <1>f, <3>1, CancelTyped
    <3>4. g \in FlowSet
      BY <3>1, <3>2, FieldTypes
    <3>5. /\ g.task = "failed" /\ g.live = f.live /\ g.negotiated = f.negotiated /\ g.fin = f.fin
          /\ g.up = f.up /\ g.down = f.down /\ g.buf = f.buf /\ g.taken = f.taken
          /\ g.outValid = FALSE
      BY <3>1, <3>2, <3>3 DEF FlowSet
    <3>6. Evolves(f, g) /\ (Ended(g) => Ended(f))
      BY <1>f, <1>b, <3>4, <3>5, FailedEvolves
    <3>7. flow' = [flow EXCEPT ![e][i] = g]
      BY <1>5, <2>2, <3>1, <3>2, Zenon DEF PublishWin, f
    <3>8. Becomes(e, i, g) /\ TaskQueues(e, i, g) /\ UNCHANGED <<run, neg, nextSid, out, wire>>
      BY <1>5, <2>2, <3>4, <3>5, <3>6, <3>7 DEF Becomes, TaskQueues, PublishWin, f
    <3> QED
      BY <3>6, <3>8, LocalStep DEF f
  <2> QED
    BY <2>1, <2>2
<1>6. CASE PumpError(e, i)
  <2>1. PICK g : g = [f EXCEPT !.task = "failed"]
    OBVIOUS
  <2>2. g \in FlowSet
    BY <1>f, <2>1, FieldTypes
  <2>3. /\ g.task = "failed" /\ g.live = f.live /\ g.negotiated = f.negotiated /\ g.fin = f.fin
        /\ g.up = f.up /\ g.down = f.down /\ g.buf = f.buf /\ g.taken = f.taken
        /\ g.outValid = f.outValid
    BY <1>f, <2>1 DEF FlowSet
  <2>4. Evolves(f, g) /\ (Ended(g) => Ended(f))
    BY <1>f, <1>b, <2>2, <2>3, FailedEvolves
  <2>5. flow' = [flow EXCEPT ![e][i] = g]
    BY <1>6, <2>1 DEF PumpError, f
  <2>6. Becomes(e, i, g) /\ TaskQueues(e, i, g) /\ UNCHANGED <<run, neg, nextSid, out, wire>>
    BY <1>6, <2>2, <2>3, <2>4, <2>5 DEF Becomes, TaskQueues, PumpError, f
  <2> QED
    BY <2>4, <2>6, LocalStep DEF f
<1> QED
  BY <1>1, <1>2, <1>3, <1>4, <1>5, <1>6

\* An RST can be queued for any stream.
LEMMA RstTyped ==
  ASSUME NEW i \in Sids, NEW o \in BOOLEAN
  PROVE  RstRecord(i, o) \in CtlRecords /\ RstRecord(i, o).kind = "RST" /\ RstRecord(i, o).sid = i
  BY DEF RstRecord, Record, CtlRecords, RecordsOf

\* A connect or bridge task returns, and resets a stream that is still open.
LEMMA TaskEndKeeps ==
  ASSUME FInv, NEW e \in Ends, NEW i \in Sids, NEW p \in BOOLEAN,
         flow[e][i].task \notin {"none", "gone"},
         flow' = [flow EXCEPT ![e][i] = Gone(Finish(flow[e][i], p))],
         UNCHANGED <<run, neg, nextSid, out, wire>>,
         \/ UNCHANGED <<ctl, sess>>
         \/ p = FALSE /\ TaskControl(e, RstRecord(i, TRUE)),
         \/ p = FALSE
         \/ flow[e][i].live = FALSE
         \/ flow[e][i].negotiated = TRUE => flow[e][i].fin = TRUE
  PROVE  FInv'
<1> DEFINE f == flow[e][i]
<1>f. f \in FlowSet /\ Sound(f)
  BY FlowFacts
<1>1. PICK g : g = Gone(Finish(f, p))
  OBVIOUS
<1>2. /\ g \in FlowSet /\ Evolves(f, g) /\ g.task = "gone" /\ g.fin = FALSE
      /\ g.negotiated = f.negotiated
      /\ g.outValid = TRUE => f.live = TRUE /\ p = TRUE
  BY <1>f, <1>1, GoneEvolves
<1>3. Ended(g) => Ended(f)
  BY <1>2 DEF Ended
<1>4. Becomes(e, i, g)
  BY <1>1, <1>2 DEF Becomes
<1>5. TaskQueues(e, i, g)
  <2>1. CASE UNCHANGED <<ctl, sess>>
    BY <2>1 DEF TaskQueues
  <2>2. CASE p = FALSE /\ TaskControl(e, RstRecord(i, TRUE))
    <3>1. Dead(g)
      BY <1>2, <2>2 DEF Dead, FlowSet
    <3> QED
      BY <2>2, <3>1, RstTyped DEF TaskQueues, TaskControl
  <2> QED
    BY <2>1, <2>2
<1> QED
  BY <1>3, <1>4, <1>5, LocalStep

\* A bridge task fails, is done or is cancelled.
LEMMA EndsKeep ==
  ASSUME FInv, NEW e \in Ends, NEW i \in Sids,
         \/ BridgeFailed(e, i) \/ BridgeDone(e, i) \/ TaskCancelled(e, i)
  PROVE  FInv'
<1>f. flow[e][i] \in FlowSet /\ Sound(flow[e][i])
  BY FlowFacts
<1>1. CASE BridgeFailed(e, i)
  BY <1>1, TaskEndKeeps DEF BridgeFailed
<1>2. CASE BridgeDone(e, i)
  <2>1. flow[e][i].negotiated = TRUE => flow[e][i].down = "done"
    BY <1>2 DEF BridgeDone
  <2>2. flow[e][i].negotiated = TRUE => flow[e][i].fin = TRUE
    BY <1>f, <2>1 DEF Sound
  <2> QED
    BY <1>2, <2>2, TaskEndKeeps DEF BridgeDone, Bridged
<1>3. CASE TaskCancelled(e, i)
  <2>1. flow[e][i].cancelled = TRUE /\ flow[e][i].task \in {"connecting", "bridged"}
    BY <1>3, <1>f DEF TaskCancelled, FlowSet
  <2>2. flow[e][i].live = FALSE
    BY <1>f, <2>1 DEF Sound, FlowSet
  <2> QED
    BY <1>3, <2>1, <2>2, TaskEndKeeps DEF TaskCancelled
<1> QED
  BY <1>1, <1>2, <1>3

\* open_stream is given up, the server's connect ends.
LEMMA ConnectKeeps ==
  ASSUME FInv, NEW i \in Sids, AbortOpen(i) \/ Connected(i) \/ ConnectFailed(i)
  PROVE  FInv'
<1>e. "c" \in Ends /\ "s" \in Ends
  BY DEF Ends
<1>1. CASE AbortOpen(i)
  BY <1>1, <1>e, TaskEndKeeps DEF AbortOpen
<1>2. CASE ConnectFailed(i)
  BY <1>2, <1>e, TaskEndKeeps DEF ConnectFailed
<1>3. CASE Connected(i)
  <2> DEFINE f == flow["s"][i]
  <2>f. f \in FlowSet /\ Sound(f)
    BY <1>e, FlowFacts
  <2>1. PICK g : g = [f EXCEPT !.task = "bridged"]
    OBVIOUS
  <2>2. g \in FlowSet
    BY <2>f, <2>1, FieldTypes
  <2>3. /\ g.task = "bridged" /\ g.live = f.live /\ g.negotiated = f.negotiated
        /\ g.outValid = f.outValid /\ g.cancelled = f.cancelled /\ g.fin = f.fin
        /\ g.up = f.up /\ g.down = f.down /\ g.buf = f.buf /\ g.taken = f.taken
    BY <2>f, <2>1 DEF FlowSet
  <2>4. f.task = "connecting"
    BY <1>3 DEF Connected
  <2>5. Evolves(f, g) /\ (Ended(g) => Ended(f))
    BY <2>f, <2>3, <2>4 DEF Evolves, Sound, Ended
  <2>6. flow' = [flow EXCEPT !["s"][i] = g]
    BY <1>3, <2>1 DEF Connected
  <2>7. Becomes("s", i, g) /\ TaskQueues("s", i, g) /\ UNCHANGED <<run, neg, nextSid, out, wire>>
    BY <1>3, <2>2, <2>5, <2>6 DEF Becomes, TaskQueues, Connected
  <2> QED
    BY <1>e, <2>5, <2>7, LocalStep
<1> QED
  BY <1>1, <1>2, <1>3

-----------------------------------------------------------------------------
(* The steps of the session.                                               *)

\* A step that changes no flow.
LEMMA SameFlows ==
  ASSUME FInv, flow' = flow
  PROVE  /\ flow' \in [Ends -> [Sids -> FlowSet]]
         /\ FlowsEvolve
         /\ \A i \in Sids : Ended(flow'["s"][i]) => Ended(flow["s"][i])
<1>1. \A e \in Ends, i \in Sids : Evolves(flow[e][i], flow'[e][i])
  BY DEF FInv, FlowsSound, Evolves
<1> QED
  BY <1>1 DEF FInv, Values, FlowsEvolve

\* The peer's negotiation is late.
LEMMA DeadlineKeeps ==
  ASSUME FInv, NegotiationDeadline
  PROVE  FInv'
<1>0. Values /\ "c" \in Ends
  BY DEF FInv, Ends
<1>1. neg' \in [Ends -> {"pending", "legacy", "credit"}]
  BY <1>0 DEF Values, NegotiationDeadline
<1>2. UNCHANGED <<run, sess, nextSid, flow, out, ctl, wire>>
  BY DEF NegotiationDeadline
<1>3. Values' /\ QueuesShrink
  BY <1>0, <1>1, <1>2 DEF Values, QueuesShrink
<1>4. FlowsEvolve /\ \A i \in Sids : Ended(flow'["s"][i]) => Ended(flow["s"][i])
  BY <1>2, SameFlows
<1>5. Calm
  BY <1>2, <1>3, <1>4 DEF Calm
<1> QED
  BY <1>5, CalmKeeps

\* The beginning of a shutdown.
LEMMA ClosingFacts ==
  ASSUME Values, NEW e \in Ends
  PROVE  /\ Closing(e) \in [Ends -> {"up", "closing", "down"}]
         /\ \A d \in Ends : Closing(e)[d] = "down" => sess[d] = "down"
<1>1. sess \in [Ends -> {"up", "closing", "down"}]
  BY DEF Values
<1> QED
  BY <1>1 DEF Closing

\* run returns and drops its lanes.
LEMMA RunEndsKeeps ==
  ASSUME FInv, NEW e \in Ends, RunEnds(e)
  PROVE  FInv'
<1>0. Values
  BY DEF FInv
<1>1. /\ run' = [run EXCEPT ![e] = FALSE] /\ sess' = Closing(e)
      /\ out' = [out EXCEPT ![e] = <<>>] /\ ctl' = [ctl EXCEPT ![e] = <<>>]
      /\ UNCHANGED <<neg, nextSid, flow, wire>>
  BY DEF RunEnds
<1>2. /\ run' \in [Ends -> BOOLEAN] /\ run'[e] = FALSE
      /\ out' \in [Ends -> Seq(OutRecords)] /\ out'[e] = <<>>
      /\ ctl' \in [Ends -> Seq(CtlRecords)] /\ ctl'[e] = <<>>
      /\ \A d \in Ends : d # e => run'[d] = run[d] /\ out'[d] = out[d] /\ ctl'[d] = ctl[d]
  BY <1>0, <1>1 DEF Values
<1>3. Values'
  BY <1>0, <1>1, <1>2, ClosingFacts DEF Values
<1>4. QueuesShrink
  BY <1>1, <1>2 DEF QueuesShrink
<1>5. FlowsEvolve /\ \A i \in Sids : Ended(flow'["s"][i]) => Ended(flow["s"][i])
  BY <1>1, SameFlows
<1>6. \A d \in Ends : sess'[d] = "down" => sess[d] = "down"
  BY <1>0, <1>1, ClosingFacts
<1>7. Calm
  BY <1>1, <1>3, <1>4, <1>5, <1>6 DEF Calm
<1> QED
  BY <1>7, CalmKeeps

\* shutdown cancels every stream of the table.
LEMMA DrainKeeps ==
  ASSUME FInv, NEW e \in Ends, ShutdownDrain(e)
  PROVE  FInv'
<1>0. Values
  BY DEF FInv
<1>1. /\ sess' = [sess EXCEPT ![e] = "down"]
      /\ flow' = [flow EXCEPT ![e] = [i \in Sids |-> Finish(flow[e][i], FALSE)]]
      /\ neg' = [neg EXCEPT ![e] = IF @ = "pending" THEN "legacy" ELSE @]
      /\ UNCHANGED <<run, nextSid, out, ctl, wire>>
  BY DEF ShutdownDrain
<1>2. /\ sess' \in [Ends -> {"up", "closing", "down"}]
      /\ neg' \in [Ends -> {"pending", "legacy", "credit"}]
      /\ \A d \in Ends : d # e => sess'[d] = sess[d]
  BY <1>0, <1>1 DEF Values
<1>3. \A i \in Sids : /\ flow[e][i] \in FlowSet /\ Sound(flow[e][i])
                      /\ Finish(flow[e][i], FALSE) \in FlowSet
                      /\ Evolves(flow[e][i], Finish(flow[e][i], FALSE))
                      /\ Finish(flow[e][i], FALSE).live = FALSE
                      /\ Finish(flow[e][i], FALSE).task = flow[e][i].task
                      /\ Finish(flow[e][i], FALSE).fin = flow[e][i].fin
                      /\ Finish(flow[e][i], FALSE).negotiated = flow[e][i].negotiated
  BY FlowFacts, FinishTyped, FinishEvolves
<1>4. /\ flow' \in [Ends -> [Sids -> FlowSet]]
      /\ \A i \in Sids : flow'[e][i] = Finish(flow[e][i], FALSE)
      /\ \A d \in Ends : d # e => flow'[d] = flow[d]
  <2>1. flow \in [Ends -> [Sids -> FlowSet]]
    BY <1>0 DEF Values
  <2>2. PICK h : h = [i \in Sids |-> Finish(flow[e][i], FALSE)]
    OBVIOUS
  <2>3. h \in [Sids -> FlowSet] /\ \A i \in Sids : h[i] = Finish(flow[e][i], FALSE)
    BY <1>3, <2>2
  <2>4. flow' = [flow EXCEPT ![e] = h]
    BY <1>1, <2>2
  <2> QED
    BY <2>1, <2>3, <2>4
<1>5. Values'
  BY <1>0, <1>1, <1>2, <1>4 DEF Values
<1>6. QueuesShrink
  BY <1>1 DEF QueuesShrink
<1>7. FlowsEvolve
  <2>1. \A d \in Ends, i \in Sids : Evolves(flow[d][i], flow[d][i])
    BY DEF FInv, FlowsSound, Evolves
  <2>2. \A d \in Ends, i \in Sids : Evolves(flow[d][i], flow'[d][i])
    BY <1>3, <1>4, <2>1
  <2>3. \A i \in Sids : flow'["c"][i].task = flow["c"][i].task
    BY <1>3, <1>4 DEF Ends
  <2> QED
    BY <2>2, <2>3 DEF FlowsEvolve
<1>a. \A i \in Sids : /\ flow'[e][i].live = FALSE
                      /\ flow'[e][i].task = flow[e][i].task
                      /\ flow'[e][i].fin = flow[e][i].fin
                      /\ flow'[e][i].negotiated = flow[e][i].negotiated
                      /\ flow'[e][i].outValid = TRUE => flow[e][i].outValid = TRUE
  <2> TAKE i \in Sids
  <2>1. PICK g : g = Finish(flow[e][i], FALSE)
    OBVIOUS
  <2>2. flow'[e][i] = g
    BY <1>4, <2>1
  <2>3. g.outValid = TRUE => flow[e][i].outValid = TRUE
    BY <1>7, <2>2 DEF FlowsEvolve, Evolves
  <2> QED
    BY <1>3, <2>1, <2>2, <2>3
<1>8. \A i \in Sids : Ended(flow'["s"][i]) => Ended(flow["s"][i])
  <2> SUFFICES ASSUME NEW i \in Sids, Ended(flow'["s"][i])
               PROVE  Ended(flow["s"][i])
    OBVIOUS
  <2>1. CASE e = "s"
    BY <1>a, <2>1 DEF Ended
  <2>2. CASE e # "s"
    BY <1>4, <2>2 DEF Ends
  <2> QED
    BY <2>1, <2>2
<1>9. \A d \in Ends : sess'[d] = "down" => sess[d] = "down" \/ \A i \in Sids : flow'[d][i].live = FALSE
  BY <1>2, <1>a
<1>10. Calm
  BY <1>1, <1>5, <1>6, <1>7, <1>8, <1>9 DEF Calm
<1> QED
  BY <1>10, CalmKeeps

\* The reader may answer, with an RST only for a dead stream.
ReaderQueues(e) ==
  \/ UNCHANGED <<ctl, run, sess, out>>
  \/ \E r \in CtlRecords : ReaderControl(e, r) /\ (r.kind = "RST" => Dead(flow'[e][r.sid]))

\* What the answer leaves.
LEMMA AnswerTyped ==
  ASSUME FInv, NEW e \in Ends, ReaderQueues(e)
  PROVE  /\ run' \in [Ends -> BOOLEAN] /\ out' \in [Ends -> Seq(OutRecords)]
         /\ ctl' \in [Ends -> Seq(CtlRecords)]
         /\ sess' \in [Ends -> {"up", "closing", "down"}]
         /\ \A d \in Ends : sess'[d] = "down" => sess[d] = "down"
         /\ \A d \in Ends :
              /\ \/ ctl'[d] = ctl[d]
                 \/ ctl'[d] = <<>>
                 \/ \E r \in CtlRecords :
                       ctl'[d] = Append(ctl[d], r) /\ (r.kind = "RST" => Dead(flow'[d][r.sid]))
              /\ \/ out'[d] = out[d] /\ run'[d] = run[d]
                 \/ out'[d] = <<>> /\ run'[d] = FALSE
<1>v. Values
  BY DEF FInv
<1>0. /\ run \in [Ends -> BOOLEAN] /\ out \in [Ends -> Seq(OutRecords)]
      /\ ctl \in [Ends -> Seq(CtlRecords)] /\ sess \in [Ends -> {"up", "closing", "down"}]
  BY <1>v DEF Values
<1>1. CASE UNCHANGED <<ctl, run, sess, out>>
  BY <1>0, <1>1
<1>2. ASSUME NEW r \in CtlRecords, r.kind = "RST" => Dead(flow'[e][r.sid]),
             ctl' = [ctl EXCEPT ![e] = Append(@, r)], UNCHANGED <<run, sess, out>>
      PROVE  /\ ctl' \in [Ends -> Seq(CtlRecords)]
             /\ \A d \in Ends : \/ ctl'[d] = ctl[d]
                                \/ d = e /\ ctl'[d] = Append(ctl[d], r)
  BY <1>0, <1>2
<1>3. ASSUME run' = [run EXCEPT ![e] = FALSE], sess' = Closing(e),
             ctl' = [ctl EXCEPT ![e] = <<>>], out' = [out EXCEPT ![e] = <<>>]
      PROVE  /\ run' \in [Ends -> BOOLEAN] /\ out' \in [Ends -> Seq(OutRecords)]
             /\ ctl' \in [Ends -> Seq(CtlRecords)]
             /\ \A d \in Ends : /\ ctl'[d] = ctl[d] \/ ctl'[d] = <<>>
                                /\ \/ out'[d] = out[d] /\ run'[d] = run[d]
                                   \/ out'[d] = <<>> /\ run'[d] = FALSE
  BY <1>0, <1>3
<1>4. /\ Closing(e) \in [Ends -> {"up", "closing", "down"}]
      /\ \A d \in Ends : Closing(e)[d] = "down" => sess[d] = "down"
  BY <1>v, ClosingFacts
<1>5. ASSUME NEW r \in CtlRecords, ReaderControl(e, r), r.kind = "RST" => Dead(flow'[e][r.sid])
      PROVE  /\ run' \in [Ends -> BOOLEAN] /\ out' \in [Ends -> Seq(OutRecords)]
             /\ ctl' \in [Ends -> Seq(CtlRecords)]
             /\ sess' \in [Ends -> {"up", "closing", "down"}]
             /\ \A d \in Ends : sess'[d] = "down" => sess[d] = "down"
             /\ \A d \in Ends :
                  /\ \/ ctl'[d] = ctl[d]
                     \/ ctl'[d] = <<>>
                     \/ \E q \in CtlRecords :
                           ctl'[d] = Append(ctl[d], q) /\ (q.kind = "RST" => Dead(flow'[d][q.sid]))
                  /\ \/ out'[d] = out[d] /\ run'[d] = run[d]
                     \/ out'[d] = <<>> /\ run'[d] = FALSE
  <2>1. CASE ControlRoom(e)
    BY <1>0, <1>2, <1>5, <2>1 DEF ReaderControl
  <2>2. CASE ~ControlRoom(e)
    BY <1>0, <1>3, <1>4, <1>5, <2>2 DEF ReaderControl
  <2> QED
    BY <2>1, <2>2
<1> QED
  BY <1>1, <1>5 DEF ReaderQueues

\* The reader handles a record other than OPEN.
LEMMA ReaderStep ==
  ASSUME FInv, NEW e \in Ends, wire[Peer(e)] # <<>>,
         wire' = [wire EXCEPT ![Peer(e)] = Tail(@)],
         Head(wire[Peer(e)]).kind # "OPEN",
         nextSid' = nextSid, neg' \in [Ends -> {"pending", "legacy", "credit"}],
         flow' \in [Ends -> [Sids -> FlowSet]], FlowsEvolve,
         \A i \in Sids : Ended(flow'["s"][i]) => Ended(flow["s"][i]) \/ Quiet(i)',
         ReaderQueues(e)
  PROVE  FInv'
<1>0. Values /\ Peer(e) \in Ends
  BY DEF FInv, Peer, Ends
<1>1. /\ wire' \in [Ends -> Seq(WireRecords)]
      /\ \A d \in Ends : \/ wire'[d] = wire[d]
                         \/ /\ wire[d] # <<>> /\ wire'[d] = Tail(wire[d])
                            /\ d = "c" => Head(wire["c"]).kind # "OPEN"
  <2>1. wire \in [Ends -> Seq(WireRecords)]
    BY <1>0 DEF Values
  <2>2. Tail(wire[Peer(e)]) \in Seq(WireRecords)
    BY <1>0, <2>1
  <2> QED
    BY <1>0, <2>1, <2>2
<1>2. /\ run' \in [Ends -> BOOLEAN] /\ out' \in [Ends -> Seq(OutRecords)]
      /\ ctl' \in [Ends -> Seq(CtlRecords)]
      /\ sess' \in [Ends -> {"up", "closing", "down"}]
      /\ \A d \in Ends : sess'[d] = "down" => sess[d] = "down"
      /\ \A d \in Ends :
           /\ \/ ctl'[d] = ctl[d]
              \/ ctl'[d] = <<>>
              \/ \E r \in CtlRecords :
                    ctl'[d] = Append(ctl[d], r) /\ (r.kind = "RST" => Dead(flow'[d][r.sid]))
           /\ \/ out'[d] = out[d] /\ run'[d] = run[d]
              \/ out'[d] = <<>> /\ run'[d] = FALSE
  BY AnswerTyped
<1>3. Values'
  BY <1>1, <1>2, <1>0 DEF Values
<1>4. QueuesShrink
  BY <1>1, <1>2 DEF QueuesShrink
<1>5. Calm
  BY <1>2, <1>3, <1>4 DEF Calm
<1> QED
  BY <1>5, CalmKeeps

-----------------------------------------------------------------------------
(* The reader: dispatch.                                                   *)

\* The record the reader has taken belongs to a stream, unless it is a CAP.
LEMMA ArrivedTyped ==
  ASSUME FInv, NEW e \in Ends, wire[Peer(e)] # <<>>
  PROVE  /\ Peer(e) \in Ends /\ Arrived(e) \in WireRecords
         /\ Arrived(e).data \in Seq(Int) /\ Arrived(e).n \in Int
         /\ Arrived(e).kind # "CAP" => Arrived(e).sid \in Sids
<1>1. Peer(e) \in Ends
  BY DEF Peer, Ends
<1>2. wire[Peer(e)] \in Seq(WireRecords)
  BY <1>1 DEF FInv, Values
<1>3. Arrived(e) \in WireRecords
  BY <1>2 DEF Arrived
<1>4. Arrived(e).data \in Seq(Int) /\ Arrived(e).n \in Int
  BY <1>3 DEF WireRecords, OutRecords, CtlRecords, RecordsOf
<1> QED
  BY <1>1, <1>3, <1>4, SidOfReset

\* A flow of the table that fails: finish, and the overrun noted.
LEMMA FinishedFacts ==
  ASSUME NEW f \in FlowSet, Sound(f), f.live = TRUE, NEW o \in BOOLEAN
  PROVE  LET g == [Finish(f, FALSE) EXCEPT !.overrun = o] IN
         /\ g \in FlowSet /\ Evolves(f, g) /\ g.task = f.task
         /\ Ended(g) => Ended(f)
         /\ Dead(g)
<1>1. PICK h \in FlowSet : h = Finish(f, FALSE)
  BY FinishTyped
<1>2. /\ Evolves(f, h) /\ h.task = f.task /\ h.fin = f.fin
      /\ h.outValid = FALSE
  BY <1>1, FinishTyped, FinishEvolves
<1>3. PICK g : g = [h EXCEPT !.overrun = o]
  OBVIOUS
<1>4. g \in FlowSet
  BY <1>1, <1>3, FieldTypes
<1>5. SameEnds(h, g)
  BY <1>1, <1>3 DEF FlowSet, SameEnds
<1>6. f.task # "none"
  BY DEF Sound
<1>7. Evolves(h, g) /\ (Ended(g) => Ended(h))
  BY <1>1, <1>2, <1>4, <1>5, <1>6, SameEvolves DEF Evolves
<1>8. Evolves(f, g)
  BY <1>2, <1>7 DEF Evolves
<1>9. Ended(h) => Ended(f)
  BY <1>2 DEF Ended, Evolves
<1>10. Dead(g)
  BY <1>2, <1>5, <1>6 DEF Dead, SameEnds
<1> QED
  BY <1>1, <1>2, <1>3, <1>4, <1>5, <1>7, <1>8, <1>9, <1>10 DEF SameEnds

\* CAP.
LEMMA CapKeeps ==
  ASSUME FInv, NEW e \in Ends, DispatchCap(e)
  PROVE  FInv'
<1>0. Values /\ "s" \in Ends /\ "c" \in Ends
  BY DEF FInv, Ends
<1>1. neg' \in [Ends -> {"pending", "legacy", "credit"}]
  <2>1. neg \in [Ends -> {"pending", "legacy", "credit"}]
    BY <1>0 DEF Values
  <2>2. CASE e = "s"
    BY <1>0, <2>1, <2>2 DEF DispatchCap
  <2>3. CASE e # "s"
    BY <1>0, <2>1, <2>3 DEF DispatchCap
  <2> QED
    BY <2>2, <2>3
<1>2. flow' = flow /\ nextSid' = nextSid
  BY DEF DispatchCap
<1>3. /\ wire[Peer(e)] # <<>> /\ Head(wire[Peer(e)]).kind # "OPEN"
      /\ wire' = [wire EXCEPT ![Peer(e)] = Tail(@)]
  BY DEF DispatchCap, Arrives
<1>4. ReaderQueues(e)
  <2>1. CASE e = "s"
    <3>1. Window["s"] \in Int
      BY <1>0, ConstantsAssumption
    <3>2. CapRecord("s") \in CtlRecords /\ CapRecord("s").kind = "CAP"
      BY <3>1 DEF CapRecord, Record, CtlRecords, RecordsOf
    <3>3. ReaderControl(e, CapRecord("s"))
      BY <2>1 DEF DispatchCap
    <3> QED
      BY <3>2, <3>3 DEF ReaderQueues
  <2>2. CASE e # "s"
    BY <2>2 DEF DispatchCap, ReaderQueues
  <2> QED
    BY <2>1, <2>2
<1>5. /\ flow' \in [Ends -> [Sids -> FlowSet]] /\ FlowsEvolve
      /\ \A i \in Sids : Ended(flow'["s"][i]) => Ended(flow["s"][i])
  BY <1>2, SameFlows
<1> QED
  BY <1>1, <1>2, <1>3, <1>4, <1>5, ReaderStep

\* The reader changes one flow.
LEMMA ReaderFlow ==
  ASSUME FInv, NEW e \in Ends, wire[Peer(e)] # <<>>,
         wire' = [wire EXCEPT ![Peer(e)] = Tail(@)],
         Head(wire[Peer(e)]).kind # "OPEN", UNCHANGED <<nextSid, neg>>,
         NEW i \in Sids, NEW g, Becomes(e, i, g),
         e = "s" /\ Ended(g) => Ended(flow[e][i]) \/ Quiet(i)',
         ReaderQueues(e)
  PROVE  FInv'
<1>1. /\ flow' \in [Ends -> [Sids -> FlowSet]] /\ FlowsEvolve /\ flow'[e][i] = g
      /\ \A d \in Ends, k \in Sids : ~(d = e /\ k = i) => flow'[d][k] = flow[d][k]
  BY OneFlow
<1>2. \A k \in Sids : Ended(flow'["s"][k]) => Ended(flow["s"][k]) \/ Quiet(k)'
  BY <1>1 DEF Ends
<1>3. nextSid' = nextSid /\ neg' \in [Ends -> {"pending", "legacy", "credit"}]
  BY DEF FInv, Values
<1> QED
  BY <1>1, <1>2, <1>3, ReaderStep

\* RST.
LEMMA RstKeeps ==
  ASSUME FInv, NEW e \in Ends, DispatchRst(e)
  PROVE  FInv'
<1>1. /\ wire[Peer(e)] # <<>> /\ Head(wire[Peer(e)]).kind = "RST"
      /\ wire' = [wire EXCEPT ![Peer(e)] = Tail(@)]
      /\ flow' = [flow EXCEPT ![e][Arrived(e).sid] = Finish(flow[e][Arrived(e).sid], FALSE)]
      /\ UNCHANGED <<run, sess, neg, nextSid, out, ctl>>
  BY DEF DispatchRst, Arrives
<1>2. PICK i \in Sids : i = Arrived(e).sid
  BY <1>1, ArrivedTyped DEF Arrived
<1>3. flow[e][i] \in FlowSet /\ Sound(flow[e][i])
  BY FlowFacts
<1>4. PICK g : g = Finish(flow[e][i], FALSE)
  OBVIOUS
<1>5. /\ g \in FlowSet /\ Evolves(flow[e][i], g)
      /\ g.task = flow[e][i].task /\ g.fin = flow[e][i].fin /\ g.negotiated = flow[e][i].negotiated
  BY <1>3, <1>4, FinishTyped, FinishEvolves
<1>6. Ended(g) => Ended(flow[e][i])
  BY <1>5 DEF Ended, Evolves
<1>7. Becomes(e, i, g)
  BY <1>1, <1>2, <1>4, <1>5 DEF Becomes
<1>8. ReaderQueues(e)
  BY <1>1 DEF ReaderQueues
<1> QED
  BY <1>1, <1>6, <1>7, <1>8, ReaderFlow

\* WIN.
LEMMA WinKeeps ==
  ASSUME FInv, NEW e \in Ends, DispatchWin(e)
  PROVE  FInv'
<1>1. /\ wire[Peer(e)] # <<>> /\ Head(wire[Peer(e)]).kind = "WIN"
      /\ wire' = [wire EXCEPT ![Peer(e)] = Tail(@)]
      /\ UNCHANGED <<neg, nextSid>>
  BY DEF DispatchWin, Arrives
<1>2. PICK i \in Sids : i = Arrived(e).sid
  BY <1>1, ArrivedTyped DEF Arrived
<1> DEFINE f == flow[e][i]
           r == Arrived(e)
<1>3. f \in FlowSet /\ Sound(f) /\ r.n \in Int
  BY <1>1, FlowFacts, ArrivedTyped
<1>t. f.live \in BOOLEAN /\ f.negotiated \in BOOLEAN /\ f.avail \in Int
  BY <1>3 DEF FlowSet
<1>4. CASE ~f.live \/ ~f.negotiated
  <2>1. UNCHANGED <<flow, ctl, run, sess, out>>
    BY <1>2, <1>4 DEF DispatchWin
  <2>2. /\ flow' \in [Ends -> [Sids -> FlowSet]] /\ FlowsEvolve
        /\ \A k \in Sids : Ended(flow'["s"][k]) => Ended(flow["s"][k])
    BY <2>1, SameFlows
  <2>3. neg' \in [Ends -> {"pending", "legacy", "credit"}]
    BY <1>1 DEF FInv, Values
  <2>4. ReaderQueues(e)
    BY <2>1 DEF ReaderQueues
  <2> QED
    BY <1>1, <2>2, <2>3, <2>4, ReaderStep
<1>5. CASE f.live /\ f.negotiated /\ r.n \in 1..(Window[Peer(e)] - f.avail)
  <2>1. /\ flow' = [flow EXCEPT ![e][i].avail = @ + r.n]
        /\ UNCHANGED <<ctl, run, sess, out>>
    BY <1>2, <1>5 DEF DispatchWin
  <2>2. PICK g : g = [f EXCEPT !.avail = f.avail + r.n]
    OBVIOUS
  <2>3. f.avail + r.n \in Int
    BY <1>3, <1>t
  <2>4. g \in FlowSet
    BY <1>3, <2>2, <2>3, FieldTypes, Zenon
  <2>5. SameEnds(f, g)
    BY <1>3, <2>2 DEF FlowSet, SameEnds
  <2>6. f.task # "none"
    BY <1>3, <1>5, <1>t DEF Sound
  <2>7. Evolves(f, g) /\ (Ended(g) => Ended(f))
    BY <1>3, <2>4, <2>5, <2>6, SameEvolves
  <2>8. flow' = [flow EXCEPT ![e][i] = g]
    BY <2>1, <2>2
  <2>9. Becomes(e, i, g)
    BY <2>4, <2>5, <2>7, <2>8 DEF Becomes, SameEnds
  <2>10. ReaderQueues(e)
    BY <2>1 DEF ReaderQueues
  <2> QED
    BY <1>1, <2>7, <2>9, <2>10, ReaderFlow
<1>6. CASE f.live /\ f.negotiated /\ ~(r.n \in 1..(Window[Peer(e)] - f.avail))
  <2>1. /\ flow' = [flow EXCEPT ![e][i] = [Finish(f, FALSE) EXCEPT !.overrun = TRUE]]
        /\ ReaderControl(e, RstRecord(i, TRUE))
    BY <1>2, <1>6 DEF DispatchWin
  <2>2. PICK g : g = [Finish(f, FALSE) EXCEPT !.overrun = TRUE]
    OBVIOUS
  <2>3. f.live = TRUE
    BY <1>6, <1>t
  <2>4. /\ g \in FlowSet /\ Evolves(f, g) /\ g.task = f.task
        /\ Ended(g) => Ended(f)
        /\ Dead(g)
    BY <1>3, <2>2, <2>3, FinishedFacts
  <2>5. Becomes(e, i, g)
    BY <2>1, <2>2, <2>4 DEF Becomes
  <2>6. ReaderQueues(e)
    <3>1. flow'[e][i] = g
      BY <2>5, OneFlow
    <3> QED
      BY <2>1, <2>4, <3>1, RstTyped DEF ReaderQueues
  <2> QED
    BY <1>1, <2>4, <2>5, <2>6, ReaderFlow
<1> QED
  BY <1>4, <1>5, <1>6

\* enqueue: the stream has seen the FIN exactly when the record is a CLOSE.
LEMMA EnqueuedFacts ==
  ASSUME NEW f \in FlowSet, Sound(f), f.live = TRUE, f.fin = FALSE, f.cancelled = FALSE,
         NEW r, r.data \in Seq(Int)
  PROVE  LET g == Enqueued(f, r) IN
         /\ g \in FlowSet /\ Evolves(f, g) /\ g.task = f.task
         /\ Ended(g) => r.kind = "CLOSE"
<1>1. f.credit \in Int /\ f.bytes \in Int /\ f.rq \in Seq(Seq(Int)) /\ Len(r.data) \in Int
  BY DEF FlowSet
<1>2. PICK q : q = IF r.data = <<>> THEN f.rq ELSE Append(f.rq, r.data)
  OBVIOUS
<1>3. q \in Seq(Seq(Int))
  BY <1>1, <1>2
<1>4. PICK x \in BOOLEAN : x = (r.kind = "CLOSE")
  OBVIOUS
<1>5. PICK m \in Int : m = f.credit - Len(r.data)
  BY <1>1
<1>6. PICK n \in Int : n = f.bytes + Len(r.data)
  BY <1>1
<1>7. PICK a : a = [f EXCEPT !.credit = m]
  OBVIOUS
<1>8. PICK b : b = [a EXCEPT !.bytes = n]
  OBVIOUS
<1>9. PICK c : c = [b EXCEPT !.rq = q]
  OBVIOUS
<1>10. PICK g : g = [c EXCEPT !.fin = x]
  OBVIOUS
<1>11. a \in FlowSet
  BY <1>7, FieldTypes
<1>12. b \in FlowSet
  BY <1>8, <1>11, FieldTypes
<1>13. c \in FlowSet
  BY <1>3, <1>9, <1>12, FieldTypes
<1>14. g \in FlowSet
  BY <1>10, <1>13, FieldTypes
<1>15. /\ a.task = f.task /\ a.live = f.live /\ a.negotiated = f.negotiated
       /\ a.outValid = f.outValid /\ a.cancelled = f.cancelled
       /\ a.up = f.up /\ a.down = f.down /\ a.buf = f.buf /\ a.taken = f.taken
  BY <1>7, <1>11 DEF FlowSet
<1>16. /\ b.task = a.task /\ b.live = a.live /\ b.negotiated = a.negotiated
       /\ b.outValid = a.outValid /\ b.cancelled = a.cancelled
       /\ b.up = a.up /\ b.down = a.down /\ b.buf = a.buf /\ b.taken = a.taken
  BY <1>8, <1>11 DEF FlowSet
<1>17. /\ c.task = b.task /\ c.live = b.live /\ c.negotiated = b.negotiated
       /\ c.outValid = b.outValid /\ c.cancelled = b.cancelled
       /\ c.up = b.up /\ c.down = b.down /\ c.buf = b.buf /\ c.taken = b.taken
  BY <1>9, <1>12 DEF FlowSet
<1>18. /\ g.task = c.task /\ g.live = c.live /\ g.negotiated = c.negotiated
       /\ g.outValid = c.outValid /\ g.cancelled = c.cancelled /\ g.fin = x
       /\ g.up = c.up /\ g.down = c.down /\ g.buf = c.buf /\ g.taken = c.taken
  BY <1>10, <1>13 DEF FlowSet
<1>19. f.task \notin {"none", "gone"} /\ f.down # "done"
  BY DEF Sound
<1>20. /\ g.task = f.task /\ g.live = f.live /\ g.negotiated = f.negotiated
       /\ g.outValid = f.outValid /\ g.cancelled = f.cancelled
       /\ g.up = f.up /\ g.down = f.down /\ g.buf = f.buf /\ g.taken = f.taken
  BY <1>15, <1>16, <1>17, <1>18
<1>22. Evolves(f, g)
  BY <1>19, <1>20 DEF Evolves, Sound
<1>23. Ended(g) => r.kind = "CLOSE"
  <2>1. Ended(g) => x = TRUE
    BY <1>18, <1>19, <1>20 DEF Ended
  <2> QED
    BY <1>4, <2>1, Zenon
<1>21. Enqueued(f, r) = g
  BY <1>2, <1>4, <1>5, <1>6, <1>7, <1>8, <1>9, <1>10, Zenon DEF Enqueued
<1> QED
  BY <1>14, <1>20, <1>21, <1>22, <1>23

\* DATA that meets no flow of the server's table belongs to a dead stream.
LEMMA UnknownIsDead ==
  ASSUME FInv, wire["c"] # <<>>, Head(wire["c"]).kind = "DATA",
         NEW i \in Sids, Head(wire["c"]).sid = i, flow["s"][i].live = FALSE
  PROVE  Dead(flow["s"][i])
<1>1. "s" \in Ends /\ "c" \in Ends /\ wire["c"] \in Seq(WireRecords)
  BY DEF FInv, Values, Ends
<1>2. Holds(wire["c"], "DATA", i) /\ ~After(wire["c"], i)
  BY <1>1, TailFacts DEF TailOrder
<1>3. flow["s"][i].task # "none"
  BY <1>2 DEF FInv, OpenFirst, Unopened
<1>4. flow["s"][i] \in FlowSet /\ Sound(flow["s"][i])
  BY <1>1, FlowFacts
<1>5. ~Ended(flow["s"][i])
  BY <1>2 DEF FInv, EndedIsQuiet, Quiet
<1>6. flow["s"][i].task # "gone" => flow["s"][i].outValid = FALSE
  BY <1>3, <1>4 DEF Sound
<1> QED
  BY <1>3, <1>4, <1>5, <1>6 DEF Dead, Ended, FlowSet

\* DATA and CLOSE.
LEMMA PayloadKeeps ==
  ASSUME FInv, NEW e \in Ends, DispatchPayload(e)
  PROVE  FInv'
<1>1. /\ wire[Peer(e)] # <<>> /\ Head(wire[Peer(e)]).kind \in {"DATA", "CLOSE"}
      /\ wire' = [wire EXCEPT ![Peer(e)] = Tail(@)]
      /\ UNCHANGED <<neg, nextSid>>
  BY DEF DispatchPayload, Arrives
<1>2. PICK i \in Sids : i = Arrived(e).sid
  BY <1>1, ArrivedTyped DEF Arrived
<1> DEFINE f == flow[e][i]
           r == Arrived(e)
           fit == Fits(f, e, r.data)
           c == WindowFits(f, e, r.data)
<1>3. f \in FlowSet /\ Sound(f) /\ r.data \in Seq(Int)
  BY <1>1, FlowFacts, ArrivedTyped
<1>t. f.live \in BOOLEAN /\ f.fin \in BOOLEAN /\ f.cancelled \in BOOLEAN /\ f.overrun \in BOOLEAN
  BY <1>3 DEF FlowSet
<1>4. CASE f.live = FALSE
  <2>1. /\ UNCHANGED flow
        /\ IF e = "s" /\ r.kind = "DATA"
           THEN ReaderControl(e, RstRecord(i, FALSE))
           ELSE UNCHANGED <<ctl, run, sess, out>>
    BY <1>2, <1>4 DEF DispatchPayload
  <2>2. /\ flow' \in [Ends -> [Sids -> FlowSet]] /\ FlowsEvolve
        /\ \A k \in Sids : Ended(flow'["s"][k]) => Ended(flow["s"][k])
    BY <2>1, SameFlows
  <2>3. neg' \in [Ends -> {"pending", "legacy", "credit"}]
    BY <1>1 DEF FInv, Values
  <2>4. ReaderQueues(e)
    <3>1. CASE e = "s" /\ r.kind = "DATA"
      <4>1. Dead(flow["s"][i])
        BY <1>1, <1>2, <1>4, <3>1, UnknownIsDead DEF Peer, Arrived
      <4>2. Dead(flow'[e][i])
        BY <2>1, <3>1, <4>1
      <4> QED
        BY <2>1, <3>1, <4>2, RstTyped DEF ReaderQueues
    <3>2. CASE ~(e = "s" /\ r.kind = "DATA")
      BY <2>1, <3>2 DEF ReaderQueues
    <3> QED
      BY <3>1, <3>2
  <2> QED
    BY <1>1, <2>2, <2>3, <2>4, ReaderStep
<1>5. CASE f.live = TRUE /\ f.fin = FALSE /\ f.cancelled = FALSE /\ fit
  <2>1. /\ flow' = [flow EXCEPT ![e][i] = Enqueued(f, r)]
        /\ UNCHANGED <<ctl, run, sess, out>>
    BY <1>2, <1>5 DEF DispatchPayload
  <2>2. PICK g : g = Enqueued(f, r)
    OBVIOUS
  <2>3. /\ g \in FlowSet /\ Evolves(f, g) /\ g.task = f.task
        /\ Ended(g) => r.kind = "CLOSE"
    BY <1>3, <1>5, <2>2, EnqueuedFacts
  <2>4. Becomes(e, i, g)
    BY <2>1, <2>2, <2>3 DEF Becomes
  <2>5. ReaderQueues(e)
    BY <2>1 DEF ReaderQueues
  <2>6. ASSUME e = "s", Ended(g)
        PROVE  Quiet(i)'
    <3>1. "c" \in Ends /\ wire \in [Ends -> Seq(WireRecords)]
      BY DEF FInv, Values, Ends
    <3>2. /\ wire["c"] # <<>> /\ Head(wire["c"]).kind = "CLOSE" /\ Head(wire["c"]).sid = i
          /\ wire'["c"] = Tail(wire["c"])
      BY <1>1, <1>2, <2>3, <2>6, <3>1 DEF Peer, Arrived
    <3>3. Holds(wire["c"], "CLOSE", i) /\ ~Holds(wire'["c"], "DATA", i)
      BY <3>1, <3>2, TailFacts DEF FInv, CloseLast, TailOrder
    <3>4. flow["c"][i].up = "done" /\ ~Holds(out["c"], "DATA", i)
      BY <3>3 DEF FInv, CloseLast
    <3>5. flow'["c"][i] = flow["c"][i]
      BY <2>4, <2>6, <3>1, OneFlow
    <3>6. out' = out
      BY <2>1
    <3> QED
      BY <3>3, <3>4, <3>5, <3>6 DEF Quiet
  <2> QED
    BY <1>1, <2>4, <2>5, <2>6, ReaderFlow
<1>6. CASE f.live = TRUE /\ ~(f.fin = FALSE /\ f.cancelled = FALSE /\ fit)
  <2>1. PICK o \in BOOLEAN : o = (f.overrun \/ ~c)
    OBVIOUS
  <2>2. PICK g : g = [Finish(f, FALSE) EXCEPT !.overrun = o]
    OBVIOUS
  <2>3. /\ flow' = [flow EXCEPT ![e][i] = g]
        /\ ReaderControl(e, RstRecord(i, TRUE))
    <3>1. /\ flow' = [flow EXCEPT ![e][i] = [Finish(f, FALSE) EXCEPT !.overrun = f.overrun \/ ~c]]
          /\ ReaderControl(e, RstRecord(i, TRUE))
      <4>1. f.live /\ ~(f.live /\ ~f.fin /\ ~f.cancelled /\ fit)
        BY <1>t, <1>6
      <4> QED
        BY <1>2, <4>1, Zenon DEF DispatchPayload
    <3> QED
      BY <2>1, <2>2, <3>1, Zenon
  <2>4. /\ g \in FlowSet /\ Evolves(f, g) /\ g.task = f.task
        /\ Ended(g) => Ended(f)
        /\ Dead(g)
    BY <1>3, <1>6, <2>2, FinishedFacts
  <2>5. Becomes(e, i, g)
    BY <2>3, <2>4 DEF Becomes
  <2>6. ReaderQueues(e)
    <3>1. flow'[e][i] = g
      BY <2>5, OneFlow
    <3>2. PICK d \in CtlRecords : d = RstRecord(i, TRUE) /\ d.sid = i
      BY RstTyped
    <3>3. ReaderControl(e, d) /\ Dead(flow'[e][d.sid])
      BY <2>3, <2>4, <3>1, <3>2
    <3> QED
      BY <3>3, Zenon DEF ReaderQueues
  <2> QED
    BY <1>1, <2>4, <2>5, <2>6, ReaderFlow
<1> QED
  BY <1>t, <1>4, <1>5, <1>6

-----------------------------------------------------------------------------
(* Steps that send.                                                        *)

\* f sends r and becomes g: an OPEN is the first record of a stream, DATA comes
\* before the FIN, and a CLOSE is the FIN.
Sends(e, f, r, g) ==
  /\ g \in FlowSet /\ Sound(g) /\ r \in OutRecords
  /\ g.live = f.live /\ g.negotiated = f.negotiated /\ g.outValid = f.outValid /\ g.fin = f.fin
  /\ g.task = "bridged"
  /\ \/ r.kind = "OPEN" /\ e = "c" /\ f.task = "opening" /\ g.up = f.up
     \/ r.kind = "DATA" /\ f.task = "bridged" /\ f.up = "run" /\ g.up = "run"
     \/ r.kind = "CLOSE" /\ f.task = "bridged" /\ f.up = "eof" /\ g.up = "done"

\* A send keeps the invariant.
LEMMA SendStep ==
  ASSUME FInv, NEW e \in Ends, NEW i \in Sids, NEW r, NEW g, r.sid = i, run[e] = TRUE,
         Sends(e, flow[e][i], r, g),
         flow' = [flow EXCEPT ![e][i] = g],
         out' = [out EXCEPT ![e] = Append(@, r)],
         UNCHANGED <<run, sess, neg, nextSid, ctl, wire>>
  PROVE  FInv'
<1>0. Values /\ "c" \in Ends /\ "s" \in Ends
  BY DEF FInv, Ends
<1>1. /\ flow' \in [Ends -> [Sids -> FlowSet]]
      /\ flow'[e][i] = g
      /\ \A d \in Ends, k \in Sids : ~(d = e /\ k = i) => flow'[d][k] = flow[d][k]
  BY <1>0 DEF Values, Sends
<1>2. /\ out' \in [Ends -> Seq(OutRecords)]
      /\ out'[e] = Append(out[e], r)
      /\ \A d \in Ends : d # e => out'[d] = out[d]
  BY <1>0 DEF Values, Sends
<1>3. Values'
  BY <1>0, <1>1, <1>2 DEF Values
<1>4. FlowsSound'
  BY <1>1 DEF FInv, FlowsSound, Sends
<1>5. /\ \A d \in Ends, k \in Sids :
           /\ flow'[d][k].live = flow[d][k].live
           /\ flow'[d][k].negotiated = flow[d][k].negotiated
           /\ flow'[d][k].outValid = flow[d][k].outValid
           /\ flow'[d][k].task = "none" <=> flow[d][k].task = "none"
           /\ d = "s" => flow'[d][k].fin = flow[d][k].fin /\ flow'[d][k].task = flow[d][k].task
  BY <1>1 DEF Sends
<1>6. \A d \in Ends, k \in Sids : Dead(flow'[d][k]) <=> Dead(flow[d][k])
  BY <1>5 DEF Dead
<1>7. ResetsAreDead'
  <2>1. \A d \in Ends : /\ ctl[d] \in Seq(CtlRecords) /\ wire[d] \in Seq(WireRecords)
                        /\ CtlRecords \subseteq WireRecords
    BY <1>0 DEF Values, WireRecords
  <2>2. \A d \in Ends : /\ \A k \in 1..Len(ctl[d]) : ctl[d][k].kind = "RST" => ctl[d][k].sid \in Sids
                        /\ \A k \in 1..Len(wire[d]) : wire[d][k].kind = "RST" => wire[d][k].sid \in Sids
    BY <2>1, SidOfReset
  <2> QED
    BY <1>6, <2>2 DEF FInv, ResetsAreDead
<1>8. ResetIsLast'
  <2>1. \A d \in Ends : \A k \in DOMAIN wire[d] : wire[d][k].kind = "RST" => wire[d][k].sid \in Sids
    <3>1. \A d \in Ends : wire[d] \in Seq(WireRecords)
      BY <1>0 DEF Values
    <3> QED
      BY <3>1, SidOfReset
  <2> QED
    BY <1>5, <2>1 DEF FInv, ResetIsLast
<1>9. NoStreamAfterShutdown'
  BY <1>5 DEF FInv, NoStreamAfterShutdown, Live
<1>10. CASE e = "s"
  <2>1. /\ out'["c"] = out["c"] /\ \A k \in Sids : flow'["c"][k] = flow["c"][k]
        /\ \A k \in Sids : Unopened(k)' <=> Unopened(k)
    BY <1>0, <1>1, <1>2, <1>5, <1>10 DEF Unopened
  <2>2. OpenOnce' /\ OpenFirst' /\ CloseLast'
    BY <2>1 DEF FInv, OpenOnce, OpenFirst, CloseLast
  <2>3. \A k \in Sids : Ended(flow'["s"][k]) => Ended(flow["s"][k])
    BY <1>0, <1>5 DEF Ended
  <2>4. EndedIsQuiet'
    BY <2>1, <2>3 DEF FInv, EndedIsQuiet, Quiet
  <2> QED
    BY <1>3, <1>4, <1>7, <1>8, <1>9, <2>2, <2>4 DEF FInv
<1>11. CASE e = "c"
  <2> DEFINE f == flow["c"][i]
  <2>1. /\ flow'["c"][i] = g /\ \A k \in Sids : k # i => flow'["c"][k] = flow["c"][k]
        /\ \A k \in Sids : flow'["s"][k] = flow["s"][k]
        /\ \A k \in Sids : Unopened(k)' <=> Unopened(k)
        /\ out["c"] \in Seq(OutRecords)
    BY <1>0, <1>1, <1>11 DEF Unopened, Values
  <2>2. PICK q \in Seq(OutRecords) : q = out["c"]
    BY <2>1
  <2>3. PICK t : t = out'["c"] /\ t = Append(q, r)
    BY <1>2, <1>11, <2>2
  <2>4. r \in OutRecords
    BY DEF Sends
  <2>5. /\ \A kind, k : Holds(t, kind, k) <=> Holds(q, kind, k) \/ (r.kind = kind /\ i = k)
        /\ Single(q) /\ (r.kind = "OPEN" => ~Holds(q, "OPEN", i)) => Single(t)
        /\ Closed(q) /\ (r.kind = "DATA" => ~Holds(q, "CLOSE", i)) => Closed(t)
        /\ \A k : After(q, k) /\ (i = k /\ r.kind \in {"DATA", "CLOSE"} => Holds(q, "OPEN", k))
                     => After(t, k)
    <3>1. AppendOrder(q, r)
      BY <2>4, AppendFacts
    <3> QED
      BY <2>3, <3>1 DEF AppendOrder
  <2>6. \/ r.kind = "OPEN" /\ f.task = "opening" /\ g.up = f.up
        \/ r.kind = "DATA" /\ f.task = "bridged" /\ f.up = "run" /\ g.up = "run"
        \/ r.kind = "CLOSE" /\ f.task = "bridged" /\ f.up = "eof" /\ g.up = "done"
    BY <1>11 DEF Sends
  <2>7. g.task = "bridged" /\ g.outValid = f.outValid
    BY <1>11 DEF Sends
  <2>w. wire' = wire /\ run' = run /\ run["c"] = TRUE
    BY <1>11
  <2> HIDE DEF f
  <2>8. OpenOnce'
    <3>1. r.kind = "OPEN" => Unopened(i) /\ ~Holds(q, "OPEN", i) /\ ~Holds(wire["c"], "OPEN", i)
      BY <2>2, <2>6 DEF FInv, OpenOnce, f
    <3>2. \A k \in Sids : flow'["c"][k].task \in {"none", "opening"} => Unopened(k)'
      BY <2>1, <2>7 DEF FInv, OpenOnce
    <3>3. \A k \in Sids : Holds(wire'["c"], "OPEN", k) \/ Holds(t, "OPEN", k) =>
            Unopened(k)' /\ flow'["c"][k].task \notin {"none", "opening"}
      BY <2>1, <2>2, <2>5, <2>7, <2>w, <3>1 DEF FInv, OpenOnce
    <3>4. \A k \in Sids : ~(Holds(wire'["c"], "OPEN", k) /\ Holds(t, "OPEN", k))
      BY <2>2, <2>5, <2>w, <3>1 DEF FInv, OpenOnce
    <3>5. Single(wire'["c"]) /\ Single(t)
      BY <2>2, <2>5, <2>w, <3>1 DEF FInv, OpenOnce
    <3> QED
      BY <2>3, <3>2, <3>3, <3>4, <3>5 DEF OpenOnce
  <2>9. OpenFirst'
    <3> SUFFICES ASSUME NEW k \in Sids, Unopened(k)
                 PROVE  /\ After(wire["c"], k)
                        /\ flow'["c"][k].outValid = TRUE =>
                             /\ Holds(wire["c"], "OPEN", k) \/ After(t, k)
                             /\ flow'["c"][k].task = "bridged" /\ run["c"] = TRUE =>
                                  Holds(wire["c"], "OPEN", k) \/ Holds(t, "OPEN", k)
      BY <2>1, <2>3, <2>w DEF OpenFirst
    <3>1. /\ After(wire["c"], k)
          /\ flow["c"][k].outValid = TRUE =>
               /\ Holds(wire["c"], "OPEN", k) \/ After(q, k)
               /\ flow["c"][k].task = "bridged" /\ run["c"] = TRUE =>
                    Holds(wire["c"], "OPEN", k) \/ Holds(q, "OPEN", k)
      BY <2>2 DEF FInv, OpenFirst
    <3>2. CASE k # i
      BY <2>1, <2>5, <3>1, <3>2
    <3>3. CASE k = i
      BY <2>1, <2>5, <2>6, <2>7, <2>w, <3>1, <3>3 DEF f
    <3> QED
      BY <3>2, <3>3
  <2>10. CloseLast'
    <3>1. \/ f.up # "done" /\ ~Holds(wire["c"], "CLOSE", i) /\ ~Holds(q, "CLOSE", i)
          \/ r.kind = "OPEN"
      BY <2>2, <2>6 DEF FInv, CloseLast, f
    <3>2. Closed(wire["c"]) /\ Closed(t)
      BY <2>2, <2>5, <3>1 DEF FInv, CloseLast
    <3>3. \A k \in Sids : ~(Holds(wire["c"], "CLOSE", k) /\ Holds(t, "DATA", k))
      BY <2>2, <2>5, <3>1 DEF FInv, CloseLast
    <3>4. \A k \in Sids : Holds(wire["c"], "CLOSE", k) \/ Holds(t, "CLOSE", k) => flow'["c"][k].up = "done"
      <4>1. \A k \in Sids : Holds(wire["c"], "CLOSE", k) \/ Holds(q, "CLOSE", k) => flow["c"][k].up = "done"
        BY <2>2 DEF FInv, CloseLast
      <4> QED
        BY <2>1, <2>5, <2>6, <4>1 DEF f
    <3> QED
      BY <2>3, <2>w, <3>2, <3>3, <3>4 DEF CloseLast
  <2>11. EndedIsQuiet'
    <3> SUFFICES ASSUME NEW k \in Sids, Ended(flow["s"][k])
                 PROVE  /\ flow'["c"][k].up = "done"
                        /\ ~Holds(wire["c"], "DATA", k) /\ ~Holds(t, "DATA", k)
      BY <2>1, <2>3, <2>w DEF EndedIsQuiet, Quiet
    <3>1. /\ flow["c"][k].up = "done"
          /\ ~Holds(wire["c"], "DATA", k) /\ ~Holds(q, "DATA", k)
      BY <2>2 DEF FInv, EndedIsQuiet, Quiet
    <3> QED
      BY <2>1, <2>5, <2>6, <3>1 DEF f
  <2> QED
    BY <1>3, <1>4, <1>7, <1>8, <1>9, <2>8, <2>9, <2>10, <2>11 DEF FInv
<1> QED
  BY <1>10, <1>11 DEF Ends

\* OPEN, DATA and CLOSE enter the output lane.
LEMMA SendKeeps ==
  ASSUME FInv, NEW e \in Ends, NEW i \in Sids,
         (e = "c" /\ SendOpen(i)) \/ SendData(e, i) \/ SendClose(e, i)
  PROVE  FInv'
<1> DEFINE f == flow[e][i]
<1>f. f \in FlowSet /\ Sound(f)
  BY FlowFacts
<1>t. f.negotiated \in BOOLEAN /\ f.taken \in Seq(Int)
  BY <1>f DEF FlowSet
<1>r. run[e] \in BOOLEAN
  BY DEF FInv, Values
<1>1. CASE e = "c" /\ SendOpen(i)
  <2>1. /\ f.task = "opening" /\ run[e] = TRUE
        /\ out' = [out EXCEPT ![e] = Append(@, OpenRecord(i, f.negotiated))]
        /\ flow' = [flow EXCEPT ![e][i].task = "bridged"]
        /\ UNCHANGED <<run, sess, neg, nextSid, ctl, wire>>
    BY <1>1, <1>r DEF SendOpen, Send
  <2>2. PICK r : r = OpenRecord(i, f.negotiated)
    OBVIOUS
  <2>3. r \in OutRecords /\ r.sid = i /\ r.kind = "OPEN"
    <3>1. <<>> \in Seq(Int) /\ 0 \in Int
      OBVIOUS
    <3> QED
      BY <1>t, <2>2, <3>1 DEF OpenRecord, Record, OutRecords, RecordsOf
  <2> HIDE DEF f
  <2>4. PICK g : g = [f EXCEPT !.task = "bridged"]
    OBVIOUS
  <2>5. g \in FlowSet
    BY <1>f, <2>4, FieldTypes
  <2>6. /\ g.task = "bridged" /\ g.live = f.live /\ g.negotiated = f.negotiated
        /\ g.outValid = f.outValid /\ g.cancelled = f.cancelled /\ g.fin = f.fin
        /\ g.up = f.up /\ g.down = f.down /\ g.buf = f.buf /\ g.taken = f.taken
    BY <1>f, <2>4 DEF FlowSet
  <2>7. Sound(g)
    BY <1>f, <2>1, <2>6 DEF Sound
  <2>8. Sends(e, f, r, g)
    BY <1>1, <2>1, <2>3, <2>5, <2>6, <2>7 DEF Sends
  <2>9. flow' = [flow EXCEPT ![e][i] = g]
    BY <2>1, <2>4 DEF f
  <2>10. out' = [out EXCEPT ![e] = Append(@, r)] /\ Sends(e, flow[e][i], r, g)
    BY <2>1, <2>2, <2>8 DEF f
  <2> QED
    BY <2>1, <2>3, <2>9, <2>10, SendStep
<1>2. CASE SendData(e, i)
  <2>1. /\ f.task = "bridged" /\ run[e] = TRUE /\ f.taken # <<>>
        /\ out' = [out EXCEPT ![e] = Append(@, DataRecord(i, f.taken))]
        /\ flow' = [flow EXCEPT ![e][i].taken = <<>>]
        /\ UNCHANGED <<run, sess, neg, nextSid, ctl, wire>>
    BY <1>2, <1>r DEF SendData, Send, Bridged
  <2>2. PICK r : r = DataRecord(i, f.taken)
    OBVIOUS
  <2>3. r \in OutRecords /\ r.sid = i /\ r.kind = "DATA"
    <3>1. 0 \in Int
      OBVIOUS
    <3> QED
      BY <1>t, <2>2, <3>1 DEF DataRecord, Record, OutRecords, RecordsOf
  <2> HIDE DEF f
  <2>4. PICK g : g = [f EXCEPT !.taken = <<>>]
    OBVIOUS
  <2>5. g \in FlowSet
    <3>1. <<>> \in Seq(Int)
      OBVIOUS
    <3> QED
      BY <1>f, <2>4, <3>1, FieldTypes, Zenon
  <2>6. /\ g.task = f.task /\ g.live = f.live /\ g.negotiated = f.negotiated
        /\ g.outValid = f.outValid /\ g.cancelled = f.cancelled /\ g.fin = f.fin
        /\ g.up = f.up /\ g.down = f.down /\ g.buf = f.buf /\ g.taken = <<>>
    BY <1>f, <2>4 DEF FlowSet
  <2>7. Sound(g) /\ f.up = "run"
    <3>1. f.up \in {"run", "eof", "done"}
      BY <1>f DEF FlowSet
    <3>2. f.up = "run"
      BY <1>f, <2>1, <3>1 DEF Sound
    <3> QED
      BY <1>f, <2>1, <2>6, <3>2 DEF Sound
  <2>8. Sends(e, f, r, g)
    BY <2>1, <2>3, <2>5, <2>6, <2>7 DEF Sends
  <2>9. flow' = [flow EXCEPT ![e][i] = g]
    BY <2>1, <2>4 DEF f
  <2>10. out' = [out EXCEPT ![e] = Append(@, r)] /\ Sends(e, flow[e][i], r, g)
    BY <2>1, <2>2, <2>8 DEF f
  <2> QED
    BY <2>1, <2>3, <2>9, <2>10, SendStep
<1>3. CASE SendClose(e, i)
  <2>1. /\ f.task = "bridged" /\ run[e] = TRUE /\ f.up = "eof"
        /\ out' = [out EXCEPT ![e] = Append(@, CloseRecord(i))]
        /\ flow' = [flow EXCEPT ![e][i].up = "done"]
        /\ UNCHANGED <<run, sess, neg, nextSid, ctl, wire>>
    BY <1>3, <1>r DEF SendClose, Send, Bridged
  <2>2. PICK r : r = CloseRecord(i)
    OBVIOUS
  <2>3. r \in OutRecords /\ r.sid = i /\ r.kind = "CLOSE"
    <3>1. <<>> \in Seq(Int) /\ 0 \in Int
      OBVIOUS
    <3> QED
      BY <2>2, <3>1 DEF CloseRecord, Record, OutRecords, RecordsOf
  <2> HIDE DEF f
  <2>4. PICK g : g = [f EXCEPT !.up = "done"]
    OBVIOUS
  <2>5. g \in FlowSet
    BY <1>f, <2>4, FieldTypes
  <2>6. /\ g.task = f.task /\ g.live = f.live /\ g.negotiated = f.negotiated
        /\ g.outValid = f.outValid /\ g.cancelled = f.cancelled /\ g.fin = f.fin
        /\ g.up = "done" /\ g.down = f.down /\ g.buf = f.buf /\ g.taken = f.taken
    BY <1>f, <2>4 DEF FlowSet
  <2>7. Sound(g)
    BY <1>f, <2>1, <2>6 DEF Sound
  <2>8. Sends(e, f, r, g)
    BY <2>1, <2>3, <2>5, <2>6, <2>7 DEF Sends
  <2>9. flow' = [flow EXCEPT ![e][i] = g]
    BY <2>1, <2>4 DEF f
  <2>10. out' = [out EXCEPT ![e] = Append(@, r)] /\ Sends(e, flow[e][i], r, g)
    BY <2>1, <2>2, <2>8 DEF f
  <2> QED
    BY <2>1, <2>3, <2>9, <2>10, SendStep
<1> QED
  BY <1>1, <1>2, <1>3

-----------------------------------------------------------------------------
(* The writer.                                                             *)

\* The writer feeds h to the wire q, giving w.
Feeds(e, h, q, w) ==
  \/ w = q /\ h.kind # "RST" /\ h.kind # "CAP" /\ flow[e][h.sid].outValid = FALSE
  \/ w = Append(q, h) /\ (h.kind \in {"RST", "CAP"} \/ flow[e][h.sid].outValid = TRUE)

\* The writer drops exactly the records of an invalidated flow.
LEMMA FedFacts ==
  ASSUME FInv, NEW e \in Ends, NEW h \in WireRecords, Fed(e, h)
  PROVE  /\ wire' \in [Ends -> Seq(WireRecords)]
         /\ \A d \in Ends : d # e => wire'[d] = wire[d]
         /\ Feeds(e, h, wire[e], wire'[e])
<1>1. wire \in [Ends -> Seq(WireRecords)]
  BY DEF FInv, Values
<1>2. h.kind \in {"RST", "CAP"} \/ h.owned = TRUE
  BY DEF WireRecords, OutRecords, CtlRecords, RecordsOf
<1>3. h.kind = "CAP" => h.owned = FALSE
  BY DEF WireRecords, OutRecords, CtlRecords, RecordsOf
<1>4. h.kind # "CAP" => flow[e][h.sid].outValid \in BOOLEAN
  <2>1. h.kind # "CAP" => h.sid \in Sids
    BY SidOfReset
  <2>2. h.kind # "CAP" => flow[e][h.sid] \in FlowSet
    BY <2>1, FlowFacts
  <2> QED
    BY <2>2 DEF FlowSet
<1>5. CASE h.kind = "RST" \/ ~h.owned \/ flow[e][h.sid].outValid
  <2>1. wire' = [wire EXCEPT ![e] = Append(@, h)]
    BY <1>5, Zenon DEF Fed
  <2>2. h.kind \in {"RST", "CAP"} \/ flow[e][h.sid].outValid = TRUE
    BY <1>2, <1>4, <1>5
  <2>3. /\ wire' \in [Ends -> Seq(WireRecords)]
        /\ \A d \in Ends : d # e => wire'[d] = wire[d]
        /\ wire'[e] = Append(wire[e], h)
    BY <1>1, <2>1
  <2> QED
    BY <2>2, <2>3 DEF Feeds
<1>6. CASE ~(h.kind = "RST" \/ ~h.owned \/ flow[e][h.sid].outValid)
  <2>1. wire' = wire
    BY <1>6, Zenon DEF Fed
  <2>2. h.kind # "RST" /\ h.kind # "CAP" /\ flow[e][h.sid].outValid = FALSE
    BY <1>3, <1>4, <1>6
  <2> QED
    BY <1>1, <2>1, <2>2 DEF Feeds
<1> QED
  BY <1>5, <1>6

\* What is fed keeps a reset last: the writer drops the rest of a dead stream, or
\* the stream is legacy.
LEMMA FedResets ==
  ASSUME FInv, NEW e \in Ends, NEW h \in WireRecords, Fed(e, h), flow' = flow,
         h.kind = "RST" => Dead(flow[e][h.sid])
  PROVE  /\ \A d \in Ends : \A k \in 1..Len(wire'[d]) :
              wire'[d][k].kind = "RST" => Dead(flow'[d][wire'[d][k].sid])
         /\ ResetIsLast'
<1>1. \A d \in Ends : wire[d] \in Seq(WireRecords)
  BY DEF FInv, Values
<1>2. /\ \A d \in Ends : d # e => wire'[d] = wire[d]
      /\ Feeds(e, h, wire[e], wire'[e])
  BY FedFacts
<1>3. \A d \in Ends : \A k \in 1..Len(wire[d]) : wire[d][k].kind = "RST" => Dead(flow[d][wire[d][k].sid])
  BY DEF FInv, ResetsAreDead
<1>4. CASE wire'[e] = wire[e]
  <2>1. \A d \in Ends : wire'[d] = wire[d]
    BY <1>2, <1>4
  <2> QED
    BY <1>3, <2>1 DEF FInv, ResetIsLast
<1>5. CASE /\ wire'[e] = Append(wire[e], h)
           /\ h.kind \in {"RST", "CAP"} \/ flow[e][h.sid].outValid = TRUE
  <2>1. /\ Len(wire'[e]) = Len(wire[e]) + 1 /\ Len(wire[e]) \in Nat
        /\ wire'[e][Len(wire[e]) + 1] = h
        /\ DOMAIN wire'[e] = 1..(Len(wire[e]) + 1) /\ DOMAIN wire[e] = 1..Len(wire[e])
        /\ \A k \in 1..Len(wire[e]) : wire'[e][k] = wire[e][k]
    BY <1>1, <1>5
  <2>2. \A d \in Ends : \A k \in 1..Len(wire'[d]) :
          wire'[d][k].kind = "RST" => Dead(flow'[d][wire'[d][k].sid])
    <3> SUFFICES ASSUME NEW d \in Ends, NEW k \in 1..Len(wire'[d]), wire'[d][k].kind = "RST"
                 PROVE  Dead(flow[d][wire'[d][k].sid])
      OBVIOUS
    <3>1. CASE d # e
      <4>1. wire'[d] = wire[d]
        BY <1>2, <3>1
      <4> QED
        BY <1>3, <4>1
    <3>2. CASE d = e /\ k \in 1..Len(wire[e])
      <4>1. wire'[d][k] = wire[e][k]
        BY <2>1, <3>2
      <4> QED
        BY <1>3, <3>2, <4>1
    <3>3. CASE d = e /\ k = Len(wire[e]) + 1
      BY <2>1, <3>3
    <3> QED
      BY <2>1, <3>1, <3>2, <3>3
  <2>3. ASSUME NEW d \in Ends, NEW j \in DOMAIN wire'[d], NEW k \in DOMAIN wire'[d],
               j < k, wire'[d][j].kind = "RST", wire'[d][k].kind # "RST",
               wire'[d][k].sid = wire'[d][j].sid
        PROVE  ~flow[d][wire'[d][j].sid].negotiated
    <3>1. CASE d # e
      <4>1. wire'[d] = wire[d]
        BY <1>2, <3>1
      <4> QED
        BY <2>3, <4>1 DEF FInv, ResetIsLast
    <3>2. CASE d = e /\ k \in 1..Len(wire[e])
      <4>1. j \in 1..Len(wire[e])
        BY <2>1, <2>3, <3>2
      <4>2. wire[e][j] = wire'[d][j] /\ wire[e][k] = wire'[d][k]
        BY <2>1, <3>2, <4>1
      <4>3. ~flow[e][wire[e][j].sid].negotiated
        BY <2>1, <2>3, <3>2, <4>1, <4>2 DEF FInv, ResetIsLast
      <4> QED
        BY <3>2, <4>2, <4>3
    <3>3. CASE d = e /\ k = Len(wire[e]) + 1
      <4>1. j \in 1..Len(wire[e]) /\ wire[e][j] = wire'[d][j] /\ wire'[d][k] = h
        BY <2>1, <2>3, <3>3
      <4>2. h.sid \in Sids /\ wire[e][j].sid = h.sid
        <5>1. wire[e][j] \in WireRecords
          BY <1>1, <4>1
        <5>2. wire[e][j].sid = h.sid /\ wire[e][j].kind = "RST"
          BY <2>3, <4>1
        <5>3. wire[e][j].sid \in Sids
          BY <5>1, <5>2, SidOfReset
        <5> QED
          BY <5>2, <5>3
      <4>3. h.kind # "CAP"
        <5>1. 0 \notin Sids
          BY ConstantsAssumption
        <5>2. h.kind = "CAP" => h.sid = 0
          BY DEF WireRecords, OutRecords, CtlRecords, RecordsOf
        <5> QED
          BY <4>2, <5>1, <5>2
      <4>4. flow[e][h.sid].outValid = TRUE /\ Dead(flow[e][h.sid])
        BY <1>3, <1>5, <2>3, <4>1, <4>2, <4>3
      <4>5. flow[e][h.sid].negotiated = FALSE
        BY <4>4 DEF Dead
      <4> QED
        BY <3>3, <4>1, <4>2, <4>5
    <3> QED
      BY <2>1, <3>1, <3>2, <3>3
  <2>4. ResetIsLast'
    BY <2>3 DEF ResetIsLast
  <2> QED
    BY <2>2, <2>4
<1> QED
  BY <1>2, <1>4, <1>5 DEF Feeds

\* A record other than OPEN, DATA and CLOSE changes nothing in the order.
LEMMA SameOrder ==
  ASSUME FInv, flow' = flow, run' = run, out'["c"] = out["c"],
         \A i : \A kind \in {"OPEN", "DATA", "CLOSE"} :
            Holds(wire'["c"], kind, i) <=> Holds(wire["c"], kind, i),
         Single(wire["c"]) => Single(wire'["c"]),
         Closed(wire["c"]) => Closed(wire'["c"]),
         \A i : After(wire["c"], i) => After(wire'["c"], i)
  PROVE  OpenOnce' /\ OpenFirst' /\ CloseLast' /\ EndedIsQuiet'
<1>1. OpenOnce'
  BY DEF FInv, OpenOnce, Unopened
<1>2. OpenFirst'
  BY DEF FInv, OpenFirst, Unopened
<1>3. CloseLast'
  BY DEF FInv, CloseLast
<1>4. EndedIsQuiet'
  BY DEF FInv, EndedIsQuiet, Quiet
<1> QED
  BY <1>1, <1>2, <1>3, <1>4

\* The writer takes a record of the control lane.
LEMMA WriteControlKeeps ==
  ASSUME FInv, NEW e \in Ends, WriteControl(e)
  PROVE  FInv'
<1>0. Values /\ "c" \in Ends
  BY DEF FInv, Ends
<1>1. /\ ctl[e] # <<>> /\ Fed(e, Head(ctl[e])) /\ ctl' = [ctl EXCEPT ![e] = Tail(@)]
      /\ UNCHANGED <<run, sess, neg, nextSid, flow, out>>
  BY DEF WriteControl
<1>2. ctl \in [Ends -> Seq(CtlRecords)]
  BY <1>0 DEF Values
<1>3. PICK h \in CtlRecords : h = Head(ctl[e])
  BY <1>1, <1>2
<1>4. h \in WireRecords /\ Fed(e, h)
  BY <1>1, <1>3 DEF WireRecords
<1>5. /\ ctl' \in [Ends -> Seq(CtlRecords)]
      /\ ctl'[e] = Tail(ctl[e]) /\ \A d \in Ends : d # e => ctl'[d] = ctl[d]
  <2>1. Tail(ctl[e]) \in Seq(CtlRecords)
    BY <1>1, <1>2
  <2> QED
    BY <1>1, <1>2, <2>1
<1>6. /\ wire' \in [Ends -> Seq(WireRecords)]
      /\ \A d \in Ends : d # e => wire'[d] = wire[d]
      /\ Feeds(e, h, wire[e], wire'[e])
  BY <1>4, FedFacts
<1>7. Values'
  BY <1>0, <1>1, <1>5, <1>6 DEF Values
<1>8. \A d \in Ends : \A k \in 1..Len(ctl[d]) : ctl[d][k].kind = "RST" => Dead(flow[d][ctl[d][k].sid])
  BY DEF FInv, ResetsAreDead
<1>9. h.kind = "RST" => Dead(flow[e][h.sid])
  <2>1. h = ctl[e][1] /\ 1 \in 1..Len(ctl[e])
    BY <1>1, <1>2, <1>3
  <2> QED
    BY <1>8, <2>1
<1>10. /\ \A d \in Ends : \A k \in 1..Len(wire'[d]) :
            wire'[d][k].kind = "RST" => Dead(flow'[d][wire'[d][k].sid])
       /\ ResetIsLast'
  BY <1>1, <1>4, <1>9, FedResets
<1>11. ResetsAreDead'
  <2>1. \A d \in Ends : \A k \in 1..Len(ctl'[d]) : \E j \in 1..Len(ctl[d]) : ctl'[d][k] = ctl[d][j]
    <3> SUFFICES ASSUME NEW d \in Ends, NEW k \in 1..Len(ctl'[d])
                 PROVE  \E j \in 1..Len(ctl[d]) : ctl'[d][k] = ctl[d][j]
      OBVIOUS
    <3>1. CASE d # e
      BY <1>5, <3>1
    <3>2. CASE d = e
      <4>1. k + 1 \in 1..Len(ctl[e]) /\ ctl'[e][k] = ctl[e][k + 1]
        BY <1>1, <1>2, <1>5, <3>2
      <4> QED
        BY <3>2, <4>1
    <3> QED
      BY <3>1, <3>2
  <2>2. \A d \in Ends : \A k \in 1..Len(ctl'[d]) : ctl'[d][k].kind = "RST" => Dead(flow[d][ctl'[d][k].sid])
    <3> SUFFICES ASSUME NEW d \in Ends, NEW k \in 1..Len(ctl'[d]), ctl'[d][k].kind = "RST"
                 PROVE  Dead(flow[d][ctl'[d][k].sid])
      OBVIOUS
    <3>1. PICK j \in 1..Len(ctl[d]) : ctl'[d][k] = ctl[d][j]
      BY <2>1
    <3> QED
      BY <1>8, <3>1
  <2> QED
    BY <1>1, <1>10, <2>2 DEF ResetsAreDead
<1>12. FlowsSound' /\ NoStreamAfterShutdown'
  BY <1>1 DEF FInv, FlowsSound, NoStreamAfterShutdown, Live
<1>13. OpenOnce' /\ OpenFirst' /\ CloseLast' /\ EndedIsQuiet'
  <2>1. CASE wire'["c"] = wire["c"]
    BY <1>1, <2>1, SameOrder
  <2>2. CASE wire'["c"] = Append(wire["c"], h)
    <3>1. wire["c"] \in Seq(WireRecords)
      BY <1>0 DEF Values
    <3>2. h.kind \in {"CAP", "WIN", "RST"}
      BY DEF CtlRecords, RecordsOf
    <3>3. AppendOrder(wire["c"], h)
      BY <1>4, <3>1, AppendFacts
    <3>4. /\ \A i : \A kind \in {"OPEN", "DATA", "CLOSE"} :
               Holds(wire'["c"], kind, i) <=> Holds(wire["c"], kind, i)
          /\ Single(wire["c"]) => Single(wire'["c"])
          /\ Closed(wire["c"]) => Closed(wire'["c"])
          /\ \A i : After(wire["c"], i) => After(wire'["c"], i)
      BY <2>2, <3>2, <3>3 DEF AppendOrder
    <3> QED
      BY <1>1, <3>4, SameOrder
  <2> QED
    BY <1>0, <1>6, <2>1, <2>2 DEF Feeds
<1> QED
  BY <1>7, <1>10, <1>11, <1>12, <1>13 DEF FInv

\* The writer takes a record of the output lane.
LEMMA WriteOutputKeeps ==
  ASSUME FInv, NEW e \in Ends, WriteOutput(e)
  PROVE  FInv'
<1>0. Values /\ "c" \in Ends
  BY DEF FInv, Ends
<1>1. /\ out[e] # <<>> /\ Fed(e, Head(out[e])) /\ out' = [out EXCEPT ![e] = Tail(@)]
      /\ UNCHANGED <<run, sess, neg, nextSid, flow, ctl>>
  BY DEF WriteOutput
<1>2. out \in [Ends -> Seq(OutRecords)]
  BY <1>0 DEF Values
<1>3. PICK h \in OutRecords : h = Head(out[e])
  BY <1>1, <1>2
<1>4. h \in WireRecords /\ Fed(e, h)
  BY <1>1, <1>3 DEF WireRecords
<1>5. /\ out' \in [Ends -> Seq(OutRecords)]
      /\ out'[e] = Tail(out[e]) /\ \A d \in Ends : d # e => out'[d] = out[d]
  <2>1. Tail(out[e]) \in Seq(OutRecords)
    BY <1>1, <1>2
  <2> QED
    BY <1>1, <1>2, <2>1
<1>6. /\ wire' \in [Ends -> Seq(WireRecords)]
      /\ \A d \in Ends : d # e => wire'[d] = wire[d]
      /\ Feeds(e, h, wire[e], wire'[e])
  BY <1>4, FedFacts
<1>7. Values'
  BY <1>0, <1>1, <1>5, <1>6 DEF Values
<1>8. h.kind \in {"OPEN", "DATA", "CLOSE"} /\ h.sid \in Sids
  BY DEF OutRecords, RecordsOf
<1>9. /\ \A d \in Ends : \A k \in 1..Len(wire'[d]) :
           wire'[d][k].kind = "RST" => Dead(flow'[d][wire'[d][k].sid])
      /\ ResetIsLast'
  BY <1>1, <1>4, <1>8, FedResets
<1>10. ResetsAreDead'
  BY <1>1, <1>9 DEF FInv, ResetsAreDead
<1>11. FlowsSound' /\ NoStreamAfterShutdown'
  BY <1>1 DEF FInv, FlowsSound, NoStreamAfterShutdown, Live
<1>12. CASE e # "c"
  <2>1. wire'["c"] = wire["c"] /\ out'["c"] = out["c"]
    BY <1>0, <1>5, <1>6, <1>12
  <2>2. OpenOnce' /\ OpenFirst' /\ CloseLast' /\ EndedIsQuiet'
    BY <1>1, <2>1, SameOrder
  <2> QED
    BY <1>7, <1>9, <1>10, <1>11, <2>2 DEF FInv
<1>13. CASE e = "c"
  <2>1. PICK q \in Seq(OutRecords) : q = out["c"] /\ q # <<>> /\ h = Head(q)
    BY <1>0, <1>1, <1>2, <1>3, <1>13
  <2>2. PICK t : t = Tail(q) /\ t = out'["c"]
    BY <1>5, <1>13, <2>1
  <2>3. PICK w \in Seq(WireRecords) : w = wire["c"]
    BY <1>0 DEF Values
  <2>4. PICK v : v = wire'["c"]
    OBVIOUS
  <2>5. /\ Holds(q, h.kind, h.sid)
        /\ \A kind, i : Holds(t, kind, i) => Holds(q, kind, i)
        /\ \A kind, i : Holds(q, kind, i) => Holds(t, kind, i) \/ (h.kind = kind /\ h.sid = i)
        /\ Single(q) => Single(t) /\ (h.kind = "OPEN" => ~Holds(t, "OPEN", h.sid))
        /\ Closed(q) => Closed(t) /\ (h.kind = "CLOSE" => ~Holds(t, "DATA", h.sid))
        /\ \A i : After(q, i) => ~(h.sid = i /\ h.kind \in {"DATA", "CLOSE"})
        /\ \A i : After(q, i) /\ ~(h.sid = i /\ h.kind = "OPEN") => After(t, i)
    <3>1. TailOrder(q)
      BY <2>1, TailFacts
    <3> QED
      BY <1>8, <2>1, <2>2, <3>1 DEF TailOrder
  <2>6. \/ v = w /\ flow["c"][h.sid].outValid = FALSE
        \/ v = Append(w, h) /\ flow["c"][h.sid].outValid = TRUE
    BY <1>6, <1>8, <1>13, <2>3, <2>4 DEF Feeds
  <2>7. AppendOrder(w, h)
    BY <1>4, <2>3, AppendFacts
  <2>8. /\ \A kind, i : Holds(v, kind, i) => Holds(w, kind, i) \/ (h.kind = kind /\ h.sid = i)
        /\ \A kind, i : Holds(w, kind, i) => Holds(v, kind, i)
        /\ flow["c"][h.sid].outValid = TRUE => Holds(v, h.kind, h.sid)
        /\ Single(w) /\ (h.kind = "OPEN" => ~Holds(w, "OPEN", h.sid)) => Single(v)
        /\ Closed(w) /\ (h.kind = "DATA" => ~Holds(w, "CLOSE", h.sid)) => Closed(v)
        /\ \A i : /\ After(w, i)
                  /\ h.sid = i /\ h.kind \in {"DATA", "CLOSE"} /\ flow["c"][h.sid].outValid = TRUE
                        => Holds(w, "OPEN", i)
                  => After(v, i)
    BY <2>6, <2>7 DEF AppendOrder
  <2>9. OpenOnce'
    <3>1. /\ \A i \in Sids : flow["c"][i].task \in {"none", "opening"} => Unopened(i)
          /\ \A i \in Sids :
               Holds(w, "OPEN", i) \/ Holds(q, "OPEN", i) =>
                 Unopened(i) /\ flow["c"][i].task \notin {"none", "opening"}
          /\ \A i \in Sids : ~(Holds(w, "OPEN", i) /\ Holds(q, "OPEN", i))
          /\ Single(w) /\ Single(q)
      BY <2>1, <2>3 DEF FInv, OpenOnce
    <3>2. /\ \A i \in Sids :
               Holds(v, "OPEN", i) \/ Holds(t, "OPEN", i) =>
                 Unopened(i) /\ flow["c"][i].task \notin {"none", "opening"}
          /\ \A i \in Sids : ~(Holds(v, "OPEN", i) /\ Holds(t, "OPEN", i))
          /\ Single(v) /\ Single(t)
      BY <1>8, <2>5, <2>8, <3>1
    <3> QED
      BY <1>1, <2>2, <2>4, <3>1, <3>2 DEF OpenOnce, Unopened
  <2>10. OpenFirst'
    <3> SUFFICES ASSUME NEW i \in Sids, Unopened(i)
                 PROVE  /\ After(v, i)
                        /\ flow["c"][i].outValid = TRUE =>
                             /\ Holds(v, "OPEN", i) \/ After(t, i)
                             /\ flow["c"][i].task = "bridged" /\ run["c"] = TRUE =>
                                  Holds(v, "OPEN", i) \/ Holds(t, "OPEN", i)
      BY <1>1, <2>2, <2>4 DEF OpenFirst, Unopened
    <3>1. /\ After(w, i)
          /\ flow["c"][i].outValid = TRUE =>
               /\ Holds(w, "OPEN", i) \/ After(q, i)
               /\ flow["c"][i].task = "bridged" /\ run["c"] = TRUE =>
                    Holds(w, "OPEN", i) \/ Holds(q, "OPEN", i)
      BY <2>1, <2>3 DEF FInv, OpenFirst
    <3>2. After(v, i)
      BY <2>5, <2>8, <3>1
    <3>3. flow["c"][i].outValid = TRUE => Holds(v, "OPEN", i) \/ After(t, i)
      BY <2>5, <2>8, <3>1
    <3>4. flow["c"][i].outValid = TRUE /\ flow["c"][i].task = "bridged" /\ run["c"] = TRUE =>
            Holds(v, "OPEN", i) \/ Holds(t, "OPEN", i)
      BY <2>5, <2>8, <3>1
    <3> QED
      BY <3>2, <3>3, <3>4
  <2>11. CloseLast'
    <3>1. /\ Closed(w) /\ Closed(q)
          /\ \A i \in Sids : ~(Holds(w, "CLOSE", i) /\ Holds(q, "DATA", i))
          /\ \A i \in Sids :
               Holds(w, "CLOSE", i) \/ Holds(q, "CLOSE", i) => flow["c"][i].up = "done"
      BY <2>1, <2>3 DEF FInv, CloseLast
    <3>2. /\ Closed(v) /\ Closed(t)
          /\ \A i \in Sids : ~(Holds(v, "CLOSE", i) /\ Holds(t, "DATA", i))
          /\ \A i \in Sids :
               Holds(v, "CLOSE", i) \/ Holds(t, "CLOSE", i) => flow["c"][i].up = "done"
      BY <1>8, <2>5, <2>8, <3>1
    <3> QED
      BY <1>1, <2>2, <2>4, <3>2 DEF CloseLast
  <2>12. EndedIsQuiet'
    <3> SUFFICES ASSUME NEW i \in Sids, Ended(flow["s"][i])
                 PROVE  /\ flow["c"][i].up = "done"
                        /\ ~Holds(v, "DATA", i) /\ ~Holds(t, "DATA", i)
      BY <1>1, <2>2, <2>4 DEF EndedIsQuiet, Quiet
    <3>1. /\ flow["c"][i].up = "done"
          /\ ~Holds(w, "DATA", i) /\ ~Holds(q, "DATA", i)
      BY <2>1, <2>3 DEF FInv, EndedIsQuiet, Quiet
    <3> QED
      BY <2>5, <2>8, <3>1
  <2> QED
    BY <1>7, <1>9, <1>10, <1>11, <2>9, <2>10, <2>11, <2>12 DEF FInv
<1> QED
  BY <1>12, <1>13

-----------------------------------------------------------------------------
(* Steps that open.                                                        *)

\* A flow that has just appeared.
Fresh(g) == g \in FlowSet /\ Sound(g) /\ g.task # "none" /\ g.outValid = TRUE /\ ~Ended(g)

\* A stream is admitted.
LEMMA Admitted ==
  ASSUME NEW e \in Ends, NEW n \in BOOLEAN, NEW t \in NewTasks
  PROVE  Fresh(NewFlow(e, t, n)) /\ NewFlow(e, t, n).task = t
<1>1. PICK g : g = NewFlow(e, t, n)
  OBVIOUS
<1>2. /\ NewFlow(e, t, n) \in FlowSet
      /\ NewFlow(e, t, n).task = t /\ NewFlow(e, t, n).live = TRUE
      /\ NewFlow(e, t, n).negotiated = n /\ NewFlow(e, t, n).outValid = TRUE
      /\ NewFlow(e, t, n).fin = FALSE /\ NewFlow(e, t, n).cancelled = FALSE
      /\ NewFlow(e, t, n).up = "run" /\ NewFlow(e, t, n).down = "run"
  BY NewFlowTyped, Zenon
<1>3. /\ g \in FlowSet /\ g.task = t /\ g.live = TRUE /\ g.outValid = TRUE
      /\ g.fin = FALSE /\ g.cancelled = FALSE /\ g.up = "run" /\ g.down = "run"
  BY <1>1, <1>2
<1>4. Fresh(g) /\ g.task = t
  BY <1>3 DEF Fresh, Sound, Ended, NewTasks
<1> QED
  BY <1>1, <1>4, Zenon

\* A stream is refused: it never had output, and is legacy as far as anyone can see.
Refused == [NoFlow EXCEPT !.task = "gone"]

\* An RST may be sent for a refused stream.
LEMMA RefusedFacts == Fresh(Refused) /\ Refused.task = "gone" /\ Refused.live = FALSE /\ Dead(Refused)
<1>1. NoFlow \in FlowSet
  BY DEF NoFlow, FlowSet
<1>2. PICK g : g = [NoFlow EXCEPT !.task = "gone"]
  OBVIOUS
<1>3. g \in FlowSet
  BY <1>1, <1>2, FieldTypes
<1>4. /\ g.task = "gone" /\ g.live = FALSE /\ g.negotiated = FALSE /\ g.outValid = TRUE
      /\ g.fin = FALSE /\ g.cancelled = FALSE /\ g.up = "run" /\ g.down = "run"
  BY <1>2 DEF NoFlow
<1>5. Fresh(g) /\ Dead(g)
  BY <1>3, <1>4 DEF Fresh, Sound, Ended, Dead
<1> QED
  BY <1>2, <1>4, <1>5 DEF Refused

\* Stream i of e appears; none of its records can be under way from e.
Appears(e, i, g) ==
  /\ Fresh(g)
  /\ g.live = TRUE => sess[e] = "up" /\ sess' = sess
  /\ flow' = [flow EXCEPT ![e][i] = g]

\* Only the flow that appears changes, and it was not dead.
LEMMA AppearFacts ==
  ASSUME FInv, NEW e \in Ends, NEW i \in Sids, NEW g, Appears(e, i, g), flow[e][i].task = "none"
  PROVE  /\ flow[e][i] = NoFlow
         /\ flow' \in [Ends -> [Sids -> FlowSet]]
         /\ flow'[e][i] = g
         /\ \A d \in Ends, k \in Sids : ~(d = e /\ k = i) => flow'[d][k] = flow[d][k]
         /\ \A d \in Ends, k \in Sids : Sound(flow'[d][k])
         /\ \A d \in Ends, k \in Sids : Dead(flow[d][k]) => flow'[d][k] = flow[d][k]
<1>1. flow[e][i] = NoFlow
  BY FlowFacts DEF Sound
<1>2. /\ flow' \in [Ends -> [Sids -> FlowSet]]
      /\ flow'[e][i] = g
      /\ \A d \in Ends, k \in Sids : ~(d = e /\ k = i) => flow'[d][k] = flow[d][k]
  BY DEF FInv, Values, Appears, Fresh
<1>3. \A d \in Ends, k \in Sids : Sound(flow'[d][k])
  BY <1>2 DEF FInv, FlowsSound, Appears, Fresh
<1>4. \A d \in Ends, k \in Sids : Dead(flow[d][k]) => flow'[d][k] = flow[d][k]
  BY <1>2 DEF Dead
<1> QED
  BY <1>1, <1>2, <1>3, <1>4

\* No RST is under way for a stream that appears, so none precedes its records.
LEMMA AppearResets ==
  ASSUME FInv, NEW e \in Ends, NEW i \in Sids, NEW g, Appears(e, i, g), flow[e][i].task = "none",
         sess' \in [Ends -> {"up", "closing", "down"}],
         \A d \in Ends : sess'[d] = "down" => sess[d] = "down",
         \A d \in Ends :
           \/ ctl'[d] = ctl[d]
           \/ ctl'[d] = <<>>
           \/ \E r \in CtlRecords :
                 ctl'[d] = Append(ctl[d], r) /\ (r.kind = "RST" => Dead(flow'[d][r.sid])),
         \A d \in Ends : wire'[d] = wire[d] \/ (wire[d] # <<>> /\ wire'[d] = Tail(wire[d]))
  PROVE  ResetsAreDead' /\ ResetIsLast' /\ NoStreamAfterShutdown'
<1>0. /\ flow' \in [Ends -> [Sids -> FlowSet]]
      /\ flow'[e][i] = g
      /\ \A d \in Ends, k \in Sids : ~(d = e /\ k = i) => flow'[d][k] = flow[d][k]
      /\ \A d \in Ends, k \in Sids : Dead(flow[d][k]) => flow'[d][k] = flow[d][k]
  BY AppearFacts
<1>1. \A d \in Ends : ctl[d] \in Seq(CtlRecords) /\ wire[d] \in Seq(WireRecords)
  BY DEF FInv, Values
<1>2. \A d \in Ends : \A k \in 1..Len(wire'[d]) :
        \E c \in {0, 1} : k + c \in 1..Len(wire[d]) /\ wire'[d][k] = wire[d][k + c]
                            /\ (c = 0 => wire'[d] = wire[d]) /\ (c = 1 => wire'[d] # wire[d])
  <2> SUFFICES ASSUME NEW d \in Ends, NEW k \in 1..Len(wire'[d])
               PROVE  \E c \in {0, 1} : k + c \in 1..Len(wire[d]) /\ wire'[d][k] = wire[d][k + c]
                            /\ (c = 0 => wire'[d] = wire[d]) /\ (c = 1 => wire'[d] # wire[d])
    OBVIOUS
  <2>1. CASE wire'[d] = wire[d]
    BY <1>1, <2>1
  <2>2. CASE wire[d] # <<>> /\ wire'[d] = Tail(wire[d])
    <3>1. /\ Len(wire'[d]) = Len(wire[d]) - 1 /\ Len(wire[d]) \in Nat
          /\ wire'[d][k] = wire[d][k + 1]
      BY <1>1, <2>2
    <3>2. wire'[d] # wire[d]
      BY <3>1
    <3> QED
      BY <3>1, <3>2
  <2> QED
    BY <2>1, <2>2
<1>3. \A d \in Ends : \A k \in 1..Len(wire'[d]) :
        wire'[d][k].kind = "RST" =>
          /\ wire'[d][k].sid \in Sids /\ Dead(flow[d][wire'[d][k].sid])
          /\ flow'[d][wire'[d][k].sid] = flow[d][wire'[d][k].sid]
  <2> SUFFICES ASSUME NEW d \in Ends, NEW k \in 1..Len(wire'[d]), wire'[d][k].kind = "RST"
               PROVE  /\ wire'[d][k].sid \in Sids /\ Dead(flow[d][wire'[d][k].sid])
                      /\ flow'[d][wire'[d][k].sid] = flow[d][wire'[d][k].sid]
    OBVIOUS
  <2>1. PICK j \in 1..Len(wire[d]) : wire'[d][k] = wire[d][j]
    BY <1>2
  <2>2. wire[d][j].sid \in Sids
    BY <1>1, <2>1, SidOfReset
  <2>3. Dead(flow[d][wire[d][j].sid])
    BY <2>1 DEF FInv, ResetsAreDead
  <2> QED
    BY <1>0, <2>1, <2>2, <2>3
<1>4. \A d \in Ends : \A k \in 1..Len(ctl[d]) :
        ctl[d][k].kind = "RST" => Dead(flow'[d][ctl[d][k].sid])
  <2> SUFFICES ASSUME NEW d \in Ends, NEW k \in 1..Len(ctl[d]), ctl[d][k].kind = "RST"
               PROVE  Dead(flow'[d][ctl[d][k].sid])
    OBVIOUS
  <2>1. ctl[d][k] \in WireRecords
    BY <1>1 DEF WireRecords
  <2>2. ctl[d][k].sid \in Sids
    BY <2>1, SidOfReset
  <2>3. Dead(flow[d][ctl[d][k].sid])
    BY DEF FInv, ResetsAreDead
  <2> QED
    BY <1>0, <2>2, <2>3
<1>5. \A d \in Ends : \A k \in 1..Len(ctl'[d]) :
        ctl'[d][k].kind = "RST" => Dead(flow'[d][ctl'[d][k].sid])
  <2> SUFFICES ASSUME NEW d \in Ends
               PROVE  \A k \in 1..Len(ctl'[d]) : ctl'[d][k].kind = "RST" => Dead(flow'[d][ctl'[d][k].sid])
    OBVIOUS
  <2>1. CASE ctl'[d] = ctl[d]
    BY <1>4, <2>1
  <2>2. CASE ctl'[d] = <<>>
    BY <2>2
  <2>3. ASSUME NEW r \in CtlRecords, ctl'[d] = Append(ctl[d], r), r.kind = "RST" => Dead(flow'[d][r.sid])
        PROVE  \A k \in 1..Len(ctl'[d]) : ctl'[d][k].kind = "RST" => Dead(flow'[d][ctl'[d][k].sid])
    <3>1. /\ Len(ctl'[d]) = Len(ctl[d]) + 1 /\ Len(ctl[d]) \in Nat /\ ctl'[d][Len(ctl[d]) + 1] = r
          /\ \A k \in 1..Len(ctl[d]) : ctl'[d][k] = ctl[d][k]
      BY <1>1, <2>3
    <3> QED
      BY <1>4, <2>3, <3>1
  <2> QED
    BY <2>1, <2>2, <2>3
<1>6. ResetsAreDead'
  BY <1>3, <1>5 DEF ResetsAreDead
<1>7. ResetIsLast'
  <2> SUFFICES ASSUME NEW d \in Ends, NEW j \in DOMAIN wire'[d], NEW k \in DOMAIN wire'[d],
                      j < k, wire'[d][j].kind = "RST", wire'[d][k].kind # "RST",
                      wire'[d][k].sid = wire'[d][j].sid
               PROVE  ~flow'[d][wire'[d][j].sid].negotiated
    BY DEF ResetIsLast
  <2>1. wire'[d] \in Seq(WireRecords)
    <3>1. CASE wire'[d] = wire[d]
      BY <1>1, <3>1
    <3>2. CASE wire[d] # <<>> /\ wire'[d] = Tail(wire[d])
      BY <1>1, <3>2
    <3> QED
      BY <3>1, <3>2
  <2>2. j \in 1..Len(wire'[d]) /\ k \in 1..Len(wire'[d])
    BY <2>1
  <2>3. PICK c \in {0, 1} : j + c \in 1..Len(wire[d]) /\ wire'[d][j] = wire[d][j + c]
                            /\ (c = 0 => wire'[d] = wire[d]) /\ (c = 1 => wire'[d] # wire[d])
    BY <1>2, <2>2
  <2>4. k + c \in 1..Len(wire[d]) /\ wire'[d][k] = wire[d][k + c]
    <3>1. PICK b \in {0, 1} : k + b \in 1..Len(wire[d]) /\ wire'[d][k] = wire[d][k + b]
                            /\ (b = 0 => wire'[d] = wire[d]) /\ (b = 1 => wire'[d] # wire[d])
      BY <1>2, <2>2
    <3>2. b = c
      BY <2>3, <3>1
    <3> QED
      BY <3>1, <3>2
  <2>5. j + c < k + c /\ DOMAIN wire[d] = 1..Len(wire[d])
    BY <1>1, <2>2
  <2>6. ~flow[d][wire[d][j + c].sid].negotiated
    BY <2>3, <2>4, <2>5 DEF FInv, ResetIsLast
  <2>7. flow'[d][wire'[d][j].sid] = flow[d][wire'[d][j].sid]
    BY <1>3, <2>2
  <2> QED
    BY <2>3, <2>6, <2>7
<1>8. NoStreamAfterShutdown'
  <2> SUFFICES ASSUME NEW d \in Ends, sess'[d] = "down", NEW k \in Sids
               PROVE  flow'[d][k].live # TRUE
    <3>1. \A d \in Ends, k \in Sids : flow'[d][k] \in FlowSet
      BY <1>0
    <3>2. \A d \in Ends, k \in Sids : flow'[d][k].live \in BOOLEAN
      BY <3>1 DEF FlowSet
    <3> QED
      BY <3>2 DEF NoStreamAfterShutdown, Live
  <2>1. flow[d][k].live # TRUE
    BY DEF FInv, NoStreamAfterShutdown, Live
  <2>2. CASE d = e /\ k = i
    <3>1. g.live = TRUE => sess'[e] = "up"
      BY DEF Appears
    <3> QED
      BY <1>0, <2>2, <3>1
  <2>3. CASE ~(d = e /\ k = i)
    BY <1>0, <2>1, <2>3
  <2> QED
    BY <2>2, <2>3
<1> QED
  BY <1>6, <1>7, <1>8

\* The client takes a stream id.
LEMMA OpenStreamKeeps ==
  ASSUME FInv, OpenStream
  PROVE  FInv'
<1>0. Values /\ "c" \in Ends /\ "s" \in Ends
  BY DEF FInv, Ends
<1>1. /\ nextSid \in Sids /\ nextSid' = nextSid + 1
      /\ UNCHANGED <<run, sess, neg, out, ctl, wire>>
  BY DEF OpenStream
<1>2. PICK i \in Sids : i = nextSid
  BY <1>1
<1>3. Sids \subseteq Nat /\ i \in Nat
  BY ConstantsAssumption
<1>4. flow["c"][i].task = "none"
  BY <1>2, <1>3 DEF FInv, FlowsSound
<1>5. flow["c"][i] = NoFlow
  BY <1>0, <1>4, FlowFacts DEF Sound
<1>6. PICK n \in BOOLEAN : n = (neg["c"] = "credit")
  OBVIOUS
<1>7. PICK g : g = IF CanAllocate("c") THEN NewFlow("c", "opening", n)
                                       ELSE Refused
  OBVIOUS
<1>8. flow' = [flow EXCEPT !["c"][i] = g]
  <2>1. flow' = [flow EXCEPT !["c"][i] = IF CanAllocate("c")
                   THEN NewFlow("c", "opening", neg["c"] = "credit")
                   ELSE [flow["c"][i] EXCEPT !.task = "gone"]]
    BY <1>2, Zenon DEF OpenStream
  <2> QED
    BY <1>5, <1>6, <1>7, <2>1, Zenon DEF Refused
<1>9. Fresh(g) /\ g.task \in {"opening", "gone"} /\ (g.live = TRUE => CanAllocate("c"))
  <2>1. CASE CanAllocate("c")
    <3>1. g = NewFlow("c", "opening", n)
      BY <1>7, <2>1, Zenon
    <3>2. "opening" \in NewTasks
      BY DEF NewTasks
    <3>3. Fresh(NewFlow("c", "opening", n)) /\ NewFlow("c", "opening", n).task = "opening"
      BY <1>0, <3>2, Admitted, Zenon
    <3> QED
      BY <2>1, <3>1, <3>3
  <2>2. CASE ~CanAllocate("c")
    BY <1>7, <2>2, RefusedFacts
  <2> QED
    BY <2>1, <2>2
<1>10. Appears("c", i, g)
  BY <1>1, <1>8, <1>9 DEF Appears, CanAllocate
<1>11. /\ flow' \in [Ends -> [Sids -> FlowSet]]
       /\ flow'["c"][i] = g
       /\ \A d \in Ends, k \in Sids : ~(d = "c" /\ k = i) => flow'[d][k] = flow[d][k]
       /\ \A d \in Ends, k \in Sids : Sound(flow'[d][k])
  BY <1>0, <1>4, <1>10, AppearFacts
<1>12. Values'
  BY <1>0, <1>1, <1>11 DEF Values
<1>13. FlowsSound'
  <2>1. nextSid' = i + 1
    BY <1>1, <1>2
  <2>2. \A k \in Sids : k >= i + 1 => k # i /\ k >= i
    BY <1>3
  <2>3. \A k \in Sids : k >= nextSid' => flow'["c"][k].task = "none"
    BY <1>0, <1>2, <1>11, <2>1, <2>2 DEF FInv, FlowsSound
  <2> QED
    BY <1>11, <2>3 DEF FlowsSound
<1>14. ResetsAreDead' /\ ResetIsLast' /\ NoStreamAfterShutdown'
  <2>1. sess' \in [Ends -> {"up", "closing", "down"}]
    BY <1>12 DEF Values
  <2> QED
    BY <1>0, <1>1, <1>4, <1>10, <2>1, AppearResets
<1>15. /\ \A k \in Sids : flow'["s"][k] = flow["s"][k]
       /\ \A k \in Sids : k # i => flow'["c"][k] = flow["c"][k]
       /\ wire' = wire /\ out' = out /\ run' = run
       /\ NoFlow.outValid = TRUE /\ NoFlow.up = "run"
  BY <1>0, <1>1, <1>11 DEF NoFlow
<1>16. OpenOnce'
  <2>1. Unopened(i)
    BY <1>4 DEF FInv, OpenOnce
  <2>2. ~Holds(wire["c"], "OPEN", i) /\ ~Holds(out["c"], "OPEN", i)
    BY <1>4 DEF FInv, OpenOnce
  <2> QED
    BY <1>15, <2>1, <2>2 DEF FInv, OpenOnce, Unopened
<1>17. OpenFirst'
  BY <1>5, <1>9, <1>11, <1>15 DEF FInv, OpenFirst, Unopened, Fresh
<1>18. CloseLast'
  BY <1>5, <1>15 DEF FInv, CloseLast
<1>19. EndedIsQuiet'
  BY <1>5, <1>15 DEF FInv, EndedIsQuiet, Quiet
<1> QED
  BY <1>12, <1>13, <1>14, <1>16, <1>17, <1>18, <1>19 DEF FInv

\* OPEN.
LEMMA DispatchOpenKeeps ==
  ASSUME FInv, DispatchOpen
  PROVE  FInv'
<1>0. Values /\ "c" \in Ends /\ "s" \in Ends /\ Peer("s") = "c"
  BY DEF FInv, Ends, Peer
<1>1. /\ wire["c"] # <<>> /\ Head(wire["c"]).kind = "OPEN"
      /\ wire' = [wire EXCEPT !["c"] = Tail(@)] /\ UNCHANGED <<neg, nextSid>>
  BY <1>0 DEF DispatchOpen, Arrives
<1>2. wire \in [Ends -> Seq(WireRecords)]
  BY <1>0 DEF Values
<1>3. PICK r \in WireRecords : r = Arrived("s") /\ r = Head(wire["c"])
  BY <1>0, <1>1, <1>2 DEF Arrived
<1>4. r.kind = "OPEN" /\ r.sid \in Sids /\ r.credit \in BOOLEAN
  <2>1. r.kind = "OPEN"
    BY <1>1, <1>3
  <2>2. r.credit \in BOOLEAN
    BY DEF WireRecords, OutRecords, CtlRecords, RecordsOf
  <2> QED
    BY <2>1, <2>2, SidOfReset
<1>5. PICK i \in Sids : i = r.sid
  BY <1>4
<1>6. PICK w \in Seq(WireRecords) : w = wire["c"] /\ w # <<>>
  BY <1>0, <1>1, <1>2
<1>7. PICK t : t = Tail(w) /\ t = wire'["c"]
  BY <1>0, <1>1, <1>2, <1>6
<1>8. /\ Holds(w, "OPEN", i)
      /\ \A kind, k : Holds(t, kind, k) => Holds(w, kind, k)
      /\ \A kind, k : Holds(w, kind, k) => Holds(t, kind, k) \/ (kind = "OPEN" /\ i = k)
      /\ Single(w) => Single(t) /\ ~Holds(t, "OPEN", i)
      /\ Closed(w) => Closed(t)
      /\ \A k : After(w, k) /\ k # i => After(t, k)
  <2>1. TailOrder(w)
    BY <1>6, TailFacts
  <2>2. r = Head(w)
    BY <1>3, <1>6
  <2> QED
    BY <1>4, <1>5, <1>7, <2>1, <2>2 DEF TailOrder
<1>9. Unopened(i) /\ flow["c"][i].task \notin {"none", "opening"} /\ ~Holds(out["c"], "OPEN", i)
      /\ ~Holds(t, "OPEN", i)
  BY <1>6, <1>8 DEF FInv, OpenOnce
<1>10. flow["s"][i].task = "none" /\ flow["s"][i] = NoFlow
  BY <1>0, <1>9, FlowFacts DEF Sound, Unopened
<1> DEFINE ok == (r.credit => neg["s"] = "credit") /\ CanAllocate("s")
<1>11. PICK g : g = IF ok THEN NewFlow("s", "connecting", r.credit)
                          ELSE Refused
  OBVIOUS
<1>12. /\ flow' = [flow EXCEPT !["s"][i] = g]
       /\ ok => UNCHANGED <<ctl, run, sess, out>>
       /\ ~ok => ReaderControl("s", RstRecord(i, FALSE))
  <2>1. CASE ok
    <3>1. /\ flow' = [flow EXCEPT !["s"][r.sid] = NewFlow("s", "connecting", r.credit)]
          /\ UNCHANGED <<ctl, run, sess, out>>
      BY <1>3, <2>1, Zenon DEF DispatchOpen
    <3> QED
      BY <1>5, <1>11, <2>1, <3>1, Zenon
  <2>2. CASE ~ok
    <3>1. /\ flow' = [flow EXCEPT !["s"][r.sid].task = "gone"]
          /\ ReaderControl("s", RstRecord(r.sid, FALSE))
      BY <1>3, <2>2, Zenon DEF DispatchOpen
    <3>2. g = [flow["s"][i] EXCEPT !.task = "gone"]
      BY <1>10, <1>11, <2>2, Zenon DEF Refused
    <3>3. flow' = [flow EXCEPT !["s"][i] = g]
      BY <1>5, <3>1, <3>2
    <3> QED
      BY <1>5, <2>2, <3>1, <3>3, Zenon
  <2> QED
    BY <2>1, <2>2
<1>13. Fresh(g) /\ (g.live = TRUE => ok) /\ (~ok => Dead(g))
  <2>1. CASE ok
    <3>1. g = NewFlow("s", "connecting", r.credit)
      BY <1>11, <2>1, Zenon
    <3>2. "connecting" \in NewTasks
      BY DEF NewTasks
    <3>3. Fresh(NewFlow("s", "connecting", r.credit))
      BY <1>0, <1>4, <3>2, Admitted, Zenon
    <3> QED
      BY <2>1, <3>1, <3>3, Zenon
  <2>2. CASE ~ok
    <3>1. g = Refused
      BY <1>11, <2>2, Zenon
    <3> QED
      BY <3>1, RefusedFacts
  <2> QED
    BY <2>1, <2>2
<1>14. ok => sess["s"] = "up"
  BY DEF CanAllocate
<1> HIDE DEF ok
<1>15. Appears("s", i, g)
  BY <1>12, <1>13, <1>14 DEF Appears
<1>16. /\ flow' \in [Ends -> [Sids -> FlowSet]]
       /\ flow'["s"][i] = g
       /\ \A d \in Ends, k \in Sids : ~(d = "s" /\ k = i) => flow'[d][k] = flow[d][k]
       /\ \A d \in Ends, k \in Sids : Sound(flow'[d][k])
  BY <1>0, <1>10, <1>15, AppearFacts
<1>17. ReaderQueues("s")
  <2>1. CASE ok
    BY <1>12, <2>1 DEF ReaderQueues
  <2>2. CASE ~ok
    <3>1. PICK d \in CtlRecords : d = RstRecord(i, FALSE) /\ d.sid = i
      BY RstTyped
    <3>2. ReaderControl("s", d) /\ Dead(flow'["s"][d.sid])
      BY <1>12, <1>13, <1>16, <2>2, <3>1
    <3> QED
      BY <3>2, Zenon DEF ReaderQueues
  <2> QED
    BY <2>1, <2>2
<1>18. /\ run' \in [Ends -> BOOLEAN] /\ out' \in [Ends -> Seq(OutRecords)]
       /\ ctl' \in [Ends -> Seq(CtlRecords)]
       /\ sess' \in [Ends -> {"up", "closing", "down"}]
       /\ \A d \in Ends : sess'[d] = "down" => sess[d] = "down"
       /\ \A d \in Ends :
            \/ ctl'[d] = ctl[d]
            \/ ctl'[d] = <<>>
            \/ \E q \in CtlRecords :
                  ctl'[d] = Append(ctl[d], q) /\ (q.kind = "RST" => Dead(flow'[d][q.sid]))
  BY <1>0, <1>17, AnswerTyped
<1>19. wire' \in [Ends -> Seq(WireRecords)]
       /\ \A d \in Ends : wire'[d] = wire[d] \/ (wire[d] # <<>> /\ wire'[d] = Tail(wire[d]))
  <2>1. Tail(wire["c"]) \in Seq(WireRecords)
    BY <1>0, <1>1, <1>2
  <2> QED
    BY <1>0, <1>1, <1>2, <2>1
<1>20. Values'
  BY <1>0, <1>1, <1>16, <1>18, <1>19 DEF Values
<1>21. FlowsSound'
  BY <1>0, <1>1, <1>16 DEF FInv, FlowsSound
<1>22. ResetsAreDead' /\ ResetIsLast' /\ NoStreamAfterShutdown'
  BY <1>0, <1>10, <1>15, <1>18, <1>19, AppearResets
<1>23. out'["c"] = out["c"] /\ run'["c"] = run["c"]
  <2>1. out \in [Ends -> Seq(OutRecords)] /\ run \in [Ends -> BOOLEAN]
    BY <1>0 DEF Values
  <2>2. \/ out' = out /\ run' = run
        \/ out' = [out EXCEPT !["s"] = <<>>] /\ run' = [run EXCEPT !["s"] = FALSE]
    BY <1>17 DEF ReaderQueues, ReaderControl
  <2> QED
    BY <1>0, <2>1, <2>2
<1>24. /\ \A k \in Sids : flow'["c"][k] = flow["c"][k]
       /\ \A k \in Sids : k # i => flow'["s"][k] = flow["s"][k]
       /\ ~Unopened(i)'
  BY <1>0, <1>13, <1>16 DEF Unopened, Fresh
<1>25. OpenOnce'
  BY <1>6, <1>7, <1>8, <1>9, <1>23, <1>24 DEF FInv, OpenOnce, Unopened
<1>26. OpenFirst'
  <2> SUFFICES ASSUME NEW k \in Sids, Unopened(k)'
               PROVE  /\ After(t, k)
                      /\ flow["c"][k].outValid = TRUE =>
                           /\ Holds(t, "OPEN", k) \/ After(out["c"], k)
                           /\ flow["c"][k].task = "bridged" /\ run["c"] = TRUE =>
                                Holds(t, "OPEN", k) \/ Holds(out["c"], "OPEN", k)
    BY <1>7, <1>23, <1>24 DEF OpenFirst
  <2>1. k # i /\ Unopened(k)
    BY <1>24 DEF Unopened
  <2>2. /\ After(w, k)
        /\ flow["c"][k].outValid = TRUE =>
             /\ Holds(w, "OPEN", k) \/ After(out["c"], k)
             /\ flow["c"][k].task = "bridged" /\ run["c"] = TRUE =>
                  Holds(w, "OPEN", k) \/ Holds(out["c"], "OPEN", k)
    BY <1>6, <2>1 DEF FInv, OpenFirst
  <2> QED
    BY <1>8, <2>1, <2>2
<1>27. CloseLast'
  BY <1>6, <1>7, <1>8, <1>23, <1>24 DEF FInv, CloseLast
<1>28. EndedIsQuiet'
  BY <1>6, <1>7, <1>8, <1>13, <1>16, <1>23, <1>24 DEF FInv, EndedIsQuiet, Quiet, Fresh
<1> QED
  BY <1>20, <1>21, <1>22, <1>25, <1>26, <1>27, <1>28 DEF FInv

-----------------------------------------------------------------------------
(* The session.                                                            *)

\* A session starts with no stream and the client's CAP queued.
LEMMA InitFInv == Init => FInv
<1> SUFFICES ASSUME Init PROVE FInv
  OBVIOUS
<1>0. "c" \in Ends /\ "s" \in Ends
  BY DEF Ends
<1>1. CapRecord("c") \in CtlRecords /\ CapRecord("c").kind = "CAP"
  <2>1. Window["c"] \in Int /\ <<>> \in Seq(Int)
    BY <1>0, ConstantsAssumption
  <2> QED
    BY <2>1 DEF CapRecord, Record, CtlRecords, RecordsOf
<1>2. /\ NoFlow \in FlowSet /\ NoFlow.task = "none" /\ NoFlow.live = FALSE /\ NoFlow.outValid = TRUE
      /\ Sound(NoFlow) /\ ~Ended(NoFlow)
  <2>1. NoFlow \in FlowSet
    BY DEF NoFlow, FlowSet
  <2>2. /\ NoFlow.task = "none" /\ NoFlow.live = FALSE /\ NoFlow.outValid = TRUE
        /\ NoFlow.up = "run" /\ NoFlow.down = "run" /\ NoFlow.fin = FALSE
    BY DEF NoFlow
  <2> QED
    BY <2>1, <2>2 DEF Sound, Ended
<1>3. \A e \in Ends, i \in Sids : flow[e][i] = NoFlow
  BY DEF Init
<1>4. /\ \A e \in Ends : out[e] = <<>> /\ wire[e] = <<>>
      /\ \A e \in Ends : ctl[e] = <<>> \/ ctl[e] = <<CapRecord("c")>>
      /\ \A e \in Ends : sess[e] = "up"
  BY DEF Init
<1>5. Values
  <2>1. \A e \in Ends : ctl[e] \in Seq(CtlRecords)
    <3>1. PICK r \in CtlRecords : r = CapRecord("c")
      BY <1>1
    <3>2. <<r>> \in Seq(CtlRecords) /\ <<>> \in Seq(CtlRecords)
      OBVIOUS
    <3> QED
      BY <1>4, <3>1, <3>2
  <2>2. /\ ctl = [e \in Ends |-> ctl[e]] /\ flow \in [Ends -> [Sids -> FlowSet]]
        /\ out \in [Ends -> Seq(OutRecords)] /\ wire \in [Ends -> Seq(WireRecords)]
    BY <1>2 DEF Init
  <2>3. ctl \in [Ends -> Seq(CtlRecords)]
    BY <2>1, <2>2
  <2>4. /\ run \in [Ends -> BOOLEAN] /\ sess \in [Ends -> {"up", "closing", "down"}]
        /\ neg \in [Ends -> {"pending", "legacy", "credit"}] /\ nextSid \in Nat
    BY DEF Init
  <2> QED
    BY <2>2, <2>3, <2>4 DEF Values
<1>6. FlowsSound
  BY <1>0, <1>2, <1>3 DEF FlowsSound
<1>7. ResetsAreDead
  <2>1. \A e \in Ends : \A k \in 1..Len(ctl[e]) : ctl[e][k].kind # "RST"
    BY <1>1, <1>4
  <2> QED
    BY <1>4, <2>1 DEF ResetsAreDead
<1>8. ResetIsLast /\ NoStreamAfterShutdown
  BY <1>4 DEF ResetIsLast, NoStreamAfterShutdown
<1>9. out["c"] = <<>> /\ wire["c"] = <<>>
  BY <1>0, <1>4
<1>10. OpenOnce
  BY <1>0, <1>2, <1>3, <1>9, EmptyFacts DEF OpenOnce, Unopened
<1>11. OpenFirst
  BY <1>0, <1>2, <1>3, <1>9, EmptyFacts DEF OpenFirst, Unopened
<1>12. CloseLast
  BY <1>9, EmptyFacts DEF CloseLast
<1>13. EndedIsQuiet
  BY <1>0, <1>2, <1>3 DEF EndedIsQuiet
<1> QED
  BY <1>5, <1>6, <1>7, <1>8, <1>10, <1>11, <1>12, <1>13 DEF FInv

\* Every step of the session keeps the invariant.
LEMMA NextFInv == FInv /\ [Next]_vars => FInv'
<1> SUFFICES ASSUME FInv, [Next]_vars PROVE FInv'
  OBVIOUS
<1>0. "c" \in Ends /\ "s" \in Ends
  BY DEF Ends
<1>1. CASE NegotiationDeadline
  BY <1>1, DeadlineKeeps
<1>2. CASE OpenStream
  BY <1>2, OpenStreamKeeps
<1>3. ASSUME NEW i \in Sids, SendOpen(i) \/ AbortOpen(i) \/ Connected(i) \/ ConnectFailed(i)
      PROVE  FInv'
  <2>1. CASE SendOpen(i)
    BY <1>0, <2>1, SendKeeps
  <2>2. CASE AbortOpen(i) \/ Connected(i) \/ ConnectFailed(i)
    BY <2>2, ConnectKeeps
  <2> QED
    BY <1>3, <2>1, <2>2
<1>4. ASSUME NEW e \in Ends, NEW i \in Sids,
             \/ \E n \in 1..MaxChunk : ReadSocket(e, i, n)
             \/ ReadEof(e, i)
             \/ Uplink(e, i)
             \/ Downlink(e, i)
             \/ Written(e, i)
             \/ PumpError(e, i)
             \/ TaskEnds(e, i)
      PROVE  FInv'
  <2>1. CASE (\E n \in 1..MaxChunk : ReadSocket(e, i, n)) \/ ReadEof(e, i) \/ TakeCredit(e, i)
    BY <2>1, UplinkKeeps
  <2>2. CASE SendData(e, i) \/ SendClose(e, i)
    BY <2>2, SendKeeps
  <2>3. CASE \/ Receive(e, i) \/ ReceiveFin(e, i) \/ Written(e, i)
             \/ RaiseCredit(e, i) \/ PublishWin(e, i) \/ PumpError(e, i)
    BY <2>3, DownlinkKeeps
  <2>4. CASE BridgeFailed(e, i) \/ BridgeDone(e, i) \/ TaskCancelled(e, i)
    BY <2>4, EndsKeep
  <2> QED
    BY <1>4, <2>1, <2>2, <2>3, <2>4 DEF Uplink, Downlink, TaskEnds
<1>5. ASSUME NEW e \in Ends,
             WriteControl(e) \/ WriteOutput(e) \/ Dispatch(e) \/ RunEnds(e) \/ ShutdownDrain(e)
      PROVE  FInv'
  <2>1. CASE WriteControl(e)
    BY <2>1, WriteControlKeeps
  <2>2. CASE WriteOutput(e)
    BY <2>2, WriteOutputKeeps
  <2>3. CASE DispatchCap(e)
    BY <2>3, CapKeeps
  <2>4. CASE DispatchOpen
    BY <2>4, DispatchOpenKeeps
  <2>5. CASE DispatchPayload(e)
    BY <2>5, PayloadKeeps
  <2>6. CASE DispatchRst(e)
    BY <2>6, RstKeeps
  <2>7. CASE DispatchWin(e)
    BY <2>7, WinKeeps
  <2>8. CASE RunEnds(e)
    BY <2>8, RunEndsKeeps
  <2>9. CASE ShutdownDrain(e)
    BY <2>9, DrainKeeps
  <2> QED
    BY <1>5, <2>1, <2>2, <2>3, <2>4, <2>5, <2>6, <2>7, <2>8, <2>9 DEF Dispatch
<1>6. CASE UNCHANGED vars
  <2>1. UNCHANGED <<run, sess, neg, nextSid, flow, out, ctl, wire>>
    BY <1>6 DEF vars
  <2>2. Values' /\ QueuesShrink
    BY <2>1 DEF FInv, Values, QueuesShrink
  <2>3. Calm
    BY <2>1, <2>2, SameFlows DEF Calm
  <2> QED
    BY <2>3, CalmKeeps
<1> QED
  BY <1>1, <1>2, <1>3, <1>4, <1>5, <1>6 DEF Next

\* The invariant holds of every reachable state.
THEOREM FlowInvariant == Spec => []FInv
  BY InitFInv, NextFInv, PTL DEF Spec

\* A reset ends a stream on the wire, and a shutdown ends every stream of the
\* table, for any number of streams, any windows and lanes, whatever fails
\* (tcp_mux_flow.rs: finish, output_valid, shutdown).
THEOREM EndsAlwaysFinal == Spec => []EndsAreFinal
<1>1. FInv => EndsAreFinal
  BY DEF FInv, EndsAreFinal
<1> QED
  BY FlowInvariant, <1>1, PTL

-----------------------------------------------------------------------------
(* Delivery.  First the queues, seen from one stream.                      *)

\* A payload queued behind q.
AppendDatas(q, r, i) ==
  LET t == Append(q, r) mine == r.kind = "DATA" /\ r.sid = i IN
  /\ mine => Datas(t, i) = Datas(q, i) \cup {r.data}
  /\ ~mine => Datas(t, i) = Datas(q, i)
  /\ Ascending(q, i) /\ (mine => \A x \in Datas(q, i) : LastByte(x) < r.data[1]) => Ascending(t, i)

\* What queueing a record does to the payloads of a stream.
LEMMA AppendPayload ==
  ASSUME NEW S, NEW q \in Seq(S), NEW r \in S, NEW i
  PROVE  AppendDatas(q, r, i)
<1> DEFINE t == Append(q, r)
           mine == r.kind = "DATA" /\ r.sid = i
<1>1. /\ Len(t) = Len(q) + 1 /\ Len(q) \in Nat /\ t[Len(q) + 1] = r
      /\ \A k \in 1..Len(q) : t[k] = q[k]
  OBVIOUS
<1>2. \A x : x \in Datas(q, i) <=> \E k \in 1..Len(q) : Is(q, k, "DATA", i) /\ x = q[k].data
  BY DEF Datas
<1>3. \A x : x \in Datas(t, i) <=> \E k \in 1..Len(t) : Is(t, k, "DATA", i) /\ x = t[k].data
  BY DEF Datas
<1> HIDE DEF t
<1>4. \A x \in Datas(q, i) : x \in Datas(t, i)
  BY <1>1, <1>2, <1>3 DEF Is
<1>5. mine => r.data \in Datas(t, i)
  BY <1>1, <1>3 DEF Is
<1>6. \A x \in Datas(t, i) : x \in Datas(q, i) \/ (mine /\ x = r.data)
  BY <1>1, <1>2, <1>3 DEF Is
<1>7. ASSUME Ascending(q, i), mine => \A x \in Datas(q, i) : LastByte(x) < r.data[1]
      PROVE  Ascending(t, i)
  <2> SUFFICES ASSUME NEW j \in 1..Len(t), NEW k \in 1..Len(t), j < k,
                      Is(t, j, "DATA", i), Is(t, k, "DATA", i)
               PROVE  LastByte(t[j].data) < t[k].data[1]
    BY DEF Ascending
  <2>1. j \in 1..Len(q) /\ t[j] = q[j] /\ Is(q, j, "DATA", i)
    BY <1>1 DEF Is
  <2>2. CASE k \in 1..Len(q)
    BY <1>1, <1>7, <2>1, <2>2 DEF Ascending, Is
  <2>3. CASE k = Len(q) + 1
    <3>1. mine /\ t[k] = r
      BY <1>1, <2>3 DEF Is
    <3>2. q[j].data \in Datas(q, i)
      BY <1>2, <2>1
    <3> QED
      BY <1>7, <2>1, <3>1, <3>2
  <2> QED
    BY <1>1, <2>2, <2>3
<1> QED
  BY <1>4, <1>5, <1>6, <1>7 DEF AppendDatas, t

\* The first record of q is taken.
TailDatas(q, i) ==
  LET t == Tail(q) h == Head(q) mine == h.kind = "DATA" /\ h.sid = i IN
  /\ mine => Datas(q, i) = Datas(t, i) \cup {h.data}
  /\ ~mine => Datas(q, i) = Datas(t, i)
  /\ Ascending(q, i) => Ascending(t, i) /\ (mine => \A x \in Datas(t, i) : LastByte(h.data) < x[1])

\* What taking a record does to the payloads of a stream.
LEMMA TailPayload ==
  ASSUME NEW S, NEW q \in Seq(S), q # <<>>, NEW i
  PROVE  TailDatas(q, i)
<1> DEFINE t == Tail(q)
           h == Head(q)
           mine == h.kind = "DATA" /\ h.sid = i
<1>1. /\ Len(q) \in Nat /\ Len(q) >= 1 /\ Len(t) = Len(q) - 1 /\ h = q[1]
      /\ \A k \in 1..Len(t) : t[k] = q[k + 1]
  OBVIOUS
<1>2. \A k \in 1..Len(q) : k = 1 \/ (k - 1 \in 1..Len(t) /\ q[k] = t[k - 1])
  BY <1>1
<1>3. \A x : x \in Datas(q, i) <=> \E k \in 1..Len(q) : Is(q, k, "DATA", i) /\ x = q[k].data
  BY DEF Datas
<1>4. \A x : x \in Datas(t, i) <=> \E k \in 1..Len(t) : Is(t, k, "DATA", i) /\ x = t[k].data
  BY DEF Datas
<1> HIDE DEF t, h
<1>5. \A x \in Datas(t, i) : x \in Datas(q, i)
  BY <1>1, <1>3, <1>4 DEF Is
<1>6. mine => h.data \in Datas(q, i)
  BY <1>1, <1>3 DEF Is
<1>7. \A x \in Datas(q, i) : x \in Datas(t, i) \/ (mine /\ x = h.data)
  BY <1>1, <1>2, <1>3, <1>4, SMTT(30) DEF Is
<1>8. ASSUME Ascending(q, i)
      PROVE  Ascending(t, i)
  <2> SUFFICES ASSUME NEW j \in 1..Len(t), NEW k \in 1..Len(t), j < k,
                      Is(t, j, "DATA", i), Is(t, k, "DATA", i)
               PROVE  LastByte(t[j].data) < t[k].data[1]
    BY DEF Ascending
  <2>1. /\ j + 1 \in 1..Len(q) /\ k + 1 \in 1..Len(q) /\ j + 1 < k + 1
        /\ t[j] = q[j + 1] /\ t[k] = q[k + 1]
    BY <1>1
  <2>2. Is(q, j + 1, "DATA", i) /\ Is(q, k + 1, "DATA", i)
    BY <2>1 DEF Is
  <2> QED
    BY <1>8, <2>1, <2>2 DEF Ascending
<1>9. ASSUME Ascending(q, i), mine, NEW x \in Datas(t, i)
      PROVE  LastByte(h.data) < x[1]
  <2>1. PICK k \in 1..Len(t) : Is(t, k, "DATA", i) /\ x = t[k].data
    BY <1>4
  <2>2. k + 1 \in 1..Len(q) /\ t[k] = q[k + 1] /\ 1 \in 1..Len(q) /\ 1 < k + 1
    BY <1>1
  <2>3. Is(q, 1, "DATA", i) /\ Is(q, k + 1, "DATA", i)
    BY <1>1, <1>9, <2>1, <2>2 DEF Is
  <2> QED
    BY <1>1, <1>9, <2>1, <2>2, <2>3 DEF Ascending
<1> QED
  BY <1>5, <1>6, <1>7, <1>8, <1>9 DEF TailDatas, t, h

\* Nothing is queued.
LEMMA EmptyPayload ==
  ASSUME NEW i
  PROVE  Datas(<<>>, i) = {} /\ Ascending(<<>>, i)
  BY DEF Datas, Ascending

\* Payloads are sequences of bytes.
LEMMA PayloadsTyped ==
  ASSUME NEW q \in Seq(WireRecords), NEW i
  PROVE  \A x \in Datas(q, i) : x \in Seq(Int)
<1> TAKE x \in Datas(q, i)
<1>1. PICK k \in 1..Len(q) : x = q[k].data
  BY DEF Datas
<1>2. q[k] \in WireRecords
  OBVIOUS
<1> QED
  BY <1>1, <1>2 DEF WireRecords, OutRecords, CtlRecords, RecordsOf

-----------------------------------------------------------------------------
(* Partial sums of the WINs in a queue.                                    *)

\* A WIN adds its increment, anything else nothing.
LEMMA IncTyped ==
  ASSUME NEW r \in WireRecords, NEW i
  PROVE  Inc(r, i) \in Int
<1>1. r.n \in Int
  BY DEF WireRecords, OutRecords, CtlRecords, RecordsOf
<1> QED
  BY <1>1 DEF Inc

\* A sum does not decrease.
LEMMA AddsGrows ==
  ASSUME NEW q \in Seq(WireRecords), NEW i, NEW a \in Int, NEW b \in Int, Adds(q, i, a, b)
  PROVE  a <= b
  BY DEF Adds, Totals

\* One more record.
LEMMA AddsAppend ==
  ASSUME NEW q \in Seq(WireRecords), NEW r \in WireRecords, NEW i, NEW a \in Int, NEW b \in Int,
         Adds(q, i, a, b), Inc(r, i) >= 0
  PROVE  Adds(Append(q, r), i, a, b + Inc(r, i))
<1> DEFINE t == Append(q, r)
           n == Len(q)
           v == Inc(r, i)
<1>1. /\ Len(t) = n + 1 /\ n \in Nat /\ t[n + 1] = r
      /\ \A k \in 1..n : t[k] = q[k]
  OBVIOUS
<1>2. v \in Int /\ v >= 0
  BY IncTyped
<1>3. PICK s \in [0..n -> Int] :
        /\ s[0] = a /\ s[n] = b
        /\ \A k \in 1..n : s[k] = s[k - 1] + Inc(q[k], i)
        /\ \A k \in 0..n : s[k] <= b
  BY DEF Adds, Totals
<1> HIDE DEF t, n, v
<1>4. PICK u : u = [k \in 0..(n + 1) |-> IF k = n + 1 THEN b + v ELSE s[k]]
  OBVIOUS
<1>5. /\ u \in [0..(n + 1) -> Int] /\ u[n + 1] = b + v
      /\ \A k \in 0..n : u[k] = s[k]
  BY <1>1, <1>2, <1>3, <1>4
<1>6. u[0] = a
  BY <1>1, <1>3, <1>5
<1>7. \A k \in 0..(n + 1) : u[k] <= b + v
  BY <1>1, <1>2, <1>3, <1>5
<1>8. \A k \in 1..(n + 1) : u[k] = u[k - 1] + Inc(t[k], i)
  <2> TAKE k \in 1..(n + 1)
  <2>1. CASE k \in 1..n
    <3>1. k - 1 \in 0..n /\ k \in 0..n
      BY <1>1, <2>1
    <3> QED
      BY <1>1, <1>3, <1>5, <2>1, <3>1
  <2>2. CASE k = n + 1
    <3>1. k - 1 = n /\ n \in 0..n
      BY <1>1, <2>2
    <3> QED
      BY <1>1, <1>3, <1>5, <2>2, <3>1 DEF v
  <2> QED
    BY <1>1, <2>1, <2>2
<1> QED
  BY <1>1, <1>5, <1>6, <1>7, <1>8 DEF Adds, Totals, t, v

\* The first record is added.
LEMMA AddsTail ==
  ASSUME NEW q \in Seq(WireRecords), q # <<>>, NEW i, NEW a \in Int, NEW b \in Int,
         Adds(q, i, a, b)
  PROVE  Adds(Tail(q), i, a + Inc(Head(q), i), b)
<1> DEFINE t == Tail(q)
           n == Len(q)
           v == Inc(Head(q), i)
<1>1. /\ n \in Nat /\ n >= 1 /\ Len(t) = n - 1 /\ Head(q) = q[1] /\ Head(q) \in WireRecords
      /\ \A k \in 1..Len(t) : t[k] = q[k + 1]
  OBVIOUS
<1>2. v \in Int
  BY <1>1, IncTyped
<1>3. PICK s \in [0..n -> Int] :
        /\ s[0] = a /\ s[n] = b
        /\ \A k \in 1..n : s[k] = s[k - 1] + Inc(q[k], i)
        /\ \A k \in 0..n : s[k] <= b
  BY DEF Adds, Totals
<1> HIDE DEF t, n
<1>4. PICK u : u = [k \in 0..(n - 1) |-> s[k + 1]]
  OBVIOUS
<1>5. u \in [0..(n - 1) -> Int] /\ \A k \in 0..(n - 1) : u[k] = s[k + 1]
  BY <1>1, <1>3, <1>4
<1>6. u[n - 1] = b
  BY <1>1, <1>3, <1>5
<1>7. u[0] = a + v
  <2>1. s[1] = s[1 - 1] + Inc(q[1], i)
    BY <1>1, <1>3
  <2> QED
    BY <1>1, <1>3, <1>5, <2>1
<1>8. \A k \in 0..(n - 1) : u[k] <= b
  BY <1>1, <1>3, <1>5
<1>9. \A k \in 1..(n - 1) : u[k] = u[k - 1] + Inc(t[k], i)
  <2> TAKE k \in 1..(n - 1)
  <2>1. k + 1 \in 1..n /\ k \in 0..(n - 1) /\ k - 1 \in 0..(n - 1) /\ (k - 1) + 1 = k /\ (k + 1) - 1 = k
    BY <1>1
  <2>2. s[k + 1] = s[k] + Inc(q[k + 1], i)
    BY <1>3, <2>1
  <2> QED
    BY <1>1, <1>5, <2>1, <2>2
<1> QED
  BY <1>1, <1>5, <1>6, <1>7, <1>8, <1>9 DEF Adds, Totals, t

\* Without a WIN of the stream nothing is added.
LEMMA AddsNothing ==
  ASSUME NEW q \in Seq(WireRecords), NEW i, NEW a \in Int,
         \A k \in 1..Len(q) : ~Is(q, k, "WIN", i)
  PROVE  Adds(q, i, a, a)
<1>1. \A k \in 1..Len(q) : Inc(q[k], i) = 0
  BY DEF Inc, Is
<1>2. PICK u : u = [k \in 0..Len(q) |-> a]
  OBVIOUS
<1>3. Len(q) \in Nat
  OBVIOUS
<1>4. u \in [0..Len(q) -> Int] /\ \A k \in 0..Len(q) : u[k] = a
  BY <1>2
<1>5. \A k \in 1..Len(q) : k - 1 \in 0..Len(q) /\ k \in 0..Len(q)
  BY <1>3
<1> QED
  BY <1>1, <1>3, <1>4, <1>5 DEF Adds, Totals

-----------------------------------------------------------------------------
(* One direction of a stream: steps that send nothing and accept nothing.  *)

\* The numbers of a flow.
LEMMA Counts ==
  ASSUME NEW f \in FlowSet, NEW d \in Ends
  PROVE  /\ Handed(f) \in Int /\ Took(f) \in Int /\ Handed(f) <= Took(f) /\ f.avail \in Int
         /\ Seen(f) \in Int /\ Limit(d, f) \in Int /\ Announced(d, f) \in Int
         /\ Raised(f) \in Int /\ Window[d] \in Nat
<1>1. Window[d] \in Nat
  BY ConstantsAssumption
<1>2. /\ f.read \in Int /\ f.buf \in Seq(Int) /\ f.taken \in Seq(Int) /\ f.got \in Seq(Int)
      /\ f.bytes \in Int /\ f.credit \in Int /\ f.pend \in Int /\ f.avail \in Int
  BY DEF FlowSet
<1>3. Len(f.buf) \in Nat /\ Len(f.taken) \in Nat /\ Len(f.got) \in Nat /\ f.read \in Int /\ f.bytes \in Int
  BY <1>2
<1>4. Handed(f) \in Int /\ Took(f) \in Int /\ Handed(f) <= Took(f) /\ Seen(f) \in Int
  BY <1>3 DEF Handed, Took, Seen
<1>5. Raised(f) = f.pend \/ Raised(f) = 0
  BY DEF Raised
<1>6. Limit(d, f) = Window[d] \/ Limit(d, f) = Seen(f) + f.credit
  BY DEF Limit
<1>7. Raised(f) \in Int /\ Limit(d, f) \in Int
  BY <1>1, <1>2, <1>4, <1>5, <1>6
<1> QED
  BY <1>1, <1>2, <1>4, <1>7 DEF Announced

\* The numbers of a payload.
LEMMA BlockCounts ==
  ASSUME NEW x \in Seq(Int), Block(x)
  PROVE  x[1] \in Int /\ LastByte(x) \in Int /\ x[1] <= LastByte(x) /\ LastByte(x) = x[1] + Len(x) - 1
  BY DEF Block, LastByte

\* The numbering is kept.
LEMMA StaysNumbered ==
  ASSUME NEW W, NEW O, \A x \in W \cup O : x \in Seq(Int),
         NEW W2 \in SUBSET W, NEW O2 \in SUBSET O, NEW d \in Ends,
         NEW f \in FlowSet, NEW g \in FlowSet, NEW h \in FlowSet, NEW k \in FlowSet,
         Stays(f, g), Follows(d, h, k), Numbered(W, O, f, h)
  PROVE  Numbered(W2, O2, g, k)
<1>1. /\ Handed(f) \in Int /\ Handed(g) \in Int /\ Seen(h) \in Int /\ Seen(k) \in Int
  BY Counts
<1>2. Handed(g) >= Handed(f) /\ Seen(k) <= Seen(h) /\ Seen(h) <= Handed(f)
  BY DEF Stays, Follows, Numbered
<1>3. \A x \in W2, y \in O2 : LastByte(x) < y[1]
  BY DEF Numbered
<1>4. ASSUME NEW x \in W2 \cup O2
      PROVE  Block(x) /\ x[1] >= 1 /\ LastByte(x) <= Handed(g)
  <2>1. x \in Seq(Int) /\ Block(x) /\ x[1] >= 1 /\ LastByte(x) <= Handed(f)
    BY <1>4 DEF Numbered
  <2> QED
    BY <1>1, <1>2, <2>1, BlockCounts
<1>5. Seen(k) <= Handed(g)
  BY <1>1, <1>2
<1> QED
  BY <1>3, <1>4, <1>5 DEF Numbered

\* What leaves the wire was not awaited; the output lane stays or is dropped.
Shrinks(r, r2, W, W2, O, O2, k) ==
  /\ Awaits(k) => W2 = W
  /\ \/ O2 = O /\ (r2 = TRUE => r = TRUE)
     \/ O2 = {} /\ r2 = FALSE

\* Nothing is lost in between.
LEMMA StaysGapless ==
  ASSUME NEW W, NEW O, NEW W2, NEW O2, NEW d \in Ends, NEW r \in BOOLEAN, NEW r2 \in BOOLEAN,
         NEW f \in FlowSet, NEW g \in FlowSet, NEW h \in FlowSet, NEW k \in FlowSet,
         Stays(f, g), Follows(d, h, k),
         Shrinks(r, r2, W, W2, O, O2, k), Gapless(r, W, O, f, h)
  PROVE  Gapless(r2, W2, O2, g, k)
<1> SUFFICES ASSUME Awaits(k)
             PROVE  /\ \A x \in W2 : Reaches(x[1] - 1, Seen(k), W2)
                    /\ g.outValid = TRUE => \A x \in O2 : Reaches(x[1] - 1, Seen(k), W2 \cup O2)
                    /\ g.outValid = TRUE /\ g.live = TRUE /\ r2 = TRUE =>
                         Reaches(Handed(g), Seen(k), W2 \cup O2)
  BY DEF Gapless
<1>1. Awaits(h) /\ Seen(k) = Seen(h) /\ W2 = W
  BY DEF Follows, Shrinks
<1>2. /\ g.outValid = TRUE => f.outValid = TRUE
      /\ g.live = TRUE => f.live = TRUE /\ Handed(g) = Handed(f)
  BY DEF Stays
<1>3. /\ \A x \in W : Reaches(x[1] - 1, Seen(h), W)
      /\ f.outValid = TRUE => \A x \in O : Reaches(x[1] - 1, Seen(h), W \cup O)
      /\ f.outValid = TRUE /\ f.live = TRUE /\ r = TRUE => Reaches(Handed(f), Seen(h), W \cup O)
  BY <1>1 DEF Gapless
<1> QED
  BY <1>1, <1>2, <1>3 DEF Shrinks

\* What is under way still fits.
LEMMA StaysFitting ==
  ASSUME NEW W, NEW O, \A x \in W \cup O : x \in Seq(Int) /\ Block(x),
         NEW W2 \in SUBSET W, NEW O2 \in SUBSET O, NEW d \in Ends,
         NEW f \in FlowSet, NEW g \in FlowSet, NEW h \in FlowSet, NEW k \in FlowSet,
         Stays(f, g), Follows(d, h, k), Fitting(d, W, O, f, h)
  PROVE  Fitting(d, W2, O2, g, k)
<1> SUFFICES ASSUME Awaits(k)
             PROVE  /\ \A x \in W2 : LastByte(x) <= Limit(d, k)
                    /\ g.outValid = TRUE => \A x \in O2 : LastByte(x) <= Limit(d, k)
  BY DEF Fitting
<1>1. Awaits(h) /\ Limit(d, k) >= Limit(d, h)
  BY DEF Follows
<1>2. g.outValid = TRUE => f.outValid = TRUE
  BY DEF Stays
<1>3. Limit(d, k) \in Int /\ Limit(d, h) \in Int
  BY Counts
<1>4. \A x \in W \cup O : LastByte(x) \in Int
  BY BlockCounts
<1> QED
  BY <1>1, <1>2, <1>3, <1>4 DEF Fitting

\* A covered allowance stays covered.
LEMMA StaysWithin ==
  ASSUME NEW d \in Ends, NEW m \in Int,
         NEW f \in FlowSet, NEW g \in FlowSet, NEW h \in FlowSet, NEW k \in FlowSet,
         Stays(f, g), Follows(d, h, k), Within(d, f, h, m)
  PROVE  Within(d, g, k, m)
<1>1. /\ Took(f) \in Int /\ Took(g) \in Int /\ Window[d] \in Nat
      /\ Announced(d, h) \in Int /\ Announced(d, k) \in Int
  BY Counts
<1>2. Took(g) >= Took(f) /\ (Awaits(k) => Awaits(h) /\ Announced(d, k) >= Announced(d, h))
  BY DEF Stays, Follows
<1> QED
  BY <1>1, <1>2 DEF Within

\* A receiver announces no more than what was seen written and its window.
LEMMA AnnouncedBound ==
  ASSUME NEW d \in Ends, NEW f \in FlowSet, NEW h \in FlowSet, Sound(h),
         Sending(f), Steady(d, h), Seen(h) <= Handed(f), Awaits(h)
  PROVE  Announced(d, h) <= Took(f) + Window[d]
<1>1. /\ Took(f) \in Int /\ Handed(f) \in Int /\ Handed(f) <= Took(f) /\ Window[d] \in Nat
      /\ Seen(h) \in Int /\ Raised(h) \in Int
  BY Counts
<1>2. /\ h.got \in Seq(Int) /\ h.bytes \in Int /\ h.credit \in Int /\ h.pend \in Int
      /\ h.writing \in Seq(Int)
  BY DEF FlowSet
<1>3. Handed(f) >= 0 /\ h.pend >= 0 /\ h.bytes >= Len(h.writing)
  BY DEF Sending, Steady, Crediting, Receiving
<1>4. Raised(h) >= 0
  BY <1>2, <1>3 DEF Raised
<1>5. /\ Len(h.got) \in Nat /\ Len(h.writing) \in Nat /\ h.bytes \in Int /\ h.credit \in Int
      /\ h.pend \in Int
  BY <1>2
<1>6. CASE h.task = "none"
  BY <1>1, <1>3, <1>4, <1>6 DEF Announced, Limit
<1>7. CASE h.task # "none"
  <2>1. h.task \notin {"none", "gone"}
    BY <1>7, Zenon DEF Awaits, Sound
  <2>2. h.credit + h.bytes + h.pend - Raised(h) = Window[d]
    BY <2>1, Zenon DEF Steady, Crediting
  <2>3. Len(h.got) + h.bytes <= Handed(f)
    BY DEF Seen
  <2>4. Announced(d, h) = Len(h.got) + h.bytes + h.credit - Raised(h)
    BY <1>1, <1>5, <1>7 DEF Announced, Limit, Seen
  <2> QED
    <3>1. PICK got \in Nat, by \in Int, cr \in Int, pe \in Int, ra \in Int :
            got = Len(h.got) /\ by = h.bytes /\ cr = h.credit /\ pe = h.pend /\ ra = Raised(h)
      BY <1>1, <1>5
    <3>2. by >= 0 /\ pe >= 0
      BY <1>3, <1>5, <3>1
    <3>3. cr + by + pe - ra = Window[d] /\ got + by <= Handed(f) /\ Announced(d, h) = got + by + cr - ra
      BY <2>2, <2>3, <2>4, <3>1
    <3> QED
      BY <1>1, <3>2, <3>3
<1> QED
  BY <1>6, <1>7

\* The control lane c of the receiver becomes c2: the same for this stream, or
\* empty, or a WIN of p longer.
LaneGrows(d, c, c2, i, h, k) ==
  \/ \A a, b \in Int : Adds(c, i, a, b) => Adds(c2, i, a, b)
  \/ c2 = <<>>
  \/ \E p \in Nat :
       /\ \A a, b \in Int : Adds(c, i, a, b) => Adds(c2, i, a, b + p)
       /\ Awaits(k) /\ Announced(d, k) >= Announced(d, h) + p

\* The WINs to the sender, now g: none leaves the wire, the control lane may grow.
WinsGrow(d, i, w, w2, c, c2, g, h, k) ==
  /\ \A a, b \in Int : Adds(w, i, a, b) => Adds(w2, i, a, b)
  /\ k.outValid = TRUE => LaneGrows(d, c, c2, i, h, k)
  /\ Awaits(k) => Announced(d, k) <= Took(g) + Window[d]

\* The allowance stays covered.
LEMMA StaysAllowed ==
  ASSUME NEW d \in Ends, NEW i, NEW w, NEW w2, NEW c, NEW c2,
         NEW f \in FlowSet, NEW g \in FlowSet, NEW h \in FlowSet, NEW k \in FlowSet,
         Stays(f, g), Follows(d, h, k), g.live = TRUE, g.negotiated = TRUE,
         WinsGrow(d, i, w, w2, c, c2, g, h, k), Allowed(d, w, c, i, f, h)
  PROVE  Allowed(d, w2, c2, i, g, k)
<1>0. /\ Took(f) \in Int /\ Took(g) \in Int /\ Window[d] \in Nat /\ f.avail \in Int /\ g.avail \in Int
      /\ Announced(d, h) \in Int /\ Announced(d, k) \in Int
  BY Counts
<1>1. PICK m \in Int :
        /\ Adds(w, i, Took(f) + f.avail, m) /\ Within(d, f, h, m)
        /\ h.outValid = TRUE => \E n \in Int : Adds(c, i, m, n) /\ Within(d, f, h, n)
  BY DEF Allowed, Totals
<1>2. Took(g) + g.avail = Took(f) + f.avail /\ Took(f) + f.avail \in Int
  BY <1>0 DEF Stays
<1>3. Adds(w2, i, Took(g) + g.avail, m)
  BY <1>1, <1>2 DEF WinsGrow
<1>4. Within(d, g, k, m)
  BY <1>1, StaysWithin
<1>5. ASSUME k.outValid = TRUE
      PROVE  \E n \in Int : Adds(c2, i, m, n) /\ Within(d, g, k, n)
  <2>1. h.outValid = TRUE
    BY <1>5 DEF Follows
  <2>2. PICK n \in Int : Adds(c, i, m, n) /\ Within(d, f, h, n)
    BY <1>1, <2>1
  <2>3. CASE \A a, b \in Int : Adds(c, i, a, b) => Adds(c2, i, a, b)
    BY <2>2, <2>3, StaysWithin
  <2>4. CASE c2 = <<>>
    <3>1. <<>> \in Seq(WireRecords) /\ \A q \in 1..Len(<<>>) : ~Is(<<>>, q, "WIN", i)
      OBVIOUS
    <3>2. Adds(<<>>, i, m, m)
      BY <3>1, AddsNothing
    <3> QED
      BY <1>4, <2>4, <3>2
  <2>5. ASSUME NEW p \in Nat, \A a, b \in Int : Adds(c, i, a, b) => Adds(c2, i, a, b + p),
               Awaits(k), Announced(d, k) >= Announced(d, h) + p
        PROVE  \E n2 \in Int : Adds(c2, i, m, n2) /\ Within(d, g, k, n2)
    <3>1. Awaits(h)
      BY <2>5 DEF Follows
    <3>2. n <= Announced(d, h)
      BY <2>2, <3>1 DEF Within
    <3>3. n + p \in Int /\ n + p <= Announced(d, k) /\ n + p <= Took(g) + Window[d]
      BY <1>0, <2>5, <3>2 DEF WinsGrow
    <3>4. Adds(c2, i, m, n + p) /\ Within(d, g, k, n + p)
      BY <2>2, <2>5, <3>3 DEF Within
    <3> QED
      BY <3>3, <3>4
  <2> QED
    BY <1>5, <2>3, <2>4, <2>5 DEF LaneGrows, WinsGrow
<1> QED
  BY <1>3, <1>4, <1>5 DEF Allowed, Totals

-----------------------------------------------------------------------------
(* One direction of a stream: a payload moves on.                          *)

\* SendData: the chunk with an allowance is handed over.
HandsOver(f, g) ==
  /\ g.read = f.read /\ g.buf = f.buf /\ g.taken = <<>> /\ g.avail = f.avail
  /\ g.live = f.live /\ g.outValid = f.outValid /\ g.negotiated = f.negotiated

\* The numbers of a chunk that is handed over.
LEMMA ChunkNumbers ==
  ASSUME NEW f \in FlowSet, NEW g \in FlowSet, Sending(f), f.taken # <<>>, HandsOver(f, g)
  PROVE  /\ f.taken \in Seq(Int) /\ Block(f.taken) /\ f.taken[1] = Handed(f) + 1
         /\ LastByte(f.taken) = Took(f) /\ Handed(g) = Took(f) /\ Took(g) = Took(f)
         /\ Handed(f) >= 0
<1>1. /\ f.read \in Int /\ f.buf \in Seq(Int) /\ f.taken \in Seq(Int)
  BY DEF FlowSet
<1>2. Len(f.buf) \in Nat /\ Len(f.taken) \in Nat /\ Len(f.taken) >= 1 /\ f.read \in Int
  BY <1>1
<1>3. Handed(f) \in Int /\ Took(f) \in Int /\ Handed(f) = Took(f) - Len(f.taken)
  BY <1>2 DEF Handed, Took
<1>4. Handed(f) >= 0 /\ \A k \in 1..Len(f.taken) : f.taken[k] = Handed(f) + k
  BY DEF Sending
<1>5. f.taken[1] = Handed(f) + 1
  BY <1>2, <1>4
<1>6. LastByte(f.taken) = Took(f)
  BY <1>2, <1>3, <1>5 DEF LastByte
<1>7. Block(f.taken)
  BY <1>2, <1>3, <1>4, <1>5 DEF Block
<1>8. Took(g) = Took(f) /\ Handed(g) = Took(f)
  <2>1. g.read = f.read /\ Len(g.buf) = Len(f.buf) /\ Len(g.taken) = 0
    BY DEF HandsOver
  <2> QED
    BY <1>2, <2>1 DEF Took, Handed
<1> QED
  BY <1>1, <1>4, <1>5, <1>6, <1>7, <1>8

\* A handed over chunk is the next one, and the receiver has room for it.
LEMMA HandOver ==
  ASSUME NEW W, NEW O, \A x \in W \cup O : x \in Seq(Int), NEW d \in Ends,
         NEW f \in FlowSet, NEW g \in FlowSet, NEW h \in FlowSet, Sending(f), Sound(f),
         f.task \notin {"none", "gone"}, f.taken # <<>>, HandsOver(f, g), Numbered(W, O, f, h)
  PROVE  /\ \A x \in O : LastByte(x) < f.taken[1]
         /\ Numbered(W, O \cup {f.taken}, g, h)
         /\ Gapless(TRUE, W, O, f, h) => Gapless(TRUE, W, O \cup {f.taken}, g, h)
<1> DEFINE t == f.taken
<1>1. /\ t \in Seq(Int) /\ Block(t) /\ t[1] = Handed(f) + 1
      /\ LastByte(t) = Took(f) /\ Handed(g) = Took(f)
      /\ Handed(f) >= 0
  BY ChunkNumbers
<1>2. Handed(f) \in Int /\ Took(f) \in Int /\ Handed(f) <= Took(f) /\ Seen(h) \in Int
  BY Counts
<1> HIDE DEF t
<1>3. \A x \in W \cup O : x \in Seq(Int) /\ Block(x) /\ x[1] >= 1 /\ LastByte(x) \in Int /\ LastByte(x) <= Handed(f)
  BY BlockCounts DEF Numbered
<1>4. \A x \in W \cup O : LastByte(x) < t[1]
  BY <1>1, <1>2, <1>3
<1>5. Numbered(W, O \cup {t}, g, h)
  <2>1. \A x \in W, y \in O \cup {t} : LastByte(x) < y[1]
    BY <1>4 DEF Numbered
  <2>2. \A x \in W \cup (O \cup {t}) : Block(x) /\ x[1] >= 1 /\ LastByte(x) <= Handed(g)
    BY <1>1, <1>2, <1>3
  <2>3. Seen(h) <= Handed(g)
    BY <1>1, <1>2 DEF Numbered
  <2> QED
    BY <2>1, <2>2, <2>3 DEF Numbered
<1>6. ASSUME Gapless(TRUE, W, O, f, h), Awaits(h)
      PROVE  /\ \A x \in W : Reaches(x[1] - 1, Seen(h), W)
             /\ g.outValid = TRUE =>
                  /\ \A x \in O \cup {t} : Reaches(x[1] - 1, Seen(h), W \cup (O \cup {t}))
                  /\ Reaches(Handed(g), Seen(h), W \cup (O \cup {t}))
  <2>1. \A x \in W : Reaches(x[1] - 1, Seen(h), W)
    BY <1>6 DEF Gapless
  <2>2. ASSUME g.outValid = TRUE
        PROVE  /\ \A x \in O \cup {t} : Reaches(x[1] - 1, Seen(h), W \cup (O \cup {t}))
               /\ Reaches(Handed(g), Seen(h), W \cup (O \cup {t}))
    <3>1. f.outValid = TRUE
      BY <2>2 DEF HandsOver
    <3>2. f.live = TRUE
      BY <3>1 DEF Sound, FlowSet
    <3>3. \A x \in O : Reaches(x[1] - 1, Seen(h), W \cup (O \cup {t}))
      BY <1>6, <3>1 DEF Gapless, Reaches
    <3>4. Reaches(Handed(f), Seen(h), W \cup O)
      BY <1>6, <3>1, <3>2 DEF Gapless
    <3>5. t[1] - 1 = Handed(f)
      BY <1>1, <1>2
    <3>6. Reaches(t[1] - 1, Seen(h), W \cup (O \cup {t}))
      BY <3>4, <3>5 DEF Reaches
    <3>7. Reaches(Handed(g), Seen(h), W \cup (O \cup {t}))
      BY <1>1 DEF Reaches
    <3> QED
      BY <3>3, <3>6, <3>7
  <2> QED
    BY <2>1, <2>2
<1> QED
  BY <1>4, <1>5, <1>6 DEF Gapless, t

\* The allowance of a handed over chunk was covered.
LEMMA HandOverFits ==
  ASSUME NEW W, NEW O, NEW d \in Ends, NEW i, NEW w \in Seq(WireRecords), NEW c,
         NEW f \in FlowSet, NEW g \in FlowSet, NEW h \in FlowSet, Sending(f), Steady(d, h),
         f.taken # <<>>, HandsOver(f, g), Fitting(d, W, O, f, h), Allowed(d, w, c, i, f, h)
  PROVE  Fitting(d, W, O \cup {f.taken}, g, h)
<1>1. LastByte(f.taken) = Took(f)
  BY ChunkNumbers
<1>2. PICK m \in Int : Adds(w, i, Took(f) + f.avail, m) /\ Within(d, f, h, m)
  BY DEF Allowed, Totals
<1>3. Took(f) \in Int /\ f.avail \in Int /\ Limit(d, h) \in Int /\ Raised(h) \in Int
  BY Counts
<1>4. Took(f) + f.avail <= m
  BY <1>2, <1>3, AddsGrows
<1>5. f.avail >= 0 /\ h.pend >= 0
  BY DEF Sending, Steady, Crediting
<1>6. Raised(h) = h.pend \/ Raised(h) = 0
  BY DEF Raised
<1>7. Awaits(h) => Took(f) <= Limit(d, h)
  <2>1. Awaits(h) => m <= Limit(d, h) - Raised(h)
    BY <1>2 DEF Within, Announced
  <2>2. Raised(h) >= 0
    BY <1>5, <1>6
  <2> QED
    BY <1>3, <1>4, <1>5, <2>1, <2>2
<1>8. g.outValid = f.outValid
  BY DEF HandsOver
<1> QED
  BY <1>1, <1>7, <1>8 DEF Fitting

\* The writer takes the first payload x of the output lane to the wire.
LEMMA PayloadFed ==
  ASSUME NEW W, NEW O, NEW x, \A y \in W \cup O : y \in Seq(Int), x \in Seq(Int), NEW d, NEW r,
         NEW f \in FlowSet, NEW h \in FlowSet, f.outValid = TRUE,
         \A y \in O : LastByte(x) < y[1], Numbered(W, O \cup {x}, f, h)
  PROVE  /\ \A y \in W : LastByte(y) < x[1]
         /\ Numbered(W \cup {x}, O, f, h)
         /\ Gapless(r, W, O \cup {x}, f, h) => Gapless(r, W \cup {x}, O, f, h)
         /\ Fitting(d, W, O \cup {x}, f, h) => Fitting(d, W \cup {x}, O, f, h)
<1>1. /\ \A y \in W : LastByte(y) < x[1]
      /\ Numbered(W \cup {x}, O, f, h)
  BY DEF Numbered
<1>2. Fitting(d, W, O \cup {x}, f, h) => Fitting(d, W \cup {x}, O, f, h)
  BY DEF Fitting
<1>3. ASSUME Gapless(r, W, O \cup {x}, f, h), Awaits(h)
      PROVE  /\ \A y \in W \cup {x} : Reaches(y[1] - 1, Seen(h), W \cup {x})
             /\ \A y \in O : Reaches(y[1] - 1, Seen(h), (W \cup {x}) \cup O)
             /\ f.live = TRUE /\ r = TRUE => Reaches(Handed(f), Seen(h), (W \cup {x}) \cup O)
  <2>1. W \cup (O \cup {x}) = (W \cup {x}) \cup O
    OBVIOUS
  <2>2. /\ \A y \in W : Reaches(y[1] - 1, Seen(h), W)
        /\ \A y \in O \cup {x} : Reaches(y[1] - 1, Seen(h), (W \cup {x}) \cup O)
        /\ f.live = TRUE /\ r = TRUE => Reaches(Handed(f), Seen(h), (W \cup {x}) \cup O)
    BY <1>3, <2>1 DEF Gapless
  <2>3. \A y \in W : Reaches(y[1] - 1, Seen(h), W \cup {x})
    BY <2>2 DEF Reaches
  <2>4. Reaches(x[1] - 1, Seen(h), W \cup {x})
    <3>1. Reaches(x[1] - 1, Seen(h), (W \cup {x}) \cup O)
      BY <2>2
    <3>2. \A y \in O : LastByte(y) # x[1] - 1
      <4> TAKE y \in O
      <4>1. Block(x) /\ Block(y) /\ y \in Seq(Int)
        BY DEF Numbered
      <4>2. /\ x[1] \in Int /\ y[1] \in Int /\ LastByte(x) \in Int /\ LastByte(y) \in Int
            /\ x[1] <= LastByte(x) /\ y[1] <= LastByte(y) /\ LastByte(x) < y[1]
        BY <4>1, BlockCounts
      <4> QED
        BY <4>2
    <3> QED
      BY <3>1, <3>2 DEF Reaches
  <2> QED
    BY <2>2, <2>3, <2>4
<1> QED
  BY <1>1, <1>2, <1>3 DEF Gapless

\* enqueue: the payload x is accepted.
Accepts(d, h, k, x) ==
  /\ Seen(k) = Seen(h) + Len(x) /\ Limit(d, k) = Limit(d, h) /\ Raised(k) = Raised(h)
  /\ k.outValid = h.outValid /\ Awaits(k)

\* What arrives at a receiver that awaits it is the next payload.
LEMMA NextPayload ==
  ASSUME NEW W, NEW O, NEW x, \A y \in W \cup O : y \in Seq(Int), x \in Seq(Int),
         NEW r \in BOOLEAN, NEW f \in FlowSet, NEW h \in FlowSet,
         \A y \in W : LastByte(x) < y[1], Numbered(W \cup {x}, O, f, h),
         Gapless(r, W \cup {x}, O, f, h), Awaits(h)
  PROVE  x[1] = Seen(h) + 1 /\ Block(x) /\ LastByte(x) = Seen(h) + Len(x) /\ Len(x) \in Nat
<1>1. Seen(h) \in Int
  BY Counts DEF Ends
<1>2. \A y \in W \cup {x} : Block(y) /\ y[1] \in Int /\ LastByte(y) \in Int /\ y[1] <= LastByte(y)
  BY BlockCounts DEF Numbered
<1>3. Reaches(x[1] - 1, Seen(h), W \cup {x})
  BY DEF Gapless
<1>4. \A y \in W \cup {x} : LastByte(y) # x[1] - 1
  <2> TAKE y \in W \cup {x}
  <2>1. CASE y = x
    BY <1>2, <2>1
  <2>2. CASE y \in W
    <3>1. /\ x[1] \in Int /\ y[1] \in Int /\ LastByte(x) \in Int /\ LastByte(y) \in Int
          /\ x[1] <= LastByte(x) /\ y[1] <= LastByte(y) /\ LastByte(x) < y[1]
      BY <1>2, <2>2
    <3> QED
      BY <3>1
  <2> QED
    BY <2>1, <2>2
<1>5. x[1] - 1 = Seen(h) /\ x[1] \in Int
  BY <1>2, <1>3, <1>4 DEF Reaches
<1>6. x[1] = Seen(h) + 1 /\ Len(x) \in Nat
  BY <1>1, <1>5
<1> QED
  BY <1>1, <1>2, <1>6 DEF LastByte

\* An accepted payload leaves the direction as it was.
LEMMA PayloadAccepted ==
  ASSUME NEW W, NEW O, NEW x, \A y \in W \cup O : y \in Seq(Int), x \in Seq(Int), NEW d \in Ends,
         NEW r \in BOOLEAN, NEW f \in FlowSet, NEW h \in FlowSet, NEW k \in FlowSet,
         \A y \in W : LastByte(x) < y[1], Numbered(W \cup {x}, O, f, h),
         Gapless(r, W \cup {x}, O, f, h), Awaits(h), Accepts(d, h, k, x)
  PROVE  /\ Numbered(W, O, f, k) /\ Gapless(r, W, O, f, k)
         /\ Fitting(d, W \cup {x}, O, f, h) => Fitting(d, W, O, f, k)
<1>1. x[1] = Seen(h) + 1 /\ Block(x) /\ LastByte(x) = Seen(h) + Len(x) /\ Len(x) \in Nat
  BY NextPayload
<1>2. Seen(k) = LastByte(x) /\ Seen(h) \in Int /\ LastByte(x) \in Int /\ x[1] <= LastByte(x) /\ Handed(f) \in Int
  BY <1>1, Counts, BlockCounts DEF Accepts
<1>3. Numbered(W, O, f, k)
  <2>1. Seen(k) <= Handed(f)
    BY <1>2 DEF Numbered
  <2> QED
    BY <2>1 DEF Numbered
<1>4. Fitting(d, W \cup {x}, O, f, h) => Fitting(d, W, O, f, k)
  <2>1. Limit(d, k) = Limit(d, h)
    BY DEF Accepts
  <2> QED
    BY <2>1 DEF Fitting
<1>5. \A y \in W \cup O : y[1] \in Int /\ LastByte(x) < y[1]
  BY BlockCounts DEF Numbered
<1>6. ASSUME NEW n \in Int, NEW S, n >= LastByte(x), Reaches(n, Seen(h), S \cup {x})
      PROVE  Reaches(n, Seen(k), S)
  <2>1. n # Seen(h)
    BY <1>1, <1>2, <1>6
  <2> QED
    BY <1>2, <1>6, <2>1 DEF Reaches
<1>7. Gapless(r, W, O, f, k)
  <2>1. \A y \in W \cup O : y[1] - 1 \in Int /\ y[1] - 1 >= LastByte(x)
    BY <1>2, <1>5
  <2>2. \A y \in W : Reaches(y[1] - 1, Seen(k), W)
    BY <1>6, <2>1 DEF Gapless
  <2>3. (W \cup {x}) \cup O = (W \cup O) \cup {x}
    OBVIOUS
  <2>4. f.outValid = TRUE => \A y \in O : Reaches(y[1] - 1, Seen(k), W \cup O)
    BY <1>6, <2>1, <2>3 DEF Gapless
  <2>5. Handed(f) >= LastByte(x)
    BY DEF Numbered
  <2>6. f.outValid = TRUE /\ f.live = TRUE /\ r = TRUE => Reaches(Handed(f), Seen(k), W \cup O)
    BY <1>2, <1>6, <2>3, <2>5 DEF Gapless
  <2> QED
    BY <2>2, <2>4, <2>6 DEF Gapless
<1> QED
  BY <1>3, <1>4, <1>7

-----------------------------------------------------------------------------
(* Steps that send no payload and accept none.                             *)

\* The other end of the other end.
LEMMA PeerFacts ==
  ASSUME NEW e \in Ends
  PROVE  Peer(e) \in Ends /\ Peer(Peer(e)) = e /\ Peer(e) # e
  BY DEF Peer, Ends

\* A flow that does not change.
LEMMA SameMild ==
  ASSUME NEW e \in Ends, NEW f \in FlowSet, Steady(e, f)
  PROVE  Mild(e, f, f)
<1>1. /\ Handed(f) \in Int /\ Took(f) \in Int /\ Seen(f) \in Int
      /\ Limit(e, f) \in Int /\ Announced(e, f) \in Int
  BY Counts
<1> QED
  BY <1>1 DEF Mild, Stays, Follows

\* The queues are typed.
LEMMA QueuesTyped ==
  ASSUME Values, NEW e \in Ends
  PROVE  /\ wire[e] \in Seq(WireRecords) /\ out[e] \in Seq(WireRecords) /\ ctl[e] \in Seq(WireRecords)
         /\ out[e] \in Seq(OutRecords) /\ ctl[e] \in Seq(CtlRecords) /\ run[e] \in BOOLEAN
<1>1. wire[e] \in Seq(WireRecords) /\ out[e] \in Seq(OutRecords) /\ ctl[e] \in Seq(CtlRecords) /\ run[e] \in BOOLEAN
  BY DEF Values
<1>2. OutRecords \subseteq WireRecords /\ CtlRecords \subseteq WireRecords
  BY DEF WireRecords
<1>3. \A S, T : S \subseteq T => Seq(S) \subseteq Seq(T)
  OBVIOUS
<1> QED
  BY <1>1, <1>2, <1>3

\* The sender's output lane.
LEMMA OutMildDatas ==
  ASSUME Values, NEW e \in Ends, NEW i, OutMild(e), Ascending(out[e], i)
  PROVE  /\ Ascending(out'[e], i)
         /\ \/ Datas(out'[e], i) = Datas(out[e], i) /\ (run'[e] = TRUE => run[e] = TRUE)
            \/ Datas(out'[e], i) = {} /\ run'[e] = FALSE
<1>1. CASE out'[e] = out[e] /\ run'[e] = run[e]
  BY <1>1
<1>2. CASE out'[e] = <<>> /\ run'[e] = FALSE
  BY <1>2, EmptyPayload
<1>3. ASSUME NEW r \in OutRecords, out'[e] = Append(out[e], r), r.kind # "DATA", run'[e] = run[e]
      PROVE  Ascending(out'[e], i) /\ Datas(out'[e], i) = Datas(out[e], i)
  <2>1. AppendDatas(out[e], r, i)
    BY AppendPayload, QueuesTyped
  <2> QED
    BY <1>3, <2>1 DEF AppendDatas
<1> QED
  BY <1>1, <1>2, <1>3 DEF OutMild

\* The wire to a receiver that takes nothing from it.
LEMMA WireMildDatas ==
  ASSUME Values, NEW e \in Ends, NEW i \in Sids, WireMild(e), Ascending(wire[e], i)
  PROVE  /\ Ascending(wire'[e], i) /\ Datas(wire'[e], i) \subseteq Datas(wire[e], i)
         /\ Awaits(flow'[Peer(e)][i]) => Datas(wire'[e], i) = Datas(wire[e], i)
<1>1. CASE wire'[e] = wire[e]
  BY <1>1
<1>2. CASE /\ wire[e] # <<>> /\ wire'[e] = Tail(wire[e])
           /\ Head(wire[e]).kind = "DATA" => ~Awaits(flow'[Peer(e)][Head(wire[e]).sid])
  <2>1. TailDatas(wire[e], i)
    BY <1>2, TailPayload, QueuesTyped
  <2>2. PICK h, t : h = Head(wire[e]) /\ t = Tail(wire[e])
    OBVIOUS
  <2>3. /\ Ascending(t, i)
        /\ h.kind = "DATA" /\ h.sid = i => Datas(wire[e], i) = Datas(t, i) \cup {h.data}
        /\ ~(h.kind = "DATA" /\ h.sid = i) => Datas(wire[e], i) = Datas(t, i)
    BY <2>1, <2>2 DEF TailDatas
  <2>4. Awaits(flow'[Peer(e)][i]) => ~(h.kind = "DATA" /\ h.sid = i)
    BY <1>2, <2>2
  <2> QED
    BY <1>2, <2>2, <2>3, <2>4
<1> QED
  BY <1>1, <1>2 DEF WireMild

\* Its WINs.
LEMMA WireMildAdds ==
  ASSUME Values, NEW e \in Ends, NEW i \in Sids, WireMild(e), Counted(i),
         flow'[Peer(e)][i].live = TRUE
  PROVE  \A a, b \in Int : Adds(wire[e], i, a, b) => Adds(wire'[e], i, a, b)
<1>1. CASE wire'[e] = wire[e]
  BY <1>1
<1>2. CASE /\ wire[e] # <<>> /\ wire'[e] = Tail(wire[e])
           /\ Head(wire[e]).kind = "WIN" =>
                ~(flow'[Peer(e)][Head(wire[e]).sid].live = TRUE /\ Counted(Head(wire[e]).sid))
  <2>1. Inc(Head(wire[e]), i) = 0
    BY <1>2 DEF Inc
  <2> SUFFICES ASSUME NEW a \in Int, NEW b \in Int, Adds(wire[e], i, a, b)
               PROVE  Adds(wire'[e], i, a, b)
    OBVIOUS
  <2>2. Adds(Tail(wire[e]), i, a + Inc(Head(wire[e]), i), b)
    BY <1>2, AddsTail, QueuesTyped
  <2>3. a + 0 = a
    OBVIOUS
  <2> QED
    BY <1>2, <2>1, <2>2, <2>3
<1> QED
  BY <1>1, <1>2 DEF WireMild

\* The control lane.
LEMMA CtlMildGrows ==
  ASSUME Values, NEW d \in Ends, NEW i \in Sids, CtlMild(d), flow'[d][i].outValid = TRUE
  PROVE  LaneGrows(d, ctl[d], ctl'[d], i, flow[d][i], flow'[d][i])
<1>1. CASE ctl'[d] = ctl[d] \/ ctl'[d] = <<>>
  BY <1>1 DEF LaneGrows
<1>2. ASSUME NEW r \in CtlRecords, ctl'[d] = Append(ctl[d], r),
             r.kind = "WIN" => WinDue(d, r, flow[d][r.sid], flow'[d][r.sid])
      PROVE  LaneGrows(d, ctl[d], ctl'[d], i, flow[d][i], flow'[d][i])
  <2>0. r \in WireRecords /\ r.n \in Int
    BY DEF WireRecords, CtlRecords, RecordsOf
  <2>1. CASE r.kind = "WIN" /\ r.sid = i
    <3>1. WinDue(d, r, flow[d][i], flow'[d][i])
      BY <1>2, <2>1
    <3>2. Inc(r, i) = r.n /\ r.n \in Nat
      BY <2>0, <2>1, <3>1 DEF Inc, WinDue
    <3>3. \A a, b \in Int : Adds(ctl[d], i, a, b) => Adds(ctl'[d], i, a, b + r.n)
      BY <1>2, <2>0, <3>2, AddsAppend, QueuesTyped
    <3>4. Awaits(flow'[d][i]) /\ Announced(d, flow'[d][i]) >= Announced(d, flow[d][i]) + r.n
      BY <3>1 DEF WinDue
    <3> QED
      BY <3>2, <3>3, <3>4 DEF LaneGrows
  <2>2. CASE ~(r.kind = "WIN" /\ r.sid = i)
    <3>1. Inc(r, i) = 0
      BY <2>2 DEF Inc
    <3>2. \A a, b \in Int : Adds(ctl[d], i, a, b) => Adds(ctl'[d], i, a, b + 0)
      BY <1>2, <2>0, <3>1, AddsAppend, QueuesTyped
    <3>3. \A b \in Int : b + 0 = b
      OBVIOUS
    <3>4. \A a, b \in Int : Adds(ctl[d], i, a, b) => Adds(ctl'[d], i, a, b)
      BY <3>2, <3>3
    <3> QED
      BY <3>4 DEF LaneGrows
  <2> QED
    BY <2>1, <2>2
<1> QED
  BY <1>1, <1>2 DEF CtlMild

\* What DInv says of one direction, and of the flows at its ends.
LEMMA DirectionFacts ==
  ASSUME FInv, DInv, NEW e \in Ends, NEW i \in Sids
  PROVE  /\ Peer(e) \in Ends /\ Directed(e, i)
         /\ flow[e][i] \in FlowSet /\ flow[Peer(e)][i] \in FlowSet
         /\ Sound(flow[e][i]) /\ Sound(flow[Peer(e)][i])
         /\ Steady(e, flow[e][i]) /\ Steady(Peer(e), flow[Peer(e)][i])
         /\ \A x \in Datas(wire[e], i) \cup Datas(out[e], i) : x \in Seq(Int)
<1>1. Peer(e) \in Ends
  BY PeerFacts
<1>2. wire[e] \in Seq(WireRecords) /\ out[e] \in Seq(WireRecords)
  BY QueuesTyped DEF FInv
<1>3. \A x \in Datas(wire[e], i) \cup Datas(out[e], i) : x \in Seq(Int)
  BY <1>2, PayloadsTyped
<1> QED
  BY <1>1, <1>3, FlowFacts DEF DInv

\* A flow of the table has the mode of the stream.
LEMMA LiveMode ==
  ASSUME FInv, DInv, NEW e \in Ends, NEW i \in Sids, flow[e][i].live = TRUE
  PROVE  flow[e][i].negotiated = flow["c"][i].negotiated
<1>1. flow[e][i].task \notin {"none", "gone"}
  BY DirectionFacts, Zenon DEF Sound
<1>2. CASE e = "c"
  BY <1>2
<1>3. CASE e = "s"
  BY <1>1, <1>3 DEF DInv, SameMode
<1> QED
  BY <1>2, <1>3 DEF Ends

\* In one direction nothing is handed over and nothing accepted.
Rests(e, i) ==
  /\ Stays(flow[e][i], flow'[e][i]) /\ Follows(Peer(e), flow[Peer(e)][i], flow'[Peer(e)][i])
  /\ Steady(e, flow'[e][i]) /\ Steady(Peer(e), flow'[Peer(e)][i])
  /\ flow'[e][i].negotiated = flow[e][i].negotiated
  /\ flow'["c"][i].negotiated = flow["c"][i].negotiated

\* Its payloads stay, or are dropped where nobody awaits them.
PayloadsRest(e, i) ==
  /\ Ascending(wire'[e], i) /\ Ascending(out'[e], i)
  /\ Datas(wire'[e], i) \subseteq Datas(wire[e], i)
  /\ Awaits(flow'[Peer(e)][i]) => Datas(wire'[e], i) = Datas(wire[e], i)
  /\ \/ Datas(out'[e], i) = Datas(out[e], i) /\ (run'[e] = TRUE => run[e] = TRUE)
     \/ Datas(out'[e], i) = {} /\ run'[e] = FALSE

\* The WINs from d stay, or one that is due is queued.
WinsRest(d, i) ==
  /\ Counted(i) /\ flow'[Peer(d)][i].live = TRUE =>
       \A a, b \in Int : Adds(wire[d], i, a, b) => Adds(wire'[d], i, a, b)
  /\ flow'[d][i].outValid = TRUE => LaneGrows(d, ctl[d], ctl'[d], i, flow[d][i], flow'[d][i])

\* What is under way stays in order and fits.
LEMMA DeliveredKept ==
  ASSUME FInv, DInv, FInv', NEW e \in Ends, NEW i \in Sids, Rests(e, i), PayloadsRest(e, i)
  PROVE  Delivered(e, i)'
<1> DEFINE d == Peer(e)
<1>0. /\ d \in Ends /\ Peer(d) = e /\ Values /\ "c" \in Ends /\ "s" \in Ends
  BY PeerFacts DEF FInv, Ends
<1>1. PICK f, g, h, k : f = flow[e][i] /\ g = flow'[e][i] /\ h = flow[d][i] /\ k = flow'[d][i]
  OBVIOUS
<1>2. PICK W, O, W2, O2 :
        /\ W = Datas(wire[e], i) /\ O = Datas(out[e], i)
        /\ W2 = Datas(wire'[e], i) /\ O2 = Datas(out'[e], i)
  OBVIOUS
<1>3. /\ f \in FlowSet /\ g \in FlowSet /\ h \in FlowSet /\ k \in FlowSet
  <2>1. f \in FlowSet /\ h \in FlowSet
    BY <1>0, <1>1, FlowFacts
  <2>2. flow'[e][i] \in FlowSet /\ flow'[d][i] \in FlowSet
    BY <1>0 DEF FInv, Values
  <2> QED
    BY <1>1, <2>1, <2>2
<1>5. Stays(f, g) /\ Follows(d, h, k)
  BY <1>1 DEF Rests
<1>6. /\ Numbered(W, O, f, h) /\ Gapless(run[e], W, O, f, h)
      /\ Counted(i) => Fitting(d, W, O, f, h)
  BY <1>1, <1>2, DirectionFacts DEF Directed, Delivered
<1>7. \A x \in W \cup O : x \in Seq(Int)
  BY <1>2, DirectionFacts
<1>8. /\ Ascending(out'[e], i) /\ Ascending(wire'[e], i)
      /\ \/ O2 = O /\ (run'[e] = TRUE => run[e] = TRUE)
         \/ O2 = {} /\ run'[e] = FALSE
  BY <1>2 DEF PayloadsRest
<1>9. W2 \subseteq W /\ (Awaits(k) => W2 = W)
  BY <1>1, <1>2 DEF PayloadsRest
<1>10. run[e] \in BOOLEAN /\ run'[e] \in BOOLEAN
  BY <1>0 DEF FInv, Values
<1>11. W2 \in SUBSET W /\ O2 \in SUBSET O
  BY <1>8, <1>9
<1>12. Numbered(W2, O2, g, k)
  BY <1>0, <1>3, <1>5, <1>6, <1>7, <1>11, StaysNumbered
<1>13. Gapless(run'[e], W2, O2, g, k)
  <2>1. Shrinks(run[e], run'[e], W, W2, O, O2, k)
    BY <1>8, <1>9 DEF Shrinks
  <2> QED
    BY <1>0, <1>3, <1>5, <1>6, <1>10, <2>1, StaysGapless
<1>14. Counted(i)' <=> Counted(i)
  BY DEF Rests, Counted
<1>15. Counted(i) => Fitting(d, W2, O2, g, k)
  <2>1. \A x \in W \cup O : x \in Seq(Int) /\ Block(x)
    BY <1>6, <1>7 DEF Numbered
  <2> QED
    BY <1>0, <1>3, <1>5, <1>6, <1>11, <2>1, StaysFitting
<1> QED
  BY <1>1, <1>2, <1>8, <1>12, <1>13, <1>14, <1>15 DEF Delivered

\* What is announced to a sender is no more than its window.
LEMMA AnnouncedFits ==
  ASSUME FInv', NEW e \in Ends, NEW i \in Sids,
         Steady(e, flow'[e][i]), Steady(Peer(e), flow'[Peer(e)][i]), Delivered(e, i)'
  PROVE  Awaits(flow'[Peer(e)][i]) =>
           Announced(Peer(e), flow'[Peer(e)][i]) <= Took(flow'[e][i]) + Window[Peer(e)]
<1>1. PICK d \in Ends : d = Peer(e)
  BY PeerFacts
<1>2. PICK g, k : g = flow'[e][i] /\ k = flow'[d][i]
  OBVIOUS
<1>3. g \in FlowSet /\ k \in FlowSet /\ Sound(k)
  BY <1>1, <1>2 DEF FInv, Values, FlowsSound
<1>4. Sending(g) /\ Steady(d, k)
  BY <1>1, <1>2 DEF Steady
<1>5. Seen(k) <= Handed(g)
  BY <1>1, <1>2 DEF Delivered, Numbered
<1>6. Awaits(k) => Announced(d, k) <= Took(g) + Window[d]
  BY <1>3, <1>4, <1>5, AnnouncedBound
<1> QED
  BY <1>1, <1>2, <1>6

\* The allowance stays covered.
LEMMA CoveredKept ==
  ASSUME FInv, DInv, FInv', NEW e \in Ends, NEW i \in Sids, Rests(e, i), Delivered(e, i)',
         WinsRest(Peer(e), i)
  PROVE  Covered(e, i)'
<1> DEFINE d == Peer(e)
<1>0. /\ d \in Ends /\ Peer(d) = e /\ "c" \in Ends /\ "s" \in Ends
  BY PeerFacts DEF Ends
<1>1. PICK f, g, h, k : f = flow[e][i] /\ g = flow'[e][i] /\ h = flow[d][i] /\ k = flow'[d][i]
  OBVIOUS
<1>3. /\ f \in FlowSet /\ g \in FlowSet /\ h \in FlowSet /\ k \in FlowSet
  <2>1. f \in FlowSet /\ h \in FlowSet
    BY <1>0, <1>1, FlowFacts
  <2>2. flow'[e][i] \in FlowSet /\ flow'[d][i] \in FlowSet
    BY <1>0 DEF FInv, Values
  <2> QED
    BY <1>1, <2>1, <2>2
<1>5. Stays(f, g) /\ Follows(d, h, k) /\ g.negotiated = f.negotiated
  BY <1>1 DEF Rests
<1>14. Counted(i)' <=> Counted(i)
  BY DEF Rests, Counted
<1>16. ASSUME Counted(i), g.live = TRUE
       PROVE  Allowed(d, wire'[d], ctl'[d], i, g, k)
  <2>1. f.live = TRUE
    BY <1>3, <1>5, <1>16 DEF Stays
  <2>2. g.negotiated = TRUE
    BY <1>1, <1>5, <1>16, <2>1, LiveMode DEF Counted
  <2>3. \A a, b \in Int : Adds(wire[d], i, a, b) => Adds(wire'[d], i, a, b)
    BY <1>0, <1>1, <1>16 DEF WinsRest
  <2>4. k.outValid = TRUE => LaneGrows(d, ctl[d], ctl'[d], i, h, k)
    BY <1>1 DEF WinsRest
  <2>5. Awaits(k) => Announced(d, k) <= Took(g) + Window[d]
    BY <1>1, AnnouncedFits DEF Rests
  <2>6. Allowed(d, wire[d], ctl[d], i, f, h)
    BY <1>1, <1>16, <2>1, DirectionFacts DEF Directed, Covered
  <2>7. WinsGrow(d, i, wire[d], wire'[d], ctl[d], ctl'[d], g, h, k)
    BY <2>3, <2>4, <2>5 DEF WinsGrow
  <2> QED
    BY <1>0, <1>3, <1>5, <1>16, <2>2, <2>6, <2>7, StaysAllowed
<1> QED
  BY <1>1, <1>14, <1>16 DEF Covered

\* A mild step keeps every direction.
LEMMA MildDirected ==
  ASSUME FInv, DInv, FInv',
         \A e \in Ends, i \in Sids : Mild(e, flow[e][i], flow'[e][i]),
         \A e \in Ends : CtlMild(e) /\ WireMild(e) /\ OutMild(e),
         NEW e \in Ends, NEW i \in Sids
  PROVE  Directed(e, i)'
<1>1. PICK d \in Ends : d = Peer(e) /\ Peer(d) = e
  BY PeerFacts
<1>0. Values /\ "c" \in Ends
  BY DEF FInv, Ends
<1>2. Mild(e, flow[e][i], flow'[e][i]) /\ Mild(d, flow[d][i], flow'[d][i]) /\ Mild("c", flow["c"][i], flow'["c"][i])
  BY <1>0
<1>3. Rests(e, i)
  BY <1>1, <1>2 DEF Rests, Mild
<1>4. Ascending(wire[e], i) /\ Ascending(out[e], i)
  BY DirectionFacts DEF Directed, Delivered
<1>5. PayloadsRest(e, i)
  <2>1. /\ Ascending(out'[e], i)
        /\ \/ Datas(out'[e], i) = Datas(out[e], i) /\ (run'[e] = TRUE => run[e] = TRUE)
           \/ Datas(out'[e], i) = {} /\ run'[e] = FALSE
    BY <1>0, <1>4, OutMildDatas
  <2>2. /\ Ascending(wire'[e], i) /\ Datas(wire'[e], i) \subseteq Datas(wire[e], i)
        /\ Awaits(flow'[Peer(e)][i]) => Datas(wire'[e], i) = Datas(wire[e], i)
    BY <1>0, <1>4, WireMildDatas
  <2> QED
    BY <2>1, <2>2 DEF PayloadsRest
<1>6. Delivered(e, i)'
  BY <1>3, <1>5, DeliveredKept
<1>7. WinsRest(d, i)
  BY <1>0, WireMildAdds, CtlMildGrows DEF WinsRest
<1> QED
  BY <1>1, <1>3, <1>6, <1>7, CoveredKept DEF Directed

\* What the control records of a queue say is kept.
LEMMA EarnedKept ==
  ASSUME NEW q \in Seq(WireRecords), NEW fs, NEW gs, Earned(q, fs),
         \A i \in Sids : fs[i].got # <<>> => gs[i].got # <<>>
  PROVE  /\ Earned(q, gs) /\ Earned(<<>>, gs)
         /\ q # <<>> => /\ Earned(Tail(q), gs)
                        /\ Head(q).kind = "WIN" => Head(q).n >= 1 /\ gs[Head(q).sid].got # <<>>
<1>1. \A k \in 1..Len(q) : q[k] \in WireRecords
  OBVIOUS
<1>2. \A k \in 1..Len(q) : q[k].kind = "WIN" => q[k].sid \in Sids
  BY <1>1, SidOfReset
<1>3. Earned(q, gs)
  BY <1>2 DEF Earned
<1>4. ASSUME q # <<>>
      PROVE  /\ Earned(Tail(q), gs)
             /\ Head(q).kind = "WIN" => Head(q).n >= 1 /\ gs[Head(q).sid].got # <<>>
  <2>1. /\ Len(q) \in Nat /\ Len(q) >= 1 /\ Len(Tail(q)) = Len(q) - 1 /\ Head(q) = q[1]
        /\ \A k \in 1..Len(Tail(q)) : Tail(q)[k] = q[k + 1]
    BY <1>4
  <2> QED
    BY <1>3, <2>1 DEF Earned
<1>5. Earned(<<>>, gs)
  BY DEF Earned
<1> QED
  BY <1>3, <1>4, <1>5

\* One more record.
LEMMA EarnedMore ==
  ASSUME NEW q \in Seq(WireRecords), NEW gs, Earned(q, gs), NEW r \in WireRecords,
         r.kind = "WIN" => r.n >= 1 /\ gs[r.sid].got # <<>>
  PROVE  Earned(Append(q, r), gs)
<1>1. /\ Len(Append(q, r)) = Len(q) + 1 /\ Len(q) \in Nat /\ Append(q, r)[Len(q) + 1] = r
      /\ \A k \in 1..Len(q) : Append(q, r)[k] = q[k]
  OBVIOUS
<1> QED
  BY <1>1 DEF Earned

\* So is what the OPENs say, and that a CLOSE is bare.
LEMMA TellsKept ==
  ASSUME NEW q \in Seq(WireRecords), NEW fs, NEW gs, OpensTell(q, fs),
         \A i \in Sids : Holds(q, "OPEN", i) => gs[i].negotiated = fs[i].negotiated
  PROVE  /\ OpensTell(q, gs) /\ OpensTell(<<>>, gs)
         /\ q # <<>> => /\ OpensTell(Tail(q), gs)
                        /\ Head(q).kind = "OPEN" => Head(q).credit = gs[Head(q).sid].negotiated
<1>1. \A k \in 1..Len(q) : q[k] \in WireRecords
  OBVIOUS
<1>2. \A k \in 1..Len(q) : q[k].kind = "OPEN" => q[k].sid \in Sids /\ Holds(q, "OPEN", q[k].sid)
  BY <1>1, SidOfReset DEF Holds, Is
<1>3. OpensTell(q, gs)
  BY <1>2 DEF OpensTell
<1>4. ASSUME q # <<>>
      PROVE  /\ OpensTell(Tail(q), gs)
             /\ Head(q).kind = "OPEN" => Head(q).credit = gs[Head(q).sid].negotiated
  <2>1. /\ Len(q) \in Nat /\ Len(q) >= 1 /\ Len(Tail(q)) = Len(q) - 1 /\ Head(q) = q[1]
        /\ \A k \in 1..Len(Tail(q)) : Tail(q)[k] = q[k + 1]
    BY <1>4
  <2> QED
    BY <1>3, <2>1 DEF OpensTell
<1>5. OpensTell(<<>>, gs)
  BY DEF OpensTell
<1> QED
  BY <1>3, <1>4, <1>5

\* One more record.
LEMMA TellsMore ==
  ASSUME NEW q \in Seq(WireRecords), NEW gs, OpensTell(q, gs), NEW r \in WireRecords,
         r.kind = "OPEN" => r.credit = gs[r.sid].negotiated
  PROVE  OpensTell(Append(q, r), gs)
<1>1. /\ Len(Append(q, r)) = Len(q) + 1 /\ Len(q) \in Nat /\ Append(q, r)[Len(q) + 1] = r
      /\ \A k \in 1..Len(q) : Append(q, r)[k] = q[k]
  OBVIOUS
<1> QED
  BY <1>1 DEF OpensTell

\* A CLOSE stays bare.
LEMMA BareKept ==
  ASSUME NEW q \in Seq(WireRecords), Bare(q)
  PROVE  /\ Bare(<<>>)
         /\ q # <<>> => Bare(Tail(q)) /\ (Head(q).kind = "CLOSE" => Head(q).data = <<>>)
         /\ \A r \in WireRecords : (r.kind = "CLOSE" => r.data = <<>>) => Bare(Append(q, r))
<1>1. ASSUME q # <<>>
      PROVE  Bare(Tail(q)) /\ (Head(q).kind = "CLOSE" => Head(q).data = <<>>)
  <2>1. /\ Len(q) \in Nat /\ Len(q) >= 1 /\ Len(Tail(q)) = Len(q) - 1 /\ Head(q) = q[1]
        /\ \A k \in 1..Len(Tail(q)) : Tail(q)[k] = q[k + 1]
    BY <1>1
  <2> QED
    BY <2>1 DEF Bare
<1>2. ASSUME NEW r \in WireRecords, r.kind = "CLOSE" => r.data = <<>>
      PROVE  Bare(Append(q, r))
  <2>1. /\ Len(Append(q, r)) = Len(q) + 1 /\ Len(q) \in Nat /\ Append(q, r)[Len(q) + 1] = r
        /\ \A k \in 1..Len(q) : Append(q, r)[k] = q[k]
    OBVIOUS
  <2> QED
    BY <1>2, <2>1 DEF Bare
<1>3. Bare(<<>>)
  BY DEF Bare
<1> QED
  BY <1>1, <1>2, <1>3

\* A record that end e may queue.
Proper(e, r) ==
  /\ r.kind = "WIN" => r.n >= 1 /\ flow'[e][r.sid].got # <<>>
  /\ e = "c" /\ r.kind = "OPEN" => r.credit = flow'[e][r.sid].negotiated
  /\ r.kind = "CLOSE" => r.data = <<>>

\* A queue of e stays, is dropped, loses its first record or gets one more.
Moves(e, q, p) ==
  \/ p = q
  \/ p = <<>>
  \/ q # <<>> /\ p = Tail(q)
  \/ \E r \in WireRecords : p = Append(q, r) /\ Proper(e, r)

\* A queue that moves like that still has only WINs that give back something.
LEMMA MovesEarned ==
  ASSUME NEW e \in Ends, NEW q \in Seq(WireRecords), NEW p, Moves(e, q, p), Earned(q, flow[e]),
         \A i \in Sids : flow[e][i].got # <<>> => flow'[e][i].got # <<>>
  PROVE  Earned(p, flow'[e])
<1>1. Earned(q, flow'[e])
  BY EarnedKept
<1>2. q # <<>> => Earned(Tail(q), flow'[e])
  BY EarnedKept
<1>3. Earned(<<>>, flow'[e])
  BY DEF Earned
<1>4. ASSUME NEW r \in WireRecords, p = Append(q, r), Proper(e, r)
      PROVE  Earned(p, flow'[e])
  BY <1>1, <1>4, EarnedMore DEF Proper
<1> QED
  BY <1>1, <1>2, <1>3, <1>4 DEF Moves

\* Its OPENs still tell the mode of the client's flows.
LEMMA MovesTell ==
  ASSUME NEW q \in Seq(WireRecords), NEW p, Moves("c", q, p), OpensTell(q, flow["c"]),
         \A i \in Sids : Holds(q, "OPEN", i) => flow'["c"][i].negotiated = flow["c"][i].negotiated
  PROVE  OpensTell(p, flow'["c"])
<1>1. OpensTell(q, flow'["c"])
  BY TellsKept
<1>2. q # <<>> => OpensTell(Tail(q), flow'["c"])
  BY TellsKept
<1>3. OpensTell(<<>>, flow'["c"])
  BY DEF OpensTell
<1>4. ASSUME NEW r \in WireRecords, p = Append(q, r), Proper("c", r)
      PROVE  OpensTell(p, flow'["c"])
  BY <1>1, <1>4, TellsMore DEF Proper
<1> QED
  BY <1>1, <1>2, <1>3, <1>4 DEF Moves

\* Its CLOSEs still carry nothing.
LEMMA MovesBare ==
  ASSUME NEW e, NEW q \in Seq(WireRecords), NEW p, Moves(e, q, p), Bare(q)
  PROVE  Bare(p)
<1>1. q # <<>> => Bare(Tail(q))
  BY BareKept
<1>2. Bare(<<>>)
  BY DEF Bare
<1>3. ASSUME NEW r \in WireRecords, p = Append(q, r), Proper(e, r)
      PROVE  Bare(p)
  BY <1>3, BareKept DEF Proper
<1> QED
  BY <1>1, <1>2, <1>3 DEF Moves

\* What the control records stand for stays.
ModesKept ==
  /\ \A e \in Ends, i \in Sids : flow[e][i].got # <<>> => flow'[e][i].got # <<>>
  /\ \A i \in Sids : flow["c"][i].task # "none" => flow'["c"][i].negotiated = flow["c"][i].negotiated
  /\ \A i \in Sids : flow'["s"][i].task \notin {"none", "gone"} =>
                        flow'["s"][i].negotiated = flow'["c"][i].negotiated

\* The control records stay right.
LEMMA ControlKept ==
  ASSUME FInv, DInv, ModesKept,
         \A e \in Ends : /\ Moves(e, ctl[e], ctl'[e]) /\ Moves(e, wire[e], wire'[e])
                         /\ Moves(e, out[e], out'[e])
  PROVE  WinsEarned' /\ SameMode' /\ ClosesEmpty'
<1>0. Values /\ "c" \in Ends
  BY DEF FInv, Ends
<1>1. \A e \in Ends : /\ ctl[e] \in Seq(WireRecords) /\ wire[e] \in Seq(WireRecords)
                      /\ out[e] \in Seq(WireRecords)
  BY <1>0, QueuesTyped
<1>2. WinsEarned'
  <2>1. ASSUME NEW e \in Ends PROVE Earned(ctl'[e], flow'[e]) /\ Earned(wire'[e], flow'[e])
    <3>1. Earned(ctl[e], flow[e]) /\ Earned(wire[e], flow[e])
      BY DEF DInv, WinsEarned
    <3>2. \A i \in Sids : flow[e][i].got # <<>> => flow'[e][i].got # <<>>
      BY DEF ModesKept
    <3> QED
      BY <1>1, <3>1, <3>2, MovesEarned
  <2> QED
    BY <2>1 DEF WinsEarned
<1>3. SameMode'
  <2>1. \A i \in Sids :
          Holds(wire["c"], "OPEN", i) \/ Holds(out["c"], "OPEN", i) =>
            flow'["c"][i].negotiated = flow["c"][i].negotiated
    BY DEF FInv, OpenOnce, ModesKept
  <2>2. OpensTell(wire["c"], flow["c"]) /\ OpensTell(out["c"], flow["c"])
    BY DEF DInv, SameMode
  <2>3. OpensTell(wire'["c"], flow'["c"])
    BY <1>0, <1>1, <2>1, <2>2, MovesTell
  <2>4. OpensTell(out'["c"], flow'["c"])
    BY <1>0, <1>1, <2>1, <2>2, MovesTell
  <2> QED
    BY <2>3, <2>4 DEF SameMode, ModesKept
<1>4. ClosesEmpty'
  <2>1. ASSUME NEW e \in Ends PROVE Bare(wire'[e]) /\ Bare(out'[e])
    BY <1>1, MovesBare DEF DInv, ClosesEmpty
  <2> QED
    BY <2>1 DEF ClosesEmpty
<1> QED
  BY <1>2, <1>3, <1>4

\* A mild step keeps the invariant.
LEMMA MildKeeps ==
  ASSUME FInv, DInv, FInv',
         \A e \in Ends, i \in Sids : Mild(e, flow[e][i], flow'[e][i]),
         \A e \in Ends : CtlMild(e) /\ WireMild(e) /\ OutMild(e)
  PROVE  DInv'
<1>0. "c" \in Ends /\ "s" \in Ends /\ CtlRecords \subseteq WireRecords /\ OutRecords \subseteq WireRecords
  BY DEF Ends, WireRecords
<1>1. \A e \in Ends, i \in Sids : Steady(e, flow'[e][i])
  BY DEF Mild
<1>2. \A e \in Ends, i \in Sids : Directed(e, i)'
  BY MildDirected
<1>3. \A e \in Ends, i \in Sids : /\ flow[e][i].got # <<>> => flow'[e][i].got # <<>>
                                  /\ flow'[e][i].negotiated = flow[e][i].negotiated
                                  /\ flow'[e][i].task \notin {"none", "gone"} =>
                                       flow[e][i].task \notin {"none", "gone"}
  BY DEF Mild
<1>4. ModesKept
  BY <1>0, <1>3 DEF ModesKept, DInv, SameMode
<1>5. ASSUME NEW e \in Ends
      PROVE  /\ Moves(e, ctl[e], ctl'[e]) /\ Moves(e, wire[e], wire'[e]) /\ Moves(e, out[e], out'[e])
  <2>1. Moves(e, ctl[e], ctl'[e])
    <3>1. CASE ctl'[e] = ctl[e] \/ ctl'[e] = <<>>
      BY <3>1 DEF Moves
    <3>2. ASSUME NEW r \in CtlRecords, ctl'[e] = Append(ctl[e], r),
                 r.kind = "WIN" => WinDue(e, r, flow[e][r.sid], flow'[e][r.sid])
          PROVE  Moves(e, ctl[e], ctl'[e])
      <4>1. r.kind \in {"CAP", "WIN", "RST"}
        BY DEF CtlRecords, RecordsOf
      <4>2. Proper(e, r)
        BY <3>2, <4>1 DEF Proper, WinDue
      <4> QED
        BY <1>0, <3>2, <4>2 DEF Moves
    <3> QED
      BY <3>1, <3>2 DEF CtlMild
  <2>2. Moves(e, wire[e], wire'[e])
    BY DEF WireMild, Moves
  <2>3. Moves(e, out[e], out'[e])
    <3>1. CASE out'[e] = out[e] \/ out'[e] = <<>>
      BY <3>1 DEF Moves
    <3>2. ASSUME NEW r \in OutRecords, out'[e] = Append(out[e], r),
                 r.kind = "OPEN" => r.credit = flow["c"][r.sid].negotiated,
                 r.kind = "CLOSE" => r.data = <<>>
          PROVE  Moves(e, out[e], out'[e])
      <4>1. r.kind \in {"OPEN", "DATA", "CLOSE"} /\ r.sid \in Sids
        BY DEF OutRecords, RecordsOf
      <4>2. Proper(e, r)
        BY <1>0, <1>3, <3>2, <4>1 DEF Proper
      <4> QED
        BY <1>0, <3>2, <4>2 DEF Moves
    <3> QED
      BY <3>1, <3>2 DEF OutMild
  <2> QED
    BY <2>1, <2>2, <2>3
<1>6. WinsEarned' /\ SameMode' /\ ClosesEmpty'
  BY <1>4, <1>5, ControlKept
<1> QED
  BY <1>1, <1>2, <1>6 DEF DInv

\* The flow of one stream changes.
LEMMA OneMild ==
  ASSUME FInv, DInv, FInv', NEW e \in Ends, NEW i \in Sids, NEW g,
         flow' = [flow EXCEPT ![e][i] = g], Mild(e, flow[e][i], g),
         \A d \in Ends : CtlMild(d) /\ WireMild(d) /\ OutMild(d)
  PROVE  DInv'
<1>1. flow \in [Ends -> [Sids -> FlowSet]]
  BY DEF FInv, Values
<1>2. /\ flow'[e][i] = g
      /\ \A d \in Ends, k \in Sids : ~(d = e /\ k = i) => flow'[d][k] = flow[d][k]
  BY <1>1
<1>3. \A d \in Ends, k \in Sids : Mild(d, flow[d][k], flow[d][k])
  BY SameMild, FlowFacts DEF DInv
<1>4. \A d \in Ends, k \in Sids : Mild(d, flow[d][k], flow'[d][k])
  BY <1>2, <1>3
<1> QED
  BY <1>4, MildKeeps

\* The new flow is typed and sound.
LEMMA NewFlowFacts ==
  ASSUME FInv, FInv', NEW e \in Ends, NEW i \in Sids, NEW g, flow' = [flow EXCEPT ![e][i] = g]
  PROVE  g \in FlowSet /\ Sound(g) /\ flow'[e][i] = g
<1>1. flow \in [Ends -> [Sids -> FlowSet]]
  BY DEF FInv, Values
<1>2. flow'[e][i] = g
  BY <1>1
<1>3. flow'[e][i] \in FlowSet /\ Sound(flow'[e][i])
  BY DEF FInv, Values, FlowsSound
<1> QED
  BY <1>2, <1>3

-----------------------------------------------------------------------------
(* Halves of a flow.                                                       *)

SameSending(f, g) == g.read = f.read /\ g.buf = f.buf /\ g.taken = f.taken /\ g.avail = f.avail
SameReceiving(f, g) ==
  /\ g.rq = f.rq /\ g.bytes = f.bytes /\ g.credit = f.credit /\ g.cancelled = f.cancelled
  /\ g.writing = f.writing /\ g.pend = f.pend /\ g.pub = f.pub /\ g.got = f.got
SameMark(f, g) ==
  /\ g.negotiated = f.negotiated /\ g.overrun = f.overrun /\ g.live = f.live
  /\ g.outValid = f.outValid
  /\ f.task \notin {"none", "gone"} /\ g.task \notin {"none", "gone"}

\* The uplink does nothing.
LEMMA SendingSame ==
  ASSUME NEW f \in FlowSet, NEW g \in FlowSet, Sending(f), SameSending(f, g),
         g.outValid = TRUE => f.outValid = TRUE, g.live = TRUE => f.live = TRUE
  PROVE  Sending(g) /\ Stays(f, g)
<1>1. Handed(g) = Handed(f) /\ Took(g) = Took(f) /\ g.avail = f.avail
  BY DEF SameSending, Handed, Took
<1>2. Handed(f) \in Int /\ Took(f) \in Int
  BY Counts DEF Ends
<1>3. Sending(g)
  BY <1>1 DEF Sending, SameSending
<1> QED
  BY <1>1, <1>2, <1>3 DEF Stays

\* The downlink does nothing.
LEMMA ReceivingSame ==
  ASSUME NEW e \in Ends, NEW f \in FlowSet, NEW g \in FlowSet, SameReceiving(f, g), SameMark(f, g),
         Receiving(f), Crediting(f, Window[e])
  PROVE  Receiving(g) /\ Crediting(g, Window[e]) /\ Follows(e, f, g)
<1>1. Seen(g) = Seen(f) /\ Raised(g) = Raised(f) /\ Passed(g) = Passed(f)
  BY DEF SameReceiving, Seen, Raised, Passed
<1>2. Limit(e, g) = Limit(e, f)
  BY <1>1 DEF SameReceiving, SameMark, Limit
<1>3. Announced(e, g) = Announced(e, f)
  BY <1>1, <1>2 DEF Announced
<1>4. Awaits(g) => Awaits(f)
  BY DEF SameMark, Awaits
<1>5. Seen(f) \in Int /\ Limit(e, f) \in Int /\ Announced(e, f) \in Int
  BY Counts
<1>6. Receiving(g)
  BY <1>1 DEF SameReceiving, Receiving
<1>7. Crediting(g, Window[e])
  BY <1>1 DEF SameReceiving, SameMark, Crediting
<1>8. Follows(e, f, g)
  BY <1>1, <1>2, <1>3, <1>4, <1>5 DEF Follows, SameMark
<1> QED
  BY <1>6, <1>7, <1>8

\* A change of the task or of the pumps alone.
LEMMA MarkMild ==
  ASSUME NEW e \in Ends, NEW f \in FlowSet, NEW g \in FlowSet, Steady(e, f),
         SameSending(f, g), SameReceiving(f, g), SameMark(f, g)
  PROVE  Mild(e, f, g)
<1>1. Sending(g) /\ Stays(f, g)
  BY SendingSame DEF Steady, SameMark
<1>2. Receiving(g) /\ Crediting(g, Window[e]) /\ Follows(e, f, g)
  BY ReceivingSame DEF Steady
<1> QED
  BY <1>1, <1>2 DEF Mild, Steady, SameMark, SameReceiving

\* The uplink reads.
LEMMA ReadMild ==
  ASSUME NEW e \in Ends, NEW f \in FlowSet, NEW g \in FlowSet, Steady(e, f), f.task = "bridged",
         f.buf = <<>>, f.taken = <<>>, NEW n \in Nat,
         g = [f EXCEPT !.read = f.read + n, !.buf = [k \in 1..n |-> f.read + k]]
  PROVE  Mild(e, f, g)
<1>1. /\ g.read = f.read + n /\ g.buf = [k \in 1..n |-> f.read + k] /\ g.taken = <<>>
      /\ g.avail = f.avail
  BY DEF FlowSet
<1>2. SameReceiving(f, g) /\ SameMark(f, g)
  BY SMTT(30) DEF FlowSet, SameReceiving, SameMark
<1>3. f.read \in Int /\ f.avail \in Int
  BY DEF FlowSet
<1>4. Len(f.buf) = 0 /\ Len(f.taken) = 0 /\ Len(g.taken) = 0 /\ Len(g.buf) = n
  BY <1>1
<1>5. Handed(f) = f.read /\ Took(f) = f.read /\ Handed(g) = f.read /\ Took(g) = f.read
  BY <1>1, <1>3, <1>4 DEF Handed, Took
<1>6. \A k \in 1..n : g.buf[k] = f.read + k
  BY <1>1
<1>7. Sending(g)
  <2>1. Handed(f) >= 0 /\ f.avail >= 0
    BY DEF Sending, Steady
  <2>2. \A k \in 1..Len(g.buf) : g.buf[k] = Took(g) + k
    BY <1>4, <1>5, <1>6
  <2>3. \A k \in 1..Len(g.taken) : g.taken[k] = Handed(g) + k
    BY <1>4
  <2> QED
    BY <1>1, <1>5, <2>1, <2>2, <2>3 DEF Sending
<1>8. Stays(f, g)
  BY <1>1, <1>2, <1>3, <1>5 DEF Stays, SameMark
<1>9. Receiving(g) /\ Crediting(g, Window[e]) /\ Follows(e, f, g)
  BY <1>2, ReceivingSame DEF Steady
<1> QED
  BY <1>2, <1>7, <1>8, <1>9 DEF Mild, Steady, SameMark, SameReceiving

\* take_credit moves n bytes of the chunk.
Takes(f, g, n) ==
  /\ g.read = f.read /\ g.avail >= 0 /\ (f.negotiated = TRUE => g.avail = f.avail - n)
  /\ Len(f.taken) = 0 /\ Len(g.taken) = n /\ Len(g.buf) = Len(f.buf) - n
  /\ \A k \in 1..n : g.taken[k] = f.buf[k]
  /\ \A k \in 1..Len(g.buf) : g.buf[k] = f.buf[n + k]

\* take_credit.
LEMMA TakeMild ==
  ASSUME NEW e \in Ends, NEW f \in FlowSet, NEW g \in FlowSet, Steady(e, f),
         SameReceiving(f, g), SameMark(f, g),
         NEW n \in Nat, n >= 1, n <= Len(f.buf), Takes(f, g, n)
  PROVE  Mild(e, f, g)
<1>1. g.read = f.read /\ g.avail >= 0 /\ (f.negotiated = TRUE => g.avail = f.avail - n)
  BY DEF Takes
<1>3. f.read \in Int /\ f.avail \in Int /\ Len(f.buf) \in Nat /\ g.avail \in Int
  BY DEF FlowSet
<1>4. Len(f.taken) = 0 /\ Len(g.taken) = n /\ Len(g.buf) = Len(f.buf) - n
  BY DEF Takes
<1>5. /\ Handed(f) = f.read - Len(f.buf) /\ Took(f) = f.read - Len(f.buf)
      /\ Handed(g) = Handed(f) /\ Took(g) = Took(f) + n /\ Handed(f) \in Int /\ Took(f) = Handed(f)
  BY <1>1, <1>3, <1>4 DEF Handed, Took
<1>6. \A k \in 1..Len(f.buf) : f.buf[k] = Took(f) + k
  BY DEF Steady, Sending
<1>7. \A k \in 1..Len(g.taken) : g.taken[k] = Handed(g) + k
  <2> TAKE k \in 1..Len(g.taken)
  <2>1. g.taken[k] = f.buf[k] /\ k \in 1..Len(f.buf)
    BY <1>3, <1>4 DEF Takes
  <2> QED
    BY <1>5, <1>6, <2>1
<1>8. \A k \in 1..Len(g.buf) : g.buf[k] = Took(g) + k
  <2> TAKE k \in 1..Len(g.buf)
  <2>1. g.buf[k] = f.buf[n + k] /\ n + k \in 1..Len(f.buf)
    BY <1>3, <1>4, SMTT(30) DEF Takes
  <2>2. f.buf[n + k] = Took(f) + (n + k)
    BY <1>6, <2>1
  <2>3. Took(f) \in Int /\ n \in Int /\ k \in Int
    BY <1>3, <1>4, <1>5
  <2> QED
    BY <1>5, <2>1, <2>2, <2>3
<1>9. Sending(g)
  <2>1. Handed(f) >= 0
    BY DEF Steady, Sending
  <2> QED
    BY <1>1, <1>5, <1>7, <1>8, <2>1 DEF Sending
<1>10. Stays(f, g)
  <2>1. Handed(f) \in Int /\ Took(f) \in Int
    BY <1>5
  <2>2. f.negotiated = TRUE => Took(g) + g.avail = Took(f) + f.avail
    BY <1>1, <1>3, <1>5, <2>1
  <2>3. Handed(g) >= Handed(f) /\ Took(g) >= Took(f)
    BY <1>5, <2>1
  <2> QED
    BY <1>5, <2>2, <2>3 DEF Stays, SameMark
<1>11. Receiving(g) /\ Crediting(g, Window[e]) /\ Follows(e, f, g)
  BY ReceivingSame DEF Steady
<1> QED
  BY <1>9, <1>10, <1>11 DEF Mild, Steady, SameMark, SameReceiving

\* The rest of a receiving half: the window, the announcements.
SameCredit(f, g) ==
  /\ g.bytes = f.bytes /\ g.credit = f.credit /\ g.pend = f.pend /\ g.pub = f.pub /\ g.got = f.got

\* receive().
LEMMA ReceiveMild ==
  ASSUME NEW e \in Ends, NEW f \in FlowSet, NEW g \in FlowSet, Steady(e, f), f.task = "bridged",
         f.writing = <<>>, f.pub = "none", f.rq # <<>>,
         g = [f EXCEPT !.writing = Head(f.rq), !.rq = Tail(f.rq)]
  PROVE  Mild(e, f, g)
<1>1. g.writing = Head(f.rq) /\ g.rq = Tail(f.rq) /\ g.cancelled = f.cancelled
  BY DEF FlowSet
<1>2. SameSending(f, g) /\ SameMark(f, g) /\ SameCredit(f, g)
  BY DEF FlowSet, SameSending, SameMark, SameCredit
<1>3. f.rq \in Seq(Seq(Int)) /\ f.got \in Seq(Int) /\ f.bytes \in Int
  BY DEF FlowSet
<1>4. Sending(g) /\ Stays(f, g)
  BY <1>2, SendingSame DEF Steady, SameMark
<1>5. Seen(g) = Seen(f) /\ Raised(g) = Raised(f) /\ Limit(e, g) = Limit(e, f)
  BY <1>2 DEF SameCredit, SameMark, Seen, Raised, Limit
<1>6. Seen(f) \in Int /\ Limit(e, f) \in Int /\ Announced(e, f) \in Int /\ Announced(e, g) = Announced(e, f)
  BY <1>5, Counts DEF Announced
<1>7. Follows(e, f, g)
  BY <1>2, <1>5, <1>6 DEF Follows, SameMark, Awaits
<1>8. Crediting(g, Window[e])
  BY <1>2, <1>5 DEF Steady, Crediting, SameMark, SameCredit
<1>9. /\ Len(f.rq) \in Nat /\ Len(f.rq) >= 1 /\ Head(f.rq) = f.rq[1] /\ Head(f.rq) \in Seq(Int)
      /\ Len(g.rq) = Len(f.rq) - 1 /\ \A k \in 1..Len(g.rq) : g.rq[k] = f.rq[k + 1]
      /\ \A k \in 1..Len(f.rq) : f.rq[k] \in Seq(Int)
  BY <1>1, <1>3
<1>10. \A k \in 1..Len(f.rq) :
         /\ Block(f.rq[k]) /\ LastByte(f.rq[k]) <= Seen(f)
         /\ f.rq[k][1] = IF k = 1 THEN Passed(f) + 1 ELSE LastByte(f.rq[k - 1]) + 1
  BY DEF Steady, Receiving
<1>11. Passed(f) = Len(f.got) /\ Len(f.got) \in Nat
  BY <1>3 DEF Passed
<1>12. PICK x \in Seq(Int) : x = f.rq[1]
  BY <1>9
<1>13. Block(x) /\ LastByte(x) <= Seen(f) /\ x[1] = Len(f.got) + 1 /\ g.writing = x
  <2>1. 1 \in 1..Len(f.rq)
    BY <1>9
  <2>2. Block(x) /\ LastByte(x) <= Seen(f) /\ x[1] = Passed(f) + 1
    BY <1>10, <1>12, <2>1
  <2> QED
    BY <1>1, <1>9, <1>11, <1>12, <2>2
<1>14. Len(x) \in Nat /\ LastByte(x) = Len(f.got) + Len(x) /\ x[1] \in Int
  BY <1>11, <1>13 DEF LastByte
<1>15. \A k \in 1..Len(x) : x[k] = Len(f.got) + k
  BY <1>11, <1>13, <1>14 DEF Block
<1>16. Len(x) <= f.bytes
  BY <1>3, <1>11, <1>13, <1>14 DEF Seen
<1>17. Passed(g) = LastByte(x) /\ g.got = f.got /\ g.bytes = f.bytes
  BY <1>2, <1>13, <1>14 DEF Passed, SameCredit
<1>18. ASSUME NEW k \in 1..Len(g.rq)
       PROVE  /\ Block(g.rq[k]) /\ LastByte(g.rq[k]) <= Seen(g)
              /\ g.rq[k][1] = IF k = 1 THEN Passed(g) + 1 ELSE LastByte(g.rq[k - 1]) + 1
  <2>1. k + 1 \in 1..Len(f.rq) /\ g.rq[k] = f.rq[k + 1] /\ k + 1 # 1 /\ (k + 1) - 1 = k
    BY <1>9
  <2>2. /\ Block(g.rq[k]) /\ LastByte(g.rq[k]) <= Seen(g)
        /\ g.rq[k][1] = LastByte(f.rq[k]) + 1
    BY <1>5, <1>10, <2>1
  <2>3. CASE k = 1
    BY <1>12, <1>17, <2>2, <2>3
  <2>4. CASE k # 1
    <3>1. k - 1 \in 1..Len(g.rq) /\ (k - 1) + 1 = k
      BY <1>9, <2>4
    <3>2. g.rq[k - 1] = f.rq[k]
      BY <1>9, <3>1
    <3> QED
      BY <2>2, <2>4, <3>2
  <2> QED
    BY <2>3, <2>4
<1>19. /\ f.cancelled = TRUE => f.rq = <<>>
       /\ f.cancelled = FALSE => Seen(f) = IF f.rq = <<>> THEN Passed(f) ELSE LastByte(f.rq[Len(f.rq)])
       /\ \A k \in 1..Len(f.got) : f.got[k] = k
  BY DEF Steady, Receiving
<1>20. Seen(g) = IF g.rq = <<>> THEN Passed(g) ELSE LastByte(g.rq[Len(g.rq)])
  <2>1. Seen(f) = LastByte(f.rq[Len(f.rq)])
    BY <1>19 DEF FlowSet
  <2>2. CASE g.rq = <<>>
    <3>0. Len(g.rq) = 0
      BY <2>2
    <3>1. Len(f.rq) = 1
      BY <1>9, <3>0
    <3> QED
      BY <1>5, <1>12, <1>17, <2>1, <2>2, <3>1
  <2>3. CASE g.rq # <<>>
    <3>1. g.rq \in Seq(Seq(Int))
      BY DEF FlowSet
    <3>2. Len(g.rq) >= 1 /\ Len(g.rq) \in Nat
      BY <2>3, <3>1
    <3>3. g.rq[Len(g.rq)] = f.rq[Len(f.rq)]
      BY <1>9, <3>2
    <3> QED
      BY <1>5, <2>1, <2>3, <3>3
  <2> QED
    BY <2>2, <2>3
<1>21. Receiving(g)
  <2>1. \A k \in 1..Len(g.got) : g.got[k] = k
    BY <1>17, <1>19
  <2>2. \A k \in 1..Len(g.writing) : g.writing[k] = Len(g.got) + k
    BY <1>13, <1>15, <1>17
  <2>3. g.bytes >= Len(g.writing)
    BY <1>3, <1>13, <1>14, <1>16, <1>17
  <2>4. g.cancelled = TRUE => g.rq = <<>>
    BY <1>1, <1>19
  <2> QED
    BY <1>18, <1>20, <2>1, <2>2, <2>3, <2>4 DEF Receiving
<1> QED
  BY <1>2, <1>4, <1>7, <1>8, <1>21 DEF Mild, Steady, SameMark, SameCredit

\* write_all completed.
Writes(f, g) ==
  /\ g.rq = f.rq /\ g.cancelled = f.cancelled /\ Len(g.writing) = 0
  /\ Len(g.got) = Len(f.got) + Len(f.writing)
  /\ \A k \in 1..Len(f.got) : g.got[k] = f.got[k]
  /\ \A k \in 1..Len(f.writing) : g.got[Len(f.got) + k] = f.writing[k]
  /\ g.bytes = f.bytes - Len(f.writing)
  /\ \/ /\ f.negotiated = TRUE /\ g.credit = f.credit /\ g.pend = f.pend + Len(f.writing)
        /\ g.pub \in {"none", "due"}
     \/ /\ f.negotiated = FALSE /\ g.credit = f.credit + Len(f.writing) /\ g.pend = 0
        /\ g.pub = "none"

\* What was written is given back, or is to be published.
LEMMA WrittenMild ==
  ASSUME NEW e \in Ends, NEW f \in FlowSet, NEW g \in FlowSet, Steady(e, f),
         SameSending(f, g), SameMark(f, g), f.writing # <<>>, Writes(f, g)
  PROVE  Mild(e, f, g)
<1>1. Sending(g) /\ Stays(f, g)
  BY SendingSame DEF Steady, SameMark
<1>2. PICK n \in Nat, l \in Nat, by \in Int, cr \in Int, pe \in Int :
        n = Len(f.writing) /\ l = Len(f.got) /\ by = f.bytes /\ cr = f.credit /\ pe = f.pend
  <2>1. f.writing \in Seq(Int) /\ f.got \in Seq(Int) /\ f.bytes \in Int /\ f.credit \in Int /\ f.pend \in Int
    BY DEF FlowSet
  <2>2. Len(f.writing) \in Nat /\ Len(f.got) \in Nat
    BY <2>1
  <2> QED
    BY <2>1, <2>2
<1>3. f.pub = "none" /\ n >= 1 /\ Raised(f) = 0 /\ Raised(g) = 0
  <2>1. f.pub = "none"
    BY DEF Steady, Crediting
  <2>2. g.pub # "raised"
    BY DEF Writes
  <2>3. Len(f.writing) >= 1
    <3>1. f.writing \in Seq(Int)
      BY DEF FlowSet
    <3> QED
      BY <3>1
  <2> QED
    BY <1>2, <2>1, <2>2, <2>3 DEF Raised
<1>4. Len(g.got) = l + n /\ g.bytes = by - n /\ Len(g.writing) = 0
  BY <1>2 DEF Writes
<1>5. Seen(g) = l + by /\ Seen(f) = l + by /\ Passed(g) = l + n /\ Passed(f) = l + n
  <2>1. Seen(g) = (l + n) + (by - n)
    BY <1>4 DEF Seen
  <2>2. Passed(g) = (l + n) + 0
    BY <1>4 DEF Passed
  <2>3. Seen(f) = l + by /\ Passed(f) = l + n
    BY <1>2 DEF Seen, Passed
  <2> QED
    BY <2>1, <2>2, <2>3
<1>6. by >= n /\ cr >= 0 /\ pe >= 0 /\ cr + by + pe = Window[e] /\ (f.negotiated = FALSE => pe = 0)
  <2>1. f.bytes >= Len(f.writing) /\ f.credit >= 0 /\ f.pend >= 0
    BY DEF Steady, Receiving, Crediting
  <2>2. f.credit + f.bytes + f.pend - Raised(f) = Window[e]
    BY DEF Steady, Crediting, SameMark
  <2>3. f.negotiated = FALSE => f.pend = 0
    BY DEF Steady, Crediting
  <2> QED
    BY <1>2, <1>3, <2>1, <2>2, <2>3
<1>7. \/ f.negotiated = TRUE /\ g.credit = cr /\ g.pend = pe + n
      \/ f.negotiated = FALSE /\ g.credit = cr + n /\ g.pend = 0 /\ g.pub = "none"
  BY <1>2 DEF Writes
<1>8. g.got # <<>>
  <2>1. Len(g.got) # 0
    BY <1>3, <1>4
  <2> QED
    BY <2>1
<1>9. Crediting(g, Window[e])
  <2>1. g.credit >= 0 /\ g.pend >= 0
    BY <1>6, <1>7
  <2>2. g.pub # "none" => g.pend >= 1 /\ g.writing = <<>>
    <3>1. g.writing = <<>>
      BY <1>4 DEF FlowSet
    <3> QED
      BY <1>3, <1>6, <1>7, <3>1
  <2>3. g.got = <<>> \/ g.negotiated = FALSE => g.pend = 0
    BY <1>7, <1>8 DEF SameMark
  <2>4. g.credit + g.bytes + g.pend - Raised(g) = Window[e]
    BY <1>3, <1>4, <1>6, <1>7
  <2>5. g.overrun = TRUE => g.negotiated = FALSE
    BY DEF Steady, Crediting, SameMark
  <2> QED
    BY <2>1, <2>2, <2>3, <2>4, <2>5 DEF Crediting
<1>10. Follows(e, f, g)
  <2>1. f.task # "none" /\ g.task # "none"
    BY DEF SameMark
  <2>2. Limit(e, f) = l + by + cr /\ Limit(e, g) = l + by + g.credit
    BY <1>2, <1>5, <2>1 DEF Limit
  <2>3. Announced(e, f) = l + by + cr /\ Announced(e, g) = l + by + g.credit
    BY <1>3, <1>7, <2>2 DEF Announced
  <2>4. g.credit >= cr /\ g.credit \in Int
    BY <1>3, <1>7
  <2>5. Limit(e, g) >= Limit(e, f) /\ Announced(e, g) >= Announced(e, f) /\ Seen(g) <= Seen(f)
    BY <1>5, <2>2, <2>3, <2>4
  <2> QED
    BY <1>5, <2>5 DEF Follows, SameMark, Awaits
<1>11. \A k \in 1..Len(g.got) : g.got[k] = k
  <2> SUFFICES ASSUME NEW k \in 1..(l + n) PROVE g.got[k] = k
    BY <1>4
  <2>1. CASE k <= l
    <3>1. k \in 1..Len(f.got)
      BY <1>2, <2>1
    <3> QED
      BY <3>1 DEF Steady, Receiving, Writes
  <2>2. CASE k > l
    <3>1. PICK j \in 1..n : k = l + j
      <4>1. k - l \in 1..n /\ k = l + (k - l)
        BY <2>2
      <4> QED
        BY <4>1
    <3>2. j \in 1..Len(f.writing)
      BY <1>2
    <3>3. f.writing[j] = Len(f.got) + j
      BY <3>2 DEF Steady, Receiving
    <3>4. g.got[Len(f.got) + j] = f.writing[j]
      BY <3>2 DEF Writes
    <3> QED
      BY <1>2, <3>1, <3>3, <3>4
  <2> QED
    BY <2>1, <2>2
<1>12. Receiving(g)
  <2>1. \A k \in 1..Len(g.writing) : g.writing[k] = Len(g.got) + k
    BY <1>4
  <2>2. g.bytes >= Len(g.writing)
    BY <1>4, <1>6
  <2>3. \A k \in 1..Len(f.rq) :
          /\ Block(f.rq[k]) /\ LastByte(f.rq[k]) <= Seen(f)
          /\ f.rq[k][1] = IF k = 1 THEN Passed(f) + 1 ELSE LastByte(f.rq[k - 1]) + 1
    BY DEF Steady, Receiving
  <2>4. /\ f.cancelled = TRUE => f.rq = <<>>
        /\ f.cancelled = FALSE => Seen(f) = IF f.rq = <<>> THEN Passed(f) ELSE LastByte(f.rq[Len(f.rq)])
    BY DEF Steady, Receiving
  <2>5. g.rq = f.rq /\ g.cancelled = f.cancelled /\ Seen(g) = Seen(f) /\ Passed(g) = Passed(f)
    BY <1>5 DEF Writes
  <2> QED
    BY <1>11, <2>1, <2>2, <2>3, <2>4, <2>5 DEF Receiving
<1> QED
  BY <1>1, <1>8, <1>9, <1>10, <1>12 DEF Mild, Steady, SameMark

\* What a receiving half holds, apart from its credit.
SameHeld(f, g) ==
  /\ g.rq = f.rq /\ g.bytes = f.bytes /\ g.cancelled = f.cancelled
  /\ g.writing = f.writing /\ g.got = f.got

\* A step of publish_credit.
LEMMA HeldReceiving ==
  ASSUME NEW f \in FlowSet, NEW g \in FlowSet, SameHeld(f, g), Receiving(f)
  PROVE  Receiving(g) /\ Seen(g) = Seen(f)
<1>1. Seen(g) = Seen(f) /\ Passed(g) = Passed(f)
  BY DEF Seen, Passed, SameHeld
<1> QED
  BY <1>1 DEF Receiving, SameHeld

\* publish_credit, first half.
LEMMA RaiseMild ==
  ASSUME NEW e \in Ends, NEW f \in FlowSet, NEW g \in FlowSet, Steady(e, f),
         SameSending(f, g), SameMark(f, g), SameHeld(f, g),
         f.pub = "due", g.pub = "raised", g.credit = f.credit + f.pend, g.pend = f.pend
  PROVE  Mild(e, f, g)
<1>1. Sending(g) /\ Stays(f, g)
  BY SendingSame DEF Steady, SameMark
<1>2. Receiving(g) /\ Seen(g) = Seen(f)
  BY HeldReceiving DEF Steady
<1>3. f.credit \in Int /\ f.pend \in Int /\ f.bytes \in Int /\ Seen(f) \in Int
  BY Counts DEF FlowSet
<1>4. Raised(f) = 0 /\ Raised(g) = f.pend
  BY DEF Raised
<1>5. /\ f.credit >= 0 /\ f.pend >= 1 /\ f.writing = <<>> /\ f.got # <<>> /\ f.negotiated # FALSE
      /\ f.credit + f.bytes + f.pend - Raised(f) = Window[e]
      /\ f.overrun = TRUE => f.negotiated = FALSE
  <2>1. f.credit >= 0 /\ f.pend >= 1 /\ f.writing = <<>>
    BY DEF Steady, Crediting
  <2>2. f.credit + f.bytes + f.pend - Raised(f) = Window[e]
    BY DEF Steady, Crediting, SameMark
  <2>3. f.overrun = TRUE => f.negotiated = FALSE
    BY DEF Steady, Crediting
  <2>4. f.got = <<>> \/ f.negotiated = FALSE => f.pend = 0
    BY DEF Steady, Crediting
  <2>5. f.pend # 0
    BY <2>1
  <2> QED
    BY <2>1, <2>2, <2>3, <2>4, <2>5
<1>6. Crediting(g, Window[e])
  <2>1. g.credit >= 0 /\ g.pend >= 1 /\ g.credit + g.bytes + g.pend - Raised(g) = Window[e]
    BY <1>3, <1>4, <1>5 DEF SameHeld
  <2>2. g.pend >= 0
    BY <1>3, <2>1
  <2> QED
    BY <1>5, <2>1, <2>2 DEF Crediting, SameHeld, SameMark
<1>7. Follows(e, f, g)
  <2>1. Limit(e, f) = Seen(f) + f.credit /\ Limit(e, g) = Seen(f) + (f.credit + f.pend)
    BY <1>2 DEF Limit, SameMark
  <2>2. Announced(e, f) = Seen(f) + f.credit /\ Announced(e, g) = Seen(f) + f.credit
    BY <1>3, <1>4, <2>1 DEF Announced
  <2>3. Limit(e, g) >= Limit(e, f) /\ Announced(e, g) >= Announced(e, f) /\ Seen(g) <= Seen(f)
    BY <1>2, <1>3, <1>5, <2>1, <2>2
  <2> QED
    BY <1>2, <2>3 DEF Follows, SameMark, Awaits
<1> QED
  BY <1>1, <1>2, <1>6, <1>7 DEF Mild, Steady, SameMark, SameHeld

\* publish_credit, second half: the WIN is due.
LEMMA PublishMild ==
  ASSUME NEW e \in Ends, NEW f \in FlowSet, NEW g \in FlowSet, Steady(e, f), Sound(f),
         SameSending(f, g), SameMark(f, g), SameHeld(f, g),
         f.pub = "raised", g.pub = "none", g.credit = f.credit, g.pend = 0
  PROVE  /\ Mild(e, f, g) /\ f.pend >= 1 /\ g.got # <<>>
         /\ g.outValid = TRUE => Awaits(g) /\ Announced(e, g) >= Announced(e, f) + f.pend
<1>1. Sending(g) /\ Stays(f, g)
  BY SendingSame DEF Steady, SameMark
<1>2. Receiving(g) /\ Seen(g) = Seen(f)
  BY HeldReceiving DEF Steady
<1>3. f.credit \in Int /\ f.pend \in Int /\ f.bytes \in Int /\ Seen(f) \in Int
  BY Counts DEF FlowSet
<1>4. Raised(g) = 0 /\ Raised(f) = f.pend
  BY DEF Raised
<1>5. /\ f.credit >= 0 /\ f.pend >= 1 /\ f.writing = <<>> /\ f.got # <<>> /\ f.negotiated # FALSE
      /\ f.credit + f.bytes + f.pend - Raised(f) = Window[e]
      /\ f.overrun = TRUE => f.negotiated = FALSE
  <2>1. f.credit >= 0 /\ f.pend >= 1 /\ f.writing = <<>>
    BY DEF Steady, Crediting
  <2>2. f.credit + f.bytes + f.pend - Raised(f) = Window[e]
    BY DEF Steady, Crediting, SameMark
  <2>3. f.overrun = TRUE => f.negotiated = FALSE
    BY DEF Steady, Crediting
  <2>4. f.got = <<>> \/ f.negotiated = FALSE => f.pend = 0
    BY DEF Steady, Crediting
  <2>5. f.pend # 0
    BY <2>1
  <2> QED
    BY <2>1, <2>2, <2>3, <2>4, <2>5
<1>6. Crediting(g, Window[e])
  <2>1. g.credit >= 0 /\ g.pend >= 0 /\ g.credit + g.bytes + g.pend - Raised(g) = Window[e]
    BY <1>3, <1>4, <1>5 DEF SameHeld
  <2> QED
    BY <1>5, <2>1 DEF Crediting, SameHeld, SameMark
<1>7. Limit(e, f) = Seen(f) + f.credit /\ Limit(e, g) = Seen(f) + f.credit
  BY <1>2 DEF Limit, SameMark
<1>8. Announced(e, f) = Seen(f) + f.credit - f.pend /\ Announced(e, g) = Seen(f) + f.credit
  BY <1>3, <1>4, <1>7 DEF Announced
<1>9. /\ Limit(e, g) >= Limit(e, f) /\ Announced(e, g) >= Announced(e, f) /\ Seen(g) <= Seen(f)
      /\ Announced(e, g) >= Announced(e, f) + f.pend
  BY <1>2, <1>3, <1>5, <1>7, <1>8
<1>10. Follows(e, f, g)
  BY <1>2, <1>9 DEF Follows, SameMark, Awaits
<1>11. g.outValid = TRUE => Awaits(g)
  BY DEF Sound, SameMark, Awaits, FlowSet
<1> QED
  BY <1>1, <1>2, <1>5, <1>6, <1>9, <1>10, <1>11 DEF Mild, Steady, SameMark, SameHeld

\* cancel, and a failed check noted.
Cancels(f, g) ==
  /\ SameSending(f, g) /\ SameCredit(f, g) /\ g.writing = f.writing
  /\ g.rq = <<>> /\ g.cancelled = TRUE /\ g.negotiated = f.negotiated
  /\ g.outValid = TRUE => f.outValid = TRUE
  /\ g.live = TRUE => f.live = TRUE
  /\ f.task \notin {"none", "gone"} /\ g.task \notin {"none", "gone"}

\* A cancelled flow takes nothing more.
LEMMA CancelMild ==
  ASSUME NEW e \in Ends, NEW f \in FlowSet, NEW g \in FlowSet, Steady(e, f), Cancels(f, g),
         g.overrun = TRUE => g.negotiated = FALSE
  PROVE  Mild(e, f, g)
<1>1. Sending(g) /\ Stays(f, g)
  BY SendingSame DEF Steady, Cancels
<1>2. Seen(g) = Seen(f) /\ Raised(g) = Raised(f) /\ Limit(e, g) = Limit(e, f)
  BY DEF Cancels, SameCredit, Seen, Raised, Limit
<1>3. Seen(f) \in Int /\ Limit(e, f) \in Int /\ Announced(e, f) \in Int /\ Announced(e, g) = Announced(e, f)
  BY <1>2, Counts DEF Announced
<1>4. Follows(e, f, g)
  BY <1>2, <1>3 DEF Follows, Cancels, Awaits
<1>5. Crediting(g, Window[e])
  BY <1>2 DEF Steady, Crediting, Cancels, SameCredit
<1>6. Receiving(g)
  <2>1. \A k \in 1..Len(g.got) : g.got[k] = k
    BY DEF Steady, Receiving, Cancels, SameCredit
  <2>2. \A k \in 1..Len(g.writing) : g.writing[k] = Len(g.got) + k
    BY DEF Steady, Receiving, Cancels, SameCredit
  <2>3. g.bytes >= Len(g.writing)
    BY DEF Steady, Receiving, Cancels, SameCredit
  <2>4. g.rq = <<>> /\ g.cancelled = TRUE
    BY DEF Cancels
  <2>5. \A k \in 1..Len(g.rq) :
          /\ Block(g.rq[k]) /\ LastByte(g.rq[k]) <= Seen(g)
          /\ g.rq[k][1] = IF k = 1 THEN Passed(g) + 1 ELSE LastByte(g.rq[k - 1]) + 1
    BY <2>4
  <2> QED
    BY <2>1, <2>2, <2>3, <2>4, <2>5 DEF Receiving
<1> QED
  BY <1>1, <1>4, <1>5, <1>6 DEF Mild, Steady, Cancels, SameCredit

\* The fields of a cancelled flow.
LEMMA CancelFields ==
  ASSUME NEW f \in FlowSet, NEW p \in BOOLEAN
  PROVE  /\ SameSending(f, Cancel(f, p)) /\ SameCredit(f, Cancel(f, p))
         /\ Cancel(f, p).writing = f.writing /\ Cancel(f, p).rq = <<>>
         /\ Cancel(f, p).cancelled = TRUE /\ Cancel(f, p).overrun = f.overrun
<1>1. SameSending(f, Cancel(f, p))
  BY DEF FlowSet, Cancel, SameSending
<1>2. SameCredit(f, Cancel(f, p))
  BY DEF FlowSet, Cancel, SameCredit
<1>3. /\ Cancel(f, p).writing = f.writing /\ Cancel(f, p).rq = <<>>
      /\ Cancel(f, p).cancelled = TRUE /\ Cancel(f, p).overrun = f.overrun
  BY DEF FlowSet, Cancel
<1> QED
  BY <1>1, <1>2, <1>3

\* Those of a flow that is cancelled and changed in its task, the table or the check.
LEMMA CancelChanged ==
  ASSUME NEW f \in FlowSet, f.task \notin {"none", "gone"}, NEW p \in BOOLEAN,
         NEW c, c = Cancel(f, p), NEW g,
         \/ g = [c EXCEPT !.task = "failed"]
         \/ g = [c EXCEPT !.live = FALSE]
  PROVE  Cancels(f, g) /\ g.overrun = f.overrun /\ g.outValid = (f.outValid /\ p)
<1>1. /\ c \in FlowSet /\ c.task = f.task /\ c.live = f.live /\ c.negotiated = f.negotiated
      /\ c.outValid = (f.outValid /\ p)
  BY CancelTyped
<1>2. /\ SameSending(f, c) /\ SameCredit(f, c) /\ c.writing = f.writing /\ c.rq = <<>>
      /\ c.cancelled = TRUE /\ c.overrun = f.overrun
  BY CancelFields
<1>3. SameSending(c, g)
  BY <1>1, ZenonT(40) DEF FlowSet, SameSending
<1>4. SameCredit(c, g)
  BY <1>1, ZenonT(40) DEF FlowSet, SameCredit
<1>5. /\ g.writing = c.writing /\ g.rq = c.rq /\ g.cancelled = c.cancelled /\ g.overrun = c.overrun
      /\ g.negotiated = c.negotiated /\ g.outValid = c.outValid
  BY <1>1, SMTT(30) DEF FlowSet
<1>6. (g.live = TRUE => c.live = TRUE) /\ g.task \in {c.task, "failed"}
  BY <1>1, SMTT(30) DEF FlowSet
<1>7. SameSending(f, g) /\ SameCredit(f, g)
  BY <1>2, <1>3, <1>4 DEF SameSending, SameCredit
<1>8. g.outValid = (f.outValid /\ p)
  BY <1>1, <1>5
<1>9. g.outValid = TRUE => f.outValid = TRUE
  BY <1>8 DEF FlowSet
<1> QED
  BY <1>1, <1>2, <1>5, <1>6, <1>7, <1>8, <1>9 DEF Cancels

\* finish.
LEMMA FinishCancels ==
  ASSUME NEW f \in FlowSet, Sound(f), f.live = TRUE, NEW p \in BOOLEAN
  PROVE  Cancels(f, Finish(f, p)) /\ Finish(f, p).overrun = f.overrun
<1>1. PICK c : c = Cancel(f, p)
  OBVIOUS
<1>2. Finish(f, p) = [c EXCEPT !.live = FALSE]
  BY <1>1 DEF Finish
<1>3. f.task \notin {"none", "gone"}
  BY DEF Sound
<1>4. PICK g : g = [c EXCEPT !.live = FALSE]
  OBVIOUS
<1>5. Cancels(f, g) /\ g.overrun = f.overrun
  BY <1>1, <1>3, <1>4, CancelChanged, ZenonT(40)
<1> QED
  BY <1>2, <1>4, <1>5

\* A flow is removed from the table, or was not in it.
LEMMA FinishMild ==
  ASSUME NEW e \in Ends, NEW f \in FlowSet, Sound(f), Steady(e, f), NEW p \in BOOLEAN
  PROVE  Mild(e, f, Finish(f, p))
<1>1. CASE f.live = TRUE
  <2>1. Finish(f, p) \in FlowSet
    BY FinishTyped
  <2>2. Cancels(f, Finish(f, p)) /\ Finish(f, p).overrun = f.overrun
    BY <1>1, FinishCancels
  <2>3. Finish(f, p).overrun = TRUE => Finish(f, p).negotiated = FALSE
    BY <2>2 DEF Cancels, Steady, Crediting
  <2> QED
    BY <2>1, <2>2, <2>3, CancelMild
<1>2. CASE f.live = FALSE
  BY <1>2, FinishTyped, SameMild
<1> QED
  BY <1>1, <1>2 DEF FlowSet

\* A flow fails a check.
LEMMA FailedMild ==
  ASSUME NEW e \in Ends, NEW f \in FlowSet, Sound(f), Steady(e, f), f.live = TRUE, NEW o \in BOOLEAN,
         o = TRUE => f.negotiated = FALSE
  PROVE  Mild(e, f, [Finish(f, FALSE) EXCEPT !.overrun = o])
<1>1. PICK h \in FlowSet : h = Finish(f, FALSE)
  BY FinishTyped
<1>2. Cancels(f, h)
  BY <1>1, FinishCancels
<1>3. PICK g : g = [h EXCEPT !.overrun = o]
  OBVIOUS
<1>4. g \in FlowSet
  BY <1>1, <1>3, FieldTypes
<1>5. SameSending(h, g)
  BY <1>1, <1>3 DEF FlowSet, SameSending
<1>6. SameCredit(h, g)
  BY <1>1, <1>3 DEF FlowSet, SameCredit
<1>7. /\ g.writing = h.writing /\ g.rq = h.rq /\ g.cancelled = h.cancelled /\ g.negotiated = h.negotiated
      /\ g.outValid = h.outValid /\ g.live = h.live /\ g.task = h.task /\ g.overrun = o
  BY <1>1, <1>3 DEF FlowSet
<1>8. SameSending(f, g) /\ SameCredit(f, g)
  BY <1>2, <1>5, <1>6 DEF SameSending, SameCredit, Cancels
<1>9. Cancels(f, g)
  BY <1>2, <1>7, <1>8 DEF Cancels
<1>10. g.overrun = TRUE => g.negotiated = FALSE
  BY <1>7, <1>9 DEF Cancels
<1> QED
  BY <1>1, <1>3, <1>4, <1>9, <1>10, CancelMild

\* What is left of a flow whose task returned.
Left(f, g) ==
  /\ g.task = "gone" /\ g.live = FALSE /\ g.negotiated = f.negotiated /\ g.avail = 0
  /\ g.rq = <<>> /\ g.bytes = 0 /\ g.credit = 0
  /\ g.read = f.read /\ g.buf = <<>> /\ g.taken = <<>>
  /\ g.writing = <<>> /\ g.pend = 0 /\ g.pub = "none" /\ g.got = f.got
  /\ g.overrun = f.overrun /\ (g.outValid = TRUE => f.outValid = TRUE)

\* A flow left behind disturbs neither direction.
LEMMA LeftMild ==
  ASSUME NEW e \in Ends, NEW f \in FlowSet, NEW g \in FlowSet, Steady(e, f), Left(f, g)
  PROVE  Mild(e, f, g)
<1>1. Len(g.buf) = 0 /\ Len(g.taken) = 0 /\ Len(g.writing) = 0 /\ Len(g.rq) = 0
  BY DEF Left
<1>2. PICK r \in Int, b \in Nat, t \in Nat, l \in Nat, w \in Nat, by \in Int :
        /\ r = f.read /\ b = Len(f.buf) /\ t = Len(f.taken) /\ l = Len(f.got)
        /\ w = Len(f.writing) /\ by = f.bytes
  <2>1. /\ f.read \in Int /\ f.buf \in Seq(Int) /\ f.taken \in Seq(Int) /\ f.got \in Seq(Int)
        /\ f.writing \in Seq(Int) /\ f.bytes \in Int
    BY DEF FlowSet
  <2>2. Len(f.buf) \in Nat /\ Len(f.taken) \in Nat /\ Len(f.got) \in Nat /\ Len(f.writing) \in Nat
    BY <2>1
  <2> QED
    BY <2>1, <2>2
<1>3. g.read = r /\ Len(g.got) = l /\ g.bytes = 0
  BY <1>2 DEF Left
<1>4. Took(f) = r - b /\ Handed(f) = r - b - t
  BY <1>2 DEF Took, Handed
<1>5. Took(g) = r - 0 /\ Handed(g) = r - 0 - 0
  BY <1>1, <1>3 DEF Took, Handed
<1>6. Seen(f) = l + by /\ Seen(g) = l + 0 /\ Passed(g) = l + 0
  BY <1>1, <1>2, <1>3 DEF Seen, Passed
<1>7. r - b - t >= 0 /\ by >= w
  BY <1>2, <1>4 DEF Steady, Sending, Receiving
<1>8. Handed(g) >= 0 /\ Handed(g) >= Handed(f) /\ Took(g) >= Took(f) /\ Seen(g) <= Seen(f) /\ Seen(g) = Passed(g)
  BY <1>4, <1>5, <1>6, <1>7
<1>9. Sending(g)
  <2>1. g.avail >= 0
    BY DEF Left
  <2>2. \A k \in 1..Len(g.buf) : g.buf[k] = Took(g) + k
    BY <1>1
  <2>3. \A k \in 1..Len(g.taken) : g.taken[k] = Handed(g) + k
    BY <1>1
  <2> QED
    BY <1>8, <2>1, <2>2, <2>3 DEF Sending
<1>10. Receiving(g)
  <2>1. \A k \in 1..Len(g.got) : g.got[k] = k
    BY DEF Steady, Receiving, Left
  <2>2. \A k \in 1..Len(g.writing) : g.writing[k] = Len(g.got) + k
    BY <1>1
  <2>3. \A k \in 1..Len(g.rq) :
          /\ Block(g.rq[k]) /\ LastByte(g.rq[k]) <= Seen(g)
          /\ g.rq[k][1] = IF k = 1 THEN Passed(g) + 1 ELSE LastByte(g.rq[k - 1]) + 1
    BY <1>1
  <2>4. g.bytes >= Len(g.writing)
    BY <1>1, <1>3
  <2>5. g.rq = <<>>
    BY DEF Left
  <2> QED
    BY <1>8, <2>1, <2>2, <2>3, <2>4, <2>5 DEF Receiving
<1>11. Crediting(g, Window[e])
  BY DEF Left, Crediting, Steady
<1>12. Stays(f, g)
  BY <1>8 DEF Stays, Left
<1>13. Follows(e, f, g)
  BY <1>8 DEF Follows, Awaits, Left
<1> QED
  BY <1>9, <1>10, <1>11, <1>12, <1>13 DEF Mild, Steady, Left

\* The task returns.
LEMMA GoneMild ==
  ASSUME NEW e \in Ends, NEW f \in FlowSet, Sound(f), Steady(e, f), NEW p \in BOOLEAN
  PROVE  Mild(e, f, Gone(Finish(f, p)))
<1>1. PICK h \in FlowSet : h = Finish(f, p)
  BY FinishTyped
<1>2. /\ h.negotiated = f.negotiated /\ h.read = f.read /\ h.got = f.got /\ h.overrun = f.overrun
      /\ h.outValid = TRUE => f.outValid = TRUE
  <2>1. CASE f.live = TRUE
    BY <1>1, <2>1, FinishCancels DEF Cancels, SameSending, SameCredit
  <2>2. CASE f.live = FALSE
    BY <1>1, <2>2, FinishTyped
  <2> QED
    BY <2>1, <2>2 DEF FlowSet
<1>3. Gone(h) \in FlowSet
  BY GoneTyped
<1>4. Left(h, Gone(h))
  BY DEF Left, Gone, NoFlow
<1>5. Left(f, Gone(h))
  BY <1>2, <1>4 DEF Left
<1> QED
  BY <1>1, <1>3, <1>5, LeftMild

-----------------------------------------------------------------------------
(* The steps of the tasks, and delivery.                                   *)

\* A task changes its flow and may queue a WIN that is due, or an RST.
LEMMA TaskMild ==
  ASSUME FInv, DInv, FInv', NEW e \in Ends, NEW i \in Sids, NEW g,
         flow' = [flow EXCEPT ![e][i] = g], Mild(e, flow[e][i], g),
         UNCHANGED <<run, out, wire>>,
         \/ ctl' = ctl
         \/ \E r \in CtlRecords :
              /\ ctl' = [ctl EXCEPT ![e] = Append(@, r)]
              /\ r.kind = "WIN" => r.sid = i /\ WinDue(e, r, flow[e][i], g)
  PROVE  DInv'
<1>1. ctl \in [Ends -> Seq(CtlRecords)]
  BY DEF FInv, Values
<1>2. flow'[e][i] = g
  BY NewFlowFacts
<1>3. ASSUME NEW d \in Ends PROVE CtlMild(d)
  <2>1. CASE ctl' = ctl
    BY <2>1 DEF CtlMild
  <2>2. ASSUME NEW r \in CtlRecords, ctl' = [ctl EXCEPT ![e] = Append(@, r)],
               r.kind = "WIN" => r.sid = i /\ WinDue(e, r, flow[e][i], g)
        PROVE  CtlMild(d)
    <3>1. CASE d = e
      <4>1. ctl'[e] = Append(ctl[e], r)
        BY <1>1, <2>2
      <4>2. r.kind = "WIN" => WinDue(e, r, flow[e][r.sid], flow'[e][r.sid])
        BY <1>2, <2>2
      <4> QED
        BY <3>1, <4>1, <4>2 DEF CtlMild
    <3>2. CASE d # e
      <4>1. ctl'[d] = ctl[d]
        BY <1>1, <2>2, <3>2
      <4> QED
        BY <4>1 DEF CtlMild
    <3> QED
      BY <3>1, <3>2
  <2> QED
    BY <2>1, <2>2
<1>4. \A d \in Ends : WireMild(d) /\ OutMild(d)
  BY DEF WireMild, OutMild
<1> QED
  BY <1>3, <1>4, OneMild

\* A flow of a live task, at the start of a step.
LEMMA TaskFacts ==
  ASSUME FInv, DInv, NEW e \in Ends, NEW i \in Sids
  PROVE  flow[e][i] \in FlowSet /\ Sound(flow[e][i]) /\ Steady(e, flow[e][i])
  BY FlowFacts DEF DInv

\* The uplink reads.
LEMMA ReadDelivers ==
  ASSUME FInv, DInv, FInv', NEW e \in Ends, NEW i \in Sids, NEW n \in 1..MaxChunk, ReadSocket(e, i, n)
  PROVE  DInv'
<1>1. PICK f \in FlowSet : f = flow[e][i] /\ Steady(e, f)
  BY TaskFacts
<1>2. PICK g : g = [f EXCEPT !.read = f.read + n, !.buf = [k \in 1..n |-> f.read + k]]
  OBVIOUS
<1>3. flow' = [flow EXCEPT ![e][i] = g] /\ UNCHANGED <<run, out, ctl, wire>>
  BY <1>1, <1>2, Zenon DEF ReadSocket
<1>4. f.task = "bridged" /\ f.buf = <<>> /\ f.taken = <<>>
  BY <1>1 DEF ReadSocket, Bridged
<1>5. g \in FlowSet
  BY <1>3, NewFlowFacts
<1>6. n \in Nat
  BY ConstantsAssumption
<1>7. Mild(e, f, g)
  BY <1>1, <1>2, <1>4, <1>5, <1>6, ReadMild
<1> QED
  BY <1>1, <1>3, <1>7, TaskMild

\* take_credit.
LEMMA TakeDelivers ==
  ASSUME FInv, DInv, FInv', NEW e \in Ends, NEW i \in Sids, TakeCredit(e, i)
  PROVE  DInv'
<1>1. PICK f \in FlowSet : f = flow[e][i] /\ Steady(e, f)
  BY TaskFacts
<1>2. PICK n : n = IF f.negotiated /\ f.avail < Len(f.buf) THEN f.avail ELSE Len(f.buf)
  OBVIOUS
<1>3. PICK a : a = IF f.negotiated THEN f.avail - n ELSE f.avail
  OBVIOUS
<1>4. PICK t : t = SubSeq(f.buf, 1, n)
  OBVIOUS
<1>5. PICK b : b = SubSeq(f.buf, n + 1, Len(f.buf))
  OBVIOUS
<1>6. PICK g : g = [f EXCEPT !.avail = a, !.taken = t, !.buf = b]
  OBVIOUS
<1>7. flow' = [flow EXCEPT ![e][i] = g] /\ UNCHANGED <<run, out, ctl, wire>>
  <2>1. flow' = [flow EXCEPT ![e][i] =
                   [f EXCEPT !.avail = IF f.negotiated THEN f.avail - n ELSE f.avail,
                             !.taken = SubSeq(f.buf, 1, n),
                             !.buf = SubSeq(f.buf, n + 1, Len(f.buf))]]
    BY <1>1, <1>2, Zenon DEF TakeCredit
  <2>2. g = [f EXCEPT !.avail = IF f.negotiated THEN f.avail - n ELSE f.avail,
                      !.taken = SubSeq(f.buf, 1, n),
                      !.buf = SubSeq(f.buf, n + 1, Len(f.buf))]
    BY <1>3, <1>4, <1>5, <1>6, Zenon
  <2>3. UNCHANGED <<run, out, ctl, wire>>
    BY DEF TakeCredit
  <2> QED
    BY <2>1, <2>2, <2>3, Zenon
<1>8. f.task = "bridged" /\ f.taken = <<>> /\ n > 0
  BY <1>1, <1>2 DEF TakeCredit, Bridged
<1>9. g \in FlowSet
  BY <1>7, NewFlowFacts
<1>10. /\ SameReceiving(f, g) /\ SameMark(f, g)
       /\ g.avail = a /\ g.taken = t /\ g.buf = b /\ g.read = f.read
  <2>1. SameReceiving(f, g)
    BY <1>6 DEF FlowSet, SameReceiving
  <2>2. SameMark(f, g)
    BY <1>6, <1>8 DEF FlowSet, SameMark
  <2>3. g.avail = a /\ g.taken = t /\ g.buf = b /\ g.read = f.read
    BY <1>6 DEF FlowSet
  <2> QED
    BY <2>1, <2>2, <2>3
<1>11. f.buf \in Seq(Int) /\ f.avail \in Int /\ f.avail >= 0 /\ f.negotiated \in BOOLEAN
  BY <1>1 DEF FlowSet, Steady, Sending
<1>12. n \in Nat /\ n >= 1 /\ n <= Len(f.buf) /\ Len(f.buf) \in Nat
  <2>1. Len(f.buf) \in Nat
    BY <1>11
  <2>2. n = Len(f.buf) \/ (n = f.avail /\ f.avail < Len(f.buf))
    BY <1>2
  <2>3. n > 0 /\ f.avail \in Int
    BY <1>8, <1>11
  <2> QED
    BY <2>1, <2>2, <2>3
<1>13. Len(t) = n /\ \A k \in 1..n : t[k] = f.buf[k]
  BY <1>4, <1>11, <1>12
<1>14. Len(b) = Len(f.buf) - n /\ \A k \in 1..Len(b) : b[k] = f.buf[n + k]
  <2>1. Len(b) = Len(f.buf) - n
    BY <1>5, <1>11, <1>12
  <2>2. \A k \in 1..(Len(f.buf) - n) : b[k] = f.buf[(n + 1) + k - 1]
    BY <1>5, <1>11, <1>12
  <2>3. \A k \in 1..(Len(f.buf) - n) : (n + 1) + k - 1 = n + k
    BY <1>12
  <2> QED
    BY <2>1, <2>2, <2>3
<1>15. a >= 0 /\ (f.negotiated = TRUE => a = f.avail - n)
  <2>1. CASE f.negotiated = TRUE
    <3>1. n <= f.avail /\ a = f.avail - n
      BY <1>2, <1>3, <1>11, <1>12, <2>1
    <3> QED
      BY <1>11, <1>12, <3>1
  <2>2. CASE f.negotiated = FALSE
    BY <1>3, <1>11, <2>2
  <2> QED
    BY <1>11, <2>1, <2>2
<1>16. Len(f.taken) = 0
  BY <1>8
<1>17. Takes(f, g, n)
  BY <1>10, <1>13, <1>14, <1>15, <1>16 DEF Takes
<1>18. Mild(e, f, g)
  BY <1>1, <1>9, <1>10, <1>12, <1>17, TakeMild
<1> QED
  BY <1>1, <1>7, <1>18, TaskMild

\* A task or a pump is marked.
LEMMA MarkDelivers ==
  ASSUME FInv, DInv, FInv', NEW e \in Ends, NEW i \in Sids,
         \/ ReadEof(e, i) \/ ReceiveFin(e, i) \/ PumpError(e, i)
         \/ e = "s" /\ Connected(i)
  PROVE  DInv'
<1>1. PICK f \in FlowSet : f = flow[e][i] /\ Steady(e, f)
  BY TaskFacts
<1>2. f.task \notin {"none", "gone"} /\ UNCHANGED <<run, out, ctl, wire>>
  BY <1>1 DEF ReadEof, ReceiveFin, DownReady, PumpError, Connected, Bridged
<1>3. PICK v, g :
        /\ flow' = [flow EXCEPT ![e][i] = g]
        /\ \/ g = [f EXCEPT !.up = v]
           \/ g = [f EXCEPT !.down = v]
           \/ g = [f EXCEPT !.task = v] /\ v \in {"bridged", "failed"}
  <2>1. CASE ReadEof(e, i)
    <3>1. flow' = [flow EXCEPT ![e][i] = [f EXCEPT !.up = "eof"]]
      BY <1>1, <2>1 DEF ReadEof
    <3> QED
      BY <3>1, Zenon
  <2>2. CASE ReceiveFin(e, i)
    <3>1. flow' = [flow EXCEPT ![e][i] = [f EXCEPT !.down = "done"]]
      BY <1>1, <2>2 DEF ReceiveFin
    <3> QED
      BY <3>1, Zenon
  <2>3. CASE PumpError(e, i)
    <3>1. flow' = [flow EXCEPT ![e][i] = [f EXCEPT !.task = "failed"]]
      BY <1>1, <2>3 DEF PumpError
    <3>2. "failed" \in {"bridged", "failed"}
      OBVIOUS
    <3> QED
      BY <3>1, <3>2, Zenon
  <2>4. CASE e = "s" /\ Connected(i)
    <3>1. flow' = [flow EXCEPT ![e][i] = [f EXCEPT !.task = "bridged"]]
      BY <1>1, <2>4 DEF Connected
    <3>2. "bridged" \in {"bridged", "failed"}
      OBVIOUS
    <3> QED
      BY <3>1, <3>2, Zenon
  <2> QED
    BY <2>1, <2>2, <2>3, <2>4
<1>4. g \in FlowSet
  BY <1>3, NewFlowFacts, Zenon
<1>5. SameSending(f, g) /\ SameReceiving(f, g) /\ SameMark(f, g)
  <2>1. SameSending(f, g)
    BY <1>3 DEF FlowSet, SameSending
  <2>2. SameReceiving(f, g)
    BY <1>3 DEF FlowSet, SameReceiving
  <2>3. SameMark(f, g)
    BY <1>2, <1>3 DEF FlowSet, SameMark
  <2> QED
    BY <2>1, <2>2, <2>3
<1>6. Mild(e, f, g)
  BY <1>1, <1>4, <1>5, MarkMild
<1> QED
  BY <1>1, <1>2, <1>3, <1>6, TaskMild, Zenon

\* receive().
LEMMA ReceiveDelivers ==
  ASSUME FInv, DInv, FInv', NEW e \in Ends, NEW i \in Sids, Receive(e, i)
  PROVE  DInv'
<1>1. PICK f \in FlowSet : f = flow[e][i] /\ Steady(e, f)
  BY TaskFacts
<1>2. /\ f.task = "bridged" /\ f.writing = <<>> /\ f.pub = "none" /\ f.rq # <<>>
      /\ UNCHANGED <<run, out, ctl, wire>>
  BY <1>1 DEF Receive, DownReady, Bridged
<1>3. PICK g : g = [f EXCEPT !.writing = Head(f.rq), !.rq = Tail(f.rq)]
  OBVIOUS
<1>4. flow' = [flow EXCEPT ![e][i] = g]
  BY <1>1, <1>3, Zenon DEF Receive
<1>5. g \in FlowSet
  BY <1>4, NewFlowFacts
<1>6. Mild(e, f, g)
  BY <1>1, <1>2, <1>3, <1>5, ReceiveMild
<1> QED
  BY <1>1, <1>2, <1>4, <1>6, TaskMild

\* Two sequences, one after the other.
LEMMA ConcatFacts ==
  ASSUME NEW s \in Seq(Int), NEW t \in Seq(Int)
  PROVE  /\ Len(s \o t) = Len(s) + Len(t)
         /\ \A k \in 1..Len(s) : (s \o t)[k] = s[k]
         /\ \A k \in 1..Len(t) : (s \o t)[Len(s) + k] = t[k]
<1>1. PICK m \in Nat, n \in Nat : m = Len(s) /\ n = Len(t)
  <2>1. Len(s) \in Nat /\ Len(t) \in Nat
    OBVIOUS
  <2> QED
    BY <2>1
<1>2. \A k \in 1..(m + n) : (s \o t)[k] = IF k <= m THEN s[k] ELSE t[k - m]
  BY <1>1
<1>3. Len(s \o t) = m + n
  BY <1>1
<1>4. ASSUME NEW k \in 1..m PROVE k \in 1..(m + n) /\ k <= m
  OBVIOUS
<1>5. ASSUME NEW k \in 1..n PROVE m + k \in 1..(m + n) /\ ~(m + k <= m) /\ (m + k) - m = k
  OBVIOUS
<1>6. \A k \in 1..m : (s \o t)[k] = s[k]
  BY <1>2, <1>4
<1>7. \A k \in 1..n : (s \o t)[m + k] = t[k]
  <2> TAKE k \in 1..n
  <2>1. (s \o t)[m + k] = t[(m + k) - m]
    BY <1>2, <1>5
  <2> QED
    BY <1>5, <2>1
<1> QED
  BY <1>1, <1>3, <1>6, <1>7

\* write_all completed.
LEMMA WrittenDelivers ==
  ASSUME FInv, DInv, FInv', NEW e \in Ends, NEW i \in Sids, Written(e, i)
  PROVE  DInv'
<1>1. PICK f \in FlowSet : f = flow[e][i] /\ Steady(e, f)
  BY TaskFacts
<1>t. /\ f.writing \in Seq(Int) /\ f.got \in Seq(Int) /\ f.bytes \in Int /\ f.credit \in Int
      /\ f.pend \in Int /\ f.negotiated \in BOOLEAN
  BY DEF FlowSet
<1>2. PICK n : n = Len(f.writing)
  OBVIOUS
<1>3. f.task = "bridged" /\ n > 0 /\ UNCHANGED <<run, out, ctl, wire>>
  BY <1>1, <1>2 DEF Written, Bridged
<1>4. PICK u : u = IF f.negotiated /\ (f.pend + n >= Window[e] \div CreditDiv \/ f.rq = <<>>)
                   THEN "due" ELSE "none"
  OBVIOUS
<1>5. PICK c : c = IF f.negotiated THEN f.credit ELSE f.credit + n
  OBVIOUS
<1>6. PICK p : p = IF f.negotiated THEN f.pend + n ELSE 0
  OBVIOUS
<1>7. PICK o : o = f.got \o f.writing
  OBVIOUS
<1>8. PICK b : b = f.bytes - n
  OBVIOUS
<1>w. PICK w : w = <<>>
  OBVIOUS
<1>9. PICK g : g = [f EXCEPT !.writing = w, !.got = o, !.bytes = b, !.credit = c, !.pend = p, !.pub = u]
  OBVIOUS
<1>10. flow' = [flow EXCEPT ![e][i] = g]
  <2>1. flow' = [flow EXCEPT ![e][i] =
          [f EXCEPT !.writing = <<>>,
                    !.got = f.got \o f.writing,
                    !.bytes = f.bytes - n,
                    !.credit = IF f.negotiated THEN f.credit ELSE f.credit + n,
                    !.pend = IF f.negotiated THEN f.pend + n ELSE 0,
                    !.pub = IF f.negotiated /\ (f.pend + n >= Window[e] \div CreditDiv \/ f.rq = <<>>)
                            THEN "due" ELSE "none"]]
    BY <1>1, <1>2, Zenon DEF Written
  <2>2. g = [f EXCEPT !.writing = <<>>,
                      !.got = f.got \o f.writing,
                      !.bytes = f.bytes - n,
                      !.credit = IF f.negotiated THEN f.credit ELSE f.credit + n,
                      !.pend = IF f.negotiated THEN f.pend + n ELSE 0,
                      !.pub = IF f.negotiated /\ (f.pend + n >= Window[e] \div CreditDiv \/ f.rq = <<>>)
                              THEN "due" ELSE "none"]
    BY <1>4, <1>5, <1>6, <1>7, <1>8, <1>9, <1>w, Zenon
  <2> QED
    BY <2>1, <2>2, Zenon
<1>11. g \in FlowSet
  BY <1>10, NewFlowFacts
<1>12. SameSending(f, g)
  BY <1>9 DEF FlowSet, SameSending
<1>13. SameMark(f, g)
  BY <1>3, <1>9 DEF FlowSet, SameMark
<1>14. /\ g.writing = w /\ g.got = o /\ g.bytes = b /\ g.credit = c /\ g.pend = p /\ g.pub = u
       /\ g.rq = f.rq /\ g.cancelled = f.cancelled
  BY <1>9 DEF FlowSet
<1>15. /\ Len(o) = Len(f.got) + Len(f.writing)
       /\ \A k \in 1..Len(f.got) : o[k] = f.got[k]
       /\ \A k \in 1..Len(f.writing) : o[Len(f.got) + k] = f.writing[k]
  BY <1>7, <1>t, ConcatFacts
<1>16. Len(w) = 0
  BY <1>w
<1>18. \/ f.negotiated = TRUE /\ c = f.credit /\ p = f.pend + n /\ u \in {"none", "due"}
       \/ f.negotiated = FALSE /\ c = f.credit + n /\ p = 0 /\ u = "none"
  BY <1>4, <1>5, <1>6, <1>t
<1>19. Writes(f, g)
  BY <1>2, <1>8, <1>14, <1>15, <1>16, <1>18 DEF Writes
<1>20. f.writing # <<>>
  BY <1>2, <1>3
<1>21. Mild(e, f, g)
  BY <1>1, <1>11, <1>12, <1>13, <1>19, <1>20, WrittenMild
<1> QED
  BY <1>1, <1>3, <1>10, <1>21, TaskMild

\* publish_credit, first half: its check does not fail.
LEMMA RaiseDelivers ==
  ASSUME FInv, DInv, FInv', NEW e \in Ends, NEW i \in Sids, RaiseCredit(e, i)
  PROVE  DInv'
<1>1. PICK f \in FlowSet : f = flow[e][i] /\ Steady(e, f)
  BY TaskFacts
<1>2. f.task = "bridged" /\ f.pub = "due" /\ UNCHANGED <<run, out, ctl, wire>>
  BY <1>1 DEF RaiseCredit, Bridged
<1>3. PICK c : c = f.credit + f.pend
  OBVIOUS
<1>4. c <= Window[e]
  <2>1. f.credit + f.bytes + f.pend - Raised(f) = Window[e] /\ Raised(f) = 0 /\ f.bytes >= Len(f.writing)
    BY <1>1, <1>2 DEF Steady, Crediting, Raised, Receiving
  <2>2. f.credit \in Int /\ f.bytes \in Int /\ f.pend \in Int /\ f.writing \in Seq(Int)
    BY DEF FlowSet
  <2>3. Len(f.writing) \in Nat
    BY <2>2
  <2> QED
    BY <1>3, <2>1, <2>2, <2>3
<1>u. PICK u : u = "raised"
  OBVIOUS
<1>5. PICK g : g = [f EXCEPT !.credit = c, !.pub = u]
  OBVIOUS
<1>6. flow' = [flow EXCEPT ![e][i] = g]
  <2>1. flow' = [flow EXCEPT ![e][i] = IF c <= Window[e]
                                       THEN [f EXCEPT !.credit = c, !.pub = "raised"]
                                       ELSE [f EXCEPT !.task = "failed", !.overrun = TRUE]]
    BY <1>1, <1>3, Zenon DEF RaiseCredit
  <2> QED
    BY <1>4, <1>5, <1>u, <2>1, Zenon
<1>7. g \in FlowSet
  BY <1>6, NewFlowFacts
<1>8. SameSending(f, g)
  BY <1>5 DEF FlowSet, SameSending
<1>9. SameMark(f, g)
  BY <1>2, <1>5 DEF FlowSet, SameMark
<1>10. SameHeld(f, g)
  BY <1>5 DEF FlowSet, SameHeld
<1>11. g.pub = "raised" /\ g.credit = f.credit + f.pend /\ g.pend = f.pend
  <2>1. g.pub = u /\ g.credit = c /\ g.pend = f.pend
    BY <1>5 DEF FlowSet
  <2> QED
    BY <1>3, <1>u, <2>1
<1>12. Mild(e, f, g)
  BY <1>1, <1>2, <1>7, <1>8, <1>9, <1>10, <1>11, RaiseMild
<1> QED
  BY <1>1, <1>2, <1>6, <1>12, TaskMild

\* publish_credit, second half.
LEMMA PublishDelivers ==
  ASSUME FInv, DInv, FInv', NEW e \in Ends, NEW i \in Sids, PublishWin(e, i)
  PROVE  DInv'
<1>1. PICK f \in FlowSet : f = flow[e][i] /\ Steady(e, f) /\ Sound(f)
  BY TaskFacts
<1>2. f.task = "bridged" /\ f.pub = "raised" /\ UNCHANGED <<run, out, wire>>
  BY <1>1 DEF PublishWin, Bridged
<1>3. CASE ControlRoom(e)
  <2>z. PICK z, u : z = 0 /\ u = "none"
    OBVIOUS
  <2>1. PICK g : g = [f EXCEPT !.pend = z, !.pub = u]
    OBVIOUS
  <2>2. flow' = [flow EXCEPT ![e][i] = g]
    <3>1. flow' = [flow EXCEPT ![e][i] = [f EXCEPT !.pend = 0, !.pub = "none"]]
      BY <1>1, <1>3, Zenon DEF PublishWin
    <3> QED
      BY <2>1, <2>z, <3>1, Zenon
  <2>3. g \in FlowSet
    BY <2>2, NewFlowFacts
  <2>4. SameSending(f, g)
    BY <2>1 DEF FlowSet, SameSending
  <2>5. SameMark(f, g)
    BY <1>2, <2>1 DEF FlowSet, SameMark
  <2>6. SameHeld(f, g)
    BY <2>1 DEF FlowSet, SameHeld
  <2>7. g.pub = "none" /\ g.credit = f.credit /\ g.pend = 0
    <3>1. g.pub = u /\ g.credit = f.credit /\ g.pend = z
      BY <2>1 DEF FlowSet
    <3> QED
      BY <2>z, <3>1
  <2>8. /\ Mild(e, f, g) /\ f.pend >= 1 /\ g.got # <<>>
        /\ g.outValid = TRUE => Awaits(g) /\ Announced(e, g) >= Announced(e, f) + f.pend
    BY <1>1, <1>2, <2>3, <2>4, <2>5, <2>6, <2>7, PublishMild
  <2>9. PICK r : r = WinRecord(i, f.pend)
    OBVIOUS
  <2>10. r \in CtlRecords /\ r.n = f.pend /\ r.sid = i
    <3>1. f.pend \in Int
      BY DEF FlowSet
    <3> QED
      BY <2>9, <3>1 DEF WinRecord, Record, CtlRecords, RecordsOf
  <2>11. ctl' = [ctl EXCEPT ![e] = Append(@, r)]
    BY <1>1, <1>3, <2>9 DEF PublishWin
  <2>12. WinDue(e, r, f, g)
    BY <2>8, <2>10 DEF WinDue
  <2> QED
    BY <1>1, <1>2, <2>2, <2>8, <2>10, <2>11, <2>12, TaskMild
<1>4. CASE ~ControlRoom(e)
  <2>1. PICK c : c = Cancel(f, FALSE)
    OBVIOUS
  <2>2. PICK g : g = [c EXCEPT !.task = "failed"]
    OBVIOUS
  <2>3. flow' = [flow EXCEPT ![e][i] = g] /\ ctl' = ctl
    BY <1>1, <1>4, <2>1, <2>2, Zenon DEF PublishWin
  <2>4. g \in FlowSet
    BY <2>3, NewFlowFacts
  <2>5. Cancels(f, g) /\ g.overrun = f.overrun
    <3>1. f.task \notin {"none", "gone"} /\ FALSE \in BOOLEAN
      BY <1>2
    <3> QED
      BY <2>1, <2>2, <3>1, CancelChanged
  <2>6. g.overrun = TRUE => g.negotiated = FALSE
    BY <1>1, <2>5 DEF Cancels, Steady, Crediting
  <2>7. Mild(e, f, g)
    BY <1>1, <2>4, <2>5, <2>6, CancelMild
  <2> QED
    BY <1>1, <1>2, <2>3, <2>7, TaskMild
<1> QED
  BY <1>3, <1>4

\* A connect or bridge task returns.
LEMMA TaskEndDelivers ==
  ASSUME FInv, DInv, FInv', NEW e \in Ends, NEW i \in Sids, NEW p \in BOOLEAN,
         flow' = [flow EXCEPT ![e][i] = Gone(Finish(flow[e][i], p))],
         UNCHANGED <<run, out, wire>>,
         ctl' = ctl \/ TaskControl(e, RstRecord(i, TRUE))
  PROVE  DInv'
<1>1. PICK f \in FlowSet : f = flow[e][i] /\ Steady(e, f) /\ Sound(f)
  BY TaskFacts
<1>2. PICK g : g = Gone(Finish(f, p))
  OBVIOUS
<1>3. Mild(e, f, g)
  BY <1>1, <1>2, GoneMild
<1>4. PICK r \in CtlRecords : r = RstRecord(i, TRUE) /\ r.kind = "RST"
  BY RstTyped
<1>5. \/ ctl' = ctl
      \/ \E q \in CtlRecords :
           /\ ctl' = [ctl EXCEPT ![e] = Append(@, q)]
           /\ q.kind = "WIN" => q.sid = i /\ WinDue(e, q, flow[e][i], g)
  <2>1. ctl' = ctl \/ ctl' = [ctl EXCEPT ![e] = Append(@, r)]
    BY <1>4 DEF TaskControl
  <2> QED
    BY <1>4, <2>1
<1>6. flow' = [flow EXCEPT ![e][i] = g]
  BY <1>1, <1>2
<1> QED
  BY <1>1, <1>3, <1>5, <1>6, TaskMild

\* The ends of a task.
LEMMA EndsDeliver ==
  ASSUME FInv, DInv, FInv', NEW e \in Ends, NEW i \in Sids,
         \/ BridgeFailed(e, i) \/ BridgeDone(e, i) \/ TaskCancelled(e, i)
         \/ e = "c" /\ AbortOpen(i)
         \/ e = "s" /\ ConnectFailed(i)
  PROVE  DInv'
<1>1. CASE BridgeFailed(e, i)
  <2>1. /\ flow' = [flow EXCEPT ![e][i] = Gone(Finish(flow[e][i], FALSE))] /\ UNCHANGED <<run, out, wire>>
        /\ ctl' = ctl \/ TaskControl(e, RstRecord(i, TRUE))
    BY <1>1 DEF BridgeFailed
  <2> QED
    BY <2>1, TaskEndDelivers
<1>2. CASE BridgeDone(e, i) \/ TaskCancelled(e, i)
  <2>1. /\ flow' = [flow EXCEPT ![e][i] = Gone(Finish(flow[e][i], TRUE))] /\ UNCHANGED <<run, out, wire>>
        /\ ctl' = ctl
    BY <1>2 DEF BridgeDone, TaskCancelled
  <2> QED
    BY <2>1, TaskEndDelivers
<1>3. CASE e = "c" /\ AbortOpen(i)
  <2>1. /\ flow' = [flow EXCEPT ![e][i] = Gone(Finish(flow[e][i], FALSE))] /\ UNCHANGED <<run, out, wire>>
        /\ ctl' = ctl
    BY <1>3 DEF AbortOpen
  <2> QED
    BY <2>1, TaskEndDelivers
<1>4. CASE e = "s" /\ ConnectFailed(i)
  <2>1. /\ flow' = [flow EXCEPT ![e][i] = Gone(Finish(flow[e][i], FALSE))] /\ UNCHANGED <<run, out, wire>>
        /\ ctl' = ctl \/ TaskControl(e, RstRecord(i, TRUE))
    BY <1>4 DEF ConnectFailed
  <2> QED
    BY <2>1, TaskEndDelivers
<1> QED
  BY <1>1, <1>2, <1>3, <1>4

\* A step without a flow: the deadline, the end of run.
LEMMA SameDeliver ==
  ASSUME FInv, DInv, FInv', flow' = flow,
         \A d \in Ends : CtlMild(d) /\ WireMild(d) /\ OutMild(d)
  PROVE  DInv'
<1>1. ASSUME NEW e \in Ends, NEW i \in Sids PROVE Mild(e, flow[e][i], flow'[e][i])
  BY TaskFacts, SameMild
<1> QED
  BY <1>1, MildKeeps

\* A step of neither a flow nor a queue.
LEMMA QuietDelivers ==
  ASSUME FInv, DInv, FInv', UNCHANGED <<run, flow, out, ctl, wire>>
  PROVE  DInv'
<1>1. \A d \in Ends : CtlMild(d) /\ WireMild(d) /\ OutMild(d)
  BY DEF CtlMild, WireMild, OutMild
<1> QED
  BY <1>1, SameDeliver

\* run returns.
LEMMA RunEndsDelivers ==
  ASSUME FInv, DInv, FInv', NEW e \in Ends, RunEnds(e)
  PROVE  DInv'
<1>0. Values
  BY DEF FInv
<1>1. /\ run' = [run EXCEPT ![e] = FALSE]
      /\ out' = [out EXCEPT ![e] = <<>>] /\ ctl' = [ctl EXCEPT ![e] = <<>>]
      /\ UNCHANGED <<flow, wire>>
  BY DEF RunEnds
<1>2. /\ run'[e] = FALSE /\ out'[e] = <<>> /\ ctl'[e] = <<>>
      /\ \A d \in Ends : d # e => run'[d] = run[d] /\ out'[d] = out[d] /\ ctl'[d] = ctl[d]
  BY <1>0, <1>1 DEF Values
<1>3. \A d \in Ends : CtlMild(d) /\ WireMild(d) /\ OutMild(d)
  BY <1>1, <1>2 DEF CtlMild, WireMild, OutMild
<1> QED
  BY <1>1, <1>3, SameDeliver

\* shutdown.
LEMMA DrainDelivers ==
  ASSUME FInv, DInv, FInv', NEW e \in Ends, ShutdownDrain(e)
  PROVE  DInv'
<1>1. /\ flow' = [flow EXCEPT ![e] = [i \in Sids |-> Finish(flow[e][i], FALSE)]]
      /\ UNCHANGED <<run, out, ctl, wire>>
  BY DEF ShutdownDrain
<1>2. flow \in [Ends -> [Sids -> FlowSet]]
  BY DEF FInv, Values
<1>3. ASSUME NEW d \in Ends, NEW i \in Sids PROVE Mild(d, flow[d][i], flow'[d][i])
  <2>1. CASE d = e
    <3>1. flow'[d][i] = Finish(flow[d][i], FALSE)
      BY <1>1, <1>2, <2>1
    <3> QED
      BY <3>1, TaskFacts, FinishMild
  <2>2. CASE d # e
    <3>1. flow'[d][i] = flow[d][i]
      BY <1>1, <1>2, <2>2
    <3> QED
      BY <3>1, TaskFacts, SameMild
  <2> QED
    BY <2>1, <2>2
<1>4. \A d \in Ends : CtlMild(d) /\ WireMild(d) /\ OutMild(d)
  BY <1>1 DEF CtlMild, WireMild, OutMild
<1> QED
  BY <1>3, <1>4, MildKeeps

-----------------------------------------------------------------------------
(* The steps of the reader, and delivery.                                  *)

\* The reader of e drops the head of the wire and may answer, with no WIN.
Drops(e) ==
  /\ wire[Peer(e)] # <<>> /\ wire' = [wire EXCEPT ![Peer(e)] = Tail(@)]
  /\ Arrived(e).kind = "DATA" => ~Awaits(flow'[e][Arrived(e).sid])
  /\ Arrived(e).kind = "WIN" => ~(flow'[e][Arrived(e).sid].live = TRUE /\ Counted(Arrived(e).sid))
  /\ \/ UNCHANGED <<ctl, run, out>>
     \/ \E r \in CtlRecords : ReaderControl(e, r) /\ r.kind # "WIN"

\* The queues after that.
LEMMA DropQueues ==
  ASSUME FInv, NEW e \in Ends, Drops(e), NEW d \in Ends
  PROVE  CtlMild(d) /\ WireMild(d) /\ OutMild(d)
<1>0. /\ run \in [Ends -> BOOLEAN] /\ out \in [Ends -> Seq(OutRecords)]
      /\ ctl \in [Ends -> Seq(CtlRecords)] /\ wire \in [Ends -> Seq(WireRecords)]
  BY DEF FInv, Values
<1>p. Peer(e) \in Ends /\ Peer(Peer(e)) = e /\ Peer(e) # e
  BY PeerFacts
<1>1. WireMild(d)
  <2>1. CASE d = Peer(e)
    <3>1. wire[d] # <<>> /\ wire'[d] = Tail(wire[d]) /\ Arrived(e) = Head(wire[d]) /\ Peer(d) = e
      BY <1>0, <1>p, <2>1 DEF Drops, Arrived
    <3>2. /\ Head(wire[d]).kind = "DATA" => ~Awaits(flow'[Peer(d)][Head(wire[d]).sid])
          /\ Head(wire[d]).kind = "WIN" =>
               ~(flow'[Peer(d)][Head(wire[d]).sid].live = TRUE /\ Counted(Head(wire[d]).sid))
      BY <3>1 DEF Drops
    <3> QED
      BY <3>1, <3>2 DEF WireMild
  <2>2. CASE d # Peer(e)
    <3>1. wire'[d] = wire[d]
      BY <1>0, <2>2 DEF Drops
    <3> QED
      BY <3>1 DEF WireMild
  <2> QED
    BY <2>1, <2>2
<1>2. CASE UNCHANGED <<ctl, run, out>>
  BY <1>1, <1>2 DEF CtlMild, OutMild
<1>3. ASSUME NEW r \in CtlRecords, ReaderControl(e, r), r.kind # "WIN"
      PROVE  CtlMild(d) /\ OutMild(d)
  <2>1. CASE ControlRoom(e)
    <3>1. ctl' = [ctl EXCEPT ![e] = Append(@, r)] /\ UNCHANGED <<run, out>>
      BY <1>3, <2>1 DEF ReaderControl
    <3>2. ctl'[d] = ctl[d] \/ ctl'[d] = Append(ctl[d], r)
      BY <1>0, <3>1
    <3> QED
      BY <1>3, <3>1, <3>2 DEF CtlMild, OutMild
  <2>2. CASE ~ControlRoom(e)
    <3>1. /\ ctl' = [ctl EXCEPT ![e] = <<>>] /\ run' = [run EXCEPT ![e] = FALSE]
          /\ out' = [out EXCEPT ![e] = <<>>]
      BY <1>3, <2>2 DEF ReaderControl
    <3>2. \/ ctl'[d] = ctl[d] /\ out'[d] = out[d] /\ run'[d] = run[d]
          \/ ctl'[d] = <<>> /\ out'[d] = <<>> /\ run'[d] = FALSE
      BY <1>0, <3>1
    <3> QED
      BY <3>2 DEF CtlMild, OutMild
  <2> QED
    BY <2>1, <2>2
<1> QED
  BY <1>1, <1>2, <1>3 DEF Drops

\* CAP.
LEMMA CapDelivers ==
  ASSUME FInv, DInv, FInv', NEW e \in Ends, DispatchCap(e)
  PROVE  DInv'
<1>1. /\ wire[Peer(e)] # <<>> /\ wire' = [wire EXCEPT ![Peer(e)] = Tail(@)]
      /\ Arrived(e).kind = "CAP" /\ flow' = flow
  BY DEF DispatchCap, Arrives, Arrived
<1>2. PICK r \in CtlRecords : r = CapRecord("s") /\ r.kind # "WIN"
  <2>1. Window["s"] \in Int /\ <<>> \in Seq(Int)
    BY ConstantsAssumption DEF Ends
  <2>2. CapRecord("s") \in RecordsOf({"CAP"}, {0}, {FALSE}) /\ CapRecord("s").kind = "CAP"
    BY <2>1 DEF CapRecord, Record, RecordsOf
  <2>3. CapRecord("s") \in CtlRecords
    BY <2>2 DEF CtlRecords
  <2> QED
    BY <2>2, <2>3
<1>3. UNCHANGED <<ctl, run, out>> \/ (e = "s" /\ ReaderControl(e, r))
  BY <1>2 DEF DispatchCap
<1>4. Drops(e)
  BY <1>1, <1>2, <1>3 DEF Drops
<1> QED
  BY <1>1, <1>4, DropQueues, SameDeliver

\* RST.
LEMMA RstDelivers ==
  ASSUME FInv, DInv, FInv', NEW e \in Ends, DispatchRst(e)
  PROVE  DInv'
<1>1. /\ wire[Peer(e)] # <<>> /\ wire' = [wire EXCEPT ![Peer(e)] = Tail(@)]
      /\ Arrived(e).kind = "RST"
      /\ flow' = [flow EXCEPT ![e][Arrived(e).sid] = Finish(flow[e][Arrived(e).sid], FALSE)]
      /\ UNCHANGED <<ctl, run, out>>
  BY DEF DispatchRst, Arrives, Arrived
<1>2. PICK i \in Sids : i = Arrived(e).sid
  BY <1>1, ArrivedTyped
<1>3. PICK g : g = Finish(flow[e][i], FALSE)
  OBVIOUS
<1>4. Mild(e, flow[e][i], g)
  BY <1>3, TaskFacts, FinishMild
<1>5. flow' = [flow EXCEPT ![e][i] = g]
  BY <1>1, <1>2, <1>3
<1>6. Drops(e)
  BY <1>1 DEF Drops
<1>7. \A d \in Ends : CtlMild(d) /\ WireMild(d) /\ OutMild(d)
  BY <1>6, DropQueues
<1> QED
  BY <1>4, <1>5, <1>7, OneMild

\* The numbers of a flow that is not there yet.
LEMMA NoFlowNumbers ==
  /\ NoFlow \in FlowSet /\ Handed(NoFlow) = 0 /\ Took(NoFlow) = 0 /\ Seen(NoFlow) = 0
  /\ NoFlow.got = <<>> /\ NoFlow.live = FALSE /\ NoFlow.outValid = TRUE /\ NoFlow.pend = 0
<1>1. NoFlow \in FlowSet
  BY DEF NoFlow, FlowSet
<1>2. /\ NoFlow.read = 0 /\ NoFlow.buf = <<>> /\ NoFlow.taken = <<>> /\ NoFlow.got = <<>> /\ NoFlow.bytes = 0
      /\ NoFlow.live = FALSE /\ NoFlow.outValid = TRUE /\ NoFlow.pend = 0
  BY DEF NoFlow
<1>3. Len(NoFlow.buf) = 0 /\ Len(NoFlow.taken) = 0 /\ Len(NoFlow.got) = 0
  BY <1>2
<1>4. Handed(NoFlow) = 0 - 0 - 0 /\ Took(NoFlow) = 0 - 0 /\ Seen(NoFlow) = 0 + 0
  BY <1>2, <1>3 DEF Handed, Took, Seen
<1> QED
  BY <1>1, <1>2, <1>4

\* A flow that is not there has sent nothing.
LEMMA NothingSent ==
  ASSUME FInv, DInv, NEW e \in Ends, NEW i \in Sids, flow[e][i].task = "none"
  PROVE  /\ Datas(wire[e], i) = {} /\ Datas(out[e], i) = {} /\ Seen(flow[Peer(e)][i]) <= 0
         /\ flow[e][i] = NoFlow
<1>1. flow[e][i] = NoFlow
  BY FlowFacts DEF Sound
<1>2. Handed(flow[e][i]) = 0
  BY <1>1, NoFlowNumbers
<1>3. Numbered(Datas(wire[e], i), Datas(out[e], i), flow[e][i], flow[Peer(e)][i])
  BY DirectionFacts DEF Directed, Delivered
<1>4. ASSUME NEW x \in Datas(wire[e], i) \cup Datas(out[e], i) PROVE FALSE
  <2>1. x \in Seq(Int)
    BY DirectionFacts
  <2>2. Block(x) /\ x[1] >= 1 /\ LastByte(x) <= 0
    BY <1>2, <1>3 DEF Numbered
  <2>3. x[1] \in Int /\ LastByte(x) \in Int /\ x[1] <= LastByte(x)
    BY <2>1, <2>2, BlockCounts
  <2> QED
    BY <2>2, <2>3
<1> QED
  BY <1>1, <1>2, <1>3, <1>4 DEF Numbered

\* What arrives is numbered on, and fits if credit counts.
LEMMA ArrivingPayload ==
  ASSUME FInv, DInv, NEW e \in Ends, wire[Peer(e)] # <<>>, Arrived(e).kind = "DATA",
         NEW i \in Sids, i = Arrived(e).sid, Awaits(flow[e][i])
  PROVE  /\ Arrived(e).data \in Seq(Int) /\ Block(Arrived(e).data)
         /\ Arrived(e).data[1] = Seen(flow[e][i]) + 1
         /\ LastByte(Arrived(e).data) = Seen(flow[e][i]) + Len(Arrived(e).data)
         /\ Counted(i) => LastByte(Arrived(e).data) <= Limit(e, flow[e][i])
<1>1. PICK p \in Ends : p = Peer(e) /\ Peer(p) = e
  BY PeerFacts
<1>2. PICK f, h, x : f = flow[p][i] /\ h = flow[e][i] /\ x = Arrived(e).data
  OBVIOUS
<1>3. f \in FlowSet /\ h \in FlowSet /\ x \in Seq(Int)
  BY <1>1, <1>2, FlowFacts, ArrivedTyped
<1>4. PICK q, W, O, b : q = wire[p] /\ W = Datas(Tail(q), i) /\ O = Datas(out[p], i) /\ b = run[p]
  OBVIOUS
<1>5. q \in Seq(WireRecords) /\ q # <<>> /\ b \in BOOLEAN
  BY <1>1, <1>4, QueuesTyped DEF FInv
<1>6. TailDatas(q, i)
  BY <1>5, TailPayload
<1>7. Head(q).kind = "DATA" /\ Head(q).sid = i /\ Head(q).data = x
  BY <1>1, <1>2, <1>4 DEF Arrived
<1>8. /\ Ascending(q, i) /\ Numbered(Datas(q, i), O, f, h) /\ Gapless(b, Datas(q, i), O, f, h)
      /\ Counted(i) => Fitting(e, Datas(q, i), O, f, h)
  BY <1>1, <1>2, <1>4, DirectionFacts DEF Directed, Delivered
<1>9. Datas(q, i) = W \cup {x} /\ \A y \in W : LastByte(x) < y[1]
  BY <1>4, <1>6, <1>7, <1>8 DEF TailDatas
<1>10. \A y \in W \cup O : y \in Seq(Int)
  <2>1. \A y \in Datas(q, i) \cup O : y \in Seq(Int)
    BY <1>4, DirectionFacts
  <2> QED
    BY <1>9, <2>1
<1>11. Awaits(h)
  BY <1>2
<1>12. Numbered(W \cup {x}, O, f, h) /\ Gapless(b, W \cup {x}, O, f, h)
  BY <1>8, <1>9
<1>13. x[1] = Seen(h) + 1 /\ Block(x) /\ LastByte(x) = Seen(h) + Len(x)
  <2>1. \A y \in W : LastByte(x) < y[1]
    BY <1>9
  <2>2. b \in BOOLEAN
    BY <1>5
  <2>3. x[1] = Seen(h) + 1 /\ Block(x) /\ LastByte(x) = Seen(h) + Len(x) /\ Len(x) \in Nat
    BY <1>3, <1>10, <1>11, <1>12, <2>1, <2>2, NextPayload, Zenon
  <2> QED
    BY <2>3
<1>14. Counted(i) => LastByte(x) <= Limit(e, h)
  BY <1>8, <1>9, <1>11 DEF Fitting
<1> QED
  BY <1>2, <1>3, <1>13, <1>14

\* The window of a flow of the table.
LEMMA WindowHolds ==
  ASSUME NEW e \in Ends, NEW f \in FlowSet, Steady(e, f), f.task \notin {"none", "gone"}
  PROVE  f.bytes + f.credit <= Window[e] /\ f.credit >= 0 /\ f.bytes \in Int /\ f.credit \in Int /\ Window[e] \in Int
<1>1. f.credit \in Int /\ f.bytes \in Int /\ f.pend \in Int /\ Window[e] \in Int
  BY ConstantsAssumption DEF FlowSet
<1>2. f.credit >= 0 /\ f.pend >= 0
  BY DEF Steady, Crediting
<1>3. f.credit + f.bytes + f.pend - Raised(f) = Window[e]
  BY DEF Steady, Crediting
<1>4. Raised(f) = f.pend \/ Raised(f) = 0
  BY DEF Raised
<1> QED
  BY <1>1, <1>2, <1>3, <1>4

\* The byte checks of enqueue do not fail when credit counts.
LEMMA PayloadFits ==
  ASSUME FInv, DInv, NEW e \in Ends, wire[Peer(e)] # <<>>, Arrived(e).kind \in {"DATA", "CLOSE"},
         NEW i \in Sids, i = Arrived(e).sid, flow[e][i].live = TRUE, flow[e][i].negotiated = TRUE
  PROVE  WindowFits(flow[e][i], e, Arrived(e).data)
<1>1. PICK h, x : h = flow[e][i] /\ x = Arrived(e).data
  OBVIOUS
<1>2. h \in FlowSet /\ Sound(h) /\ Steady(e, h)
  BY <1>1, TaskFacts
<1>3. h.task \notin {"none", "gone"}
  BY <1>1, <1>2 DEF Sound
<1>4. h.bytes + h.credit <= Window[e] /\ h.credit >= 0 /\ h.bytes \in Int /\ h.credit \in Int /\ Window[e] \in Int
  BY <1>2, <1>3, WindowHolds
<1>5. CASE Arrived(e).kind = "CLOSE"
  <2>1. x = <<>>
    <3>1. PICK p \in Ends : p = Peer(e)
      BY PeerFacts
    <3>2. wire[p] \in Seq(WireRecords) /\ Bare(wire[p])
      BY QueuesTyped DEF FInv, DInv, ClosesEmpty
    <3>3. Head(wire[p]).kind = "CLOSE" => Head(wire[p]).data = <<>>
      BY <3>1, <3>2, BareKept
    <3> QED
      BY <1>1, <1>5, <3>1, <3>3 DEF Arrived
  <2>2. Len(x) = 0
    BY <2>1
  <2>3. Len(x) <= h.credit /\ h.bytes + Len(x) <= Window[e]
    BY <1>4, <2>2
  <2> QED
    BY <1>1, <2>3 DEF WindowFits
<1>6. CASE Arrived(e).kind = "DATA"
  <2>1. Awaits(flow[e][i]) /\ Counted(i)
    BY LiveMode DEF Awaits, Counted
  <2>2. x \in Seq(Int) /\ LastByte(x) = Seen(h) + Len(x) /\ LastByte(x) <= Limit(e, h)
    BY <1>1, <1>6, <2>1, ArrivingPayload
  <2>3. Limit(e, h) = Seen(h) + h.credit
    BY <1>3 DEF Limit
  <2>4. Seen(h) \in Int /\ Len(x) \in Nat
    BY <1>2, <2>2, Counts
  <2>5. Len(x) <= h.credit
    BY <1>4, <2>2, <2>3, <2>4
  <2>6. h.bytes + Len(x) <= Window[e]
    BY <1>4, <2>4, <2>5
  <2> QED
    BY <1>1, <2>5, <2>6 DEF WindowFits
<1> QED
  BY <1>5, <1>6

\* DATA for a flow that is not in the table is not awaited.
LEMMA UnknownUnawaited ==
  ASSUME FInv, DInv, NEW e \in Ends, wire[Peer(e)] # <<>>, Arrived(e).kind = "DATA",
         NEW i \in Sids, i = Arrived(e).sid, flow[e][i].live = FALSE
  PROVE  ~Awaits(flow[e][i])
<1>1. CASE e = "s"
  <2>1. Dead(flow["s"][i])
    BY <1>1, UnknownIsDead DEF Peer, Arrived
  <2> QED
    BY <1>1, <2>1 DEF Dead, Awaits
<1>2. CASE e = "c"
  <2>1. "s" \in Ends /\ Peer(e) = "s"
    BY <1>2 DEF Ends, Peer
  <2>2. wire["s"] \in Seq(WireRecords) /\ wire["s"] # <<>>
    BY <2>1, QueuesTyped DEF FInv
  <2>3. Datas(wire["s"], i) # {}
    <3>1. TailDatas(wire["s"], i)
      BY <2>2, TailPayload
    <3> QED
      BY <2>1, <3>1 DEF TailDatas, Arrived
  <2>4. flow["s"][i].task # "none"
    BY <2>1, <2>3, NothingSent
  <2>5. flow["c"][i].task # "none"
    BY <2>4 DEF FInv, OpenOnce, Unopened
  <2> QED
    BY <1>2, <2>5 DEF Awaits
<1> QED
  BY <1>1, <1>2 DEF Ends

\* DATA or CLOSE that no flow takes, or that fails its stream.
LEMMA PayloadDropped ==
  ASSUME FInv, DInv, FInv', NEW e \in Ends, DispatchPayload(e), NEW i \in Sids, i = Arrived(e).sid,
         ~(/\ flow[e][i].live = TRUE /\ flow[e][i].fin = FALSE /\ flow[e][i].cancelled = FALSE
           /\ Fits(flow[e][i], e, Arrived(e).data))
  PROVE  DInv'
<1>1. /\ wire[Peer(e)] # <<>> /\ Arrived(e).kind \in {"DATA", "CLOSE"}
      /\ wire' = [wire EXCEPT ![Peer(e)] = Tail(@)]
  BY DEF DispatchPayload, Arrives, Arrived
<1>2. PICK f, r : f = flow[e][i] /\ r = Arrived(e)
  OBVIOUS
<1>3. f \in FlowSet /\ Sound(f) /\ Steady(e, f)
  BY <1>2, TaskFacts
<1>t. f.live \in BOOLEAN /\ f.fin \in BOOLEAN /\ f.cancelled \in BOOLEAN /\ f.overrun \in BOOLEAN
  BY <1>3 DEF FlowSet
<1>4. CASE f.live = FALSE
  <2>1. /\ flow' = flow
        /\ IF e = "s" /\ r.kind = "DATA"
           THEN ReaderControl(e, RstRecord(i, FALSE))
           ELSE UNCHANGED <<ctl, run, sess, out>>
    BY <1>2, <1>4 DEF DispatchPayload
  <2>2. PICK z \in CtlRecords : z = RstRecord(i, FALSE) /\ z.kind = "RST"
    BY RstTyped
  <2>3. UNCHANGED <<ctl, run, out>> \/ ReaderControl(e, z)
    BY <2>1, <2>2
  <2>4. r.kind = "DATA" => ~Awaits(flow'[e][r.sid])
    BY <1>1, <1>2, <1>4, <2>1, UnknownUnawaited
  <2>5. Drops(e)
    BY <1>1, <1>2, <2>2, <2>3, <2>4 DEF Drops
  <2> QED
    BY <2>1, <2>5, DropQueues, SameDeliver
<1>5. CASE f.live = TRUE
  <2>1. PICK o \in BOOLEAN : o = (f.overrun \/ ~WindowFits(f, e, r.data))
    OBVIOUS
  <2>2. PICK g : g = [Finish(f, FALSE) EXCEPT !.overrun = o]
    OBVIOUS
  <2>3. /\ flow' = [flow EXCEPT ![e][i] = g]
        /\ ReaderControl(e, RstRecord(i, TRUE))
    <3>1. /\ flow' = [flow EXCEPT ![e][i] =
                [Finish(f, FALSE) EXCEPT !.overrun = f.overrun \/ ~WindowFits(f, e, r.data)]]
          /\ ReaderControl(e, RstRecord(i, TRUE))
      <4>1. f.live /\ ~(f.live /\ ~f.fin /\ ~f.cancelled /\ Fits(f, e, r.data))
        BY <1>2, <1>5, <1>t
      <4> QED
        BY <1>2, <4>1, Zenon DEF DispatchPayload
    <3> QED
      BY <2>1, <2>2, <3>1, Zenon
  <2>4. o = TRUE => f.negotiated = FALSE
    <3>1. f.negotiated = TRUE => WindowFits(f, e, r.data)
      BY <1>1, <1>2, <1>5, PayloadFits
    <3>2. f.overrun = TRUE => f.negotiated = FALSE
      BY <1>3 DEF Steady, Crediting
    <3>3. f.negotiated \in BOOLEAN
      BY <1>3 DEF FlowSet
    <3> QED
      BY <1>t, <2>1, <3>1, <3>2, <3>3
  <2>5. Mild(e, f, g)
    BY <1>3, <1>5, <2>2, <2>4, FailedMild
  <2>6. flow'[e][i] = g /\ g.task = f.task /\ g.live = FALSE
    <3>1. flow'[e][i] = g
      BY <2>3, NewFlowFacts
    <3>2. PICK c \in FlowSet : c = Finish(f, FALSE) /\ c.task = f.task /\ c.live = FALSE
      BY <1>3, FinishTyped
    <3>3. g = [c EXCEPT !.overrun = o]
      BY <2>2, <3>2, Zenon
    <3> QED
      BY <3>1, <3>2, <3>3 DEF FlowSet
  <2>7. ~Awaits(flow'[e][i])
    BY <1>3, <1>5, <2>6 DEF Awaits, Sound
  <2>8. PICK z \in CtlRecords : z = RstRecord(i, TRUE) /\ z.kind = "RST"
    BY RstTyped
  <2>9. Drops(e)
    BY <1>1, <1>2, <2>3, <2>7, <2>8 DEF Drops
  <2>10. \A d \in Ends : CtlMild(d) /\ WireMild(d) /\ OutMild(d)
    BY <2>9, DropQueues
  <2> QED
    BY <1>2, <2>3, <2>5, <2>10, OneMild
<1> QED
  BY <1>4, <1>5, <1>t

-----------------------------------------------------------------------------
(* Steps that change what is under way in one stream.                      *)

\* The queue q becomes p; its records of this kind for stream k stay.
Same(q, p, kind, k) ==
  \/ p = q
  \/ q # <<>> /\ p = Tail(q) /\ ~(Head(q).kind = kind /\ Head(q).sid = k)
  \/ \E r \in WireRecords : p = Append(q, r) /\ ~(r.kind = kind /\ r.sid = k)

\* The payloads stay.
LEMMA SameDatas ==
  ASSUME NEW q \in Seq(WireRecords), NEW p, NEW k, Same(q, p, "DATA", k)
  PROVE  Datas(p, k) = Datas(q, k) /\ (Ascending(q, k) => Ascending(p, k))
<1>1. CASE p = q
  BY <1>1
<1>2. CASE q # <<>> /\ p = Tail(q) /\ ~(Head(q).kind = "DATA" /\ Head(q).sid = k)
  <2>1. TailDatas(q, k)
    BY <1>2, TailPayload
  <2> QED
    BY <1>2, <2>1 DEF TailDatas
<1>3. ASSUME NEW r \in WireRecords, p = Append(q, r), ~(r.kind = "DATA" /\ r.sid = k)
      PROVE  Datas(p, k) = Datas(q, k) /\ (Ascending(q, k) => Ascending(p, k))
  <2>1. AppendDatas(q, r, k)
    BY AppendPayload
  <2> QED
    BY <1>3, <2>1 DEF AppendDatas
<1> QED
  BY <1>1, <1>2, <1>3 DEF Same

\* The WINs stay.
LEMMA SameWins ==
  ASSUME NEW q \in Seq(WireRecords), NEW p, NEW k, Same(q, p, "WIN", k),
         NEW a \in Int, NEW b \in Int, Adds(q, k, a, b)
  PROVE  Adds(p, k, a, b)
<1>0. a + 0 = a /\ b + 0 = b
  OBVIOUS
<1>1. CASE p = q
  BY <1>1
<1>2. CASE q # <<>> /\ p = Tail(q) /\ ~(Head(q).kind = "WIN" /\ Head(q).sid = k)
  <2>1. Inc(Head(q), k) = 0
    BY <1>2 DEF Inc
  <2>2. Adds(Tail(q), k, a + Inc(Head(q), k), b)
    BY <1>2, AddsTail
  <2> QED
    BY <1>0, <1>2, <2>1, <2>2
<1>3. ASSUME NEW r \in WireRecords, p = Append(q, r), ~(r.kind = "WIN" /\ r.sid = k)
      PROVE  Adds(p, k, a, b)
  <2>1. Inc(r, k) = 0
    BY <1>3 DEF Inc
  <2>2. Adds(Append(q, r), k, a, b + Inc(r, k))
    BY <2>1, AddsAppend
  <2> QED
    BY <1>0, <1>3, <2>1, <2>2
<1> QED
  BY <1>1, <1>2, <1>3 DEF Same

\* The payloads from d, and the WINs from d, of stream k stay.
PayloadsSame(d, k) == Same(wire[d], wire'[d], "DATA", k) /\ Same(out[d], out'[d], "DATA", k)
WinsSame(d, k) == Same(wire[d], wire'[d], "WIN", k) /\ Same(ctl[d], ctl'[d], "WIN", k)

\* Then they rest.
LEMMA SameRests ==
  ASSUME FInv, DInv, UNCHANGED run, NEW d \in Ends, NEW k \in Sids
  PROVE  /\ PayloadsSame(d, k) => PayloadsRest(d, k)
         /\ WinsSame(d, k) => WinsRest(d, k)
<1>1. /\ wire[d] \in Seq(WireRecords) /\ out[d] \in Seq(WireRecords) /\ ctl[d] \in Seq(WireRecords)
  BY QueuesTyped DEF FInv
<1>2. ASSUME PayloadsSame(d, k) PROVE PayloadsRest(d, k)
  <2>1. Ascending(wire[d], k) /\ Ascending(out[d], k)
    BY DirectionFacts DEF Directed, Delivered
  <2>2. Datas(wire'[d], k) = Datas(wire[d], k) /\ Ascending(wire'[d], k)
    BY <1>1, <1>2, <2>1, SameDatas DEF PayloadsSame
  <2>3. Datas(out'[d], k) = Datas(out[d], k) /\ Ascending(out'[d], k)
    BY <1>1, <1>2, <2>1, SameDatas DEF PayloadsSame
  <2> QED
    BY <2>2, <2>3 DEF PayloadsRest
<1>3. ASSUME WinsSame(d, k) PROVE WinsRest(d, k)
  <2>1. \A a, b \in Int : Adds(wire[d], k, a, b) => Adds(wire'[d], k, a, b)
    BY <1>1, <1>3, SameWins DEF WinsSame
  <2>2. \A a, b \in Int : Adds(ctl[d], k, a, b) => Adds(ctl'[d], k, a, b)
    BY <1>1, <1>3, SameWins DEF WinsSame
  <2> QED
    BY <2>1, <2>2 DEF WinsRest, LaneGrows
<1> QED
  BY <1>2, <1>3

\* A direction whose flows do not change rests.
LEMMA FlowsRest ==
  ASSUME FInv, DInv, NEW d \in Ends, NEW k \in Sids, \A p \in Ends : flow'[p][k] = flow[p][k]
  PROVE  Rests(d, k)
<1>1. Peer(d) \in Ends /\ "c" \in Ends
  BY PeerFacts DEF Ends
<1>2. /\ Mild(d, flow[d][k], flow[d][k]) /\ Mild(Peer(d), flow[Peer(d)][k], flow[Peer(d)][k])
  BY <1>1, TaskFacts, SameMild
<1> QED
  BY <1>1, <1>2 DEF Rests, Mild

\* A direction that rests, with its queues, is kept.
LEMMA RestDirected ==
  ASSUME FInv, DInv, FInv', UNCHANGED run, NEW d \in Ends, NEW k \in Sids, Rests(d, k),
         PayloadsSame(d, k), WinsSame(Peer(d), k)
  PROVE  Directed(d, k)'
<1>1. PICK p \in Ends : p = Peer(d)
  BY PeerFacts
<1>2. PayloadsRest(d, k) /\ WinsRest(p, k)
  BY <1>1, SameRests
<1>3. Delivered(d, k)'
  BY <1>2, DeliveredKept
<1> QED
  BY <1>1, <1>2, <1>3, CoveredKept DEF Directed

\* The step changes only stream i, if that is a stream at all.
LEMMA OneStream ==
  ASSUME FInv, DInv, FInv', UNCHANGED run, ModesKept, NEW i,
         \A d \in Ends, k \in Sids :
           k # i => flow'[d][k] = flow[d][k] /\ PayloadsSame(d, k) /\ WinsSame(d, k),
         \A d \in Ends : /\ Moves(d, ctl[d], ctl'[d]) /\ Moves(d, wire[d], wire'[d])
                         /\ Moves(d, out[d], out'[d]),
         i \in Sids => \A d \in Ends : Steady(d, flow'[d][i]) /\ Directed(d, i)'
  PROVE  DInv'
<1>1. ASSUME NEW d \in Ends, NEW k \in Sids
      PROVE  Steady(d, flow'[d][k]) /\ Directed(d, k)'
  <2>1. CASE k = i
    BY <2>1
  <2>2. CASE k # i
    <3>1. \A p \in Ends : flow'[p][k] = flow[p][k] /\ PayloadsSame(p, k) /\ WinsSame(p, k)
      BY <2>2
    <3>2. Steady(d, flow'[d][k])
      BY <3>1, TaskFacts
    <3>3. Rests(d, k)
      BY <3>1, FlowsRest
    <3>4. Peer(d) \in Ends
      BY PeerFacts
    <3> QED
      BY <3>1, <3>2, <3>3, <3>4, RestDirected
  <2> QED
    BY <2>1, <2>2
<1>2. WinsEarned' /\ SameMode' /\ ClosesEmpty'
  BY ControlKept
<1> QED
  BY <1>1, <1>2 DEF DInv

-----------------------------------------------------------------------------
(* The steps of the writer, and delivery.                                  *)

\* No flow changes.
LEMMA SameModes ==
  ASSUME DInv, flow' = flow
  PROVE  ModesKept
  BY DEF ModesKept, DInv, SameMode

\* The writer takes a WIN from the control lane to the wire.
LEMMA WinFed ==
  ASSUME NEW d \in Ends, NEW i, NEW w \in Seq(WireRecords), NEW c \in Seq(WireRecords), c # <<>>,
         NEW r \in WireRecords, r = Head(c), r.kind = "WIN", r.sid = i, r.n >= 1,
         NEW f \in FlowSet, NEW h \in FlowSet, h.outValid = TRUE, Allowed(d, w, c, i, f, h)
  PROVE  Allowed(d, Append(w, r), Tail(c), i, f, h)
<1>0. /\ Took(f) \in Int /\ f.avail \in Int /\ Window[d] \in Nat /\ Announced(d, h) \in Int
      /\ Took(f) + f.avail \in Int
  BY Counts, SMTT(30)
<1>1. Inc(r, i) = r.n /\ r.n \in Int
  BY IncTyped DEF Inc
<1>2. PICK m \in Int, n \in Int :
        /\ Adds(w, i, Took(f) + f.avail, m)
        /\ Adds(c, i, m, n) /\ Within(d, f, h, n)
  BY DEF Allowed, Totals
<1>3. PICK v \in Int : v = m + r.n
  BY <1>1
<1>4. Adds(Append(w, r), i, Took(f) + f.avail, v)
  BY <1>0, <1>1, <1>2, <1>3, AddsAppend, SMTT(30)
<1>5. Adds(Tail(c), i, v, n)
  BY <1>1, <1>2, <1>3, AddsTail
<1>6. Tail(c) \in Seq(WireRecords)
  OBVIOUS
<1>7. v <= n
  BY <1>5, <1>6, AddsGrows
<1>8. Within(d, f, h, v)
  BY <1>0, <1>2, <1>7 DEF Within
<1> QED
  BY <1>2, <1>4, <1>5, <1>8 DEF Allowed, Totals

\* The control lane.
LEMMA ControlDelivers ==
  ASSUME FInv, DInv, FInv', NEW e \in Ends, WriteControl(e)
  PROVE  DInv'
<1>0. /\ wire \in [Ends -> Seq(WireRecords)] /\ ctl \in [Ends -> Seq(CtlRecords)] /\ Values
      /\ ctl[e] \in Seq(WireRecords) /\ wire[e] \in Seq(WireRecords)
  BY QueuesTyped DEF FInv, Values
<1>1. /\ ctl[e] # <<>> /\ Fed(e, Head(ctl[e])) /\ ctl' = [ctl EXCEPT ![e] = Tail(@)]
      /\ UNCHANGED <<run, flow, out>>
  BY DEF WriteControl
<1>2. PICK r \in CtlRecords : r = Head(ctl[e]) /\ r \in WireRecords
  BY <1>0, <1>1 DEF WireRecords
<1>3. r.kind \in {"CAP", "WIN", "RST"} /\ (r.kind = "WIN" => r.sid \in Sids /\ r.owned = TRUE)
  BY DEF CtlRecords, RecordsOf
<1>4. \/ wire' = [wire EXCEPT ![e] = Append(@, r)]
      \/ wire' = wire
  BY <1>1, <1>2 DEF Fed
<1>5. \/ wire'[e] = Append(wire[e], r)
      \/ wire'[e] = wire[e]
  BY <1>0, <1>4
<1>6. /\ ctl'[e] = Tail(ctl[e])
      /\ \A d \in Ends : d # e => ctl'[d] = ctl[d] /\ wire'[d] = wire[d]
  BY <1>0, <1>1, <1>4
<1>7. r.kind = "WIN" => r.n >= 1 /\ flow[e][r.sid].got # <<>>
  <2>1. Earned(ctl[e], flow[e])
    BY DEF DInv, WinsEarned
  <2> QED
    BY <1>0, <1>1, <1>2, <2>1, EarnedKept
<1>8. Proper(e, r)
  BY <1>1, <1>3, <1>7 DEF Proper
<1>9. \A d \in Ends : /\ Moves(d, ctl[d], ctl'[d]) /\ Moves(d, wire[d], wire'[d])
                      /\ Moves(d, out[d], out'[d])
  BY <1>1, <1>2, <1>5, <1>6, <1>8 DEF Moves
<1>10. ModesKept
  BY <1>1, SameModes
<1>11. \A d \in Ends, k \in Sids : PayloadsSame(d, k) /\ Rests(d, k)
  <2> TAKE d \in Ends, k \in Sids
  <2>1. Same(wire[d], wire'[d], "DATA", k)
    BY <1>2, <1>3, <1>5, <1>6 DEF Same
  <2>2. Same(out[d], out'[d], "DATA", k)
    BY <1>1 DEF Same
  <2> QED
    BY <1>1, <2>1, <2>2, FlowsRest DEF PayloadsSame
<1>12. \A d \in Ends, k \in Sids : ~(d = e /\ r.kind = "WIN" /\ k = r.sid) => WinsSame(d, k)
  <2> TAKE d \in Ends, k \in Sids
  <2>1. ASSUME ~(d = e /\ r.kind = "WIN" /\ k = r.sid)
        PROVE  Same(wire[d], wire'[d], "WIN", k) /\ Same(ctl[d], ctl'[d], "WIN", k)
    BY <1>1, <1>2, <1>5, <1>6, <2>1 DEF Same
  <2> QED
    BY <2>1 DEF WinsSame
<1>13. ASSUME NEW d \in Ends, NEW k \in Sids PROVE Directed(d, k)'
  <2>1. PICK p \in Ends : p = Peer(d) /\ Peer(p) = d
    BY PeerFacts
  <2>2. Delivered(d, k)'
    BY <1>1, <1>11, SameRests, DeliveredKept
  <2>3. CASE ~(p = e /\ r.kind = "WIN" /\ k = r.sid)
    <3>1. WinsRest(p, k)
      BY <1>1, <1>12, <2>3, SameRests
    <3> QED
      BY <1>11, <2>1, <2>2, <3>1, CoveredKept DEF Directed
  <2>4. CASE p = e /\ r.kind = "WIN" /\ k = r.sid
    <3>1. PICK f, h : f = flow[d][k] /\ h = flow[e][k]
      OBVIOUS
    <3>2. PICK w, c : w = wire[e] /\ c = ctl[e]
      OBVIOUS
    <3>3. f \in FlowSet /\ h \in FlowSet /\ h.outValid \in BOOLEAN
      <4>1. f \in FlowSet /\ h \in FlowSet
        BY <3>1, TaskFacts
      <4> QED
        BY <4>1 DEF FlowSet
    <3>4. ASSUME Counted(k), f.live = TRUE
          PROVE  Allowed(e, wire'[e], Tail(c), k, f, h)
      <4>1. Allowed(e, w, c, k, f, h)
        BY <2>1, <2>4, <3>1, <3>2, <3>4, DirectionFacts DEF Directed, Covered
      <4>2. CASE h.outValid = TRUE
        <5>1. wire' = [wire EXCEPT ![e] = Append(@, r)]
          BY <1>1, <1>2, <2>4, <3>1, <4>2 DEF Fed
        <5>2. wire'[e] = Append(w, r)
          BY <1>0, <3>2, <5>1
        <5>3. w \in Seq(WireRecords) /\ c \in Seq(WireRecords) /\ c # <<>> /\ r = Head(c) /\ r.n >= 1
          BY <1>0, <1>1, <1>2, <1>7, <2>4, <3>2
        <5>4. Allowed(e, Append(w, r), Tail(c), k, f, h)
          BY <1>2, <2>4, <3>3, <4>1, <4>2, <5>3, WinFed
        <5> QED
          BY <5>2, <5>4
      <4>3. CASE h.outValid = FALSE
        <5>1. wire' = wire
          BY <1>1, <1>2, <1>3, <2>4, <3>1, <4>3 DEF Fed
        <5> QED
          BY <3>2, <4>1, <4>3, <5>1 DEF Allowed
      <4> QED
        BY <3>3, <4>2, <4>3
    <3>5. Covered(d, k)'
      BY <1>1, <1>6, <2>1, <2>4, <3>1, <3>2, <3>4 DEF Covered, Counted
    <3> QED
      BY <2>2, <3>5 DEF Directed
  <2> QED
    BY <2>3, <2>4
<1>14. \A d \in Ends, k \in Sids : Steady(d, flow'[d][k])
  BY <1>1, TaskFacts
<1>15. \A d \in Ends, k \in Sids :
         k # r.sid => flow'[d][k] = flow[d][k] /\ PayloadsSame(d, k) /\ WinsSame(d, k)
  BY <1>1, <1>11, <1>12
<1> QED
  BY <1>1, <1>9, <1>10, <1>13, <1>14, <1>15, OneStream

\* The output lane: its first payload goes to the wire, or is dropped.
LEMMA OutputDelivers ==
  ASSUME FInv, DInv, FInv', NEW e \in Ends, WriteOutput(e)
  PROVE  DInv'
<1>0. /\ wire \in [Ends -> Seq(WireRecords)] /\ out \in [Ends -> Seq(OutRecords)] /\ Values
      /\ out[e] \in Seq(WireRecords) /\ wire[e] \in Seq(WireRecords)
  BY QueuesTyped DEF FInv, Values
<1>1. /\ out[e] # <<>> /\ Fed(e, Head(out[e])) /\ out' = [out EXCEPT ![e] = Tail(@)]
      /\ UNCHANGED <<run, flow, ctl>>
  BY DEF WriteOutput
<1>2. PICK r \in OutRecords : r = Head(out[e]) /\ r \in WireRecords
  BY <1>0, <1>1 DEF WireRecords
<1>3. /\ r.kind \in {"OPEN", "DATA", "CLOSE"} /\ r.sid \in Sids /\ r.owned = TRUE
  BY DEF OutRecords, RecordsOf
<1>i. PICK i \in Sids : i = r.sid
  BY <1>3
<1>t. flow[e][i] \in FlowSet /\ flow[e][i].outValid \in BOOLEAN
  <2>1. flow[e][i] \in FlowSet
    BY TaskFacts
  <2> QED
    BY <2>1 DEF FlowSet
<1>4. \/ flow[e][i].outValid = TRUE /\ wire' = [wire EXCEPT ![e] = Append(@, r)]
      \/ flow[e][i].outValid = FALSE /\ wire' = wire
  BY <1>1, <1>2, <1>3, <1>i, <1>t DEF Fed
<1>5. \/ flow[e][i].outValid = TRUE /\ wire'[e] = Append(wire[e], r)
      \/ flow[e][i].outValid = FALSE /\ wire'[e] = wire[e]
  BY <1>0, <1>4
<1>6. /\ out'[e] = Tail(out[e])
      /\ \A d \in Ends : d # e => out'[d] = out[d] /\ wire'[d] = wire[d]
  BY <1>0, <1>1, <1>4
<1>8. Proper(e, r)
  <2>1. ASSUME r.kind = "CLOSE" PROVE r.data = <<>>
    <3>1. Bare(out[e])
      BY DEF DInv, ClosesEmpty
    <3> QED
      BY <1>0, <1>1, <1>2, <2>1, <3>1, BareKept
  <2>2. ASSUME e = "c", r.kind = "OPEN" PROVE r.credit = flow[e][r.sid].negotiated
    <3>1. OpensTell(out[e], flow[e])
      BY <2>2 DEF DInv, SameMode
    <3> QED
      BY <1>0, <1>1, <1>2, <2>2, <3>1, TellsKept
  <2> QED
    BY <1>1, <1>3, <2>1, <2>2 DEF Proper
<1>9. \A d \in Ends : /\ Moves(d, ctl[d], ctl'[d]) /\ Moves(d, wire[d], wire'[d])
                      /\ Moves(d, out[d], out'[d])
  BY <1>1, <1>2, <1>5, <1>6, <1>8 DEF Moves
<1>10. ModesKept
  BY <1>1, SameModes
<1>11. \A d \in Ends, k \in Sids : WinsSame(d, k) /\ Rests(d, k)
  <2> TAKE d \in Ends, k \in Sids
  <2>1. Same(wire[d], wire'[d], "WIN", k)
    BY <1>2, <1>3, <1>5, <1>6 DEF Same
  <2>2. Same(ctl[d], ctl'[d], "WIN", k)
    BY <1>1 DEF Same
  <2> QED
    BY <1>1, <2>1, <2>2, FlowsRest DEF WinsSame
<1>12. \A d \in Ends, k \in Sids : ~(d = e /\ r.kind = "DATA" /\ k = i) => PayloadsSame(d, k)
  <2> TAKE d \in Ends, k \in Sids
  <2>1. ASSUME ~(d = e /\ r.kind = "DATA" /\ k = i)
        PROVE  Same(wire[d], wire'[d], "DATA", k) /\ Same(out[d], out'[d], "DATA", k)
    BY <1>1, <1>2, <1>i, <1>5, <1>6, <2>1 DEF Same
  <2> QED
    BY <2>1 DEF PayloadsSame
<1>13. ASSUME r.kind = "DATA" PROVE Delivered(e, i)'
  <2>1. PICK d \in Ends : d = Peer(e)
    BY PeerFacts
  <2>2. PICK f, h, x, b : f = flow[e][i] /\ h = flow[d][i] /\ x = r.data /\ b = run[e]
    OBVIOUS
  <2>3. PICK W, O, q, p : W = Datas(wire[e], i) /\ O = Datas(Tail(out[e]), i) /\ q = out[e] /\ p = wire[e]
    OBVIOUS
  <2>4. f \in FlowSet /\ h \in FlowSet /\ b \in BOOLEAN /\ x \in Seq(Int)
    BY <1>0, <2>1, <2>2, TaskFacts, QueuesTyped DEF OutRecords, RecordsOf
  <2>5. TailDatas(q, i) /\ Head(q).kind = "DATA" /\ Head(q).sid = i /\ Head(q).data = x
    BY <1>0, <1>1, <1>2, <1>i, <1>13, <2>2, <2>3, TailPayload
  <2>6. AppendDatas(p, r, i)
    BY <1>0, <1>2, <2>3, AppendPayload
  <2>7. /\ Ascending(p, i) /\ Ascending(q, i) /\ Numbered(W, Datas(q, i), f, h) /\ Gapless(b, W, Datas(q, i), f, h)
        /\ Counted(i) => Fitting(d, W, Datas(q, i), f, h)
    BY <2>1, <2>2, <2>3, DirectionFacts DEF Directed, Delivered
  <2>8. Datas(q, i) = O \cup {x} /\ Ascending(Tail(q), i) /\ \A y \in O : LastByte(x) < y[1]
    BY <2>3, <2>5, <2>7 DEF TailDatas
  <2>9. /\ Numbered(W, O \cup {x}, f, h) /\ Gapless(b, W, O \cup {x}, f, h)
        /\ Counted(i) => Fitting(d, W, O \cup {x}, f, h)
    BY <2>7, <2>8
  <2>10. \A y \in W \cup O : y \in Seq(Int)
    <3>1. \A y \in W \cup Datas(q, i) : y \in Seq(Int)
      BY <2>3, DirectionFacts
    <3> QED
      BY <2>8, <3>1
  <2>11. CASE f.outValid = TRUE
    <3>0. \A y \in O : LastByte(x) < y[1]
      BY <2>8
    <3>1. /\ \A y \in W : LastByte(y) < x[1]
          /\ Numbered(W \cup {x}, O, f, h)
          /\ Gapless(b, W, O \cup {x}, f, h) => Gapless(b, W \cup {x}, O, f, h)
          /\ Fitting(d, W, O \cup {x}, f, h) => Fitting(d, W \cup {x}, O, f, h)
      <4>1. Numbered(W, O \cup {x}, f, h)
        BY <2>9
      <4>2. f \in FlowSet /\ h \in FlowSet
        BY <2>1, <2>4
      <4>3. x \in Seq(Int)
        BY <2>4
      <4> QED
        BY <2>10, <2>11, <3>0, <4>1, <4>2, <4>3, PayloadFed, Zenon
    <3>2. wire'[e] = Append(p, r)
      BY <1>5, <2>2, <2>3, <2>11
    <3>3. Datas(Append(p, r), i) = W \cup {x} /\ Ascending(Append(p, r), i)
      BY <1>i, <1>13, <2>2, <2>3, <2>6, <2>7, <3>1 DEF AppendDatas
    <3>4. Datas(wire'[e], i) = W \cup {x} /\ Ascending(wire'[e], i) /\ Datas(out'[e], i) = O /\ Ascending(out'[e], i)
      BY <1>6, <2>3, <2>8, <3>2, <3>3
    <3>5. /\ Numbered(W \cup {x}, O, f, h) /\ Gapless(b, W \cup {x}, O, f, h)
          /\ Counted(i) => Fitting(d, W \cup {x}, O, f, h)
      BY <2>9, <3>1
    <3> QED
      BY <1>1, <2>1, <2>2, <3>4, <3>5 DEF Delivered, Counted
  <2>12. CASE f.outValid = FALSE
    <3>1. Datas(wire'[e], i) = W /\ Ascending(wire'[e], i) /\ Datas(out'[e], i) = O /\ Ascending(out'[e], i)
      BY <1>5, <1>6, <2>2, <2>3, <2>7, <2>8, <2>12
    <3>2. Numbered(W, O, f, h)
      BY <2>9 DEF Numbered
    <3>3. Gapless(b, W, O, f, h)
      BY <2>9, <2>12 DEF Gapless
    <3>4. Counted(i) => Fitting(d, W, O, f, h)
      BY <2>9, <2>12 DEF Fitting
    <3> QED
      BY <1>1, <2>1, <2>2, <3>1, <3>2, <3>3, <3>4 DEF Delivered, Counted
  <2> QED
    BY <1>t, <2>2, <2>11, <2>12
<1>14. ASSUME NEW d \in Ends, NEW k \in Sids PROVE Directed(d, k)'
  <2>1. PICK p \in Ends : p = Peer(d)
    BY PeerFacts
  <2>2. Delivered(d, k)'
    BY <1>1, <1>11, <1>12, <1>13, SameRests, DeliveredKept
  <2>3. WinsRest(p, k)
    BY <1>1, <1>11, SameRests
  <2> QED
    BY <1>11, <2>1, <2>2, <2>3, CoveredKept DEF Directed
<1>15. \A d \in Ends, k \in Sids : Steady(d, flow'[d][k])
  BY <1>1, TaskFacts
<1>16. \A d \in Ends, k \in Sids :
         k # i => flow'[d][k] = flow[d][k] /\ PayloadsSame(d, k) /\ WinsSame(d, k)
  BY <1>1, <1>11, <1>12
<1> QED
  BY <1>1, <1>9, <1>10, <1>14, <1>15, <1>16, OneStream

-----------------------------------------------------------------------------
(* The steps of the uplink into the output lane, and delivery.             *)

\* OPEN and CLOSE.
LEMMA MarkSendDelivers ==
  ASSUME FInv, DInv, FInv', NEW e \in Ends, NEW i \in Sids,
         (e = "c" /\ SendOpen(i)) \/ SendClose(e, i)
  PROVE  DInv'
<1>0. out \in [Ends -> Seq(OutRecords)] /\ "c" \in Ends
  BY DEF FInv, Values, Ends
<1>1. PICK f \in FlowSet : f = flow[e][i] /\ Steady(e, f)
  BY TaskFacts
<1>2. PICK r, g :
        /\ flow' = [flow EXCEPT ![e][i] = g] /\ Send(e, r)
        /\ UNCHANGED <<run, ctl, wire>> /\ f.task \notin {"none", "gone"}
        /\ \/ g = [f EXCEPT !.task = "bridged"] /\ r = OpenRecord(i, f.negotiated) /\ e = "c"
           \/ g = [f EXCEPT !.up = "done"] /\ r = CloseRecord(i)
  <2>1. CASE e = "c" /\ SendOpen(i)
    <3>1. /\ flow' = [flow EXCEPT ![e][i] = [f EXCEPT !.task = "bridged"]] /\ Send(e, OpenRecord(i, f.negotiated))
          /\ UNCHANGED <<run, ctl, wire>> /\ f.task \notin {"none", "gone"}
      BY <1>1, <2>1 DEF SendOpen
    <3> QED
      BY <2>1, <3>1, Zenon
  <2>2. CASE SendClose(e, i)
    <3>1. /\ flow' = [flow EXCEPT ![e][i] = [f EXCEPT !.up = "done"]] /\ Send(e, CloseRecord(i))
          /\ UNCHANGED <<run, ctl, wire>> /\ f.task \notin {"none", "gone"}
      BY <1>1, <2>2 DEF SendClose, Bridged
    <3> QED
      BY <3>1, Zenon
  <2> QED
    BY <2>1, <2>2
<1>3. g \in FlowSet
  BY <1>2, NewFlowFacts, Zenon
<1>4. SameSending(f, g) /\ SameReceiving(f, g) /\ SameMark(f, g)
  <2>1. SameSending(f, g)
    BY <1>2 DEF FlowSet, SameSending
  <2>2. SameReceiving(f, g)
    BY <1>2 DEF FlowSet, SameReceiving
  <2>3. SameMark(f, g)
    BY <1>2 DEF FlowSet, SameMark
  <2> QED
    BY <2>1, <2>2, <2>3
<1>5. Mild(e, f, g)
  BY <1>1, <1>3, <1>4, MarkMild
<1>6. /\ r \in OutRecords /\ r.kind # "DATA"
      /\ r.kind = "OPEN" => r.credit = flow["c"][r.sid].negotiated
      /\ r.kind = "CLOSE" => r.data = <<>>
  <2>1. f.negotiated \in BOOLEAN /\ <<>> \in Seq(Int)
    BY DEF FlowSet
  <2>2. CASE r = OpenRecord(i, f.negotiated) /\ e = "c"
    <3>1. r \in OutRecords /\ r.kind = "OPEN" /\ r.sid = i /\ r.credit = f.negotiated
      BY <2>1, <2>2 DEF OpenRecord, Record, OutRecords, RecordsOf
    <3> QED
      BY <1>1, <2>2, <3>1
  <2>3. CASE r = CloseRecord(i)
    BY <2>1, <2>3 DEF CloseRecord, Record, OutRecords, RecordsOf
  <2> QED
    BY <1>2, <2>2, <2>3
<1>7. out'[e] = Append(out[e], r) /\ \A d \in Ends : d # e => out'[d] = out[d]
  BY <1>0, <1>2 DEF Send
<1>8. \A d \in Ends : CtlMild(d) /\ WireMild(d)
  BY <1>2 DEF CtlMild, WireMild
<1>9. ASSUME NEW d \in Ends PROVE OutMild(d)
  <2>1. run'[d] = run[d]
    BY <1>2
  <2> QED
    BY <1>6, <1>7, <2>1 DEF OutMild
<1> QED
  BY <1>1, <1>2, <1>5, <1>8, <1>9, OneMild, Zenon

\* One flow changes: the others do not.
LEMMA OtherFlows ==
  ASSUME FInv, NEW e \in Ends, NEW i \in Sids, NEW g, flow' = [flow EXCEPT ![e][i] = g]
  PROVE  /\ flow'[e][i] = g
         /\ \A d \in Ends, k \in Sids : d # e \/ k # i => flow'[d][k] = flow[d][k]
<1>1. flow \in [Ends -> [Sids -> FlowSet]]
  BY DEF FInv, Values
<1> QED
  BY <1>1

\* It keeps its mode.
SameKind(f, g) ==
  /\ g.negotiated = f.negotiated /\ (f.got # <<>> => g.got # <<>>)
  /\ g.task \notin {"none", "gone"} => f.task \notin {"none", "gone"}

\* Then the modes are kept.
LEMMA OneModes ==
  ASSUME FInv, DInv, NEW e \in Ends, NEW i \in Sids, NEW g, flow' = [flow EXCEPT ![e][i] = g],
         SameKind(flow[e][i], g)
  PROVE  ModesKept
<1>0. "c" \in Ends /\ "s" \in Ends
  BY DEF Ends
<1>1. \A d \in Ends, k \in Sids : SameKind(flow[d][k], flow'[d][k])
  <2>1. ASSUME NEW d \in Ends, NEW k \in Sids PROVE SameKind(flow[d][k], flow'[d][k])
    <3>1. CASE d = e /\ k = i
      <4>1. flow \in [Ends -> [Sids -> FlowSet]]
        BY DEF FInv, Values
      <4>2. flow'[e][i] = g
        BY <4>1
      <4> QED
        BY <3>1, <4>2
    <3>2. CASE ~(d = e /\ k = i)
      <4>1. flow'[d][k] = flow[d][k]
        BY <3>2, OtherFlows
      <4> QED
        BY <4>1 DEF SameKind
    <3> QED
      BY <3>1, <3>2
  <2> QED
    BY <2>1
<1>2. \A k \in Sids : flow["s"][k].task \notin {"none", "gone"} =>
                        flow["s"][k].negotiated = flow["c"][k].negotiated
  BY DEF DInv, SameMode
<1> QED
  BY <1>0, <1>1, <1>2 DEF ModesKept, SameKind

\* One flow changes: the direction to it rests if its uplink is not concerned.
LEMMA RestsTo ==
  ASSUME FInv, DInv, NEW e \in Ends, NEW i \in Sids, NEW g, flow' = [flow EXCEPT ![e][i] = g],
         Steady(e, g), SameKind(flow[e][i], g), Follows(e, flow[e][i], g)
  PROVE  Rests(Peer(e), i)
<1>1. PICK p \in Ends : p = Peer(e) /\ Peer(p) = e /\ p # e
  BY PeerFacts
<1>t. flow \in [Ends -> [Sids -> FlowSet]]
  BY DEF FInv, Values
<1>2. flow'[e][i] = g /\ flow'[p][i] = flow[p][i]
  BY <1>1, <1>t
<1>3. Mild(p, flow[p][i], flow[p][i])
  BY TaskFacts, SameMild
<1>4. flow'["c"][i].negotiated = flow["c"][i].negotiated
  BY <1>1, <1>2 DEF SameKind, Ends
<1> QED
  BY <1>1, <1>2, <1>3, <1>4 DEF Rests, Mild

\* The direction from it rests if its downlink is not concerned.
LEMMA RestsFrom ==
  ASSUME FInv, DInv, NEW e \in Ends, NEW i \in Sids, NEW g, flow' = [flow EXCEPT ![e][i] = g],
         Steady(e, g), SameKind(flow[e][i], g), Stays(flow[e][i], g)
  PROVE  Rests(e, i)
<1>1. PICK p \in Ends : p = Peer(e) /\ Peer(p) = e /\ p # e
  BY PeerFacts
<1>t. flow \in [Ends -> [Sids -> FlowSet]]
  BY DEF FInv, Values
<1>2. flow'[e][i] = g /\ flow'[p][i] = flow[p][i]
  BY <1>1, <1>t
<1>3. Mild(p, flow[p][i], flow[p][i])
  BY TaskFacts, SameMild
<1>4. flow'["c"][i].negotiated = flow["c"][i].negotiated
  BY <1>1, <1>2 DEF SameKind, Ends
<1> QED
  BY <1>1, <1>2, <1>3, <1>4 DEF Rests, Mild, SameKind

\* Handing over keeps the uplink in order.
LEMMA HandsOverSending ==
  ASSUME NEW f \in FlowSet, NEW g \in FlowSet, Sending(f), f.taken # <<>>, HandsOver(f, g)
  PROVE  Sending(g) /\ Took(g) = Took(f) /\ g.avail = f.avail
<1>1. Handed(g) = Took(f) /\ Took(g) = Took(f) /\ Handed(f) >= 0
  BY ChunkNumbers
<1>2. Handed(f) \in Int /\ Took(f) \in Int /\ Handed(f) <= Took(f)
  BY Counts DEF Ends
<1>3. g.buf = f.buf /\ g.avail = f.avail /\ g.taken = <<>>
  BY DEF HandsOver
<1>4. 1..Len(g.taken) = {}
  BY <1>3
<1>5. f.avail >= 0 /\ \A k \in 1..Len(f.buf) : f.buf[k] = Took(f) + k
  BY DEF Sending
<1>6. Handed(g) >= 0
  BY <1>1, <1>2
<1>7. \A k \in 1..Len(g.buf) : g.buf[k] = Took(g) + k
  BY <1>1, <1>3, <1>5
<1>8. \A k \in 1..Len(g.taken) : g.taken[k] = Handed(g) + k
  BY <1>4
<1> QED
  BY <1>1, <1>3, <1>5, <1>6, <1>7, <1>8 DEF Sending

\* SendData.
LEMMA DataDelivers ==
  ASSUME FInv, DInv, FInv', NEW e \in Ends, NEW i \in Sids, SendData(e, i)
  PROVE  DInv'
<1>0. out \in [Ends -> Seq(OutRecords)] /\ out[e] \in Seq(WireRecords)
  BY QueuesTyped DEF FInv, Values
<1>1. PICK f \in FlowSet : f = flow[e][i] /\ Steady(e, f) /\ Sound(f)
  BY TaskFacts
<1>2. PICK g, r : g = [f EXCEPT !.taken = <<>>] /\ r = DataRecord(i, f.taken)
  OBVIOUS
<1>3. /\ flow' = [flow EXCEPT ![e][i] = g] /\ Send(e, r) /\ UNCHANGED <<run, ctl, wire>>
      /\ f.task = "bridged" /\ f.taken # <<>>
  <2>1. /\ flow' = [flow EXCEPT ![e][i] = [f EXCEPT !.taken = <<>>]]
        /\ Send(e, DataRecord(i, f.taken)) /\ UNCHANGED <<run, ctl, wire>>
        /\ f.task = "bridged" /\ f.taken # <<>>
    BY <1>1 DEF SendData, Bridged
  <2> QED
    BY <1>2, <2>1, Zenon
<1>4. g \in FlowSet /\ Sound(g)
  BY <1>3, NewFlowFacts
<1>5. HandsOver(f, g) /\ SameReceiving(f, g) /\ SameMark(f, g)
  <2>1. HandsOver(f, g)
    BY <1>2 DEF FlowSet, HandsOver
  <2>2. SameReceiving(f, g)
    BY <1>2 DEF FlowSet, SameReceiving
  <2>3. SameMark(f, g)
    BY <1>2, <1>3 DEF FlowSet, SameMark
  <2> QED
    BY <2>1, <2>2, <2>3
<1>6. Receiving(g) /\ Crediting(g, Window[e]) /\ Follows(e, f, g)
  BY <1>1, <1>4, <1>5, ReceivingSame DEF Steady
<1>7. Sending(g) /\ Took(g) = Took(f) /\ g.avail = f.avail
  BY <1>1, <1>3, <1>4, <1>5, HandsOverSending DEF Steady
<1>8. Steady(e, g) /\ SameKind(f, g)
  BY <1>5, <1>6, <1>7 DEF Steady, SameKind, SameMark, SameReceiving
<1>9. f.taken \in Seq(Int)
  BY DEF FlowSet
<1>10. r \in OutRecords /\ r \in WireRecords /\ r.kind = "DATA" /\ r.sid = i /\ r.data = f.taken
  BY <1>2, <1>9 DEF DataRecord, Record, OutRecords, RecordsOf, WireRecords
<1>11. out'[e] = Append(out[e], r) /\ \A d \in Ends : d # e => out'[d] = out[d]
  BY <1>0, <1>3 DEF Send
<1>12. run[e] = TRUE
  BY <1>3 DEF Send, FInv, Values
<1>13. PICK p \in Ends : p = Peer(e) /\ Peer(p) = e /\ p # e
  BY PeerFacts
<1>t. flow \in [Ends -> [Sids -> FlowSet]]
  BY DEF FInv, Values
<1>14. flow'[e][i] = g /\ flow'[p][i] = flow[p][i]
  BY <1>3, <1>13, <1>t
<1>15. \A d \in Ends, k \in Sids : WinsSame(d, k)
  BY <1>3 DEF WinsSame, Same
<1>16. \A d \in Ends, k \in Sids : d # e \/ k # i => PayloadsSame(d, k)
  BY <1>3, <1>10, <1>11 DEF PayloadsSame, Same
<1>17. Directed(p, i)'
  <2>1. Rests(p, i)
    BY <1>1, <1>3, <1>6, <1>8, <1>13, RestsTo
  <2> QED
    BY <1>3, <1>13, <1>15, <1>16, <2>1, RestDirected
<1>18. PICK h \in FlowSet : h = flow[p][i] /\ Steady(p, h)
  BY TaskFacts
<1>19. PICK W, O, q : W = Datas(wire[e], i) /\ O = Datas(out[e], i) /\ q = out[e]
  OBVIOUS
<1>20. /\ Ascending(wire[e], i) /\ Ascending(q, i) /\ Numbered(W, O, f, h) /\ Gapless(TRUE, W, O, f, h)
       /\ Counted(i) => Fitting(p, W, O, f, h)
  BY <1>1, <1>12, <1>13, <1>18, <1>19, DirectionFacts DEF Directed, Delivered
<1>21. \A x \in W \cup O : x \in Seq(Int)
  BY <1>19, DirectionFacts
<1>22. /\ \A x \in O : LastByte(x) < f.taken[1]
       /\ Numbered(W, O \cup {f.taken}, g, h)
       /\ Gapless(TRUE, W, O \cup {f.taken}, g, h)
  <2>1. Sending(f) /\ f.task \notin {"none", "gone"}
    BY <1>1, <1>3 DEF Steady
  <2> QED
    BY <1>1, <1>3, <1>4, <1>5, <1>18, <1>20, <1>21, <2>1, HandOver
<1>23. Datas(Append(q, r), i) = O \cup {f.taken} /\ Ascending(Append(q, r), i)
  <2>1. AppendDatas(q, r, i)
    BY <1>0, <1>10, <1>19, AppendPayload
  <2> QED
    BY <1>10, <1>19, <1>20, <1>22, <2>1 DEF AppendDatas
<1>24. Counted(i)' <=> Counted(i)
  BY <1>1, <1>8, <1>13, <1>14 DEF Counted, SameKind, Ends
<1>25. Counted(i) /\ f.live = TRUE => Allowed(p, wire[p], ctl[p], i, f, h)
  BY <1>1, <1>13, <1>18, DirectionFacts DEF Directed, Covered
<1>26. f.live \in BOOLEAN /\ f.outValid \in BOOLEAN /\ g.outValid = f.outValid /\ g.live = f.live
  BY <1>5 DEF FlowSet, HandsOver
<1>27. Counted(i) => Fitting(p, W, O \cup {f.taken}, g, h)
  <2>1. CASE f.live = TRUE
    <3>1. wire[p] \in Seq(WireRecords) /\ Sending(f)
      BY <1>1, QueuesTyped DEF FInv, Steady
    <3>2. ASSUME Counted(i) PROVE Fitting(p, W, O \cup {f.taken}, g, h)
      <4>1. Fitting(p, W, O, f, h) /\ Allowed(p, wire[p], ctl[p], i, f, h)
        BY <1>20, <1>25, <2>1, <3>2
      <4>2. PICK w, c : w = wire[p] /\ c = ctl[p]
        OBVIOUS
      <4>3. w \in Seq(WireRecords) /\ Allowed(p, w, c, i, f, h)
        BY <3>1, <4>1, <4>2
      <4> QED
        BY <1>3, <1>4, <1>5, <1>18, <3>1, <4>1, <4>3, HandOverFits
    <3> QED
      BY <3>2
  <2>2. CASE f.live = FALSE
    <3>1. f.outValid = FALSE
      BY <1>1, <1>3, <1>26, <2>2, Zenon DEF Sound
    <3> QED
      BY <1>20, <1>26, <3>1 DEF Fitting
  <2> QED
    BY <1>26, <2>1, <2>2
<1>28. Delivered(e, i)'
  <2>1. Datas(out'[e], i) = O \cup {f.taken} /\ Ascending(out'[e], i)
    BY <1>11, <1>19, <1>23
  <2>2. Datas(wire'[e], i) = W /\ Ascending(wire'[e], i) /\ run'[e] = TRUE
    BY <1>3, <1>12, <1>19, <1>20
  <2> QED
    BY <1>13, <1>14, <1>18, <1>22, <1>24, <1>27, <2>1, <2>2 DEF Delivered
<1>29. Covered(e, i)'
  <2>1. Counted(i) /\ g.live = TRUE => Allowed(p, wire[p], ctl[p], i, g, h)
    BY <1>7, <1>25, <1>26 DEF Allowed, Within
  <2> QED
    BY <1>3, <1>13, <1>14, <1>18, <1>24, <2>1 DEF Covered
<1>30. \A d \in Ends : Steady(d, flow'[d][i]) /\ Directed(d, i)'
  BY <1>8, <1>13, <1>14, <1>17, <1>18, <1>28, <1>29 DEF Directed, Ends
<1>31. \A d \in Ends, k \in Sids :
         k # i => flow'[d][k] = flow[d][k] /\ PayloadsSame(d, k) /\ WinsSame(d, k)
  BY <1>3, <1>15, <1>16, OtherFlows
<1>32. ModesKept
  BY <1>1, <1>3, <1>8, OneModes
<1>33. \A d \in Ends : /\ Moves(d, ctl[d], ctl'[d]) /\ Moves(d, wire[d], wire'[d])
                       /\ Moves(d, out[d], out'[d])
  <2>1. Proper(e, r)
    BY <1>10 DEF Proper
  <2> QED
    BY <1>3, <1>10, <1>11, <2>1 DEF Moves
<1> QED
  BY <1>3, <1>30, <1>31, <1>32, <1>33, OneStream

-----------------------------------------------------------------------------
(* WIN, DATA and CLOSE of a flow of the table.                             *)

\* A WIN is the first record on the wire: it fits, and moves into the allowance.
LEMMA WinTaken ==
  ASSUME NEW d \in Ends, NEW i, NEW w \in Seq(WireRecords), NEW c, w # <<>>,
         NEW r \in WireRecords, r = Head(w), r.kind = "WIN", r.sid = i,
         NEW f \in FlowSet, NEW h \in FlowSet, Allowed(d, w, c, i, f, h)
  PROVE  /\ r.n \in Int /\ f.avail \in Int /\ Window[d] \in Int /\ r.n <= Window[d] - f.avail
         /\ \A g \in FlowSet : g.avail = f.avail + r.n /\ Took(g) = Took(f) =>
              Allowed(d, Tail(w), c, i, g, h)
<1>0. /\ Took(f) \in Int /\ f.avail \in Int /\ Window[d] \in Int /\ Took(f) + f.avail \in Int
  BY Counts, SMTT(30)
<1>1. Inc(r, i) = r.n /\ r.n \in Int
  BY IncTyped DEF Inc
<1>2. PICK m \in Int :
        /\ Adds(w, i, Took(f) + f.avail, m) /\ Within(d, f, h, m)
        /\ h.outValid = TRUE => \E n \in Totals : Adds(c, i, m, n) /\ Within(d, f, h, n)
  BY DEF Allowed, Totals
<1>3. PICK a \in Int : a = (Took(f) + f.avail) + r.n
  BY <1>0, <1>1
<1>4. Adds(Tail(w), i, a, m)
  BY <1>0, <1>1, <1>2, <1>3, AddsTail
<1>5. Tail(w) \in Seq(WireRecords)
  OBVIOUS
<1>6. a <= m
  BY <1>4, <1>5, AddsGrows
<1>7. m <= Took(f) + Window[d]
  BY <1>2 DEF Within
<1>8. r.n <= Window[d] - f.avail
  BY <1>0, <1>1, <1>3, <1>6, <1>7, SMTT(30)
<1>9. ASSUME NEW g \in FlowSet, g.avail = f.avail + r.n, Took(g) = Took(f)
      PROVE  Allowed(d, Tail(w), c, i, g, h)
  <2>1. Took(g) + g.avail = a
    BY <1>0, <1>1, <1>3, <1>9
  <2>2. \A n : Within(d, f, h, n) => Within(d, g, h, n)
    BY <1>9 DEF Within
  <2> QED
    BY <1>2, <1>4, <2>1, <2>2 DEF Allowed, Totals
<1> QED
  BY <1>0, <1>1, <1>8, <1>9

\* Only the allowance changes.
LEMMA AvailSending ==
  ASSUME NEW f \in FlowSet, NEW g \in FlowSet, Sending(f), g.read = f.read, g.buf = f.buf,
         g.taken = f.taken, g.avail >= 0
  PROVE  Sending(g) /\ Handed(g) = Handed(f) /\ Took(g) = Took(f)
<1>1. Handed(g) = Handed(f) /\ Took(g) = Took(f)
  BY DEF Handed, Took
<1> QED
  BY <1>1 DEF Sending

\* WIN.
LEMMA WinDelivers ==
  ASSUME FInv, DInv, FInv', NEW e \in Ends, DispatchWin(e)
  PROVE  DInv'
<1>1. /\ wire[Peer(e)] # <<>> /\ wire' = [wire EXCEPT ![Peer(e)] = Tail(@)]
      /\ Arrived(e).kind = "WIN"
  BY DEF DispatchWin, Arrives, Arrived
<1>2. PICK i \in Sids : i = Arrived(e).sid
  BY <1>1, ArrivedTyped
<1>3. PICK f \in FlowSet : f = flow[e][i] /\ Steady(e, f) /\ Sound(f)
  BY TaskFacts
<1>t. f.live \in BOOLEAN /\ f.negotiated \in BOOLEAN
  BY DEF FlowSet
<1>4. PICK p \in Ends : p = Peer(e) /\ Peer(p) = e /\ p # e
  BY PeerFacts
<1>q. /\ wire \in [Ends -> Seq(WireRecords)] /\ wire[p] \in Seq(WireRecords)
      /\ flow \in [Ends -> [Sids -> FlowSet]]
  BY DEF FInv, Values
<1>5. PICK r \in WireRecords : r = Arrived(e) /\ r = Head(wire[p])
  BY <1>1, <1>4, <1>q DEF Arrived
<1>6. CASE f.live = FALSE \/ f.negotiated = FALSE
  <2>1. UNCHANGED <<flow, ctl, run, out>>
    BY <1>2, <1>3, <1>6 DEF DispatchWin
  <2>2. ~(flow'[e][i].live = TRUE /\ Counted(i))
    BY <1>3, <1>6, <2>1, LiveMode DEF Counted
  <2>3. Drops(e)
    BY <1>1, <1>2, <2>1, <2>2 DEF Drops
  <2> QED
    BY <2>1, <2>3, DropQueues, SameDeliver
<1>7. CASE f.live = TRUE /\ f.negotiated = TRUE
  <2>1. Counted(i)
    BY <1>3, <1>7, LiveMode DEF Counted
  <2>2. PICK h \in FlowSet : h = flow[p][i] /\ Steady(p, h)
    BY TaskFacts
  <2>3. PICK w, c : w = wire[p] /\ c = ctl[p]
    OBVIOUS
  <2>4. Allowed(p, w, c, i, f, h)
    BY <1>3, <1>4, <1>7, <2>1, <2>2, <2>3, DirectionFacts DEF Directed, Covered
  <2>5. w \in Seq(WireRecords) /\ w # <<>> /\ r = Head(w) /\ r.kind = "WIN" /\ r.sid = i
    BY <1>1, <1>2, <1>4, <1>q, <1>5, <2>3
  <2>6. /\ r.n \in Int /\ f.avail \in Int /\ Window[p] \in Int /\ r.n <= Window[p] - f.avail
        /\ \A g \in FlowSet : g.avail = f.avail + r.n /\ Took(g) = Took(f) =>
             Allowed(p, Tail(w), c, i, g, h)
    BY <2>4, <2>5, WinTaken
  <2>7. r.n >= 1
    <3>1. Earned(w, flow[p])
      BY <2>3 DEF DInv, WinsEarned
    <3> QED
      BY <2>5, <3>1, EarnedKept
  <2>8. r.n \in 1..(Window[Peer(e)] - f.avail)
    BY <1>4, <2>6, <2>7
  <2>9. PICK a : a = f.avail + r.n
    OBVIOUS
  <2>10. PICK g : g = [f EXCEPT !.avail = a]
    BY Zenon
  <2>11. flow' = [flow EXCEPT ![e][i] = g] /\ UNCHANGED <<ctl, run, out>>
    <3>1. flow' = [flow EXCEPT ![e][i].avail = @ + r.n] /\ UNCHANGED <<ctl, run, out>>
      BY <1>2, <1>3, <1>5, <1>7, <2>8 DEF DispatchWin
    <3>2. flow' = [flow EXCEPT ![e][i] = [f EXCEPT !.avail = f.avail + r.n]]
      BY <1>3, <3>1
    <3> QED
      BY <2>9, <2>10, <3>1, <3>2, Zenon
  <2>12. g \in FlowSet
    BY <2>11, NewFlowFacts
  <2>13. f.task \notin {"none", "gone"}
    BY <1>3, <1>7, Zenon DEF Sound
  <2>14. SameReceiving(f, g) /\ SameMark(f, g)
    <3>1. SameReceiving(f, g)
      BY <2>10 DEF FlowSet, SameReceiving
    <3>2. SameMark(f, g)
      BY <2>10, <2>13 DEF FlowSet, SameMark
    <3> QED
      BY <3>1, <3>2
  <2>15. g.read = f.read /\ g.buf = f.buf /\ g.taken = f.taken /\ g.avail = a
    BY <2>10 DEF FlowSet
  <2>16. Receiving(g) /\ Crediting(g, Window[e]) /\ Follows(e, f, g)
    BY <1>3, <2>12, <2>14, ReceivingSame DEF Steady
  <2>17. Sending(g) /\ Handed(g) = Handed(f) /\ Took(g) = Took(f)
    <3>1. Sending(f) /\ f.avail >= 0
      BY <1>3 DEF Steady, Sending
    <3>2. g.avail >= 0
      BY <2>6, <2>7, <2>9, <2>15, <3>1
    <3> QED
      BY <2>12, <2>15, <3>1, <3>2, AvailSending
  <2>18. Steady(e, g) /\ SameKind(f, g)
    BY <2>14, <2>16, <2>17 DEF Steady, SameKind, SameMark, SameReceiving
  <2>19. flow'[e][i] = g /\ flow'[p][i] = flow[p][i]
    BY <1>4, <1>q, <2>11
  <2>20. wire'[p] = Tail(w) /\ wire'[e] = wire[e]
    BY <1>1, <1>4, <1>q, <2>3
  <2>21. \A d \in Ends, k \in Sids : PayloadsSame(d, k)
    <3>1. \A d \in Ends : d = e \/ d = p
      BY <1>4 DEF Ends
    <3> QED
      BY <2>3, <2>5, <2>11, <2>20, <3>1 DEF PayloadsSame, Same
  <2>22. \A d \in Ends, k \in Sids : d # p \/ k # i => WinsSame(d, k)
    <3>1. \A d \in Ends : d = e \/ d = p
      BY <1>4 DEF Ends
    <3> QED
      BY <2>3, <2>5, <2>11, <2>20, <3>1 DEF WinsSame, Same
  <2>23. Directed(p, i)'
    <3>1. Rests(p, i)
      BY <1>3, <1>4, <2>11, <2>16, <2>18, RestsTo
    <3> QED
      BY <1>4, <2>11, <2>21, <2>22, <3>1, RestDirected
  <2>24. Counted(i)'
    BY <1>3, <1>4, <2>1, <2>18, <2>19 DEF Counted, SameKind, Ends
  <2>25. Delivered(e, i)'
    <3>1. PICK W, O, b : W = Datas(wire[e], i) /\ O = Datas(out[e], i) /\ b = run[e]
      OBVIOUS
    <3>2. /\ Ascending(wire[e], i) /\ Ascending(out[e], i) /\ Numbered(W, O, f, h) /\ Gapless(b, W, O, f, h)
          /\ Fitting(p, W, O, f, h)
      BY <1>3, <1>4, <2>1, <2>2, <3>1, DirectionFacts DEF Directed, Delivered
    <3>3. g.outValid = f.outValid /\ g.live = f.live
      BY <2>14 DEF SameMark
    <3>4. Numbered(W, O, g, h)
      BY <2>17, <3>2 DEF Numbered
    <3>5. Gapless(b, W, O, g, h)
      BY <2>17, <3>2, <3>3 DEF Gapless
    <3>6. Fitting(p, W, O, g, h)
      BY <3>2, <3>3 DEF Fitting
    <3> QED
      BY <1>4, <2>2, <2>11, <2>19, <2>20, <3>1, <3>2, <3>4, <3>5, <3>6 DEF Delivered
  <2>26. Covered(e, i)'
    <3>1. Allowed(p, Tail(w), c, i, g, h)
      BY <2>6, <2>9, <2>12, <2>15, <2>17
    <3> QED
      BY <1>4, <2>2, <2>3, <2>11, <2>19, <2>20, <3>1 DEF Covered
  <2>27. \A d \in Ends : Steady(d, flow'[d][i]) /\ Directed(d, i)'
    BY <1>4, <2>2, <2>18, <2>19, <2>23, <2>25, <2>26 DEF Directed, Ends
  <2>28. \A d \in Ends, k \in Sids :
           k # i => flow'[d][k] = flow[d][k] /\ PayloadsSame(d, k) /\ WinsSame(d, k)
    BY <1>q, <2>11, <2>21, <2>22
  <2>29. ModesKept
    BY <1>3, <2>11, <2>18, OneModes
  <2>30. \A d \in Ends : /\ Moves(d, ctl[d], ctl'[d]) /\ Moves(d, wire[d], wire'[d])
                         /\ Moves(d, out[d], out'[d])
    <3>1. \A d \in Ends : d = e \/ d = p
      BY <1>4 DEF Ends
    <3> QED
      BY <2>3, <2>5, <2>11, <2>20, <3>1 DEF Moves
  <2> QED
    BY <2>11, <2>27, <2>28, <2>29, <2>30, OneStream
<1> QED
  BY <1>t, <1>6, <1>7

\* enqueue takes the payload x into the receive queue.
Enqueues(f, g, x) ==
  /\ g.credit = f.credit - Len(x) /\ g.bytes = f.bytes + Len(x) /\ g.rq = Append(f.rq, x)
  /\ g.cancelled = FALSE /\ f.cancelled = FALSE
  /\ g.writing = f.writing /\ g.pend = f.pend /\ g.pub = f.pub /\ g.got = f.got

\* The receive queue goes on in order.
LEMMA EnqueueReceiving ==
  ASSUME NEW f \in FlowSet, NEW g \in FlowSet, NEW x \in Seq(Int), Enqueues(f, g, x), Receiving(f),
         Block(x), x[1] = Seen(f) + 1, LastByte(x) = Seen(f) + Len(x)
  PROVE  Receiving(g) /\ Seen(g) = Seen(f) + Len(x)
<1>1. /\ f.got \in Seq(Int) /\ f.writing \in Seq(Int) /\ f.bytes \in Int /\ f.rq \in Seq(Seq(Int))
  BY DEF FlowSet
<1>2. /\ Len(f.got) \in Nat /\ Len(f.writing) \in Nat /\ Len(x) \in Nat /\ f.bytes \in Int
  BY <1>1
<1>3. Seen(f) \in Int /\ Passed(f) \in Int
  BY <1>2 DEF Seen, Passed
<1>4. Seen(g) = Seen(f) + Len(x) /\ Passed(g) = Passed(f)
  <2>1. g.got = f.got /\ g.bytes = f.bytes + Len(x) /\ g.writing = f.writing
    BY DEF Enqueues
  <2> QED
    BY <1>2, <2>1 DEF Seen, Passed
<1>5. PICK q, n : q = f.rq /\ n = Len(f.rq)
  OBVIOUS
<1>6. /\ n \in Nat /\ Len(Append(q, x)) = n + 1 /\ Append(q, x)[n + 1] = x
      /\ \A k \in 1..n : Append(q, x)[k] = q[k]
  BY <1>1, <1>5
<1>7. g.rq = Append(q, x) /\ Append(q, x) # <<>>
  BY <1>5, <1>6 DEF Enqueues
<1>8. \A k \in 1..n : /\ Block(q[k]) /\ q[k] \in Seq(Int) /\ LastByte(q[k]) \in Int /\ LastByte(q[k]) <= Seen(f)
                      /\ q[k][1] = IF k = 1 THEN Passed(f) + 1 ELSE LastByte(q[k - 1]) + 1
  <2>1. \A k \in 1..n : q[k] \in Seq(Int)
    BY <1>1, <1>5
  <2>2. \A k \in 1..n : /\ Block(q[k]) /\ LastByte(q[k]) <= Seen(f)
                        /\ q[k][1] = IF k = 1 THEN Passed(f) + 1 ELSE LastByte(q[k - 1]) + 1
    BY <1>5 DEF Receiving
  <2> QED
    BY <2>1, <2>2, BlockCounts
<1>9. Seen(f) = IF q = <<>> THEN Passed(f) ELSE LastByte(q[n])
  BY <1>5 DEF Receiving, Enqueues
<1>10. ASSUME NEW k \in 1..(n + 1)
       PROVE  /\ Block(Append(q, x)[k]) /\ LastByte(Append(q, x)[k]) <= Seen(g)
              /\ Append(q, x)[k][1] = IF k = 1 THEN Passed(g) + 1 ELSE LastByte(Append(q, x)[k - 1]) + 1
  <2>1. CASE k \in 1..n
    <3>1. Append(q, x)[k] = q[k] /\ Block(q[k]) /\ LastByte(q[k]) <= Seen(g)
      <4>1. LastByte(q[k]) \in Int /\ LastByte(q[k]) <= Seen(f)
        BY <1>8, <2>1
      <4>2. LastByte(q[k]) <= Seen(f) + Len(x)
        BY <1>2, <1>3, <4>1
      <4> QED
        BY <1>4, <1>6, <1>8, <2>1, <4>2
    <3>2. CASE k = 1
      BY <1>4, <1>8, <2>1, <3>1, <3>2
    <3>3. CASE k # 1
      <4>1. k - 1 \in 1..n
        BY <1>6, <2>1, <3>3
      <4>2. Append(q, x)[k - 1] = q[k - 1]
        BY <1>6, <4>1
      <4> QED
        BY <1>8, <2>1, <3>1, <3>3, <4>2
    <3> QED
      BY <3>2, <3>3
  <2>2. CASE k = n + 1
    <3>1. Append(q, x)[k] = x /\ Block(x) /\ LastByte(x) <= Seen(g)
      <4>1. Append(q, x)[k] = x
        BY <1>6, <2>2
      <4>2. LastByte(x) = Seen(g) /\ Seen(g) \in Int
        BY <1>2, <1>3, <1>4
      <4> QED
        BY <4>1, <4>2
    <3>2. CASE n = 0
      <4>0. q \in Seq(Seq(Int)) /\ Len(q) = 0
        BY <1>1, <1>5, <3>2
      <4>1. q = <<>>
        BY <4>0
      <4> QED
        BY <1>4, <1>9, <2>2, <3>1, <3>2, <4>1
    <3>3. CASE n # 0
      <4>1. q # <<>> /\ n \in 1..n /\ k - 1 = n /\ k # 1
        BY <1>1, <1>5, <1>6, <2>2, <3>3
      <4>2. Append(q, x)[k - 1] = q[n]
        BY <1>6, <4>1
      <4> QED
        BY <1>9, <3>1, <4>1, <4>2
    <3> QED
      BY <3>2, <3>3
  <2> QED
    BY <1>6, <2>1, <2>2
<1>11. Seen(g) = LastByte(Append(q, x)[n + 1])
  BY <1>4, <1>6
<1>12. g.bytes >= Len(g.writing)
  <2>1. g.bytes = f.bytes + Len(x) /\ g.writing = f.writing /\ f.bytes >= Len(f.writing)
    BY DEF Enqueues, Receiving
  <2> QED
    BY <1>2, <2>1
<1>13. /\ \A k \in 1..Len(g.got) : g.got[k] = k
       /\ \A k \in 1..Len(g.writing) : g.writing[k] = Len(g.got) + k
       /\ g.cancelled = FALSE
  BY DEF Enqueues, Receiving
<1>14. \A k \in 1..Len(g.rq) :
         /\ Block(g.rq[k]) /\ LastByte(g.rq[k]) <= Seen(g)
         /\ g.rq[k][1] = IF k = 1 THEN Passed(g) + 1 ELSE LastByte(g.rq[k - 1]) + 1
  BY <1>6, <1>7, <1>10
<1>15. Seen(g) = IF g.rq = <<>> THEN Passed(g) ELSE LastByte(g.rq[Len(g.rq)])
  BY <1>6, <1>7, <1>11
<1> QED
  BY <1>4, <1>12, <1>13, <1>14, <1>15 DEF Receiving

\* The window is kept, and what the flow announces.
LEMMA EnqueueCrediting ==
  ASSUME NEW e \in Ends, NEW f \in FlowSet, NEW g \in FlowSet, NEW x \in Seq(Int), Enqueues(f, g, x),
         Crediting(f, Window[e]), Len(x) <= f.credit, SameMark(f, g), Seen(g) = Seen(f) + Len(x)
  PROVE  /\ Crediting(g, Window[e]) /\ Limit(e, g) = Limit(e, f) /\ Raised(g) = Raised(f)
<1>1. f.bytes \in Int /\ f.credit \in Int /\ f.pend \in Int /\ Len(x) \in Nat /\ Seen(f) \in Int /\ Raised(f) \in Int
  <2>1. f.bytes \in Int /\ f.credit \in Int /\ f.pend \in Int
    BY DEF FlowSet
  <2>2. Len(x) \in Nat
    OBVIOUS
  <2>3. Seen(f) \in Int /\ Raised(f) \in Int
    BY Counts
  <2> QED
    BY <2>1, <2>2, <2>3
<1>2. /\ g.credit = f.credit - Len(x) /\ g.bytes = f.bytes + Len(x)
      /\ g.writing = f.writing /\ g.pend = f.pend /\ g.pub = f.pub /\ g.got = f.got
  BY DEF Enqueues
<1>3. Raised(g) = Raised(f)
  BY <1>2 DEF Raised
<1>4. f.task \notin {"none", "gone"} /\ g.task \notin {"none", "gone"} /\ g.negotiated = f.negotiated /\ g.overrun = f.overrun
  BY DEF SameMark
<1>5. g.credit >= 0
  BY <1>1, <1>2
<1>6. Limit(e, g) = Limit(e, f)
  <2>1. Limit(e, g) = Seen(g) + g.credit /\ Limit(e, f) = Seen(f) + f.credit
    BY <1>4 DEF Limit
  <2> QED
    BY <1>1, <1>2, <2>1
<1>7. g.credit + g.bytes + g.pend - Raised(g) = f.credit + f.bytes + f.pend - Raised(f)
  BY <1>1, <1>2, <1>3
<1> QED
  BY <1>2, <1>3, <1>4, <1>5, <1>6, <1>7 DEF Crediting

\* DATA or CLOSE is enqueued.
LEMMA PayloadEnqueued ==
  ASSUME FInv, DInv, FInv', NEW e \in Ends, DispatchPayload(e), NEW i \in Sids, i = Arrived(e).sid,
         flow[e][i].live = TRUE, flow[e][i].fin = FALSE, flow[e][i].cancelled = FALSE,
         Fits(flow[e][i], e, Arrived(e).data)
  PROVE  DInv'
<1>1. /\ wire[Peer(e)] # <<>> /\ wire' = [wire EXCEPT ![Peer(e)] = Tail(@)]
      /\ Arrived(e).kind \in {"DATA", "CLOSE"}
  BY DEF DispatchPayload, Arrives, Arrived
<1>2. PICK f \in FlowSet : f = flow[e][i] /\ Steady(e, f) /\ Sound(f)
  BY TaskFacts
<1>3. PICK p \in Ends : p = Peer(e) /\ Peer(p) = e /\ p # e
  BY PeerFacts
<1>q. /\ wire \in [Ends -> Seq(WireRecords)] /\ wire[p] \in Seq(WireRecords)
      /\ flow \in [Ends -> [Sids -> FlowSet]]
  BY DEF FInv, Values
<1>4. PICK r \in WireRecords : r = Arrived(e) /\ r = Head(wire[p])
  BY <1>1, <1>3, <1>q DEF Arrived
<1>5. PICK x : x = r.data
  OBVIOUS
<1>6. x \in Seq(Int)
  BY <1>4, <1>5 DEF WireRecords, OutRecords, CtlRecords, RecordsOf
<1>7. PICK g : g = Enqueued(f, r)
  OBVIOUS
<1>8. flow' = [flow EXCEPT ![e][i] = g] /\ UNCHANGED <<ctl, run, out>>
  <2>1. flow' = [flow EXCEPT ![e][i] = Enqueued(f, r)] /\ UNCHANGED <<ctl, run, out>>
    <3>1. f.live /\ ~f.fin /\ ~f.cancelled /\ Fits(f, e, r.data)
      BY <1>2, <1>4
    <3> QED
      BY <1>2, <1>4, <3>1, Zenon DEF DispatchPayload
  <2> QED
    BY <1>7, <2>1, Zenon
<1>9. g \in FlowSet
  BY <1>8, NewFlowFacts
<1>10. PICK c, b, s, v : /\ c = f.credit - Len(x) /\ b = f.bytes + Len(x)
                         /\ s = (IF x = <<>> THEN f.rq ELSE Append(f.rq, x)) /\ v = (r.kind = "CLOSE")
  OBVIOUS
<1>11. g = [f EXCEPT !.credit = c, !.bytes = b, !.rq = s, !.fin = v]
  <2>1. g = [f EXCEPT !.credit = f.credit - Len(x), !.bytes = f.bytes + Len(x),
                      !.rq = IF x = <<>> THEN f.rq ELSE Append(f.rq, x), !.fin = r.kind = "CLOSE"]
    BY <1>5, <1>7 DEF Enqueued
  <2> QED
    BY <1>10, <2>1, Zenon
<1>12. f.task \notin {"none", "gone"}
  BY <1>2, Zenon DEF Sound
<1>13. SameSending(f, g) /\ SameMark(f, g)
  <2>1. SameSending(f, g)
    BY <1>11 DEF FlowSet, SameSending
  <2>2. SameMark(f, g)
    BY <1>11, <1>12 DEF FlowSet, SameMark
  <2> QED
    BY <2>1, <2>2
<1>14. /\ g.credit = c /\ g.bytes = b /\ g.rq = s /\ g.cancelled = f.cancelled /\ g.writing = f.writing
       /\ g.pend = f.pend /\ g.pub = f.pub /\ g.got = f.got
  BY <1>11 DEF FlowSet
<1>15. CASE r.kind = "CLOSE"
  <2>1. x = <<>>
    <3>1. wire[p] # <<>> /\ Bare(wire[p])
      BY <1>1, <1>3 DEF DInv, ClosesEmpty
    <3> QED
      BY <1>4, <1>5, <1>15, <1>q, <3>1, BareKept
  <2>2. f.credit \in Int /\ f.bytes \in Int /\ Len(x) = 0
    BY <2>1 DEF FlowSet
  <2>3. c = f.credit /\ b = f.bytes /\ s = f.rq
    BY <1>10, <2>1, <2>2
  <2>4. SameReceiving(f, g)
    BY <1>14, <2>3 DEF SameReceiving
  <2>5. Mild(e, f, g)
    BY <1>2, <1>9, <1>13, <2>4, MarkMild
  <2>6. Drops(e)
    BY <1>1, <1>4, <1>8, <1>15 DEF Drops
  <2>7. \A d \in Ends : CtlMild(d) /\ WireMild(d) /\ OutMild(d)
    BY <2>6, DropQueues
  <2> QED
    BY <1>2, <1>8, <2>5, <2>7, OneMild
<1>16. CASE r.kind = "DATA"
  <2>1. /\ Block(x) /\ x[1] = Seen(f) + 1 /\ LastByte(x) = Seen(f) + Len(x) /\ Awaits(f)
    <3>1. Awaits(flow[e][i])
      BY DEF Awaits
    <3> QED
      BY <1>1, <1>2, <1>4, <1>5, <1>16, <3>1, ArrivingPayload
  <2>2. x # <<>>
    <3>1. Len(x) >= 1
      BY <2>1, SMTT(30) DEF Block
    <3> QED
      BY <3>1
  <2>3. Enqueues(f, g, x)
    BY <1>2, <1>10, <1>14, <2>2 DEF Enqueues
  <2>4. Len(x) <= f.credit
    BY <1>2, <1>4, <1>5 DEF Fits, WindowFits
  <2>5. Receiving(g) /\ Seen(g) = Seen(f) + Len(x)
    BY <1>2, <1>6, <1>9, <2>1, <2>3, EnqueueReceiving DEF Steady
  <2>6. Crediting(g, Window[e]) /\ Limit(e, g) = Limit(e, f) /\ Raised(g) = Raised(f)
    BY <1>2, <1>6, <1>9, <1>13, <2>3, <2>4, <2>5, EnqueueCrediting DEF Steady
  <2>7. Sending(g) /\ Stays(f, g)
    BY <1>2, <1>9, <1>13, SendingSame DEF Steady, SameMark
  <2>8. Steady(e, g) /\ SameKind(f, g)
    BY <1>13, <1>14, <2>5, <2>6, <2>7 DEF Steady, SameKind, SameMark
  <2>9. Accepts(e, f, g, x)
    BY <1>2, <1>13, <2>5, <2>6 DEF Accepts, Awaits, SameMark
  <2>10. flow'[e][i] = g /\ flow'[p][i] = flow[p][i]
    BY <1>3, <1>q, <1>8
  <2>11. PICK w : w = wire[p] /\ w \in Seq(WireRecords) /\ w # <<>>
    BY <1>1, <1>3, <1>q
  <2>12. wire'[p] = Tail(w) /\ wire'[e] = wire[e]
    BY <1>1, <1>3, <1>q, <2>11
  <2>e. \A d \in Ends : d = e \/ d = p
    BY <1>3 DEF Ends
  <2>13. \A d \in Ends, k \in Sids : WinsSame(d, k)
    BY <1>4, <1>8, <1>16, <2>11, <2>12, <2>e DEF WinsSame, Same
  <2>14. \A d \in Ends, k \in Sids : d # p \/ k # i => PayloadsSame(d, k)
    BY <1>4, <1>8, <2>11, <2>12, <2>e DEF PayloadsSame, Same
  <2>15. Directed(e, i)'
    <3>1. Rests(e, i)
      BY <1>2, <1>8, <2>7, <2>8, RestsFrom
    <3> QED
      BY <1>3, <1>8, <2>13, <2>14, <3>1, RestDirected
  <2>16. Counted(i)' <=> Counted(i)
    BY <1>2, <1>3, <2>8, <2>10 DEF Counted, SameKind, Ends
  <2>17. PICK h \in FlowSet : h = flow[p][i] /\ Steady(p, h)
    BY TaskFacts
  <2>18. Delivered(p, i)'
    <3>1. PICK W, O, t : W = Datas(Tail(w), i) /\ O = Datas(out[p], i) /\ t = run[p]
      OBVIOUS
    <3>2. TailDatas(w, i) /\ Head(w).kind = "DATA" /\ Head(w).sid = i /\ Head(w).data = x
      BY <1>4, <1>5, <1>16, <2>11, TailPayload
    <3>3. /\ Ascending(w, i) /\ Ascending(out[p], i)
          /\ Numbered(Datas(w, i), O, h, f) /\ Gapless(t, Datas(w, i), O, h, f)
          /\ Counted(i) => Fitting(e, Datas(w, i), O, h, f)
      BY <1>2, <1>3, <2>11, <2>17, <3>1, DirectionFacts DEF Directed, Delivered
    <3>4. Datas(w, i) = W \cup {x} /\ Ascending(Tail(w), i) /\ \A y \in W : LastByte(x) < y[1]
      BY <3>1, <3>2, <3>3 DEF TailDatas
    <3>5. /\ Numbered(W \cup {x}, O, h, f) /\ Gapless(t, W \cup {x}, O, h, f)
          /\ Counted(i) => Fitting(e, W \cup {x}, O, h, f)
      BY <3>3, <3>4
    <3>6. \A y \in W \cup O : y \in Seq(Int)
      <4>1. \A y \in Datas(w, i) \cup O : y \in Seq(Int)
        BY <2>11, <3>1, DirectionFacts
      <4> QED
        BY <3>4, <4>1
    <3>7. \A y \in W : LastByte(x) < y[1]
      BY <3>4
    <3>8. /\ Numbered(W, O, h, g) /\ Gapless(t, W, O, h, g)
          /\ Fitting(e, W \cup {x}, O, h, f) => Fitting(e, W, O, h, g)
      <4>1. Numbered(W \cup {x}, O, h, f)
        BY <3>5
      <4>2. Gapless(t, W \cup {x}, O, h, f)
        BY <3>5
      <4>3. Awaits(f)
        BY <2>1
      <4>4. t \in BOOLEAN
        BY <3>1, QueuesTyped DEF FInv
      <4> QED
        BY <1>6, <1>9, <2>9, <3>6, <3>7, <4>1, <4>2, <4>3, <4>4, PayloadAccepted, Zenon
    <3>9. /\ Datas(wire'[p], i) = W /\ Ascending(wire'[p], i)
          /\ Datas(out'[p], i) = O /\ Ascending(out'[p], i) /\ run'[p] = t
      BY <1>8, <2>12, <3>1, <3>3, <3>4
    <3>10. Counted(i) => Fitting(e, W, O, h, g)
      BY <3>5, <3>8
    <3> QED
      BY <1>3, <2>10, <2>16, <2>17, <3>8, <3>9, <3>10 DEF Delivered
  <2>19. Covered(p, i)'
    <3>1. Awaits(g) /\ Awaits(f) /\ Announced(e, g) = Announced(e, f) /\ g.outValid = f.outValid
      BY <2>1, <2>6, <2>9 DEF Accepts, Announced
    <3>2. Counted(i) /\ h.live = TRUE => Allowed(e, wire[e], ctl[e], i, h, f)
      BY <1>2, <1>3, <2>17, DirectionFacts DEF Directed, Covered
    <3>3. Counted(i) /\ h.live = TRUE => Allowed(e, wire[e], ctl[e], i, h, g)
      BY <3>1, <3>2 DEF Allowed, Within
    <3> QED
      BY <1>3, <1>8, <2>10, <2>12, <2>16, <2>17, <3>3 DEF Covered
  <2>20. \A d \in Ends : Steady(d, flow'[d][i]) /\ Directed(d, i)'
    BY <2>e, <2>8, <2>10, <2>15, <2>17, <2>18, <2>19 DEF Directed
  <2>21. \A d \in Ends, k \in Sids :
           k # i => flow'[d][k] = flow[d][k] /\ PayloadsSame(d, k) /\ WinsSame(d, k)
    BY <1>q, <1>8, <2>13, <2>14
  <2>22. ModesKept
    BY <1>2, <1>8, <2>8, OneModes
  <2>23. \A d \in Ends : /\ Moves(d, ctl[d], ctl'[d]) /\ Moves(d, wire[d], wire'[d])
                         /\ Moves(d, out[d], out'[d])
    BY <1>8, <2>11, <2>12, <2>e DEF Moves
  <2> QED
    BY <1>8, <2>20, <2>21, <2>22, <2>23, OneStream, SMTT(30)
<1> QED
  BY <1>1, <1>4, <1>15, <1>16, SMTT(30)

-----------------------------------------------------------------------------
(* The steps that open a stream, and delivery.                             *)

\* A flow with its whole window, that has sent and seen nothing.
Started(e, g, t, n) ==
  /\ g \in FlowSet /\ Steady(e, g) /\ Handed(g) = 0 /\ Took(g) = 0 /\ Seen(g) = 0
  /\ g.task = t /\ g.live = TRUE /\ g.negotiated = n /\ g.outValid = TRUE
  /\ n = TRUE => g.avail = Window[Peer(e)]
  /\ Limit(e, g) = Window[e] /\ Announced(e, g) = Window[e]

\* The numbers of a new flow.
LEMMA NewFlowNumbers ==
  ASSUME NEW e \in Ends, NEW n \in BOOLEAN, NEW t \in NewTasks
  PROVE  Started(e, NewFlow(e, t, n), t, n)
<1>g. PICK g : g = NewFlow(e, t, n)
  OBVIOUS
<1>0. Peer(e) \in Ends /\ Window[e] \in Nat /\ Window[Peer(e)] \in Nat
  BY PeerFacts, ConstantsAssumption
<1>1. g \in FlowSet
  BY <1>g, NewFlowTyped, Zenon
<1>2. PICK a, w : a = (IF n THEN Window[Peer(e)] ELSE 0) /\ w = Window[e]
  OBVIOUS
<1>3. g = [NoFlow EXCEPT !.task = t, !.live = TRUE, !.negotiated = n, !.avail = a, !.credit = w]
  BY <1>g, <1>2, Zenon DEF NewFlow
<1>4. /\ g.task = t /\ g.live = TRUE /\ g.negotiated = n /\ g.avail = a /\ g.credit = w
      /\ g.outValid = TRUE /\ g.cancelled = FALSE /\ g.overrun = FALSE
  BY <1>3 DEF NoFlow
<1>5. /\ g.read = 0 /\ g.buf = <<>> /\ g.taken = <<>> /\ g.rq = <<>> /\ g.bytes = 0
      /\ g.writing = <<>> /\ g.pend = 0 /\ g.pub = "none" /\ g.got = <<>>
  BY <1>3 DEF NoFlow
<1>6. /\ Len(g.buf) = 0 /\ Len(g.taken) = 0 /\ Len(g.rq) = 0 /\ Len(g.writing) = 0 /\ Len(g.got) = 0
  BY <1>5
<1>7. /\ Handed(g) = 0 /\ Took(g) = 0 /\ Seen(g) = 0 /\ Passed(g) = 0
  <2>1. Handed(g) = 0 - 0 - 0 /\ Took(g) = 0 - 0 /\ Seen(g) = 0 + 0 /\ Passed(g) = 0 + 0
    BY <1>5, <1>6 DEF Handed, Took, Seen, Passed
  <2> QED
    BY <2>1
<1>8. a >= 0 /\ (n = TRUE => a = Window[Peer(e)])
  <2>1. a = Window[Peer(e)] \/ a = 0
    BY <1>2
  <2> QED
    BY <1>0, <1>2, <2>1
<1>9. Sending(g)
  <2>1. 1..0 = {}
    OBVIOUS
  <2> QED
    BY <1>4, <1>6, <1>7, <1>8, <2>1 DEF Sending
<1>10. Receiving(g)
  <2>1. 1..0 = {}
    OBVIOUS
  <2> QED
    BY <1>4, <1>5, <1>6, <1>7, <2>1 DEF Receiving
<1>11. Raised(g) = 0
  BY <1>5 DEF Raised
<1>12. w \in Nat /\ w = Window[e]
  BY <1>0, <1>2
<1>13. Crediting(g, Window[e])
  <2>1. g.credit + g.bytes + g.pend - Raised(g) = w + 0 + 0 - 0
    BY <1>4, <1>5, <1>11
  <2>2. g.credit + g.bytes + g.pend - Raised(g) = Window[e]
    BY <1>12, <2>1
  <2> QED
    BY <1>4, <1>5, <1>12, <2>2 DEF Crediting
<1>14. Limit(e, g) = Window[e] /\ Announced(e, g) = Window[e]
  <2>1. Limit(e, g) = Seen(g) + g.credit
    BY <1>4 DEF Limit, NewTasks
  <2>2. Limit(e, g) = 0 + w
    BY <1>4, <1>7, <2>1
  <2> QED
    BY <1>11, <1>12, <2>2 DEF Announced
<1>15. Started(e, g, t, n)
  BY <1>1, <1>4, <1>7, <1>8, <1>9, <1>10, <1>13, <1>14 DEF Steady, Started
<1> QED
  BY <1>g, <1>15, Zenon

\* The flow of a stream that is not there yet, and of one that is refused.
LEMMA NoFlowSteady ==
  ASSUME NEW e \in Ends
  PROVE  /\ Steady(e, NoFlow) /\ Awaits(NoFlow) /\ Limit(e, NoFlow) = Window[e]
         /\ Announced(e, NoFlow) = Window[e] /\ Mild(e, NoFlow, Refused)
<1>0. Window[e] \in Nat
  BY ConstantsAssumption
<1>1. PICK f, g : f = NoFlow /\ g = Refused
  OBVIOUS
<1>2. /\ f.read = 0 /\ f.buf = <<>> /\ f.taken = <<>> /\ f.rq = <<>> /\ f.bytes = 0 /\ f.avail = 0
      /\ f.writing = <<>> /\ f.pend = 0 /\ f.pub = "none" /\ f.got = <<>> /\ f.credit = 0
      /\ f.task = "none" /\ f.live = FALSE /\ f.negotiated = FALSE /\ f.outValid = TRUE
      /\ f.cancelled = FALSE /\ f.overrun = FALSE
  BY <1>1 DEF NoFlow
<1>3. /\ g.read = 0 /\ g.buf = <<>> /\ g.taken = <<>> /\ g.rq = <<>> /\ g.bytes = 0 /\ g.avail = 0
      /\ g.writing = <<>> /\ g.pend = 0 /\ g.pub = "none" /\ g.got = <<>> /\ g.credit = 0
      /\ g.task = "gone" /\ g.live = FALSE /\ g.negotiated = FALSE /\ g.outValid = TRUE
      /\ g.cancelled = FALSE /\ g.overrun = FALSE
  BY <1>1 DEF NoFlow, Refused
<1>4. Len(<<>>) = 0 /\ 1..0 = {}
  OBVIOUS
<1>5. ASSUME NEW h, h.read = 0, h.buf = <<>>, h.taken = <<>>, h.rq = <<>>, h.bytes = 0, h.avail = 0,
             h.writing = <<>>, h.pend = 0, h.pub = "none", h.got = <<>>, h.credit = 0,
             h.task \in {"none", "gone"}, h.cancelled = FALSE, h.overrun = FALSE
      PROVE  /\ Steady(e, h) /\ Handed(h) = 0 /\ Took(h) = 0 /\ Seen(h) = 0 /\ Raised(h) = 0
  <2>1. /\ Handed(h) = 0 /\ Took(h) = 0 /\ Seen(h) = 0 /\ Passed(h) = 0
    <3>1. Handed(h) = 0 - 0 - 0 /\ Took(h) = 0 - 0 /\ Seen(h) = 0 + 0 /\ Passed(h) = 0 + 0
      BY <1>4, <1>5 DEF Handed, Took, Seen, Passed
    <3> QED
      BY <3>1
  <2>2. Sending(h)
    BY <1>4, <1>5, <2>1 DEF Sending
  <2>3. Receiving(h)
    BY <1>4, <1>5, <2>1 DEF Receiving
  <2>4. Crediting(h, Window[e])
    BY <1>5 DEF Crediting
  <2>5. Raised(h) = 0
    BY <1>5 DEF Raised
  <2> QED
    BY <2>1, <2>2, <2>3, <2>4, <2>5 DEF Steady
<1>6. Steady(e, f) /\ Handed(f) = 0 /\ Took(f) = 0 /\ Seen(f) = 0 /\ Raised(f) = 0
  BY <1>2, <1>5
<1>7. Steady(e, g) /\ Handed(g) = 0 /\ Took(g) = 0 /\ Seen(g) = 0
  BY <1>3, <1>5
<1>8. Limit(e, f) = Window[e] /\ Announced(e, f) = Window[e]
  BY <1>0, <1>2, <1>6 DEF Limit, Announced
<1>9. Awaits(f) /\ ~Awaits(g)
  BY <1>2, <1>3 DEF Awaits
<1>10. Stays(f, g) /\ Follows(e, f, g)
  BY <1>2, <1>3, <1>6, <1>7, <1>9 DEF Stays, Follows
<1>11. Mild(e, f, g)
  BY <1>2, <1>3, <1>7, <1>10 DEF Mild
<1> QED
  BY <1>1, <1>6, <1>8, <1>9, <1>11

\* Nothing is under way between flows that have sent and seen nothing.
LEMMA NothingUnderWay ==
  ASSUME NEW d, NEW r, NEW f, NEW h, Handed(f) = 0, Seen(h) = 0
  PROVE  Numbered({}, {}, f, h) /\ Gapless(r, {}, {}, f, h) /\ Fitting(d, {}, {}, f, h)
  BY DEF Numbered, Gapless, Fitting, Reaches

\* A new sender's allowance is the whole window.
LEMMA WholeWindow ==
  ASSUME NEW d \in Ends, NEW i, NEW w \in Seq(WireRecords), NEW c \in Seq(WireRecords),
         \A k \in 1..Len(w) : ~Is(w, k, "WIN", i), \A k \in 1..Len(c) : ~Is(c, k, "WIN", i),
         NEW f, NEW h, Took(f) = 0, f.avail = Window[d], Awaits(h) => Announced(d, h) = Window[d]
  PROVE  Allowed(d, w, c, i, f, h)
<1>1. Window[d] \in Int /\ Took(f) + f.avail = Window[d] /\ Took(f) + Window[d] = Window[d]
  BY ConstantsAssumption
<1>2. Adds(w, i, Window[d], Window[d]) /\ Adds(c, i, Window[d], Window[d])
  BY <1>1, AddsNothing
<1>3. Within(d, f, h, Window[d])
  BY <1>1 DEF Within
<1> QED
  BY <1>1, <1>2, <1>3 DEF Allowed, Totals

\* Who has written nothing has sent no WIN.
LEMMA NoWins ==
  ASSUME FInv, DInv, NEW e \in Ends, NEW i \in Sids, flow[e][i].got = <<>>
  PROVE  /\ \A k \in 1..Len(wire[e]) : ~Is(wire[e], k, "WIN", i)
         /\ \A k \in 1..Len(ctl[e]) : ~Is(ctl[e], k, "WIN", i)
  BY DEF DInv, WinsEarned, Earned, Is

\* open_stream.
LEMMA OpenDelivers ==
  ASSUME FInv, DInv, FInv', OpenStream
  PROVE  DInv'
<1>0. "c" \in Ends /\ "s" \in Ends /\ Peer("c") = "s" /\ Peer("s") = "c"
  BY DEF Ends, Peer
<1>q. flow \in [Ends -> [Sids -> FlowSet]]
  BY DEF FInv, Values
<1>1. nextSid \in Sids /\ UNCHANGED <<run, out, ctl, wire>>
  BY DEF OpenStream
<1>2. PICK i \in Sids : i = nextSid
  BY <1>1
<1>3. flow["c"][i].task = "none" /\ flow["s"][i].task = "none"
  <2>1. i \in Nat
    BY ConstantsAssumption
  <2>2. flow["c"][i].task = "none"
    BY <1>2, <2>1 DEF FInv, FlowsSound
  <2> QED
    BY <2>2 DEF FInv, OpenOnce, Unopened
<1>4. flow["c"][i] = NoFlow /\ flow["s"][i] = NoFlow
  BY <1>0, <1>3, FlowFacts DEF Sound
<1>5. PICK n \in BOOLEAN : n = (neg["c"] = "credit")
  OBVIOUS
<1>6. PICK g : g = IF CanAllocate("c") THEN NewFlow("c", "opening", n) ELSE Refused
  OBVIOUS
<1>7. flow' = [flow EXCEPT !["c"][i] = g]
  <2>1. flow' = [flow EXCEPT !["c"][i] = IF CanAllocate("c")
                   THEN NewFlow("c", "opening", neg["c"] = "credit")
                   ELSE [flow["c"][i] EXCEPT !.task = "gone"]]
    BY <1>2, Zenon DEF OpenStream
  <2> QED
    BY <1>4, <1>5, <1>6, <2>1, Zenon DEF Refused
<1>8. CASE ~CanAllocate("c")
  <2>1. g = Refused
    BY <1>6, <1>8, Zenon
  <2>2. Mild("c", flow["c"][i], g)
    BY <1>0, <1>4, <2>1, NoFlowSteady
  <2> QED
    BY <1>0, <1>1, <1>7, <2>2, TaskMild
<1>9. CASE CanAllocate("c")
  <2>1. g = NewFlow("c", "opening", n) /\ "opening" \in NewTasks
    BY <1>6, <1>9, Zenon DEF NewTasks
  <2>2. /\ g \in FlowSet /\ Steady("c", g) /\ Handed(g) = 0 /\ Took(g) = 0 /\ Seen(g) = 0
        /\ g.task = "opening" /\ g.live = TRUE /\ g.negotiated = n /\ g.outValid = TRUE
        /\ n = TRUE => g.avail = Window["s"]
    <3>1. Started("c", NewFlow("c", "opening", n), "opening", n)
      BY <1>0, <2>1, NewFlowNumbers, Zenon
    <3>2. Started("c", g, "opening", n)
      BY <2>1, <3>1, Zenon
    <3> QED
      BY <1>0, <3>2 DEF Started
  <2>3. flow'["c"][i] = g /\ flow'["s"][i] = NoFlow
    BY <1>0, <1>q, <1>4, <1>7
  <2>4. /\ Datas(wire["c"], i) = {} /\ Datas(out["c"], i) = {}
        /\ Datas(wire["s"], i) = {} /\ Datas(out["s"], i) = {}
    BY <1>0, <1>3, NothingSent
  <2>5. /\ Handed(NoFlow) = 0 /\ Seen(NoFlow) = 0 /\ NoFlow.live = FALSE /\ NoFlow.got = <<>>
        /\ NoFlow.task = "none"
    BY NoFlowNumbers DEF NoFlow
  <2>6. /\ Ascending(wire["c"], i) /\ Ascending(out["c"], i)
        /\ Ascending(wire["s"], i) /\ Ascending(out["s"], i)
    BY <1>0, DirectionFacts DEF Directed, Delivered
  <2>7. Delivered("c", i)'
    <3>1. /\ Numbered({}, {}, g, NoFlow) /\ Gapless(run["c"], {}, {}, g, NoFlow)
          /\ Fitting("s", {}, {}, g, NoFlow)
      BY <2>2, <2>5, NothingUnderWay
    <3> QED
      BY <1>0, <1>1, <2>3, <2>4, <2>6, <3>1 DEF Delivered
  <2>8. Delivered("s", i)'
    <3>1. /\ Numbered({}, {}, NoFlow, g) /\ Gapless(run["s"], {}, {}, NoFlow, g)
          /\ Fitting("c", {}, {}, NoFlow, g)
      BY <2>2, <2>5, NothingUnderWay
    <3> QED
      BY <1>0, <1>1, <2>3, <2>4, <2>6, <3>1 DEF Delivered
  <2>9. Covered("s", i)'
    BY <1>0, <2>3, <2>5 DEF Covered
  <2>10. Covered("c", i)'
    <3>1. ASSUME n = TRUE PROVE Allowed("s", wire["s"], ctl["s"], i, g, NoFlow)
      <4>1. PICK w, c : w = wire["s"] /\ c = ctl["s"]
        OBVIOUS
      <4>2. /\ w \in Seq(WireRecords) /\ c \in Seq(WireRecords)
            /\ \A k \in 1..Len(w) : ~Is(w, k, "WIN", i)
            /\ \A k \in 1..Len(c) : ~Is(c, k, "WIN", i)
        BY <1>0, <1>4, <2>5, <4>1, NoWins, QueuesTyped DEF FInv
      <4>3. Took(g) = 0 /\ g.avail = Window["s"] /\ Announced("s", NoFlow) = Window["s"]
        BY <1>0, <2>2, <3>1, NoFlowSteady
      <4>4. Allowed("s", w, c, i, g, NoFlow)
        BY <1>0, <4>2, <4>3, WholeWindow
      <4> QED
        BY <4>1, <4>4
    <3> QED
      BY <1>0, <1>1, <2>2, <2>3, <3>1 DEF Covered, Counted
  <2>11. \A d \in Ends : Steady(d, flow'[d][i]) /\ Directed(d, i)'
    <3>1. \A d \in Ends : d = "c" \/ d = "s"
      BY DEF Ends
    <3> QED
      BY <1>0, <2>2, <2>3, <2>7, <2>8, <2>9, <2>10, <3>1, NoFlowSteady DEF Directed
  <2>12. \A d \in Ends, k \in Sids :
           k # i => flow'[d][k] = flow[d][k] /\ PayloadsSame(d, k) /\ WinsSame(d, k)
    BY <1>q, <1>1, <1>7 DEF PayloadsSame, WinsSame, Same
  <2>13. ModesKept
    <3>1. \A d \in Ends, k \in Sids : ~(d = "c" /\ k = i) => flow'[d][k] = flow[d][k]
      BY <1>q, <1>7
    <3>2. \A d \in Ends, k \in Sids : flow[d][k].got # <<>> => flow'[d][k].got # <<>>
      BY <1>4, <2>5, <3>1
    <3>3. \A k \in Sids : flow["c"][k].task # "none" => flow'["c"][k].negotiated = flow["c"][k].negotiated
      BY <1>0, <1>3, <3>1
    <3>4. ASSUME NEW k \in Sids, flow'["s"][k].task \notin {"none", "gone"}
          PROVE  flow'["s"][k].negotiated = flow'["c"][k].negotiated
      <4>1. k # i
        BY <2>3, <2>5, <3>4
      <4>2. flow'["s"][k] = flow["s"][k] /\ flow'["c"][k] = flow["c"][k]
        BY <1>0, <3>1, <4>1
      <4> QED
        BY <3>4, <4>2 DEF DInv, SameMode
    <3> QED
      BY <3>2, <3>3, <3>4 DEF ModesKept
  <2>14. \A d \in Ends : /\ Moves(d, ctl[d], ctl'[d]) /\ Moves(d, wire[d], wire'[d])
                         /\ Moves(d, out[d], out'[d])
    BY <1>1 DEF Moves
  <2> QED
    BY <1>1, <2>11, <2>12, <2>13, <2>14, OneStream
<1> QED
  BY <1>8, <1>9

\* A client's flow for a stream of which nothing has come back holds its whole
\* window.
LEMMA NothingReceived ==
  ASSUME NEW e \in Ends, NEW f \in FlowSet, Sound(f), Steady(e, f), f.task # "none", Seen(f) <= 0
  PROVE  Seen(f) = 0 /\ f.got = <<>> /\ (Awaits(f) => Announced(e, f) = Window[e])
<1>1. f.got \in Seq(Int) /\ f.writing \in Seq(Int) /\ f.bytes \in Int /\ f.pend \in Int /\ f.credit \in Int
  BY DEF FlowSet
<1>2. Len(f.got) \in Nat /\ Len(f.writing) \in Nat /\ Window[e] \in Nat
  BY <1>1, ConstantsAssumption, SMTT(30)
<1>3. f.bytes >= Len(f.writing) /\ Seen(f) = Len(f.got) + f.bytes
  BY DEF Steady, Receiving, Seen
<1>4. f.bytes = 0 /\ Len(f.got) = 0 /\ Seen(f) = 0
  BY <1>1, <1>2, <1>3
<1>5. f.got = <<>>
  BY <1>1, <1>4
<1>6. f.pend = 0
  BY <1>5 DEF Steady, Crediting
<1>7. Raised(f) = 0
  BY <1>6 DEF Raised
<1>8. ASSUME Awaits(f) PROVE Announced(e, f) = Window[e]
  <2>1. f.task \notin {"none", "gone"}
    BY <1>8, Zenon DEF Sound, Awaits
  <2>2. f.credit + f.bytes + f.pend - Raised(f) = Window[e]
    BY <2>1 DEF Steady, Crediting
  <2>3. f.credit = Window[e]
    BY <1>1, <1>2, <1>4, <1>6, <1>7, <2>2
  <2>4. Limit(e, f) = Seen(f) + f.credit
    BY <2>1 DEF Limit
  <2>5. Limit(e, f) = f.credit
    BY <1>1, <1>4, <2>4
  <2> QED
    BY <1>1, <1>7, <2>3, <2>5 DEF Announced
<1> QED
  BY <1>4, <1>5, <1>8

\* OPEN.
LEMMA OpenArrives ==
  ASSUME FInv, DInv, FInv', DispatchOpen
  PROVE  DInv'
<1>0. "c" \in Ends /\ "s" \in Ends /\ Peer("c") = "s" /\ Peer("s") = "c"
  BY DEF Ends, Peer
<1>q. /\ wire \in [Ends -> Seq(WireRecords)] /\ flow \in [Ends -> [Sids -> FlowSet]]
  BY DEF FInv, Values
<1>1. /\ wire["c"] # <<>> /\ wire' = [wire EXCEPT !["c"] = Tail(@)] /\ Arrived("s").kind = "OPEN"
  BY <1>0 DEF DispatchOpen, Arrives, Arrived
<1>2. PICK w \in Seq(WireRecords) : w = wire["c"] /\ w # <<>>
  BY <1>0, <1>q, <1>1
<1>3. PICK r \in WireRecords : r = Arrived("s") /\ r = Head(w)
  BY <1>0, <1>2 DEF Arrived
<1>4. r.kind = "OPEN" /\ r.sid \in Sids /\ r.credit \in BOOLEAN
  <2>1. r.kind = "OPEN"
    BY <1>1, <1>3
  <2>2. r.credit \in BOOLEAN
    BY DEF WireRecords, OutRecords, CtlRecords, RecordsOf
  <2> QED
    BY <2>1, <2>2, SidOfReset
<1>5. PICK i \in Sids, n \in BOOLEAN : i = r.sid /\ n = r.credit
  BY <1>4
<1>6. Holds(w, "OPEN", i)
  <2>1. 1 \in 1..Len(w) /\ w[1] = r
    BY <1>2, <1>3
  <2> QED
    BY <1>4, <1>5, <2>1 DEF Holds, Is
<1>7. Unopened(i) /\ flow["c"][i].task \notin {"none", "opening"}
  BY <1>2, <1>6 DEF FInv, OpenOnce
<1>8. flow["s"][i].task = "none" /\ flow["s"][i] = NoFlow
  BY <1>0, <1>7, FlowFacts DEF Sound, Unopened
<1>9. n = flow["c"][i].negotiated
  <2>1. OpensTell(w, flow["c"])
    BY <1>2 DEF DInv, SameMode
  <2> QED
    BY <1>2, <1>3, <1>4, <1>5, <2>1, TellsKept
<1> DEFINE ok == (r.credit => neg["s"] = "credit") /\ CanAllocate("s")
<1>10. CASE ~ok
  <2>1. /\ flow' = [flow EXCEPT !["s"][r.sid].task = "gone"]
        /\ ReaderControl("s", RstRecord(r.sid, FALSE))
    BY <1>3, <1>10, Zenon DEF DispatchOpen
  <2>2. PICK g : g = [flow["s"][i] EXCEPT !.task = "gone"] /\ g = Refused
    BY <1>8 DEF Refused
  <2>3. flow' = [flow EXCEPT !["s"][i] = g]
    BY <1>5, <2>1, <2>2
  <2>4. Mild("s", flow["s"][i], g)
    BY <1>0, <1>8, <2>2, NoFlowSteady
  <2>5. \E d \in CtlRecords : ReaderControl("s", d) /\ d.kind # "WIN"
    <3>1. RstRecord(i, FALSE) \in CtlRecords /\ RstRecord(i, FALSE).kind = "RST"
      BY RstTyped
    <3>2. ReaderControl("s", RstRecord(i, FALSE))
      BY <1>5, <2>1
    <3> QED
      BY <3>1, <3>2
  <2>6. Drops("s")
    BY <1>0, <1>1, <2>5 DEF Drops
  <2>7. \A d \in Ends : CtlMild(d) /\ WireMild(d) /\ OutMild(d)
    BY <1>0, <2>6, DropQueues
  <2> QED
    BY <1>0, <2>3, <2>4, <2>7, OneMild
<1>11. CASE ok
  <2>0. /\ flow' = [flow EXCEPT !["s"][r.sid] = NewFlow("s", "connecting", r.credit)]
        /\ UNCHANGED <<ctl, run, out>>
    BY <1>3, <1>11, Zenon DEF DispatchOpen
  <2>1. PICK g : g = NewFlow("s", "connecting", n)
    OBVIOUS
  <2>2. flow' = [flow EXCEPT !["s"][i] = g]
    BY <1>5, <2>0, <2>1, Zenon
  <2>3. /\ g \in FlowSet /\ Steady("s", g) /\ Handed(g) = 0 /\ Took(g) = 0 /\ Seen(g) = 0
        /\ g.task = "connecting" /\ g.live = TRUE /\ g.negotiated = n /\ g.outValid = TRUE
        /\ n = TRUE => g.avail = Window["c"]
        /\ Limit("s", g) = Window["s"] /\ Announced("s", g) = Window["s"]
    <3>0. "connecting" \in NewTasks
      BY DEF NewTasks
    <3>1. Started("s", NewFlow("s", "connecting", n), "connecting", n)
      BY <1>0, <3>0, NewFlowNumbers, Zenon
    <3>2. Started("s", g, "connecting", n)
      BY <2>1, <3>1, Zenon
    <3> QED
      BY <1>0, <3>2 DEF Started
  <2>4. PICK f \in FlowSet : f = flow["c"][i] /\ Sound(f) /\ Steady("c", f)
    BY <1>0, TaskFacts
  <2>5. flow'["s"][i] = g /\ flow'["c"][i] = f
    BY <1>0, <1>q, <2>2, <2>4
  <2>6. wire'["c"] = Tail(w) /\ wire'["s"] = wire["s"]
    BY <1>0, <1>q, <1>1, <1>2
  <2>7. /\ Datas(wire["s"], i) = {} /\ Datas(out["s"], i) = {} /\ Seen(f) <= 0
    BY <1>0, <1>8, <2>4, NothingSent
  <2>8. Seen(f) = 0 /\ f.got = <<>> /\ (Awaits(f) => Announced("c", f) = Window["c"])
    BY <1>0, <1>7, <2>4, <2>7, NothingReceived
  <2>9. Ascending(wire["s"], i) /\ Ascending(out["s"], i)
    BY <1>0, DirectionFacts DEF Directed, Delivered
  <2>10. \A d \in Ends, k \in Sids : PayloadsSame(d, k) /\ WinsSame(d, k)
    <3>1. \A d \in Ends : d = "c" \/ d = "s"
      BY DEF Ends
    <3> QED
      BY <1>2, <1>3, <1>4, <2>0, <2>6, <3>1 DEF PayloadsSame, WinsSame, Same
  <2>11. Directed("c", i)'
    <3>1. Awaits(g)
      BY <2>3 DEF Awaits
    <3>2. /\ Seen(NoFlow) = 0 /\ NoFlow.outValid = TRUE /\ Awaits(NoFlow)
          /\ Limit("s", NoFlow) = Window["s"] /\ Announced("s", NoFlow) = Window["s"]
      BY <1>0, NoFlowNumbers, NoFlowSteady
    <3>3. Follows("s", NoFlow, g)
      BY <1>0, <2>3, <3>1, <3>2, ConstantsAssumption DEF Follows
    <3>4. Stays(f, f)
      BY <1>0, <2>4, SameMild DEF Mild
    <3>5. Rests("c", i)
      BY <1>0, <1>8, <2>3, <2>4, <2>5, <3>3, <3>4 DEF Rests
    <3> QED
      BY <1>0, <2>0, <2>10, <3>5, RestDirected
  <2>12. Delivered("s", i)'
    <3>1. /\ Numbered({}, {}, g, f) /\ Gapless(run["s"], {}, {}, g, f) /\ Fitting("c", {}, {}, g, f)
      BY <2>3, <2>8, NothingUnderWay
    <3> QED
      BY <1>0, <2>0, <2>5, <2>6, <2>7, <2>9, <3>1 DEF Delivered
  <2>13. Covered("s", i)'
    <3>1. ASSUME n = TRUE PROVE Allowed("c", Tail(w), ctl["c"], i, g, f)
      <4>1. PICK c : c = ctl["c"]
        OBVIOUS
      <4>2. PICK t : t = Tail(w)
        OBVIOUS
      <4>3. /\ c \in Seq(WireRecords) /\ t \in Seq(WireRecords)
            /\ \A k \in 1..Len(w) : ~Is(w, k, "WIN", i)
            /\ \A k \in 1..Len(c) : ~Is(c, k, "WIN", i)
        <5>1. c \in Seq(WireRecords)
          BY <1>0, <4>1, QueuesTyped DEF FInv
        <5>2. t \in Seq(WireRecords)
          BY <1>2, <4>2
        <5>3. flow["c"][i].got = <<>>
          BY <2>4, <2>8
        <5>4. /\ \A k \in 1..Len(wire["c"]) : ~Is(wire["c"], k, "WIN", i)
              /\ \A k \in 1..Len(ctl["c"]) : ~Is(ctl["c"], k, "WIN", i)
          BY <1>0, <5>3, NoWins
        <5> QED
          BY <1>2, <4>1, <5>1, <5>2, <5>4
      <4>4. \A k \in 1..Len(t) : ~Is(t, k, "WIN", i)
        <5>1. \A k \in 1..Len(t) : k + 1 \in 1..Len(w) /\ t[k] = w[k + 1]
          BY <1>2, <4>2
        <5> QED
          BY <4>3, <5>1 DEF Is
      <4>5. Took(g) = 0 /\ g.avail = Window["c"]
        BY <2>3, <3>1
      <4>6. Allowed("c", t, c, i, g, f)
        BY <1>0, <2>8, <4>3, <4>4, <4>5, WholeWindow
      <4> QED
        BY <4>1, <4>2, <4>6
    <3> QED
      BY <1>0, <1>9, <2>0, <2>4, <2>5, <2>6, <3>1 DEF Covered, Counted
  <2>14. \A d \in Ends : Steady(d, flow'[d][i]) /\ Directed(d, i)'
    <3>1. \A d \in Ends : d = "c" \/ d = "s"
      BY DEF Ends
    <3> QED
      BY <2>3, <2>4, <2>5, <2>11, <2>12, <2>13, <3>1 DEF Directed
  <2>15. \A d \in Ends, k \in Sids : ~(d = "s" /\ k = i) => flow'[d][k] = flow[d][k]
    BY <1>q, <2>2
  <2>16. ModesKept
    <3>1. \A d \in Ends, k \in Sids : flow[d][k].got # <<>> => flow'[d][k].got # <<>>
      BY <1>8, <2>15, NoFlowNumbers
    <3>2. \A k \in Sids : flow'["c"][k] = flow["c"][k]
      BY <1>0, <2>15
    <3>3. ASSUME NEW k \in Sids, flow'["s"][k].task \notin {"none", "gone"}
          PROVE  flow'["s"][k].negotiated = flow'["c"][k].negotiated
      <4>1. CASE k = i
        BY <1>9, <2>3, <2>4, <2>5, <4>1
      <4>2. CASE k # i
        <5>1. flow'["s"][k] = flow["s"][k]
          BY <1>0, <2>15, <4>2
        <5> QED
          BY <3>2, <3>3, <5>1 DEF DInv, SameMode
      <4> QED
        BY <4>1, <4>2
    <3> QED
      BY <3>1, <3>2, <3>3 DEF ModesKept
  <2>17. \A d \in Ends : /\ Moves(d, ctl[d], ctl'[d]) /\ Moves(d, wire[d], wire'[d])
                         /\ Moves(d, out[d], out'[d])
    <3>1. \A d \in Ends : d = "c" \/ d = "s"
      BY DEF Ends
    <3> QED
      BY <1>2, <2>0, <2>6, <3>1 DEF Moves
  <2>18. \A d \in Ends, k \in Sids :
           k # i => flow'[d][k] = flow[d][k] /\ PayloadsSame(d, k) /\ WinsSame(d, k)
    BY <2>10, <2>15
  <2> QED
    BY <2>0, <2>14, <2>16, <2>17, <2>18, OneStream
<1> QED
  BY <1>10, <1>11

\* DATA and CLOSE.
LEMMA PayloadDelivers ==
  ASSUME FInv, DInv, FInv', NEW e \in Ends, DispatchPayload(e)
  PROVE  DInv'
<1>1. wire[Peer(e)] # <<>> /\ Arrived(e).kind # "CAP"
  BY DEF DispatchPayload, Arrives, Arrived
<1>2. PICK i \in Sids : i = Arrived(e).sid
  BY <1>1, ArrivedTyped
<1> DEFINE takes == /\ flow[e][i].live = TRUE /\ flow[e][i].fin = FALSE
                    /\ flow[e][i].cancelled = FALSE /\ Fits(flow[e][i], e, Arrived(e).data)
<1>3. CASE takes
  BY <1>2, <1>3, PayloadEnqueued
<1>4. CASE ~takes
  BY <1>2, <1>4, PayloadDropped
<1> QED
  BY <1>3, <1>4

\* Nothing is under way at the start.
LEMMA InitDInv == Init => DInv
<1> SUFFICES ASSUME Init PROVE DInv
  OBVIOUS
<1>0. "c" \in Ends /\ "s" \in Ends
  BY DEF Ends
<1>1. \A e \in Ends, i \in Sids : flow[e][i] = NoFlow
  BY DEF Init
<1>2. /\ \A e \in Ends : out[e] = <<>> /\ wire[e] = <<>>
      /\ \A e \in Ends : ctl[e] = <<>> \/ ctl[e] = <<CapRecord("c")>>
  BY DEF Init
<1>3. CapRecord("c").kind = "CAP"
  BY DEF CapRecord, Record
<1>4. /\ Handed(NoFlow) = 0 /\ Seen(NoFlow) = 0 /\ NoFlow.live = FALSE /\ NoFlow.task = "none"
  BY NoFlowNumbers DEF NoFlow
<1>5. \A e \in Ends, i \in Sids : Steady(e, flow[e][i])
  BY <1>1, NoFlowSteady
<1>6. ASSUME NEW e \in Ends, NEW i \in Sids PROVE Directed(e, i)
  <2>1. Peer(e) \in Ends
    BY PeerFacts
  <2>2. /\ Datas(wire[e], i) = {} /\ Datas(out[e], i) = {}
        /\ Ascending(wire[e], i) /\ Ascending(out[e], i)
    BY <1>2, EmptyPayload
  <2>3. /\ Numbered({}, {}, NoFlow, NoFlow) /\ Gapless(run[e], {}, {}, NoFlow, NoFlow)
        /\ Fitting(Peer(e), {}, {}, NoFlow, NoFlow)
    BY <1>4, NothingUnderWay
  <2>4. Delivered(e, i)
    BY <1>1, <2>1, <2>2, <2>3 DEF Delivered
  <2>5. Covered(e, i)
    BY <1>1, <1>4 DEF Covered
  <2> QED
    BY <2>4, <2>5 DEF Directed
<1>7. WinsEarned
  BY <1>2, <1>3 DEF WinsEarned, Earned
<1>8. SameMode
  BY <1>0, <1>1, <1>2, <1>4 DEF SameMode, OpensTell
<1>9. ClosesEmpty
  BY <1>2 DEF ClosesEmpty, Bare
<1> QED
  BY <1>5, <1>6, <1>7, <1>8, <1>9 DEF DInv

\* Every step keeps delivery.
LEMMA NextDInv == FInv /\ DInv /\ [Next]_vars => DInv'
<1> SUFFICES ASSUME FInv, DInv, [Next]_vars PROVE DInv'
  OBVIOUS
<1>f. FInv'
  BY NextFInv
<1>0. "c" \in Ends /\ "s" \in Ends
  BY DEF Ends
<1>1. CASE NegotiationDeadline
  <2>1. UNCHANGED <<run, flow, out, ctl, wire>>
    BY <1>1 DEF NegotiationDeadline
  <2> QED
    BY <1>f, <2>1, QuietDelivers
<1>2. CASE OpenStream
  BY <1>f, <1>2, OpenDelivers
<1>3. ASSUME NEW i \in Sids, SendOpen(i) \/ AbortOpen(i) \/ Connected(i) \/ ConnectFailed(i)
      PROVE  DInv'
  <2>1. CASE SendOpen(i)
    BY <1>f, <1>0, <2>1, MarkSendDelivers
  <2>2. CASE AbortOpen(i) \/ ConnectFailed(i)
    BY <1>f, <1>0, <2>2, EndsDeliver
  <2>3. CASE Connected(i)
    BY <1>f, <1>0, <2>3, MarkDelivers
  <2> QED
    BY <1>3, <2>1, <2>2, <2>3
<1>4. ASSUME NEW e \in Ends, NEW i \in Sids,
             \/ \E n \in 1..MaxChunk : ReadSocket(e, i, n)
             \/ ReadEof(e, i)
             \/ Uplink(e, i)
             \/ Downlink(e, i)
             \/ Written(e, i)
             \/ PumpError(e, i)
             \/ TaskEnds(e, i)
      PROVE  DInv'
  <2>1. CASE \E n \in 1..MaxChunk : ReadSocket(e, i, n)
    BY <1>f, <2>1, ReadDelivers
  <2>2. CASE ReadEof(e, i) \/ ReceiveFin(e, i) \/ PumpError(e, i)
    BY <1>f, <2>2, MarkDelivers
  <2>3. CASE TakeCredit(e, i)
    BY <1>f, <2>3, TakeDelivers
  <2>4. CASE SendData(e, i)
    BY <1>f, <2>4, DataDelivers
  <2>5. CASE SendClose(e, i)
    BY <1>f, <2>5, MarkSendDelivers
  <2>6. CASE Receive(e, i)
    BY <1>f, <2>6, ReceiveDelivers
  <2>7. CASE Written(e, i)
    BY <1>f, <2>7, WrittenDelivers
  <2>8. CASE RaiseCredit(e, i)
    BY <1>f, <2>8, RaiseDelivers
  <2>9. CASE PublishWin(e, i)
    BY <1>f, <2>9, PublishDelivers
  <2>10. CASE BridgeFailed(e, i) \/ BridgeDone(e, i) \/ TaskCancelled(e, i)
    BY <1>f, <2>10, EndsDeliver
  <2> QED
    BY <1>4, <2>1, <2>2, <2>3, <2>4, <2>5, <2>6, <2>7, <2>8, <2>9, <2>10
       DEF Uplink, Downlink, TaskEnds
<1>5. ASSUME NEW e \in Ends,
             WriteControl(e) \/ WriteOutput(e) \/ Dispatch(e) \/ RunEnds(e) \/ ShutdownDrain(e)
      PROVE  DInv'
  <2>1. CASE WriteControl(e)
    BY <1>f, <2>1, ControlDelivers
  <2>2. CASE WriteOutput(e)
    BY <1>f, <2>2, OutputDelivers
  <2>3. CASE DispatchCap(e)
    BY <1>f, <2>3, CapDelivers
  <2>4. CASE DispatchOpen
    BY <1>f, <2>4, OpenArrives
  <2>5. CASE DispatchPayload(e)
    BY <1>f, <2>5, PayloadDelivers
  <2>6. CASE DispatchRst(e)
    BY <1>f, <2>6, RstDelivers
  <2>7. CASE DispatchWin(e)
    BY <1>f, <2>7, WinDelivers
  <2>8. CASE RunEnds(e)
    BY <1>f, <2>8, RunEndsDelivers
  <2>9. CASE ShutdownDrain(e)
    BY <1>f, <2>9, DrainDelivers
  <2> QED
    BY <1>5, <2>1, <2>2, <2>3, <2>4, <2>5, <2>6, <2>7, <2>8, <2>9 DEF Dispatch
<1>6. CASE UNCHANGED vars
  <2>1. UNCHANGED <<run, flow, out, ctl, wire>>
    BY <1>6 DEF vars
  <2> QED
    BY <1>f, <2>1, QuietDelivers
<1> QED
  BY <1>1, <1>2, <1>3, <1>4, <1>5, <1>6 DEF Next

\* What is under way between two ends is numbered without a gap, fits the window
\* of the receiver and is covered by the credit it announced, in every reachable
\* state (tcp_mux_flow.rs: take_credit, enqueue, consumed, publish_credit).
THEOREM DeliveryInvariant == Spec => []DInv
<1>1. Init => FInv /\ DInv
  BY InitFInv, InitDInv
<1>2. FInv /\ DInv /\ [Next]_vars => (FInv /\ DInv)'
  BY NextFInv, NextDInv
<1> QED
  BY <1>1, <1>2, PTL DEF Spec

\* What is written is a prefix of what the peer's application sent.
LEMMA DeliveredInOrder ==
  ASSUME FInv, DInv
  PROVE  InOrderDelivery
<1> SUFFICES ASSUME NEW e \in Ends, NEW i \in Sids
             PROVE  /\ \A k \in DOMAIN flow[e][i].got : flow[e][i].got[k] = k
                    /\ Len(flow[e][i].got) <= flow[Peer(e)][i].read
  BY DEF InOrderDelivery
<1>1. PICK p \in Ends : p = Peer(e) /\ Peer(p) = e
  BY PeerFacts
<1>2. PICK h \in FlowSet : h = flow[e][i] /\ Steady(e, h)
  BY TaskFacts
<1>3. PICK f \in FlowSet : f = flow[p][i]
  BY TaskFacts
<1>4. Seen(h) <= Handed(f)
  BY <1>1, <1>2, <1>3, DirectionFacts DEF Directed, Delivered, Numbered
<1>5. /\ h.got \in Seq(Int) /\ h.writing \in Seq(Int) /\ h.bytes \in Int
      /\ f.buf \in Seq(Int) /\ f.taken \in Seq(Int) /\ f.read \in Int
  BY DEF FlowSet
<1>6. /\ Len(h.got) \in Nat /\ Len(h.writing) \in Nat /\ Len(f.buf) \in Nat /\ Len(f.taken) \in Nat
      /\ DOMAIN h.got = 1..Len(h.got)
  BY <1>5
<1>7. /\ \A k \in 1..Len(h.got) : h.got[k] = k
      /\ h.bytes >= Len(h.writing)
  BY <1>2 DEF Steady, Receiving
<1>8. Seen(h) = Len(h.got) + h.bytes /\ Handed(f) = f.read - Len(f.buf) - Len(f.taken)
  BY DEF Seen, Handed
<1>9. Len(h.got) <= f.read
  BY <1>4, <1>5, <1>6, <1>7, <1>8, SMTT(30)
<1> QED
  BY <1>1, <1>2, <1>3, <1>6, <1>7, <1>9

\* The two ends agree on the mode, and no negotiated window is overrun.
LEMMA ModesAgree ==
  ASSUME FInv, DInv
  PROVE  ModeAgreement /\ NeverOverrun
<1>0. "c" \in Ends /\ "s" \in Ends
  BY DEF Ends
<1>1. ASSUME NEW i \in Sids, Exists("s", i)
      PROVE  flow["c"][i].negotiated = flow["s"][i].negotiated
  <2>1. PICK f \in FlowSet : f = flow["s"][i] /\ Sound(f)
    BY <1>0, TaskFacts
  <2>2. f.live \in BOOLEAN
    BY DEF FlowSet
  <2>3. f.task \notin {"none", "gone"}
    BY <1>1, <2>1, <2>2, Zenon DEF Exists, Sound
  <2> QED
    BY <2>1, <2>3 DEF DInv, SameMode
<1>2. ASSUME NEW e \in Ends, NEW i \in Sids, flow[e][i].overrun
      PROVE  ~flow[e][i].negotiated
  <2>1. PICK f \in FlowSet : f = flow[e][i] /\ Steady(e, f)
    BY TaskFacts
  <2>2. f.overrun \in BOOLEAN /\ f.overrun = TRUE
    BY <1>2, <2>1 DEF FlowSet
  <2>3. f.negotiated = FALSE
    BY <2>1, <2>2 DEF Steady, Crediting
  <2> QED
    BY <2>1, <2>3
<1> QED
  BY <1>1, <1>2 DEF ModeAgreement, NeverOverrun

-----------------------------------------------------------------------------
(* The FIN.                                                                *)

\* Firm steps of both flows keep what is known of the FIN.
LEMMA FirmEnding ==
  ASSUME NEW w, NEW w2, NEW o, NEW o2, NEW i, NEW f, NEW g, NEW h, NEW k,
         Firm(f, g), Firm(h, k), Lessens(w, w2, o, o2, i, k), Ending(w, o, i, f, h)
  PROVE  Ending(w2, o2, i, g, k)
<1>1. Holds(w2, "CLOSE", i) \/ Holds(o2, "CLOSE", i) =>
        f.up = "done" /\ g.up = "done" /\ Handed(g) = Handed(f)
  BY DEF Firm, Lessens, Ending
<1>2. Holds(w2, "CLOSE", i) => Datas(o2, i) = {}
  BY DEF Lessens, Ending
<1>3. Holds(w2, "CLOSE", i) /\ Awaits(k) => Reaches(Handed(g), Seen(k), Datas(w2, i))
  BY <1>1 DEF Firm, Lessens, Ending
<1>4. Holds(o2, "CLOSE", i) /\ Awaits(k) /\ g.outValid = TRUE =>
        Reaches(Handed(g), Seen(k), Datas(w2, i) \cup Datas(o2, i))
  BY <1>1 DEF Firm, Lessens, Ending
<1>5. k.live = TRUE /\ k.fin = TRUE => g.up = "done" /\ Seen(k) = Handed(g)
  <2>1. k.live = TRUE => Awaits(k)
    BY DEF Awaits
  <2> QED
    BY <2>1 DEF Firm, Ending
<1>6. k.live = TRUE /\ k.down = "done" => k.bytes = 0
  BY DEF Firm, Ending
<1> QED
  BY <1>1, <1>2, <1>3, <1>4, <1>5, <1>6 DEF Ending

\* A flow that stays as it is.
LEMMA SameFirm ==
  ASSUME NEW f
  PROVE  Firm(f, f)
  BY DEF Firm

\* No payload of stream i is in a queue without DATA of it.
LEMMA NoDatas ==
  ASSUME NEW q, NEW i
  PROVE  Datas(q, i) = {} <=> ~Holds(q, "DATA", i)
  BY DEF Datas, Holds

\* The queue gets or loses a record that is neither DATA nor CLOSE of stream i.
LEMMA QueueLessens ==
  ASSUME NEW q \in Seq(WireRecords), NEW p, NEW i
  PROVE  /\ Same(q, p, "DATA", i) => Datas(p, i) = Datas(q, i)
         /\ Same(q, p, "CLOSE", i) /\ Holds(p, "CLOSE", i) => Holds(q, "CLOSE", i)
         /\ q # <<>> /\ p = Tail(q) /\ Holds(p, "CLOSE", i) => Holds(q, "CLOSE", i)
<1>1. Same(q, p, "DATA", i) => Datas(p, i) = Datas(q, i)
  BY SameDatas
<1>2. q # <<>> /\ p = Tail(q) /\ Holds(p, "CLOSE", i) => Holds(q, "CLOSE", i)
  BY TailFacts DEF TailOrder
<1>3. \A r \in WireRecords : p = Append(q, r) /\ ~(r.kind = "CLOSE" /\ r.sid = i) /\ Holds(p, "CLOSE", i)
                               => Holds(q, "CLOSE", i)
  BY AppendFacts DEF AppendOrder
<1> QED
  BY <1>1, <1>2, <1>3 DEF Same

\* The order of a queue that gets no DATA behind a CLOSE.
LEMMA StillClosed ==
  ASSUME NEW q \in Seq(WireRecords), NEW p, Closed(q),
         \/ p = q
         \/ p = <<>>
         \/ q # <<>> /\ p = Tail(q)
         \/ \E r \in WireRecords : p = Append(q, r) /\ (r.kind = "DATA" => ~Holds(q, "CLOSE", r.sid))
  PROVE  Closed(p)
<1>1. CASE p = q
  BY <1>1
<1>2. CASE p = <<>>
  BY <1>2, EmptyFacts
<1>3. CASE q # <<>> /\ p = Tail(q)
  BY <1>3, TailFacts DEF TailOrder
<1>4. ASSUME NEW r \in WireRecords, p = Append(q, r), r.kind = "DATA" => ~Holds(q, "CLOSE", r.sid)
      PROVE  Closed(p)
  BY <1>4, AppendFacts DEF AppendOrder
<1> QED
  BY <1>1, <1>2, <1>3, <1>4

\* A firm step moves nothing of stream i to a receiver that takes it.
LEMMA FirmLessens ==
  ASSUME Values, NEW e \in Ends, NEW i \in Sids, WireFirm(e), OutFirm(e)
  PROVE  Lessens(wire[e], wire'[e], out[e], out'[e], i, flow'[Peer(e)][i])
<1>1. wire[e] \in Seq(WireRecords) /\ out[e] \in Seq(WireRecords)
  BY QueuesTyped
<1>2. Awaits(flow'[Peer(e)][i]) => Same(wire[e], wire'[e], "DATA", i)
  BY DEF WireFirm, Same
<1>3. Same(wire[e], wire'[e], "CLOSE", i) \/ (wire[e] # <<>> /\ wire'[e] = Tail(wire[e]))
  BY DEF WireFirm, Same
<1>4. \/ out'[e] = <<>>
      \/ Same(out[e], out'[e], "DATA", i) /\ Same(out[e], out'[e], "CLOSE", i)
  BY DEF OutFirm, Same
<1>5. Holds(wire'[e], "CLOSE", i) => Holds(wire[e], "CLOSE", i)
  BY <1>1, <1>3, QueueLessens
<1>6. Awaits(flow'[Peer(e)][i]) => Datas(wire'[e], i) = Datas(wire[e], i)
  BY <1>1, <1>2, QueueLessens
<1>7. CASE out'[e] = <<>>
  <2>1. Datas(out'[e], i) = {} /\ ~Holds(out'[e], "CLOSE", i)
    BY <1>7, EmptyPayload, EmptyFacts
  <2> QED
    BY <1>5, <1>6, <2>1 DEF Lessens
<1>8. CASE Same(out[e], out'[e], "DATA", i) /\ Same(out[e], out'[e], "CLOSE", i)
  <2>1. Datas(out'[e], i) = Datas(out[e], i) /\ (Holds(out'[e], "CLOSE", i) => Holds(out[e], "CLOSE", i))
    BY <1>1, <1>8, QueueLessens
  <2> QED
    BY <1>5, <1>6, <2>1 DEF Lessens
<1> QED
  BY <1>4, <1>7, <1>8

\* Such a step keeps the order of the queues.
LEMMA FirmClosed ==
  ASSUME Values, NEW e \in Ends, WireFirm(e), OutFirm(e), Closed(wire[e]), Closed(out[e])
  PROVE  Closed(wire'[e]) /\ Closed(out'[e])
<1>1. wire[e] \in Seq(WireRecords) /\ out[e] \in Seq(WireRecords)
  BY QueuesTyped
<1>2. \/ wire'[e] = wire[e] \/ (wire[e] # <<>> /\ wire'[e] = Tail(wire[e]))
      \/ \E r \in WireRecords : wire'[e] = Append(wire[e], r) /\ (r.kind = "DATA" => ~Holds(wire[e], "CLOSE", r.sid))
  BY DEF WireFirm
<1>3. \/ out'[e] = out[e] \/ out'[e] = <<>>
      \/ \E r \in WireRecords : out'[e] = Append(out[e], r) /\ (r.kind = "DATA" => ~Holds(out[e], "CLOSE", r.sid))
  BY DEF OutFirm
<1>4. Closed(wire'[e])
  BY <1>1, <1>2, StillClosed
<1>5. Closed(out'[e])
  BY <1>1, <1>3, StillClosed
<1> QED
  BY <1>4, <1>5

\* Such a step keeps the invariant.
LEMMA FirmKeeps ==
  ASSUME FInv, EInv,
         \A e \in Ends, i \in Sids : Firm(flow[e][i], flow'[e][i]),
         \A e \in Ends : WireFirm(e) /\ OutFirm(e)
  PROVE  EInv'
<1>1. Values
  BY DEF FInv
<1>2. \A e \in Ends : Closed(wire'[e]) /\ Closed(out'[e])
  BY <1>1, FirmClosed DEF EInv
<1>3. ASSUME NEW e \in Ends, NEW i \in Sids
      PROVE  Ending(wire'[e], out'[e], i, flow'[e][i], flow'[Peer(e)][i])
  <2>1. Peer(e) \in Ends
    BY PeerFacts
  <2>2. Firm(flow[e][i], flow'[e][i]) /\ Firm(flow[Peer(e)][i], flow'[Peer(e)][i])
    BY <2>1
  <2>3. Lessens(wire[e], wire'[e], out[e], out'[e], i, flow'[Peer(e)][i])
    BY <1>1, FirmLessens
  <2>4. Ending(wire[e], out[e], i, flow[e][i], flow[Peer(e)][i])
    BY DEF EInv
  <2> QED
    BY <2>2, <2>3, <2>4, FirmEnding
<1> QED
  BY <1>2, <1>3, Zenon DEF EInv

\* The flow of one stream changes.
LEMMA OneFirm ==
  ASSUME FInv, EInv, NEW e \in Ends, NEW i \in Sids, NEW g,
         flow' = [flow EXCEPT ![e][i] = g], Firm(flow[e][i], g),
         \A d \in Ends : WireFirm(d) /\ OutFirm(d)
  PROVE  EInv'
<1>1. flow \in [Ends -> [Sids -> FlowSet]]
  BY DEF FInv, Values
<1>2. /\ flow'[e][i] = g
      /\ \A d \in Ends, k \in Sids : ~(d = e /\ k = i) => flow'[d][k] = flow[d][k]
  BY <1>1
<1>3. \A d \in Ends, k \in Sids : Firm(flow[d][k], flow'[d][k])
  BY <1>2, SameFirm
<1> QED
  BY <1>3, FirmKeeps

\* The flow of one stream changes, and no payload or FIN moves.
LEMMA TaskFirm ==
  ASSUME FInv, EInv, NEW e \in Ends, NEW i \in Sids, NEW g,
         flow' = [flow EXCEPT ![e][i] = g], Firm(flow[e][i], g), UNCHANGED <<out, wire>>
  PROVE  EInv'
<1>1. \A d \in Ends : WireFirm(d) /\ OutFirm(d)
  BY DEF WireFirm, OutFirm
<1> QED
  BY <1>1, OneFirm

\* Only stream i is disturbed, if that is a stream at all.
LEMMA OtherEndings ==
  ASSUME FInv, EInv, NEW i,
         \A d \in Ends, k \in Sids :
           k # i => /\ flow'[d][k] = flow[d][k]
                    /\ Same(wire[d], wire'[d], "DATA", k) /\ Same(wire[d], wire'[d], "CLOSE", k)
                    /\ Same(out[d], out'[d], "DATA", k) /\ Same(out[d], out'[d], "CLOSE", k),
         \A d \in Ends : Closed(wire'[d]) /\ Closed(out'[d]),
         i \in Sids =>
           \A d \in Ends : Ending(wire'[d], out'[d], i, flow'[d][i], flow'[Peer(d)][i])
  PROVE  EInv'
<1>1. ASSUME NEW d \in Ends, NEW k \in Sids, k # i
      PROVE  Ending(wire'[d], out'[d], k, flow'[d][k], flow'[Peer(d)][k])
  <2>1. Peer(d) \in Ends
    BY PeerFacts
  <2>2. flow'[d][k] = flow[d][k] /\ flow'[Peer(d)][k] = flow[Peer(d)][k]
    BY <1>1, <2>1
  <2>3. wire[d] \in Seq(WireRecords) /\ out[d] \in Seq(WireRecords)
    BY QueuesTyped DEF FInv
  <2>4. /\ Datas(wire'[d], k) = Datas(wire[d], k) /\ Datas(out'[d], k) = Datas(out[d], k)
        /\ Holds(wire'[d], "CLOSE", k) => Holds(wire[d], "CLOSE", k)
        /\ Holds(out'[d], "CLOSE", k) => Holds(out[d], "CLOSE", k)
    BY <1>1, <2>3, QueueLessens
  <2>5. Lessens(wire[d], wire'[d], out[d], out'[d], k, flow[Peer(d)][k])
    BY <2>4 DEF Lessens
  <2>6. Ending(wire[d], out[d], k, flow[d][k], flow[Peer(d)][k])
    BY DEF EInv
  <2>7. Firm(flow[d][k], flow[d][k]) /\ Firm(flow[Peer(d)][k], flow[Peer(d)][k])
    BY SameFirm
  <2>8. Ending(wire'[d], out'[d], k, flow[d][k], flow[Peer(d)][k])
    BY <2>5, <2>6, <2>7, FirmEnding
  <2> QED
    BY <2>2, <2>8
<1> QED
  BY <1>1, Zenon DEF EInv

-----------------------------------------------------------------------------
(* The changes of a flow that accept nothing, and the FIN.                 *)

\* A flow whose FIN and queue are as they were.
Unended(f, g) ==
  /\ g.fin = f.fin /\ g.down = f.down /\ Seen(g) = Seen(f)
  /\ f.bytes = 0 => g.bytes = 0

\* Such a step is firm, if the uplink is not done or does nothing.
LEMMA UnendedFirm ==
  ASSUME NEW f, NEW g, Unended(f, g), SameMark(f, g),
         f.up = "done" => g.up = "done" /\ SameSending(f, g)
  PROVE  Firm(f, g)
<1>1. f.up = "done" => g.up = "done" /\ Handed(g) = Handed(f)
  BY DEF SameSending, Handed
<1>2. Awaits(g) => Awaits(f)
  BY DEF SameMark, Awaits
<1> QED
  BY <1>1, <1>2 DEF Firm, Unended, SameMark

\* So is the removal from the table.
LEMMA DeadFirm ==
  ASSUME NEW f, NEW g, g.live = FALSE, g.task # "none",
         g.outValid = TRUE => f.outValid = TRUE,
         f.up = "done" => g.up = "done" /\ Handed(g) = Handed(f)
  PROVE  Firm(f, g)
<1>1. ~Awaits(g)
  BY DEF Awaits
<1> QED
  BY <1>1 DEF Firm

\* A cancelled flow.
LEMMA CancelsFirm ==
  ASSUME NEW f \in FlowSet, NEW g \in FlowSet, Cancels(f, g), g.up = f.up, g.fin = f.fin, g.down = f.down
  PROVE  Firm(f, g)
<1>1. f.up = "done" => g.up = "done" /\ Handed(g) = Handed(f)
  BY DEF Cancels, SameSending, Handed
<1>2. Seen(g) = Seen(f) /\ g.bytes = f.bytes
  BY DEF Cancels, SameCredit, Seen
<1>3. Awaits(g) => Awaits(f)
  BY DEF Cancels, Awaits
<1> QED
  BY <1>1, <1>2, <1>3 DEF Firm, Cancels

\* finish, and what the uplink and the FIN of the flow become.
LEMMA FinishUp ==
  ASSUME NEW f \in FlowSet, NEW p \in BOOLEAN
  PROVE  Finish(f, p).up = f.up
<1>1. CASE f.live = TRUE
  <2>1. PICK c : c = Cancel(f, p)
    OBVIOUS
  <2>2. c \in FlowSet
    BY <2>1, CancelTyped
  <2>3. c.up = f.up
    BY <2>1 DEF Cancel, FlowSet
  <2>4. Finish(f, p) = [c EXCEPT !.live = FALSE]
    BY <1>1, <2>1 DEF Finish
  <2> QED
    BY <2>2, <2>3, <2>4 DEF FlowSet
<1>2. CASE f.live = FALSE
  BY <1>2 DEF Finish
<1> QED
  BY <1>1, <1>2 DEF FlowSet

\* finish.
LEMMA FinishFirm ==
  ASSUME NEW f \in FlowSet, Sound(f), NEW p \in BOOLEAN
  PROVE  Firm(f, Finish(f, p))
<1>1. CASE f.live = TRUE
  <2>1. PICK g \in FlowSet : g = Finish(f, p)
    BY FinishTyped
  <2>2. g.live = FALSE /\ g.task = f.task /\ f.task # "none"
    BY <1>1, <2>1, FinishTyped DEF Sound
  <2>3. Cancels(f, g)
    BY <1>1, <2>1, FinishCancels
  <2>4. f.up = "done" => g.up = "done" /\ Handed(g) = Handed(f)
    BY <2>1, <2>3, FinishUp DEF Cancels, SameSending, Handed
  <2>5. g.outValid = TRUE => f.outValid = TRUE
    BY <2>3 DEF Cancels
  <2>6. Firm(f, g)
    BY <2>2, <2>4, <2>5, DeadFirm
  <2> QED
    BY <2>1, <2>6
<1>2. CASE f.live = FALSE
  BY <1>2, FinishTyped, SameFirm
<1> QED
  BY <1>1, <1>2 DEF FlowSet

\* The task returns: an uplink that is done has handed over what it read.
LEMMA GoneFirm ==
  ASSUME NEW f \in FlowSet, Sound(f), NEW p \in BOOLEAN
  PROVE  Firm(f, Gone(Finish(f, p)))
<1>1. PICK h \in FlowSet : h = Finish(f, p) /\ h.up = f.up
  BY FinishTyped, FinishUp
<1>2. h.read = f.read /\ (h.outValid = TRUE => f.outValid = TRUE)
  <2>1. CASE f.live = TRUE
    BY <1>1, <2>1, FinishCancels DEF Cancels, SameSending
  <2>2. CASE f.live = FALSE
    BY <1>1, <2>2, FinishTyped
  <2> QED
    BY <2>1, <2>2 DEF FlowSet
<1>3. PICK g : g = Gone(h)
  OBVIOUS
<1>4. /\ g.live = FALSE /\ g.task = "gone" /\ g.outValid = h.outValid /\ g.up = h.up
      /\ g.read = h.read /\ g.buf = <<>> /\ g.taken = <<>>
  BY <1>3 DEF Gone, NoFlow
<1>5. f.up = "done" => g.up = "done" /\ Handed(g) = Handed(f)
  <2>1. f.up = "done" => f.buf = <<>> /\ f.taken = <<>>
    BY DEF Sound
  <2> QED
    BY <1>1, <1>2, <1>4, <2>1 DEF Handed
<1>6. Firm(f, g)
  BY <1>2, <1>4, <1>5, DeadFirm
<1> QED
  BY <1>1, <1>3, <1>6

\* A flow fails a check.
LEMMA FailedFirm ==
  ASSUME NEW f \in FlowSet, Sound(f), f.live = TRUE, NEW o \in BOOLEAN
  PROVE  Firm(f, [Finish(f, FALSE) EXCEPT !.overrun = o])
<1>1. PICK h \in FlowSet : h = Finish(f, FALSE) /\ h.up = f.up
  BY FinishTyped, FinishUp
<1>2. Cancels(f, h) /\ h.live = FALSE /\ h.task # "none"
  BY <1>1, FinishCancels, FinishTyped DEF Sound
<1>3. PICK g : g = [h EXCEPT !.overrun = o]
  OBVIOUS
<1>4. SameSending(h, g)
  BY <1>1, <1>3 DEF FlowSet, SameSending
<1>5. g.outValid = h.outValid /\ g.live = h.live /\ g.task = h.task /\ g.up = h.up
  BY <1>1, <1>3 DEF FlowSet
<1>6. Handed(g) = Handed(f)
  BY <1>2, <1>4 DEF Cancels, SameSending, Handed
<1>7. Firm(f, g)
  <2>1. g.live = FALSE /\ g.task # "none" /\ (g.outValid = TRUE => f.outValid = TRUE)
    BY <1>2, <1>5 DEF Cancels
  <2> QED
    BY <1>1, <1>5, <1>6, <2>1, DeadFirm
<1> QED
  BY <1>1, <1>3, <1>7

-----------------------------------------------------------------------------
(* The steps of the bridge task, and the FIN.                              *)

\* The uplink reads, or takes credit: it is not done.
LEMMA UplinkEnds ==
  ASSUME FInv, DInv, EInv, FInv', NEW e \in Ends, NEW i \in Sids,
         \/ \E n \in 1..MaxChunk : ReadSocket(e, i, n)
         \/ TakeCredit(e, i)
  PROVE  EInv'
<1>1. PICK f \in FlowSet : f = flow[e][i] /\ Sound(f)
  BY TaskFacts
<1>2. f.task = "bridged" /\ UNCHANGED <<out, wire>>
  BY <1>1 DEF ReadSocket, TakeCredit, Bridged
<1>3. PICK g : /\ flow' = [flow EXCEPT ![e][i] = g] /\ SameMark(f, g)
               /\ g.fin = f.fin /\ g.down = f.down /\ g.got = f.got /\ g.bytes = f.bytes
  <2>1. ASSUME NEW n \in 1..MaxChunk, ReadSocket(e, i, n)
        PROVE  \E g : /\ flow' = [flow EXCEPT ![e][i] = g] /\ SameMark(f, g)
                      /\ g.fin = f.fin /\ g.down = f.down /\ g.got = f.got /\ g.bytes = f.bytes
    <3>1. PICK b, r : b = [k \in 1..n |-> f.read + k] /\ r = f.read + n
      OBVIOUS
    <3>2. PICK g : g = [f EXCEPT !.read = r, !.buf = b]
      OBVIOUS
    <3>3. flow' = [flow EXCEPT ![e][i] = g]
      BY <1>1, <2>1, <3>1, <3>2, Zenon DEF ReadSocket
    <3>4. SameMark(f, g)
      BY <1>2, <3>2 DEF FlowSet, SameMark
    <3>5. g.fin = f.fin /\ g.down = f.down /\ g.got = f.got /\ g.bytes = f.bytes
      BY <3>2 DEF FlowSet
    <3> QED
      BY <3>3, <3>4, <3>5, Zenon
  <2>2. ASSUME TakeCredit(e, i)
        PROVE  \E g : /\ flow' = [flow EXCEPT ![e][i] = g] /\ SameMark(f, g)
                      /\ g.fin = f.fin /\ g.down = f.down /\ g.got = f.got /\ g.bytes = f.bytes
    <3>1. PICK n : n = IF f.negotiated /\ f.avail < Len(f.buf) THEN f.avail ELSE Len(f.buf)
      OBVIOUS
    <3>2. PICK a, t, b : /\ a = IF f.negotiated THEN f.avail - n ELSE f.avail
                         /\ t = SubSeq(f.buf, 1, n) /\ b = SubSeq(f.buf, n + 1, Len(f.buf))
      OBVIOUS
    <3>3. PICK g : g = [f EXCEPT !.avail = a, !.taken = t, !.buf = b]
      OBVIOUS
    <3>4. flow' = [flow EXCEPT ![e][i] = g]
      BY <1>1, <2>2, <3>1, <3>2, <3>3, Zenon DEF TakeCredit
    <3>5. SameMark(f, g)
      BY <1>2, <3>3 DEF FlowSet, SameMark
    <3>6. g.fin = f.fin /\ g.down = f.down /\ g.got = f.got /\ g.bytes = f.bytes
      BY <3>3 DEF FlowSet
    <3> QED
      BY <3>4, <3>5, <3>6, Zenon
  <2> QED
    BY <2>1, <2>2
<1>4. f.up = "run"
  <2>1. f.up = "run" \/ f.buf # <<>>
    BY <1>1 DEF ReadSocket, TakeCredit
  <2> QED
    BY <1>1, <2>1 DEF Sound
<1>5. Unended(f, g)
  BY <1>3 DEF Unended, Seen
<1>6. Firm(f, g)
  BY <1>3, <1>4, <1>5, UnendedFirm
<1> QED
  BY <1>1, <1>2, <1>3, <1>6, TaskFirm, Zenon

\* A task or the uplink is marked.
LEMMA MarkEnds ==
  ASSUME FInv, DInv, EInv, FInv', NEW e \in Ends, NEW i \in Sids,
         \/ ReadEof(e, i) \/ PumpError(e, i)
         \/ e = "s" /\ Connected(i)
  PROVE  EInv'
<1>1. PICK f \in FlowSet : f = flow[e][i]
  BY TaskFacts
<1>2. f.task \notin {"none", "gone"} /\ UNCHANGED <<out, wire>>
  BY <1>1 DEF ReadEof, PumpError, Connected, Bridged
<1>3. PICK v, g :
        /\ flow' = [flow EXCEPT ![e][i] = g]
        /\ \/ g = [f EXCEPT !.up = v] /\ f.up = "run"
           \/ g = [f EXCEPT !.task = v] /\ v \in {"bridged", "failed"}
  <2>1. CASE ReadEof(e, i)
    <3>1. flow' = [flow EXCEPT ![e][i] = [f EXCEPT !.up = "eof"]] /\ f.up = "run"
      BY <1>1, <2>1 DEF ReadEof
    <3> QED
      BY <3>1, Zenon
  <2>2. CASE PumpError(e, i)
    <3>1. flow' = [flow EXCEPT ![e][i] = [f EXCEPT !.task = "failed"]]
      BY <1>1, <2>2 DEF PumpError
    <3>2. "failed" \in {"bridged", "failed"}
      OBVIOUS
    <3> QED
      BY <3>1, <3>2, Zenon
  <2>3. CASE e = "s" /\ Connected(i)
    <3>1. flow' = [flow EXCEPT ![e][i] = [f EXCEPT !.task = "bridged"]]
      BY <1>1, <2>3 DEF Connected
    <3>2. "bridged" \in {"bridged", "failed"}
      OBVIOUS
    <3> QED
      BY <3>1, <3>2, Zenon
  <2> QED
    BY <2>1, <2>2, <2>3
<1>4. SameMark(f, g)
  BY <1>2, <1>3 DEF FlowSet, SameMark
<1>5. g.fin = f.fin /\ g.down = f.down /\ g.got = f.got /\ g.bytes = f.bytes
  BY <1>3 DEF FlowSet
<1>6. SameSending(f, g)
  BY <1>3 DEF FlowSet, SameSending
<1>7. f.up = "done" => g.up = "done"
  BY <1>3 DEF FlowSet
<1>8. Unended(f, g)
  BY <1>5 DEF Unended, Seen
<1>9. Firm(f, g)
  BY <1>4, <1>6, <1>7, <1>8, UnendedFirm
<1> QED
  BY <1>1, <1>2, <1>3, <1>9, TaskFirm, Zenon

\* receive(), and publish_credit's first half.
LEMMA DownlinkEnds ==
  ASSUME FInv, DInv, EInv, FInv', NEW e \in Ends, NEW i \in Sids,
         Receive(e, i) \/ RaiseCredit(e, i)
  PROVE  EInv'
<1>1. PICK f \in FlowSet : f = flow[e][i]
  BY TaskFacts
<1>2. f.task = "bridged" /\ UNCHANGED <<out, wire>>
  BY <1>1 DEF Receive, RaiseCredit, DownReady, Bridged
<1>3. PICK a, b, g :
        /\ flow' = [flow EXCEPT ![e][i] = g]
        /\ \/ g = [f EXCEPT !.writing = a, !.rq = b]
           \/ g = [f EXCEPT !.credit = a, !.pub = b]
           \/ g = [f EXCEPT !.task = "failed", !.overrun = TRUE]
  <2>1. CASE Receive(e, i)
    <3>1. PICK a, b : a = Head(f.rq) /\ b = Tail(f.rq)
      OBVIOUS
    <3>2. flow' = [flow EXCEPT ![e][i] = [f EXCEPT !.writing = a, !.rq = b]]
      BY <1>1, <2>1, <3>1, Zenon DEF Receive
    <3> QED
      BY <3>2, Zenon
  <2>2. CASE RaiseCredit(e, i)
    <3>1. PICK c : c = f.credit + f.pend
      OBVIOUS
    <3>2. flow' = [flow EXCEPT ![e][i] = IF c <= Window[e]
                                         THEN [f EXCEPT !.credit = c, !.pub = "raised"]
                                         ELSE [f EXCEPT !.task = "failed", !.overrun = TRUE]]
      BY <1>1, <2>2, <3>1, Zenon DEF RaiseCredit
    <3> QED
      BY <3>2, Zenon
  <2> QED
    BY <2>1, <2>2
<1>4. g.fin = f.fin /\ g.down = f.down /\ g.got = f.got /\ g.bytes = f.bytes
  BY <1>3 DEF FlowSet
<1>5. SameSending(f, g)
  BY <1>3 DEF FlowSet, SameSending
<1>6. g.up = f.up /\ g.live = f.live /\ g.outValid = f.outValid /\ g.task # "none"
  BY <1>2, <1>3 DEF FlowSet
<1>7. Firm(f, g)
  <2>1. Seen(g) = Seen(f) /\ Handed(g) = Handed(f)
    BY <1>4, <1>5 DEF SameSending, Seen, Handed
  <2> QED
    BY <1>4, <1>6, <2>1 DEF Firm, Awaits
<1> QED
  BY <1>1, <1>2, <1>3, <1>7, TaskFirm, Zenon

\* write_all completed: what was written was held.
LEMMA WrittenEnds ==
  ASSUME FInv, DInv, EInv, FInv', NEW e \in Ends, NEW i \in Sids, Written(e, i)
  PROVE  EInv'
<1>1. PICK f \in FlowSet : f = flow[e][i] /\ Steady(e, f)
  BY TaskFacts
<1>t. f.writing \in Seq(Int) /\ f.got \in Seq(Int) /\ f.bytes \in Int
  BY DEF FlowSet
<1>2. PICK n, l \in Nat : n = Len(f.writing) /\ l = Len(f.got)
  <2>1. Len(f.writing) \in Nat /\ Len(f.got) \in Nat
    BY <1>t
  <2> QED
    BY <2>1
<1>3. f.task = "bridged" /\ n > 0 /\ UNCHANGED <<out, wire>>
  BY <1>1, <1>2 DEF Written, Bridged
<1>4. PICK w, o, b, c, p, u :
        /\ w = <<>> /\ o = f.got \o f.writing /\ b = f.bytes - n
        /\ c = IF f.negotiated THEN f.credit ELSE f.credit + n
        /\ p = IF f.negotiated THEN f.pend + n ELSE 0
        /\ u = IF f.negotiated /\ (f.pend + n >= Window[e] \div CreditDiv \/ f.rq = <<>>)
               THEN "due" ELSE "none"
  OBVIOUS
<1>5. PICK g : g = [f EXCEPT !.writing = w, !.got = o, !.bytes = b, !.credit = c, !.pend = p, !.pub = u]
  OBVIOUS
<1>6. flow' = [flow EXCEPT ![e][i] = g]
  <2>1. flow' = [flow EXCEPT ![e][i] =
          [f EXCEPT !.writing = <<>>,
                    !.got = f.got \o f.writing,
                    !.bytes = f.bytes - n,
                    !.credit = IF f.negotiated THEN f.credit ELSE f.credit + n,
                    !.pend = IF f.negotiated THEN f.pend + n ELSE 0,
                    !.pub = IF f.negotiated /\ (f.pend + n >= Window[e] \div CreditDiv \/ f.rq = <<>>)
                            THEN "due" ELSE "none"]]
    BY <1>1, <1>2, Zenon DEF Written
  <2>2. g = [f EXCEPT !.writing = <<>>,
                      !.got = f.got \o f.writing,
                      !.bytes = f.bytes - n,
                      !.credit = IF f.negotiated THEN f.credit ELSE f.credit + n,
                      !.pend = IF f.negotiated THEN f.pend + n ELSE 0,
                      !.pub = IF f.negotiated /\ (f.pend + n >= Window[e] \div CreditDiv \/ f.rq = <<>>)
                              THEN "due" ELSE "none"]
    BY <1>4, <1>5, Zenon
  <2> QED
    BY <2>1, <2>2, Zenon
<1>7. SameSending(f, g)
  BY <1>5 DEF FlowSet, SameSending
<1>8. SameMark(f, g)
  BY <1>3, <1>5 DEF FlowSet, SameMark
<1>9. g.got = o /\ g.bytes = b /\ g.fin = f.fin /\ g.down = f.down /\ g.up = f.up
  BY <1>5 DEF FlowSet
<1>10. Len(o) = l + n
  BY <1>2, <1>4, <1>t, ConcatFacts
<1>11. Seen(g) = Seen(f)
  <2>1. Seen(g) = (l + n) + (f.bytes - n) /\ Seen(f) = l + f.bytes
    BY <1>2, <1>4, <1>9, <1>10 DEF Seen
  <2>2. f.bytes \in Int
    BY <1>t
  <2>3. (l + n) + (f.bytes - n) = l + f.bytes
    BY <2>2
  <2> QED
    BY <2>1, <2>3
<1>12. f.bytes # 0
  <2>1. f.bytes >= n
    BY <1>1, <1>2 DEF Steady, Receiving
  <2> QED
    BY <1>2, <1>3, <1>t, <2>1
<1>13. Unended(f, g)
  BY <1>9, <1>11, <1>12 DEF Unended
<1>14. Firm(f, g)
  BY <1>7, <1>8, <1>9, <1>13, UnendedFirm
<1> QED
  BY <1>1, <1>3, <1>6, <1>14, TaskFirm

\* publish_credit, second half.
LEMMA PublishEnds ==
  ASSUME FInv, DInv, EInv, FInv', NEW e \in Ends, NEW i \in Sids, PublishWin(e, i)
  PROVE  EInv'
<1>1. PICK f \in FlowSet : f = flow[e][i]
  BY TaskFacts
<1>2. f.task = "bridged" /\ UNCHANGED <<out, wire>>
  BY <1>1 DEF PublishWin, Bridged
<1>3. CASE ControlRoom(e)
  <2>z. PICK z, u : z = 0 /\ u = "none"
    OBVIOUS
  <2>1. PICK g : g = [f EXCEPT !.pend = z, !.pub = u]
    OBVIOUS
  <2>2. flow' = [flow EXCEPT ![e][i] = g]
    <3>1. flow' = [flow EXCEPT ![e][i] = [f EXCEPT !.pend = 0, !.pub = "none"]]
      BY <1>1, <1>3, Zenon DEF PublishWin
    <3> QED
      BY <2>1, <2>z, <3>1, Zenon
  <2>3. SameSending(f, g)
    BY <2>1 DEF FlowSet, SameSending
  <2>4. SameMark(f, g)
    BY <1>2, <2>1 DEF FlowSet, SameMark
  <2>5. g.fin = f.fin /\ g.down = f.down /\ g.got = f.got /\ g.bytes = f.bytes /\ g.up = f.up
    BY <2>1 DEF FlowSet
  <2>6. Unended(f, g)
    BY <2>5 DEF Unended, Seen
  <2>7. Firm(f, g)
    BY <2>3, <2>4, <2>5, <2>6, UnendedFirm
  <2> QED
    BY <1>1, <1>2, <2>2, <2>7, TaskFirm
<1>4. CASE ~ControlRoom(e)
  <2>1. PICK c : c = Cancel(f, FALSE)
    OBVIOUS
  <2>2. PICK g : g = [c EXCEPT !.task = "failed"]
    OBVIOUS
  <2>3. flow' = [flow EXCEPT ![e][i] = g]
    BY <1>1, <1>4, <2>1, <2>2, Zenon DEF PublishWin
  <2>4. g \in FlowSet
    BY <2>3, NewFlowFacts
  <2>5. Cancels(f, g)
    <3>1. f.task \notin {"none", "gone"} /\ FALSE \in BOOLEAN
      BY <1>2
    <3> QED
      BY <2>1, <2>2, <3>1, CancelChanged
  <2>6. g.up = f.up /\ g.fin = f.fin /\ g.down = f.down
    <3>1. c \in FlowSet /\ c.up = f.up /\ c.fin = f.fin /\ c.down = f.down
      BY <2>1, CancelTyped
    <3> QED
      BY <2>2, <3>1 DEF FlowSet
  <2>7. Firm(f, g)
    BY <2>4, <2>5, <2>6, CancelsFirm
  <2> QED
    BY <1>1, <1>2, <2>3, <2>7, TaskFirm
<1> QED
  BY <1>3, <1>4

\* receive() reaches the FIN with nothing left in the queue.
LEMMA FinEnds ==
  ASSUME FInv, DInv, EInv, FInv', NEW e \in Ends, NEW i \in Sids, ReceiveFin(e, i)
  PROVE  EInv'
<1>1. PICK f \in FlowSet : f = flow[e][i] /\ Sound(f) /\ Steady(e, f)
  BY TaskFacts
<1>2. f.task = "bridged" /\ f.writing = <<>> /\ f.rq = <<>> /\ f.fin = TRUE /\ UNCHANGED <<out, wire>>
  BY <1>1 DEF ReceiveFin, DownReady, Bridged, FlowSet
<1>3. PICK g : g = [f EXCEPT !.down = "done"]
  OBVIOUS
<1>4. flow' = [flow EXCEPT ![e][i] = g]
  <2>1. flow' = [flow EXCEPT ![e][i] = [f EXCEPT !.down = "done"]]
    BY <1>1 DEF ReceiveFin
  <2> QED
    BY <1>3, <2>1, Zenon
<1>5. /\ g.live = f.live /\ g.bytes = f.bytes /\ g.got = f.got /\ g.fin = f.fin /\ g.up = f.up
      /\ g.outValid = f.outValid /\ g.task = f.task
  BY <1>3 DEF FlowSet
<1>6. SameSending(f, g)
  BY <1>3 DEF FlowSet, SameSending
<1>7. f.live = TRUE => f.bytes = 0
  <2>1. f.live = TRUE => f.cancelled = FALSE
    BY <1>1, <1>2 DEF Sound, FlowSet
  <2>2. f.cancelled = FALSE => Seen(f) = Passed(f)
    BY <1>1, <1>2 DEF Steady, Receiving
  <2>3. f.bytes \in Int /\ f.got \in Seq(Int) /\ Len(f.writing) = 0
    BY <1>2 DEF FlowSet
  <2>4. Len(f.got) \in Nat
    BY <2>3
  <2> QED
    BY <2>1, <2>2, <2>3, <2>4 DEF Seen, Passed
<1>8. Firm(f, g)
  <2>1. Seen(g) = Seen(f) /\ Handed(g) = Handed(f)
    BY <1>5, <1>6 DEF SameSending, Seen, Handed
  <2> QED
    BY <1>5, <1>7, <2>1 DEF Firm, Awaits
<1> QED
  BY <1>1, <1>2, <1>4, <1>8, TaskFirm

\* The ends of a task.
LEMMA TaskEndsEnd ==
  ASSUME FInv, DInv, EInv, FInv', NEW e \in Ends, NEW i \in Sids,
         \/ BridgeFailed(e, i) \/ BridgeDone(e, i) \/ TaskCancelled(e, i)
         \/ e = "c" /\ AbortOpen(i)
         \/ e = "s" /\ ConnectFailed(i)
  PROVE  EInv'
<1>1. PICK f \in FlowSet : f = flow[e][i] /\ Sound(f)
  BY TaskFacts
<1>2. UNCHANGED <<out, wire>>
  BY DEF BridgeFailed, BridgeDone, TaskCancelled, AbortOpen, ConnectFailed
<1>3. PICK p \in BOOLEAN : flow' = [flow EXCEPT ![e][i] = Gone(Finish(f, p))]
  BY <1>1 DEF BridgeFailed, BridgeDone, TaskCancelled, AbortOpen, ConnectFailed
<1>4. Firm(f, Gone(Finish(f, p)))
  BY <1>1, GoneFirm
<1>5. PICK g : g = Gone(Finish(f, p))
  OBVIOUS
<1> QED
  BY <1>1, <1>2, <1>3, <1>4, <1>5, TaskFirm

\* A step without a flow.
LEMMA SameEndings ==
  ASSUME FInv, EInv, flow' = flow, \A d \in Ends : WireFirm(d) /\ OutFirm(d)
  PROVE  EInv'
<1>1. \A e \in Ends, i \in Sids : Firm(flow[e][i], flow'[e][i])
  BY SameFirm
<1> QED
  BY <1>1, FirmKeeps

\* The end of run.
LEMMA RunEndsEnd ==
  ASSUME FInv, DInv, EInv, FInv', NEW e \in Ends, RunEnds(e)
  PROVE  EInv'
<1>1. out' = [out EXCEPT ![e] = <<>>] /\ flow' = flow /\ wire' = wire
  BY DEF RunEnds
<1>2. out \in [Ends -> Seq(OutRecords)]
  BY DEF FInv, Values
<1>3. \A d \in Ends : out'[d] = out[d] \/ out'[d] = <<>>
  BY <1>1, <1>2
<1>4. \A d \in Ends : WireFirm(d) /\ OutFirm(d)
  BY <1>1, <1>3 DEF WireFirm, OutFirm
<1> QED
  BY <1>1, <1>4, SameEndings

\* shutdown.
LEMMA DrainEnds ==
  ASSUME FInv, DInv, EInv, FInv', NEW e \in Ends, ShutdownDrain(e)
  PROVE  EInv'
<1>1. /\ flow' = [flow EXCEPT ![e] = [i \in Sids |-> Finish(flow[e][i], FALSE)]]
      /\ UNCHANGED <<out, wire>>
  BY DEF ShutdownDrain
<1>2. flow \in [Ends -> [Sids -> FlowSet]]
  BY DEF FInv, Values
<1>3. ASSUME NEW d \in Ends, NEW i \in Sids PROVE Firm(flow[d][i], flow'[d][i])
  <2>1. CASE d = e
    <3>1. flow'[d][i] = Finish(flow[d][i], FALSE)
      BY <1>1, <1>2, <2>1
    <3> QED
      BY <3>1, TaskFacts, FinishFirm
  <2>2. CASE d # e
    <3>1. flow'[d][i] = flow[d][i]
      BY <1>1, <1>2, <2>2
    <3> QED
      BY <3>1, SameFirm
  <2> QED
    BY <2>1, <2>2
<1>4. \A d \in Ends : WireFirm(d) /\ OutFirm(d)
  BY <1>1 DEF WireFirm, OutFirm
<1> QED
  BY <1>3, <1>4, FirmKeeps

-----------------------------------------------------------------------------
(* The reader and the lanes, and the FIN.                                  *)

\* What the reader of e takes off the wire and no flow accepts as a payload.
Pulls(e) ==
  /\ wire[Peer(e)] # <<>> /\ wire' = [wire EXCEPT ![Peer(e)] = Tail(@)]
  /\ Arrived(e).kind = "DATA" => ~Awaits(flow'[e][Arrived(e).sid])
  /\ out' = out \/ \E r : ReaderControl(e, r)

\* The queues after that.
LEMMA PullQueues ==
  ASSUME FInv, NEW e \in Ends, Pulls(e), NEW d \in Ends
  PROVE  WireFirm(d) /\ OutFirm(d)
<1>0. wire \in [Ends -> Seq(WireRecords)] /\ out \in [Ends -> Seq(OutRecords)]
  BY DEF FInv, Values
<1>p. Peer(e) \in Ends /\ Peer(Peer(e)) = e
  BY PeerFacts
<1>1. WireFirm(d)
  <2>1. CASE d = Peer(e)
    <3>1. wire[d] # <<>> /\ wire'[d] = Tail(wire[d]) /\ Arrived(e) = Head(wire[d]) /\ Peer(d) = e
      BY <1>0, <1>p, <2>1 DEF Pulls, Arrived
    <3>2. Head(wire[d]).kind = "DATA" => ~Awaits(flow'[Peer(d)][Head(wire[d]).sid])
      BY <3>1 DEF Pulls
    <3> QED
      BY <3>1, <3>2 DEF WireFirm
  <2>2. CASE d # Peer(e)
    <3>1. wire'[d] = wire[d]
      BY <1>0, <2>2 DEF Pulls
    <3> QED
      BY <3>1 DEF WireFirm
  <2> QED
    BY <2>1, <2>2
<1>2. out' = out \/ out' = [out EXCEPT ![e] = <<>>]
  BY DEF Pulls, ReaderControl
<1>3. out'[d] = out[d] \/ out'[d] = <<>>
  BY <1>0, <1>2
<1> QED
  BY <1>1, <1>3 DEF OutFirm

\* CAP.
LEMMA CapEnds ==
  ASSUME FInv, DInv, EInv, FInv', NEW e \in Ends, DispatchCap(e)
  PROVE  EInv'
<1>1. /\ wire[Peer(e)] # <<>> /\ wire' = [wire EXCEPT ![Peer(e)] = Tail(@)]
      /\ Arrived(e).kind = "CAP" /\ flow' = flow
  BY DEF DispatchCap, Arrives, Arrived
<1>2. out' = out \/ ReaderControl(e, CapRecord("s"))
  BY DEF DispatchCap
<1>3. Pulls(e)
  BY <1>1, <1>2 DEF Pulls
<1> QED
  BY <1>1, <1>3, PullQueues, SameEndings

\* RST.
LEMMA RstEnds ==
  ASSUME FInv, DInv, EInv, FInv', NEW e \in Ends, DispatchRst(e)
  PROVE  EInv'
<1>1. /\ wire[Peer(e)] # <<>> /\ wire' = [wire EXCEPT ![Peer(e)] = Tail(@)]
      /\ Arrived(e).kind = "RST"
      /\ flow' = [flow EXCEPT ![e][Arrived(e).sid] = Finish(flow[e][Arrived(e).sid], FALSE)]
      /\ out' = out
  BY DEF DispatchRst, Arrives, Arrived
<1>2. PICK i \in Sids : i = Arrived(e).sid
  BY <1>1, ArrivedTyped
<1>3. PICK g : g = Finish(flow[e][i], FALSE)
  OBVIOUS
<1>4. Firm(flow[e][i], g)
  BY <1>3, TaskFacts, FinishFirm
<1>5. flow' = [flow EXCEPT ![e][i] = g]
  BY <1>1, <1>2, <1>3
<1>6. Pulls(e)
  BY <1>1 DEF Pulls
<1>7. \A d \in Ends : WireFirm(d) /\ OutFirm(d)
  BY <1>6, PullQueues
<1> QED
  BY <1>4, <1>5, <1>7, OneFirm

\* WIN.
LEMMA WinEnds ==
  ASSUME FInv, DInv, EInv, FInv', NEW e \in Ends, DispatchWin(e)
  PROVE  EInv'
<1>1. /\ wire[Peer(e)] # <<>> /\ wire' = [wire EXCEPT ![Peer(e)] = Tail(@)]
      /\ Arrived(e).kind = "WIN"
  BY DEF DispatchWin, Arrives, Arrived
<1>2. PICK i \in Sids : i = Arrived(e).sid
  BY <1>1, ArrivedTyped
<1>3. PICK f \in FlowSet : f = flow[e][i] /\ Sound(f)
  BY TaskFacts
<1>t. f.live \in BOOLEAN /\ f.negotiated \in BOOLEAN
  BY DEF FlowSet
<1>4. PICK r : r = Arrived(e)
  OBVIOUS
<1>5. CASE ~f.live \/ ~f.negotiated
  <2>1. UNCHANGED <<flow, out>>
    BY <1>2, <1>3, <1>5 DEF DispatchWin
  <2>2. Pulls(e)
    BY <1>1, <2>1 DEF Pulls
  <2> QED
    BY <2>1, <2>2, PullQueues, SameEndings
<1>6. CASE f.live /\ f.negotiated /\ r.n \in 1..(Window[Peer(e)] - f.avail)
  <2>1. PICK a : a = f.avail + r.n
    OBVIOUS
  <2>2. PICK g : g = [f EXCEPT !.avail = a]
    BY Zenon
  <2>3. flow' = [flow EXCEPT ![e][i] = g] /\ out' = out
    <3>1. flow' = [flow EXCEPT ![e][i].avail = @ + r.n] /\ out' = out
      BY <1>2, <1>3, <1>4, <1>6 DEF DispatchWin
    <3>2. flow' = [flow EXCEPT ![e][i] = [f EXCEPT !.avail = f.avail + r.n]]
      BY <1>3, <3>1
    <3> QED
      BY <2>1, <2>2, <3>1, <3>2, Zenon
  <2>4. f.task \notin {"none", "gone"}
    BY <1>3, <1>6, Zenon DEF Sound
  <2>5. SameMark(f, g)
    BY <2>2, <2>4 DEF FlowSet, SameMark
  <2>6. /\ g.fin = f.fin /\ g.down = f.down /\ g.got = f.got /\ g.bytes = f.bytes /\ g.up = f.up
        /\ g.read = f.read /\ g.buf = f.buf /\ g.taken = f.taken
        /\ g.outValid = f.outValid /\ g.live = f.live /\ g.task = f.task
    BY <2>2 DEF FlowSet
  <2>7. Firm(f, g)
    <3>1. Seen(g) = Seen(f) /\ Handed(g) = Handed(f)
      BY <2>6 DEF Seen, Handed
    <3> QED
      BY <2>6, <3>1 DEF Firm, Awaits
  <2>8. Pulls(e)
    BY <1>1, <2>3 DEF Pulls
  <2> QED
    BY <1>3, <2>3, <2>7, <2>8, PullQueues, OneFirm
<1>7. CASE /\ ~(~f.live \/ ~f.negotiated)
           /\ ~(f.live /\ f.negotiated /\ r.n \in 1..(Window[Peer(e)] - f.avail))
  <2>1. PICK g : g = [Finish(f, FALSE) EXCEPT !.overrun = TRUE]
    OBVIOUS
  <2>2. flow' = [flow EXCEPT ![e][i] = g] /\ ReaderControl(e, RstRecord(i, TRUE))
    <3>1. /\ flow' = [flow EXCEPT ![e][i] = [Finish(f, FALSE) EXCEPT !.overrun = TRUE]]
          /\ ReaderControl(e, RstRecord(i, TRUE))
      BY <1>2, <1>3, <1>4, <1>7, Zenon DEF DispatchWin
    <3> QED
      BY <2>1, <3>1, Zenon
  <2>3. Firm(f, g)
    <3>1. f.live = TRUE
      BY <1>7, <1>t
    <3> QED
      BY <1>3, <2>1, <3>1, FailedFirm
  <2>4. Pulls(e)
    BY <1>1, <2>2 DEF Pulls
  <2> QED
    BY <1>3, <2>2, <2>3, <2>4, PullQueues, OneFirm
<1> QED
  BY <1>5, <1>6, <1>7

\* DATA or CLOSE that no flow takes, or that fails its stream.
LEMMA DroppedEnds ==
  ASSUME FInv, DInv, EInv, FInv', NEW e \in Ends, DispatchPayload(e), NEW i \in Sids, i = Arrived(e).sid,
         ~(/\ flow[e][i].live = TRUE /\ flow[e][i].fin = FALSE /\ flow[e][i].cancelled = FALSE
           /\ Fits(flow[e][i], e, Arrived(e).data))
  PROVE  EInv'
<1>1. /\ wire[Peer(e)] # <<>> /\ Arrived(e).kind \in {"DATA", "CLOSE"}
      /\ wire' = [wire EXCEPT ![Peer(e)] = Tail(@)]
  BY DEF DispatchPayload, Arrives, Arrived
<1>2. PICK f, r : f = flow[e][i] /\ r = Arrived(e)
  OBVIOUS
<1>3. f \in FlowSet /\ Sound(f)
  BY <1>2, TaskFacts
<1>t. f.live \in BOOLEAN /\ f.fin \in BOOLEAN /\ f.cancelled \in BOOLEAN /\ f.overrun \in BOOLEAN
  BY <1>3 DEF FlowSet
<1>4. CASE f.live = FALSE
  <2>1. flow' = flow /\ (out' = out \/ ReaderControl(e, RstRecord(i, FALSE)))
    BY <1>2, <1>4 DEF DispatchPayload
  <2>2. r.kind = "DATA" => ~Awaits(flow'[e][r.sid])
    BY <1>1, <1>2, <1>4, <2>1, UnknownUnawaited
  <2>3. Pulls(e)
    BY <1>1, <1>2, <2>1, <2>2 DEF Pulls
  <2> QED
    BY <2>1, <2>3, PullQueues, SameEndings
<1>5. CASE f.live = TRUE
  <2>1. PICK o \in BOOLEAN : o = (f.overrun \/ ~WindowFits(f, e, r.data))
    OBVIOUS
  <2>2. PICK g : g = [Finish(f, FALSE) EXCEPT !.overrun = o]
    OBVIOUS
  <2>3. /\ flow' = [flow EXCEPT ![e][i] = g]
        /\ ReaderControl(e, RstRecord(i, TRUE))
    <3>1. /\ flow' = [flow EXCEPT ![e][i] =
                [Finish(f, FALSE) EXCEPT !.overrun = f.overrun \/ ~WindowFits(f, e, r.data)]]
          /\ ReaderControl(e, RstRecord(i, TRUE))
      <4>1. f.live /\ ~(f.live /\ ~f.fin /\ ~f.cancelled /\ Fits(f, e, r.data))
        BY <1>2, <1>5, <1>t
      <4> QED
        BY <1>2, <4>1, Zenon DEF DispatchPayload
    <3> QED
      BY <2>1, <2>2, <3>1, Zenon
  <2>4. Firm(f, g)
    BY <1>3, <1>5, <2>1, <2>2, FailedFirm
  <2>5. flow'[e][i] = g /\ g.task = f.task /\ g.live = FALSE
    <3>1. flow'[e][i] = g
      BY <2>3, NewFlowFacts
    <3>2. PICK c \in FlowSet : c = Finish(f, FALSE) /\ c.task = f.task /\ c.live = FALSE
      BY <1>3, FinishTyped
    <3>3. g = [c EXCEPT !.overrun = o]
      BY <2>2, <3>2, Zenon
    <3> QED
      BY <3>1, <3>2, <3>3 DEF FlowSet
  <2>6. ~Awaits(flow'[e][i])
    BY <1>3, <1>5, <2>5 DEF Awaits, Sound
  <2>7. Pulls(e)
    BY <1>1, <1>2, <2>3, <2>6 DEF Pulls
  <2> QED
    BY <1>2, <2>3, <2>4, <2>7, PullQueues, OneFirm
<1> QED
  BY <1>4, <1>5, <1>t

\* The control lane carries no payload and no FIN.
LEMMA ControlEnds ==
  ASSUME FInv, DInv, EInv, FInv', NEW e \in Ends, WriteControl(e)
  PROVE  EInv'
<1>0. wire \in [Ends -> Seq(WireRecords)] /\ ctl[e] \in Seq(CtlRecords)
  BY DEF FInv, Values
<1>1. ctl[e] # <<>> /\ Fed(e, Head(ctl[e])) /\ UNCHANGED <<flow, out>>
  BY DEF WriteControl
<1>2. PICK r \in CtlRecords : r = Head(ctl[e]) /\ r \in WireRecords
  BY <1>0, <1>1 DEF WireRecords
<1>3. r.kind \notin {"DATA", "CLOSE"}
  BY DEF CtlRecords, RecordsOf
<1>4. wire' = [wire EXCEPT ![e] = Append(@, r)] \/ wire' = wire
  BY <1>1, <1>2 DEF Fed
<1>5. \A d \in Ends : wire'[d] = wire[d] \/ wire'[d] = Append(wire[d], r)
  BY <1>0, <1>4
<1>6. \A d \in Ends : WireFirm(d) /\ OutFirm(d)
  BY <1>1, <1>2, <1>3, <1>5 DEF WireFirm, OutFirm
<1> QED
  BY <1>1, <1>6, SameEndings

\* A stream that appears has sent and seen nothing.
LEMMA FreshFirm ==
  ASSUME NEW g, Seen(g) = 0, g.fin = FALSE, g.down = "run"
  PROVE  Firm(NoFlow, g)
<1>1. NoFlow.outValid = TRUE /\ NoFlow.up = "run" /\ NoFlow.task = "none"
  BY DEF NoFlow
<1>2. Awaits(NoFlow) /\ Seen(NoFlow) = 0
  BY <1>1, NoFlowNumbers DEF Awaits
<1> QED
  BY <1>1, <1>2 DEF Firm

\* A refused one.
LEMMA RefusedFirm == Firm(NoFlow, Refused)
<1>1. PICK g : g = Refused
  OBVIOUS
<1>2. g.fin = FALSE /\ g.down = "run" /\ g.got = <<>> /\ g.bytes = 0
  BY <1>1 DEF Refused, NoFlow
<1>3. Len(g.got) = 0
  BY <1>2
<1>4. Seen(g) = 0
  BY <1>2, <1>3 DEF Seen
<1> QED
  BY <1>1, <1>2, <1>4, FreshFirm

\* An admitted one.
LEMMA AdmittedFirm ==
  ASSUME NEW e \in Ends, NEW n \in BOOLEAN, NEW t \in NewTasks
  PROVE  Firm(NoFlow, NewFlow(e, t, n))
<1>1. PICK g : g = NewFlow(e, t, n)
  OBVIOUS
<1>2. Seen(g) = 0
  BY <1>1, NewFlowNumbers DEF Started
<1>3. g.fin = FALSE /\ g.down = "run"
  BY <1>1, NewFlowTyped
<1> QED
  BY <1>1, <1>2, <1>3, FreshFirm

\* open_stream.
LEMMA OpenEnds ==
  ASSUME FInv, DInv, EInv, FInv', OpenStream
  PROVE  EInv'
<1>0. "c" \in Ends /\ "opening" \in NewTasks
  BY DEF Ends, NewTasks
<1>1. nextSid \in Sids /\ UNCHANGED <<out, wire>>
  BY DEF OpenStream
<1>2. PICK i \in Sids : i = nextSid
  BY <1>1
<1>3. flow["c"][i] = NoFlow
  <2>1. i \in Nat
    BY ConstantsAssumption
  <2>2. flow["c"][i].task = "none"
    BY <1>2, <2>1 DEF FInv, FlowsSound
  <2> QED
    BY <1>0, <2>2, FlowFacts DEF Sound
<1>4. PICK n \in BOOLEAN : n = (neg["c"] = "credit")
  OBVIOUS
<1>5. PICK g : g = IF CanAllocate("c") THEN NewFlow("c", "opening", n) ELSE Refused
  OBVIOUS
<1>6. flow' = [flow EXCEPT !["c"][i] = g]
  <2>1. flow' = [flow EXCEPT !["c"][i] = IF CanAllocate("c")
                   THEN NewFlow("c", "opening", neg["c"] = "credit")
                   ELSE [flow["c"][i] EXCEPT !.task = "gone"]]
    BY <1>2, Zenon DEF OpenStream
  <2> QED
    BY <1>3, <1>4, <1>5, <2>1, Zenon DEF Refused
<1>7. g = NewFlow("c", "opening", n) \/ g = Refused
  BY <1>5
<1>8. Firm(flow["c"][i], g)
  BY <1>0, <1>3, <1>7, AdmittedFirm, RefusedFirm
<1> QED
  BY <1>0, <1>1, <1>6, <1>8, TaskFirm

\* OPEN arrives.
LEMMA OpenArrivesEnds ==
  ASSUME FInv, DInv, EInv, FInv', DispatchOpen
  PROVE  EInv'
<1>0. "s" \in Ends /\ Peer("s") = "c" /\ "connecting" \in NewTasks /\ "c" \in Ends
  BY DEF Ends, Peer, NewTasks
<1>1. wire["c"] # <<>> /\ wire' = [wire EXCEPT !["c"] = Tail(@)] /\ Arrived("s").kind = "OPEN"
  BY <1>0 DEF DispatchOpen, Arrives, Arrived
<1>2. PICK w \in Seq(WireRecords) : w = wire["c"] /\ w # <<>>
  BY <1>0, <1>1, QueuesTyped DEF FInv
<1>3. PICK r \in WireRecords : r = Arrived("s") /\ r = Head(w)
  BY <1>0, <1>2 DEF Arrived
<1>4. r.kind = "OPEN" /\ r.sid \in Sids /\ r.credit \in BOOLEAN
  <2>1. r.kind = "OPEN"
    BY <1>1, <1>3
  <2>2. r.credit \in BOOLEAN
    BY DEF WireRecords, OutRecords, CtlRecords, RecordsOf
  <2> QED
    BY <2>1, <2>2, SidOfReset
<1>5. PICK i \in Sids, n \in BOOLEAN : i = r.sid /\ n = r.credit
  BY <1>4
<1>6. Holds(w, "OPEN", i)
  <2>1. TailOrder(w)
    BY <1>2, TailFacts
  <2> QED
    BY <1>3, <1>4, <1>5, <2>1 DEF TailOrder
<1>7. flow["s"][i] = NoFlow
  <2>1. Unopened(i)
    BY <1>2, <1>6 DEF FInv, OpenOnce
  <2> QED
    BY <1>0, <2>1, FlowFacts DEF Sound, Unopened
<1>8. PICK g : /\ flow' = [flow EXCEPT !["s"][i] = g]
               /\ \/ g = NewFlow("s", "connecting", n) /\ out' = out
                  \/ g = Refused /\ ReaderControl("s", RstRecord(i, FALSE))
  <2>1. CASE (r.credit => neg["s"] = "credit") /\ CanAllocate("s")
    <3>1. flow' = [flow EXCEPT !["s"][r.sid] = NewFlow("s", "connecting", r.credit)] /\ out' = out
      BY <1>3, <2>1, Zenon DEF DispatchOpen
    <3> QED
      BY <1>5, <3>1, Zenon
  <2>2. CASE ~((r.credit => neg["s"] = "credit") /\ CanAllocate("s"))
    <3>1. /\ flow' = [flow EXCEPT !["s"][r.sid].task = "gone"]
          /\ ReaderControl("s", RstRecord(r.sid, FALSE))
      BY <1>3, <2>2, Zenon DEF DispatchOpen
    <3>2. flow' = [flow EXCEPT !["s"][i] = Refused]
      BY <1>5, <1>7, <3>1 DEF Refused
    <3> QED
      BY <1>5, <3>1, <3>2, Zenon
  <2> QED
    BY <2>1, <2>2
<1>9. Firm(flow["s"][i], g)
  BY <1>0, <1>7, <1>8, AdmittedFirm, RefusedFirm
<1>10. Pulls("s")
  BY <1>0, <1>1, <1>8 DEF Pulls
<1>11. \A d \in Ends : WireFirm(d) /\ OutFirm(d)
  BY <1>0, <1>10, PullQueues
<1>12. flow' = [flow EXCEPT !["s"][i] = g]
  BY <1>8
<1> QED
  BY <1>0, <1>9, <1>11, <1>12, OneFirm

\* OPEN is sent.
LEMMA SendOpenEnds ==
  ASSUME FInv, DInv, EInv, FInv', NEW i \in Sids, SendOpen(i)
  PROVE  EInv'
<1>0. out \in [Ends -> Seq(OutRecords)] /\ "c" \in Ends
  BY DEF FInv, Values, Ends
<1>1. PICK f \in FlowSet : f = flow["c"][i]
  BY <1>0, TaskFacts
<1>2. PICK r : r = OpenRecord(i, f.negotiated)
  OBVIOUS
<1>3. PICK g : g = [f EXCEPT !.task = "bridged"]
  OBVIOUS
<1>4. /\ flow' = [flow EXCEPT !["c"][i] = g] /\ Send("c", r) /\ wire' = wire
      /\ f.task \notin {"none", "gone"}
  <2>1. /\ flow' = [flow EXCEPT !["c"][i] = [f EXCEPT !.task = "bridged"]]
        /\ Send("c", r) /\ wire' = wire /\ f.task \notin {"none", "gone"}
    BY <1>1, <1>2 DEF SendOpen
  <2> QED
    BY <1>3, <2>1, Zenon
<1>5. r \in WireRecords /\ r.kind = "OPEN"
  <2>1. f.negotiated \in BOOLEAN /\ <<>> \in Seq(Int)
    BY DEF FlowSet
  <2>2. r \in OutRecords /\ r.kind = "OPEN"
    BY <1>2, <2>1 DEF OpenRecord, Record, OutRecords, RecordsOf
  <2> QED
    BY <2>2 DEF WireRecords
<1>6. SameMark(f, g)
  BY <1>3, <1>4 DEF FlowSet, SameMark
<1>7. g.fin = f.fin /\ g.down = f.down /\ g.got = f.got /\ g.bytes = f.bytes /\ g.up = f.up
  BY <1>3 DEF FlowSet
<1>8. SameSending(f, g)
  BY <1>3 DEF FlowSet, SameSending
<1>9. Unended(f, g)
  BY <1>7 DEF Unended, Seen
<1>10. Firm(f, g)
  BY <1>6, <1>7, <1>8, <1>9, UnendedFirm
<1>11. \A d \in Ends : out'[d] = out[d] \/ out'[d] = Append(out[d], r)
  BY <1>0, <1>4 DEF Send
<1>12. \A d \in Ends : WireFirm(d) /\ OutFirm(d)
  BY <1>4, <1>5, <1>11 DEF WireFirm, OutFirm
<1>13. flow' = [flow EXCEPT !["c"][i] = g]
  BY <1>4
<1> QED
  BY <1>0, <1>1, <1>10, <1>12, <1>13, OneFirm

\* A queue that stays as it is moves nothing.
LEMMA SameLessens ==
  ASSUME NEW w, NEW o, NEW i, NEW k
  PROVE  Lessens(w, w, o, o, i, k)
  BY DEF Lessens

\* The uplink gives a payload or the FIN to the output lane.
LEMMA SendEnds ==
  ASSUME FInv, DInv, EInv, FInv', NEW e \in Ends, NEW i \in Sids, SendData(e, i) \/ SendClose(e, i)
  PROVE  EInv'
<1>0. /\ out \in [Ends -> Seq(OutRecords)] /\ out[e] \in Seq(WireRecords) /\ wire[e] \in Seq(WireRecords)
      /\ flow \in [Ends -> [Sids -> FlowSet]]
  BY QueuesTyped DEF FInv, Values
<1>1. PICK f \in FlowSet : f = flow[e][i] /\ Sound(f)
  BY TaskFacts
<1>2. PICK g, r :
        /\ flow' = [flow EXCEPT ![e][i] = g] /\ Send(e, r) /\ wire' = wire
        /\ f.task = "bridged" /\ f.up # "done"
        /\ \/ g = [f EXCEPT !.taken = <<>>] /\ r = DataRecord(i, f.taken)
           \/ g = [f EXCEPT !.up = "done"] /\ r = CloseRecord(i)
  <2>1. CASE SendData(e, i)
    <3>1. /\ flow' = [flow EXCEPT ![e][i] = [f EXCEPT !.taken = <<>>]] /\ Send(e, DataRecord(i, f.taken))
          /\ wire' = wire /\ f.task = "bridged" /\ f.taken # <<>>
      BY <1>1, <2>1 DEF SendData, Bridged
    <3>2. f.up # "done"
      BY <1>1, <3>1, Zenon DEF Sound
    <3> QED
      BY <3>1, <3>2, Zenon
  <2>2. CASE SendClose(e, i)
    <3>1. /\ flow' = [flow EXCEPT ![e][i] = [f EXCEPT !.up = "done"]] /\ Send(e, CloseRecord(i))
          /\ wire' = wire /\ f.task = "bridged" /\ f.up # "done"
      BY <1>1, <2>2 DEF SendClose, Bridged
    <3> QED
      BY <3>1, Zenon
  <2> QED
    BY <2>1, <2>2
<1>3. g \in FlowSet /\ Sound(g) /\ flow'[e][i] = g
  BY <1>2, NewFlowFacts, Zenon
<1>4. PICK p \in Ends : p = Peer(e) /\ Peer(p) = e /\ p # e
  BY PeerFacts
<1>5. PICK h \in FlowSet : h = flow[p][i] /\ flow'[p][i] = h
  BY <1>0, <1>2, <1>4
<1>6. /\ r \in WireRecords /\ r.sid = i /\ r.kind \in {"DATA", "CLOSE"}
      /\ r.kind = "CLOSE" => g.up = "done" /\ SameSending(f, g)
  <2>1. f.taken \in Seq(Int) /\ <<>> \in Seq(Int)
    BY DEF FlowSet
  <2>2. CASE g = [f EXCEPT !.taken = <<>>] /\ r = DataRecord(i, f.taken)
    <3>1. r \in OutRecords /\ r.kind = "DATA" /\ r.sid = i
      BY <2>1, <2>2 DEF DataRecord, Record, OutRecords, RecordsOf
    <3> QED
      BY <3>1 DEF WireRecords
  <2>3. CASE g = [f EXCEPT !.up = "done"] /\ r = CloseRecord(i)
    <3>1. r \in OutRecords /\ r.kind = "CLOSE" /\ r.sid = i
      BY <2>1, <2>3 DEF CloseRecord, Record, OutRecords, RecordsOf
    <3>2. g.up = "done" /\ SameSending(f, g)
      BY <2>3 DEF FlowSet, SameSending
    <3> QED
      BY <3>1, <3>2 DEF WireRecords
  <2> QED
    BY <1>2, <2>2, <2>3
<1>7. /\ g.outValid = f.outValid /\ g.live = f.live /\ g.task = f.task /\ g.fin = f.fin
      /\ g.down = f.down /\ g.got = f.got /\ g.bytes = f.bytes
  <2>1. CASE g = [f EXCEPT !.taken = <<>>]
    BY <2>1 DEF FlowSet
  <2>2. CASE g = [f EXCEPT !.up = "done"]
    BY <2>2 DEF FlowSet
  <2> QED
    BY <1>2, <2>1, <2>2
<1>8. /\ out'[e] = Append(out[e], r) /\ wire'[e] = wire[e]
      /\ \A d \in Ends : d # e => out'[d] = out[d] /\ wire'[d] = wire[d]
  BY <1>0, <1>2 DEF Send
<1>9. Ending(wire[e], out[e], i, f, h) /\ Ending(wire[p], out[p], i, h, f)
  BY <1>1, <1>4, <1>5 DEF EInv
<1>10. /\ ~Holds(wire[e], "CLOSE", i) /\ ~Holds(out[e], "CLOSE", i)
       /\ ~(h.live = TRUE /\ h.fin = TRUE) /\ (h.live = TRUE /\ h.down = "done" => h.bytes = 0)
  BY <1>2, <1>9 DEF Ending
<1>11. Ending(wire'[p], out'[p], i, h, g)
  <2>1. Seen(g) = Seen(f)
    BY <1>7 DEF Seen
  <2>2. Firm(f, g) /\ Firm(h, h)
    BY <1>2, <1>7, <2>1, SameFirm DEF Firm, Awaits
  <2>3. Ending(wire[p], out[p], i, h, g)
    BY <1>9, <2>2, SameLessens, FirmEnding
  <2> QED
    BY <1>4, <1>8, <2>3
<1>12. Ending(wire'[e], out'[e], i, g, h)
  <2>1. AppendOrder(out[e], r) /\ AppendDatas(out[e], r, i)
    BY <1>0, <1>6, AppendFacts, AppendPayload
  <2>2. CASE r.kind = "DATA"
    <3>1. ~Holds(out'[e], "CLOSE", i)
      BY <1>8, <1>10, <2>1, <2>2 DEF AppendOrder
    <3> QED
      BY <1>8, <1>10, <3>1 DEF Ending
  <2>3. CASE r.kind = "CLOSE"
    <3>1. Datas(out'[e], i) = Datas(out[e], i)
      BY <1>8, <2>1, <2>3 DEF AppendDatas
    <3>2. Handed(g) = Handed(f) /\ g.up = "done"
      BY <1>6, <2>3 DEF SameSending, Handed
    <3>3. run[e] = TRUE
      BY <1>2 DEF Send, FInv, Values
    <3>4. f.outValid = TRUE => f.live = TRUE
      <4>1. f.live \in BOOLEAN
        BY DEF FlowSet
      <4> QED
        BY <1>1, <1>2, <4>1, Zenon DEF Sound
    <3>5. Gapless(TRUE, Datas(wire[e], i), Datas(out[e], i), f, h)
      BY <1>1, <1>4, <1>5, <3>3, DirectionFacts DEF Directed, Delivered
    <3>6. Awaits(h) /\ g.outValid = TRUE =>
            Reaches(Handed(g), Seen(h), Datas(wire'[e], i) \cup Datas(out'[e], i))
      BY <1>7, <1>8, <3>1, <3>2, <3>4, <3>5 DEF Gapless
    <3> QED
      BY <1>8, <1>10, <3>2, <3>6 DEF Ending
  <2> QED
    BY <1>6, <2>2, <2>3
<1>13. ASSUME NEW d \in Ends PROVE Closed(wire'[d]) /\ Closed(out'[d])
  <2>1. CASE d = e
    <3>1. Closed(wire[e]) /\ Closed(out[e])
      BY DEF EInv
    <3>2. Closed(Append(out[e], r))
      BY <1>0, <1>6, <1>10, <3>1, StillClosed
    <3> QED
      BY <1>8, <2>1, <3>1, <3>2
  <2>2. CASE d # e
    BY <1>8, <2>2 DEF EInv
  <2> QED
    BY <2>1, <2>2
<1>14. ASSUME NEW d \in Ends, NEW k \in Sids, k # i
       PROVE  /\ flow'[d][k] = flow[d][k]
              /\ Same(wire[d], wire'[d], "DATA", k) /\ Same(wire[d], wire'[d], "CLOSE", k)
              /\ Same(out[d], out'[d], "DATA", k) /\ Same(out[d], out'[d], "CLOSE", k)
  <2>1. flow'[d][k] = flow[d][k]
    BY <1>0, <1>2, <1>14
  <2>2. wire'[d] = wire[d] /\ (out'[d] = out[d] \/ out'[d] = Append(out[d], r))
    BY <1>8
  <2> QED
    BY <1>6, <1>14, <2>1, <2>2 DEF Same
<1>15. \A d \in Ends : Ending(wire'[d], out'[d], i, flow'[d][i], flow'[Peer(d)][i])
  <2>1. \A d \in Ends : d = e \/ d = p
    BY <1>4 DEF Ends
  <2> QED
    BY <1>3, <1>4, <1>5, <1>11, <1>12, <2>1
<1> QED
  BY <1>13, <1>14, <1>15, OtherEndings, Zenon

\* The output lane hands its first record to the wire.
LEMMA OutputFedEnding ==
  ASSUME NEW w \in Seq(WireRecords), NEW q \in Seq(WireRecords), q # <<>>, NEW r \in WireRecords, r = Head(q),
         NEW i \in Sids, i = r.sid, r.kind \in {"OPEN", "DATA", "CLOSE"},
         NEW f, NEW h, f.outValid = TRUE, Closed(q), Ending(w, q, i, f, h)
  PROVE  /\ Ending(Append(w, r), Tail(q), i, f, h)
         /\ r.kind = "DATA" => ~Holds(w, "CLOSE", r.sid)
<1>1. TailOrder(q) /\ TailDatas(q, i) /\ AppendOrder(w, r) /\ AppendDatas(w, r, i)
  BY TailFacts, TailPayload, AppendFacts, AppendPayload
<1>2. PICK t, v : t = Tail(q) /\ v = Append(w, r)
  OBVIOUS
<1>3. Holds(t, "CLOSE", i) => Holds(q, "CLOSE", i)
  BY <1>1, <1>2 DEF TailOrder
<1>4. CASE r.kind = "DATA"
  <2>1. Datas(q, i) = Datas(t, i) \cup {r.data} /\ Datas(v, i) = Datas(w, i) \cup {r.data}
    BY <1>1, <1>2, <1>4 DEF TailDatas, AppendDatas
  <2>2. ~Holds(w, "CLOSE", i)
    BY <2>1 DEF Ending
  <2>3. ~Holds(v, "CLOSE", i)
    BY <1>1, <1>2, <1>4, <2>2 DEF AppendOrder
  <2>4. Datas(v, i) \cup Datas(t, i) = Datas(w, i) \cup Datas(q, i)
    BY <2>1
  <2>5. Ending(v, t, i, f, h)
    BY <1>3, <2>3, <2>4 DEF Ending
  <2> QED
    BY <1>2, <2>2, <2>5
<1>5. CASE r.kind = "CLOSE"
  <2>1. Datas(q, i) = Datas(t, i) /\ Datas(v, i) = Datas(w, i)
    BY <1>1, <1>2, <1>5 DEF TailDatas, AppendDatas
  <2>2. Holds(q, "CLOSE", i) /\ ~Holds(t, "DATA", i)
    BY <1>1, <1>2, <1>5 DEF TailOrder
  <2>3. Datas(t, i) = {}
    BY <2>2, NoDatas
  <2>4. Datas(v, i) \cup Datas(t, i) = Datas(w, i) \cup Datas(q, i) /\ Datas(w, i) \cup Datas(q, i) = Datas(w, i)
    BY <2>1, <2>3
  <2>5. Awaits(h) => Reaches(Handed(f), Seen(h), Datas(v, i))
    BY <2>1, <2>2, <2>4 DEF Ending
  <2>6. Awaits(h) => Reaches(Handed(f), Seen(h), Datas(v, i) \cup Datas(t, i))
    BY <2>1, <2>4, <2>5
  <2>7. f.up = "done"
    BY <2>2 DEF Ending
  <2>8. Ending(v, t, i, f, h)
    BY <2>3, <2>5, <2>6, <2>7 DEF Ending
  <2> QED
    BY <1>2, <1>5, <2>8
<1>6. CASE r.kind = "OPEN"
  <2>1. Datas(q, i) = Datas(t, i) /\ Datas(v, i) = Datas(w, i)
    BY <1>1, <1>2, <1>6 DEF TailDatas, AppendDatas
  <2>2. Holds(v, "CLOSE", i) => Holds(w, "CLOSE", i)
    BY <1>1, <1>2, <1>6 DEF AppendOrder
  <2>3. Ending(v, t, i, f, h)
    BY <1>3, <2>1, <2>2 DEF Ending
  <2> QED
    BY <1>2, <1>6, <2>3
<1> QED
  BY <1>4, <1>5, <1>6

\* Or drops it, once its stream is closed.
LEMMA OutputDroppedEnding ==
  ASSUME NEW w, NEW q \in Seq(WireRecords), q # <<>>, NEW i, NEW f, NEW h, f.outValid = FALSE,
         Ending(w, q, i, f, h)
  PROVE  Ending(w, Tail(q), i, f, h)
<1>1. TailOrder(q) /\ TailDatas(q, i)
  BY TailFacts, TailPayload
<1>2. Holds(Tail(q), "CLOSE", i) => Holds(q, "CLOSE", i)
  BY <1>1 DEF TailOrder
<1>3. Datas(q, i) = {} => Datas(Tail(q), i) = {}
  BY <1>1 DEF TailDatas
<1> QED
  BY <1>2, <1>3 DEF Ending

\* The output lane.
LEMMA OutputEnds ==
  ASSUME FInv, DInv, EInv, FInv', NEW e \in Ends, WriteOutput(e)
  PROVE  EInv'
<1>0. /\ wire \in [Ends -> Seq(WireRecords)] /\ out \in [Ends -> Seq(OutRecords)]
      /\ out[e] \in Seq(WireRecords) /\ wire[e] \in Seq(WireRecords)
  BY QueuesTyped DEF FInv, Values
<1>1. /\ out[e] # <<>> /\ Fed(e, Head(out[e])) /\ out' = [out EXCEPT ![e] = Tail(@)]
      /\ flow' = flow
  BY DEF WriteOutput
<1>2. PICK r \in OutRecords : r = Head(out[e]) /\ r \in WireRecords
  BY <1>0, <1>1 DEF WireRecords
<1>3. r.kind \in {"OPEN", "DATA", "CLOSE"} /\ r.sid \in Sids /\ r.owned = TRUE
  BY DEF OutRecords, RecordsOf
<1>i. PICK i \in Sids : i = r.sid
  BY <1>3
<1>4. PICK f \in FlowSet : f = flow[e][i] /\ f.outValid \in BOOLEAN
  BY TaskFacts DEF FlowSet
<1>5. \/ f.outValid = TRUE /\ wire' = [wire EXCEPT ![e] = Append(@, r)]
      \/ f.outValid = FALSE /\ wire' = wire
  BY <1>1, <1>2, <1>3, <1>i, <1>4 DEF Fed
<1>6. \/ f.outValid = TRUE /\ wire'[e] = Append(wire[e], r)
      \/ f.outValid = FALSE /\ wire'[e] = wire[e]
  BY <1>0, <1>5
<1>7. /\ out'[e] = Tail(out[e])
      /\ \A d \in Ends : d # e => out'[d] = out[d] /\ wire'[d] = wire[d]
  BY <1>0, <1>1, <1>5
<1>8. PICK p \in Ends : p = Peer(e) /\ Peer(p) = e /\ p # e
  BY PeerFacts
<1>9. PICK h : h = flow[p][i]
  OBVIOUS
<1>10. /\ Closed(out[e]) /\ Closed(wire[e])
       /\ Ending(wire[e], out[e], i, f, h) /\ Ending(wire[p], out[p], i, h, f)
  BY <1>4, <1>8, <1>9 DEF EInv
<1>11. /\ Ending(wire'[e], out'[e], i, f, h)
       /\ f.outValid = TRUE => (r.kind = "DATA" => ~Holds(wire[e], "CLOSE", r.sid))
  <2>1. CASE f.outValid = TRUE
    <3>1. /\ Ending(Append(wire[e], r), Tail(out[e]), i, f, h)
          /\ r.kind = "DATA" => ~Holds(wire[e], "CLOSE", r.sid)
      BY <1>0, <1>1, <1>2, <1>3, <1>i, <1>10, <2>1, OutputFedEnding
    <3> QED
      BY <1>6, <1>7, <2>1, <3>1
  <2>2. CASE f.outValid = FALSE
    <3>1. Ending(wire[e], Tail(out[e]), i, f, h)
      BY <1>0, <1>1, <1>10, <2>2, OutputDroppedEnding
    <3> QED
      BY <1>6, <1>7, <2>2, <3>1
  <2> QED
    BY <1>4, <2>1, <2>2
<1>12. ASSUME NEW d \in Ends PROVE Closed(wire'[d]) /\ Closed(out'[d])
  <2>1. CASE d = e
    <3>1. Closed(Tail(out[e]))
      BY <1>0, <1>1, <1>10, StillClosed
    <3>2. Closed(wire'[e])
      BY <1>0, <1>2, <1>6, <1>10, <1>11, StillClosed
    <3> QED
      BY <1>7, <2>1, <3>1, <3>2
  <2>2. CASE d # e
    BY <1>7, <2>2 DEF EInv
  <2> QED
    BY <2>1, <2>2
<1>13. ASSUME NEW d \in Ends, NEW k \in Sids, k # i
       PROVE  /\ flow'[d][k] = flow[d][k]
              /\ Same(wire[d], wire'[d], "DATA", k) /\ Same(wire[d], wire'[d], "CLOSE", k)
              /\ Same(out[d], out'[d], "DATA", k) /\ Same(out[d], out'[d], "CLOSE", k)
  <2>1. wire'[d] = wire[d] \/ wire'[d] = Append(wire[d], r)
    BY <1>6, <1>7
  <2>2. out'[d] = out[d] \/ (out[d] # <<>> /\ out'[d] = Tail(out[d]) /\ Head(out[d]) = r)
    BY <1>1, <1>2, <1>7
  <2> QED
    BY <1>1, <1>2, <1>i, <1>13, <2>1, <2>2 DEF Same
<1>14. \A d \in Ends : Ending(wire'[d], out'[d], i, flow'[d][i], flow'[Peer(d)][i])
  <2>1. \A d \in Ends : d = e \/ d = p
    BY <1>8 DEF Ends
  <2>2. wire'[p] = wire[p] /\ out'[p] = out[p]
    BY <1>7, <1>8
  <2> QED
    BY <1>1, <1>4, <1>8, <1>9, <1>10, <1>11, <2>1, <2>2
<1> QED
  BY <1>12, <1>13, <1>14, OtherEndings, Zenon

-----------------------------------------------------------------------------
(* The payload or the FIN is accepted.                                     *)

\* What the receiver of a stream accepts does not concern its own uplink.
LEMMA SenderEnding ==
  ASSUME NEW w, NEW o, NEW i, NEW f, NEW g, NEW h, Ending(w, o, i, f, h),
         g.up = f.up, g.outValid = f.outValid, Handed(g) = Handed(f)
  PROVE  Ending(w, o, i, g, h)
  BY DEF Ending

\* The first payload is accepted: what is left reaches as far.
LEMMA ReachesOn ==
  ASSUME NEW n \in Int, NEW a \in Int, NEW b \in Int, NEW S, NEW x,
         a < b, LastByte(x) = b, b <= n, Reaches(n, a, S \cup {x})
  PROVE  Reaches(n, b, S)
<1>1. n # a
  OBVIOUS
<1>2. PICK y \in S \cup {x} : LastByte(y) = n
  BY <1>1 DEF Reaches
<1>3. y \in S \/ n = b
  BY <1>2
<1> QED
  BY <1>2, <1>3 DEF Reaches

\* A payload arrives and is accepted; f becomes g.
LEMMA AcceptedEnding ==
  ASSUME NEW w \in Seq(WireRecords), w # <<>>, NEW o, NEW i, Head(w).kind = "DATA", Head(w).sid = i,
         NEW h, NEW f, NEW g, NEW x, x = Head(w).data, Ending(w, o, i, h, f),
         Awaits(f), g.fin = FALSE, g.down # "done",
         Seen(f) \in Int, Handed(h) \in Int, Seen(g) \in Int,
         Seen(f) < Seen(g), LastByte(x) = Seen(g), Seen(g) <= Handed(h)
  PROVE  Ending(Tail(w), o, i, h, g)
<1>1. TailOrder(w) /\ TailDatas(w, i)
  BY TailFacts, TailPayload
<1>2. Holds(Tail(w), "CLOSE", i) => Holds(w, "CLOSE", i)
  BY <1>1 DEF TailOrder
<1>3. PICK W, O : W = Datas(Tail(w), i) /\ O = Datas(o, i)
  OBVIOUS
<1>4. Datas(w, i) = W \cup {x}
  BY <1>1, <1>3 DEF TailDatas
<1>5. Holds(w, "CLOSE", i) => Reaches(Handed(h), Seen(g), W)
  <2>1. Holds(w, "CLOSE", i) => Reaches(Handed(h), Seen(f), W \cup {x})
    BY <1>4 DEF Ending
  <2> QED
    BY <2>1, ReachesOn
<1>6. Holds(o, "CLOSE", i) /\ h.outValid = TRUE => Reaches(Handed(h), Seen(g), W \cup O)
  <2>1. (W \cup {x}) \cup O = (W \cup O) \cup {x}
    OBVIOUS
  <2>2. Holds(o, "CLOSE", i) /\ h.outValid = TRUE => Reaches(Handed(h), Seen(f), (W \cup O) \cup {x})
    BY <1>3, <1>4, <2>1 DEF Ending
  <2> QED
    BY <2>2, ReachesOn
<1>7. Holds(Tail(w), "CLOSE", i) \/ Holds(o, "CLOSE", i) => h.up = "done"
  BY <1>2 DEF Ending
<1>8. Holds(Tail(w), "CLOSE", i) => O = {}
  BY <1>2, <1>3 DEF Ending
<1> QED
  BY <1>2, <1>3, <1>5, <1>6, <1>7, <1>8 DEF Ending

\* The FIN arrives and is accepted.
LEMMA FinAcceptedEnding ==
  ASSUME NEW w \in Seq(WireRecords), w # <<>>, NEW o, NEW i \in Sids, Head(w).kind = "CLOSE", Head(w).sid = i,
         NEW h, NEW f, NEW g, Closed(w), Ending(w, o, i, h, f),
         Awaits(f), g.down # "done", Seen(g) = Seen(f)
  PROVE  Ending(Tail(w), o, i, h, g)
<1>1. TailOrder(w) /\ TailDatas(w, i)
  BY TailFacts, TailPayload
<1>2. /\ Holds(w, "CLOSE", i) /\ ~Holds(Tail(w), "DATA", i)
      /\ Holds(Tail(w), "CLOSE", i) => Holds(w, "CLOSE", i)
  BY <1>1 DEF TailOrder
<1>3. Datas(w, i) = {}
  <2>1. Datas(Tail(w), i) = {}
    BY <1>2, NoDatas
  <2> QED
    BY <1>1, <2>1 DEF TailDatas
<1>4. h.up = "done" /\ Datas(o, i) = {} /\ Reaches(Handed(h), Seen(f), {})
  BY <1>2, <1>3 DEF Ending
<1>5. Handed(h) = Seen(g)
  BY <1>4 DEF Reaches
<1>6. \A S : Reaches(Handed(h), Seen(g), S)
  BY <1>5 DEF Reaches
<1> QED
  BY <1>4, <1>5, <1>6 DEF Ending

\* DATA or CLOSE is enqueued.
LEMMA EnqueuedEnds ==
  ASSUME FInv, DInv, EInv, FInv', NEW e \in Ends, DispatchPayload(e), NEW i \in Sids, i = Arrived(e).sid,
         flow[e][i].live = TRUE, flow[e][i].fin = FALSE, flow[e][i].cancelled = FALSE,
         Fits(flow[e][i], e, Arrived(e).data)
  PROVE  EInv'
<1>1. /\ wire[Peer(e)] # <<>> /\ wire' = [wire EXCEPT ![Peer(e)] = Tail(@)]
      /\ Arrived(e).kind \in {"DATA", "CLOSE"}
  BY DEF DispatchPayload, Arrives, Arrived
<1>2. PICK f \in FlowSet : f = flow[e][i] /\ Steady(e, f) /\ Sound(f)
  BY TaskFacts
<1>3. PICK p \in Ends : p = Peer(e) /\ Peer(p) = e /\ p # e
  BY PeerFacts
<1>q. /\ wire \in [Ends -> Seq(WireRecords)] /\ wire[p] \in Seq(WireRecords)
      /\ flow \in [Ends -> [Sids -> FlowSet]]
  BY DEF FInv, Values
<1>4. PICK r \in WireRecords : r = Arrived(e) /\ r = Head(wire[p])
  BY <1>1, <1>3, <1>q DEF Arrived
<1>5. PICK x : x = r.data
  OBVIOUS
<1>6. x \in Seq(Int)
  BY <1>4, <1>5 DEF WireRecords, OutRecords, CtlRecords, RecordsOf
<1>7. PICK g : g = Enqueued(f, r)
  OBVIOUS
<1>8. flow' = [flow EXCEPT ![e][i] = g] /\ out' = out
  <2>1. flow' = [flow EXCEPT ![e][i] = Enqueued(f, r)] /\ out' = out
    <3>1. f.live /\ ~f.fin /\ ~f.cancelled /\ Fits(f, e, r.data)
      BY <1>2, <1>4
    <3> QED
      BY <1>2, <1>4, <3>1, Zenon DEF DispatchPayload
  <2> QED
    BY <1>7, <2>1, Zenon
<1>9. g \in FlowSet /\ flow'[e][i] = g
  BY <1>8, NewFlowFacts
<1>10. PICK c, b, s, v : /\ c = f.credit - Len(x) /\ b = f.bytes + Len(x)
                         /\ s = (IF x = <<>> THEN f.rq ELSE Append(f.rq, x)) /\ v = (r.kind = "CLOSE")
  OBVIOUS
<1>11. g = [f EXCEPT !.credit = c, !.bytes = b, !.rq = s, !.fin = v]
  <2>1. g = [f EXCEPT !.credit = f.credit - Len(x), !.bytes = f.bytes + Len(x),
                      !.rq = IF x = <<>> THEN f.rq ELSE Append(f.rq, x), !.fin = r.kind = "CLOSE"]
    BY <1>5, <1>7 DEF Enqueued
  <2> QED
    BY <1>10, <2>1, Zenon
<1>12. /\ g.bytes = b /\ g.fin = v /\ g.got = f.got /\ g.down = f.down
       /\ g.up = f.up /\ g.outValid = f.outValid
       /\ g.read = f.read /\ g.buf = f.buf /\ g.taken = f.taken
  BY <1>11 DEF FlowSet
<1>13. g.down # "done" /\ Awaits(f) /\ Handed(g) = Handed(f)
  <2>1. f.down # "done"
    BY <1>2 DEF Sound
  <2> QED
    BY <1>2, <1>12, <2>1 DEF Awaits, Handed
<1>14. PICK h \in FlowSet : h = flow[p][i] /\ flow'[p][i] = h
  BY <1>q, <1>3, <1>8
<1>15. PICK w \in Seq(WireRecords) : w = wire[p] /\ w # <<>>
  BY <1>1, <1>3, <1>q
<1>16. /\ wire'[p] = Tail(w) /\ wire'[e] = wire[e] /\ out'[p] = out[p] /\ out'[e] = out[e]
  BY <1>1, <1>3, <1>q, <1>8, <1>15
<1>17. /\ Ending(w, out[p], i, h, f) /\ Ending(wire[e], out[e], i, f, h) /\ Closed(w)
       /\ Closed(out[p]) /\ Closed(wire[e]) /\ Closed(out[e])
  BY <1>2, <1>3, <1>14, <1>15 DEF EInv
<1>18. Head(w).kind = r.kind /\ Head(w).sid = i /\ Head(w).data = x
  BY <1>4, <1>5, <1>15
<1>19. Ending(wire'[p], out'[p], i, h, g)
  <2>1. CASE r.kind = "CLOSE"
    <3>1. x = <<>>
      <4>1. Bare(wire[p])
        BY <1>3 DEF DInv, ClosesEmpty
      <4> QED
        BY <1>4, <1>5, <1>q, <1>15, <2>1, <4>1, BareKept
    <3>2. f.bytes \in Int /\ Len(x) = 0
      BY <3>1 DEF FlowSet
    <3>3. g.bytes = f.bytes
      BY <1>10, <1>12, <3>2
    <3>4. Seen(g) = Seen(f)
      BY <1>12, <3>3 DEF Seen
    <3>5. Ending(Tail(w), out[p], i, h, g)
      BY <1>13, <1>17, <1>18, <1>15, <2>1, <3>4, FinAcceptedEnding
    <3> QED
      BY <1>16, <3>5
  <2>2. CASE r.kind = "DATA"
    <3>1. Block(x) /\ LastByte(x) = Seen(f) + Len(x)
      BY <1>1, <1>2, <1>4, <1>5, <1>13, <2>2, ArrivingPayload
    <3>2. Len(x) >= 1
      BY <1>6, <3>1, SMTT(30) DEF Block
    <3>3. f.bytes \in Int /\ f.got \in Seq(Int) /\ Len(x) \in Nat
      BY <1>6 DEF FlowSet
    <3>4. Len(f.got) \in Nat
      BY <3>3
    <3>5. Seen(f) = Len(f.got) + f.bytes /\ Seen(g) = Len(f.got) + b
      BY <1>12 DEF Seen
    <3>6. Seen(f) \in Int /\ Seen(g) \in Int /\ Seen(g) = Seen(f) + Len(x) /\ Seen(f) < Seen(g)
      BY <1>10, <3>2, <3>3, <3>4, <3>5
    <3>7. Handed(h) \in Int
      BY Counts
    <3>8. LastByte(x) <= Handed(h)
      <4>1. x \in Datas(w, i)
        <5>1. TailDatas(w, i)
          BY <1>15, TailPayload
        <5> QED
          BY <1>18, <2>2, <5>1 DEF TailDatas
      <4>2. Numbered(Datas(w, i), Datas(out[p], i), h, f)
        BY <1>2, <1>3, <1>14, <1>15, DirectionFacts DEF Directed, Delivered
      <4> QED
        BY <4>1, <4>2 DEF Numbered
    <3>9. LastByte(x) = Seen(g) /\ Seen(g) <= Handed(h)
      BY <3>1, <3>6, <3>8
    <3>10. g.fin = FALSE
      BY <1>10, <1>12, <2>2
    <3>11. Ending(Tail(w), out[p], i, h, g)
      BY <1>13, <1>15, <1>17, <1>18, <2>2, <3>6, <3>7, <3>9, <3>10, AcceptedEnding
    <3> QED
      BY <1>16, <3>11
  <2> QED
    BY <1>1, <1>4, <2>1, <2>2
<1>20. Ending(wire'[e], out'[e], i, g, h)
  <2>1. Ending(wire[e], out[e], i, g, h)
    BY <1>12, <1>13, <1>17, SenderEnding
  <2> QED
    BY <1>16, <2>1
<1>e. \A d \in Ends : d = e \/ d = p
  BY <1>3 DEF Ends
<1>21. \A d \in Ends : Closed(wire'[d]) /\ Closed(out'[d])
  <2>1. Closed(Tail(w))
    BY <1>15, <1>17, StillClosed
  <2> QED
    BY <1>e, <1>16, <1>17, <2>1
<1>22. ASSUME NEW d \in Ends, NEW k \in Sids, k # i
       PROVE  /\ flow'[d][k] = flow[d][k]
              /\ Same(wire[d], wire'[d], "DATA", k) /\ Same(wire[d], wire'[d], "CLOSE", k)
              /\ Same(out[d], out'[d], "DATA", k) /\ Same(out[d], out'[d], "CLOSE", k)
  <2>1. flow'[d][k] = flow[d][k]
    BY <1>q, <1>8, <1>22
  <2>2. wire'[d] = wire[d] \/ (wire[d] # <<>> /\ wire'[d] = Tail(wire[d]) /\ Head(wire[d]).sid = i)
    BY <1>e, <1>15, <1>16, <1>18
  <2>3. out'[d] = out[d]
    BY <1>8
  <2> QED
    BY <1>22, <2>1, <2>2, <2>3 DEF Same
<1>23. \A d \in Ends : Ending(wire'[d], out'[d], i, flow'[d][i], flow'[Peer(d)][i])
  BY <1>e, <1>3, <1>9, <1>14, <1>19, <1>20
<1> QED
  BY <1>21, <1>22, <1>23, OtherEndings, Zenon

\* DATA and CLOSE.
LEMMA PayloadEnds ==
  ASSUME FInv, DInv, EInv, FInv', NEW e \in Ends, DispatchPayload(e)
  PROVE  EInv'
<1>1. wire[Peer(e)] # <<>> /\ Arrived(e).kind # "CAP"
  BY DEF DispatchPayload, Arrives, Arrived
<1>2. PICK i \in Sids : i = Arrived(e).sid
  BY <1>1, ArrivedTyped
<1> DEFINE takes == /\ flow[e][i].live = TRUE /\ flow[e][i].fin = FALSE
                    /\ flow[e][i].cancelled = FALSE /\ Fits(flow[e][i], e, Arrived(e).data)
<1>3. CASE takes
  BY <1>2, <1>3, EnqueuedEnds
<1>4. CASE ~takes
  BY <1>2, <1>4, DroppedEnds
<1> QED
  BY <1>3, <1>4

\* No FIN is under way at the start.
LEMMA InitEInv == Init => EInv
<1> SUFFICES ASSUME Init PROVE EInv
  OBVIOUS
<1>1. \A e \in Ends, i \in Sids : flow[e][i] = NoFlow
  BY DEF Init
<1>2. \A e \in Ends : out[e] = <<>> /\ wire[e] = <<>>
  BY DEF Init
<1>3. NoFlow.live = FALSE
  BY NoFlowNumbers
<1>4. ASSUME NEW e \in Ends, NEW i \in Sids
      PROVE  Ending(wire[e], out[e], i, flow[e][i], flow[Peer(e)][i])
  <2>1. Peer(e) \in Ends
    BY PeerFacts
  <2>2. ~Holds(<<>>, "CLOSE", i)
    BY EmptyFacts
  <2> QED
    BY <1>1, <1>2, <1>3, <2>1, <2>2 DEF Ending
<1>5. \A e \in Ends : Closed(wire[e]) /\ Closed(out[e])
  BY <1>2, EmptyFacts
<1> QED
  BY <1>4, <1>5 DEF EInv

\* Every step keeps the order of the FIN.
LEMMA NextEInv == FInv /\ DInv /\ EInv /\ [Next]_vars => EInv'
<1> SUFFICES ASSUME FInv, DInv, EInv, [Next]_vars PROVE EInv'
  OBVIOUS
<1>f. FInv'
  BY NextFInv
<1>0. "c" \in Ends /\ "s" \in Ends
  BY DEF Ends
<1>q. ASSUME UNCHANGED <<flow, out, wire>> PROVE EInv'
  <2>1. \A d \in Ends : WireFirm(d) /\ OutFirm(d)
    BY <1>q DEF WireFirm, OutFirm
  <2> QED
    BY <1>q, <2>1, SameEndings
<1>1. CASE NegotiationDeadline
  <2>1. UNCHANGED <<flow, out, wire>>
    BY <1>1 DEF NegotiationDeadline
  <2> QED
    BY <1>q, <2>1
<1>2. CASE OpenStream
  BY <1>f, <1>2, OpenEnds
<1>3. ASSUME NEW i \in Sids, SendOpen(i) \/ AbortOpen(i) \/ Connected(i) \/ ConnectFailed(i)
      PROVE  EInv'
  <2>1. CASE SendOpen(i)
    BY <1>f, <2>1, SendOpenEnds
  <2>2. CASE AbortOpen(i) \/ ConnectFailed(i)
    BY <1>f, <1>0, <2>2, TaskEndsEnd
  <2>3. CASE Connected(i)
    BY <1>f, <1>0, <2>3, MarkEnds
  <2> QED
    BY <1>3, <2>1, <2>2, <2>3
<1>4. ASSUME NEW e \in Ends, NEW i \in Sids,
             \/ \E n \in 1..MaxChunk : ReadSocket(e, i, n)
             \/ ReadEof(e, i)
             \/ Uplink(e, i)
             \/ Downlink(e, i)
             \/ Written(e, i)
             \/ PumpError(e, i)
             \/ TaskEnds(e, i)
      PROVE  EInv'
  <2>1. CASE (\E n \in 1..MaxChunk : ReadSocket(e, i, n)) \/ TakeCredit(e, i)
    BY <1>f, <2>1, UplinkEnds
  <2>2. CASE ReadEof(e, i) \/ PumpError(e, i)
    BY <1>f, <2>2, MarkEnds
  <2>3. CASE SendData(e, i) \/ SendClose(e, i)
    BY <1>f, <2>3, SendEnds
  <2>4. CASE Receive(e, i) \/ RaiseCredit(e, i)
    BY <1>f, <2>4, DownlinkEnds
  <2>5. CASE ReceiveFin(e, i)
    BY <1>f, <2>5, FinEnds
  <2>6. CASE Written(e, i)
    BY <1>f, <2>6, WrittenEnds
  <2>7. CASE PublishWin(e, i)
    BY <1>f, <2>7, PublishEnds
  <2>8. CASE BridgeFailed(e, i) \/ BridgeDone(e, i) \/ TaskCancelled(e, i)
    BY <1>f, <2>8, TaskEndsEnd
  <2> QED
    BY <1>4, <2>1, <2>2, <2>3, <2>4, <2>5, <2>6, <2>7, <2>8 DEF Uplink, Downlink, TaskEnds
<1>5. ASSUME NEW e \in Ends,
             WriteControl(e) \/ WriteOutput(e) \/ Dispatch(e) \/ RunEnds(e) \/ ShutdownDrain(e)
      PROVE  EInv'
  <2>1. CASE WriteControl(e)
    BY <1>f, <2>1, ControlEnds
  <2>2. CASE WriteOutput(e)
    BY <1>f, <2>2, OutputEnds
  <2>3. CASE DispatchCap(e)
    BY <1>f, <2>3, CapEnds
  <2>4. CASE DispatchOpen
    BY <1>f, <2>4, OpenArrivesEnds
  <2>5. CASE DispatchPayload(e)
    BY <1>f, <2>5, PayloadEnds
  <2>6. CASE DispatchRst(e)
    BY <1>f, <2>6, RstEnds
  <2>7. CASE DispatchWin(e)
    BY <1>f, <2>7, WinEnds
  <2>8. CASE RunEnds(e)
    BY <1>f, <2>8, RunEndsEnd
  <2>9. CASE ShutdownDrain(e)
    BY <1>f, <2>9, DrainEnds
  <2> QED
    BY <1>5, <2>1, <2>2, <2>3, <2>4, <2>5, <2>6, <2>7, <2>8, <2>9 DEF Dispatch
<1>6. CASE UNCHANGED vars
  <2>1. UNCHANGED <<flow, out, wire>>
    BY <1>6 DEF vars
  <2> QED
    BY <1>q, <2>1
<1> QED
  BY <1>1, <1>2, <1>3, <1>4, <1>5, <1>6 DEF Next

\* The FIN comes after the last byte, on the lanes and in the receive queue, in
\* every reachable state (tcp_mux_flow.rs: uplink, enqueue, receive).
THEOREM EndingInvariant == Spec => []EInv
<1>1. Init => FInv /\ DInv /\ EInv
  BY InitFInv, InitDInv, InitEInv
<1>2. FInv /\ DInv /\ EInv /\ [Next]_vars => (FInv /\ DInv /\ EInv)'
  BY NextFInv, NextDInv, NextEInv
<1> QED
  BY <1>1, <1>2, PTL DEF Spec

\* An application that is shown the FIN has been given every byte.
LEMMA CompleteAtFin ==
  ASSUME FInv, DInv, EInv
  PROVE  FinMeansComplete
<1> SUFFICES ASSUME NEW e \in Ends, NEW i \in Sids, flow[e][i].live, flow[e][i].down = "done"
             PROVE  Len(flow[e][i].got) = flow[Peer(e)][i].read /\ flow[Peer(e)][i].up = "done"
  BY DEF FinMeansComplete
<1>1. PICK p \in Ends : p = Peer(e) /\ Peer(p) = e
  BY PeerFacts
<1>2. PICK h \in FlowSet : h = flow[e][i] /\ Sound(h)
  BY TaskFacts
<1>3. PICK f \in FlowSet : f = flow[p][i] /\ Sound(f)
  BY TaskFacts
<1>4. h.live = TRUE /\ h.down = "done"
  BY <1>2 DEF FlowSet
<1>5. h.fin = TRUE
  BY <1>2, <1>4, Zenon DEF Sound
<1>6. f.up = "done" /\ Seen(h) = Handed(f) /\ h.bytes = 0
  BY <1>1, <1>2, <1>3, <1>4, <1>5 DEF EInv, Ending
<1>7. f.buf = <<>> /\ f.taken = <<>>
  <2>1. f.up # "run"
    BY <1>6
  <2> QED
    BY <1>3, <2>1, Zenon DEF Sound
<1>8. Len(f.buf) = 0 /\ Len(f.taken) = 0
  BY <1>7
<1>9. h.got \in Seq(Int) /\ f.read \in Int
  BY DEF FlowSet
<1>10. Len(h.got) \in Nat
  BY <1>9
<1>11. Seen(h) = Len(h.got)
  BY <1>6, <1>10 DEF Seen
<1>12. Handed(f) = f.read
  BY <1>8, <1>9 DEF Handed
<1>13. Len(h.got) = f.read
  BY <1>6, <1>11, <1>12, Zenon
<1> QED
  BY <1>1, <1>2, <1>3, <1>6, <1>13

\* An application reads a prefix of what the other one wrote, in order, and all of
\* it before the FIN; the two ends agree whether credit counts; no byte check of
\* enqueue, publish_credit or add_credit fails on a negotiated stream: for any
\* number of streams, any windows, chunks, lanes and queue limits, whatever is
\* reset (by a queue of MAX_QUEUED_RECORDS too), refused, cancelled or shut down
\* on the way (tcp_mux_flow.rs: enqueue, receive, publish_credit, peer_window).
THEOREM SafeAlwaysUnderFailure == Spec => []SafeUnderFailure
<1>1. FInv /\ DInv /\ EInv => SafeUnderFailure
  BY DeliveredInOrder, ModesAgree, CompleteAtFin DEF SafeUnderFailure
<1> QED
  BY FlowInvariant, DeliveryInvariant, EndingInvariant, <1>1, PTL
=============================================================================
