----------------------------- MODULE UdpSockets -----------------------------
(***************************************************************************)
(* The sockets behind the server's UDP requests (udp_mux.rs): UdpSocketPool *)
(* and the send/receive loop of one request task.                          *)
(*                                                                         *)
(* A request resolves to a list of addresses and tries them in order.  For *)
(* each it takes a socket, from the pool or, without a pool, a new one,    *)
(* sends, and waits for one datagram until a deadline.  A pooled socket    *)
(* goes back to the idle list when the lease is dropped, unless a datagram *)
(* was sent on it and none was received; what is queued on it is discarded *)
(* first.  The drop pushes the socket from a task of its own, after the    *)
(* permit is already released.                                             *)
(*                                                                         *)
(* A datagram names its source and the request that provoked it.  Remote   *)
(* hosts answer late, twice or never.                                      *)
(***************************************************************************)
EXTENDS Integers, Sequences, FiniteSets

CONSTANTS
  Reqs,       \* request tasks
  Dests,      \* remote addresses, of one family
  Socks,      \* file descriptors the process can bind
  None,
  Pooled,     \* BOOLEAN: --udp-socket-pool-size is set
  Cap,        \* its value (at least 1)
  MaxAddrs,   \* bound: addresses a name resolves to
  Copies,     \* bound: datagrams a host sends back per request
  Drain       \* MAX_STALE_DRAIN

VARIABLES
  pc,       \* each request: start, lease, bind, send, recv, done
  addrs,    \* the addresses it still has to try; the first is the current one
  sock,     \* the socket it holds
  recycle,  \* recycle_on_drop of its lease
  result,   \* its outcome: none, error (no reply), timeout (empty reply), reply
  free,     \* file descriptors that are closed
  idle,     \* the pool's idle list of the family
  pushing,  \* sockets whose push task has not run yet
  permits,  \* permits of the pool's semaphore
  queue,    \* datagrams waiting in each socket
  net       \* answers under way: [sock, src, req], and how many copies are left

vars == <<pc, addrs, sock, recycle, result, free, idle, pushing, permits, queue, net>>

Nothing == [kind |-> "none"]
Error == [kind |-> "error"]
Reply(m) == [kind |-> "reply", src |-> m.src, req |-> m.req]
Replied(r) == result[r].kind = "reply"
Lists == UNION {[1..n -> Dests] : n \in 1..MaxAddrs}
Waiting == {"bind", "send", "recv"}    \* a lease, hence a permit, is held

\* Types. The pool of sockets, the permits and where each request stands.
TypeOK ==
  /\ pc \in [Reqs -> {"start", "lease", "done"} \cup Waiting]
  /\ \A r \in Reqs : Len(addrs[r]) <= MaxAddrs
  /\ sock \in [Reqs -> Socks \cup {None}]
  /\ recycle \in [Reqs -> BOOLEAN]
  /\ \A r \in Reqs : result[r].kind \in {"none", "error", "timeout", "reply"}
  /\ free \subseteq Socks /\ pushing \subseteq Socks
  /\ Len(idle) <= Cap
  /\ permits \in 0..Cap

Init ==
  /\ pc = [r \in Reqs |-> "start"]
  /\ addrs = [r \in Reqs |-> <<>>]
  /\ sock = [r \in Reqs |-> None]
  /\ recycle = [r \in Reqs |-> TRUE]
  /\ result = [r \in Reqs |-> Nothing]
  /\ free = Socks /\ idle = <<>> /\ pushing = {}
  /\ permits = Cap
  /\ queue = [s \in Socks |-> <<>>]
  /\ net = [n \in {} |-> 0]

-----------------------------------------------------------------------------
\* resolve_udp_dest: at least one address, or the task fails.
Resolve(r) ==
  /\ pc[r] = "start"
  /\ \/ /\ pc' = [pc EXCEPT ![r] = "lease"]
        /\ addrs' \in {[addrs EXCEPT ![r] = l] : l \in Lists}
        /\ UNCHANGED result
     \/ /\ pc' = [pc EXCEPT ![r] = "done"]
        /\ result' = [result EXCEPT ![r] = Error]
        /\ UNCHANGED addrs
  /\ UNCHANGED <<sock, recycle, free, idle, pushing, permits, queue, net>>

\* UdpSocketPool::lease: wait for a permit, then pop an idle socket if any.
Lease(r) ==
  /\ Pooled /\ pc[r] = "lease" /\ permits > 0
  /\ permits' = permits - 1
  /\ recycle' = [recycle EXCEPT ![r] = TRUE]
  /\ IF idle = <<>>
     THEN /\ pc' = [pc EXCEPT ![r] = "bind"]
          /\ UNCHANGED <<sock, idle>>
     ELSE /\ sock' = [sock EXCEPT ![r] = idle[Len(idle)]]
          /\ idle' = SubSeq(idle, 1, Len(idle) - 1)
          /\ pc' = [pc EXCEPT ![r] = "send"]
  /\ UNCHANGED <<addrs, result, free, pushing, queue, net>>

\* Without a pool every address gets a socket of its own.
Ephemeral(r) ==
  /\ ~Pooled /\ pc[r] = "lease"
  /\ pc' = [pc EXCEPT ![r] = "bind"]
  /\ recycle' = [recycle EXCEPT ![r] = FALSE]
  /\ UNCHANGED <<addrs, sock, result, free, idle, pushing, permits, queue, net>>

bind_udp_for_family(r) ==
  /\ pc[r] = "bind"
  /\ \E s \in free :
       /\ free' = free \ {s}
       /\ sock' = [sock EXCEPT ![r] = s]
       /\ queue' = [queue EXCEPT ![s] = <<>>]
  /\ pc' = [pc EXCEPT ![r] = "send"]
  /\ UNCHANGED <<addrs, recycle, result, idle, pushing, permits, net>>

\* bind fails: the task ends without a reply; the permit goes with it.
BindFails(r) ==
  /\ pc[r] = "bind"
  /\ pc' = [pc EXCEPT ![r] = "done"]
  /\ result' = [result EXCEPT ![r] = Error]
  /\ permits' = IF Pooled THEN permits + 1 ELSE permits
  /\ UNCHANGED <<addrs, sock, recycle, free, idle, pushing, queue, net>>

\* close: the port is gone, and what is on its way to it with it.
Close(s) ==
  /\ free' = free \cup {s}
  /\ queue' = [queue EXCEPT ![s] = <<>>]
  /\ net' = [n \in {m \in DOMAIN net : m.sock # s} |-> net[n]]

\* What is left of a queue after the drain.
DrainQueue(q) == SubSeq(q, Drain + 1, Len(q))

\* Drop of the holder: the permit is free at once; a recyclable socket is
\* drained and pushed by a spawned task, any other one is closed.
DropHolder(r, rec) ==
  LET s == sock[r] IN
  /\ sock' = [sock EXCEPT ![r] = None]
  /\ permits' = IF Pooled THEN permits + 1 ELSE permits
  /\ IF Pooled /\ rec
     THEN /\ queue' = [queue EXCEPT ![s] = DrainQueue(@)]
          /\ pushing' = pushing \cup {s}
          /\ UNCHANGED <<free, net>>
     ELSE Close(s) /\ UNCHANGED pushing

\* The task leaves the loop with its result.
Finish(r, v, rec) ==
  /\ pc' = [pc EXCEPT ![r] = "done"]
  /\ result' = [result EXCEPT ![r] = v]
  /\ DropHolder(r, rec)
  /\ UNCHANGED addrs

\* `continue`: the next address, or the error when there is none.
TryNext(r, rec) ==
  /\ addrs' = [addrs EXCEPT ![r] = Tail(@)]
  /\ IF Len(addrs[r]) = 1
     THEN /\ pc' = [pc EXCEPT ![r] = "done"]
          /\ result' = [result EXCEPT ![r] = Error]
     ELSE /\ pc' = [pc EXCEPT ![r] = "lease"]
          /\ UNCHANGED result
  /\ DropHolder(r, rec)

\* Mutant: the lease stays recyclable after the send.
SentStillRecyclable(r) ==
  /\ pc[r] = "send"
  /\ net' = [n \in DOMAIN net \cup {[sock |-> sock[r], src |-> Head(addrs[r]), req |-> r]} |->
              IF n \in DOMAIN net THEN net[n] ELSE Copies]
  /\ pc' = [pc EXCEPT ![r] = "recv"]
  /\ UNCHANGED <<addrs, sock, recycle, result, free, idle, pushing, permits, queue>>

\* send_to succeeds; mark_sent_awaiting_reply.
Send(r) ==
  /\ pc[r] = "send"
  /\ net' = [n \in DOMAIN net \cup {[sock |-> sock[r], src |-> Head(addrs[r]), req |-> r]} |->
              IF n \in DOMAIN net THEN net[n] ELSE Copies]
  /\ recycle' = [recycle EXCEPT ![r] = FALSE]
  /\ pc' = [pc EXCEPT ![r] = "recv"]
  /\ UNCHANGED <<addrs, sock, result, free, idle, pushing, permits, queue>>

SendFails(r) ==
  /\ pc[r] = "send"
  /\ TryNext(r, recycle[r])
  /\ UNCHANGED <<recycle, idle>>

\* A host answers (again).
Arrive(n) ==
  /\ net[n] > 0
  /\ net' = [net EXCEPT ![n] = @ - 1]
  /\ queue' = [queue EXCEPT ![n.sock] = Append(@, [src |-> n.src, req |-> n.req])]
  /\ UNCHANGED <<pc, addrs, sock, recycle, result, free, idle, pushing, permits>>

\* Only a pooled socket insists on the source.
FromDest(r, m) == ~Pooled \/ m.src = Head(addrs[r])

\* recv_from returns a datagram: the reply, or one to skip.
Recv(r) ==
  LET s == sock[r]
      m == Head(queue[s])
  IN
  /\ pc[r] = "recv" /\ queue[s] # <<>>
  /\ IF FromDest(r, m)
     THEN \* mark_reply_consumed, then the reply is sent
          /\ recycle' = [recycle EXCEPT ![r] = TRUE]
          /\ pc' = [pc EXCEPT ![r] = "done"]
          /\ result' = [result EXCEPT ![r] = Reply(m)]
          /\ sock' = [sock EXCEPT ![r] = None]
          /\ permits' = IF Pooled THEN permits + 1 ELSE permits
          /\ IF Pooled
             THEN /\ queue' = [queue EXCEPT ![s] = DrainQueue(Tail(@))]
                  /\ pushing' = pushing \cup {s}
                  /\ UNCHANGED <<free, net>>
             ELSE Close(s) /\ UNCHANGED pushing
     ELSE /\ queue' = [queue EXCEPT ![s] = Tail(@)]
          /\ UNCHANGED <<pc, sock, recycle, result, free, pushing, permits, net>>
  /\ UNCHANGED <<addrs, idle>>

\* recv_from fails: the next address.
RecvFails(r) ==
  /\ pc[r] = "recv"
  /\ TryNext(r, recycle[r])
  /\ UNCHANGED <<recycle, idle>>

\* The deadline: an empty reply, and no further address.
RecvTimeout(r) ==
  /\ pc[r] = "recv"
  /\ Finish(r, [kind |-> "timeout"], recycle[r])
  /\ UNCHANGED <<recycle, idle>>

\* The spawned push: beyond the idle cap the socket is closed.
PushIdle(s) ==
  /\ s \in pushing
  /\ pushing' = pushing \ {s}
  /\ IF Len(idle) < Cap
     THEN idle' = Append(idle, s) /\ UNCHANGED <<free, queue, net>>
     ELSE Close(s) /\ UNCHANGED idle
  /\ UNCHANGED <<pc, addrs, sock, recycle, result, permits>>

Step(r) ==
  \/ Resolve(r) \/ Lease(r) \/ Ephemeral(r)
  \/ bind_udp_for_family(r) \/ BindFails(r)
  \/ Send(r) \/ SendFails(r)
  \/ Recv(r) \/ RecvFails(r) \/ RecvTimeout(r)

Next ==
  \/ \E r \in Reqs : Step(r)
  \/ \E n \in DOMAIN net : Arrive(n)
  \/ \E s \in Socks : PushIdle(s)

\* System calls return and the deadline fires; nothing says that a receive fails.
\* A request leases once per address, so that weak fairness for the lease is enough.
Fairness ==
  /\ \A r \in Reqs :
       /\ WF_vars(Resolve(r) \/ Ephemeral(r)) /\ WF_vars(Lease(r))
       /\ WF_vars(bind_udp_for_family(r) \/ BindFails(r))
       /\ WF_vars(Send(r) \/ SendFails(r))
       /\ WF_vars(Recv(r)) /\ WF_vars(RecvTimeout(r))
  /\ \A s \in Socks : WF_vars(PushIdle(s))

SafetySpec == Init /\ [][Next]_vars
Spec == SafetySpec /\ Fairness

-----------------------------------------------------------------------------
\* Every descriptor has one owner: closed, held by one request, on its way to
\* the pool, or idle there; and permits count exactly the leases held.
SocketsConserved ==
  LET held == {r \in Reqs : sock[r] # None} IN
  /\ \A r, q \in held : r # q => sock[r] # sock[q]
  /\ \A i, j \in DOMAIN idle : i # j => idle[i] # idle[j]
  /\ \A s \in Socks :
       Cardinality({o \in {"free", "held", "pushing", "idle"} :
          CASE o = "free" -> s \in free
            [] o = "held" -> \E r \in held : sock[r] = s
            [] o = "pushing" -> s \in pushing
            [] o = "idle" -> \E i \in DOMAIN idle : idle[i] = s}) = 1
  /\ Pooled => permits = Cap - Cardinality({r \in Reqs : pc[r] \in Waiting})

\* A socket on which an answer is still awaited never enters the pool: what an
\* idle socket may still receive are further copies of an answer it has had.
AwaitedNeverPooled ==
  \A i \in DOMAIN idle, n \in DOMAIN net : n.sock = idle[i] => Replied(n.req)

\* The bridge's comment: each request uses a dedicated UDP socket so that
\* replies attach to the correct xid.
RepliesAttach == \A r \in Reqs : Replied(r) => result[r].req = r

\* What drain and source check leave with a pool: a request is answered with
\* another one's datagram only if both were sent to that host.
CrossTalkSameHostOnly ==
  \A r \in Reqs : Replied(r) /\ result[r].req # r =>
    /\ result[r].src = Head(addrs[r])
    /\ Replied(result[r].req) => result[result[r].req].src = result[r].src

Done == \A r \in Reqs : pc[r] = "done"

\* Every request ends: with a reply, an empty reply or an error.
RequestsEnd == <>Done

\* Sockets and permits are neither lost nor shared, and no request is
\* answered by another host; without a pool, by no other request's datagram.
SocketsExact ==
    /\ TypeOK
    /\ SocketsConserved
    /\ CrossTalkSameHostOnly
    /\ AwaitedNeverPooled
    /\ ~Pooled => RepliesAttach
=============================================================================
