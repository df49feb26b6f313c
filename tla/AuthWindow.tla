----------------------------- MODULE AuthWindow -----------------------------
(***************************************************************************)
(* AuthRateLimiter with a history: the times at which the failures of each *)
(* source were counted since its last ban, success or eviction.            *)
(***************************************************************************)
EXTENDS AuthRateLimiter, Sequences

VARIABLE recent    \* [Ips -> Seq(time)]

hvars == <<vars, recent>>

\* Only an entry that is still in the table, unbanned, keeps its history.
Kept(h) == [ip \in Ips |-> IF ip \in tracked' \ banned' THEN h[ip] ELSE <<>>]

HInit == Init /\ recent = [ip \in Ips |-> <<>>]

HNext ==
    \/ Tick /\ UNCHANGED recent
    \/ \E ip \in Ips :
          \/ RecordCounted(ip)
               /\ recent' = Kept([recent EXCEPT ![ip] = Append(@, now)])
          \/ CheckAllowed(ip) /\ recent' = Kept(recent)
          \/ RecordSkipped(ip) /\ recent' = Kept(recent)
          \/ RecordSuccess(ip) /\ recent' = Kept(recent)

HSpec == HInit /\ [][HNext]_hvars

\* "Sliding window: max_failures within window, then ban": a source that is
\* tracked and not banned never has max_failures counted failures of one
\* uninterrupted history inside any stretch of `window'.
SlidingWindow ==
    \A ip \in Ips : \A k \in DOMAIN recent[ip] :
        k + MaxFailures - 1 \in DOMAIN recent[ip] =>
            recent[ip][k + MaxFailures - 1] - recent[ip][k] > WindowLen
=============================================================================
