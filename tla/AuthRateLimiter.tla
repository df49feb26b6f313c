-------------------------- MODULE AuthRateLimiter --------------------------
(***************************************************************************)
(* The per-source authentication limiter of bibavpn/src/server_limits.rs.  *)
(* Connection tasks call check_allowed when a socket is accepted and       *)
(* record_failure or record_success when its handshake ends; each call is  *)
(* one critical section of the table's mutex, so calls of many tasks       *)
(* interleave freely and a check may be long stale when the record comes.  *)
(*                                                                         *)
(* A source is a bucket (auth_limit_key: an IPv4 address or an IPv6 /64).  *)
(***************************************************************************)
EXTENDS Integers, FiniteSets

CONSTANTS
    Ips,          \* source buckets
    MaxFailures,  \* cfg.max_failures
    WindowLen,    \* cfg.window
    BanLen,       \* cfg.ban
    MaxTracked,   \* MAX_TRACKED_IPS
    MaxTime       \* bound of the clock

ASSUME LimiterAssumption ==
    /\ IsFiniteSet(Ips)
    /\ MaxFailures \in Nat \ {0}
    /\ WindowLen \in Nat \ {0}
    /\ BanLen \in Nat \ {0}
    /\ MaxTracked \in Nat \ {0}
    /\ MaxTime \in Nat

VARIABLES
    now,        \* Instant::now()
    tracked,    \* keys of the table
    banned,     \* keys with banned_until = Some(_)
    until,      \* their banned_until
    failures,   \* failures of each key
    start,      \* window_start of each key
    bansActive  \* the bans_active counter

table == <<tracked, banned, until, failures, start>>
vars == <<now, tracked, banned, until, failures, start, bansActive>>

ActiveBan(ip) == ip \in banned /\ now < until[ip]
ExpiredBan(ip) == ip \in banned /\ now >= until[ip]

----------------------------------------------------------------------------

Init ==
    /\ now = 0
    /\ tracked = {} /\ banned = {}
    /\ until = [ip \in Ips |-> 0]
    /\ failures = [ip \in Ips |-> 0]
    /\ start = [ip \in Ips |-> 0]
    /\ bansActive = 0

Tick ==
    /\ now < MaxTime
    /\ now' = now + 1
    /\ UNCHANGED <<table, bansActive>>

\* A check that clears an expired ban and forgets the counter.
UncountedCheckAllowed(ip) ==
    /\ ~ActiveBan(ip)
    /\ banned' = banned \ {ip}
    /\ failures' = [failures EXCEPT ![ip] = IF ip \in banned THEN 0 ELSE @]
    /\ UNCHANGED <<now, tracked, until, start, bansActive>>

\* check_allowed returns Ok; an expired ban is cleared.
CheckAllowed(ip) ==
    /\ ~ActiveBan(ip)
    /\ banned' = banned \ {ip}
    /\ failures' = [failures EXCEPT ![ip] = IF ip \in banned THEN 0 ELSE @]
    /\ bansActive' = IF ip \in banned THEN bansActive - 1 ELSE bansActive
    /\ UNCHANGED <<now, tracked, until, start>>

\* check_allowed fails.
CheckRejected(ip) ==
    /\ ActiveBan(ip)
    /\ UNCHANGED vars

----------------------------------------------------------------------------
(* record_failure                                                          *)

\* The table is full and the source is new: room has to be made.
MustMakeRoom(ip) == Cardinality(tracked) >= MaxTracked /\ ip \notin tracked

\* prune_locked: expired bans and idle windows go.
Prunable ==
    {ip \in tracked :
        \/ ExpiredBan(ip)
        \/ ip \notin banned /\ now - start[ip] > WindowLen}

\* Table keys left by prune_locked, when it runs.
AfterPrune(ip) == IF MustMakeRoom(ip) THEN tracked \ Prunable ELSE tracked

\* A full table that takes the new source without evicting anyone.
NoEvictions(ip) == {{}}

\* What is evicted on top: nothing, or one of the oldest entries that are not
\* banned; no choice is left when every entry is an active ban.
Evictions(ip) ==
    LET unbanned == AfterPrune(ip) \ banned
    IN  IF MustMakeRoom(ip) /\ Cardinality(AfterPrune(ip)) >= MaxTracked
        THEN {{v} : v \in {v \in unbanned :
                              \A w \in unbanned : start[v] <= start[w]}}
        ELSE {{}}

\* Pruning updates bans_active for every expired ban it drops.
Pruned(ip) == banned \ AfterPrune(ip)

\* No room can be made: only the pruning remains, the failure is not recorded.
RecordSkipped(ip) ==
    /\ Evictions(ip) = {}
    /\ tracked' = AfterPrune(ip)
    /\ banned' = banned \cap AfterPrune(ip)
    /\ bansActive' = bansActive - Cardinality(Pruned(ip))
    /\ UNCHANGED <<now, until, failures, start>>

\* The source is under an active ban: nothing to record.
RecordWhileBanned(ip) ==
    /\ ActiveBan(ip)
    /\ UNCHANGED vars

\* The entry's failures after counting this one, in the current window.
Counted(ip, kept) ==
    IF ip \in kept /\ now - start[ip] <= WindowLen THEN failures[ip] + 1 ELSE 1

WindowStart(ip, kept) ==
    IF ip \in kept /\ now - start[ip] <= WindowLen THEN start[ip] ELSE now

\* The failure is counted; the max_failures-th one starts a ban.
RecordCounted(ip) ==
    /\ ~ActiveBan(ip)
    /\ \E evicted \in Evictions(ip) :
          LET kept == AfterPrune(ip) \ evicted
              held == (banned \cap kept) \ {ip}
              f    == Counted(ip, kept)
              ban  == f >= MaxFailures
          IN  /\ tracked' = kept \cup {ip}
              /\ banned' = IF ban THEN held \cup {ip} ELSE held
              /\ until' = [until EXCEPT ![ip] = IF ban THEN now + BanLen ELSE @]
              /\ failures' = [failures EXCEPT ![ip] = IF ban THEN 0 ELSE f]
              /\ start' = [start EXCEPT
                              ![ip] = IF ban THEN now ELSE WindowStart(ip, kept)]
              /\ bansActive' = bansActive - Cardinality(Pruned(ip))
                                 - (IF ip \in banned THEN 1 ELSE 0)
                                 + (IF ban THEN 1 ELSE 0)
    /\ UNCHANGED now

RecordFailure(ip) == RecordSkipped(ip) \/ RecordWhileBanned(ip) \/ RecordCounted(ip)

----------------------------------------------------------------------------

\* A success that lifts whatever ban the source has.
UnbanningRecordSuccess(ip) ==
    /\ tracked' = tracked \ {ip}
    /\ banned' = banned \ {ip}
    /\ bansActive' = IF ip \in banned THEN bansActive - 1 ELSE bansActive
    /\ UNCHANGED <<now, until, failures, start>>

\* record_success: the entry goes, unless it is an active ban.
RecordSuccess(ip) ==
    /\ IF ActiveBan(ip)
       THEN UNCHANGED <<tracked, banned, bansActive>>
       ELSE /\ tracked' = tracked \ {ip}
            /\ banned' = banned \ {ip}
            /\ bansActive' = IF ip \in banned THEN bansActive - 1 ELSE bansActive
    /\ UNCHANGED <<now, until, failures, start>>

Next ==
    \/ Tick
    \/ \E ip \in Ips :
          \/ CheckAllowed(ip)
          \/ CheckRejected(ip)
          \/ RecordSkipped(ip)
          \/ RecordWhileBanned(ip)
          \/ RecordCounted(ip)
          \/ RecordSuccess(ip)

Spec == Init /\ [][Next]_vars

----------------------------------------------------------------------------

\* The table's shape: bans and windows of tracked sources only.
TypeOK ==
    /\ now \in Nat
    /\ tracked \subseteq Ips
    /\ banned \subseteq tracked
    /\ until \in [Ips -> Nat]
    /\ failures \in [Ips -> Nat]
    /\ start \in [Ips -> Nat]
    /\ bansActive \in Int

\* bans_active, a u64 that is decremented in five places (check_allowed,
\* prune_locked, record_failure, record_success), always equals the number of
\* entries with a ban: it never underflows and the exported metric is exact.
BansActiveExact == bansActive = Cardinality(banned)

\* The table never grows past MAX_TRACKED_IPS, whatever sources appear.
TableBounded == Cardinality(tracked) <= MaxTracked

\* An active ban survives every operation until it expires: neither a success
\* of a session that was already in flight, nor pruning, nor eviction, nor
\* another failure lifts, shortens or extends it.
BanStands ==
    \A ip \in Ips :
        ActiveBan(ip) => ip \in banned' /\ until'[ip] = until[ip]

\* BanStands for every step.
BansAreKept == [][BanStands]_vars
=============================================================================
