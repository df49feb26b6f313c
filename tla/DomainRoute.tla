----------------------------- MODULE DomainRoute -----------------------------
(***************************************************************************)
(* domain_route.rs: which connections leave the device outside the tunnel. *)
(* The answers to the client's own DNS queries are remembered as a map     *)
(* from addresses to names, for the names on the bypass list only; a later *)
(* connection to an address is looked up in it.  A name is the sequence of *)
(* its labels, in lower case and without the final dot.                    *)
(***************************************************************************)
EXTENDS Integers, FiniteSets, Sequences, SequencesExt, FiniteSetsExt

CONSTANTS IPs, PrivateIPs, Names,
          Lists,          \* the bypass lists that are installed, sets of names
          Ids,            \* DNS message ids
          Ttls,           \* of the answers
          MIN_TTL_SECS, MAX_TTL_SECS, MAX_ENTRIES,
          MaxClock, MaxQueries,  \* bounds
          None

VARIABLES now,      \* now_secs: the system clock
          bypass,   \* GLOBAL_BYPASS
          map,      \* GLOBAL_MAP: address -> its name and when that expires
          pending,  \* the queries that wait for an answer, [id, qname]
          asked,    \* number of queries sent
          heard,    \* history: until when an answer bound this address to this name
          last      \* history: the response just recorded, or None

routeVars == <<now, bypass, map, pending, asked, heard, last>>

Query == [id : Ids, qname : Names]
Answer == [ip : IPs, ttl : Ttls]
\* What parse_dns_answers makes of a response; a malformed one is None.
Response == [id : Ids, qname : Names \cup {<<>>}, answers : SeqOf(Answer, 2)]

Init ==
    /\ now = 1 /\ bypass = {} /\ map = <<>> /\ pending = {} /\ asked = 0
    /\ heard = [ip \in IPs |-> [n \in Names |-> 0]] /\ last = None

\* A listed name matches itself and its subdomains; an entry that is empty
\* once its dots are trimmed matches nothing.
matches_bypass(name, list) ==
    name # <<>> /\ \E b \in list : b # <<>> /\ IsSuffix(b, name)

host_is_local_or_private(ip) == ip \in PrivateIPs

Live(m, ip) == ip \in DOMAIN m /\ m[ip].expires_at > now

lookup(ip) == IF Live(map, ip) THEN map[ip].domain ELSE <<>>

\* Where a connection to an address goes; a name that is still known is
\* matched as it stands.
decide(ip) ==
    IF \/ host_is_local_or_private(ip)
       \/ bypass # {} /\ matches_bypass(lookup(ip), bypass)
    THEN "Direct" ELSE "Tunnel"

Clamp(ttl) == IF ttl < MIN_TTL_SECS THEN MIN_TTL_SECS
              ELSE IF ttl > MAX_TTL_SECS THEN MAX_TTL_SECS ELSE ttl

\* How long an answer may count, whatever it says.
TtlWindow(ttl) == Min({MAX_TTL_SECS, Max({MIN_TTL_SECS, ttl})})

Size(m) == Cardinality(DOMAIN m)
Pruned(m) == [ip \in {x \in DOMAIN m : Live(m, x)} |-> m[ip]]

Room(m) == IF Size(m) >= MAX_ENTRIES THEN Pruned(m) ELSE m

\* One answer: a live entry of another name stays, a full map takes no new address.
Learn(m, a, name) ==
    IF \/ Live(m, a.ip) /\ m[a.ip].domain # name
       \/ Size(m) >= MAX_ENTRIES /\ a.ip \notin DOMAIN m
    THEN m
    ELSE [ip \in DOMAIN m \cup {a.ip} |->
             IF ip = a.ip THEN [domain |-> name, expires_at |-> now + Clamp(a.ttl)] ELSE m[ip]]

\* Mutant: the question of the response is not compared.
AcceptedAnyName(q, r) ==
    /\ bypass # {} /\ r # None
    /\ r.id = q.id /\ matches_bypass(r.qname, bypass)
    /\ r.answers # <<>>

\* A response is only believed for the query it answers, and only about a
\* listed name.
Accepted(q, r) ==
    /\ bypass # {} /\ r # None
    /\ r.id = q.id /\ r.qname = q.qname /\ matches_bypass(r.qname, bypass)
    /\ r.answers # <<>>

\* record_dns and record_dns_response, when the UDP reply of query q arrives.
RecordDns(q, r) ==
    /\ pending' = pending \ {q}
    /\ IF Accepted(q, r)
       THEN /\ map' = FoldLeft(LAMBDA m, a : Learn(m, a, r.qname), Room(map), r.answers)
            /\ heard' = [ip \in IPs |-> [n \in Names |->
                  LET ends == {now + TtlWindow(a.ttl) : a \in {x \in ToSet(r.answers) : x.ip = ip}} IN
                  IF n = q.qname /\ ends # {} THEN Max(ends \cup {heard[ip][n]}) ELSE heard[ip][n]]]
            /\ last' = [answers |-> r.answers, name |-> q.qname]
       ELSE UNCHANGED <<map, heard>> /\ last' = None
    /\ UNCHANGED <<now, bypass, asked>>

\* The local client sends a query through the UDP relay (parse_dns_query).
SendQuery(q) ==
    /\ asked < MaxQueries /\ pending = {}
    /\ asked' = asked + 1 /\ pending' = pending \cup {q} /\ last' = None
    /\ UNCHANGED <<now, bypass, map, heard>>

\* set_bypass_domains
SetBypass(list) ==
    /\ list # bypass /\ bypass' = list /\ last' = None
    /\ UNCHANGED <<now, map, pending, asked, heard>>

\* Seconds pass, or the system clock is set: forwards or back.
Clock ==
    /\ now' \in (1 .. MaxClock) \ {now} /\ last' = None
    /\ UNCHANGED <<bypass, map, pending, asked, heard>>

Next ==
    \/ \E q \in Query : SendQuery(q)
    \/ \E q \in pending, r \in Response \cup {None} : RecordDns(q, r)
    \/ \E list \in Lists : SetBypass(list)
    \/ Clock

Spec == Init /\ [][Next]_routeVars

-----------------------------------------------------------------------------
\* The map never holds more than MAX_ENTRIES addresses, whatever the number of
\* answers in a response (record_dns_response bounds memory under churn).
RouteTypeOK ==
    /\ now \in 1 .. MaxClock /\ bypass \in Lists \cup {{}}
    /\ pending \subseteq Query /\ asked \in 0 .. MaxQueries
    /\ DOMAIN map \subseteq IPs /\ Size(map) <= MAX_ENTRIES
    /\ \A ip \in DOMAIN map : map[ip].domain \in Names

\* Unknown goes into the tunnel: a public address is only reached directly
\* while an answer to the client's own query for a name that is listed now has
\* bound the address to that name and has not run out.
DirectIsJustified ==
    \A ip \in IPs \ PrivateIPs : decide(ip) = "Direct" =>
        \E n \in Names : heard[ip][n] > now /\ matches_bypass(n, bypass)

\* A response is recorded as far as there is room: its first answer is only
\* left out for a live entry of another name, or because the map is full and
\* every entry in it is live.
RefusedOnlyWhenLive ==
    last # None =>
        LET a == Head(last.answers) IN
        \/ Live(map, a.ip)
        \/ Size(map) = MAX_ENTRIES /\ \A ip \in DOMAIN map : Live(map, ip)

\* No step takes a live address away from the name that it was bound to: not a
\* response for another name, not the pruning that makes room.
KeepsOwners ==
    \A ip \in IPs : Live(map, ip) /\ now' = now =>
        ip \in DOMAIN map' /\ map'[ip].domain = map[ip].domain
NoTakeover == [][KeepsOwners]_routeVars

\* A connection leaves the tunnel only on the strength of a name on the list
\* that still counts; a full map refuses only for entries that do.
RouteInv == RouteTypeOK /\ DirectIsJustified /\ RefusedOnlyWhenLive
=============================================================================
