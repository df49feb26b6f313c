----------------------------- MODULE MCMuxPool ------------------------------
(***************************************************************************)
(* What the connections of a client share: the session pool, the memory    *)
(* budget of one session, for which two streams compete while its link may *)
(* fail, and the map of domain names that routes them.                     *)
(***************************************************************************)
EXTENDS MuxPool, TLC

CONSTANT None

Names == {<<"bank">>, <<"www", "bank">>, <<"other">>}
Lists == {{}, {<<"bank">>}, {<<"www", "bank">>, <<>>}, {<<>>}}

VARIABLES part,   \* the component that runs
          v1, v2, v3, v4, v5, v6, v7, v8   \* its variables

Two == INSTANCE MuxFlow WITH
  Sids <- 1..2, Window <- [e \in {"c", "s"} |-> 1], CreditDiv <- 1, MaxStreams <- 2, MaxQueued <- 1,
  Budget <- 1, CtlCap <- 2, OutCap <- 1, WireCap <- 1, MaxChunk <- 1,
  ToSend <- <<[c |-> 1, s |-> 0], [c |-> 1, s |-> 0]>>, MayFail <- {"c"},
  MayTimeOut <- FALSE,
  run <- v1, sess <- v2, neg <- v3, nextSid <- v4, flow <- v5, out <- v6, ctl <- v7,
  wire <- v8

Route == INSTANCE DomainRoute WITH
  IPs <- {"i1", "i2", "i3", "lan"}, PrivateIPs <- {"lan"}, Ids <- {1, 2},
  Ttls <- {0, 5}, MIN_TTL_SECS <- 1, MAX_TTL_SECS <- 2, MAX_ENTRIES <- 2, MaxClock <- 3,
  MaxQueries <- 2,
  now <- v1, bypass <- v2, map <- v3, pending <- v4, asked <- v5, heard <- v6,
  last <- v7

-----------------------------------------------------------------------------
(***************************************************************************)
(* A behaviour is one of a single component.  The variables it does not    *)
(* need keep the value <<>>, and those of MuxPool their first value.       *)
(***************************************************************************)
Unused0 ==
  /\ v1 = <<>> /\ v2 = <<>> /\ v3 = <<>> /\ v4 = <<>> /\ v5 = <<>> /\ v6 = <<>> /\ v7 = <<>>
  /\ v8 = <<>>
Rest0 == <<v1, v2, v3, v4, v5, v6, v7, v8>>

Unused7 == v8 = <<>>
Rest7 == <<v8>>

SuiteInit ==
  \/ part = "pool"  /\ Init /\ Unused0
  \/ part = "two"   /\ Two!Init /\ Init
  \/ part = "route" /\ Route!Init /\ Init /\ Unused7

SuiteNext ==
  \/ part = "pool"  /\ Next /\ UNCHANGED <<part, Rest0>>
  \/ part = "two"   /\ Two!Next /\ UNCHANGED <<part, vars>>
  \/ part = "route" /\ Route!Next /\ UNCHANGED <<part, Rest7, vars>>

suiteVars == <<part, v1, v2, v3, v4, v5, v6, v7, v8, vars>>

SuiteSpec == SuiteInit /\ [][SuiteNext]_suiteVars

\* Callers are interchangeable; only safety is checked.
Symmetry == Permutations(Callers)

-----------------------------------------------------------------------------
\* The received bytes an endpoint keeps in memory, those of removed streams
\* included, never exceed its receive budget.
MemoryBounded == part = "two" => Two!MemoryBounded

\* A connection leaves the tunnel only on the strength of a name on the list that
\* still counts, a full map refuses only for entries that do, and no answer takes
\* an address away from the name that holds it.
RoutesJustified ==
  /\ [](part = "route" => Route!RouteInv)
  /\ [][part = "route" => Route!KeepsOwners]_(Route!routeVars)
=============================================================================
