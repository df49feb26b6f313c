----------------------- MODULE AuthRateLimiterProofs -----------------------
(***************************************************************************)
(* The limiter for every number of sources, table size, window and ban.    *)
(* TypeOK (a ban belongs to a tracked entry) is what makes the counter and *)
(* the bound inductive: the counter is released exactly where a tracked    *)
(* entry with a ban leaves the table or loses the ban.                     *)
(***************************************************************************)
EXTENDS AuthRateLimiter, FiniteSetTheorems, TLAPS

LInv == TypeOK /\ BansActiveExact /\ TableBounded

\* Every set of sources is finite and has a cardinality.
LEMMA FiniteSources ==
  ASSUME NEW S \in SUBSET Ips
  PROVE  IsFiniteSet(S) /\ Cardinality(S) \in Nat
  BY FS_Subset, FS_CardinalityType, LimiterAssumption

\* Pruning and eviction (record_failure): what stays is tracked, what is
\* evicted carries no ban, and a source that is already tracked changes
\* nothing.
LEMMA RoomFacts ==
  ASSUME TypeOK, NEW ip \in Ips, NEW evicted \in Evictions(ip)
  PROVE  /\ AfterPrune(ip) \subseteq tracked
         /\ evicted \subseteq AfterPrune(ip)
         /\ evicted \cap banned = {}
         /\ ip \in tracked => AfterPrune(ip) = tracked /\ evicted = {}
  BY DEF AfterPrune, Evictions, MustMakeRoom

\* An active ban is never pruned.
LEMMA PruneKeepsActiveBans ==
  ASSUME TypeOK, NEW ip \in Ips, NEW b \in Ips, ActiveBan(b)
  PROVE  b \in AfterPrune(ip)
  BY DEF TypeOK, ActiveBan, AfterPrune, Prunable, ExpiredBan

\* bans_active minus the pruned bans counts the bans that stay.
LEMMA PrunedCount ==
  ASSUME TypeOK, NEW ip \in Ips
  PROVE  Cardinality(banned \cap AfterPrune(ip))
           = Cardinality(banned) - Cardinality(Pruned(ip))
<1>1. IsFiniteSet(banned)
  BY FiniteSources DEF TypeOK
<1>2. Pruned(ip) \in SUBSET Ips /\ banned \cap AfterPrune(ip) \in SUBSET Ips
  BY DEF TypeOK, Pruned
<1>3. /\ IsFiniteSet(Pruned(ip)) /\ IsFiniteSet(banned \cap AfterPrune(ip))
      /\ Cardinality(Pruned(ip)) \in Nat
      /\ Cardinality(banned \cap AfterPrune(ip)) \in Nat
  BY <1>2, FiniteSources
<1>4. banned = (banned \cap AfterPrune(ip)) \cup Pruned(ip)
  BY DEF Pruned
<1>5. (banned \cap AfterPrune(ip)) \cap Pruned(ip) = {}
  BY DEF Pruned
<1>6. Cardinality(banned) = Cardinality(banned \cap AfterPrune(ip))
                              + Cardinality(Pruned(ip)) - 0
  BY <1>3, <1>4, <1>5, FS_Union, FS_EmptySet
<1> QED
  BY <1>3, <1>6

\* One more element makes a finite set at most one larger.
LEMMA AddOne ==
  ASSUME NEW S, IsFiniteSet(S), NEW x
  PROVE  /\ Cardinality(S) \in Nat
         /\ Cardinality(S \cup {x}) \in {Cardinality(S), Cardinality(S) + 1}
<1>1. Cardinality(S) \in Nat
  BY FS_CardinalityType
<1>2. Cardinality(S \cup {x}) = IF x \in S THEN Cardinality(S)
                                         ELSE Cardinality(S) + 1
  BY FS_AddElement
<1> QED
  BY <1>1, <1>2

\* A full table makes room before it takes a new source.
LEMMA RoomMade ==
  ASSUME TypeOK, TableBounded, NEW ip \in Ips, NEW evicted \in Evictions(ip)
  PROVE  Cardinality((AfterPrune(ip) \ evicted) \cup {ip}) <= MaxTracked
<1> DEFINE ap == AfterPrune(ip)
<1>1. /\ IsFiniteSet(tracked) /\ Cardinality(tracked) \in Nat
  BY FiniteSources DEF TypeOK
<1>2. /\ ap \in SUBSET tracked /\ ap \in SUBSET Ips
      /\ evicted \subseteq ap
  BY RoomFacts DEF TypeOK
<1>3. /\ IsFiniteSet(ap) /\ Cardinality(ap) \in Nat
      /\ Cardinality(ap) <= Cardinality(tracked)
  BY <1>1, <1>2, FiniteSources, FS_Subset
<1>4. CASE ip \in tracked
  <2>1. (ap \ evicted) \cup {ip} = tracked
    BY <1>4, RoomFacts
  <2> QED
    BY <2>1 DEF TableBounded
<1>5. CASE ip \notin tracked /\ Cardinality(ap) < MaxTracked
  <2>1. ap \ evicted \in SUBSET ap /\ ap \ evicted \in SUBSET Ips
    BY <1>2
  <2>2. /\ IsFiniteSet(ap \ evicted) /\ Cardinality(ap \ evicted) \in Nat
        /\ Cardinality(ap \ evicted) <= Cardinality(ap)
    BY <2>1, <1>3, FiniteSources, FS_Subset
  <2>3. Cardinality((ap \ evicted) \cup {ip})
          \in {Cardinality(ap \ evicted), Cardinality(ap \ evicted) + 1}
    BY <2>2, AddOne
  <2>4. Cardinality((ap \ evicted) \cup {ip}) <= MaxTracked
    <3> HIDE DEF ap
    <3> QED
      BY <1>3, <1>5, <2>2, <2>3, LimiterAssumption
  <2> QED
    BY <2>4
<1>6. CASE ip \notin tracked /\ ~(Cardinality(ap) < MaxTracked)
  <2>1. Cardinality(ap) = MaxTracked
    BY <1>1, <1>3, <1>6, LimiterAssumption DEF TableBounded
  <2>2. MustMakeRoom(ip)
    BY <1>1, <1>3, <1>6, <2>1, LimiterAssumption DEF MustMakeRoom
  <2>3. PICK v \in ap : evicted = {v}
    BY <2>1, <2>2, <1>3, LimiterAssumption DEF Evictions
  <2>4. /\ IsFiniteSet(ap \ {v})
        /\ Cardinality(ap \ {v}) = MaxTracked - 1
    BY <1>3, <2>1, <2>3, FS_RemoveElement
  <2>5. Cardinality((ap \ {v}) \cup {ip})
          \in {Cardinality(ap \ {v}), Cardinality(ap \ {v}) + 1}
    BY <2>4, AddOne
  <2>6. Cardinality((ap \ {v}) \cup {ip}) <= MaxTracked
    BY <2>4, <2>5, LimiterAssumption
  <2> QED
    BY <2>3, <2>6
<1> QED
  BY <1>4, <1>5, <1>6

\* The empty table satisfies the invariant.
LEMMA InitLInv == Init => LInv
  BY FS_EmptySet, LimiterAssumption
  DEF Init, LInv, TypeOK, BansActiveExact, TableBounded

\* Every critical section of the limiter preserves the invariant.
LEMMA NextLInv == LInv /\ [Next]_vars => LInv'
<1> SUFFICES ASSUME LInv, [Next]_vars
             PROVE  LInv'
  OBVIOUS
<1>0. /\ TypeOK /\ BansActiveExact /\ TableBounded
      /\ IsFiniteSet(banned) /\ Cardinality(banned) \in Nat
      /\ IsFiniteSet(tracked) /\ Cardinality(tracked) \in Nat
  BY FiniteSources DEF LInv, TypeOK
<1>r. ASSUME NEW ip \in Ips
      PROVE  Cardinality(banned \ {ip})
               = IF ip \in banned THEN Cardinality(banned) - 1
                                  ELSE Cardinality(banned)
  BY <1>0, FS_RemoveElement
<1>1. CASE Tick
  BY <1>0, <1>1 DEF Tick, table, LInv, TypeOK, BansActiveExact, TableBounded
<1>2. ASSUME NEW ip \in Ips, CheckAllowed(ip)
      PROVE  LInv'
  <2>1. TypeOK'
    BY <1>0, <1>2 DEF CheckAllowed, TypeOK
  <2>2. BansActiveExact'
    BY <1>0, <1>2, <1>r DEF CheckAllowed, BansActiveExact
  <2>3. TableBounded'
    BY <1>0, <1>2 DEF CheckAllowed, TableBounded
  <2> QED
    BY <2>1, <2>2, <2>3 DEF LInv
<1>3. ASSUME NEW ip \in Ips, CheckRejected(ip) \/ RecordWhileBanned(ip)
      PROVE  LInv'
  BY <1>0, <1>3 DEF CheckRejected, RecordWhileBanned, vars,
                    LInv, TypeOK, BansActiveExact, TableBounded
<1>4. ASSUME NEW ip \in Ips, RecordSkipped(ip)
      PROVE  LInv'
  <2>0. AfterPrune(ip) \subseteq tracked
    BY DEF AfterPrune
  <2>c. Cardinality(Pruned(ip)) \in Nat
    BY <1>0, FiniteSources DEF Pruned, TypeOK
  <2>1. TypeOK'
    BY <1>0, <1>4, <2>0, <2>c DEF RecordSkipped, TypeOK
  <2>2. BansActiveExact'
    BY <1>0, <1>4, PrunedCount DEF RecordSkipped, BansActiveExact
  <2>3. Cardinality(AfterPrune(ip)) \in Nat
        /\ Cardinality(AfterPrune(ip)) <= Cardinality(tracked)
    BY <1>0, <2>0, FS_Subset, FS_CardinalityType
  <2>4. TableBounded'
    BY <1>0, <1>4, <2>3, LimiterAssumption DEF RecordSkipped, TableBounded
  <2> QED
    BY <2>1, <2>2, <2>4 DEF LInv
<1>5. ASSUME NEW ip \in Ips, RecordCounted(ip)
      PROVE  LInv'
  <2>0. Cardinality(Pruned(ip)) \in Nat
    BY <1>0, FiniteSources DEF Pruned, TypeOK
  <2>1. PICK evicted \in Evictions(ip) :
          LET kept == AfterPrune(ip) \ evicted
              held == (banned \cap kept) \ {ip}
              f    == Counted(ip, kept)
              ban  == f >= MaxFailures
          IN  /\ tracked' = kept \cup {ip}
              /\ banned' = IF ban THEN held \cup {ip} ELSE held
              /\ until' = [until EXCEPT ![ip] = IF ban THEN now + BanLen ELSE @]
              /\ failures' = [failures EXCEPT ![ip] = IF ban THEN 0 ELSE f]
              /\ start' = [start EXCEPT
                              ![ip] = IF ban THEN now ELSE WindowStart(ip, kept)]
              /\ bansActive' = bansActive - Cardinality(Pruned(ip))
                                 - (IF ip \in banned THEN 1 ELSE 0)
                                 + (IF ban THEN 1 ELSE 0)
    BY <1>5 DEF RecordCounted
  <2> DEFINE kept == AfterPrune(ip) \ evicted
             stay == banned \cap AfterPrune(ip)
             ban  == Counted(ip, kept) >= MaxFailures
  <2>2. /\ AfterPrune(ip) \subseteq tracked
        /\ evicted \cap banned = {}
        /\ ip \in tracked => AfterPrune(ip) = tracked /\ evicted = {}
    BY <1>0, RoomFacts
  <2>3. Counted(ip, kept) \in Nat /\ WindowStart(ip, kept) \in Nat
    BY <1>0 DEF Counted, WindowStart, TypeOK
  <2>4. now' = now
    BY <1>5 DEF RecordCounted
  <2>5. TypeOK'
    <3>1. tracked' \subseteq Ips /\ banned' \subseteq tracked'
      BY <1>0, <2>1, <2>2 DEF TypeOK
    <3>2. /\ until' \in [Ips -> Nat] /\ failures' \in [Ips -> Nat]
          /\ start' \in [Ips -> Nat]
      BY <1>0, <2>1, <2>3, LimiterAssumption DEF TypeOK
    <3>3. bansActive' \in Int
      BY <1>0, <2>0, <2>1 DEF TypeOK
    <3> QED
      BY <1>0, <2>4, <3>1, <3>2, <3>3 DEF TypeOK
  <2>6. BansActiveExact'
    <3>1. (banned \cap kept) \ {ip} = stay \ {ip}
      BY <2>2
    <3>2. ip \in stay <=> ip \in banned
      BY <1>0, <2>2 DEF TypeOK
    <3>3. IsFiniteSet(stay) /\ Cardinality(stay) \in Nat
          /\ Cardinality(stay) = bansActive - Cardinality(Pruned(ip))
      BY <1>0, FiniteSources, PrunedCount DEF TypeOK, BansActiveExact
    <3>4. /\ IsFiniteSet(stay \ {ip})
          /\ Cardinality(stay \ {ip})
               = bansActive - Cardinality(Pruned(ip))
                   - (IF ip \in banned THEN 1 ELSE 0)
      <4> HIDE DEF stay
      <4> QED
        BY <1>0, <2>0, <3>2, <3>3, FS_RemoveElement DEF TypeOK
    <3>5. Cardinality((stay \ {ip}) \cup {ip}) = Cardinality(stay \ {ip}) + 1
      <4> HIDE DEF stay
      <4> QED
        BY <3>4, FS_AddElement
    <3>6. CASE ban
      <4>1. banned' = (stay \ {ip}) \cup {ip}
        BY <2>1, <3>1, <3>6
      <4>2. bansActive' = bansActive - Cardinality(Pruned(ip))
                            - (IF ip \in banned THEN 1 ELSE 0) + 1
        BY <2>1, <3>6
      <4> HIDE DEF stay, ban, kept
      <4> QED
        BY <4>1, <4>2, <3>4, <3>5 DEF BansActiveExact
    <3>7. CASE ~ban
      <4>1. banned' = stay \ {ip}
        BY <2>1, <3>1, <3>7
      <4>2. bansActive' = bansActive - Cardinality(Pruned(ip))
                            - (IF ip \in banned THEN 1 ELSE 0) + 0
        BY <2>1, <3>7
      <4> HIDE DEF stay, ban, kept
      <4> QED
        BY <4>1, <4>2, <3>4, <1>0, <2>0 DEF BansActiveExact, TypeOK
    <3> QED
      BY <3>6, <3>7
  <2>7. TableBounded'
    BY <1>0, <2>1, RoomMade DEF TableBounded
  <2> QED
    BY <2>5, <2>6, <2>7 DEF LInv
<1>6. ASSUME NEW ip \in Ips, RecordSuccess(ip)
      PROVE  LInv'
  <2>1. TypeOK'
    BY <1>0, <1>6 DEF RecordSuccess, TypeOK
  <2>2. BansActiveExact'
    BY <1>0, <1>6, <1>r DEF RecordSuccess, BansActiveExact
  <2>3. /\ Cardinality(tracked \ {ip}) \in Nat
        /\ Cardinality(tracked \ {ip}) <= Cardinality(tracked)
    BY <1>0, FS_Subset, FS_CardinalityType
  <2>4. TableBounded'
    BY <1>0, <1>6, <2>3, LimiterAssumption DEF RecordSuccess, TableBounded
  <2> QED
    BY <2>1, <2>2, <2>4 DEF LInv
<1>7. CASE UNCHANGED vars
  BY <1>0, <1>7 DEF vars, LInv, TypeOK, BansActiveExact, TableBounded
<1> QED
  BY <1>1, <1>2, <1>3, <1>4, <1>5, <1>6, <1>7 DEF Next

\* Bans and windows belong to tracked sources, at every moment.
THEOREM LimiterTypeCorrect == Spec => []TypeOK
<1>1. LInv => TypeOK
  BY DEF LInv
<1> QED
  BY <1>1, InitLInv, NextLInv, PTL DEF Spec

\* bans_active never drifts from the table (check_allowed, prune_locked,
\* record_failure, record_success).
THEOREM BansActiveNeverDrifts == Spec => []BansActiveExact
<1>1. LInv => BansActiveExact
  BY DEF LInv
<1> QED
  BY <1>1, InitLInv, NextLInv, PTL DEF Spec

\* MAX_TRACKED_IPS bounds the table for any number of sources.
THEOREM TableNeverOverflows == Spec => []TableBounded
<1>1. LInv => TableBounded
  BY DEF LInv
<1> QED
  BY <1>1, InitLInv, NextLInv, PTL DEF Spec

\* No operation lifts or moves an active ban.
LEMMA StepKeepsBans == TypeOK /\ [Next]_vars => BanStands
<1> SUFFICES ASSUME TypeOK, [Next]_vars, NEW b \in Ips, ActiveBan(b)
             PROVE  b \in banned' /\ until'[b] = until[b]
  BY DEF BanStands
<1>0. b \in banned /\ b \in tracked
  BY DEF ActiveBan, TypeOK
<1>1. CASE Tick
  BY <1>0, <1>1 DEF Tick, table
<1>2. ASSUME NEW ip \in Ips, CheckAllowed(ip)
      PROVE  b \in banned' /\ until'[b] = until[b]
  BY <1>0, <1>2 DEF CheckAllowed
<1>3. ASSUME NEW ip \in Ips, CheckRejected(ip) \/ RecordWhileBanned(ip)
      PROVE  b \in banned' /\ until'[b] = until[b]
  BY <1>0, <1>3 DEF CheckRejected, RecordWhileBanned, vars
<1>4. ASSUME NEW ip \in Ips, RecordSkipped(ip)
      PROVE  b \in banned' /\ until'[b] = until[b]
  BY <1>0, <1>4, PruneKeepsActiveBans DEF RecordSkipped
<1>5. ASSUME NEW ip \in Ips, RecordCounted(ip)
      PROVE  b \in banned' /\ until'[b] = until[b]
  <2>1. b # ip
    BY <1>5 DEF RecordCounted
  <2>2. b \in AfterPrune(ip)
    BY PruneKeepsActiveBans
  <2>3. PICK evicted \in Evictions(ip) :
          /\ \/ banned' = (banned \cap (AfterPrune(ip) \ evicted)) \ {ip}
             \/ banned' = ((banned \cap (AfterPrune(ip) \ evicted)) \ {ip})
                            \cup {ip}
          /\ \E u : until' = [until EXCEPT ![ip] = u]
    BY <1>5 DEF RecordCounted
  <2>4. b \notin evicted
    BY <1>0, RoomFacts
  <2>5. until'[b] = until[b]
    BY <2>1, <2>3 DEF TypeOK
  <2> QED
    BY <1>0, <2>1, <2>2, <2>3, <2>4, <2>5
<1>6. ASSUME NEW ip \in Ips, RecordSuccess(ip)
      PROVE  b \in banned' /\ until'[b] = until[b]
  BY <1>0, <1>6 DEF RecordSuccess
<1>7. CASE UNCHANGED vars
  BY <1>0, <1>7 DEF vars
<1> QED
  BY <1>1, <1>2, <1>3, <1>4, <1>5, <1>6, <1>7 DEF Next

\* An active ban survives until it expires, whatever sessions in flight,
\* pruning and eviction do.
THEOREM BansAreNeverLifted == Spec => BansAreKept
<1>1. LInv => TypeOK
  BY DEF LInv
<1>2. TypeOK /\ [Next]_vars => [BanStands]_vars
  BY StepKeepsBans
<1> QED
  BY <1>1, <1>2, InitLInv, NextLInv, PTL DEF Spec, BansAreKept
=============================================================================
