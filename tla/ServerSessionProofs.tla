------------------------- MODULE ServerSessionProofs -------------------------
(***************************************************************************)
(* The server's books for any number of connections, users and limits.     *)
(* Every step of a connection is one of three things to the user registry  *)
(* (nothing, an acquire by a connection without a user, a drop) and at     *)
(* most one critical section of the limiter, so the counts are proved once *)
(* for each of these and the limiter's specification is implemented.       *)
(***************************************************************************)
EXTENDS ServerSession, FiniteSetTheorems, TLAPS

\* A failure is recorded on the way out, once.
ChargedAtEnd ==
  \A c \in Conns :
    /\ charged[c] \in {0, 1}
    /\ charged[c] = 1 => pc[c] \in {"closing", "closed"}

\* The types without the limiter's.
ServerTypes ==
  /\ enabled \subseteq Users
  /\ active \in [Users -> Nat]
  /\ pc \in [Conns -> Holding \cup {"idle", "queued", "closed"}]
  /\ user \in [Conns -> Users \cup {NoUser}]
  /\ junk \in [Conns -> 0..MaxJunk]
  /\ decrypt \in [Conns -> 0..MaxDecrypt]
  /\ charged \in [Conns -> Nat]

\* The inductive invariant.
SInv ==
  /\ L!TypeOK /\ reality \in BOOLEAN /\ ServerTypes
  /\ UserSessionsExact /\ ChargedAtEnd

\* The connections that hold a session of user u.
SessionsOf(u) == {c \in Conns : user[c] = u}

-----------------------------------------------------------------------------
(* The limiter                                                             *)

\* Every step of the server is a critical section of the limiter or does not
\* touch it.
LEMMA LimiterStep ==
  ASSUME [Next]_vars
  PROVE  [L!Next]_limiter
<1> USE SessionAssumption DEF limiter
<1>1. ASSUME NEW c \in Conns, PeerStep(c)
      PROVE  [L!Next]_limiter
  BY <1>1 DEF PeerStep, Accept, TlsAccepted, Upgraded, Junk, Hello, AuthFrame,
              RealityAuth, FirstFrame, FirstHello, PeerGone, ChannelOpen,
              TunnelEnds, L!Next
<1>2. ASSUME NEW c \in Conns, Timeout(c) \/ TakePermit(c)
      PROVE  [L!Next]_limiter
  BY <1>2 DEF Timeout, PermitTimeout, SetupTimeout, HandshakeTimeout, TakePermit
<1>3. ASSUME NEW c \in Conns, TaskStep(c)
      PROVE  [L!Next]_limiter
  BY <1>3 DEF TaskStep, Authenticated, AuthRejected, ReplayCheck, Success,
              ChargedInside, Charged, Charge, Dialled, Close, L!Next, L!RecordFailure
<1>4. CASE EditUsers \/ ClockTick
  BY <1>4 DEF EditUsers, ClockTick, L!Next
<1>5. CASE UNCHANGED vars
  BY <1>5 DEF vars
<1> QED
  BY <1>1, <1>2, <1>3, <1>4, <1>5 DEF Next

\* The limiter counts with the operator the server counts with.
LEMMA SameCardinality ==
  ASSUME NEW S
  PROVE  L!Cardinality(S) = Cardinality(S)
  BY DEF L!Cardinality, Cardinality

\* The limiter's critical sections keep its table well formed.
LEMMA LimiterTypes ==
  ASSUME L!TypeOK, [L!Next]_limiter
  PROVE  L!TypeOK'
<1> USE SessionAssumption DEF L!TypeOK, limiter
<1>1. ASSUME NEW ip \in Ips
      PROVE  L!Cardinality(L!Pruned(ip)) \in Nat
  <2>1. IsFiniteSet(L!Pruned(ip))
    BY FS_Subset DEF L!Pruned
  <2> QED
    BY <2>1, FS_CardinalityType, SameCardinality
<1>2. ASSUME NEW ip \in Ips
      PROVE  L!AfterPrune(ip) \subseteq tracked
  BY DEF L!AfterPrune
<1>3. CASE L!Tick
  BY <1>3 DEF L!Tick, L!table
<1>4. ASSUME NEW ip \in Ips, L!CheckAllowed(ip) \/ L!CheckRejected(ip)
      PROVE  L!TypeOK'
  BY <1>4 DEF L!CheckAllowed, L!CheckRejected, L!vars
<1>5. ASSUME NEW ip \in Ips, L!RecordSkipped(ip) \/ L!RecordWhileBanned(ip)
      PROVE  L!TypeOK'
  <2>1. CASE L!RecordWhileBanned(ip)
    BY <2>1 DEF L!RecordWhileBanned, L!vars
  <2>2. CASE L!RecordSkipped(ip)
    BY <1>1, <1>2, <2>2 DEF L!RecordSkipped
  <2> QED
    BY <1>5, <2>1, <2>2
<1>6. ASSUME NEW ip \in Ips, L!RecordCounted(ip)
      PROVE  L!TypeOK'
  <2>1. ASSUME NEW kept
        PROVE  L!Counted(ip, kept) \in Nat /\ L!WindowStart(ip, kept) \in Nat
    BY DEF L!Counted, L!WindowStart
  <2>2. now + BanLen \in Nat
    OBVIOUS
  <2> QED
    BY <1>1, <1>2, <1>6, <2>1, <2>2 DEF L!RecordCounted
<1>7. ASSUME NEW ip \in Ips, L!RecordSuccess(ip)
      PROVE  L!TypeOK'
  BY <1>7 DEF L!RecordSuccess
<1>8. CASE UNCHANGED limiter
  BY <1>8
<1> QED
  BY <1>3, <1>4, <1>5, <1>6, <1>7, <1>8 DEF L!Next

-----------------------------------------------------------------------------
(* The user registry                                                       *)

\* A user's sessions are finitely many.
LEMMA SessionsFinite ==
  ASSUME NEW u
  PROVE  IsFiniteSet(SessionsOf(u)) /\ Cardinality(SessionsOf(u)) \in Nat
<1>1. IsFiniteSet(SessionsOf(u))
  BY SessionAssumption, FS_Subset DEF SessionsOf
<1> QED
  BY <1>1, FS_CardinalityType

\* UserRegistry::acquire counts the session that it gives out.
LEMMA AcquireCounts ==
  ASSUME SInv, NEW c \in Conns, NEW u \in Users, user[c] = NoUser, Acquire(c, u)
  PROVE  /\ active' \in [Users -> Nat] /\ user' \in [Conns -> Users \cup {NoUser}]
         /\ UserSessionsExact'
<1> USE SessionAssumption DEF SInv, ServerTypes
<1>1. active' = [active EXCEPT ![u] = active[u] + 1] /\ user' = [user EXCEPT ![c] = u]
      /\ active[u] < UserLimit[u]
  BY DEF Acquire
<1>2. SessionsOf(u)' = SessionsOf(u) \cup {c} /\ c \notin SessionsOf(u)
  BY <1>1 DEF SessionsOf
<1>3. Cardinality(SessionsOf(u)') = Cardinality(SessionsOf(u)) + 1
  BY <1>2, SessionsFinite, FS_AddElement
<1>4. ASSUME NEW w \in Users, w # u
      PROVE  SessionsOf(w)' = SessionsOf(w)
  BY <1>1, <1>4 DEF SessionsOf
<1>5. ASSUME NEW w \in Users
      PROVE  active'[w] = Cardinality(SessionsOf(w)') /\ active'[w] <= UserLimit[w]
  <2>1. active[w] = Cardinality(SessionsOf(w)) /\ active[w] <= UserLimit[w]
    BY DEF UserSessionsExact, SessionsOf
  <2>2. CASE w = u
    BY <1>1, <1>3, <2>1, <2>2, SessionsFinite
  <2>3. CASE w # u
    BY <1>1, <1>4, <2>1, <2>3
  <2> QED
    BY <2>2, <2>3
<1>6. UserSessionsExact'
  BY <1>5 DEF UserSessionsExact, SessionsOf
<1> QED
  BY <1>1, <1>6

\* UserSession's Drop gives back what was counted, and never underflows.
LEMMA DropCounts ==
  ASSUME SInv, NEW c \in Conns, DropUser(c)
  PROVE  /\ active' \in [Users -> Nat] /\ user' \in [Conns -> Users \cup {NoUser}]
         /\ UserSessionsExact'
<1> USE SessionAssumption DEF SInv, ServerTypes
<1>1. CASE user[c] = NoUser
  <2>1. active' = active /\ user' = user
    BY <1>1 DEF DropUser
  <2> QED
    BY <2>1 DEF UserSessionsExact
<1>2. CASE user[c] # NoUser
  <2>0. PICK u \in Users : user[c] = u
    BY <1>2
  <2>1. /\ u \in Users /\ user' = [user EXCEPT ![c] = NoUser]
        /\ active' = [active EXCEPT ![u] = active[u] - 1]
    BY <1>2, <2>0 DEF DropUser
  <2>2. c \in SessionsOf(u) /\ SessionsOf(u)' = SessionsOf(u) \ {c}
    BY <2>0, <2>1, <1>2 DEF SessionsOf
  <2>3. Cardinality(SessionsOf(u)') = Cardinality(SessionsOf(u)) - 1
    BY <2>2, SessionsFinite, FS_RemoveElement
  <2>4. Cardinality(SessionsOf(u)) # 0
    BY <2>2, SessionsFinite, FS_EmptySet
  <2>5. ASSUME NEW w \in Users, w # u
        PROVE  SessionsOf(w)' = SessionsOf(w)
    BY <2>0, <2>1, <2>5 DEF SessionsOf
  <2>6. active[u] = Cardinality(SessionsOf(u)) /\ active[u] <= UserLimit[u]
    BY <2>1 DEF UserSessionsExact, SessionsOf
  <2>7. active[u] - 1 \in Nat
    BY <2>1, <2>4, <2>6, SessionsFinite
  <2>8. ASSUME NEW w \in Users
        PROVE  active'[w] = Cardinality(SessionsOf(w)') /\ active'[w] <= UserLimit[w]
    <3>1. active[w] = Cardinality(SessionsOf(w)) /\ active[w] <= UserLimit[w]
      BY DEF UserSessionsExact, SessionsOf
    <3>2. CASE w = u
      BY <2>1, <2>3, <3>1, <3>2, SessionsFinite
    <3>3. CASE w # u
      BY <2>1, <2>5, <3>1, <3>3
    <3> QED
      BY <3>2, <3>3
  <2>9. UserSessionsExact'
    BY <2>8 DEF UserSessionsExact, SessionsOf
  <2> QED
    BY <2>1, <2>7, <2>9
<1> QED
  BY <1>1, <1>2

\* What a step may do to the registry.
LEMMA RegistryStep ==
  ASSUME SInv, [Next]_vars
  PROVE  \/ UNCHANGED <<active, user>>
         \/ \E c \in Conns, u \in Users : user[c] = NoUser /\ Acquire(c, u)
         \/ \E c \in Conns : DropUser(c)
<1> USE DEF registry
<1>1. ASSUME NEW c \in Conns, PeerStep(c)
      PROVE  UNCHANGED <<active, user>>
  BY <1>1 DEF PeerStep, Accept, TlsAccepted, Upgraded, Junk, Hello, AuthFrame,
              RealityAuth, FirstFrame, FirstHello, PeerGone, ChannelOpen, TunnelEnds
<1>2. ASSUME NEW c \in Conns, Timeout(c) \/ TakePermit(c)
      PROVE  UNCHANGED <<active, user>> \/ DropUser(c)
  BY <1>2 DEF Timeout, PermitTimeout, SetupTimeout, HandshakeTimeout, TakePermit
<1>3. ASSUME NEW c \in Conns, TaskStep(c)
      PROVE  \/ UNCHANGED <<active, user>>
             \/ \E u \in Users : user[c] = NoUser /\ Acquire(c, u)
             \/ DropUser(c)
  BY <1>3 DEF TaskStep, Authenticated, AuthRejected, ReplayCheck, Success,
              ChargedInside, Charged, Dialled, Close, SInv, ServerTypes
<1>4. CASE EditUsers \/ ClockTick \/ UNCHANGED vars
  BY <1>4 DEF EditUsers, ClockTick, vars
<1> QED
  BY <1>1, <1>2, <1>3, <1>4 DEF Next

-----------------------------------------------------------------------------
(* Where a connection stands                                               *)

\* The types of the rest, and the failures charged.
LEMMA ConnectionStep ==
  ASSUME SInv, [Next]_vars
  PROVE  /\ reality' \in BOOLEAN /\ enabled' \subseteq Users
         /\ pc' \in [Conns -> Holding \cup {"idle", "queued", "closed"}]
         /\ junk' \in [Conns -> 0..MaxJunk] /\ decrypt' \in [Conns -> 0..MaxDecrypt]
         /\ charged' \in [Conns -> Nat] /\ ChargedAtEnd'
<1> DEFINE P == /\ enabled' \subseteq Users
                /\ pc' \in [Conns -> Holding \cup {"idle", "queued", "closed"}]
                /\ junk' \in [Conns -> 0..MaxJunk]
                /\ decrypt' \in [Conns -> 0..MaxDecrypt]
                /\ charged' \in [Conns -> Nat] /\ ChargedAtEnd'
<1> USE SessionAssumption DEF SInv, ServerTypes, ChargedAtEnd, registry, budget, Goto,
        Holding, Setup, Timed, Sync, FreshBudget
<1>1. ASSUME NEW c \in Conns, Accept(c) \/ TakePermit(c) \/ PermitTimeout(c)
      PROVE  P
  BY <1>1 DEF Accept, TakePermit, PermitTimeout
<1>2. ASSUME NEW c \in Conns, TlsAccepted(c) \/ SetupTimeout(c)
      PROVE  P
  BY <1>2 DEF TlsAccepted, SetupTimeout
<1>3. ASSUME NEW c \in Conns, Upgraded(c)
      PROVE  P
  BY <1>3 DEF Upgraded
<1>4. ASSUME NEW c \in Conns, Junk(c)
      PROVE  P
  BY <1>4 DEF Junk
<1>5. ASSUME NEW c \in Conns, Hello(c) \/ RealityAuth(c) \/ AuthRejected(c)
      PROVE  P
  BY <1>5 DEF Hello, RealityAuth, AuthRejected
<1>6. ASSUME NEW c \in Conns, AuthFrame(c)
      PROVE  P
  BY <1>6 DEF AuthFrame
<1>7. ASSUME NEW c \in Conns, Authenticated(c) \/ ReplayCheck(c)
      PROVE  P
  BY <1>7 DEF Authenticated, ReplayCheck
<1>8. ASSUME NEW c \in Conns, Success(c)
      PROVE  P
  BY <1>8 DEF Success
<1>9. ASSUME NEW c \in Conns, FirstFrame(c) \/ FirstHello(c)
      PROVE  P
  BY <1>9 DEF FirstFrame, FirstHello
<1>10. ASSUME NEW c \in Conns, ChargedInside(c) \/ Charged(c)
       PROVE  P
  BY <1>10 DEF ChargedInside, Charged, Charge
<1>11. ASSUME NEW c \in Conns, HandshakeTimeout(c) \/ PeerGone(c)
       PROVE  P
  BY <1>11 DEF HandshakeTimeout, PeerGone
<1>12. ASSUME NEW c \in Conns, ChannelOpen(c) \/ Dialled(c) \/ TunnelEnds(c)
       PROVE  P
  BY <1>12 DEF ChannelOpen, Dialled, TunnelEnds
<1>13. ASSUME NEW c \in Conns, Close(c)
       PROVE  P
  BY <1>13 DEF Close
<1>14. CASE EditUsers \/ ClockTick \/ UNCHANGED vars
  BY <1>14 DEF EditUsers, ClockTick, vars
<1>15. P
  BY <1>1, <1>2, <1>3, <1>4, <1>5, <1>6, <1>7, <1>8, <1>9, <1>10, <1>11, <1>12,
     <1>13, <1>14
  DEF Next, PeerStep, Timeout, TaskStep
<1>16. reality' = reality
  BY DEF Next, PeerStep, Timeout, TaskStep, Accept, TakePermit, PermitTimeout,
         TlsAccepted, SetupTimeout, Upgraded, Junk, Hello, RealityAuth,
         AuthRejected, AuthFrame, Authenticated, ReplayCheck, Success,
         FirstFrame, FirstHello, ChargedInside, Charged, HandshakeTimeout,
         PeerGone, ChannelOpen, Dialled, TunnelEnds, Close, EditUsers,
         ClockTick, vars
<1> QED
  BY <1>15, <1>16

-----------------------------------------------------------------------------
(* The theorems                                                            *)

\* The server starts with empty books.
LEMMA InitSInv == Init => SInv
<1> SUFFICES ASSUME Init
             PROVE  SInv
  OBVIOUS
<1>1. L!TypeOK
  BY DEF Init, L!Init, L!TypeOK
<1>2. reality \in BOOLEAN /\ ServerTypes /\ ChargedAtEnd
  BY SessionAssumption DEF Init, ServerTypes, ChargedAtEnd
<1>3. ASSUME NEW u \in Users
      PROVE  active[u] = Cardinality(SessionsOf(u)) /\ active[u] <= UserLimit[u]
  <2>1. SessionsOf(u) = {}
    BY SessionAssumption DEF Init, SessionsOf
  <2>2. active[u] = 0 /\ UserLimit[u] \in Nat
    BY SessionAssumption DEF Init
  <2> QED
    BY <2>1, <2>2, FS_EmptySet
<1>4. UserSessionsExact
  BY <1>3 DEF UserSessionsExact, SessionsOf
<1> QED
  BY <1>1, <1>2, <1>4 DEF SInv

\* Every reachable state satisfies the inductive invariant.
THEOREM ServerInvariant == Spec => []SInv
<1>1. SInv /\ [Next]_vars => SInv'
  <2> SUFFICES ASSUME SInv, [Next]_vars
               PROVE  SInv'
    OBVIOUS
  <2>1. L!TypeOK'
    BY LimiterStep, LimiterTypes DEF SInv
  <2>2. /\ active' \in [Users -> Nat] /\ user' \in [Conns -> Users \cup {NoUser}]
        /\ UserSessionsExact'
    <3>1. CASE UNCHANGED <<active, user>>
      BY <3>1 DEF SInv, ServerTypes, UserSessionsExact
    <3> QED
      BY <3>1, RegistryStep, AcquireCounts, DropCounts
  <2> QED
    BY <2>1, <2>2, ConnectionStep DEF SInv, ServerTypes
<1> QED
  BY InitSInv, <1>1, PTL DEF Spec

\* AccountsExact: the registry counts the open sessions of every user and
\* keeps to its limit, and a connection is charged at most once, for any
\* number of connections, users and limits.
THEOREM AccountsAlwaysExact == Spec => []AccountsExact
<1>1. SInv => AccountsExact
  BY SessionAssumption
  DEF SInv, ServerTypes, AccountsExact, TypeOK, ChargedAtEnd, ChargedOnce, Setup
<1> QED
  BY ServerInvariant, <1>1, PTL

\* To the limiter, the server with its connections is a sequence of its own
\* critical sections: what AuthRateLimiterProofs shows of the limiter holds in
\* the server.
THEOREM ServerImplementsLimiter == Spec => L!Spec
<1>1. Init => L!Init
  BY DEF Init
<1>2. [Next]_vars => [L!Next]_(L!vars)
  BY LimiterStep DEF limiter, L!vars
<1> QED
  BY <1>1, <1>2, PTL DEF Spec, L!Spec
=============================================================================
