---------------------------- MODULE RealityProofs ----------------------------
(***************************************************************************)
(* The replay cache for any number of clients, connections, copies, window *)
(* and capacity.  The cache remembers every admitted nonce that the latest *)
(* purge still counts as live (Remembered); a check with a time that is    *)
(* not older than that purge therefore finds it.                           *)
(***************************************************************************)
EXTENDS Reality, FiniteSetTheorems, TLAPS

ClientStates == {"idle", "helloSent", "authSent", "refused"}
ConnStates == {"open", "hello", "auth", "lock", "replay", "full", "admitted", "closed"}

\* The values of both ends.
Ends ==
  /\ clock \in 0..MaxClock /\ purged \in 0..clock /\ cap \in Nat
  /\ client \in [Clients -> [pc : ClientStates, ts : 0..MaxClock, token : Tokens]]
  /\ conn \in [Conns -> [pc : ConnStates, who : Clients \cup {None}, now : 0..MaxClock]]
  /\ \A s \in Conns : conn[s].now <= clock

\* The values of the cache and of the history.
Books ==
  /\ cache \subseteq [nonce : Clients, ts : 0..MaxClock] /\ IsFiniteSet(cache)
  /\ admitted \subseteq [conn : Conns, who : Clients, at : 0..MaxClock]
  /\ IsFiniteSet(admitted)
  /\ overtaken \in BOOLEAN

\* Whoever is on a connection has sent its HELLO, and before the cache its AUTH.
Shown ==
  \A s \in Conns :
    /\ conn[s].pc \in {"auth", "lock"} => conn[s].who \in Clients
    /\ conn[s].who # None => client[conn[s].who].pc # "idle"
    /\ conn[s].pc = "lock" => /\ client[conn[s].who].pc = "authSent"
                              /\ client[conn[s].who].token \in Known

\* What was admitted, and that a purge was done with its time or a later one.
AdmittedAfterAuth ==
  \A a \in admitted :
    /\ client[a.who].pc = "authSent" /\ client[a.who].token \in Known
    /\ a.at <= purged

\* A cached nonce is one that was admitted, not earlier than its window.
CachedWasAdmitted ==
  \A e \in cache :
    /\ e.ts = client[e.nonce].ts
    /\ \E a \in admitted : a.who = e.nonce /\ a.at >= e.ts - max_time_diff

\* The cache forgets only what the latest purge counts as dead.
Remembered ==
  \A a \in admitted :
    client[a.who].ts + max_time_diff >= purged => \E e \in cache : e.nonce = a.who

\* The inductive invariant.
RInv ==
  /\ Ends /\ Books /\ Shown /\ AdmittedAfterAuth /\ CachedWasAdmitted
  /\ Remembered /\ AdmittedOnce /\ FullOnlyUnderLoad

-----------------------------------------------------------------------------
\* Nobody is admitted, nothing is cached.
LEMMA InitRInv == Init => RInv
<1> SUFFICES ASSUME Init
             PROVE  RInv
  OBVIOUS
<1> USE RealityAssumption DEF Init
<1>1. Ends
  BY DEF Ends, ClientStates, ConnStates, Fresh
<1>2. Books
  BY FS_EmptySet DEF Books
<1>3. Shown /\ AdmittedAfterAuth /\ CachedWasAdmitted /\ Remembered
  BY DEF Shown, AdmittedAfterAuth, CachedWasAdmitted, Remembered, Fresh
<1>4. AdmittedOnce /\ FullOnlyUnderLoad
  BY DEF AdmittedOnce, FullOnlyUnderLoad, Fresh
<1> QED
  BY <1>1, <1>2, <1>3, <1>4 DEF RInv

\* Time passes.
LEMMA TickKeeps ==
  ASSUME RInv, Tick
  PROVE  RInv'
<1> USE RealityAssumption DEF RInv, Tick
<1>1. Ends'
  BY DEF Ends
<1>2. Books' /\ Shown' /\ AdmittedAfterAuth' /\ CachedWasAdmitted' /\ Remembered'
  BY DEF Ends, Books, Shown, AdmittedAfterAuth, CachedWasAdmitted, Remembered
<1>3. AdmittedOnce' /\ FullOnlyUnderLoad'
  BY DEF AdmittedOnce, FullOnlyUnderLoad
<1> QED
  BY <1>1, <1>2, <1>3

\* A client sends its HELLO: nobody has heard of it before.
LEMMA HelloKeeps ==
  ASSUME RInv, NEW c \in Clients, SendHello(c)
  PROVE  RInv'
<1> USE RealityAssumption DEF RInv
<1>1. PICK ts \in 0..MaxClock :
        /\ client[c].pc = "idle"
        /\ client' = [client EXCEPT ![c] = [pc |-> "helloSent", ts |-> ts,
                                            token |-> client[c].token]]
        /\ UNCHANGED <<clock, conn, cache, admitted, purged, overtaken, cap>>
  BY DEF SendHello
<1>2. Ends'
  BY <1>1 DEF Ends, ClientStates
<1>3. Books' /\ AdmittedOnce' /\ FullOnlyUnderLoad'
  BY <1>1 DEF Books, AdmittedOnce, FullOnlyUnderLoad
<1>4. Shown'
  BY <1>1 DEF Ends, Shown
<1>5. \A a \in admitted : a.who \in Clients /\ client'[a.who] = client[a.who]
  BY <1>1 DEF Books, Ends, AdmittedAfterAuth
<1>6. AdmittedAfterAuth' /\ Remembered'
  BY <1>1, <1>5 DEF AdmittedAfterAuth, Remembered
<1>7. CachedWasAdmitted'
  BY <1>1, <1>5 DEF CachedWasAdmitted
<1> QED
  BY <1>2, <1>3, <1>4, <1>6, <1>7

\* A client checks the server's confirmation.
LEMMA ConfirmKeeps ==
  ASSUME RInv, NEW c \in Clients, RecvServerHello(c)
  PROVE  RInv'
<1> USE RealityAssumption DEF RInv
<1>1. PICK l \in {"authSent", "refused"} :
        /\ client[c].pc = "helloSent"
        /\ client' = [client EXCEPT ![c] = [pc |-> l, ts |-> client[c].ts,
                                            token |-> client[c].token]]
        /\ UNCHANGED <<clock, conn, cache, admitted, purged, overtaken, cap>>
  BY DEF RecvServerHello, Ends
<1>2. Ends'
  BY <1>1 DEF Ends, ClientStates
<1>3. Books' /\ AdmittedOnce' /\ FullOnlyUnderLoad'
  BY <1>1 DEF Books, AdmittedOnce, FullOnlyUnderLoad
<1>4. Shown'
  BY <1>1 DEF Ends, Shown
<1>5. \A a \in admitted : a.who \in Clients /\ client'[a.who] = client[a.who]
  BY <1>1 DEF Books, Ends, AdmittedAfterAuth
<1>6. AdmittedAfterAuth' /\ Remembered'
  BY <1>1, <1>5 DEF AdmittedAfterAuth, Remembered
<1>7. CachedWasAdmitted'
  BY <1>1, <1>5 DEF CachedWasAdmitted
<1> QED
  BY <1>2, <1>3, <1>4, <1>6, <1>7

\* A connection moves on, and not into the cache.
LEMMA ConnKeeps ==
  ASSUME RInv, NEW s \in Conns,
         NEW r \in [pc : ConnStates \ {"full"}, who : Clients \cup {None}, now : 0..clock],
         conn' = [conn EXCEPT ![s] = r],
         r.pc \in {"auth", "lock"} => r.who \in Clients,
         r.who # None => client[r.who].pc # "idle",
         r.pc = "lock" => /\ client[r.who].pc = "authSent"
                          /\ client[r.who].token \in Known,
         UNCHANGED <<clock, client, cache, admitted, purged, overtaken, cap>>
  PROVE  RInv'
<1> USE RealityAssumption DEF RInv
<1>1. Ends'
  <2>1. r \in [pc : ConnStates, who : Clients \cup {None}, now : 0..MaxClock]
    BY DEF Ends
  <2> QED
    BY <2>1 DEF Ends
<1>2. Books' /\ AdmittedAfterAuth' /\ CachedWasAdmitted' /\ Remembered' /\ AdmittedOnce'
  BY DEF Books, AdmittedAfterAuth, CachedWasAdmitted, Remembered, AdmittedOnce
<1>3. Shown'
  BY DEF Ends, Shown
<1>4. FullOnlyUnderLoad'
  BY DEF Ends, FullOnlyUnderLoad
<1> QED
  BY <1>1, <1>2, <1>3, <1>4

\* Every step of the server's handshake before the cache.
LEMMA ServerKeeps ==
  ASSUME RInv, NEW s \in Conns,
         \/ Begin(s) \/ NameRefused(s) \/ NoBinary(s) \/ BadFrame(s)
         \/ \E c \in Clients : RecvHello(s, c) \/ RecvAuth(s, c)
  PROVE  RInv'
<1> DEFINE Row(p, w, n) == [pc |-> p, who |-> w, now |-> n]
<1>0. /\ conn[s] = Row(conn[s].pc, conn[s].who, conn[s].now)
      /\ conn[s] \in [pc : ConnStates, who : Clients \cup {None}, now : 0..MaxClock]
      /\ conn[s].now \in 0..clock /\ 0 \in 0..clock /\ clock \in 0..clock
      /\ Closed = Row("closed", None, 0)
  BY RealityAssumption DEF RInv, Ends, Closed, Fresh
<1>s. /\ conn[s].who # None => client[conn[s].who].pc # "idle"
      /\ conn[s].pc = "auth" => conn[s].who \in Clients
  BY DEF RInv, Shown
<1>1. CASE NameRefused(s) \/ NoBinary(s) \/ BadFrame(s)
  <2>1. conn' = [conn EXCEPT ![s] = Row("closed", None, 0)]
    BY <1>0, <1>1 DEF NameRefused, NoBinary, BadFrame
  <2> QED
    BY <1>0, <1>1, <2>1, ConnKeeps DEF NameRefused, NoBinary, BadFrame, ConnStates
<1>2. CASE Begin(s)
  <2>1. conn' = [conn EXCEPT ![s] = Row("hello", conn[s].who, clock)]
    BY <1>2 DEF Begin
  <2> QED
    BY <1>0, <1>s, <1>2, <2>1, ConnKeeps DEF Begin, ConnStates
<1>3. ASSUME NEW c \in Clients, RecvHello(s, c)
      PROVE  RInv'
  <2>1. CASE InWindow(conn[s].now, client[c].ts)
    <3>1. conn' = [conn EXCEPT ![s] = Row("auth", c, conn[s].now)]
      BY <1>3, <2>1 DEF RecvHello, ServerHello
    <3> QED
      BY <1>0, <1>3, <3>1, ConnKeeps DEF RecvHello, ConnStates
  <2>2. CASE ~InWindow(conn[s].now, client[c].ts)
    <3>1. conn' = [conn EXCEPT ![s] = Row("closed", None, 0)]
      BY <1>0, <1>3, <2>2 DEF RecvHello
    <3> QED
      BY <1>0, <1>3, <3>1, ConnKeeps DEF RecvHello, ConnStates
  <2> QED
    BY <2>1, <2>2
<1>4. ASSUME NEW c \in Clients, RecvAuth(s, c)
      PROVE  RInv'
  <2>1. CASE Authentic(s, c)
    <3>1. conn' = [conn EXCEPT ![s] = Row("lock", c, clock)]
      BY <1>4, <2>1 DEF RecvAuth, Authentic
    <3>2. client[c].pc = "authSent" /\ client[c].token \in Known
      BY <1>4, <2>1 DEF RecvAuth, Authentic
    <3> QED
      BY <1>0, <1>4, <3>1, <3>2, ConnKeeps DEF RecvAuth, ConnStates
  <2>2. CASE ~Authentic(s, c)
    <3>1. conn' = [conn EXCEPT ![s] = Row("closed", None, 0)]
      BY <1>0, <1>4, <2>2 DEF RecvAuth
    <3> QED
      BY <1>0, <1>4, <3>1, ConnKeeps DEF RecvAuth, ConnStates
  <2> QED
    BY <2>1, <2>2
<1> QED
  BY <1>1, <1>2, <1>3, <1>4

\* A purge: each nonce that it keeps was admitted within the last two windows,
\* so it keeps at most as many as were.
LEMMA KeptWereAdmitted ==
  ASSUME RInv, NEW now \in Nat, NEW kept \in SUBSET cache,
         \A e \in kept : Kept(e, now)
  PROVE  /\ IsFiniteSet(kept) /\ Cardinality(kept) \in Nat
         /\ LET A == {a \in admitted : a.at >= now - 2 * max_time_diff}
            IN  IsFiniteSet(A) /\ Cardinality(A) \in Nat /\ Cardinality(kept) <= Cardinality(A)
<1> DEFINE A == {a \in admitted : a.at >= now - 2 * max_time_diff}
           f == [e \in kept |-> CHOOSE a \in A : a.who = e.nonce]
<1>1. IsFiniteSet(kept) /\ Cardinality(kept) \in Nat
  BY FS_Subset, FS_CardinalityType DEF RInv, Books
<1>2. IsFiniteSet(A) /\ Cardinality(A) \in Nat
  BY FS_Subset, FS_CardinalityType DEF RInv, Books
<1>3. \A e \in kept : \E a \in A : a.who = e.nonce
  <2> SUFFICES ASSUME NEW e \in kept
               PROVE  \E a \in A : a.who = e.nonce
    OBVIOUS
  <2>1. PICK a \in admitted : a.who = e.nonce /\ a.at >= e.ts - max_time_diff
    BY DEF RInv, CachedWasAdmitted
  <2>2. e.ts + max_time_diff >= now /\ e.ts \in Nat /\ a.at \in Nat
    BY DEF RInv, Books, Kept
  <2>3. a.at >= now - 2 * max_time_diff
    BY RealityAssumption, <2>1, <2>2
  <2> QED
    BY <2>1, <2>3
<1>4. \A e \in kept : f[e] \in A /\ f[e].who = e.nonce
  BY <1>3
<1>5. f \in Injection(kept, A)
  <2>1. f \in [kept -> A]
    BY <1>4
  <2>2. \A e, g \in kept : e.nonce = g.nonce => e = g
    BY DEF RInv, Books, CachedWasAdmitted
  <2>3. \A e, g \in kept : f[e] = f[g] => e = g
    BY <1>4, <2>2
  <2> HIDE DEF f, A
  <2> QED
    BY <2>1, <2>3 DEF Injection, IsInjective
<1>6. Cardinality(kept) <= Cardinality(A)
  <2> HIDE DEF f, A
  <2> QED
    BY <1>2, <1>5, FS_Injection
<1> QED
  BY <1>1, <1>2, <1>6

\* RealityReplayCache::check_and_insert.
LEMMA CheckKeeps ==
  ASSUME RInv, NEW s \in Conns, CheckAndInsert(s)
  PROVE  RInv'
<1> USE RealityAssumption
<1> DEFINE Row(p, w, n) == [pc |-> p, who |-> w, now |-> n]
<1>1. PICK c \in Clients, now \in 0..clock :
        /\ conn[s] = Row("lock", c, now)
        /\ client[c].pc = "authSent" /\ client[c].token \in Known
  BY DEF CheckAndInsert, RInv, Ends, Shown
<1>2. /\ clock \in 0..MaxClock /\ purged \in 0..clock /\ now \in Nat /\ now <= clock
      /\ client[c].ts \in 0..MaxClock
  BY <1>1 DEF RInv, Ends
<1>5. ASSUME NEW l \in {"replay", "full", "admitted"}, conn' = [conn EXCEPT ![s].pc = l]
      PROVE  conn' = [conn EXCEPT ![s] = Row(l, c, now)]
  <2>1. conn' = [conn EXCEPT ![s] = [conn[s] EXCEPT !.pc = l]]
    BY <1>5
  <2>2. [Row("lock", c, now) EXCEPT !.pc = l] = Row(l, c, now)
    OBVIOUS
  <2>3. [conn[s] EXCEPT !.pc = l] = [Row("lock", c, now) EXCEPT !.pc = l]
    BY <1>1, Zenon
  <2> QED
    BY <2>1, <2>2, <2>3
<1>3. CASE ~InWindow(now, client[c].ts)
  <2>1. /\ conn' = [conn EXCEPT ![s] = Row("closed", None, 0)]
        /\ UNCHANGED <<clock, client, cache, admitted, purged, overtaken, cap>>
    BY <1>1, <1>3 DEF CheckAndInsert, Closed, Fresh
  <2>2. Row("closed", None, 0)
          \in [pc : ConnStates \ {"full"}, who : Clients \cup {None}, now : 0..clock]
    BY <1>2 DEF ConnStates
  <2> QED
    BY <2>1, <2>2, ConnKeeps
<1>4. CASE InWindow(now, client[c].ts)
  <2>1. PICK kept \in SUBSET cache : kept = {e \in cache : Kept(e, now)}
    OBVIOUS
  <2>2. /\ purged' = (IF now > purged THEN now ELSE purged)
        /\ UNCHANGED <<clock, client, cap>>
    BY <1>1, <1>4 DEF CheckAndInsert
  <2>3. overtaken' = (overtaken \/ now < purged)
    BY <1>1, <1>4 DEF CheckAndInsert
  <2>4. purged' \in 0..clock /\ purged' >= purged /\ purged' >= now
    BY <1>2, <2>2
  \* What the purge still counts as live is still there.
  <2>5. \A a \in admitted :
          client[a.who].ts + max_time_diff >= purged' => \E e \in kept : e.nonce = a.who
    <3> SUFFICES ASSUME NEW a \in admitted, client[a.who].ts + max_time_diff >= purged'
                 PROVE  \E e \in kept : e.nonce = a.who
      OBVIOUS
    <3>1. a.who \in Clients /\ client[a.who].ts \in Nat
      BY DEF RInv, Books, Ends
    <3>2. client[a.who].ts + max_time_diff >= purged /\ client[a.who].ts + max_time_diff >= now
      BY <1>2, <2>4, <3>1
    <3>3. PICK e \in cache : e.nonce = a.who
      BY <3>2 DEF RInv, Remembered
    <3>4. e.ts = client[a.who].ts
      BY <3>3 DEF RInv, CachedWasAdmitted
    <3> QED
      BY <2>1, <3>2, <3>3, <3>4 DEF Kept
  <2>6. \A e \in kept : Kept(e, now)
    BY <2>1
  <2>7. IsFiniteSet(kept) /\ Cardinality(kept) \in Nat
    BY <1>2, <2>6, KeptWereAdmitted
  <2>8. CASE (\E e \in kept : e.nonce = c) \/ Cardinality(kept) >= cap
    <3>1. cache' = kept /\ UNCHANGED admitted
      BY <1>1, <1>4, <2>1, <2>8 DEF CheckAndInsert
    <3>2. PICK l \in {"replay", "full"} :
            /\ conn' = [conn EXCEPT ![s] = Row(l, c, now)]
            /\ l = "full" => Cardinality(kept) >= cap
      <4>1. CASE \E e \in kept : e.nonce = c
        <5>1. conn' = [conn EXCEPT ![s].pc = "replay"]
          BY <1>1, <1>4, <2>1, <4>1 DEF CheckAndInsert, Goto
        <5> QED
          BY <1>5, <5>1
      <4>2. CASE ~ \E e \in kept : e.nonce = c
        <5>1. conn' = [conn EXCEPT ![s].pc = "full"]
          BY <1>1, <1>4, <2>1, <2>8, <4>2 DEF CheckAndInsert, Goto
        <5> QED
          BY <1>5, <2>8, <4>2, <5>1
      <4> QED
        BY <4>1, <4>2
    <3>3. Ends'
      BY <1>2, <2>2, <2>4, <3>2 DEF RInv, Ends, ConnStates
    <3>4. overtaken' \in BOOLEAN
      BY <2>3
    <3>5. Books'
      BY <2>7, <3>1, <3>4 DEF RInv, Books
    <3>6. Shown'
      BY <1>1, <2>2, <3>2 DEF RInv, Ends, Shown
    <3>7. AdmittedAfterAuth'
      BY <1>2, <2>2, <2>4, <3>1 DEF RInv, Books, AdmittedAfterAuth
    <3>8. CachedWasAdmitted' /\ Remembered'
      BY <2>2, <2>5, <3>1 DEF RInv, CachedWasAdmitted, Remembered
    <3>9. AdmittedOnce'
      BY <2>3, <3>1, Zenon DEF RInv, AdmittedOnce
    <3>10. FullOnlyUnderLoad'
      <4> SUFFICES ASSUME NEW t \in Conns, conn'[t].pc = "full"
                   PROVE  Cardinality({a \in admitted : a.at >= conn'[t].now - 2 * max_time_diff}) >= cap
        BY <2>2, <3>1 DEF FullOnlyUnderLoad
      <4>1. CASE t = s
        <5>1. conn'[s].now = now /\ Cardinality(kept) >= cap
          BY <3>2, <4>1 DEF RInv, Ends
        <5>2. LET A == {a \in admitted : a.at >= now - 2 * max_time_diff}
              IN  Cardinality(A) \in Nat /\ Cardinality(kept) <= Cardinality(A)
          BY <1>2, <2>6, KeptWereAdmitted
        <5>3. ASSUME NEW x \in Nat, Cardinality(kept) <= x
              PROVE  x >= cap
          BY <2>7, <5>1, <5>3 DEF RInv, Ends
        <5> QED
          BY <4>1, <5>1, <5>2, <5>3
      <4>2. CASE t # s
        BY <3>2, <4>2 DEF RInv, FullOnlyUnderLoad, Ends
      <4> QED
        BY <4>1, <4>2
    <3> QED
      BY <3>3, <3>5, <3>6, <3>7, <3>8, <3>9, <3>10 DEF RInv
  <2>9. CASE ~((\E e \in kept : e.nonce = c) \/ Cardinality(kept) >= cap)
    <3>1. /\ cache' = kept \cup {[nonce |-> c, ts |-> client[c].ts]}
          /\ admitted' = admitted \cup {[conn |-> s, who |-> c, at |-> now]}
          /\ conn' = [conn EXCEPT ![s].pc = "admitted"]
      BY <1>1, <1>4, <2>1, <2>9 DEF CheckAndInsert, Goto
    <3>2. conn' = [conn EXCEPT ![s] = Row("admitted", c, now)]
      BY <1>5, <3>1
    <3>3. Ends'
      BY <1>2, <2>2, <2>4, <3>2 DEF RInv, Ends, ConnStates
    <3>4. overtaken' \in BOOLEAN
      BY <2>3
    <3>5. Books'
      <4>1. IsFiniteSet(cache') /\ IsFiniteSet(admitted')
        <5>1. IsFiniteSet(kept) /\ IsFiniteSet(admitted)
          BY <2>7 DEF RInv, Books
        <5>a. \A S, x : IsFiniteSet(S) => IsFiniteSet(S \cup {x})
          BY FS_AddElement
        <5>2. /\ IsFiniteSet(kept \cup {[nonce |-> c, ts |-> client[c].ts]})
              /\ IsFiniteSet(admitted \cup {[conn |-> s, who |-> c, at |-> now]})
          BY <5>1, <5>a, Zenon
        <5> QED
          BY <3>1, <5>2
      <4>2. cache' \subseteq [nonce : Clients, ts : 0..MaxClock]
        BY <1>2, <3>1 DEF RInv, Books
      <4>3. admitted' \subseteq [conn : Conns, who : Clients, at : 0..MaxClock]
        BY <1>2, <3>1 DEF RInv, Books
      <4> QED
        BY <3>4, <4>1, <4>2, <4>3 DEF Books
    <3>6. Shown'
      BY <1>1, <2>2, <3>2 DEF RInv, Ends, Shown
    <3>7. AdmittedAfterAuth'
      BY <1>1, <1>2, <2>2, <2>4, <3>1 DEF RInv, Books, AdmittedAfterAuth
    <3>8. CachedWasAdmitted'
      <4>1. now >= client[c].ts - max_time_diff
        BY <1>2, <1>4 DEF InWindow
      <4>2. [conn |-> s, who |-> c, at |-> now] \in admitted'
        BY <3>1
      <4> SUFFICES ASSUME NEW e \in cache'
                   PROVE  /\ e.ts = client[e.nonce].ts
                          /\ \E a \in admitted' : a.who = e.nonce /\ a.at >= e.ts - max_time_diff
        BY <2>2 DEF CachedWasAdmitted
      <4>3. CASE e \in kept
        BY <3>1, <4>3 DEF RInv, CachedWasAdmitted
      <4>4. CASE e = [nonce |-> c, ts |-> client[c].ts]
        BY <4>1, <4>2, <4>4
      <4> QED
        BY <3>1, <4>3, <4>4
    <3>9. Remembered'
      <4> SUFFICES ASSUME NEW a \in admitted',
                          client[a.who].ts + max_time_diff >= purged'
                   PROVE  \E e \in cache' : e.nonce = a.who
        BY <2>2 DEF Remembered
      <4>1. CASE a \in admitted
        BY <2>5, <3>1, <4>1
      <4>2. CASE a = [conn |-> s, who |-> c, at |-> now]
        <5>1. a.who = c /\ [nonce |-> c, ts |-> client[c].ts] \in cache'
          BY <3>1, <4>2
        <5> QED
          BY <5>1
      <4> QED
        BY <3>1, <4>1, <4>2
    <3>10. AdmittedOnce'
      <4> SUFFICES ASSUME ~overtaken'
                   PROVE  \A a, b \in admitted' : a.who = b.who => a = b
        BY DEF AdmittedOnce
      <4>1. ~overtaken /\ ~(now < purged)
        BY <2>3
      <4>2. purged' = now
        BY <1>2, <2>2, <4>1
      <4>3. client[c].ts + max_time_diff >= purged'
        BY <1>2, <1>4, <4>2 DEF InWindow
      <4>4. \A a \in admitted : a.who # c
        BY <2>5, <2>9, <4>3
      <4>5. \A a, b \in admitted : a.who = b.who => a = b
        BY <4>1 DEF RInv, AdmittedOnce
      <4> QED
        BY <3>1, <4>4, <4>5
    <3>11. FullOnlyUnderLoad'
      <4> SUFFICES ASSUME NEW t \in Conns, conn'[t].pc = "full"
                   PROVE  Cardinality({a \in admitted' : a.at >= conn'[t].now - 2 * max_time_diff}) >= cap
        BY <2>2 DEF FullOnlyUnderLoad
      <4>1. t # s /\ conn'[t] = conn[t] /\ conn[t].now \in Nat
        BY <3>2 DEF RInv, Ends
      <4> DEFINE A == {a \in admitted : a.at >= conn[t].now - 2 * max_time_diff}
                 B == {a \in admitted' : a.at >= conn[t].now - 2 * max_time_diff}
      <4>2. Cardinality(A) >= cap
        BY <4>1 DEF RInv, FullOnlyUnderLoad
      <4>3. A \subseteq B /\ B \subseteq admitted'
        BY <3>1
      <4>4. IsFiniteSet(B)
        BY <3>5, <4>3, FS_Subset DEF Books
      <4>5. Cardinality(A) <= Cardinality(B) /\ Cardinality(A) \in Nat /\ Cardinality(B) \in Nat
        BY <4>3, <4>4, FS_Subset, FS_CardinalityType
      <4>6. Cardinality(B) >= cap
        BY <4>2, <4>5 DEF RInv, Ends
      <4> QED
        BY <4>1, <4>6
    <3> QED
      BY <3>3, <3>5, <3>6, <3>7, <3>8, <3>9, <3>10, <3>11 DEF RInv
  <2> QED
    BY <2>8, <2>9
<1> QED
  BY <1>3, <1>4

-----------------------------------------------------------------------------
\* The invariant is inductive: every step of either end keeps it.
THEOREM RealityInvariant == Spec => []RInv
<1>1. RInv /\ [Next]_realityVars => RInv'
  <2> SUFFICES ASSUME RInv, [Next]_realityVars
               PROVE  RInv'
    OBVIOUS
  <2>1. CASE Tick
    BY <2>1, TickKeeps
  <2>2. ASSUME NEW c \in Clients, SendHello(c) \/ RecvServerHello(c)
        PROVE  RInv'
    BY <2>2, HelloKeeps, ConfirmKeeps
  <2>3. ASSUME NEW s \in Conns,
               Begin(s) \/ NameRefused(s) \/ NoBinary(s) \/ BadFrame(s) \/ CheckAndInsert(s)
        PROVE  RInv'
    BY <2>3, ServerKeeps, CheckKeeps
  <2>4. ASSUME NEW s \in Conns, NEW c \in Clients, RecvHello(s, c) \/ RecvAuth(s, c)
        PROVE  RInv'
    BY <2>4, ServerKeeps
  <2>5. CASE UNCHANGED realityVars
    BY <2>5 DEF realityVars, RInv, Ends, Books, Shown, AdmittedAfterAuth, CachedWasAdmitted,
                Remembered, AdmittedOnce, FullOnlyUnderLoad
  <2> QED
    BY <2>1, <2>2, <2>3, <2>4, <2>5 DEF Next
<1> QED
  BY <1>1, InitRInv, PTL DEF Spec

\* A handshake is admitted once and for the client that sent its HELLO and its
\* AUTH, unless a check used an older time than a purge before it; the cache
\* forgets no nonce a copy could be admitted with now, and is full only when as
\* many handshakes were admitted within two windows: for any number of clients,
\* connections and copies, any window and any capacity.
THEOREM ReplaysAlwaysRefused == Spec => []ReplaysRefused
<1>1. RInv => ReplaysRefused
  <2> SUFFICES ASSUME RInv
               PROVE  ReplaysRefused
    OBVIOUS
  <2> USE RealityAssumption
  <2>1. RealityTypeOK
    <3>1. \A e, f \in cache : e.nonce = f.nonce => e = f
      BY DEF RInv, Books, CachedWasAdmitted
    <3> QED
      BY <3>1 DEF RInv, Ends, Books, RealityTypeOK
  <2>2. LiveNonceKept
    <3> SUFFICES ASSUME NEW a \in admitted, client[a.who].ts + max_time_diff >= clock
                 PROVE  \E e \in cache : e.nonce = a.who
      BY DEF LiveNonceKept
    <3>1. client[a.who].ts + max_time_diff >= purged
      BY DEF RInv, Ends, Books
    <3> QED
      BY <3>1 DEF RInv, Remembered
  <2>3. AuthBound
    BY DEF RInv, AdmittedAfterAuth, AuthBound
  <2> QED
    BY <2>1, <2>2, <2>3 DEF ReplaysRefused, RInv
<1> QED
  BY <1>1, RealityInvariant, PTL
=============================================================================
