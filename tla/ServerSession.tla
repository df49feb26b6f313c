---------------------------- MODULE ServerSession ----------------------------
(***************************************************************************)
(* The life of a connection on the server (bibavpn/src/bin/server.rs):     *)
(* ban check, concurrency permit, TLS accept, WebSocket upgrade, REALITY   *)
(* or v3 handshake, user admission (users.rs), first channel, tunnel.      *)
(* Connections run concurrently and share the permits, the user registry   *)
(* and the authentication limiter, which is module AuthRateLimiter: its    *)
(* variables are variables here and every call is one of its actions.      *)
(*                                                                         *)
(* A step is a stretch of a connection's task between two await points.    *)
(* Whatever waits for the peer may also see it close, and whatever has a   *)
(* deadline may see it pass; how long the deadline is does not matter.     *)
(***************************************************************************)
EXTENDS Integers, FiniteSets

CONSTANTS
  Conns,        \* the connections
  IpOf,         \* the source bucket of each connection
  Users,        \* labels of the users file
  UserLimit,    \* max_concurrent of each user; no limit: at least |Conns|
  NoUser,       \* no user session
  MaxSessions,  \* --max-concurrent-sessions
  MaxJunk,      \* PreAuthBudget.max_junk_frames
  MaxDecrypt,   \* PreAuthBudget.max_decrypt_failures
  Ips, MaxFailures, WindowLen, BanLen, MaxTracked, MaxTime  \* the limiter's

ASSUME SessionAssumption ==
  /\ IpOf \in [Conns -> Ips]
  /\ UserLimit \in [Users -> Nat \ {0}] /\ NoUser \notin Users
  /\ MaxSessions \in Nat \ {0} /\ MaxJunk \in Nat /\ MaxDecrypt \in Nat
  /\ IsFiniteSet(Conns) /\ IsFiniteSet(Ips)
  /\ {MaxFailures, WindowLen, BanLen, MaxTracked} \subseteq Nat \ {0} /\ MaxTime \in Nat

VARIABLES
  now, tracked, banned, until, failures, start, bansActive,  \* the limiter
  reality,   \* the server runs with a REALITY configuration
  enabled,   \* users enabled in the users file
  active,    \* UserRegistry.active
  pc,        \* where each connection is
  user,      \* the UserSession a connection holds
  junk,      \* frames charged to the current phase's budget
  decrypt,   \* decrypt failures in the AUTH phase
  charged    \* failures this connection has put on its source

L == INSTANCE AuthRateLimiter

limiter == <<now, tracked, banned, until, failures, start, bansActive>>
registry == <<enabled, active>>
budget == <<junk, decrypt>>
vars == <<limiter, reality, registry, pc, user, budget, charged>>

\* Phases bounded by with_setup_timeout, whose expiry is not charged.
Setup == {"tls", "upgrade", "first"}
\* Phases under a handshake timeout, whose expiry is charged.  "charging" and
\* "success" wait for the limiter's lock inside that timeout.
Timed == {"hello", "auth", "success", "charging", "realityHello", "channel"}
\* The user is being looked up and the nonce checked: no await point.
Sync == {"load", "realityLoad", "realityReplay"}
\* Phases after the permit is taken and before the connection is closed.
Holding == Setup \cup Timed \cup Sync
             \cup {"realityOk", "charge", "dial", "tunnel", "closing"}

\* Types. The counters and where each connection stands.
TypeOK ==
  /\ L!TypeOK
  /\ reality \in BOOLEAN
  /\ enabled \subseteq Users
  /\ active \in [Users -> Nat]
  /\ pc \in [Conns -> Holding \cup {"idle", "queued", "closed"}]
  /\ user \in [Conns -> Users \cup {NoUser}]
  /\ junk \in [Conns -> 0..MaxJunk]
  /\ decrypt \in [Conns -> 0..MaxDecrypt]
  /\ charged \in [Conns -> Nat]

Init ==
  /\ L!Init
  /\ reality \in BOOLEAN
  /\ enabled = Users
  /\ active = [u \in Users |-> 0]
  /\ pc = [c \in Conns |-> "idle"]
  /\ user = [c \in Conns |-> NoUser]
  /\ junk = [c \in Conns |-> 0]
  /\ decrypt = [c \in Conns |-> 0]
  /\ charged = [c \in Conns |-> 0]

-----------------------------------------------------------------------------
(* Shared resources                                                        *)

Goto(c, l) == pc' = [pc EXCEPT ![c] = l]

\* A new phase starts with a fresh PreAuthBudgetTracker.
FreshBudget(c) ==
  junk' = [junk EXCEPT ![c] = 0] /\ decrypt' = [decrypt EXCEPT ![c] = 0]

\* Connections that own a concurrency permit.
Holders == {c \in Conns : pc[c] \in Holding}

\* UserSession's Drop, when connection c holds one.
DropUser(c) ==
  /\ user' = [user EXCEPT ![c] = NoUser]
  /\ active' = IF user[c] = NoUser THEN active
                                   ELSE [active EXCEPT ![user[c]] = @ - 1]

\* record_failure, once the limiter's lock is had.
Charge(c) ==
  /\ L!RecordFailure(IpOf[c])
  /\ charged' = [charged EXCEPT ![c] = @ + 1]

-----------------------------------------------------------------------------
(* Admission                                                               *)

\* The accept loop spawns the task, which asks the limiter first.
Accept(c) ==
  /\ pc[c] = "idle"
  /\ \/ L!CheckAllowed(IpOf[c]) /\ Goto(c, "queued")
     \/ L!CheckRejected(IpOf[c]) /\ Goto(c, "closed")
  /\ UNCHANGED <<reality, registry, user, budget, charged>>

TakePermit(c) ==
  /\ pc[c] = "queued" /\ Cardinality(Holders) < MaxSessions
  /\ Goto(c, "tls")
  /\ UNCHANGED <<limiter, reality, registry, user, budget, charged>>

\* Five seconds without a permit: the server is busy.
PermitTimeout(c) ==
  /\ pc[c] = "queued"
  /\ Goto(c, "closed")
  /\ UNCHANGED <<limiter, reality, registry, user, budget, charged>>

-----------------------------------------------------------------------------
(* handle_one: set-up phases                                               *)

TlsAccepted(c) ==
  /\ pc[c] = "tls"
  /\ Goto(c, "upgrade")
  /\ UNCHANGED <<limiter, reality, registry, user, budget, charged>>

\* A tunnel upgrade; any other request gets the camouflage answer.
Upgraded(c) ==
  /\ pc[c] = "upgrade"
  /\ \/ Goto(c, IF reality THEN "realityHello" ELSE "hello")
     \/ Goto(c, "closing")
  /\ FreshBudget(c)
  /\ UNCHANGED <<limiter, reality, registry, user, charged>>

\* Mutant: the TLS accept has no deadline.
UpgradeOnlyTimeout(c) ==
  /\ pc[c] \in {"upgrade", "first"}
  /\ Goto(c, "closing")
  /\ UNCHANGED <<limiter, reality, registry, user, budget, charged>>

\* with_setup_timeout expires; a peer that never spoke is not charged.
SetupTimeout(c) ==
  /\ pc[c] \in Setup
  /\ Goto(c, "closing")
  /\ UNCHANGED <<limiter, reality, registry, user, budget, charged>>

-----------------------------------------------------------------------------
(* The handshakes                                                          *)

\* A frame that is not what the phase waits for: counted while the budget
\* lasts, charged to the source when it is exceeded.
Junk(c) ==
  /\ pc[c] \in {"hello", "channel"}
  /\ IF junk[c] < MaxJunk
       THEN junk' = [junk EXCEPT ![c] = @ + 1] /\ UNCHANGED pc
       ELSE Goto(c, "charging") /\ UNCHANGED junk
  /\ UNCHANGED <<limiter, reality, registry, user, decrypt, charged>>

\* A well-formed v3 HELLO, answered by the ACK.
Hello(c) ==
  /\ pc[c] = "hello"
  /\ Goto(c, "auth")
  /\ FreshBudget(c)
  /\ UNCHANGED <<limiter, reality, registry, user, charged>>

\* A frame while AUTH is awaited: every one counts against the budget; one
\* that does not decrypt counts again; one that does is the AUTH, or ends the
\* session when it does not decode.
AuthFrame(c) ==
  /\ pc[c] = "auth"
  /\ \/ /\ junk[c] = MaxJunk
        /\ Goto(c, "charging")
        /\ UNCHANGED budget
     \/ /\ junk[c] < MaxJunk
        /\ junk' = [junk EXCEPT ![c] = @ + 1]
        /\ IF decrypt[c] < MaxDecrypt
             THEN decrypt' = [decrypt EXCEPT ![c] = @ + 1] /\ UNCHANGED pc
             ELSE Goto(c, "charging") /\ UNCHANGED decrypt
     \/ /\ junk[c] < MaxJunk
        /\ junk' = [junk EXCEPT ![c] = @ + 1]
        /\ \E l \in {"load", "closing"} : Goto(c, l)
        /\ UNCHANGED decrypt
  /\ UNCHANGED <<limiter, reality, registry, user, charged>>

\* REALITY: hellos exchanged, the client's AUTH MAC is here.
RealityAuth(c) ==
  /\ pc[c] = "realityHello"
  /\ Goto(c, "realityLoad")
  /\ UNCHANGED <<limiter, reality, registry, user, budget, charged>>

\* UserRegistry::acquire under its lock: at the limit, nobody is admitted.
Acquire(c, u) ==
  /\ active[u] < UserLimit[u]
  /\ active' = [active EXCEPT ![u] = @ + 1]
  /\ user' = [user EXCEPT ![c] = u]

\* The token is checked against the users file as it is now.  A server without
\* a users file has one token and no user; a v3 session after REALITY has its
\* user already and only has to repeat the token.
Authenticated(c) ==
  /\ pc[c] \in {"load", "realityLoad"}
  /\ Goto(c, IF pc[c] = "load" THEN "success" ELSE "realityReplay")
  /\ IF Users = {} \/ user[c] # NoUser
       THEN UNCHANGED <<active, user>>
       ELSE \E u \in enabled : Acquire(c, u)
  /\ UNCHANGED <<limiter, reality, enabled, budget, charged>>

\* Unknown token, disabled user, user at its limit.  The REALITY arm charges
\* outside the timeout, the v3 one inside.
AuthRejected(c) ==
  /\ pc[c] \in {"load", "realityLoad"}
  /\ Goto(c, IF pc[c] = "load" THEN "charging" ELSE "charge")
  /\ UNCHANGED <<limiter, reality, registry, user, budget, charged>>

\* The replay cache accepts the nonce, or rejects it and the user session
\* that was just acquired is dropped with the error.
ReplayCheck(c) ==
  /\ pc[c] = "realityReplay"
  /\ \/ Goto(c, "realityOk") /\ UNCHANGED <<active, user>>
     \/ Goto(c, "charge") /\ DropUser(c)
  /\ UNCHANGED <<limiter, reality, enabled, budget, charged>>

\* record_success, then the next phase.
Success(c) ==
  /\ pc[c] \in {"success", "realityOk"}
  /\ L!RecordSuccess(IpOf[c])
  /\ Goto(c, IF pc[c] = "success" THEN "channel" ELSE "first")
  /\ FreshBudget(c)
  /\ UNCHANGED <<reality, registry, user, charged>>

\* The first frame after REALITY: MUX_OPEN, or something unexpected.
FirstFrame(c) ==
  /\ pc[c] = "first"
  /\ \E l \in {"tunnel", "closing"} : Goto(c, l)
  /\ UNCHANGED <<limiter, reality, registry, user, budget, charged>>

\* Or a v3 HELLO, answered by the ACK: AUTH is awaited under a timeout of its
\* own.  A malformed HELLO, or a server without a PSK, ends the session.
FirstHello(c) ==
  /\ pc[c] = "first"
  /\ \E l \in {"auth", "closing"} : Goto(c, l)
  /\ FreshBudget(c)
  /\ UNCHANGED <<limiter, reality, registry, user, charged>>

\* record_failure inside the timeout: the error then ends the session.
ChargedInside(c) ==
  /\ pc[c] = "charging"
  /\ Charge(c)
  /\ Goto(c, "closing")
  /\ UNCHANGED <<reality, registry, user, budget>>

\* record_failure of the timeout's own arm, or of a REALITY error.
Charged(c) ==
  /\ pc[c] = "charge"
  /\ Charge(c)
  /\ Goto(c, "closing")
  /\ UNCHANGED <<reality, registry, user, budget>>

\* Mutant: the user count is not given back when the handshake future is
\* dropped.
LeakyHandshakeTimeout(c) ==
  /\ pc[c] \in Timed
  /\ Goto(c, "charge")
  /\ user' = [user EXCEPT ![c] = IF pc[c] = "success" /\ ~reality THEN NoUser ELSE @]
  /\ UNCHANGED <<limiter, reality, registry, budget, charged>>

\* The handshake timeout drops the future, and with it the user session that
\* a v3 AUTH acquired and has not returned yet (REALITY's is held outside); a
\* wait for the limiter's lock is abandoned before it recorded anything.
HandshakeTimeout(c) ==
  /\ pc[c] \in Timed
  /\ Goto(c, "charge")
  /\ IF pc[c] = "success" /\ ~reality THEN DropUser(c)
                                      ELSE UNCHANGED <<active, user>>
  /\ UNCHANGED <<limiter, reality, enabled, budget, charged>>

\* The peer closes or breaks the protocol in a way that is not charged; in
\* the REALITY exchange every error is.
PeerGone(c) ==
  /\ pc[c] \in Setup \cup {"hello", "auth", "channel", "realityHello"}
  /\ Goto(c, IF pc[c] = "realityHello" THEN "charge" ELSE "closing")
  /\ UNCHANGED <<limiter, reality, registry, user, budget, charged>>

-----------------------------------------------------------------------------
(* Channel, tunnel, end                                                    *)

\* MUX_OPEN or UDP_MUX_OPEN start a tunnel; OPEN dials its target first.
ChannelOpen(c) ==
  /\ pc[c] = "channel"
  /\ \E l \in {"tunnel", "dial"} : Goto(c, l)
  /\ UNCHANGED <<limiter, reality, registry, user, budget, charged>>

\* The dial succeeds, fails or times out.
Dialled(c) ==
  /\ pc[c] = "dial"
  /\ \E l \in {"tunnel", "closing"} : Goto(c, l)
  /\ UNCHANGED <<limiter, reality, registry, user, budget, charged>>

TunnelEnds(c) ==
  /\ pc[c] = "tunnel"
  /\ Goto(c, "closing")
  /\ UNCHANGED <<limiter, reality, registry, user, budget, charged>>

\* handle_one returns: the user session goes, then the permit.
Close(c) ==
  /\ pc[c] = "closing"
  /\ Goto(c, "closed")
  /\ DropUser(c)
  /\ FreshBudget(c)
  /\ UNCHANGED <<limiter, reality, enabled, charged>>

\* An administrator edits the users file.
EditUsers ==
  /\ \E u \in Users : enabled' = (enabled \ {u}) \cup ({u} \ enabled)
  /\ UNCHANGED <<limiter, reality, active, pc, user, budget, charged>>

ClockTick ==
  /\ L!Tick
  /\ UNCHANGED <<reality, registry, pc, user, budget, charged>>

-----------------------------------------------------------------------------
\* What the peer decides, or may never do.
PeerStep(c) ==
  \/ Accept(c) \/ TlsAccepted(c) \/ Upgraded(c) \/ Junk(c) \/ Hello(c)
  \/ AuthFrame(c) \/ RealityAuth(c) \/ FirstFrame(c) \/ FirstHello(c)
  \/ PeerGone(c) \/ ChannelOpen(c) \/ TunnelEnds(c)

\* What the server's own task does once it is due.
Timeout(c) == PermitTimeout(c) \/ SetupTimeout(c) \/ HandshakeTimeout(c)
TaskStep(c) ==
  \/ Authenticated(c) \/ AuthRejected(c) \/ ReplayCheck(c) \/ Success(c)
  \/ ChargedInside(c) \/ Charged(c) \/ Dialled(c) \/ Close(c)

Next ==
  \/ \E c \in Conns : PeerStep(c) \/ Timeout(c) \/ TaskStep(c) \/ TakePermit(c)
  \/ EditUsers \/ ClockTick

\* Timers fire and runnable tasks run; no peer has to do anything.
Fairness == \A c \in Conns : WF_vars(Timeout(c)) /\ WF_vars(TaskStep(c))

Spec == Init /\ [][Next]_vars /\ Fairness

-----------------------------------------------------------------------------
(* Properties                                                              *)

\* The registry counts exactly the sessions that are open for each user, over
\* every way a handshake can be abandoned after the user was acquired (late
\* timeout, replayed nonce, error in a later phase), and no user ever has more
\* sessions than its limit, however many connections authenticate at once.
UserSessionsExact ==
  \A u \in Users :
    /\ active[u] = Cardinality({c \in Conns : user[c] = u})
    /\ active[u] <= UserLimit[u]

\* A connection puts at most one failure on its source, even when a deadline
\* passes while the failure is being recorded; and none as long as it has not
\* left the set-up phases.
ChargedOnce ==
  \A c \in Conns :
    /\ charged[c] <= 1
    /\ pc[c] \in Setup \cup {"idle", "queued"} => charged[c] = 0

BeforeTunnel(c) == pc[c] \in (Holding \ {"tunnel"}) \cup {"queued"}
Through(c) == pc[c] \in {"tunnel", "closed"}

\* A peer that takes a permit and then says nothing gives it back: every
\* connection before its tunnel goes on to the tunnel or is closed, and every
\* connection in the queue leaves it.
SilentPeersGiveWay == \A c \in Conns : BeforeTunnel(c) ~> Through(c)

\* The comment on the ban check: a banned source "must be rejected without
\* ever occupying one of the limited global permits".
BannedGetsNoPermit ==
  [][\A c \in Conns :
       pc[c] = "queued" /\ pc'[c] = "tls" => ~L!ActiveBan(IpOf[c])]_vars

\* What the server counts is what happened: sessions per user, and failures
\* charged to a source, whatever deadline fires when.
AccountsExact == TypeOK /\ UserSessionsExact /\ ChargedOnce
=============================================================================
