------------------------------- MODULE Reality -------------------------------
(***************************************************************************)
(* reality.rs: the REALITY handshake after the WebSocket upgrade.  The     *)
(* client sends HELLO (key, short id, time, nonce), checks the server's    *)
(* confirmation and sends AUTH; the server checks names, short id, time    *)
(* and AUTH, and enters the nonce in a replay cache that all connections   *)
(* share.  Frames may be delivered again on another connection at any      *)
(* later time: the server contributes nothing fresh to the transcript, so  *)
(* only the cache tells a copy from the original.                          *)
(***************************************************************************)
EXTENDS Integers, FiniteSets

CONSTANTS Clients,       \* client handshakes; each has its own key and nonce
          None,          \* no client
          Conns,         \* connections to the server
          Tokens,        \* the tokens that clients hold
          Known,         \* the ones that the server accepts
          max_time_diff, \* RealityServerConfig
          Caps,          \* choices for REALITY_REPLAY_CACHE_CAP
          MaxClock       \* bound on time

ASSUME RealityAssumption ==
    /\ max_time_diff \in Nat /\ MaxClock \in Nat /\ Caps \subseteq Nat
    /\ None \notin Clients

VARIABLES clock,    \* the server's time in seconds
          client,   \* pc, HELLO's time and the token of each client
          conn,     \* pc, whose HELLO, the time that was read
          cap,      \* the bound on its size (constant)
          cache,    \* the replay cache: nonce (named by its client) and time
          admitted, \* which connection was admitted with which nonce, and when (history)
          purged,   \* the latest time the cache was purged with (history)
          overtaken \* a check used an older time than a purge before it (history)

realityVars == <<clock, client, conn, cap, cache, admitted, purged, overtaken>>

\* A connection before its first frame, and one that has been dropped.
Fresh == [pc |-> "open", who |-> None, now |-> 0]
Closed == [Fresh EXCEPT !.pc = "closed"]

Init ==
    /\ clock = 0
    /\ client \in [Clients -> {[pc |-> "idle", ts |-> 0, token |-> t] : t \in Tokens}]
    /\ conn = [s \in Conns |-> Fresh]
    /\ cap \in Caps /\ cache = {} /\ admitted = {}
    /\ purged = 0 /\ overtaken = FALSE

Tick == /\ clock < MaxClock /\ clock' = clock + 1
        /\ UNCHANGED <<client, conn, cache, admitted, purged, overtaken, cap>>

(***************************************************************************)
(* The client: reality_client_exchange_verify                              *)
(***************************************************************************)
\* The time is the client's own, which need not agree with the server's.
SendHello(c) ==
    /\ client[c].pc = "idle"
    /\ \E ts \in 0..MaxClock :
          client' = [client EXCEPT ![c] = [pc |-> "helloSent", ts |-> ts, token |-> @.token]]
    /\ UNCHANGED <<clock, conn, cache, admitted, purged, overtaken, cap>>

\* SERVER_HELLO for this client's key: the pinned key and a MAC over the secret
\* that only the holder of its private key can share, or else the client gives
\* up before it shows anything that depends on the token.
RecvServerHello(c) ==
    /\ client[c].pc = "helloSent"
    /\ \/ /\ \E s \in Conns : conn[s].who = c
          /\ client' = [client EXCEPT ![c].pc = "authSent"]
       \/ client' = [client EXCEPT ![c].pc = "refused"]
    /\ UNCHANGED <<clock, conn, cache, admitted, purged, overtaken, cap>>

(***************************************************************************)
(* The server: server_handshake_reality_with_auth                          *)
(***************************************************************************)
Goto(s, l) == conn' = [conn EXCEPT ![s].pc = l]

\* validate_server_names, and the time is read before the first frame.
Begin(s) ==
    /\ conn[s].pc = "open"
    /\ conn' = [conn EXCEPT ![s] = [pc |-> "hello", who |-> @.who, now |-> clock]]
    /\ UNCHANGED <<clock, client, cache, admitted, purged, overtaken, cap>>

\* validate_server_names: the SNI or the Host that was shown is not on the list.
NameRefused(s) ==
    /\ conn[s].pc = "open" /\ conn' = [conn EXCEPT ![s] = Closed]
    /\ UNCHANGED <<clock, client, cache, admitted, purged, overtaken, cap>>

\* next_handshake_binary: not a binary frame, too many control frames over both
\* phases, or the connection is lost.
NoBinary(s) ==
    /\ conn[s].pc \in {"hello", "auth"} /\ conn' = [conn EXCEPT ![s] = Closed]
    /\ UNCHANGED <<clock, client, cache, admitted, purged, overtaken, cap>>

\* decode_client_hello, decode_client_auth, validate_short_id: a binary frame of
\* another length, version or tag, or a short id that is not on the list.
BadFrame(s) ==
    /\ conn[s].pc \in {"hello", "auth"} /\ conn' = [conn EXCEPT ![s] = Closed]
    /\ UNCHANGED <<clock, client, cache, admitted, purged, overtaken, cap>>

\* reality_timestamp_in_window
InWindow(now, ts) == now - ts <= max_time_diff /\ ts - now <= max_time_diff

\* server_hello_with_confirm_and_shared: the reply for this client's key.
ServerHello(s, c) == [conn EXCEPT ![s] = [pc |-> "auth", who |-> c, now |-> @.now]]

\* HELLO of any client that sent one, the first time or again; the reply is sent.
RecvHello(s, c) ==
    /\ conn[s].pc = "hello" /\ client[c].pc # "idle"
    /\ conn' = IF InWindow(conn[s].now, client[c].ts)
                 THEN ServerHello(s, c)
                 ELSE [conn EXCEPT ![s] = Closed]
    /\ UNCHANGED <<clock, client, cache, admitted, purged, overtaken, cap>>

\* The MAC covers the secret of this HELLO's key, its time, its nonce and the token.
Authentic(s, c) == conn[s].who = c /\ client[c].token \in Known

\* AUTH of any client that sent one; the time is read again, before the lock.
RecvAuth(s, c) ==
    /\ conn[s].pc = "auth" /\ client[c].pc = "authSent"
    /\ conn' = IF Authentic(s, c)
                 THEN [conn EXCEPT ![s] = [pc |-> "lock", who |-> @.who, now |-> clock]]
                 ELSE [conn EXCEPT ![s] = Closed]
    /\ UNCHANGED <<clock, client, cache, admitted, purged, overtaken, cap>>

\* Mutant: a nonce is kept only while its time is not in the future.
KeptShort(e, now) == e.ts >= now

\* RealityReplayCache::check_and_insert, what the purge keeps.
Kept(e, now) == e.ts + max_time_diff >= now

CheckAndInsert(s) ==
    LET c == conn[s].who
        now == conn[s].now
        kept == {e \in cache : Kept(e, now)}
        entry == [nonce |-> c, ts |-> client[c].ts]
    IN  /\ conn[s].pc = "lock"
        /\ \/ /\ ~InWindow(now, client[c].ts)
              /\ conn' = [conn EXCEPT ![s] = Closed] /\ UNCHANGED <<cache, admitted, purged, overtaken>>
           \/ /\ InWindow(now, client[c].ts)
              /\ purged' = IF now > purged THEN now ELSE purged
              /\ overtaken' = (overtaken \/ now < purged)
              /\ IF (\E e \in kept : e.nonce = c) \/ Cardinality(kept) >= cap
                   THEN /\ cache' = kept /\ UNCHANGED admitted
                        /\ Goto(s, IF \E e \in kept : e.nonce = c THEN "replay" ELSE "full")
                   ELSE /\ cache' = kept \cup {entry} /\ Goto(s, "admitted")
                        /\ admitted' = admitted \cup {[conn |-> s, who |-> c, at |-> now]}
        /\ UNCHANGED <<clock, client, cap>>

Next ==
    \/ Tick
    \/ \E c \in Clients : SendHello(c) \/ RecvServerHello(c)
    \/ \E s \in Conns : Begin(s) \/ NameRefused(s) \/ NoBinary(s) \/ BadFrame(s) \/ CheckAndInsert(s)
    \/ \E s \in Conns, c \in Clients : RecvHello(s, c) \/ RecvAuth(s, c)

Spec == Init /\ [][Next]_realityVars

(***************************************************************************)
(* Properties                                                              *)
(***************************************************************************)
\* Types. The replay cache, the clock and where each handshake stands.
RealityTypeOK ==
    /\ clock \in 0..MaxClock /\ purged \in 0..clock
    /\ \A s \in Conns : conn[s].now <= clock /\ conn[s].who \in Clients \cup {None}
    /\ cache \subseteq [nonce : Clients, ts : 0..MaxClock]
    /\ \A e, f \in cache : e.nonce = f.nonce => e = f

\* A handshake is admitted once, however often and however late its frames are
\* delivered again, on however many connections at once.  The exception is the
\* time that a connection reads before it takes the lock: when another one purges
\* with a later second in between, the copy may be checked with a time at which
\* the nonce counts as live although it is gone.
AdmittedOnce ==
    ~overtaken => \A a, b \in admitted : a.who = b.who => a = b

\* The purge never forgets a nonce that a copy could still be admitted with.
LiveNonceKept ==
    \A a \in admitted : client[a.who].ts + max_time_diff >= clock
        => \E e \in cache : e.nonce = a.who

\* Only a client that verified the server and holds a known token is admitted:
\* no AUTH opens the door for another client's HELLO.
AuthBound ==
    \A a \in admitted : client[a.who].pc = "authSent" /\ client[a.who].token \in Known

\* A full cache refuses a client only if cap others were admitted within the
\* last two windows: it never stays full by itself.
FullOnlyUnderLoad ==
    \A s \in Conns : conn[s].pc = "full" =>
        Cardinality({a \in admitted : a.at >= conn[s].now - 2 * max_time_diff}) >= cap

\* A handshake is admitted once and for its own client, the cache keeps every
\* nonce that could be replayed and is full only under load.
ReplaysRefused ==
    /\ RealityTypeOK
    /\ AdmittedOnce
    /\ LiveNonceKept
    /\ AuthBound
    /\ FullOnlyUnderLoad
=============================================================================
