----------------------------- MODULE LocalProxy -----------------------------
(***************************************************************************)
(* local_client.rs, socks5.rs and http_connect.rs: one connection to the   *)
(* SOCKS5 or the HTTP proxy of the client, from its first byte until its   *)
(* bytes are relayed, into the tunnel or directly.  The bytes behind the   *)
(* handshake are the cells 1 .. conn.size; the bypass list and the DNS map *)
(* may change between any two of the handler's looks at them.              *)
(***************************************************************************)
EXTENDS Integers, Sequences, SequencesExt

CONSTANTS Conns,      \* connections, see Connection below
          PeekMax,    \* TLS_RECORD_PEEK_MAX
          Scratch,    \* most cells of one read
          MaxChanges  \* bound on changes of the bypass list and the DNS map

\* auth: the listener wants a user and password; methods: that the client
\* offers; good: it knows the password; cmd: what it asks for; dest: a host
\* name, an address or a private address; tls: its first cell starts a TLS
\* handshake record of rec cells that names the host; early: cells it sends
\* without waiting for a reply.
Connection == [proto : {"socks", "http"}, auth : BOOLEAN, methods : SUBSET {0, 2},
               good : BOOLEAN, cmd : {"connect", "udp", "forward", "health", "bad"},
               dest : {"name", "ip", "private"}, p443 : BOOLEAN, tls : BOOLEAN,
               rec : Nat, size : Nat, early : Nat]

VARIABLES conn,     \* the connection (constant)
          list,     \* the bypass list: "empty", or it has the host's name ("hit") or not ("miss")
          mapped,   \* the DNS map knows the name of the address
          changes,  \* history: how often list and mapped changed
          at,       \* what the handler does next
          authed,   \* the user and password were verified
          sent,     \* cells the client has sent
          taken,    \* cells read from the client's socket
          held,     \* the prefetch: cells that were read and not yet forwarded
          out,      \* cells that the target was sent; 0 is a rewritten HTTP head
          via,      \* "none", "direct" or "tunnel"
          replies,  \* what the client was answered
          known,    \* history: the SNI of a complete first record was seen
          cut       \* history: the peek dropped cells that it had read

proxyVars == <<conn, list, mapped, changes, at, authed, sent, taken, held, out, via, replies, known, cut>>
\* Everything but the handler's own progress.
env == <<conn, list, mapped, changes>>

Init ==
    /\ conn \in Conns /\ list \in {"empty", "hit", "miss"} /\ mapped \in BOOLEAN
    /\ changes = 0 /\ at = IF conn.proto = "socks" THEN "method" ELSE "peek"
    /\ authed = FALSE /\ sent = 0 /\ taken = 0 /\ held = <<>> /\ out = <<>>
    /\ via = "none" /\ replies = <<>> /\ known = FALSE /\ cut = FALSE

Reply(r) == replies' = Append(replies, r)
Cells(from, to) == [i \in 1 .. (to - from) |-> from + i]

\* set_bypass_domains, or the DNS map learns or forgets the address.
ListChanges ==
    /\ at \notin {"closed", "relay"} /\ changes < MaxChanges
    /\ changes' = changes + 1
    /\ \/ list' \in {"empty", "hit", "miss"} \ {list} /\ UNCHANGED mapped
       \/ mapped' = ~mapped /\ UNCHANGED list
    /\ UNCHANGED <<conn, at, authed, sent, taken, held, out, via, replies, known, cut>>

\* The client sends; behind its handshake only after a positive reply, unless
\* it pipelines.
ClientSends ==
    /\ at # "closed" /\ sent < conn.size
    /\ \E n \in sent + 1 .. conn.size :
          /\ n <= conn.early \/ "ok" \in ToSet(replies) \/ conn.cmd = "forward"
          /\ sent' = n
    /\ UNCHANGED <<env, at, authed, taken, held, out, via, replies, known, cut>>

\* The client goes away, or a write to it fails: every path ends the handler.
ClientGone ==
    /\ at \notin {"closed", "relay"} /\ at' = "closed"
    /\ UNCHANGED <<env, authed, sent, taken, held, out, via, replies, known, cut>>

-----------------------------------------------------------------------------

Socks5Negotiate ==
    /\ at = "method"
    /\ IF conn.auth
       THEN IF 2 \in conn.methods THEN at' = "auth" /\ Reply("m2")
            ELSE at' = "closed" /\ Reply("mFF")
       ELSE IF 0 \in conn.methods THEN at' = "request" /\ Reply("m0")
            ELSE at' = "closed" /\ Reply("mFF")
    /\ UNCHANGED <<env, authed, sent, taken, held, out, via, known, cut>>

Socks5UserPass ==
    /\ at = "auth" /\ authed' = conn.good
    /\ IF conn.good THEN at' = "request" /\ Reply("a0") ELSE at' = "closed" /\ Reply("a1")
    /\ UNCHANGED <<env, sent, taken, held, out, via, known, cut>>

\* A request that is malformed or has another command closes the connection
\* without a reply; the cells behind it stay in the socket.
Socks5Request ==
    /\ at = "request"
    /\ at' = CASE conn.cmd = "connect" -> "route" [] conn.cmd = "udp" -> "udp" [] OTHER -> "closed"
    /\ UNCHANGED <<env, authed, sent, taken, held, out, via, replies, known, cut>>

\* The relay of an association is modelled in UdpMux.
UdpAssociate ==
    /\ at = "udp" /\ at' = "closed" /\ Reply("ok")
    /\ UNCHANGED <<env, authed, sent, taken, held, out, via, known, cut>>

\* try_serve_health_check answers when the first segment shows the path; a
\* part of it, or a client that has closed, is left to the handshake.
HealthCheck ==
    /\ at = "peek"
    /\ \/ conn.cmd = "health" /\ at' = "closed" /\ Reply("health")
       \/ at' = "head" /\ UNCHANGED replies
    /\ UNCHANGED <<env, authed, sent, taken, held, out, via, known, cut>>

\* The buffered reader takes some of the cells behind the head with it; they
\* are the prefetch.  A head that is too long or malformed is refused, one
\* that never came is not.
HttpHandshake ==
    /\ at = "head"
    /\ \/ /\ conn.cmd \in {"connect", "forward"}
          /\ \E n \in taken .. sent :
                n <= taken + Scratch /\ taken' = n /\ held' = Cells(taken, n)
          /\ at' = IF conn.cmd = "connect" THEN "route" ELSE "forward"
          /\ UNCHANGED replies
       \/ /\ at' = "closed" /\ Reply("400") /\ UNCHANGED <<taken, held>>
    /\ UNCHANGED <<env, authed, sent, out, via, known, cut>>

-----------------------------------------------------------------------------
\* should_bypass: a private host, or a name on the list, given or in the DNS map.
should_bypass ==
    conn.dest = "private" \/ (list = "hit" /\ (conn.dest = "name" \/ mapped))

NeedsSniPeek == list # "empty" /\ conn.p443 /\ conn.dest = "ip"

\* The first look at the list: on a hit the client is told that it is
\* connected before the direct connection is made.
RouteDirect ==
    /\ at = "route" /\ should_bypass
    /\ at' = "direct" /\ Reply("ok")
    /\ UNCHANGED <<env, authed, sent, taken, held, out, via, known, cut>>

RouteOther ==
    /\ at = "route" /\ ~should_bypass /\ at' = "needs"
    /\ UNCHANGED <<env, authed, sent, taken, held, out, via, replies, known, cut>>

\* The second look: for an address on port 443 the client is told to go on so
\* that its TLS handshake can be looked at.
StartPeek ==
    /\ at = "needs"
    /\ IF NeedsSniPeek THEN at' = "resolve" /\ Reply("ok")
       ELSE at' = "tunnel" /\ UNCHANGED replies
    /\ UNCHANGED <<env, authed, sent, taken, held, out, via, known, cut>>

\* resolve_domain_split_route looks a third time.
Resolve ==
    /\ at = "resolve"
    /\ at' = IF should_bypass THEN "direct" ELSE IF NeedsSniPeek THEN "sni" ELSE "tunnel"
    /\ UNCHANGED <<env, authed, sent, taken, held, out, via, replies, known, cut>>

\* The cells of the first record, as far as they are peeked at.
RecordEnd == IF conn.rec < PeekMax THEN conn.rec ELSE PeekMax

\* What the peek returns of the cells it has read: those of the first record,
\* or all of them when it is not a TLS record or not complete.
Peeked(b) ==
    IF b # <<>> /\ conn.tls /\ Len(b) >= RecordEnd THEN SubSeq(b, 1, RecordEnd)
    ELSE IF Len(b) >= PeekMax THEN SubSeq(b, 1, PeekMax) ELSE b

PeekDone(b) == b # <<>> /\ (~conn.tls \/ Len(b) >= RecordEnd \/ Len(b) >= PeekMax)

\* extract_client_hello_sni and matches_active_bypass on what was peeked.
SniSeen(b) == conn.tls /\ b # <<>> /\ Len(b) >= conn.rec
PeekEnds(b) ==
    /\ held' = Peeked(b) /\ cut' = (Peeked(b) # b) /\ known' = SniSeen(Peeked(b))
    /\ at' = IF SniSeen(Peeked(b)) /\ list = "hit" THEN "direct" ELSE "tunnel"

\* One read of peek_tls_client_hello_record returns some of the cells.
PeekRead ==
    /\ at = "sni" /\ ~PeekDone(held) /\ taken < sent
    /\ \E n \in taken + 1 .. sent :
          n <= taken + Scratch /\ taken' = n /\ held' = held \o Cells(taken, n)
    /\ UNCHANGED <<env, at, authed, sent, out, via, replies, known, cut>>

PeekComplete ==
    /\ at = "sni" /\ PeekDone(held) /\ PeekEnds(held)
    /\ UNCHANGED <<env, authed, sent, taken, out, via, replies>>

\* Two seconds have passed, or the client has closed its side.
PeekTimeout ==
    /\ at = "sni" /\ ~PeekDone(held) /\ PeekEnds(held)
    /\ UNCHANGED <<env, authed, sent, taken, out, via, replies>>

-----------------------------------------------------------------------------

\* direct_bypass_relay: connect, then the prefetch, then both directions.
DirectRelay ==
    /\ at = "direct"
    /\ \/ at' = "relay" /\ via' = "direct" /\ out' = held /\ held' = <<>>
       \/ at' = "closed" /\ UNCHANGED <<via, out, held>>
    /\ UNCHANGED <<env, authed, sent, taken, replies, known, cut>>

\* Mutant: a failure is always answered.
TunnelFailsAnswered ==
    /\ at \in {"tunnel", "fwdTunnel"}
    /\ at' = "closed" /\ Reply("err")
    /\ UNCHANGED <<env, authed, sent, taken, held, out, via, known, cut>>
\* ensure_tcp_mux_ready or open_legacy_biba_channel fails: the client hears of
\* it unless it was told to go on.  Without the mux a forwarded request is
\* closed without an answer.
TunnelFails ==
    /\ at \in {"tunnel", "fwdTunnel"} /\ at' = "closed"
    /\ \/ "ok" \notin ToSet(replies) /\ Reply("err")
       \/ ("ok" \in ToSet(replies) \/ at = "fwdTunnel") /\ UNCHANGED replies
    /\ UNCHANGED <<env, authed, sent, taken, held, out, via, known, cut>>

TunnelReady ==
    /\ at \in {"tunnel", "fwdTunnel"} /\ at' = "open"
    /\ IF at = "fwdTunnel" \/ "ok" \in ToSet(replies) THEN UNCHANGED replies ELSE Reply("ok")
    /\ UNCHANGED <<env, authed, sent, taken, held, out, via, known, cut>>

\* tcp_mux_open_stream_with_retry or bridge_ws_tcp_padded starts with the prefetch.
TunnelOpen ==
    /\ at = "open"
    /\ \/ at' = "relay" /\ via' = "tunnel" /\ out' = held /\ held' = <<>>
       \/ at' = "closed" /\ UNCHANGED <<via, out, held>>
    /\ UNCHANGED <<env, authed, sent, taken, replies, known, cut>>

\* A plain http:// request: the rewritten head goes before what was read behind it.
ForwardHttp ==
    /\ at = "forward" /\ held' = <<0>> \o held
    /\ at' = IF should_bypass THEN "direct" ELSE "fwdTunnel"
    /\ UNCHANGED <<env, authed, sent, taken, out, via, replies, known, cut>>

RelayCell ==
    /\ at = "relay" /\ taken < sent
    /\ taken' = taken + 1 /\ out' = Append(out, taken + 1)
    /\ UNCHANGED <<env, at, authed, sent, held, via, replies, known, cut>>

-----------------------------------------------------------------------------
\* What the handler does by itself, without the client or a dial.
HandlerStep ==
    \/ RouteDirect \/ RouteOther \/ StartPeek \/ Resolve \/ PeekComplete \/ PeekTimeout
    \/ ForwardHttp

\* A dial ends, with a connection or an error.
DialEnds == DirectRelay \/ TunnelFails \/ TunnelReady \/ TunnelOpen

Next ==
    \/ ListChanges \/ ClientSends \/ ClientGone
    \/ Socks5Negotiate \/ Socks5UserPass \/ Socks5Request \/ UdpAssociate
    \/ HealthCheck \/ HttpHandshake \/ PeekRead \/ RelayCell
    \/ HandlerStep \/ DialEnds

\* The task of the connection runs and the peek has a deadline.  No dial has one,
\* direct or through the tunnel, and the client may be silent.
Fairness == WF_proxyVars(HandlerStep)

Spec == Init /\ [][Next]_proxyVars /\ Fairness

-----------------------------------------------------------------------------
Expected == IF conn.cmd = "forward" THEN <<0>> \o Cells(0, conn.size) ELSE Cells(0, conn.size)
Verdicts == SelectSeq(replies, LAMBDA r : r \in {"ok", "err", "400", "health"})

\* The cells in hand are cells that were read.
ProxyTypeOK ==
    /\ at \in {"method", "auth", "request", "udp", "peek", "head", "route", "needs", "resolve", "sni",
               "direct", "forward", "tunnel", "fwdTunnel", "open", "relay", "closed"}
    /\ sent \in 0 .. conn.size /\ taken \in 0 .. sent /\ via \in {"none", "direct", "tunnel"}
    /\ ToSet(held) \subseteq 0 .. taken /\ ToSet(out) \subseteq 0 .. taken
    /\ held # <<>> => out = <<>>

\* One request, one verdict: the client is never told twice that it is
\* connected, never gets an error behind a success, and the bytes of a CONNECT
\* are only relayed after it was told so; a plain request gets no verdict of
\* the proxy's own when it is relayed.
OneVerdict ==
    /\ Len(Verdicts) <= 1
    /\ via # "none" => Verdicts = IF conn.cmd = "connect" THEN <<"ok">> ELSE <<>>

\* A SOCKS listener with a password reaches no target, and associates no UDP
\* relay, for a client that has not proved that it knows it.
AuthBeforeUse ==
    conn.proto = "socks" /\ conn.auth /\ (via # "none" \/ "ok" \in ToSet(replies)) =>
        authed /\ conn.good

\* The target is sent the client's bytes: none is lost, repeated or moved, from
\* the prefetch to the relay.
\* The code does not keep this, see the README, section 4.
NothingDropped == IsPrefix(out, Expected)

\* ... as far as no read of the peek went past the end of the first record.
InOrderUnlessCut == cut \/ IsPrefix(out, Expected)

\* While the list and the map stay as they are, a connection leaves the tunnel
\* exactly when its host is private or is known to be listed: by name, by the
\* DNS map, or by the SNI of a complete first record.
RouteMatchesList ==
    /\ via = "direct" /\ changes = 0 =>
          should_bypass \/ (list = "hit" /\ known)
    /\ via = "tunnel" /\ changes = 0 =>
          ~should_bypass /\ ~(list = "hit" /\ known)

Requested == at \in {"route", "forward", "needs", "resolve", "sni"}
Dialling == at \in {"direct", "tunnel", "fwdTunnel", "open"}
Routed == Dialling \/ at \in {"relay", "closed"}

\* Every client that has sent its request is routed: its target is being dialled,
\* it is relayed or closed, also when it stays silent while its TLS handshake is
\* waited for and while the list changes under the handler.
RequestRouted ==
    Requested ~> Routed

\* A connection is told one verdict, goes where the list sends it, after
\* authentication, with its bytes in order.
RoutedAsListed ==
    /\ ProxyTypeOK
    /\ OneVerdict
    /\ AuthBeforeUse
    /\ InOrderUnlessCut
    /\ RouteMatchesList
=============================================================================
