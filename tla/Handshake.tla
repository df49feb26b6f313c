------------------------------ MODULE Handshake ------------------------------
(***************************************************************************)
(* The set-up of one outer connection, both ends of it: what the client    *)
(* sends after the WebSocket upgrade (one_try_wss_session and              *)
(* prepare_mux_connection in local_client.rs, connect_udp_mux_ws in        *)
(* udp_mux.rs) and what the server waits for (bin/server.rs), with the     *)
(* hello, the ACK and the session keys of crypto_layer.rs.                 *)
(*                                                                         *)
(* The ends are configured apart.  A key is what it is derived from; a     *)
(* random value is a number: 1 is the client's, 2 the server's, 0 whatever *)
(* noise holds where a hello has its random.  The REALITY exchange is here *)
(* its three messages; module Reality has the rest.                        *)
(***************************************************************************)
EXTENDS Integers, Sequences

CONSTANTS MaxNoise,    \* early_ws_frames + junk_frames, at most
          MaxJunk,     \* pre-HELLO and pre-AUTH frame budget
          MaxDecrypt,  \* decrypt failures allowed before AUTH
          None

VARIABLES client,  \* the client's configuration (constant)
          server,  \* the server's (constant)
          c2s, s2c,        \* messages on their way
          cpc, spc,        \* what each end does
          noise,           \* noise frames still to be sent
          ckey, skey,      \* session keys
          junk, decrypt,   \* the server's budgets
          opened,          \* the channel that the server has opened
          fault            \* history: a timeout, a cut link or noise that parses

hsVars == <<client, server, c2s, s2c, cpc, spc, noise, ckey, skey, junk, decrypt, opened, fault>>
ends == <<client, server>>
serverVars == <<spc, skey, junk, decrypt, opened>>
clientVars == <<cpc, noise, ckey>>

Kinds == {"mux", "udp", "dedicated"}
\* effective_proto_domain: an empty label (0) stands for "default" (1).
EffectiveDomain(d) == IF d = 0 THEN 1 ELSE d

Init ==
    /\ client \in [kind : Kinds, reality : BOOLEAN, psk : 0 .. 2, domain : 0 .. 2, token : 1 .. 2, noise : 0 .. MaxNoise]
    /\ server \in [reality : BOOLEAN, psk : 0 .. 1, domain : {1}, token : {1}]
    /\ c2s = <<>> /\ s2c = <<>> /\ cpc = "dial" /\ spc = (IF server.reality THEN "realityHello" ELSE "hello")
    /\ noise = client.noise /\ ckey = None /\ skey = None /\ junk = 0 /\ decrypt = 0
    /\ opened = None /\ fault = FALSE

Key(psk, domain, cr) == <<psk, domain, cr, 2>>
Up(ms) == c2s' = c2s \o ms

-----------------------------------------------------------------------------
(* The client                                                              *)

\* A dedicated tunnel never speaks REALITY, the muxes do when configured; a v3
\* hello needs a PSK.
Speaks == client.reality /\ client.kind # "dedicated"

ClientFails ==
    /\ cpc' = "failed" /\ UNCHANGED <<ends, s2c, c2s, noise, ckey, serverVars, fault>>

ClientDials ==
    /\ cpc = "dial"
    /\ IF client.psk = 0 /\ ~(Speaks /\ client.kind = "mux") THEN ClientFails
       ELSE /\ IF Speaks THEN cpc' = "reality" /\ Up(<<[t |-> "realityHello"]>>)
                         ELSE cpc' = "noise" /\ UNCHANGED c2s
            /\ UNCHANGED <<ends, s2c, noise, ckey, serverVars, fault>>

\* reality_client_exchange_verify: the server's hello, then the AUTH MAC; a
\* TCP mux opens in plaintext, the UDP mux goes on with v3.
ClientReality ==
    /\ cpc = "reality" /\ s2c # <<>>
    /\ IF Head(s2c).t # "realityServer" THEN ClientFails
       ELSE /\ s2c' = Tail(s2c)
            /\ LET auth == [t |-> "realityAuth", token |-> client.token]
               IN  IF client.kind = "mux" THEN cpc' = "up" /\ Up(<<auth, [t |-> "muxOpen"]>>)
                                          ELSE cpc' = "noise" /\ Up(<<auth>>)
            /\ UNCHANGED <<ends, noise, ckey, serverVars, fault>>

\* A frame of random bytes, which with bad luck reads like a hello.
ClientNoise(lookalike) ==
    /\ cpc = "noise" /\ noise > 0 /\ noise' = noise - 1
    /\ Up(<<[t |-> IF lookalike THEN "hello" ELSE "noise", random |-> 0]>>)
    /\ fault' = (fault \/ lookalike)
    /\ UNCHANGED <<ends, s2c, cpc, ckey, serverVars>>

ClientHello ==
    /\ cpc = "noise" /\ noise = 0 /\ cpc' = "ack"
    /\ Up(<<[t |-> "hello", random |-> 1]>>)
    /\ UNCHANGED <<ends, s2c, noise, ckey, serverVars, fault>>

\* Mutant: the MAC is not looked at.
AckKeyAny(m) == IF m.t = "ack" THEN Key(client.psk, EffectiveDomain(client.domain), 1) ELSE None
\* parse_ack: the MAC binds the PSK, the domain and both randoms.
AckKey(m) ==
    LET mine == Key(client.psk, EffectiveDomain(client.domain), 1)
    IN  IF m.t = "ack" /\ m.mac = mine THEN mine ELSE None

\* Whatever arrives while the ACK is awaited must be the ACK.  AUTH and the
\* opening of the channel follow at once; no answer is awaited.
ClientAck ==
    /\ cpc = "ack" /\ s2c # <<>>
    /\ LET k == AckKey(Head(s2c))
       IN  IF k = None THEN ClientFails
           ELSE /\ ckey' = k /\ cpc' = "up" /\ s2c' = Tail(s2c)
                /\ Up(<<[t |-> "sealed", key |-> k, inner |-> "auth", arg |-> client.token],
                        [t |-> "sealed", key |-> k, inner |-> "open", arg |-> client.kind]>>)
                /\ UNCHANGED <<ends, noise, serverVars, fault>>

\* The server has closed: the attempt fails, or the session that seemed up ends.
ClientEof ==
    /\ cpc \notin {"dial", "failed", "ended"} /\ s2c = <<>> /\ spc = "failed"
    /\ cpc' = IF cpc = "up" THEN "ended" ELSE "failed"
    /\ UNCHANGED <<ends, c2s, s2c, noise, ckey, serverVars, fault>>

-----------------------------------------------------------------------------
(* The server                                                              *)

Serve(l) == spc' = l
Take == c2s' = Tail(c2s)
Drop == Serve("failed") /\ UNCHANGED <<skey, junk, decrypt, opened, s2c>>

ServerRealityHello ==
    /\ spc = "realityHello" /\ c2s # <<>> /\ Take
    /\ IF Head(c2s).t # "realityHello" THEN Drop
       ELSE Serve("realityAuth") /\ s2c' = Append(s2c, [t |-> "realityServer"]) /\ UNCHANGED <<skey, junk, decrypt, opened>>
    /\ UNCHANGED <<ends, clientVars, fault>>

ServerRealityAuth ==
    /\ spc = "realityAuth" /\ c2s # <<>> /\ Take
    /\ IF Head(c2s).t = "realityAuth" /\ Head(c2s).token = server.token
         THEN Serve("first") /\ UNCHANGED <<skey, junk, decrypt, opened, s2c>> ELSE Drop
    /\ UNCHANGED <<ends, clientVars, fault>>

\* The ACK for a hello, and the session's keys.
Answer(random) ==
    LET k == Key(server.psk, server.domain, random)
    IN  s2c' = Append(s2c, [t |-> "ack", mac |-> k]) /\ skey' = k /\ Serve("auth")
        /\ junk' = 0 /\ decrypt' = 0 /\ UNCHANGED opened

\* The first frame after REALITY opens the mux, or is a v3 hello.
ServerFirst ==
    /\ spc = "first" /\ c2s # <<>> /\ Take
    /\ CASE Head(c2s).t = "muxOpen" -> Serve("up") /\ opened' = "mux" /\ UNCHANGED <<skey, junk, decrypt, s2c>>
         [] Head(c2s).t = "hello" /\ server.psk # 0 -> Answer(Head(c2s).random)
         [] OTHER -> Drop
    /\ UNCHANGED <<ends, clientVars, fault>>

\* account_pre_hello_binary: a hello is answered, anything else is junk.  A
\* REALITY hello starts with the same byte; with bad luck it is one as well.
ServerHello ==
    /\ spc = "hello" /\ c2s # <<>> /\ Take
    /\ \/ /\ Head(c2s).t = "hello"
          /\ IF server.psk # 0 THEN Answer(Head(c2s).random) ELSE Drop
          /\ UNCHANGED fault
       \/ /\ Head(c2s).t = "realityHello" /\ fault' = TRUE
          /\ IF server.psk # 0 THEN Answer(0) ELSE Drop
       \/ /\ Head(c2s).t # "hello"
          /\ IF junk + 1 > MaxJunk THEN Drop
             ELSE junk' = junk + 1 /\ UNCHANGED <<spc, skey, decrypt, opened, s2c>>
          /\ UNCHANGED fault
    /\ UNCHANGED <<ends, clientVars>>

Opens(m) == m.t = "sealed" /\ m.key = skey

\* server_wait_v3_auth: every frame counts, one that does not open counts twice.
ServerAuth ==
    /\ spc = "auth" /\ c2s # <<>> /\ Take
    /\ CASE junk + 1 > MaxJunk -> Drop
         [] ~Opens(Head(c2s)) ->
              IF decrypt + 1 > MaxDecrypt THEN Drop
              ELSE junk' = junk + 1 /\ decrypt' = decrypt + 1 /\ UNCHANGED <<spc, skey, opened, s2c>>
         [] Head(c2s).inner = "auth" /\ Head(c2s).arg = server.token ->
              Serve("channel") /\ junk' = 0 /\ decrypt' = 0 /\ UNCHANGED <<skey, opened, s2c>>
         [] OTHER -> Drop
    /\ UNCHANGED <<ends, clientVars, fault>>

\* classify_v3_first_channel.  What follows is the tunnel.
ServerChannel ==
    /\ spc = "channel" /\ c2s # <<>> /\ Take
    /\ IF Opens(Head(c2s)) /\ Head(c2s).inner = "open"
         THEN Serve("up") /\ opened' = Head(c2s).arg /\ UNCHANGED <<skey, junk, decrypt, s2c>> ELSE Drop
    /\ UNCHANGED <<ends, clientVars, fault>>

\* Every phase before the tunnel is bounded.
ServerTimeout ==
    /\ spc \notin {"up", "failed"} /\ fault' = TRUE
    /\ Drop /\ UNCHANGED <<ends, c2s, clientVars>>

\* The client has given up, or the link is cut: the server sees it once it has
\* read what was sent before.
ServerEof ==
    /\ spc \notin {"failed"} /\ c2s = <<>> /\ cpc \in {"failed", "ended"}
    /\ Drop /\ UNCHANGED <<ends, c2s, clientVars, fault>>

Cut ==
    /\ cpc \notin {"failed", "ended"} /\ cpc' = "failed" /\ fault' = TRUE
    /\ UNCHANGED <<ends, c2s, s2c, noise, ckey, serverVars>>

-----------------------------------------------------------------------------
ClientStep == ClientDials \/ ClientReality \/ ClientNoise(FALSE) \/ ClientHello \/ ClientAck \/ ClientEof
ServerStep ==
    \/ ServerRealityHello \/ ServerRealityAuth \/ ServerFirst \/ ServerHello
    \/ ServerAuth \/ ServerChannel \/ ServerEof

Next == ClientStep \/ ServerStep \/ ClientNoise(TRUE) \/ ServerTimeout \/ Cut

\* Tasks run and the server's deadlines expire; the client has none.
Spec ==
    /\ Init /\ [][Next]_hsVars
    /\ WF_hsVars(ClientStep) /\ WF_hsVars(ServerStep) /\ WF_hsVars(ServerTimeout)

-----------------------------------------------------------------------------
\* The ends are configured for each other.
SameSecrets ==
    /\ client.token = server.token
    /\ client.psk = server.psk /\ client.psk # 0
    /\ EffectiveDomain(client.domain) = server.domain

\* The budgets and the noise stay within their limits.
HandshakeTypeOK ==
    /\ junk \in 0 .. MaxJunk /\ decrypt \in 0 .. MaxDecrypt /\ noise \in 0 .. MaxNoise
    /\ spc \in {"realityHello", "realityAuth", "first", "hello", "auth", "channel", "up", "failed"}
    /\ cpc \in {"dial", "reality", "noise", "ack", "up", "failed", "ended"}

\* When the client holds keys, the server holds the same: noise or a foreign
\* hello that was answered instead never yields a session.
KeysAgree == ckey # None => ckey = skey

\* The server serves only a client that knows its token and, unless REALITY
\* vouched for the plaintext mux, its PSK and domain; it opens the channel that
\* this client asked for.
ServesTheRightClient ==
    spc = "up" =>
        /\ opened = client.kind /\ client.token = server.token
        /\ (ckey # None \/ (Speaks /\ server.reality))
        /\ (ckey # None => SameSecrets)

Compatible ==
    /\ Speaks = server.reality
    /\ client.token = server.token /\ (SameSecrets \/ (Speaks /\ client.kind = "mux"))
    /\ client.noise <= MaxJunk

\* A client that is configured for this server is not turned away, whatever
\* noise precedes its hello ("After optional noise (--junk-frames,
\* --early-ws-frames), the first meaningful client -> server Binary is the v3
\* HELLO").
\* The code does not keep this, see the README, section 4.
CompatibleServed == Compatible /\ ~fault => cpc \notin {"failed", "ended"} /\ spc # "failed"

\* The same, without noise after REALITY: there the server takes the first
\* frame for the hello.
CompatibleServedQuiet ==
    Compatible /\ ~fault /\ ~(Speaks /\ client.noise > 0) => cpc \notin {"failed", "ended"} /\ spc # "failed"

ClientGone == cpc \in {"failed", "ended"}
ClientDone == cpc = "up" \/ ClientGone
ServerDone == spc \in {"up", "failed"}
Mistaken == cpc = "up" /\ spc = "failed"

\* An attempt comes to an end although the client has no deadline of its own,
\* and a client that took itself for connected learns that it is not.
AttemptSettles ==
    /\ <>(ClientDone /\ ServerDone)
    /\ Mistaken ~> ClientGone

\* Two ends that both finish hold the same keys, the server serves no client
\* of another configuration, and turns away none of its own that is quiet.
HandshakeAgrees ==
    /\ HandshakeTypeOK
    /\ KeysAgree
    /\ ServesTheRightClient
    /\ CompatibleServedQuiet
=============================================================================
