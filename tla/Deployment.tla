----------------------------- MODULE Deployment -----------------------------
(***************************************************************************)
(* From the operator's command line to a running client: bibavpn-server    *)
(* checks its arguments and prints an encrypted invite (bin/server.rs      *)
(* main), or bibavpn-mint-invite makes one from the environment; the       *)
(* user's front end decodes it (invite_uri.rs), merges it with the         *)
(* explicit settings (module ClientConfig) and run_local_client starts.    *)
(* The questions are whether a client made from the server's own invite    *)
(* fits the server, and whether the front ends agree with each other.      *)
(***************************************************************************)
EXTENDS ClientConfig

CONSTANTS Servers,   \* sets of server command lines (records, see ServerAccepts)
          Blobs,     \* encrypted invites that reach a user by other ways
          Inputs     \* what a user can give: sets of [given, invited, invite, lab]
                     \* or [profile], each a record of the fields that are set

VARIABLES stage,     \* "init", "serving", "invited", "started", "running", "refused"
          server,    \* the running server's configuration
          blob,      \* the encrypted invite under way, or NoBlob
          client,    \* [front, settings, invite, lab, options, verify]
          derived    \* Argon2 parameters the last decoding ran with, <<>> for none

vars == <<stage, server, blob, client, derived>>

\* A record with some of its fields given.
With(base, fields) == [f \in DOMAIN base |-> IF f \in DOMAIN fields THEN fields[f] ELSE base[f]]

NoServer == [token |-> None]
NoBlob   == [ver |-> 0]
NoClient == [front |-> None]

-----------------------------------------------------------------------------
(***************************************************************************)
(* invite_uri.rs: the outer blob.                                          *)
(***************************************************************************)
MaxMKib == 65536
MaxTCost == 8
MaxPCost == 4

validate_v2_argon_params(m, t, p) ==
  /\ m # 0 /\ t # 0 /\ p # 0
  /\ m <= MaxMKib /\ t <= MaxTCost /\ p <= MaxPCost

\* `whole`: not too long, valid base64, and long enough for its version's header.
encode_invite_v1(inner, pass) ==
  [ ver |-> 2, whole |-> TRUE, m_kib |-> 19456, t_cost |-> 2, p_cost |-> 1,
    pass |-> pass, v |-> 1, inner |-> inner ]

DerivesKey(b) ==
  b.whole /\ b.ver = 2 /\ validate_v2_argon_params(b.m_kib, b.t_cost, b.p_cost)

Opens(b, pass) ==
  /\ b.whole
  /\ b.ver = 1 \/ DerivesKey(b)
  /\ b.pass = pass
  /\ b.v = 1

decode_invite_v1(b, pass) == IF Opens(b, pass) THEN b.inner ELSE NoSettings

-----------------------------------------------------------------------------
(***************************************************************************)
(* bin/server.rs: main up to the accept loop.                              *)
(***************************************************************************)
server_reality_configured(a) ==
  NonEmpty(a.reality_target) # None /\ NonEmpty(a.reality_private_key) # None

parse_reality_short_ids(ids) ==
  {IF Trim(ids[i]) = "" THEN "zeros" ELSE Trim(ids[i]) : i \in DOMAIN ids}

is_short_id_allowed(id, allowed) == allowed = {} \/ id \in allowed \/ "zeros" \in allowed

\* The names of --reality-server-names, blank ones dropped; without the option the
\* target's own name.
reality_server_names_of(names) ==
  IF names = <<>> THEN {"front"} ELSE {NonEmpty(names[i]) : i \in DOMAIN names} \ {None}

\* Every name that the client shows, TLS SNI and HTTP Host, must be listed.
is_server_name_allowed(shown, allowed) == allowed = {} \/ (shown # {} /\ shown \subseteq allowed)

ServerToken(a) == IF a.users THEN "" ELSE resolve_cli_token(a.token, a.lab)

\* Explicit ACK timing, its ends swapped when they are the wrong way round;
\* the profile's only when nothing explicit is given.
ServerTiming(a) ==
  IF a.ack_min = 0 /\ a.ack_max = 0 /\ a.rtt = 0
  THEN CASE a.ack_profile = "balanced"   -> <<40, 120, 25>>
         [] a.ack_profile = "aggressive" -> <<40, 500, 100>>
         [] OTHER                        -> <<0, 0, 0>>
  ELSE IF a.ack_min > 0 /\ a.ack_max < a.ack_min
  THEN <<a.ack_max, a.ack_min, a.rtt>>
  ELSE <<a.ack_min, a.ack_max, a.rtt>>

\* What is checked before the invite is printed ...
ServerBinds(a) ==
  /\ a.users => a.token = None /\ ~a.print
  /\ ~a.users => ServerToken(a) # None
  /\ require_psk(a.psk, server_reality_configured(a), a.lab)
  /\ a.tls \in {"ca", "own", "san"}
  /\ a.print /\ a.reality_target # None => a.reality_private_key # Bad

\* ... and what only after it.
ServerAccepts(a) ==
  /\ ServerBinds(a)
  /\ a.ack_min = 0 /\ a.ack_max = 0 /\ a.rtt = 0 => a.ack_profile # Bad
  /\ a.reality_target # None /\ a.reality_private_key # None =>
       /\ a.reality_private_key # Bad
       /\ Bad \notin parse_reality_short_ids(a.reality_short_ids)

ServerCfg(a) ==
  LET reality == a.reality_target # None /\ a.reality_private_key # None IN
  [ token |-> ServerToken(a), users |-> a.users, lab |-> a.lab, psk |-> a.psk,
    proto_domain |-> Trim(a.proto_domain), ws_path |-> normalize_ws_path(a.ws_path),
    cert |-> a.tls, reality |-> reality, timing |-> ServerTiming(a),
    short_ids |-> IF reality THEN parse_reality_short_ids(a.reality_short_ids) ELSE {},
    server_names |-> IF reality THEN reality_server_names_of(a.reality_server_names) ELSE {} ]

FirstShortId(ids) ==
  IF \E i \in DOMAIN ids : Trim(ids[i]) # ""
  THEN Trim(ids[CHOOSE i \in DOMAIN ids :
         Trim(ids[i]) # "" /\ \A j \in DOMAIN ids : j < i => Trim(ids[j]) = ""])
  ELSE "key prefix"

\* Mutant: the invite of a server with its own certificate does not carry it.
PrintedInvite_NoPin(a) ==
  [ InviteV1 EXCEPT
      !.token = ServerToken(a), !.psk = a.psk, !.ws_path = normalize_ws_path(a.ws_path),
      !.proto_domain = IF Trim(a.proto_domain) = "" THEN None ELSE a.proto_domain,
      !.insecure = IF a.tls = "san" THEN 1 ELSE 0, !.pad_mode = "adaptive" ]

PrintedInvite(a) ==
  LET reality == a.reality_target # None /\ a.reality_private_key # None IN
  [ InviteV1 EXCEPT
      !.token = ServerToken(a), !.psk = a.psk, !.ws_path = normalize_ws_path(a.ws_path),
      !.proto_domain = IF Trim(a.proto_domain) = "" THEN None ELSE a.proto_domain,
      !.insecure = IF a.tls = "san" THEN 1 ELSE 0,
      !.pin_cert_pem = IF a.tls = "san" THEN None ELSE a.tls,
      !.pad_mode = "adaptive",
      !.reality_target = IF reality THEN a.reality_target ELSE None,
      !.reality_public_key = IF reality THEN "public" ELSE None,
      !.reality_short_id = IF reality THEN FirstShortId(a.reality_short_ids) ELSE None ]

StartServer ==
  /\ stage = "init"
  /\ \E n \in DOMAIN Servers : \E a \in Servers[n] :
       /\ blob' = IF a.print /\ ServerBinds(a)
                  THEN encode_invite_v1(PrintedInvite(a), "right") ELSE NoBlob
       /\ server' = IF ServerAccepts(a) THEN ServerCfg(a) ELSE NoServer
       /\ stage' = IF blob' # NoBlob THEN "invited"
                   ELSE IF ServerAccepts(a) THEN "serving" ELSE "refused"
  /\ UNCHANGED <<client, derived>>

\* bin/mint_invite.rs, run with the token, PSK and domain the server was given,
\* and with one of its short ids or none.
MintInvite ==
  /\ stage = "serving" /\ ~server.users /\ NonEmpty(server.psk) # None
  /\ \E insecure \in {0, 1}, sid \in {None} \cup (server.short_ids \ {"zeros"}) :
       LET inv == [ InviteV1 EXCEPT
             !.token = server.token, !.psk = server.psk, !.insecure = insecure,
             !.proto_domain = IF server.proto_domain = "" THEN "default"
                              ELSE server.proto_domain,
             !.ws_path = server.ws_path, !.pad_mode = "random",
             !.reality_target = IF server.reality THEN "t" ELSE None,
             !.reality_public_key = IF server.reality THEN "public" ELSE None,
             !.reality_short_id = IF server.reality THEN sid ELSE None ] IN
       blob' = encode_invite_v1(inv, "right")
  /\ stage' = "invited"
  /\ UNCHANGED <<server, client, derived>>

\* An invite, or none, comes to a user from elsewhere.
ReceiveBlob ==
  /\ stage = "init"
  /\ \E b \in Blobs : blob' = b
  /\ stage' = "invited"
  /\ UNCHANGED <<server, client, derived>>

-----------------------------------------------------------------------------
(***************************************************************************)
(* The front ends.  An invite needs a passphrase and decodes first.        *)
(***************************************************************************)
Started(front, s, inv, lab, accepted, options) ==
  IF accepted
  THEN /\ client' = [ front |-> front, settings |-> s, invite |-> inv, lab |-> lab,
                      options |-> options, verify |-> None ]
       /\ stage' = "started"
  ELSE /\ client' = [front |-> front, settings |-> s, invite |-> inv, lab |-> lab]
       /\ stage' = "refused"

Derived(b) == IF DerivesKey(b) THEN <<b.m_kib, b.t_cost, b.p_cost>> ELSE <<>>

JsonStart(s, inv) == Started("json", s, inv, FALSE, JsonAccepts(s, inv), JsonOptions(s, inv))

CliStart(s, inv, lab) ==
  Started("cli", s, inv, lab, CliAccepts(s, inv, lab), CliOptions(s, inv, lab))

\* The desktop replaces both listener addresses by its own.
DesktopStart(p, inv) ==
  LET s == WithBinds(start_config_json(p, inv.present), "app socks", "app http") IN
  Started("desktop", s, inv, FALSE, can_connect(p, inv.present) /\ JsonAccepts(s, inv),
          JsonOptions(s, inv))

\* The blob at hand, decoded and used as it is.
UseInvite ==
  /\ stage = "invited"
  /\ derived' = Derived(blob)
  /\ \E pass \in {"right", "wrong"} :
       LET inv == decode_invite_v1(blob, pass) IN
       IF ~inv.present
       THEN stage' = "refused" /\ UNCHANGED client
       ELSE \/ JsonStart(NoSettings, inv)
            \/ \E lab \in BOOLEAN : CliStart(NoSettings, inv, lab)
            \/ DesktopStart(apply_invite_fields(inv), inv)
  /\ UNCHANGED <<server, blob>>

\* Explicit settings, with or without an invite.
UseSettings ==
  /\ stage = "init"
  /\ \E n \in DOMAIN Inputs : \E i \in Inputs[n] :
       IF "profile" \in DOMAIN i
       THEN DesktopStart(With(apply_invite_fields(InviteV1), i.profile), NoSettings)
       ELSE LET s   == With(NoSettings, i.given)
                inv == IF i.invited THEN With(InviteV1, i.invite) ELSE NoSettings IN
            JsonStart(s, inv) \/ CliStart(s, inv, i.lab)
  /\ UNCHANGED <<server, blob, derived>>

RunClient ==
  /\ stage = "started"
  /\ LET v == client_tls_config(client.options.insecure_tls, client.options.pinned_certs_pem) IN
       IF v = "refused"
       THEN stage' = "refused" /\ UNCHANGED client
       ELSE /\ stage' = "running"
            /\ client' = [client EXCEPT !.options = ClientCfg(client.options), !.verify = v]
  /\ UNCHANGED <<server, blob, derived>>

Init ==
  stage = "init" /\ server = NoServer /\ blob = NoBlob /\ client = NoClient /\ derived = <<>>

Next == StartServer \/ MintInvite \/ ReceiveBlob \/ UseInvite \/ UseSettings \/ RunClient

Spec == Init /\ [][Next]_vars
-----------------------------------------------------------------------------
(***************************************************************************)
(* Properties.                                                             *)
(***************************************************************************)
Running == stage = "running"

\* Values stay in range: at most four parallel sessions, resolved numbers and
\* switches set, a verification mode chosen for every running client.
DeploymentTypeOK ==
  /\ stage \in {"init", "serving", "invited", "started", "running", "refused"}
  /\ Running =>
       /\ client.options.ws_parallel \in 1..4
       /\ client.options.max_pad >= 0 /\ client.options.udp_max_pad >= 0
       /\ client.verify \in {"pinned", "unverified", "system roots"}
       /\ client.options.proto_domain # ""

\* How the client names the server: the SNI, and the Host header.
Shown(o) == {o.sni, OrText(o.ws_host, o.sni)}

\* The invite at hand is one of bibavpn-mint-invite, which knows neither the
\* server's certificate nor its lists.
Minted == client.invite.pad_mode = "random"

\* A client started from an invite of its server fits that server, whatever the
\* front end: same token, PSK, path and REALITY mode, and the same key domain
\* (but for a server with a blank --proto-domain, which refuses everybody).  A
\* printed invite lets the client accept the certificate and names a short id
\* that is allowed.  A minted one does so unless it says insecure=0 of a
\* certificate that no authority signed, or leaves out the short id that a list
\* asks for.  Either way a --reality-server-names that does not list the target's
\* own name turns away every client made from an invite.
InviteFits ==
  Running /\ server # NoServer =>
    LET o == client.options IN
    /\ o.token = server.token
    /\ o.psk = server.psk
    /\ o.ws_path = server.ws_path
    /\ server.reality = client_reality_configured(o.reality_target, o.reality_public_key)
    /\ server.proto_domain # "" <=> o.proto_domain = server.proto_domain
    /\ verify_server_cert(client.verify, o.pinned_certs_pem, server.cert) <=>
         ~(Minted /\ client.invite.insecure = 0 /\ server.cert # "ca")
    /\ is_short_id_allowed(o.reality_short_id, server.short_ids) <=>
         ~(/\ Minted /\ client.invite.reality_short_id = None
           /\ server.short_ids # {} /\ "zeros" \notin server.short_ids)
    /\ server.reality =>
         (is_server_name_allowed(Shown(o), server.server_names)
            <=> server.server_names = {} \/ "front" \in server.server_names)

\* No front end refuses what the server or the operator made, unless the server runs with
\* --lab, or its PSK has spaces around it and the desktop profile trimmed it.
InviteUsable ==
  stage = "refused" /\ server # NoServer /\ ~server.lab /\ client # NoClient
    => client.front = "desktop" /\ server.psk # None /\ Trim(server.psk) # server.psk

\* A setting that is there and is not blank.
Set(s, f) == NonEmpty(s[f]) # None
\* A blank text: the JSON start takes it for an absent one, the command line as it is.
Blank(s, f) == s[f] # None /\ NonEmpty(s[f]) = None

RealityGiven(s) ==
  \E f \in {"reality_target", "reality_public_key", "reality_short_id"} : s[f] # None
SocksAuthGiven(s) == s.socks_auth_user # None \/ s.socks_auth_password # None

\* The options in which the two front ends differ on settings that both accept.
\* The command line leaves the PSK and the key domain to an invite, and does not
\* turn on a mux that the invite turned off; the JSON start leaves fragmentation
\* to the invite and REALITY to it always; only the JSON start has SOCKS
\* credentials; and blank texts mean something to the command line.
DifferingOptions(s, inv) ==
  {f \in {"psk", "proto_domain"} : inv.present /\ s[f] # None}
  \cup {f \in {"use_tcp_mux"} : inv.use_tcp_mux = 0 /\ s.use_tcp_mux = 1}
  \cup {f \in {"tls_fragment"} : inv.present /\ s.tls_fragment # Unset}
  \cup {f \in {"reality_target", "reality_public_key", "reality_short_id", "sni"} : RealityGiven(s)}
  \cup {f \in {"socks_auth"} : SocksAuthGiven(s)}
  \cup {f \in {"sni", "ws_host", "tls_stack"} : Blank(s, f) \/ Blank(inv, f)}
  \cup {f \in {"http_proxy_bind"} : Blank(s, "http_proxy") \/ Blank(inv, "http_proxy")}
  \cup {f \in {"pinned_certs_pem"} : Blank(s, "pin_cert_pem")}

\* The settings that only one of them refuses: clap, a server or token beside an
\* invite; the JSON start, a PSK or protocol that contradicts the invite's and
\* half of the SOCKS credentials; and what either does not read.
DifferingChecks(s, inv) ==
  \/ inv.present /\ (s.server # None \/ s.token # None)
  \/ inv.present /\ (Set(s, "psk") \/ s.proto # Unset)
  \/ RealityGiven(s) \/ SocksAuthGiven(s)

\* "Keep this in sync": but for these, the JSON start and the command line accept
\* the same settings, and run the same client of them.
FrontendsAgree ==
  client # NoClient /\ ~client.lab =>
    LET s == client.settings  inv == client.invite
        json == ClientCfg(JsonOptions(s, inv))  cli == ClientCfg(CliOptions(s, inv, FALSE)) IN
    /\ DifferingChecks(s, inv) \/ JsonAccepts(s, inv) = CliAccepts(s, inv, FALSE)
    /\ JsonAccepts(s, inv) /\ CliAccepts(s, inv, FALSE) =>
         \A f \in DOMAIN json \ DifferingOptions(s, inv) : json[f] = cli[f]

\* What the user set explicitly is what runs: no preset replaces it, and an invite
\* only where one of these says so: a SOCKS address of the invite wins, JSON's
\* tls_fragment and the command line's --psk, --proto-domain and --use-tcp-mux
\* are left to the invite.
ExplicitWins ==
  stage = "started" =>
    LET s == client.settings  o == client.options  inv == client.invite
        cliInvited == client.front = "cli" /\ inv.present IN
    /\ \A f \in {"max_pad", "udp_max_pad", "dummy_interval_secs", "decoy_gets", "idle_decoy_secs"} :
         s[f] # Unset => o[f] = s[f]
    /\ s.ws_jitter_min_ms # Unset => o.jitter[1] = s.ws_jitter_min_ms
    /\ s.ws_jitter_max_ms # Unset => o.jitter[2] = s.ws_jitter_max_ms
    /\ s.ws_binary_send_jitter_ms # Unset => o.send_jitter = s.ws_binary_send_jitter_ms
    /\ \A f \in {"pad_mode", "decoy_mode", "tls_stack", "ws_host"} :
         Set(s, f) => o[f] = NonEmpty(s[f])
    /\ Set(s, "fingerprint") => o.tls_profile = NonEmpty(s.fingerprint)
    /\ ~Set(s, "fingerprint") /\ Set(s, "tls_profile") => o.tls_profile = NonEmpty(s.tls_profile)
    /\ Set(s, "http_proxy") => o.http_proxy_bind = NonEmpty(s.http_proxy)
    /\ Set(s, "socks_bind") /\ ~Set(inv, "socks_bind") => o.socks_bind = s.socks_bind
    /\ Set(s, "proto_domain") /\ ~cliInvited => o.proto_domain = NonEmpty(s.proto_domain)
    /\ s.use_tcp_mux = 0 => ~o.use_tcp_mux
    /\ s.use_tcp_mux = 1 /\ ~cliInvited => o.use_tcp_mux
    /\ s.tls_fragment = 1 /\ (client.front = "cli" \/ ~inv.present) => o.tls_fragment

\* A client runs with the protection that was asked for: the PSK given, the
\* invite's without one; the REALITY server given or the invite's; the pin given
\* or the invite's; and no certificate goes unverified unless that was asked.
\* The code has two exceptions: the command line takes the PSK of an invite and
\* ignores --psk beside it, and the JSON start, so also a desktop profile, takes
\* REALITY from an invite alone.  Even then a PSK or REALITY, and no placeholder
\* for a token, is what runs (--lab aside).
ProtectedAsAsked ==
  Running =>
    LET s == client.settings  o == client.options  inv == client.invite
        pskIgnored == client.front = "cli" /\ inv.present
        realityIgnored == client.front # "cli" IN
    /\ Set(s, "psk") /\ ~pskIgnored => NonEmpty(o.psk) = NonEmpty(s.psk)
    /\ inv.present /\ (pskIgnored \/ ~Set(s, "psk")) => o.psk = inv.psk
    /\ \A f \in {"reality_target", "reality_public_key", "reality_short_id"} :
         /\ Set(s, f) /\ ~realityIgnored => o[f] = s[f]
         /\ Set(inv, f) /\ (realityIgnored \/ s[f] = None) => o[f] = NonEmpty(inv[f])
    /\ \A pin \in {NonEmpty(s.pin_cert_pem), NonEmpty(inv.pin_cert_pem)} \ {None} :
         client.verify = "pinned"
    /\ client.verify = "unverified" => s.insecure = 1 \/ inv.insecure = 1
    /\ client.lab \/ Set(o, "psk") \/ (Set(o, "reality_target") /\ Set(o, "reality_public_key"))
    /\ client.lab \/ ~is_token_denylisted(o.token)

\* Argon2 never runs with a zero or with more memory, passes or lanes than the
\* caps, whoever wrote the blob.
KdfBounded ==
  derived # <<>> => /\ derived[1] \in 1..MaxMKib
                    /\ derived[2] \in 1..MaxTCost
                    /\ derived[3] \in 1..MaxPCost

\* The two addresses the app put into the start JSON are the ones the client
\* listens on ("substitutes the local socks_bind and optionally http_proxy").
\* The code does not keep this, see the README, section 4.
BindsHonoured ==
  stage = "started" /\ client.front = "desktop" =>
    client.options.socks_bind = "app socks" /\ client.options.http_proxy_bind = "app http"

\* A client made from a server's own invite, printed or minted, fits that server
\* but for the cases named above, and decoding costs no more than the caps.
InvitesFit == DeploymentTypeOK /\ InviteFits /\ InviteUsable /\ KdfBounded

\* The front ends make the same options of the same settings, what is set
\* explicitly wins, and the protection asked for runs, each with the exceptions
\* of the code that the three conjuncts name.
FrontendsMatch == FrontendsAgree /\ ExplicitWins /\ ProtectedAsAsked
=============================================================================
