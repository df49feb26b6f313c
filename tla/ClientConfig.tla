---------------------------- MODULE ClientConfig ----------------------------
(***************************************************************************)
(* How the client's front ends turn what the user gave (explicit settings  *)
(* and, optionally, a decoded `biba://` invite) into LocalClientOptions:   *)
(* the JSON start of the apps (start_json_config.rs), the command line     *)
(* (bin/client.rs), and the desktop profile that is first written out as   *)
(* start JSON (config.rs), followed by what run_local_client makes of the  *)
(* options.  Every resolution is a function of a record of settings and a  *)
(* record for the invite; both records have the same fields, an absent     *)
(* setting being None (text) or Unset (numbers and booleans).              *)
(*                                                                         *)
(* One field stands for all those the code treats alike: max_pad for the   *)
(* always present numbers (junk_frames, early_ws_frames, decoy_max,        *)
(* max_ws_binary, ws_ping_secs, ...), udp_max_pad for the optional ones,   *)
(* decoy_mode for desync_mode and tcp_fooling, ws_host for ws_origin,      *)
(* ws_user_agent and ws_accept_language.                                   *)
(***************************************************************************)
EXTENDS Integers, Sequences, FiniteSets

None  == "-"        \* an absent text
Unset == 0 - 1      \* an absent number or boolean (0 = false, 1 = true)
Bad   == "bad"      \* a text the field's parser refuses

(***************************************************************************)
(* Texts come blank or padded with spaces: str::trim takes the padding.    *)
(***************************************************************************)
Trim(s) == CASE s = " "  -> ""
             [] s = " x" -> "x"
             [] s = " k" -> "k"
             [] OTHER    -> s

NonEmpty(o) == IF o = None \/ Trim(o) = "" THEN None ELSE Trim(o)
OrText(a, b) == IF a # None THEN a ELSE b
OrNum(a, b)  == IF a # Unset THEN a ELSE b
Clamp(n, lo, hi) == IF n < lo THEN lo ELSE IF n > hi THEN hi ELSE n

(***************************************************************************)
(* The records.  `present` tells an invite from its absence.               *)
(***************************************************************************)
NoSettings ==
  [ present |-> FALSE, server |-> None, sni |-> None, token |-> None, psk |-> None,
    proto |-> Unset, proto_domain |-> None, insecure |-> Unset, pin_cert_pem |-> None,
    reality_target |-> None, reality_public_key |-> None, reality_short_id |-> None,
    ws_path |-> None, max_pad |-> Unset, udp_max_pad |-> Unset,
    ws_binary_send_jitter_ms |-> Unset, ws_jitter_min_ms |-> Unset,
    ws_jitter_max_ms |-> Unset, pad_mode |-> None, dummy_interval_secs |-> Unset,
    decoy_gets |-> Unset, idle_decoy_secs |-> Unset, decoy_mode |-> None,
    fingerprint |-> None, tls_profile |-> None, stealth_profile |-> None,
    tls_stack |-> None, tls_fragment |-> Unset, ws_parallel |-> Unset,
    use_tcp_mux |-> Unset, socks_bind |-> None, http_proxy |-> None,
    ws_host |-> None, socks_auth_user |-> None, socks_auth_password |-> None ]

(***************************************************************************)
(* InviteV1 with the values serde fills in for fields an old invite omits. *)
(***************************************************************************)
InviteV1 ==
  [ NoSettings EXCEPT
      !.present = TRUE, !.server = "h:1", !.sni = "h", !.token = "x", !.psk = "k",
      !.proto = 3, !.insecure = 0, !.max_pad = 64, !.ws_binary_send_jitter_ms = 0,
      !.ws_jitter_min_ms = 0, !.ws_jitter_max_ms = 0, !.decoy_gets = 0,
      !.tls_profile = "default", !.tls_stack = "rustls", !.tls_fragment = 0,
      !.ws_parallel = 1, !.use_tcp_mux = 1 ]

-----------------------------------------------------------------------------
(***************************************************************************)
(* Stealth presets (stealth_v12.rs).                                       *)
(***************************************************************************)
Profiles == {"default", "balanced", "aggressive"}

preset ==
  [ default    |-> [ tls_profile |-> "default", pad_mode |-> "adaptive",
                     ws_jitter_min_ms |-> 0, ws_jitter_max_ms |-> 0, decoy_gets |-> 0,
                     decoy_mode |-> "simple", dummy_interval_secs |-> 0, idle_decoy_secs |-> 0 ],
    balanced   |-> [ tls_profile |-> "chrome132", pad_mode |-> "adaptive",
                     ws_jitter_min_ms |-> 5, ws_jitter_max_ms |-> 15, decoy_gets |-> 1,
                     decoy_mode |-> "browser", dummy_interval_secs |-> 0, idle_decoy_secs |-> 10 ],
    aggressive |-> [ tls_profile |-> "chrome132", pad_mode |-> "adaptive",
                     ws_jitter_min_ms |-> 5, ws_jitter_max_ms |-> 25, decoy_gets |-> 1,
                     decoy_mode |-> "browser", dummy_interval_secs |-> 45, idle_decoy_secs |-> 10 ] ]

PresetNum(st, f)  == IF st = None THEN Unset ELSE preset[st][f]
PresetText(st, f) == IF st = None THEN None ELSE preset[st][f]

apply_preset_ws_jitter(st, lo, hi) ==
  IF lo = 0 /\ hi = 0 /\ st # None
  THEN <<preset[st].ws_jitter_min_ms, preset[st].ws_jitter_max_ms>>
  ELSE <<lo, hi>>

merge_idle_decoy_secs(explicit, st) ==
  OrNum(explicit, OrNum(PresetNum(st, "idle_decoy_secs"), 0))

(***************************************************************************)
(* client_policy.rs: fingerprint, then the explicit TLS profile, then the  *)
(* stealth preset, then the invite, then the built-in default.             *)
(***************************************************************************)
resolve_tls_client_profile(finger, tls, st, fromInvite) ==
  OrText(NonEmpty(finger), OrText(NonEmpty(tls),
    OrText(PresetText(st, "tls_profile"), OrText(fromInvite, "chrome132"))))

tls_profile_from_invite(inv) ==
  IF inv.present THEN OrText(NonEmpty(inv.fingerprint), NonEmpty(inv.tls_profile)) ELSE None

-----------------------------------------------------------------------------
(***************************************************************************)
(* Secrets (startup_secrets.rs).  "test" is a denylisted token.            *)
(***************************************************************************)
is_token_denylisted(t) == Trim(t) \in {"", "test", "change-me"}

client_reality_configured(target, key) == NonEmpty(target) # None /\ key # None

require_psk(psk, reality, lab) == NonEmpty(psk) # None \/ lab \/ reality

\* `None` stands for a refusal.
resolve_cli_token(token, lab) ==
  IF lab THEN (IF NonEmpty(token) = None THEN "change-me" ELSE Trim(token))
  ELSE IF NonEmpty(token) = None \/ is_token_denylisted(token) THEN None
  ELSE Trim(token)

reality_public_key_parsed(k) == NonEmpty(k)
reality_short_id_parsed(k)   == NonEmpty(k)

(***************************************************************************)
(* Shared text conversions.                                                *)
(***************************************************************************)
normalize_ws_path(s) ==
  CASE Trim(s) = ""   -> "/ws"
    [] Trim(s) = "p"  -> "/p"
    [] OTHER          -> Trim(s)

parse_host_port_ok(s) == Trim(s) = "h:1"

effective_tls_sni(sni, target) ==
  IF NonEmpty(target) = None THEN sni ELSE "front"

effective_proto_domain(d) == IF Trim(d) = "" THEN "default" ELSE Trim(d)

json_or_invite_str(j, i) == OrText(NonEmpty(j), NonEmpty(i))

\* Both halves of SOCKS credentials or neither; <<>> for none, Bad for one half.
SocksAuth(u, p) ==
  CASE NonEmpty(u) # None /\ NonEmpty(p) # None -> <<NonEmpty(u), NonEmpty(p)>>
    [] NonEmpty(u) = None /\ NonEmpty(p) = None -> <<>>
    [] OTHER -> <<Bad>>

Parses(texts) == \A t \in texts : t # Bad

-----------------------------------------------------------------------------
(***************************************************************************)
(* start_json_config.rs: start_json_into_options.                          *)
(***************************************************************************)
StealthForMerge(s, inv) == OrText(NonEmpty(s.stealth_profile), NonEmpty(inv.stealth_profile))

JsonToken(s, inv) ==
  IF inv.present
  THEN IF NonEmpty(s.token) \in {None, Trim(inv.token)} THEN inv.token ELSE None
  ELSE NonEmpty(s.token)

JsonPsk(s, inv) ==
  IF inv.present THEN OrText(NonEmpty(s.psk), inv.psk) ELSE s.psk

\* Two different PSKs are an error, not a choice.
JsonPskClash(s, inv) ==
  inv.present /\ NonEmpty(s.psk) # None /\ inv.psk # None /\ NonEmpty(s.psk) # inv.psk

ExplicitJitter(s) ==
  \/ s.ws_jitter_min_ms # Unset
  \/ s.ws_jitter_max_ms # Unset
  \/ s.ws_binary_send_jitter_ms # Unset

Jitter(s, inv) ==
  apply_preset_ws_jitter(
    IF ExplicitJitter(s) THEN None ELSE StealthForMerge(s, inv),
    OrNum(s.ws_jitter_min_ms, OrNum(inv.ws_jitter_min_ms, 0)),
    OrNum(s.ws_jitter_max_ms, OrNum(inv.ws_jitter_max_ms, 0)))

\* Pad mode and dummy interval: explicit, then the invite, then the preset.
PadMode(s, inv) ==
  OrText(NonEmpty(s.pad_mode),
    OrText(inv.pad_mode, OrText(PresetText(StealthForMerge(s, inv), "pad_mode"), "adaptive")))

DummyInterval(s, inv) ==
  OrNum(s.dummy_interval_secs, OrNum(inv.dummy_interval_secs,
    OrNum(PresetNum(StealthForMerge(s, inv), "dummy_interval_secs"), 0)))

\* Decoy GETs: explicit, then the preset, then the invite.
DecoyGets(s, inv) ==
  OrNum(s.decoy_gets,
    OrNum(PresetNum(StealthForMerge(s, inv), "decoy_gets"), OrNum(inv.decoy_gets, 0)))

DecoyModeOf(s, inv) ==
  OrText(NonEmpty(s.decoy_mode), OrText(NonEmpty(inv.decoy_mode),
    OrText(PresetText(StealthForMerge(s, inv), "decoy_mode"), "simple")))

Auth(s, inv) ==
  IF SocksAuth(s.socks_auth_user, s.socks_auth_password) # <<>>
  THEN SocksAuth(s.socks_auth_user, s.socks_auth_password)
  ELSE SocksAuth(inv.socks_auth_user, inv.socks_auth_password)

\* What the parsers and the checks of start_json_into_options let through.
JsonAccepts(s, inv) ==
  LET target == inv.reality_target
      key    == reality_public_key_parsed(inv.reality_public_key)
      sid    == reality_short_id_parsed(inv.reality_short_id) IN
  /\ IF inv.present THEN parse_host_port_ok(inv.server)
     ELSE s.server # None /\ parse_host_port_ok(s.server)
  /\ JsonToken(s, inv) # None /\ ~is_token_denylisted(JsonToken(s, inv))
  /\ ~JsonPskClash(s, inv)
  /\ StealthForMerge(s, inv) \in Profiles \cup {None}
  /\ Parses({PadMode(s, inv), DecoyModeOf(s, inv), key, sid,
             OrText(NonEmpty(s.tls_stack), inv.tls_stack)})
  /\ Parses({tls_profile_from_invite(inv),
             resolve_tls_client_profile(s.fingerprint, s.tls_profile,
               StealthForMerge(s, inv), tls_profile_from_invite(inv))})
  /\ OrNum(s.proto, OrNum(inv.proto, 3)) = 3
  /\ Auth(s, inv) # <<Bad>>
  /\ target # None \/ key # None \/ sid # None => target # None /\ key # None
  /\ require_psk(JsonPsk(s, inv), client_reality_configured(target, key), FALSE)

JsonOptions(s, inv) ==
  LET st     == StealthForMerge(s, inv)
      target == inv.reality_target IN
  [ sni |-> effective_tls_sni(
              IF inv.present THEN OrText(json_or_invite_str(s.sni, inv.sni), inv.sni)
              ELSE OrText(NonEmpty(s.sni), "h"), target),
    token |-> JsonToken(s, inv), psk |-> JsonPsk(s, inv),
    proto_domain |-> OrText(json_or_invite_str(s.proto_domain, inv.proto_domain), "default"),
    insecure_tls |-> s.insecure = 1 \/ inv.insecure = 1,
    pinned_certs_pem |-> OrText(NonEmpty(s.pin_cert_pem), NonEmpty(inv.pin_cert_pem)),
    reality_target |-> target,
    reality_public_key |-> reality_public_key_parsed(inv.reality_public_key),
    reality_short_id |-> reality_short_id_parsed(inv.reality_short_id),
    ws_path |-> normalize_ws_path(OrText(s.ws_path, OrText(inv.ws_path, "/ws"))),
    max_pad |-> OrNum(s.max_pad, OrNum(inv.max_pad, 64)),
    udp_max_pad |-> OrNum(s.udp_max_pad, inv.udp_max_pad),
    send_jitter |-> OrNum(s.ws_binary_send_jitter_ms, OrNum(inv.ws_binary_send_jitter_ms, 0)),
    jitter |-> Jitter(s, inv),
    pad_mode |-> PadMode(s, inv), dummy_interval_secs |-> DummyInterval(s, inv),
    decoy_gets |-> DecoyGets(s, inv), decoy_mode |-> DecoyModeOf(s, inv),
    idle_decoy_secs |->
      merge_idle_decoy_secs(OrNum(s.idle_decoy_secs, inv.idle_decoy_secs), st),
    tls_profile |-> resolve_tls_client_profile(s.fingerprint, s.tls_profile, st,
                                               tls_profile_from_invite(inv)),
    tls_stack |-> OrText(NonEmpty(s.tls_stack), OrText(inv.tls_stack, "rustls")),
    tls_fragment |-> IF inv.present THEN inv.tls_fragment = 1 ELSE s.tls_fragment = 1,
    ws_parallel |-> Clamp(OrNum(s.ws_parallel, OrNum(inv.ws_parallel, 1)), 1, 4),
    use_tcp_mux |-> OrNum(s.use_tcp_mux, OrNum(inv.use_tcp_mux, 1)) = 1,
    socks_bind |-> OrText(NonEmpty(inv.socks_bind), OrText(s.socks_bind, "1080")),
    http_proxy_bind |-> json_or_invite_str(s.http_proxy, inv.http_proxy),
    ws_host |-> json_or_invite_str(s.ws_host, inv.ws_host),
    socks_auth |-> Auth(s, inv) ]

\* local_client_options_from_json_str_with_binds: the app's own ports.
WithBinds(s, socks, http) == [s EXCEPT !.socks_bind = socks, !.http_proxy = http]

-----------------------------------------------------------------------------
(***************************************************************************)
(* bin/client.rs: options_from_args.  clap refuses --server or --token     *)
(* together with --from-invite, and their absence without one.             *)
(***************************************************************************)
CliToken(s, inv, lab) == IF inv.present THEN inv.token ELSE resolve_cli_token(s.token, lab)

CliRealityKey(s, inv) ==
  IF s.reality_public_key # None
  THEN OrText(NonEmpty(s.reality_public_key), Bad)
  ELSE reality_public_key_parsed(inv.reality_public_key)

CliShortId(s, inv) ==
  IF s.reality_short_id # None
  THEN OrText(NonEmpty(s.reality_short_id), Bad)
  ELSE reality_short_id_parsed(inv.reality_short_id)

CliTlsStack(s, inv) ==
  IF s.tls_stack # None THEN s.tls_stack ELSE OrText(inv.tls_stack, "rustls")

\* Mutant: the domain of --proto-domain is not read without an invite.
CliDomain_Ignored(s, inv) == IF inv.present THEN OrText(inv.proto_domain, "") ELSE "default"

CliDomain(s, inv) ==
  IF inv.present THEN OrText(inv.proto_domain, "") ELSE OrText(s.proto_domain, "default")

CliAccepts(s, inv, lab) ==
  LET target == OrText(s.reality_target, inv.reality_target)
      key    == CliRealityKey(s, inv)
      sid    == CliShortId(s, inv)
      psk    == IF inv.present THEN inv.psk ELSE s.psk IN
  /\ IF inv.present THEN s.server = None /\ s.token = None /\ parse_host_port_ok(inv.server)
     ELSE s.server # None /\ parse_host_port_ok(s.server) /\ (lab \/ s.token # None)
  /\ (IF inv.present THEN inv.proto ELSE OrNum(s.proto, 3)) = 3
  /\ CliToken(s, inv, lab) # None
  /\ inv.present /\ ~lab => ~is_token_denylisted(inv.token)
  /\ StealthForMerge(s, inv) \in Profiles \cup {None}
  /\ Parses({PadMode(s, inv), DecoyModeOf(s, inv), key, sid, CliTlsStack(s, inv)})
  /\ Parses({tls_profile_from_invite(inv),
             resolve_tls_client_profile(s.fingerprint, s.tls_profile,
               StealthForMerge(s, inv), tls_profile_from_invite(inv))})
  /\ SocksAuth(inv.socks_auth_user, inv.socks_auth_password) # <<Bad>>
  /\ target # None \/ key # None \/ sid # None => target # None /\ key # None
  /\ require_psk(psk, client_reality_configured(target, key), lab)

CliOptions(s, inv, lab) ==
  LET st     == StealthForMerge(s, inv)
      target == OrText(s.reality_target, inv.reality_target) IN
  [ sni |-> effective_tls_sni(OrText(s.sni, IF inv.present THEN inv.sni ELSE "h"), target),
    token |-> CliToken(s, inv, lab),
    psk |-> IF inv.present THEN inv.psk ELSE s.psk,
    proto_domain |-> CliDomain(s, inv),
    insecure_tls |-> s.insecure = 1 \/ inv.insecure = 1,
    pinned_certs_pem |-> OrText(s.pin_cert_pem, NonEmpty(inv.pin_cert_pem)),
    reality_target |-> target,
    reality_public_key |-> CliRealityKey(s, inv),
    reality_short_id |-> CliShortId(s, inv),
    ws_path |-> normalize_ws_path(OrText(s.ws_path, OrText(inv.ws_path, "/ws"))),
    max_pad |-> OrNum(s.max_pad, OrNum(inv.max_pad, 64)),
    udp_max_pad |-> OrNum(s.udp_max_pad, inv.udp_max_pad),
    send_jitter |-> OrNum(s.ws_binary_send_jitter_ms, OrNum(inv.ws_binary_send_jitter_ms, 0)),
    jitter |-> Jitter(s, inv),
    pad_mode |-> PadMode(s, inv), dummy_interval_secs |-> DummyInterval(s, inv),
    decoy_gets |-> DecoyGets(s, inv), decoy_mode |-> DecoyModeOf(s, inv),
    idle_decoy_secs |->
      merge_idle_decoy_secs(OrNum(s.idle_decoy_secs, inv.idle_decoy_secs), st),
    tls_profile |-> resolve_tls_client_profile(s.fingerprint, s.tls_profile, st,
                                               tls_profile_from_invite(inv)),
    tls_stack |-> CliTlsStack(s, inv),
    tls_fragment |-> OrNum(s.tls_fragment, OrNum(inv.tls_fragment, 0)) = 1,
    ws_parallel |-> OrNum(s.ws_parallel, OrNum(inv.ws_parallel, 1)),
    use_tcp_mux |-> s.use_tcp_mux # 0 /\ OrNum(inv.use_tcp_mux, 1) = 1,
    socks_bind |-> OrText(NonEmpty(inv.socks_bind), OrText(s.socks_bind, "1080")),
    http_proxy_bind |-> OrText(s.http_proxy, inv.http_proxy),
    ws_host |-> OrText(s.ws_host, inv.ws_host),
    socks_auth |-> SocksAuth(inv.socks_auth_user, inv.socks_auth_password) ]

-----------------------------------------------------------------------------
(***************************************************************************)
(* The desktop profile: an imported invite is copied into it field by      *)
(* field, and the profile is written out as start JSON on every connect.   *)
(***************************************************************************)
apply_invite_fields(inv) ==
  [ inv EXCEPT !.present = FALSE,
      !.proto_domain = OrText(NonEmpty(inv.proto_domain), "default"),
      !.dummy_interval_secs = OrNum(inv.dummy_interval_secs, 0),
      !.idle_decoy_secs = OrNum(inv.idle_decoy_secs, 0),
      !.ws_parallel = Clamp(inv.ws_parallel, 1, 4),
      !.socks_bind = None, !.http_proxy = None,
      !.socks_auth_user = None, !.socks_auth_password = None ]

\* A number the profile keeps as 0 when it is not set is written out only if positive.
IfPositive(n) == IF n > 0 THEN n ELSE Unset

start_config_json(p, useInvite) ==
  [ p EXCEPT
      !.server = IF useInvite THEN "" ELSE Trim(p.server),
      !.token = IF useInvite THEN None ELSE p.token,
      !.tls_profile = IF useInvite \/ NonEmpty(p.tls_profile) \in {None, "default"}
                      THEN None ELSE Trim(p.tls_profile),
      !.sni = NonEmpty(p.sni), !.psk = NonEmpty(p.psk),
      !.ws_path = NonEmpty(p.ws_path), !.pad_mode = NonEmpty(p.pad_mode),
      !.pin_cert_pem = NonEmpty(p.pin_cert_pem), !.ws_host = NonEmpty(p.ws_host),
      !.ws_binary_send_jitter_ms = IfPositive(p.ws_binary_send_jitter_ms),
      !.ws_jitter_min_ms = IfPositive(p.ws_jitter_min_ms),
      !.ws_jitter_max_ms = IfPositive(p.ws_jitter_max_ms),
      !.dummy_interval_secs = IfPositive(p.dummy_interval_secs),
      !.decoy_gets = IfPositive(p.decoy_gets),
      !.idle_decoy_secs = IfPositive(p.idle_decoy_secs),
      !.tls_fragment = IfPositive(p.tls_fragment),
      !.proto = IF p.proto = 3 THEN Unset ELSE p.proto,
      !.proto_domain = IF useInvite THEN NonEmpty(p.proto_domain)
                       ELSE OrText(NonEmpty(p.proto_domain), "default"),
      !.stealth_profile = NonEmpty(p.stealth_profile),
      !.decoy_mode = NonEmpty(p.decoy_mode),
      !.fingerprint = NonEmpty(p.fingerprint),
      !.reality_target = IF NonEmpty(p.reality_public_key) = None THEN None
                         ELSE NonEmpty(p.reality_target),
      !.reality_public_key = IF NonEmpty(p.reality_target) = None THEN None
                             ELSE NonEmpty(p.reality_public_key),
      !.tls_stack = IF NonEmpty(p.tls_stack) \in {None, "rustls"} THEN None ELSE Trim(p.tls_stack),
      !.ws_parallel = Clamp(p.ws_parallel, 1, 4) ]

can_connect(p, useInvite) ==
  useInvite \/ (NonEmpty(p.server) # None /\ NonEmpty(p.token) # None)

-----------------------------------------------------------------------------
(***************************************************************************)
(* local_client.rs: what run_local_client makes of the options, and how    *)
(* tls_util.rs lets the client verify the server's certificate.            *)
(***************************************************************************)

client_tls_config(insecure, pin) ==
  IF insecure /\ pin # None THEN "refused"
  ELSE IF insecure THEN "unverified"
  ELSE IF pin = None THEN "system roots"
  ELSE IF pin = Bad THEN "refused"
  ELSE "pinned"

\* PinnedCertsVerifier, NoVerifier, or the roots ("ca" is a certificate they know).
verify_server_cert(verify, pin, cert) ==
  CASE verify = "unverified"   -> TRUE
    [] verify = "pinned"       -> pin = cert
    [] verify = "system roots" -> cert = "ca"

ClientCfg(o) ==
  [ o EXCEPT !.sni = effective_tls_sni(o.sni, o.reality_target),
             !.proto_domain = effective_proto_domain(o.proto_domain),
             !.udp_max_pad = OrNum(o.udp_max_pad, o.max_pad),
             !.ws_parallel = Clamp(o.ws_parallel, 1, 4) ]
=============================================================================
