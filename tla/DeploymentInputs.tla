-------------------------- MODULE DeploymentInputs --------------------------
(***************************************************************************)
(* The inputs Deployment is checked on: the values that meet in each part  *)
(* of the resolution (secrets and identity, traffic shape, local           *)
(* listeners).  Fields of different parts are resolved independently of    *)
(* each other by the code.                                                 *)
(***************************************************************************)
EXTENDS ClientConfig

Arg == [ token |-> "x", users |-> FALSE, lab |-> FALSE, psk |-> "k", tls |-> "own",
         reality_target |-> None, reality_private_key |-> None, reality_short_ids |-> <<>>,
         reality_server_names |-> <<>>,
         proto_domain |-> "default", ws_path |-> "/ws", print |-> TRUE,
         ack_min |-> 0, ack_max |-> 0, rtt |-> 0, ack_profile |-> None ]

\* The command lines that set some of the fields (a set of records is not
\* enumerated before it is used).
Command(sets) == [f \in DOMAIN Arg |-> IF f \in DOMAIN sets THEN sets[f] ELSE {Arg[f]}]

Commands(c) ==
  [ token : c.token, users : c.users, lab : c.lab, psk : c.psk, tls : c.tls,
    reality_target : c.reality_target, reality_private_key : c.reality_private_key,
    reality_short_ids : c.reality_short_ids, reality_server_names : c.reality_server_names, proto_domain : c.proto_domain,
    ws_path : c.ws_path, print : c.print, ack_min : c.ack_min, ack_max : c.ack_max,
    rtt : c.rtt, ack_profile : c.ack_profile ]

ServerCommands ==
  << Commands(Command(
       [ token |-> {None, " ", "x", " x", "test"}, users |-> BOOLEAN, lab |-> BOOLEAN,
         psk |-> {None, " ", "k", " k"}, print |-> BOOLEAN, reality_target |-> {None, "t"},
         reality_private_key |-> {None, "private", Bad} ])),
     Commands(Command(
       [ tls |-> {"ca", "own", "san", "half", None}, ws_path |-> {" ", "p", "/p"},
         print |-> BOOLEAN, proto_domain |-> {"default", "d", " "},
         reality_target |-> {None, "t"}, reality_private_key |-> {"private"},
         reality_short_ids |->
           {<<>>, <<" ">>, <<"s">>, <<"s", "u">>, <<"", "s">>, <<"s", Bad>>},
         reality_server_names |-> {<<>>, <<" ">>, <<"other", "front">>, <<"other">>} ])),
     Commands(Command(
       [ ack_min |-> {0, 5, 9}, ack_max |-> {0, 5, 9}, rtt |-> {0, 7},
         ack_profile |-> {None, "default", "balanced", "aggressive", Bad} ])) >>

\* The Argon2 caps of invite_uri.rs are 65536 KiB, 8 passes and 4 lanes.
OtherBlobs ==
  [ ver : 1..3, whole : BOOLEAN, m_kib : {0, 1, 19456, 65536, 65537},
    t_cost : {0, 1, 8, 9}, p_cost : {0, 1, 4, 5},
    pass : {"right"}, v : {1, 2},
    inner : {InviteV1, [InviteV1 EXCEPT !.socks_bind = "i"]} ]

Alone(s, l)        == [given : s, invited : {FALSE}, invite : {<<>>}, lab : l]
Invited(s, inv, l) == [given : s, invited : {TRUE}, invite : inv, lab : l]

\* Secrets and identity, without and with an invite.
SecretInputs ==
  << Alone([ server : {None, "h:1", Bad}, token : {None, " ", "x", "test"},
             psk : {None, " ", "k"}, insecure : {Unset, 1}, pin_cert_pem : {None, "own", Bad},
             proto_domain : {None, " ", "d"}, proto : {Unset, 2} ], BOOLEAN),
     Invited([ token : {None, "x", "y"}, psk : {None, " ", "k", "q"}, insecure : {Unset, 1},
               pin_cert_pem : {None, " ", "own"} ],
             [ psk : {None, "k"}, pin_cert_pem : {None, " ", "own"}, insecure : {0, 1},
               token : {"x", "test"}, proto_domain : {None, " ", "d"} ], {FALSE}),
     Invited([ reality_target : {None, " ", "t"}, reality_public_key : {None, "public", Bad},
               sni : {None, " ", "y"} ],
             [ reality_target : {None, " ", "t"}, reality_public_key : {None, " ", "public", Bad},
               reality_short_id : {None, "s", Bad}, psk : {None, "k"}, sni : {"i"} ], BOOLEAN) >>

\* Traffic shape: explicit, preset, invite.
Jitters ==
  Invited([ ws_jitter_min_ms : {Unset, 0, 3}, ws_jitter_max_ms : {Unset, 0, 6},
            ws_binary_send_jitter_ms : {Unset, 2}, stealth_profile : {None, " ", "balanced", Bad} ],
          [ ws_jitter_min_ms : {0, 4}, ws_jitter_max_ms : {0, 8},
            ws_binary_send_jitter_ms : {0, 9}, stealth_profile : {None, "default", "aggressive"} ],
          {FALSE})

Shape(sv, t, k) ==
  [ pad_mode : {None, " ", "random"}, dummy_interval_secs : {Unset, 0, 3},
    decoy_gets : {Unset, 0, 1}, idle_decoy_secs : {Unset, 0, 5}, decoy_mode : {None, "simple"},
    stealth_profile : {None, "default", "aggressive"}, max_pad : {Unset, 0},
    server : {sv}, token : {t}, psk : {k} ]

ShapeInputs ==
  << Jitters,
     Alone(Shape("h:1", "x", "k"), {FALSE}),
     Invited(Shape(None, None, None), {<<>>}, {FALSE}),
     Invited(Shape(None, None, None),
             [ pad_mode : {"buckets"}, dummy_interval_secs : {9}, decoy_gets : {1},
               idle_decoy_secs : {0}, decoy_mode : {"browser"}, stealth_profile : {"balanced"},
               udp_max_pad : {7} ], {FALSE}),
     Invited([ fingerprint : {None, " ", "safari", Bad}, tls_profile : {None, "firefox"},
               stealth_profile : {None, "balanced"}, tls_stack : {None, " ", "rustls", Bad},
               tls_fragment : {Unset, 1}, ws_parallel : {Unset, 0, 9} ],
             [ fingerprint : {None, "random", Bad}, tls_profile : {" ", "chrome70"},
               tls_stack : {"boring"}, ws_parallel : {7}, tls_fragment : {1} ], {FALSE}) >>

\* Local listeners, and profiles filled in by hand on the desktop.
LocalInputs ==
  << Invited([ socks_bind : {None, "x"}, http_proxy : {None, " ", "x"}, ws_host : {None, "y"},
               use_tcp_mux : {Unset, 0, 1}, socks_auth_user : {None, "x"},
               socks_auth_password : {None, "y"} ],
             [ socks_bind : {None, " ", "i"}, http_proxy : {None, "i"}, ws_host : {"i"},
               socks_auth_user : {None, "i"}, socks_auth_password : {None, "i"} ], {FALSE}),
     [ profile : [ server : {" ", "h:1"}, token : {" ", " x", "test"}, psk : {" ", " k"},
                   pin_cert_pem : {" ", "own"}, insecure : {0, 1}, proto_domain : {" ", "d"},
                   reality_target : {None, "t"}, reality_public_key : {None, "public"} ] ] >>

UserInputs == SecretInputs \o ShapeInputs \o LocalInputs
=============================================================================
