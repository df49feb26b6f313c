----------------------------- MODULE SystemProxy -----------------------------
(***************************************************************************)
(* The settings of the system proxy, written one at a time by proxy_win.rs *)
(* (registry values), proxy_mac.rs (networksetup, per network service) and *)
(* proxy_linux.rs (GSettings and the session environment).  Every write    *)
(* may be refused; the user may edit a setting while the VPN is connected. *)
(* A list of writes under way is a script; DesktopSession shows when the   *)
(* application starts one.                                                 *)
(*                                                                         *)
(* A setting is "biba" or "merged" when it is ours, "mine" when the user   *)
(* has edited it while connected, otherwise what the user had before.      *)
(***************************************************************************)
EXTENDS Naturals, Sequences, FiniteSets, SequencesExt

CONSTANTS Services,    \* macOS: the network services, a sequence
          MaxRefusals, \* bound on the writes the system refuses
          MaxEdits,    \* bound on the edits of the user
          Tries        \* attempts of restore_with_retry: 3

VARIABLES os,       \* "windows", "macos" or "linux"
          sys,      \* the settings
          snap,     \* the ProxyBackup
          script,   \* the writes still to be made
          stage,    \* what the script is for
          failed,   \* services, or the whole, that met a refusal in this script
          tries,    \* attempts to restore so far
          edited,   \* the settings the user has edited
          refusals, \* writes refused so far
          ignored   \* optional writes that were refused, and nobody noticed

proxyVars == <<os, sys, snap, script, stage, failed, tries, edited, refusals,
               ignored>>

WinKeys == {"enable", "server", "override", "auto", "pac"}
LinKeys == {"mode", "same", "ignore", "http", "https", "socks", "ftp", "env"}
MacKeys == {"web", "secure", "socks", "bypass"}

\* A write; a refusal of an optional one is ignored.
W(k, v)   == [key |-> k, val |-> v, opt |-> FALSE]
Opt(k, v) == [key |-> k, val |-> v, opt |-> TRUE]
\* set_value, or delete_value for a value the snapshot does not have.
SetOrDelete(k, v) == IF v = "none" THEN Opt(k, v) ELSE W(k, v)
\* InternetSetOptionW, which changes no setting of its own.
Notify == W("notify", "sent")
Flat(ss) == FoldLeft(LAMBDA a, b : a \o b, <<>>, ss)
When(c, s) == IF c THEN s ELSE <<>>

(***************************************************************************)
(* Windows                                                                 *)
(***************************************************************************)
WinApply == << W("auto", "0"), Opt("pac", "none"), W("enable", "1"),
               W("server", "biba"), W("override", "merged"), Notify >>

WriteBackup(b, manual, pac) ==
    When(manual, <<W("enable", b["enable"]), SetOrDelete("server", b["server"]),
                   SetOrDelete("override", b["override"])>>)
    \o When(pac, <<W("auto", b["auto"]), SetOrDelete("pac", b["pac"])>>)
    \o <<Notify>>

\* Only what is still ours, or equal to the snapshot.
WinRestore(cur, b) ==
    LET Same(ks) == \A k \in ks : cur[k] = b[k]
        manual   == \/ cur["enable"] = "1" /\ cur["server"] = "biba"
                    \/ Same({"enable", "server", "override"})
        pac      == \/ cur["auto"] = "0" /\ cur["pac"] = "none"
                    \/ Same({"auto", "pac"})
    IN  When(manual \/ pac, WriteBackup(b, manual, pac))

WinClean(cur) ==
    When(cur["enable"] = "1" /\ cur["server"] = "biba",
         <<W("enable", "0"), Opt("server", "none"), Notify>>)

(***************************************************************************)
(* Linux: the host, the port and the switch of a slot are one setting      *)
(***************************************************************************)
LinApply == << W("mode", "manual"), W("same", "false"), W("ignore", "merged"),
               W("http", "biba"), W("https", "biba"), W("socks", "biba"),
               W("ftp", "none"), Opt("env", "biba") >>

\* The mode is restored last, the environment as far as it goes.
LinRestore(b) ==
    << W("http", b["http"]), W("https", b["https"]), W("socks", b["socks"]),
       W("ftp", b["ftp"]), W("same", b["same"]), W("ignore", b["ignore"]),
       W("mode", b["mode"]), Opt("env", b["env"]) >>

LinClean(cur) ==
    When(cur["mode"] = "manual" /\ \E k \in {"http", "https", "socks"} : cur[k] = "biba",
         << W("mode", "none"), W("http", "none"), W("https", "none"),
            W("socks", "none"), Opt("env", "none") >>)

(***************************************************************************)
(* macOS: the settings of service s under the keys <<s, k>>.  A slot is    *)
(* set by two commands, its server (which networksetup also switches on)   *)
(* and its state.  What the commands read is taken to be readable.         *)
(***************************************************************************)
Twice(k, v) == << W(k, v), W(k, v) >>

MacApply(s) == Twice(<<s, "web">>, "biba") \o Twice(<<s, "secure">>, "biba")
               \o << W(<<s, "socks">>, "off"), W(<<s, "bypass">>, "merged") >>

\* restore_slot
RestoreSlot(k, v) == IF v = "off" THEN << W(k, v) >> ELSE Twice(k, v)

\* restore_service: a slot is ours while it shows the loopback proxy (the SOCKS
\* slot while it is off, the bypass list while it holds every required entry).
MacRestore(cur, b, s) ==
    LET Slot(k, ours) ==
            When(cur[<<s, k>>] \in {ours, b[<<s, k>>]}, RestoreSlot(<<s, k>>, b[<<s, k>>]))
    IN  Slot("web", "biba") \o Slot("secure", "biba") \o Slot("socks", "off")
        \o When(cur[<<s, "bypass">>] = "merged", << W(<<s, "bypass">>, b[<<s, "bypass">>]) >>)

\* Older versions set the SOCKS slot as well.
MacClean(cur, s) ==
    LET Off(k) == When(cur[<<s, k>>] = "biba", << W(<<s, k>>, "off") >>)
    IN  Off("web") \o Off("secure") \o Off("socks")

ForServices(ops) == Flat([i \in 1..Len(Services) |-> ops[Services[i]]])

(***************************************************************************)
(* The scripts                                                             *)
(***************************************************************************)
ApplyScript ==
    CASE os = "windows" -> WinApply [] os = "linux" -> LinApply
      [] os = "macos"   -> ForServices([s \in Range(Services) |-> MacApply(s)])

RestoreScript(cur, b) ==
    CASE os = "windows" -> WinRestore(cur, b) [] os = "linux" -> LinRestore(b)
      [] os = "macos"   -> ForServices([s \in Range(Services) |-> MacRestore(cur, b, s)])

CleanScript(cur) ==
    CASE os = "windows" -> WinClean(cur) [] os = "linux" -> LinClean(cur)
      [] os = "macos"   -> ForServices([s \in Range(Services) |-> MacClean(cur, s)])

\* Mutant: nothing is put back.
NoRollback(w) == <<>>

\* What apply_proxy does about a refusal: everything is put back; on macOS the
\* service that was refused, and the next services are tried.
RollbackScript(w) ==
    CASE os = "windows" -> WriteBackup(snap, TRUE, TRUE)
      [] os = "linux"   -> LinRestore(snap)
      [] os = "macos"   ->
           MacRestore(sys, snap, w.key[1])
           \o SelectSeq(Tail(script), LAMBDA x : x.key[1] # w.key[1])

\* The service a write belongs to; elsewhere the settings are one whole.
Part(w) == IF os = "macos" THEN w.key[1] ELSE "all"
Parts   == IF os = "macos" THEN Range(Services) ELSE {"all"}

Settings(o) ==
    CASE o = "windows" ->
           {x \in [WinKeys -> {"0", "1", "none", "corp", "own", "url"}] :
               /\ x["enable"] \in {"0", "1"} /\ x["server"] \in {"none", "corp"}
               /\ x["override"] \in {"none", "own"}
               /\ x["auto"] \in {"0", "1"} /\ x["pac"] \in {"none", "url"}}
      [] o = "linux" ->
           {[k \in LinKeys |-> CASE k = "mode" -> m [] k = "same" -> "true"
                                 [] k = "ignore" -> "own" [] OTHER -> h]
               : m \in {"none", "manual"}, h \in {"none", "corp"}}
      [] o = "macos" ->
           {[k \in Range(Services) \X MacKeys |->
                CASE k[2] = "bypass" -> d [] k[2] = "socks" -> s [] OTHER -> p]
               : d \in {"none", "own"}, s \in {"off", "corp"}, p \in {"off", "corp"}}

Init ==
    /\ os \in {"windows", "macos", "linux"}
    /\ sys \in Settings(os) /\ snap = sys
    /\ script = <<>> /\ stage = "idle" /\ failed = {}
    /\ tries = 0 /\ edited = {} /\ refusals = 0 /\ ignored = {}

Put(w) == sys' = IF w.key \in DOMAIN sys THEN [sys EXCEPT ![w.key] = w.val] ELSE sys

\* read_backup, then the first write of apply_proxy.
Apply ==
    /\ stage = "idle"
    /\ snap' = sys /\ script' = ApplyScript /\ stage' = "applying"
    /\ UNCHANGED <<os, sys, failed, tries, edited, refusals, ignored>>

Busy == stage \in {"applying", "rolling", "restoring", "cleaning"}

Write ==
    /\ Busy /\ script # <<>>
    /\ Put(Head(script)) /\ script' = Tail(script)
    /\ UNCHANGED <<os, snap, stage, failed, tries, edited, refusals, ignored>>

Refuse ==
    /\ Busy /\ script # <<>> /\ refusals < MaxRefusals
    /\ refusals' = refusals + 1
    /\ LET w == Head(script) IN
       \/ /\ w.opt
          /\ script' = Tail(script) /\ ignored' = ignored \cup {w.key}
          /\ UNCHANGED <<stage, failed>>
       \/ /\ ~w.opt /\ failed' = failed \cup {Part(w)} /\ UNCHANGED ignored
          /\ CASE stage = "applying" /\ ~(os = "macos" /\ Part(w) \in failed) ->
                    /\ script' = RollbackScript(w)
                    /\ stage' = IF os = "macos" THEN stage ELSE "rolling"
               \* On macOS the other slots go on, elsewhere the error ends it.
               [] OTHER -> /\ script' = SelectSeq(script,
                                 LAMBDA x : os = "macos" /\ x.key # w.key)
                           /\ UNCHANGED stage
    /\ UNCHANGED <<os, sys, snap, tries, edited>>

\* apply_proxy returns: on macOS one service is enough.
Applied ==
    /\ stage \in {"applying", "rolling"} /\ script = <<>>
    /\ stage' = IF failed = Parts THEN "refused" ELSE "connected"
    /\ failed' = IF failed = Parts THEN failed ELSE {}
    /\ UNCHANGED <<os, sys, snap, script, tries, edited, refusals, ignored>>

\* The user changes a setting while the VPN is connected.
Edit ==
    /\ stage = "connected" /\ Cardinality(edited) < MaxEdits
    /\ \E k \in DOMAIN sys :
          /\ k \notin edited
          /\ sys' = [sys EXCEPT ![k] = IF k = "enable" THEN "0"
                                       ELSE IF k = "auto" THEN "1" ELSE "mine"]
          /\ edited' = edited \cup {k}
    /\ UNCHANGED <<os, snap, script, stage, failed, tries, refusals, ignored>>

\* restore_with_retry: each attempt looks at the settings again.
Restore ==
    /\ stage = "connected"
    /\ stage' = "restoring" /\ tries' = 1 /\ script' = RestoreScript(sys, snap)
    /\ UNCHANGED <<os, sys, snap, failed, edited, refusals, ignored>>

Retry ==
    /\ stage = "restoring" /\ script = <<>> /\ failed # {}
    /\ failed' = {}
    /\ IF tries < Tries
         THEN /\ tries' = tries + 1 /\ script' = RestoreScript(sys, snap)
              /\ UNCHANGED stage
         ELSE /\ stage' = "cleaning" /\ script' = CleanScript(sys)
              /\ UNCHANGED tries
    /\ UNCHANGED <<os, sys, snap, edited, refusals, ignored>>

Finish ==
    /\ stage \in {"restoring", "cleaning"} /\ script = <<>>
    /\ stage = "restoring" => failed = {}
    /\ stage' = IF stage = "restoring" THEN "restored" ELSE "cleaned"
    /\ UNCHANGED <<os, sys, snap, script, failed, tries, edited, refusals, ignored>>

Next == Apply \/ Write \/ Refuse \/ Applied \/ Edit \/ Restore \/ Retry \/ Finish

Spec == Init /\ [][Next]_proxyVars

(***************************************************************************)
(* Properties                                                              *)
(***************************************************************************)
\* The traffic of the system goes to the loopback proxy.
Looped ==
    CASE os = "windows" -> sys["enable"] = "1" /\ sys["server"] = "biba"
      [] os = "linux"   -> sys["mode"] = "manual"
                           /\ \E k \in {"http", "https", "socks"} : sys[k] = "biba"
      [] os = "macos"   -> \E s \in Range(Services) :
                              "biba" \in {sys[<<s, "web">>], sys[<<s, "secure">>]}

\* Types. The settings of the system, the snapshot and the step under way.
TypeOK ==
    /\ stage \in {"idle", "applying", "rolling", "connected", "refused",
                  "restoring", "cleaning", "restored", "cleaned"}
    /\ DOMAIN sys = DOMAIN snap /\ edited \subseteq DOMAIN sys
    /\ failed \subseteq Parts /\ tries \in 0..Tries /\ refusals \in 0..MaxRefusals

\* An apply_proxy that fails after one refusal has put every setting back, at
\* whichever write it was refused.
RefusedLeavesNothing ==
    stage = "refused" /\ refusals = Cardinality(failed) => sys = snap

\* Unless the user edited them, restore puts every setting back, also on a
\* retry after an attempt that was refused halfway (on Windows only if no
\* write was refused; the session environment of Linux is best effort).
RestoredExactly ==
    stage = "restored" /\ edited = {} /\ (os = "windows" => refusals = 0)
      => \A k \in DOMAIN sys : sys[k] = snap[k] \/ k = "env"

\* A proxy the user configures while connected survives the disconnect, by
\* restore or by the residual cleanup (Windows and macOS; the exceptions of a
\* Windows user are a switch or a bypass list changed under our own server).
EditsSurvive ==
    \A k \in edited :
        \/ os = "linux"
        \/ os = "windows" /\ k \in {"override", "auto"}
        \/ sys[k] = IF k = "enable" THEN "0" ELSE "mine"

\* After the teardown the system does not send its traffic to the port of a
\* client that has gone, unless the last cleanup was refused as well, or the
\* deletion of ProxyServer was, an error that write_backup drops.
NoDeadLoopback ==
    stage \in {"restored", "cleaned"} /\ failed = {} /\ "server" \notin ignored
      => ~Looped

\* A refused apply leaves nothing behind, a restore leaves what was there
\* before or what the user chose since, and a cleaning no dead proxy.
SettingsRestored ==
    /\ TypeOK
    /\ RefusedLeavesNothing
    /\ RestoredExactly
    /\ EditsSurvive
    /\ NoDeadLoopback
=============================================================================
