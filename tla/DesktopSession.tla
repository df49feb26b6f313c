---------------------------- MODULE DesktopSession ----------------------------
(***************************************************************************)
(* The session of the desktop application (apps/bibavpn-desktop lib.rs):   *)
(* connect_inner and disconnect_inner run in parallel on the threads of    *)
(* the window's commands and of the tray, together with the watchdog of    *)
(* spawn_tunnel_recovery_watch and the teardown of RunEvent::Exit.  They   *)
(* share Inner behind a mutex which no thread holds across a slow step, so *)
(* one action is one critical section or one slow step.                    *)
(*                                                                         *)
(* The settings of the system proxy are one value here: the user's own     *)
(* ("users"), the loopback proxy ("biba"), or switched off by the residual *)
(* cleanup ("off").  Module SystemProxy looks inside them.                 *)
(***************************************************************************)
EXTENDS Naturals, FiniteSets

CONSTANTS Connectors,    \* threads of connect_cmd and of the tray's "on"
          Disconnectors, \* threads of disconnect_cmd and of the tray's "off"
          Watchdogs,     \* the recovery thread: at most one
          Main,          \* the main thread, which handles RunEvent::Exit
          None,          \* no snapshot of the proxy settings
          Platform,      \* "windows", "macos" or "linux"
          MaxConnects,   \* bound on the connects the user asks for
          MaxEnds     \* bound on the ends of the process

Threads == Connectors \cup Disconnectors \cup Watchdogs \cup {Main}
\* The holder of the installed tunnel, Inner::vpn.
Shared  == "vpn"

ASSUME SessionAssumption ==
    /\ Cardinality(Watchdogs) <= 1
    /\ Shared \notin Threads
    /\ Platform \in {"windows", "macos", "linux"}
    /\ MaxConnects \in Nat /\ MaxEnds \in Nat

VARIABLES
    alive,     \* the process runs
    phase,     \* Inner::phase
    owner,     \* the thread that took the last connect_token
    recovery,  \* Inner::recovery_pending
    backup,    \* Inner::proxy_backup
    client,    \* the ActiveVpn each thread holds, and Inner::vpn under Shared
    proxy,     \* the settings of the system proxy
    proc,      \* the place of each thread, with its local variables
    wanted,    \* what the user asked for last, as the lock was taken
    broken,    \* the operating system refused to restore the proxy
    crossed,   \* how connect attempts got in each other's way, see Crossings
    connects,  \* connects asked for so far
    ends    \* ends of the process so far

inner == <<phase, owner, recovery, backup>>
vars  == <<alive, inner, client, proxy, proc, wanted, broken, crossed, connects, ends>>
hist  == <<alive, wanted, broken, crossed, connects, ends>>

Proxies == {"users", "biba", "off"}
Phases  == {"Idle", "Connecting", "Connected", "Disconnecting"}
Connecting == {"enter", "begin", "snapshot", "start", "await", "apply",
               "install", "undoread", "undostop", "undorestore", "guard"}
PCs == Connecting \cup {"idle", "disc1", "restore", "stop", "disc3", "wdbegin",
                        "wdretry", "wdcheck", "wdfail", "exit"}

\* An attempt that was cancelled runs on until its client is up and undone, and
\* another one may begin meanwhile.  took: it begins over a tunnel installed since
\* it looked; read: its snapshot is of the other's proxy; left: the older one
\* leaves its proxy to the newer; restored: the older one restores the settings
\* although a newer attempt has begun since or a recovery is pending; torn: the
\* watchdog takes down a tunnel installed after the user ended the recovery it
\* was about to start.
Crossings == {"took", "read", "left", "restored", "torn"}
Crossing(c, happens) == crossed' = IF happens THEN crossed \cup {c} ELSE crossed

\* pc: where the thread is; ret: where disconnect_inner returns to; full: its
\* argument restore_system_proxy, or user_cancelled; bk: the local snapshot;
\* fd: the error of the attempt is the exhaustion of file descriptors.
AtRest == [pc |-> "idle", ret |-> "idle", full |-> FALSE, bk |-> None, fd |-> FALSE]

Init ==
    /\ alive = TRUE /\ phase = "Idle" /\ owner = None /\ recovery = FALSE
    /\ backup = None
    /\ client = [h \in Threads \cup {Shared} |-> "none"]
    /\ proxy = "users"
    /\ proc = [t \in Threads |-> AtRest]
    /\ wanted = "off" /\ broken = FALSE /\ crossed = {} /\ connects = 0 /\ ends = 0

Goto(t, pc) == proc' = [proc EXCEPT ![t].pc = pc]
Done(t)     == proc' = [proc EXCEPT ![t] = AtRest]
Return(t)   == proc' = [proc EXCEPT ![t] = [AtRest EXCEPT !.pc = proc[t].ret]]
Call(t, full, ret) ==
    proc' = [proc EXCEPT ![t].pc = "disc1", ![t].full = full, ![t].ret = ret]
At(t, pc)   == alive /\ proc[t].pc = pc

(***************************************************************************)
(* The system proxy, by platform.                                          *)
(***************************************************************************)
\* disable_if_residual_biba_proxy, disable_biba_proxies_on_services.
Residual(p) == IF p = "biba" THEN "off" ELSE p

\* restore: Linux writes the snapshot whatever it finds; Windows and macOS
\* only over the loopback proxy or over settings equal to the snapshot.
Restored(p, bk) == IF Platform = "linux" \/ p \in {"biba", bk} THEN bk ELSE p

\* restore_proxy_blocking: the snapshot; or, after three refusals or without
\* a snapshot, the residual cleanup, which may be refused too.
RestoreProxy(bk) ==
    \/ /\ proxy' = IF bk = None THEN Residual(proxy) ELSE Restored(proxy, bk)
       /\ UNCHANGED broken
    \/ bk # None /\ proxy' = Residual(proxy) /\ UNCHANGED broken
    \/ UNCHANGED proxy /\ broken' = TRUE

(***************************************************************************)
(* connect_inner                                                           *)
(***************************************************************************)
AskConnect(t) ==
    /\ t \in Connectors /\ At(t, "idle") /\ connects < MaxConnects
    /\ connects' = connects + 1
    /\ proc' = [proc EXCEPT ![t] = [AtRest EXCEPT !.pc = "enter"]]
    /\ UNCHANGED <<alive, inner, client, proxy, wanted, broken, crossed, ends>>

\* A live tunnel is disconnected first.
Enter(t) ==
    /\ At(t, "enter")
    /\ IF client[Shared] # "none" /\ phase = "Connected"
         THEN Call(t, TRUE, "begin") ELSE Goto(t, "begin")
    /\ UNCHANGED <<inner, client, proxy, hist>>

\* Refused while another attempt or a teardown runs; otherwise the phase and a
\* new token are taken, and the configuration may still be incomplete or fail
\* to be saved.
Begin(t) ==
    /\ At(t, "begin")
    /\ \/ /\ phase \in {"Connecting", "Disconnecting"}
          /\ Done(t)
          /\ UNCHANGED <<phase, owner, wanted, crossed>>
       \/ /\ phase \in {"Idle", "Connected"}
          /\ phase' = "Connecting" /\ owner' = t
          /\ \E pc \in {"snapshot", "guard"} :
                proc' = [proc EXCEPT ![t].pc = pc, ![t].bk = backup]
          /\ wanted' = IF t \in Watchdogs THEN wanted ELSE "on"
          /\ Crossing("took", phase = "Connected")
    /\ UNCHANGED <<recovery, backup, alive, client, proxy, broken, connects, ends>>

\* The saved snapshot, or a new one; reading it may fail.
Snapshot(t) ==
    /\ At(t, "snapshot")
    /\ \/ /\ proc' = [proc EXCEPT ![t].pc = "start",
                                  ![t].bk = IF @ = None THEN proxy ELSE @]
          /\ Crossing("read", proc[t].bk = None /\ proxy = "biba")
       \/ proc[t].bk = None /\ Goto(t, "guard") /\ UNCHANGED crossed
    /\ UNCHANGED <<inner, client, proxy, alive, wanted, broken, connects, ends>>

\* The ports or the start JSON are refused, or run_local_client is spawned.
Start(t) ==
    /\ At(t, "start")
    /\ \/ Goto(t, "guard") /\ UNCHANGED client
       \/ Goto(t, "await") /\ client' = [client EXCEPT ![t] = "starting"]
    /\ UNCHANGED <<inner, proxy, hist>>

\* The local listeners are bound and the tunnel is up: no other client holds
\* the ports.
Ready(t) ==
    /\ At(t, "await")
    /\ \A h \in Threads \cup {Shared} : client[h] # "ready"
    /\ Goto(t, "apply") /\ client' = [client EXCEPT ![t] = "ready"]
    /\ UNCHANGED <<inner, proxy, hist>>

\* 45 seconds passed and the client was stopped, or it ended by itself.
NotReady(t) ==
    /\ At(t, "await")
    /\ client' = [client EXCEPT ![t] = "none"]
    /\ \E fd \in BOOLEAN : proc' = [proc EXCEPT ![t].pc = "guard", ![t].fd = fd]
    /\ UNCHANGED <<inner, proxy, hist>>

Apply(t) ==
    /\ At(t, "apply")
    /\ proxy' = "biba" /\ Goto(t, "install")
    /\ UNCHANGED <<inner, client, hist>>

\* A refused apply_proxy puts back what it found; on macOS, the snapshot.
ApplyFails(t) ==
    /\ At(t, "apply")
    /\ proxy' = IF Platform = "macos" THEN Restored(proxy, proc[t].bk) ELSE proxy
    /\ client' = [client EXCEPT ![t] = "none"] /\ Goto(t, "guard")
    /\ Crossing("restored", Platform = "macos" /\ (owner # t \/ recovery))
    /\ UNCHANGED <<inner, alive, wanted, broken, connects, ends>>

\* Mutant: only the token is compared.
InstallByToken(t) == owner = t

\* can_install_connection
CanInstall(t) == phase = "Connecting" /\ owner = t

Install(t) ==
    /\ At(t, "install") /\ CanInstall(t)
    /\ backup' = proc[t].bk
    /\ client' = [client EXCEPT ![Shared] = client[t], ![t] = "none"]
    /\ phase' = "Connected" /\ recovery' = FALSE
    /\ Done(t)
    /\ UNCHANGED <<owner, proxy, hist>>

CannotInstall(t) ==
    /\ At(t, "install") /\ ~CanInstall(t) /\ Goto(t, "undoread")
    /\ UNCHANGED <<inner, client, proxy, hist>>

\* user_cancelled is read under the lock and used after it.
UndoRead(t) ==
    /\ At(t, "undoread")
    /\ proc' = [proc EXCEPT ![t].pc = "undostop", ![t].full = phase # "Connecting"]
    /\ UNCHANGED <<inner, client, proxy, hist>>

UndoStop(t) ==
    /\ At(t, "undostop")
    /\ client' = [client EXCEPT ![t] = "none"]
    /\ Goto(t, IF proc[t].full THEN "undorestore" ELSE "guard")
    /\ Crossing("left", ~proc[t].full)
    /\ UNCHANGED <<inner, proxy, alive, wanted, broken, connects, ends>>

\* Mutant: a cancelled attempt leaves its proxy behind.
UndoKeepsProxy(t) ==
    /\ At(t, "undorestore") /\ Goto(t, "guard")
    /\ UNCHANGED <<inner, client, proxy, hist>>

UndoRestore(t) ==
    /\ At(t, "undorestore") /\ RestoreProxy(proc[t].bk) /\ Goto(t, "guard")
    /\ Crossing("restored", owner # t \/ recovery)
    /\ UNCHANGED <<inner, client, alive, wanted, connects, ends>>

\* ConnectingPhaseGuard::drop, and what the watchdog makes of the error.
Guard(t) ==
    /\ At(t, "guard")
    /\ phase' = IF phase = "Connecting" THEN "Idle" ELSE phase
    /\ IF t \in Watchdogs /\ proc[t].fd
         THEN Call(t, TRUE, "wdfail") ELSE Done(t)
    /\ UNCHANGED <<owner, recovery, backup, client, proxy, hist>>

(***************************************************************************)
(* disconnect_inner                                                        *)
(***************************************************************************)
AskDisconnect(t) ==
    /\ t \in Disconnectors \cup {Main} /\ At(t, "idle")
    /\ t = Main => ends < MaxEnds
    /\ Call(t, TRUE, IF t = Main THEN "exit" ELSE "idle")
    /\ UNCHANGED <<inner, client, proxy, hist>>

\* A teardown that already runs makes this one return at once.
DiscIgnored(t) ==
    /\ At(t, "disc1") /\ phase = "Disconnecting"
    /\ Return(t)
    /\ wanted' = IF proc[t].full /\ proc[t].ret # "begin" THEN "ignored" ELSE wanted
    /\ UNCHANGED <<inner, client, proxy, alive, broken, crossed, connects, ends>>

\* Phase 1, under the lock: the phase, and what is taken out of Inner.
Disc1(t) ==
    /\ At(t, "disc1") /\ phase # "Disconnecting"
    /\ phase' = "Disconnecting"
    /\ recovery' = (recovery /\ ~proc[t].full)
    /\ backup' = IF proc[t].full THEN None ELSE backup
    /\ client' = [client EXCEPT ![t] = client[Shared], ![Shared] = "none"]
    /\ proc' = [proc EXCEPT ![t].pc = IF proc[t].full THEN "restore" ELSE "stop",
                            ![t].bk = IF proc[t].full THEN backup ELSE None]
    /\ wanted' = IF proc[t].full THEN "off" ELSE wanted
    /\ Crossing("torn", ~proc[t].full /\ ~recovery)
    /\ UNCHANGED <<owner, alive, proxy, broken, connects, ends>>

\* Phase 2, without the lock: the proxy, then the client (ActiveVpn::stop).
DiscRestore(t) ==
    /\ At(t, "restore") /\ RestoreProxy(proc[t].bk) /\ Goto(t, "stop")
    /\ UNCHANGED <<inner, client, alive, wanted, crossed, connects, ends>>

DiscStop(t) ==
    /\ At(t, "stop")
    /\ client' = [client EXCEPT ![t] = "none"] /\ Goto(t, "disc3")
    /\ UNCHANGED <<inner, proxy, hist>>

\* Phase 3, under the lock.
Disc3(t) ==
    /\ At(t, "disc3")
    /\ phase' = "Idle"
    /\ Return(t)
    /\ UNCHANGED <<owner, recovery, backup, client, proxy, hist>>

(***************************************************************************)
(* The watchdog, spawn_tunnel_recovery_watch                               *)
(***************************************************************************)
HasTunnel == phase = "Connected" /\ client[Shared] # "none"

\* A tick finds the client ended, or (after its probes) the tunnel unhealthy.
WdDead(t) ==
    /\ t \in Watchdogs /\ At(t, "idle") /\ HasTunnel /\ client[Shared] = "dead"
    /\ Goto(t, "wdbegin")
    /\ UNCHANGED <<inner, client, proxy, hist>>

WdUnhealthy(t) ==
    /\ t \in Watchdogs /\ At(t, "idle") /\ HasTunnel /\ client[Shared] # "dead"
    /\ Goto(t, "wdbegin")
    /\ UNCHANGED <<inner, client, proxy, hist>>

\* Mutant: the watchdog forgets a recovery that has failed once.
WdRetryOnlyConnected(t) ==
    /\ t \in Watchdogs /\ At(t, "idle") /\ phase = "Connected" /\ recovery
    /\ Goto(t, "wdretry")
    /\ UNCHANGED <<inner, client, proxy, hist>>

WdRetry(t) ==
    /\ t \in Watchdogs /\ At(t, "idle") /\ phase = "Idle" /\ recovery
    /\ Goto(t, "wdretry")
    /\ UNCHANGED <<inner, client, proxy, hist>>

\* should_start_watchdog_recovery, looked at again after the probes.
WdBegin(t) ==
    /\ At(t, "wdbegin")
    /\ IF HasTunnel THEN recovery' = TRUE /\ Call(t, FALSE, "wdcheck")
                    ELSE Done(t) /\ UNCHANGED recovery
    /\ UNCHANGED <<phase, owner, backup, client, proxy, hist>>

\* After the teardown, and after the pause of a retry.
WdCheck(t) ==
    /\ At(t, "wdcheck") \/ At(t, "wdretry")
    /\ IF recovery THEN Goto(t, "enter") ELSE Done(t)
    /\ UNCHANGED <<inner, client, proxy, hist>>

\* fail_fd_exhaustion_recovery, after its disconnect.
WdFail(t) ==
    /\ At(t, "wdfail") /\ recovery' = FALSE
    /\ Done(t)
    /\ UNCHANGED <<phase, owner, backup, client, proxy, hist>>

(***************************************************************************)
(* The process and its environment                                         *)
(***************************************************************************)
\* The installed client, or one about to be installed, ends by itself.
ClientDies(h) ==
    /\ alive /\ client[h] = "ready"
    /\ client' = [client EXCEPT ![h] = "dead"]
    /\ UNCHANGED <<inner, proxy, proc, hist>>

ProcessEnds ==
    /\ alive' = FALSE /\ ends' = ends + 1
    /\ phase' = "Idle" /\ owner' = None /\ recovery' = FALSE /\ backup' = None
    /\ client' = [h \in Threads \cup {Shared} |-> "none"]
    /\ proc' = [t \in Threads |-> AtRest]
    /\ UNCHANGED <<proxy, wanted, broken, crossed, connects>>

Crash == alive /\ ends < MaxEnds /\ ProcessEnds

\* The teardown of RunEvent::Exit has returned.
Exited == At(Main, "exit") /\ ProcessEnds

\* run(): only Windows clears a residual proxy in setup.
Restart ==
    /\ ~alive /\ alive' = TRUE
    /\ proxy' = IF Platform = "windows" THEN Residual(proxy) ELSE proxy
    /\ UNCHANGED <<inner, client, proc, wanted, broken, crossed, connects, ends>>

ConnectStep(t) ==
    \/ Enter(t) \/ Begin(t) \/ Snapshot(t) \/ Start(t) \/ NotReady(t)
    \/ Install(t) \/ CannotInstall(t) \/ UndoRead(t) \/ UndoStop(t)
    \/ UndoRestore(t) \/ Guard(t)

DisconnectStep(t) ==
    DiscIgnored(t) \/ Disc1(t) \/ DiscRestore(t) \/ DiscStop(t) \/ Disc3(t)

WatchdogStep(t) ==
    WdDead(t) \/ WdRetry(t) \/ WdBegin(t) \/ WdCheck(t) \/ WdFail(t)

Next ==
    \/ \E t \in Threads :
          \/ AskConnect(t) \/ AskDisconnect(t) \/ ConnectStep(t) \/ Ready(t)
          \/ Apply(t) \/ ApplyFails(t)
          \/ DisconnectStep(t) \/ WatchdogStep(t) \/ WdUnhealthy(t)
    \/ \E h \in Threads \cup {Shared} : ClientDies(h)
    \/ Crash \/ Exited \/ Restart

SafetySpec == Init /\ [][Next]_vars

\* Threads run; a start ends within its 45 seconds; apply_proxy returns.
Fairness ==
    /\ \A t \in Threads :
          /\ WF_vars(ConnectStep(t)) /\ WF_vars(Apply(t) \/ ApplyFails(t))
          /\ WF_vars(DisconnectStep(t)) /\ WF_vars(WatchdogStep(t))
    /\ WF_vars(Exited)

Spec == SafetySpec /\ Fairness

(***************************************************************************)
(* Properties                                                              *)
(***************************************************************************)
\* Types. The locked state, what every thread carries and the shared proxy setting.
TypeOK ==
    /\ alive \in BOOLEAN /\ broken \in BOOLEAN /\ recovery \in BOOLEAN
    /\ phase \in Phases /\ owner \in Threads \cup {None}
    /\ backup \in Proxies \cup {None} /\ proxy \in Proxies
    /\ client \in [Threads \cup {Shared} -> {"none", "starting", "ready", "dead"}]
    /\ proc \in [Threads -> [pc : PCs, ret : {"idle", "begin", "wdcheck", "wdfail", "exit"},
                             full : BOOLEAN, bk : Proxies \cup {None}, fd : BOOLEAN]]
    /\ wanted \in {"on", "off", "ignored"}
    /\ crossed \subseteq Crossings
    /\ connects \in 0..MaxConnects /\ ends \in 0..(MaxEnds + 1)

Quiet == alive /\ \A t \in Threads : proc[t].pc = "idle"

\* Once every connect and disconnect has returned and no recovery is pending, no
\* attempt has left its client running, and an idle session runs none at all:
\* except where an attempt took the phase from an installed tunnel and failed, and
\* there too the next disconnect ends it.  Nor has it left the loopback proxy in
\* the settings, unless the system refused to restore them or attempts crossed:
\* the user is not left without internet.
QuietMeansRestored ==
    Quiet /\ ~recovery =>
      /\ \A t \in Threads : client[t] = "none"
      /\ phase = "Idle" /\ (wanted = "off" \/ "took" \notin crossed) => client[Shared] = "none"
      /\ phase = "Idle" /\ ~broken /\ crossed \subseteq {"restored"} => proxy # "biba"

\* While the window shows a tunnel as connected, the system's traffic is sent
\* to it: only the late cleanup of an attempt that a newer one or a recovery
\* overtook can take the proxy away.
ConnectedMeansProxied == phase = "Connected" /\ "restored" \notin crossed => proxy = "biba"

\* The snapshot that will be restored is one of the user's own settings and is
\* there as long as the tunnel is: it is the loopback proxy only if the system
\* refused to give that up, or if it was read while an older attempt had its own
\* in place.
BackupIsUsers ==
    /\ backup # "biba" \/ broken \/ "read" \in crossed
    /\ phase = "Connected" \/ recovery => backup # None

\* A tunnel comes up only if the user's last request that took effect was to
\* connect: an attempt that was cancelled does not install its tunnel.
ConnectsOnlyWanted == phase # "Connected" /\ phase' = "Connected" => wanted # "off"
DisconnectIsFinal == [][ConnectsOnlyWanted]_vars

\* Comment in spawn_tunnel_recovery_watch: an explicit disconnect clears the
\* pending recovery, "never resurrect the tunnel against that decision".
DisconnectAlwaysWins == [][phase # "Connected" /\ phase' = "Connected" => wanted = "on"]_vars

\* Comment in spawn_tunnel_recovery_watch: while a recovery is pending "the
\* proxy stays applied (fail-closed) so nothing leaks around the VPN".  Only the
\* late cleanup of a cancelled attempt takes it away.
FailClosed == recovery /\ "restored" \notin crossed => proxy = "biba"

\* Comment at RunEvent::Exit: the teardown is synchronous, since the process
\* dies right after it and the system proxy must have been put back.
\* The code does not keep this, see the README, section 4.
ExitRestores == [][Exited => proxy # "biba" \/ broken]_vars

\* A connect or a teardown that runs ends, and the phase with it: no phase is
\* left behind by a thread that has gone.
PhaseSettles ==
    /\ (phase = "Connecting") ~> (phase # "Connecting")
    /\ (phase = "Disconnecting") ~> (phase # "Disconnecting")

\* A pending recovery is retried for ever: it does not end with a failed
\* attempt, only with a tunnel, a disconnect or the end of the process.
RecoveryRetried ==
    \A t \in Watchdogs : <>[]recovery => []<>(proc[t].pc = "await" \/ proc[t].pc = "guard")

\* The system proxy is ours exactly while a session needs it, a pending recovery
\* included, and what is put back is the user's own, except where attempts cross.
ProxyFollowsSession ==
    /\ TypeOK
    /\ QuietMeansRestored
    /\ ConnectedMeansProxied
    /\ BackupIsUsers
    /\ FailClosed
=============================================================================
