---------------------------- MODULE AndroidService ----------------------------
(***************************************************************************)
(* BibaVpnService.kt: the Android service that runs the native client and, *)
(* on top of it, the TUN interface with tun2socks.  The commands, the      *)
(* callbacks of the system and the posted runnables run one at a time on   *)
(* the main looper; the long work is done by three threads, each of which  *)
(* exists at most once: the bootstrap, the full restart and the teardown.  *)
(* They meet at tunLock and nativeLifecycleLock, and at a few volatile     *)
(* flags.  One service object is modelled, from onCreate to onDestroy.     *)
(***************************************************************************)
EXTENDS Naturals, Sequences

CONSTANTS None,
          Scenarios   \* the bounds on commands, events and failures

Threads == {"boot", "restart", "teardown"}

VARIABLES svc,       \* "none", "running" or "destroyed"
          stopReq,   \* stopRequested
          tdBusy,    \* teardownInProgress
          tdDone,    \* tunnelTeardownDoneBeforeDestroy
          active,    \* isTunnelActive
          allow,     \* allowScreenOnStackRestart
          native,    \* the client behind nativeStart runs
          tun,       \* the TUN interface and tun2socks are up
          tunLock, nativeLock,  \* who holds the monitor
          restart,   \* "no", "running" or "queued"
          pc,        \* where each thread is, "idle" when it does not exist
          join,      \* the bootstrap waits for the teardown it found
          posts,     \* what the main looper has to run, in order
          wants,     \* what the last command of the user asked for
          left,      \* what the scenario still allows
          raced      \* one of the races below happened (history)

svcVars == <<svc, stopReq, tdBusy, tdDone, active, allow, native, tun, tunLock,
             nativeLock, restart, pc, join, posts, wants, left, raced>>
locks == <<tunLock, nativeLock>>

Init ==
    /\ svc = "none" /\ stopReq = FALSE /\ tdBusy = FALSE /\ tdDone = FALSE
    /\ active = FALSE /\ allow = FALSE /\ native = FALSE /\ tun = FALSE
    /\ tunLock = None /\ nativeLock = None /\ restart = "no"
    /\ pc = [t \in Threads |-> "idle"] /\ join = FALSE
    /\ posts = <<>> /\ wants = "off" /\ left \in Scenarios /\ raced = FALSE

Spend(k) == left[k] > 0 /\ left' = [left EXCEPT ![k] = @ - 1, !.spent = @ \cup {k}]
Goto(t, l) == pc' = [pc EXCEPT ![t] = l]
Alive(t) == pc[t] # "idle"

(***************************************************************************)
(* The main looper                                                         *)
(***************************************************************************)
\* Commands, the end of the service and the events that passed the debounce and
\* the throttle queue up behind the runnables that were posted before them.
Post(m) == posts' = Append(posts, m)
Arrives(m, kind) ==
    /\ svc = "running" \/ (svc = "none" /\ kind = "starts")
    /\ Spend(kind) /\ Post(m)
    /\ UNCHANGED <<svc, stopReq, tdBusy, tdDone, active, allow, native, tun, locks, restart,
                   pc, join, wants>>
Runs(m) == posts # <<>> /\ Head(posts) = m /\ posts' = Tail(posts)

\* What is left in the queue of a service that is gone is not run.
Discard ==
    /\ posts # <<>> /\ svc = "destroyed" /\ Head(posts) # "torn" /\ posts' = Tail(posts)
    /\ UNCHANGED <<svc, stopReq, tdBusy, tdDone, active, allow, native, tun, locks, restart,
                   pc, join, wants, left>>

\* enqueueBootstrapWorker
Bootstrap ==
    /\ tdDone' = FALSE /\ join' = Alive("teardown") /\ Goto("boot", "wait")

\* onStartCommand with a configuration: a bootstrap that lives goes on instead.
StartCommand ==
    /\ Runs("start") /\ svc # "destroyed"
    /\ svc' = "running" /\ stopReq' = FALSE /\ wants' = "on"
    /\ IF Alive("boot") THEN UNCHANGED <<tdDone, join, pc>> ELSE Bootstrap
    /\ UNCHANGED <<tdBusy, active, allow, native, tun, locks, restart, left>>

\* requestFullStackRestart
RequestRestart ==
    IF restart = "no" THEN restart' = "running" /\ Goto("restart", "tunLock")
    ELSE restart' = "queued" /\ UNCHANGED pc

\* ACTION_ENABLE: a tunnel that is up is refreshed.
EnableCommand ==
    /\ Runs("enable") /\ svc # "destroyed"
    /\ svc' = "running" /\ stopReq' = FALSE /\ wants' = "on"
    /\ CASE Alive("boot") -> UNCHANGED <<tdDone, join, pc, restart>>
         [] ~Alive("boot") /\ active -> RequestRestart /\ UNCHANGED <<tdDone, join>>
         [] OTHER -> Bootstrap /\ UNCHANGED restart
    /\ UNCHANGED <<tdBusy, active, allow, native, tun, locks, left>>

\* enqueueTeardownWorker
Teardown ==
    IF tdBusy THEN UNCHANGED <<tdBusy, tdDone, active, pc>>
    ELSE tdBusy' = TRUE /\ tdDone' = TRUE /\ active' = FALSE /\ Goto("teardown", "tun")

\* ACTION_STOP, or onRevoke.
StopCommand ==
    /\ Runs("stop") /\ svc # "destroyed"
    /\ svc' = "running" /\ stopReq' = TRUE /\ wants' = "off" /\ Teardown
    /\ UNCHANGED <<allow, native, tun, locks, restart, join, left>>

\* An unlock (allowScreenOnStackRestart) or a change of network (a tunnel that
\* is up).
RestartEvent ==
    /\ Runs("event") /\ svc # "destroyed"
    /\ IF allow \/ active THEN RequestRestart ELSE UNCHANGED <<restart, pc>>
    /\ UNCHANGED <<svc, stopReq, tdBusy, tdDone, active, allow, native, tun, locks,
                   join, wants, left>>

\* stopSelf, and onDestroy
Destroy ==
    /\ svc' = "destroyed" /\ stopReq' = TRUE
    /\ IF tdDone THEN UNCHANGED <<tdBusy, tdDone, active, pc>> ELSE Teardown

\* The system ends the service on its own.
SystemDestroys ==
    /\ Runs("kill") /\ svc = "running" /\ Destroy /\ wants' = "off"
    /\ UNCHANGED <<allow, native, tun, locks, restart, join, left>>

\* The end of a teardown: stopServiceUnlessRestarted.
Torn ==
    /\ Runs("torn")
    /\ IF stopReq /\ svc = "running"
         THEN /\ svc' = "destroyed" /\ stopReq' = TRUE
              /\ IF tdDone THEN tdBusy' = FALSE /\ UNCHANGED <<tdDone, active, pc>>
                 ELSE /\ tdBusy' = TRUE /\ tdDone' = TRUE /\ active' = FALSE
                      /\ Goto("teardown", "tun")
         ELSE tdBusy' = FALSE /\ UNCHANGED <<svc, stopReq, tdDone, active, pc>>
    /\ UNCHANGED <<allow, native, tun, locks, restart, join, wants, left>>

\* The bootstrap failed and asked for the end of the service.
SelfStop ==
    /\ Runs("selfStop") /\ svc = "running" /\ Destroy
    /\ UNCHANGED <<allow, native, tun, locks, restart, join, wants, left>>

\* abortVpnFromWorker: tun2socks failed; it posts the work once more.
AbortPosted ==
    /\ posts # <<>> /\ Head(posts) = "abort" /\ svc = "running"
    /\ posts' = Append(Tail(posts), "abortNow")
    /\ UNCHANGED <<svc, stopReq, tdBusy, tdDone, active, allow, native, tun, locks, restart,
                   pc, join, wants, left>>
Abort ==
    /\ Runs("abortNow") /\ svc = "running" /\ stopReq' = TRUE /\ Teardown
    /\ UNCHANGED <<svc, allow, native, tun, locks, restart, join, wants, left>>

\* The restart could not start the client.
ShowDown ==
    /\ Runs("down") /\ svc = "running" /\ active' = FALSE
    /\ UNCHANGED <<svc, stopReq, tdBusy, tdDone, allow, native, tun, locks, restart,
                   pc, join, wants, left>>

(***************************************************************************)
(* startVpnTunnel, called by the bootstrap and the restart                 *)
(***************************************************************************)
\* stopTun2socksOnly
TunDown == active' = FALSE /\ allow' = FALSE /\ tun' = FALSE

TunBegin(t) ==
    /\ pc[t] = "tunUp" /\ tunLock = None
    /\ tunLock' = t /\ TunDown /\ Goto(t, "establish")
    /\ UNCHANGED <<svc, stopReq, tdBusy, tdDone, native, nativeLock, restart, join,
                   posts, wants, left>>

TunOk(t) ==
    /\ pc[t] = "establish"
    /\ tun' = TRUE /\ active' = TRUE /\ allow' = TRUE
    /\ tunLock' = None /\ Goto(t, "up")
    /\ UNCHANGED <<svc, stopReq, tdBusy, tdDone, native, nativeLock, restart, join,
                   posts, wants, left>>

\* establish fails, Engine.start throws (then the service is aborted) or does
\* not return in time; the thread takes the client down again.
TunFails(t) ==
    /\ pc[t] = "establish" /\ Spend("fails")
    /\ TunDown /\ (UNCHANGED posts \/ Post("abort"))
    /\ tunLock' = None /\ Goto(t, "undo")
    /\ UNCHANGED <<svc, stopReq, tdBusy, tdDone, native, nativeLock, restart, join, wants>>

(***************************************************************************)
(* The bootstrap                                                           *)
(***************************************************************************)
\* It waits for the teardown it found, or for twenty seconds, and looks.
BootWait ==
    /\ pc["boot"] = "wait"
    /\ \/ ~(join /\ Alive("teardown")) /\ UNCHANGED left
       \/ join /\ Alive("teardown") /\ Spend("fails")
    /\ Goto("boot", IF stopReq THEN "idle" ELSE "native")
    /\ UNCHANGED <<svc, stopReq, tdBusy, tdDone, active, allow, native, tun, locks,
                   restart, join, posts, wants>>

BootNative ==
    /\ pc["boot"] = "native" /\ nativeLock = None
    /\ nativeLock' = "boot" /\ Goto("boot", "starting")
    /\ UNCHANGED <<svc, stopReq, tdBusy, tdDone, active, allow, native, tun, tunLock,
                   restart, join, posts, wants, left>>

\* nativeStart returns: started, already running (the service is left as it is)
\* or an error.
BootStarted ==
    /\ pc["boot"] = "starting" /\ nativeLock' = None
    /\ \/ native /\ Goto("boot", "idle") /\ UNCHANGED <<native, active, posts, left>>
       \/ /\ ~native /\ native' = TRUE /\ Goto("boot", "check")
          /\ UNCHANGED <<active, posts, left>>
       \/ /\ ~native /\ Spend("fails") /\ active' = FALSE /\ Post("selfStop")
          /\ Goto("boot", "idle") /\ UNCHANGED native
    /\ UNCHANGED <<svc, stopReq, tdBusy, tdDone, allow, tun, tunLock, restart, join, wants>>

BootCheck ==
    /\ pc["boot"] = "check" /\ Goto("boot", IF stopReq THEN "undoStop" ELSE "tunUp")
    /\ UNCHANGED <<svc, stopReq, tdBusy, tdDone, active, allow, native, tun, locks,
                   restart, join, posts, wants, left>>

\* Mutant: a stop while the interface came up is not looked for.
BootUpNoCheck ==
    /\ pc["boot"] = "up" /\ Goto("boot", "idle")
    /\ UNCHANGED <<svc, stopReq, tdBusy, tdDone, active, allow, native, tun, locks,
                   restart, join, posts, wants, left>>

\* The interface is up; a stop that came meanwhile takes everything down.
BootUp ==
    /\ pc["boot"] = "up" /\ Goto("boot", IF stopReq THEN "undoTun" ELSE "idle")
    /\ UNCHANGED <<svc, stopReq, tdBusy, tdDone, active, allow, native, tun, locks,
                   restart, join, posts, wants, left>>

BootUndoTun ==
    /\ pc["boot"] = "undoTun" /\ tunLock = None
    /\ TunDown /\ Goto("boot", "undoStop")
    /\ UNCHANGED <<svc, stopReq, tdBusy, tdDone, native, locks, restart, join, posts,
                   wants, left>>

\* nativeStop; after a failure of the interface the service ends as well.
BootUndo ==
    /\ pc["boot"] \in {"undo", "undoStop"} /\ nativeLock = None
    /\ native' = FALSE /\ Goto("boot", "idle")
    /\ IF pc["boot"] = "undo" THEN active' = FALSE /\ Post("selfStop")
       ELSE UNCHANGED <<active, posts>>
    /\ UNCHANGED <<svc, stopReq, tdBusy, tdDone, allow, tun, locks, restart, join, wants, left>>

(***************************************************************************)
(* The full restart: performFullStackRestart                               *)
(***************************************************************************)
RestartTunLock ==
    /\ pc["restart"] = "tunLock" /\ tunLock = None
    /\ tunLock' = "restart" /\ Goto("restart", "nativeLock")
    /\ UNCHANGED <<svc, stopReq, tdBusy, tdDone, active, allow, native, tun, nativeLock,
                   restart, join, posts, wants, left>>

\* Both monitors are held while everything is stopped and the client started.
RestartStop ==
    /\ pc["restart"] = "nativeLock" /\ nativeLock = None
    /\ nativeLock' = "restart" /\ TunDown /\ native' = FALSE
    /\ Goto("restart", "starting")
    /\ UNCHANGED <<svc, stopReq, tdBusy, tdDone, tunLock, restart, join, posts, wants, left>>

RestartStarted ==
    /\ pc["restart"] = "starting" /\ tunLock' = None /\ nativeLock' = None
    /\ \/ native' = TRUE /\ Goto("restart", "tunUp") /\ UNCHANGED <<allow, posts, left>>
       \/ /\ Spend("fails") /\ allow' = TRUE /\ Post("down")
          /\ Goto("restart", "end") /\ UNCHANGED native
    /\ UNCHANGED <<svc, stopReq, tdBusy, tdDone, active, tun, restart, join, wants>>

RestartUp ==
    /\ pc["restart"] = "up" /\ Goto("restart", "end")
    /\ UNCHANGED <<svc, stopReq, tdBusy, tdDone, active, allow, native, tun, locks,
                   restart, join, posts, wants, left>>

RestartUndo ==
    /\ pc["restart"] = "undo" /\ nativeLock = None
    /\ active' = FALSE /\ native' = FALSE /\ allow' = TRUE /\ Goto("restart", "end")
    /\ UNCHANGED <<svc, stopReq, tdBusy, tdDone, tun, locks, restart, join, posts, wants, left>>

\* A restart that was asked for meanwhile follows, unless a stop was as well.
RestartEnd ==
    /\ pc["restart"] = "end"
    /\ IF restart = "queued" /\ ~stopReq
         THEN restart' = "running" /\ Goto("restart", "tunLock")
         ELSE restart' = "no" /\ Goto("restart", "idle")
    /\ UNCHANGED <<svc, stopReq, tdBusy, tdDone, active, allow, native, tun, locks,
                   join, posts, wants, left>>

(***************************************************************************)
(* The teardown: stopTunnelAndNative                                       *)
(***************************************************************************)
\* Mutant: the teardown holds the client's monitor around both steps, the order
\* opposite to the restart's.
NativeFirst ==
    /\ pc["teardown"] = "tun"
    /\ \/ /\ nativeLock = None /\ nativeLock' = "teardown"
          /\ UNCHANGED <<active, allow, native, tun, pc, posts>>
       \/ /\ nativeLock = "teardown" /\ tunLock = None
          /\ nativeLock' = None /\ TunDown /\ native' = FALSE
          /\ Goto("teardown", "idle") /\ Post("torn")
    /\ UNCHANGED <<svc, stopReq, tdBusy, tdDone, tunLock, restart, join, wants, left>>

TeardownTun ==
    /\ pc["teardown"] = "tun" /\ tunLock = None
    /\ TunDown /\ Goto("teardown", "native")
    /\ UNCHANGED <<svc, stopReq, tdBusy, tdDone, native, locks, restart, join, posts,
                   wants, left>>

TeardownNative ==
    /\ pc["teardown"] = "native" /\ nativeLock = None
    /\ native' = FALSE /\ Goto("teardown", "idle") /\ Post("torn")
    /\ UNCHANGED <<svc, stopReq, tdBusy, tdDone, active, allow, tun, locks, restart,
                   join, wants, left>>

Step ==
    \/ StartCommand \/ EnableCommand \/ StopCommand \/ RestartEvent \/ SystemDestroys
    \/ Torn \/ SelfStop \/ AbortPosted \/ Abort \/ ShowDown \/ Discard
    \/ \E t \in {"boot", "restart"} : TunBegin(t) \/ TunOk(t) \/ TunFails(t)
    \/ BootWait \/ BootNative \/ BootStarted \/ BootCheck \/ BootUp \/ BootUndoTun \/ BootUndo
    \/ RestartTunLock \/ RestartStop \/ RestartStarted \/ RestartUp \/ RestartUndo \/ RestartEnd
    \/ TeardownTun \/ TeardownNative

\* The races that nothing in the service orders: a restart that runs while a
\* stop was asked for or is carried out; a start that finds a stopped bootstrap alive and leaves it to
\* go on; a bootstrap that gave up waiting for the teardown; a failed bootstrap
\* whose stopSelf meets a newer start; a stop that is left to the teardown of the
\* session before the one it is for.
Races ==
    \/ restart' # "no" /\ (stopReq' \/ pc'["teardown"] # "idle")
    \/ Alive("boot") /\ stopReq /\ ~stopReq'
    \/ ~stopReq /\ stopReq' /\ tdBusy /\ ~tdDone /\ Head(posts) # "torn"
    \/ join /\ Alive("teardown") /\ pc["boot"] = "wait" /\ pc'["boot"] = "native"
    \/ (\E i \in 1..Len(posts) : posts[i] = "selfStop") /\ pc'["boot"] # "idle"
Watch == raced' = (raced \/ Races)

Next ==
    \/ /\ \/ \E m \in {"start", "enable"} : Arrives(m, "starts")
          \/ \E m \in {"stop", "kill"} : Arrives(m, "stops")
          \/ Arrives("event", "restarts")
       /\ Watch
    \/ Step /\ Watch

Quiet == posts = <<>> /\ \A t \in Threads : ~Alive(t)

Spec == Init /\ [][Next]_svcVars /\ WF_svcVars(Step /\ Watch)

(***************************************************************************)
(* Properties                                                              *)
(***************************************************************************)
\* Types. The service, the engine, the interface and the queue of main-loop work.
TypeOK ==
    /\ svc \in {"none", "running", "destroyed"} /\ restart \in {"no", "running", "queued"}
    /\ {tunLock, nativeLock} \subseteq Threads \cup {None}
    /\ (restart = "no") = ~Alive("restart")
    /\ Alive("teardown") => tdBusy
    /\ (tunLock = "boot") = (pc["boot"] = "establish")

\* Once everything has come to rest after a stop (or a revocation), neither the
\* interface nor the client is left: a bootstrap that was under way undoes what
\* it did.
StopIsFinal == Quiet /\ ~raced /\ wants = "off" => ~tun /\ ~native

\* What is shown as connected has its interface, and the interface never stays
\* up over a client that has gone.
NoDeadTunnel == Quiet /\ ~raced => (active => tun) /\ (tun => native)

\* A start that nothing failed under is served, also when the teardown of the
\* session before it is still going on.
StartIsServed ==
    Quiet /\ ~raced /\ wants = "on" /\ "fails" \notin left.spent => tun /\ native /\ active

\* A service that the system destroyed leaves nothing behind.
DestroyedIsClean == Quiet /\ ~raced /\ svc = "destroyed" => ~tun /\ ~native

\* What onDestroy's comment promises, restarts included: nothing comes up after a stop.
\* The code does not keep this, see the README, section 4.
StopLeavesNothing == Quiet /\ wants = "off" => ~tun /\ ~native

\* The main looper and the threads come to rest, whatever they hold and wait for.
ComesToRest == []<>Quiet

RestartQueued == restart = "queued"
RestartDone == restart = "running" \/ stopReq

\* A restart that was asked for is made, or a stop came.
RestartServed == RestartQueued ~> RestartDone

\* When everything has come to rest, what runs is what the last command asked
\* for: no tunnel without a client, none after a stop.
RestsAsAsked ==
    /\ TypeOK
    /\ StopIsFinal
    /\ NoDeadTunnel
    /\ StartIsServed
    /\ DestroyedIsClean
=============================================================================
