------------------------------- MODULE MCApps -------------------------------
(***************************************************************************)
(* The applications around the client: the desktop session with its        *)
(* recovery thread, the Android service, and the slot of the embedded      *)
(* client, each under the fairness of its threads.                         *)
(***************************************************************************)
EXTENDS DesktopSession

\* Commands of the user, restarts and failures in one life of the service.
Budget(starts, stops, restarts, fails) ==
  [starts |-> starts, stops |-> stops, restarts |-> restarts, fails |-> fails, spent |-> {}]

VARIABLES part,   \* the component that runs
          v1, v2, v3, v4, v5, v6, v7, v8, v9, v10, v11, v12, v13, v14, v15,
          v16, v17   \* its variables

Android == INSTANCE AndroidService WITH
  Scenarios <- {Budget(2, 1, 1, 1), Budget(2, 2, 0, 1), Budget(1, 1, 2, 0)},
  svc <- v1, stopReq <- v2, tdBusy <- v3, tdDone <- v4, active <- v5, allow <- v6,
  native <- v7, tun <- v8, tunLock <- v9, nativeLock <- v10, restart <- v11, pc <- v12,
  join <- v13, posts <- v14, wants <- v15, left <- v16, raced <- v17

Slot == INSTANCE ClientSlot WITH
  Callers <- {"a", "b"}, MaxStarts <- 2,
  kind <- v1, mutex <- v2, slot <- v3, thread <- v4, told <- v5, ready <- v6,
  hook <- v7, call <- v8, mine <- v9, served <- v10, blamed <- v11

-----------------------------------------------------------------------------
(***************************************************************************)
(* A behaviour is one of a single component.  The variables it does not    *)
(* need keep the value <<>>, and those of DesktopSession their first       *)
(* value.                                                                  *)
(***************************************************************************)
Unused11 == v12 = <<>> /\ v13 = <<>> /\ v14 = <<>> /\ v15 = <<>> /\ v16 = <<>> /\ v17 = <<>>
Rest11 == <<v12, v13, v14, v15, v16, v17>>
Unused0 ==
  /\ v1 = <<>> /\ v2 = <<>> /\ v3 = <<>> /\ v4 = <<>> /\ v5 = <<>> /\ v6 = <<>> /\ v7 = <<>>
  /\ v8 = <<>> /\ v9 = <<>> /\ v10 = <<>> /\ v11 = <<>> /\ Unused11
Rest0 == <<v1, v2, v3, v4, v5, v6, v7, v8, v9, v10, v11, Rest11>>

SuiteInit ==
  \/ part = "desktop" /\ Init /\ Unused0
  \/ part = "android" /\ Android!Init /\ Init
  \/ part = "slot"    /\ Slot!Init /\ Init /\ Unused11

SuiteNext ==
  \/ part = "desktop" /\ Next /\ UNCHANGED <<part, Rest0>>
  \/ part = "android" /\ Android!Next /\ UNCHANGED <<part, vars>>
  \/ part = "slot"    /\ Slot!Next /\ UNCHANGED <<part, Rest11, vars>>

suiteVars == <<part, v1, v2, v3, v4, v5, v6, v7, v8, v9, v10, v11, v12, v13, v14, v15,
               v16, v17, vars>>

\* The fairness of each component, while it runs.
SuiteFairness ==
  /\ \A t \in Threads :
       /\ WF_vars(part = "desktop" /\ ConnectStep(t))
       /\ WF_vars(part = "desktop" /\ (Apply(t) \/ ApplyFails(t)))
       /\ WF_vars(part = "desktop" /\ DisconnectStep(t))
       /\ WF_vars(part = "desktop" /\ WatchdogStep(t))
  /\ WF_vars(part = "desktop" /\ Exited)
  /\ WF_(Android!svcVars)(part = "android" /\ Android!Step /\ Android!Watch)
  /\ \A c \in {"a", "b"} : SF_(Slot!slotVars)(part = "slot" /\ Slot!CallStep(c))
  /\ \A i \in 1..2 : WF_(Slot!slotVars)(part = "slot" /\ Slot!ThreadStep(i))

SuiteSpec == SuiteInit /\ [][SuiteNext]_suiteVars /\ SuiteFairness

-----------------------------------------------------------------------------
\* When everything has come to rest, what runs is what the last command asked
\* for: no tunnel without a client, none after a stop.
RestsAsAsked == part = "android" => Android!RestsAsAsked

\* On the desktop no phase is left half way, and a recovery that is pending is
\* tried again until it succeeds or the user disconnects.
DesktopSettles == PhaseSettles /\ RecoveryRetried

\* The Android service comes to rest again and again (no two threads wait for each
\* other's lock), a queued restart is carried out or given up, and every call of an
\* embedder returns although the client thread may hang.
MobileSettles ==
  /\ []<>(part = "android" => Android!Quiet)
  /\ (part = "android" /\ Android!RestartQueued) ~> (part = "android" /\ Android!RestartDone)
  /\ \A c \in {"a", "b"} :
       (part = "slot" /\ ~Slot!Returned(c)) ~> (part = "slot" /\ Slot!Returned(c))
=============================================================================
