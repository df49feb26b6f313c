------------------------------ MODULE MCClient ------------------------------
(***************************************************************************)
(* The client on the user's machine: the local proxies, the bridge of a    *)
(* dedicated tunnel, the slot of the embedded client, and the desktop      *)
(* application with its system proxy and its configuration file.           *)
(***************************************************************************)
EXTENDS ClientSlot, Sequences, TLC

CONSTANT Users   \* threads that connect

VARIABLES part,   \* the component that runs
          v1, v2, v3, v4, v5, v6, v7, v8, v9, v10, v11, v12, v13, v14   \* the variables of the others than the slot

Offered == INSTANCE ConnectionInputs

Local == INSTANCE LocalProxy WITH
  Conns <- Offered!LocalConns, PeekMax <- 3, Scratch <- 2, MaxChanges <- 2,
  conn <- v1, list <- v2, mapped <- v3, changes <- v4, at <- v5, authed <- v6,
  sent <- v7, taken <- v8, held <- v9, out <- v10, via <- v11, replies <- v12,
  known <- v13, cut <- v14

Bridge == INSTANCE WsBridge WITH
  Size <- 2, QueueCap <- 1, WireCap <- 1, MaxNoise <- 1, Lookalikes <- {},
  wrote <- v1, fin <- v2, got <- v3, queue <- v4, wire <- v5, app <- v6, job <- v7,
  writer <- v8, up <- v9, noise <- v10, why <- v11, hand <- v12

Clicks == INSTANCE DesktopSession WITH
  Connectors <- Users, Disconnectors <- {"d"}, Watchdogs <- {}, Main <- "main",
  Platform <- "windows", MaxConnects <- 2, MaxEnds <- 1,
  alive <- v1, phase <- v2, owner <- v3, recovery <- v4, backup <- v5, client <- v6,
  proxy <- v7, proc <- v8, wanted <- v9, broken <- v10, connects <- v11, ends <- v12,
  crossed <- v13

Recovers == INSTANCE DesktopSession WITH
  Connectors <- Users, Disconnectors <- {"d"}, Watchdogs <- {"wd"},
  Main <- "main", Platform <- "linux", MaxConnects <- 2, MaxEnds <- 0,
  alive <- v1, phase <- v2, owner <- v3, recovery <- v4, backup <- v5, client <- v6,
  proxy <- v7, proc <- v8, wanted <- v9, broken <- v10, connects <- v11, ends <- v12,
  crossed <- v13

Proxy == INSTANCE SystemProxy WITH
  Services <- <<1, 2>>, MaxRefusals <- 4, MaxEdits <- 1, Tries <- 3,
  os <- v1, sys <- v2, snap <- v3, script <- v4, stage <- v5, failed <- v6, tries <- v7,
  edited <- v8, refusals <- v9, ignored <- v10

Store == INSTANCE AppConfig WITH
  Tasks <- {"t1", "t2"}, Instances <- {1, 2}, Origins <- {"o1", "o2"}, BuiltIn <- "o1",
  MaxOps <- 4, MaxFails <- 1, MaxCrashes <- 1,
  mem <- v1, disk <- v2, io <- v3, pending <- v4, task <- v5, seen <- v6, dirty <- v7,
  given <- v8, redeemed <- v9, ops <- v10, fails <- v11, crashes <- v12

-----------------------------------------------------------------------------
(***************************************************************************)
(* A behaviour is one of a single component.  The variables it does not    *)
(* need keep the value <<>>, those of ClientSlot one first value.          *)
(***************************************************************************)
Unused12 == v13 = <<>> /\ v14 = <<>>
Rest12 == <<v13, v14>>
Unused13 == v14 = <<>>
Rest13 == <<v14>>
Unused11 == v12 = <<>> /\ Unused12
Rest11 == <<v12, Rest12>>
Unused10 == v11 = <<>> /\ Unused11
Rest10 == <<v11, Rest11>>
Unused0 ==
  /\ v1 = <<>> /\ v2 = <<>> /\ v3 = <<>> /\ v4 = <<>> /\ v5 = <<>> /\ v6 = <<>> /\ v7 = <<>>
  /\ v8 = <<>> /\ v9 = <<>> /\ v10 = <<>> /\ Unused10
Rest0 == <<v1, v2, v3, v4, v5, v6, v7, v8, v9, v10, Rest10>>
NoSlot == Init /\ kind = "jni"

SuiteInit ==
  \/ part = "slot" /\ Init /\ Unused0
  \/ /\ NoSlot
     /\ \/ part = "local"    /\ Local!Init
        \/ part = "bridge"   /\ Bridge!Init /\ Unused12
        \/ part = "users"    /\ Clicks!Init /\ Unused13
        \/ part = "watchdog" /\ Recovers!Init /\ Unused13
        \/ part = "sysproxy" /\ Proxy!Init /\ Unused10
        \/ part = "store"    /\ Store!Init /\ Unused12

SuiteNext ==
  \/ part = "slot"     /\ Next /\ UNCHANGED <<part, Rest0>>
  \/ part = "local"    /\ Local!Next /\ UNCHANGED <<part, slotVars>>
  \/ part = "bridge"   /\ Bridge!Next /\ UNCHANGED <<part, Rest12, slotVars>>
  \/ part = "users"    /\ Clicks!Next /\ UNCHANGED <<part, Rest13, slotVars>>
  \/ part = "watchdog" /\ Recovers!Next /\ UNCHANGED <<part, Rest13, slotVars>>
  \/ part = "sysproxy" /\ Proxy!Next /\ UNCHANGED <<part, Rest10, slotVars>>
  \/ part = "store"    /\ Store!Next /\ UNCHANGED <<part, Rest12, slotVars>>

suiteVars == <<part, v1, v2, v3, v4, v5, v6, v7, v8, v9, v10, v11, v12, v13, v14,
               slotVars>>

SuiteSpec == SuiteInit /\ [][SuiteNext]_suiteVars

\* Connecting threads are interchangeable; only safety is checked.
Symmetry == Permutations(Users)

-----------------------------------------------------------------------------
\* A connection is told one verdict, goes where the list sends it, after
\* authentication, with its bytes in order.
RoutedAsListed == part = "local" => Local!RoutedAsListed

\* An orderly end loses nothing: what was read is delivered, once and in
\* order, before the close, and nothing after it.
BridgeExact == part = "bridge" => Bridge!BridgeExact

\* With two attempts at once and the watchdog beside them, the system proxy is ours
\* exactly while a session needs it, a pending recovery included, and what is put
\* back is the user's own: except in the five ways in which the code lets attempts
\* cross, each of which voids only what it really breaks.
ProxyFollowsSession ==
  /\ part = "users" => Clicks!ProxyFollowsSession
  /\ part = "watchdog" => Recovers!ProxyFollowsSession

\* A tunnel comes up only if the user's last request that took effect was to
\* connect: an attempt that was cancelled does not install its tunnel.
DisconnectIsFinal == [][part = "users" => Clicks!ConnectsOnlyWanted]_(Clicks!vars)

\* A refused apply leaves nothing behind, a restore leaves what was there
\* before or what the user chose since, and a cleaning no dead proxy.
SettingsRestored == part = "sysproxy" => Proxy!SettingsRestored

\* File and memory agree, a secret stays with its profile and is not lost by an
\* edit, imports do not widen the list of origins, a redeemed one is not lost.
StoreConsistent ==
  /\ [](part = "store" => Store!StoreInv)
  /\ [][part = "store" => Store!KeepsSecrets]_(Store!confVars)
=============================================================================
