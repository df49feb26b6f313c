# TLA+ models of BibaVPN

BibaVPN carries local SOCKS5 and HTTP CONNECT connections, and UDP, over a few
long-lived TLS + WebSocket links to a server that dials the targets. Around this
core are a server that hides behind a web site, a client library embedded in
mobile apps, and a desktop application that points the system proxy at the
client. This directory holds TLA+ modules for them, the TLC runs that check
them, and TLAPS proofs about the modules that the rest leans on.
`PROJECT.json` maps every definition to the lines it models.

Paths below are relative to `src/bibavpn/src/` unless they start with `apps/`;
`desktop/` is `apps/bibavpn-desktop/src-tauri/src/`.

## 1. Inventory

| Component | State | Operations | Talks to | What is hard |
| --- | --- | --- | --- | --- |
| TCP mux flow control (`tcp_mux_flow.rs`) | stream table, per stream credit, allowance, receive queue, flags; two lanes; negotiation; shutdown flags | open, dispatch of six record kinds, pumps, connect task, writer, shutdown | peer over one WebSocket, local sockets | interleaving of pumps, reader, writer and shutdown; two lanes reorder; bounded lanes |
| Session pool (`local_client.rs`, `tcp_mux.rs`) | slot, members, `ended` watch, connect lock, notifier, task registry | pick, open with retry, dial batches, publish, fill, prune, remove, stop | flow control, embedder | early deaths, stale batches, lost wakeups, stop racing a spawn |
| Server connections (`bin/server.rs`) | where each connection is, permits | ban check, permit, TLS, upgrade, handshake, first channel, dial, tunnel, release | limiter, users, replay cache, mux | silent peers, deadlines racing answers |
| Limiter (`server_limits.rs`), users (`users.rs`) | failures, windows, bans, `bans_active`; sessions per user | check, record; acquire, drop | connection tasks | stale checks, counters with several decrements, a full table |
| Handshake (`local_client.rs`, `udp_mux.rs`, `bin/server.rs`, `crypto_layer.rs`) | phase and keys at each end, budgets, nonce counters | noise, HELLO, ACK, AUTH, first channel; seal, open | each other | both ends choose the next message from their own configuration; frames that read like others |
| REALITY (`reality.rs`) | replay cache | exchange, check_and_insert | connection tasks | copies, time, capacity |
| UDP mux (`udp_mux.rs`, `local_client.rs`) | pending ids, command queue, workers, session; socket pool | forward, reclaim, reply, reconnect; lease, send, receive, recycle | one WebSocket, UDP sockets | late replies, reuse of ids and sockets, ends of associations |
| Dedicated tunnel (`ws_bridge.rs`) | queue of each end | open, two pumps, writer, drain | WebSocket, socket | half close, crossed closes, pongs through a bounded queue |
| Camouflage (`incoming.rs`, `camouflage.rs`) | per request | upgrade, files, pages, origin | server, origin | failures after a partial answer, addresses that change |
| Local proxies (`socks5.rs`, `http_connect.rs`, `local_client.rs`) | per connection | negotiate, authenticate, peek, route, relay | routing, pool | bytes read ahead, verdicts asked for repeatedly |
| Domain routing (`domain_route.rs`) | address map, bypass list | learn, look up, prune | DNS answers, proxies | expiry, sharing of addresses, cap |
| Embedder slot (`apps/bibavpn-jni`, `apps/bibavpn-ffi`) | slot, client thread, hook | start, bounded stop | client | a stop that gives up, a start that waits without the lock |
| Desktop session (`desktop/lib.rs`) | phase, owner, client, snapshot, recovery flag | connect, disconnect, watchdog, exit | client, system proxy | threads around one mutex that nobody holds across a slow step |
| System proxy (`desktop/proxy_*.rs`) | settings of the system, snapshot | apply, roll back, restore, clean | operating system | every write may be refused; the user edits meanwhile |
| Settings (`desktop/config.rs`, `lib.rs`) | memory, file, pending import | load, save, merge, import, cancel | user interface, control plane | lost updates, failed writes, secrets left out of the UI's copy |
| Android service (`BibaVpnService.kt`) | flags, two monitors, three threads, main looper | start, stop, restart, teardown, destroy | native client, system | orders nobody wrote a test for |
| Configuration (`bin/*.rs`, `start_json_config.rs`, `invite_uri.rs`, `client_policy.rs`, `desktop/config.rs`) | none | server start-up, invite, three front ends, presets | | hand-kept tables of fifty fields |
| Codecs (`protocol.rs`, `frame.rs`, DNS names, HTTP headers, dates) | none | encode, decode | | lengths and boundaries |

What makes them correct is stated by the properties of section 3; the hazards
behind them, each at its line, are in `PROJECT.json`. Hazards without a property
are listed in section 6.

## 2. Modules

One module per component. A step is what runs between two await points, lock
acquisitions or slow calls.

**Transport.** `MuxCredit` is the abstract specification of flow control: what
one direction of one negotiated stream promises. Its counters are
`Flow.send_available`, `ReceiveState.credit` and `.bytes`, the downlink's
`pending_credit`, DATA bytes and WIN increments under way, and the number of
queued records. A failing byte check of `enqueue`, `publish_credit` or
`add_credit` is the phase `fault`; `enqueue`'s third check, that fewer than
`MAX_QUEUED_RECORDS` records are queued, can refuse a peer within its credit
(section 4) and leads to `retired`, as every other end of a stream does. `MuxFlow` is a
session of two `Endpoint`s: `publish_credit` is two steps (raise, then publish),
`shutdown` is two (set `closed`, then drain); `out` and `ctl` are the lanes,
`wire` the WebSocket; bytes are numbered. It implements MuxCredit in both
directions of its first stream (`Up`, `Down`: the refinement mapping). Stream
ids are not reused, so an id stands for its epoch; lane capacities are numbers
of records. `MuxPool` has callers, the fill task, session tasks and the main
loop; a pool is named by its first session, as `Arc::ptr_eq` tells pools apart;
`pick` chooses any loadable session. `WsBridge` is the dedicated tunnel of
`--no-mux`: OPEN and its answer, both pumps, writers and readers of both ends; a
chunk in the reader's `hand` waits until the application takes it.
`UdpMux` has associations, workers, the driver with its reconnects, and the
server's tasks under their semaphore; the payload of a datagram is its name.
`UdpSockets` looks inside one server task: addresses, leases, late datagrams and
the push back into the pool.

**Set-up.** `ServerSession` is the life of connections that share permits, users
and the limiter; the limiter's variables are variables of this module and every
call is an action of `AuthRateLimiter`. `AuthWindow` adds a history of counted
failures. `Handshake` has both ends of one outer connection with configurations
chosen apart: noise, REALITY, HELLO, ACK, AUTH, first channel. A key is what it
is derived from. `Reality` is the exchange and the replay cache with time; every
frame may be delivered again on any connection, and a client puts any time into
its hello, since its clock is its own. `RecordLayer` is the nonce
counter and its compare-and-swap loop, with MaxCtr for 2^64 - 1.

**Edges.** `CamouflageFront` is the first request on a TLS connection; its client
may reset the connection at any time, after which every write to it fails, and
the server's deadline may drop the handler at any await.
`LocalProxy` is one local connection up to its relay. `DomainRoute` is the
address map and the bypass list; a name is a sequence of labels. `WireFormats`
holds the codecs as operators, each with a reference definition, over inputs
that its actions build up step by step. Its bytes are small numbers; hosts are
texts, as in the code, and a text may be one that parses as an address (several
texts may name one IPv6 address).

**Configuration.** `ClientConfig` has the functions that turn explicit settings
and an invite into options, for the three front ends; one field stands for all
that the code treats alike. `Deployment` goes from the operator's command line
over the invite to a running client.

**Applications.** `ClientSlot` (both embedder libraries), `DesktopSession`,
`SystemProxy`, `AppConfig`, `AndroidService`. DesktopSession takes the system
proxy as one value, SystemProxy looks inside it. The history variable `crossed`
of DesktopSession records which of five ways connect attempts have got in each
other's way, so that its invariants can be stated without them (section 4).

**Composition.** ServerSession instantiates AuthRateLimiter, MuxFlow is mapped to
MuxCredit, Deployment extends ClientConfig. UdpMux and UdpSockets, Handshake and
Reality, DesktopSession and SystemProxy meet at an interface that both sides
treat as a free choice of outcomes.

**Suites.** `MCMuxCredit`, `MCMuxPool`, `MCSessions`, `MCServer`, `MCClient`,
`MCOnce`, `MCApps`, `MCConnections` each put several instances side by side: the
variable `part` says which of them a behaviour is about, `v1`, `v2`, ... are its
variables, and the variables of the others keep a constant value. A property of
a suite is the component's own property under `part = ...`; a liveness property
is restated there with the component's predicates. So a suite checks exactly
what its parts would check alone; the state spaces add up and do not multiply.

A property that a run lists is often the conjunction of a component's named
claims on one subject (`StreamIsWhole`, `AccountsExact`, `SlotExact`,
`HandshakeAgrees`, ...), or of the claims of several parts of a suite
(`ConnectionsEnd`, `DatagramsOnce`, `RoutesJustified`). Each claim keeps its own
definition and comment in the component's module. `DeploymentInputs` and `ConnectionInputs` hold the inputs.

Definitions whose comment describes a fault ("Mutant: ...", "A sender that keeps
its allowance ...") are the mutated forms listed under `mutants`: every listed
property is shown to fail when its mutant replaces the real definition. The
mutant of a conjunction breaks one of its claims.

## 3. Runs

| Run | Parts and instances | Shows |
| --- | --- | --- |
| `mux_credit` | channel: window 6, 3 records; stream: one stream, window 3 with 2 records at the server and 1 at the client, 4 bytes up and 1 down, both lanes 1, no outside failure; stalled: two streams, windows 1, lanes and wire as small as they get, nobody reads the first | counters stay in the window, allowance is conserved; a stream implements the channel in both directions; FIN after the last byte; a reset only for a receive queue or a control lane that is full; the neighbour of a stalled stream is delivered and released |
| `mux_pool` | pool: 2 callers, 2 links, 2 batches, 2 retries, 3 sessions; two: two streams, budget of one window, failures at the client; routing: 4 addresses, 3 names, a map of 2, clock to 3 | slot, pool and session tasks agree, links bounded, nothing outlives the stop; memory stays in the budget; no detour without reason |
| `mux_failing` | one stream, windows 1 (client) and 2 (server), one queued record, 3 bytes up and only a FIN down, both lanes 1, wire 2, failures at both ends and a missed negotiation anywhere | delivery is a prefix and complete at a FIN, modes agree, no overrun of bytes, a reset is last, shutdown leaves nothing |
| `sessions` | limiter: 3 sources, table of 2, ban after 2, clock to 5; server: 3 connections of 2 sources, 1 permit; pool with 1 batch | bans are kept and counted, the table is bounded; everyone before the tunnel moves on; every caller finishes |
| `server` | server: 3 connections, 2 permits, 1 user with limit 1; UDP sockets pooled with several requests, and one per request with several addresses; camouflage; codecs; deployment | users and charges exact; sockets neither lost nor awaited while idle; one answer per request with the length it announces and no private origin; codecs round-trip and damage is not taken for another message; printed and minted invites fit their server, front ends agree and what was asked for protects, with the exceptions that the properties name |
| `client` | local proxies; bridge; slot with 2 callers and 3 starts; desktop with two connecting threads and a disconnecting one on Windows with an end of the process, and with the watchdog on Linux; system proxy on three systems; settings with 2 tasks, 4 commands, a failed write and a crash | one verdict, bytes in order; nothing lost at EOF; one thread; quiet means restored, refused means undone; file equals memory, secrets stay with their profile |
| `once` | UDP: 3 datagrams, 2 ids, 2 sessions, cap 2; UDP with three frames that do not open or do not decode; REALITY: 2 clients, 3 connections, cache of 1 or 2 | a datagram is sent and answered at most once and for a living association, and only frames that do not open count up to the end of a session; a nonce is admitted once, a full cache frees itself |
| `apps` | desktop with watchdog; Android scenarios (commands, failures, restarts); slot | phases settle, recovery is retried, the service comes to rest in the state last asked for, calls return |
| `connections` | handshake over all configurations with noise; record layer with 3 tasks and a counter at its end; camouflage, local proxy, bridge, UDP association, sockets pooled and not | keys agree, nonces once; every attempt, request, bridge and association ends, short of a dial that does not end and an application that stops reading |
| `auth_sliding_window`, `server_stale_check`, `desktop_resurrected` | see section 4 | **violated** |

Why the bounds are enough. A window of 1 makes every byte wait for credit, one of
3 with chunks of 2 makes the uplink split them and the downlink delay a WIN; four
bytes exceed it. Two records of one byte fill a queue of two while the window has
room for a third: both limits of `enqueue` are met. A control lane of 1
overflows. Two streams are the least
that can block each other. Two sources fill the limiter's table, the third needs
an eviction. Three sessions allow a pool, its late second link and a successor.
Two connections of one source and one of another let one ban the other while it
is queued. Three datagrams on two ids force a reuse, two sessions a late reply
of the first. A cache of one entry is full after one admission. Two connecting
threads let an attempt that was cancelled finish while another is under way (they
are interchangeable: symmetry); with one that disconnects, the watchdog and the
main thread they are the kinds of threads the desktop has. In `apps` one thread
connects: there the question is whether everybody comes to rest. Four refusals
use up the three attempts of a restore and leave one for the apply before.
Failures at both ends with bytes in both directions are out of TLC's time; both
directions run the same code, and the proofs cover them. Settings of different
parts of the
configuration are resolved independently by the code, so `DeploymentInputs`
enumerates each part by itself. Counters bounded only for TLC: `MaxTime`,
`MaxClock`, `MaxSessions`, `Sids`, `MaxConnects`, `MaxEnds`, `MaxOps`,
`MaxStarts`, `Scenarios`, `MaxNoise`.

Deadlock checking is off: every suite has parts that may stop (all data
transferred, all connections closed, the client gone). That what should go on
goes on is stated as liveness.

Fairness is weak fairness of what the runtime schedules: runnable tasks, timers
and the writer on both lanes (`tokio::select!` is random). In a suite it is the
component's own fairness, guarded by its part. Applications, peers, dials,
remote hosts, users and administrators get none. In `WsBridge` reading from the
WebSocket is fair and writing to the application is not: `BridgeEnds` excepts a
bridge whose reader waits for an application for ever, since no TCP write has a
deadline. In `LocalProxy` the handler's own steps are fair and no dial is
(`DialEnds`): `RequestRouted` says that a request is routed, not that it is
connected. `ClientSlot` has strong
fairness for a caller that waits for the mutex, since the holder always gives it
back and no caller repeats for ever. `CallersFinish` assumes that callers do not
wait for the first answer of a batch for ever, since no dial has a deadline. In
the stalled part of `mux_credit` the session's own tasks and those of the second
stream run; nothing is assumed of the first one's tasks and applications.

## 4. Where code and text disagree

Checked by a run:

1. `server_limits.rs:14` describes a sliding window. `record_failure` restarts a
   fixed window (line 186), so `max_failures` failures inside one stretch of
   `window` need not ban.
2. `bin/server.rs:790` says a banned source never occupies a permit. The check is
   made before a wait of up to five seconds and not repeated.
3. `desktop/lib.rs:836` says a recovery never resurrects the tunnel against an
   explicit disconnect. A disconnect that arrives during the watchdog's own
   teardown returns before it clears `recovery_pending`, and the watchdog
   reconnects.

Stated in a module as the definition named, refuted by TLC, and kept for the
reader; the runs check the weaker statement that does hold:

| Definition | What happens |
| --- | --- |
| `Handshake!CompatibleServed` | After REALITY the server takes the first binary frame for MUX_OPEN or HELLO, while a UDP mux client sends its noise first; `PROTOCOL.md:81` has noise before the first meaningful frame. Without noise: `CompatibleServedQuiet`. |
| `LocalProxy!NothingDropped` | A TLS peek that read past the first record loses the rest. What is sent is in order: `InOrderUnlessCut`. |
| `ClientSlot!AbortsOwnStart`, `ReadyIsServing` | The clean-up of a failed start may stop the client of another one; readiness is told before the HTTP listener is bound. |
| `UdpMux!NothingAfterAnyEnd`, `PausesBeforeReconnect` | An association that ends on a receive error does not join its workers; after Close, EOF or a failed send the driver reconnects without a pause. |
| `DesktopSession!ExitRestores` | An exit during somebody else's teardown returns at once and the proxy stays. |
| `AndroidService!StopLeavesNothing` | A restart overtaken by a stop brings the interface up on a destroyed service. |
| `Deployment!BindsHonoured` | `socks_bind` of an invite beats the address the app or the command line asked for (`start_json_config.rs:194` and `tests/public_api_regressions.rs:133` say otherwise). |

Stated as named exceptions of a property that a run checks, so that the property
says where the code departs and that it departs nowhere else:

* `enqueue` also refuses a record when `MAX_QUEUED_RECORDS` (8192) are queued
  (`tcp_mux_flow.rs:146`), with the text "mux receive window exceeded": a peer
  that keeps to its credit and sends small records to a stalled reader is reset.
  `NoFault` says when this is in reach, `ResetsHaveCause` that it and a full
  control lane are the only causes of a reset, `SafeUnderFailure` that what was
  delivered stays a prefix.
* Camouflage: HEAD answered with 400, 404 or 405 gets the whole error page
  (`FramingExact`).
* Codecs: a host that is the text of an address can arrive as a name or as an
  address and reads the same; it is sent on as an address (`Spellings`).
* Invites: one of `bibavpn-mint-invite` with `insecure=0` does not let the client
  accept a self-signed certificate, one without a short id does not pass a list
  of them, and a `--reality-server-names` without the target's own name refuses
  every client made from an invite (`InviteFits`).
* Front ends: `--psk`, `--proto-domain` and `--use-tcp-mux` beside an invite are
  ignored, so is `tls_fragment` of the start JSON; the desktop writes `reality_*`
  into the start JSON, which has no such fields, so a manual REALITY profile runs
  without it (`DifferingOptions`, `DifferingChecks`, `ExplicitWins`,
  `ProtectedAsAsked`).
* UDP: a frame that opens and does not decode sets the count of bad frames back
  before it adds to it, so such frames never end a session (`BadFramesCounted`).
* Desktop, `crossed`: `connect_cmd` (`desktop/lib.rs:2126`) lets attempts overlap.
  An attempt may begin over a tunnel that was installed since it looked (`took`),
  take its snapshot while the other's proxy is in place (`read`), leave its proxy
  to the newer one (`left`), restore the settings under the newer one or under a
  pending recovery (`restored`), and the watchdog may tear down a tunnel that was
  installed after the user ended its recovery (`torn`). Each conjunct of
  `ProxyFollowsSession` excepts only the ones that break it.

Met while translating, outside what a property states:

* Handshake: a `--no-mux` tunnel never speaks REALITY; the TCP path asks for
  REALITY by its target, the UDP path by its public key; a REALITY hello starts
  with the byte of a v3 HELLO; "empty = use sni" for the protocol domain
  (`PROTOCOL.md:318`, `invite_uri.rs`) is "default" in the code.
* REALITY: the server reads its time before it waits for HELLO, so a slow honest
  HELLO can lie in its future; the cache's time is read before its lock, hence
  `overtaken` in `AdmittedOnce`.
* UDP: with a pool, a late second answer of the same host can reach the next
  request to it (`CrossTalkSameHostOnly` is what holds).
* Bridge: a payload of the single byte 0x10 right after OPEN reads like OPEN_OK
  and is lost (constant `Lookalikes`); a ping while draining ends the
  drain; with both queues full both readers can wait to send a pong
  (`PongDeadlock`, the exception in `BridgeEnds`).
* Local proxy: a health probe split over two segments gets 400; the limit of a
  header line counts its newline.
* Routing: `now_secs` is described as monotonic and uses the system clock; a new
  answer can be skipped while an expired entry occupies a full map.
* Configuration: `--sni` does not override the REALITY target (`PROTOCOL.md:415`);
  a blank `--proto-domain` starts a
  server that refuses everyone; `--server-ack-delay-max-ms 0` with a minimum is
  swapped to 0..minimum; mint-invite does not trim the token, the server does.
* System proxy: a refused deletion of `ProxyServer` on Windows is not noticed; a
  retry after a half restore is not idempotent there; on Linux a restore
  overwrites edits. Desktop: a refused apply during a recovery on macOS, a crash
  on Linux.
* Settings: the file is not replaced atomically, a crash inside the write loads
  the default; a failed import put back replaces a newer one; the UI's full
  payload drops a profile imported since.

## 5. Proofs

Each proof module extends its component and proves, for every value of the
constants that its named assumption admits, what a run checks on one instance.
The assumptions (`WindowAssumption`, `LimiterAssumption`, `CounterAssumption`,
`PoolAssumption`, `SessionAssumption`, `SlotAssumption`, `RealityAssumption`,
`ConstantsAssumption` of MuxFlow) say that limits are natural numbers, positive where the code has them positive,
that sets of connections and sources are finite, that stream ids count from 1 (0
is the session's own), and that the values standing for "nobody" are not
somebody; the runs evaluate them. `MaxTime`, `MaxClock`,
`MaxStarts` and `MaxSessions` are arbitrary, so a behaviour of any length is
covered.

**`MuxCreditProofs`** (`TypeCorrect`, `WindowConserved`, `NeverFaults`). The
guards in `enqueue`, `publish_credit` and `add_credit` hold because allowance,
bytes in flight, bytes stored, unpublished bytes and increments in flight add up
to the window: `Conservation` is what makes `NoFault` inductive, and
`IdleIsEmpty` lets `Open` establish it. A queue at its limit is not a fault, since
it is reached within credit; that it takes a window with more bytes than the
queue may have records follows from `RecordsHoldBytes`. `IInv` is their
conjunction. The limit is the constant `MaxQueued`, any positive number.

**`AuthRateLimiterProofs`** (`LimiterTypeCorrect`, `BansActiveNeverDrifts`,
`TableNeverOverflows`, `BansAreNeverLifted`). `LInv` is the type invariant with
the exact counter and the bounded table. The lemmas before it say what pruning
and eviction keep (`PruneKeepsActiveBans`), how many bans they drop
(`PrunedCount`) and that they make room (`RoomMade`). `TypeOK` contains
`banned \subseteq tracked`, without which the counter could not be inductive.

**`ServerSessionProofs`** (`ServerInvariant`, `AccountsAlwaysExact`,
`ServerImplementsLimiter`). `AccountsExact` is that `active[u]` is the number of
connections that hold user `u`, within its limit, and that a connection is
charged at most once. Every step of a connection is to the registry one of
nothing, an acquire by a connection without a user, or a drop, and the counts
are proved once for each (`AcquireCounts`, `DropCounts`). `SInv` adds
`ChargedAtEnd`: a charge is made on the way to `closing`, which is why there is
no second one. `LimiterStep` says that every step is one critical section of
the limiter or leaves it alone; with it the server implements `AuthRateLimiter`,
and what is proved of the limiter holds of the server's limiter variables.

**`MuxPoolProofs`** (`PoolInvariant`, `PoolAlwaysExact`,
`NothingEverOutlivesStop`). The connect lock carries the argument. `LockHeld`
and `DialsHeld`: whoever dials, spawns or pushes owns it. `WaitersKnow`: it is
taken by callers that saw no pool, and rechecked. `OwnerAlone`: until its owner
has pushed there is no live session but its own. So a push never replaces a live
pool, and the sessions alive and the dials in flight stay within `Parallel`
(`LinksCounted`). `GoneIsQuiet` and `ClearedIsShut` are what the shutdown leaves
behind. `Numbered` says that ids are handed out in order, so that a new session
is a new one.

**`RecordLayerProofs`** (`NoncesAlwaysFresh`). A nonce is used when the
compare-and-swap moves the counter past it, so each used one is below its
counter (`UsedBelow`). A task that has read a value may be behind but not ahead
(`NotAhead`), and a task that failed saw the counter at its end (`FailedAtEnd`).

**`ClientSlotProofs`** (`SlotInvariant`, `SlotAlwaysExact`). The slot is touched
under the mutex (`UnderLock`); what leaves it has ended, by a join, or was told
to stop, by the detach of the iOS library (`Held`). Hence a thread that runs is
the slot's and protected, or was told to stop (`Accounted`).

**`RealityProofs`** (`RealityInvariant`, `ReplaysAlwaysRefused`). The server
reads the time before it takes the cache's lock, so a purge can run with a later
time than a check that follows. `Remembered` therefore speaks of the latest
purge: an admitted nonce that it counts as live is cached. A check that is not
older than that purge finds the nonce; one that is older sets `overtaken`, the
exception of `AdmittedOnce`. `CachedWasAdmitted` gives an injection from what a
purge keeps to the admissions of the last two windows (`KeptWereAdmitted`), so
the cache is full only under load. `AdmittedAfterAuth` and `Shown` tie an
admission to an AUTH that its client sent.

**`MuxFlowProofs`** (`FlowInvariant`, `EndsAlwaysFinal`, `DeliveryInvariant`,
`EndingInvariant`, `SafeAlwaysUnderFailure`). `MuxFlowInvariants` holds the
inductive invariants and the three kinds of step that keep them at once. A reset is last on the
wire because the writer drops what a reset stream still has queued. The exception
is the server's answer to DATA of a stream it does not know: that RST has no Flow
behind it and invalidates nothing. `ResetsAreDead` says it is harmless, every RST
under way belonging to a stream that was reset or refused or is legacy, and that
rests on the order of the client's records over both its lanes: OPEN is sent once
and first (`OpenOnce`, `OpenFirst`, where an invalidated OPEN is the hard case,
since it is dropped and what follows it must be too), nothing follows CLOSE
(`CloseLast`), and a server stream that ended in order has no DATA under way
(`EndedIsQuiet`). `FInv` is their conjunction with the values of the variables
(`Values`) and what a flow keeps by itself (`FlowsSound`). Most steps send and
open nothing: they are `Calm`, and `CalmKeeps` is proved once for all of them.
The others are a send (`SendStep`), a step of the writer (`WriteControlKeeps`,
`WriteOutputKeeps`) and the appearance of a stream (`OpenStreamKeeps`,
`DispatchOpenKeeps`).

`DeliveryInvariant`, `EndingInvariant` and `SafeAlwaysUnderFailure` (the run's
`SafeUnderFailure`) build on it. The bytes of a direction are numbered in the order the sender reads
them, and `DInv` describes what is under way by those numbers, so that no sum
over a queue has to be taken: a payload in a lane or on the wire is a `Block` of
consecutive numbers, no later than the last byte handed over (`Numbered`); while
the receiver still takes what arrives (`Awaits`), each payload begins after the
last byte it has seen or after another payload (`Gapless`) and ends before the
last byte it has room for (`Fitting`). A flow by itself is `Steady`: what it
holds is numbered on both sides, and its window is what is left of it, what is
held and what is not given back yet. The hard part is `Covered`: the sender's
allowance, with every WIN on the wire and in the receiver's control lane added
to it, stays within what the receiver has announced. The WINs are added up by a
function of partial sums (`Adds`) that a step extends or cuts at one end, which
is why no induction is needed. It is what makes `publish_credit`'s order (raise,
then publish) matter: `Announced` leaves out what is raised and not published.
`SameMode` carries the mode of the client's flow in its OPEN record to the server.
Steps that send and accept nothing are `Mild` and are dealt with at once
(`MildKeeps`); the others move one payload or one WIN of one stream from one
place to the next (`OneStream`): `DataDelivers`, `OutputDelivers`,
`ControlDelivers`, `WinDelivers`, `PayloadEnqueued`, `OpenDelivers`,
`OpenArrives`. Legacy streams are in it too: they have no `Covered`, may overrun
the window and are then reset, and still deliver a prefix.

A FIN means the stream is complete (`FinMeansComplete`, a part of
`SafeUnderFailure`). `DInv` alone does not give that: it says nothing of where a CLOSE
is. `EInv` (`Ending`, one conjunct per place the FIN can be) says that
nothing of a stream is behind its CLOSE on either queue, that what is under way
before a CLOSE reaches up to the last byte handed over, and that a flow of the
table whose `fin` is set has seen that byte; when its downlink is done it holds
nothing back. A step that accepts no payload and no FIN is `Firm` and is dealt
with at once (`FirmKeeps`); the four that move one are `SendEnds`, `OutputEnds`,
`EnqueuedEnds` and, for the FIN reaching the application, `FinEnds`. `SendEnds`
is where `DInv` is needed: the last clause of `Gapless` is what a CLOSE finds in
front of it. A stream that is reset may end short: the property is about flows
still in the table.

`TypeCorrect`, `LimiterTypeCorrect`, the theorems named `...Invariant` and the
refinement `ServerImplementsLimiter` have no run property; the others state
properties of the runs `mux_credit`, `mux_failing`, `sessions`, `server`,
`mux_pool`, `connections`, `client` and `once`.

Only model-checked:

* all liveness (fairness is out of the prover's reach);
* that MuxFlow implements MuxCredit, `StreamIsWhole` but for its part
  `FinMeansComplete`, `MemoryBounded`: they are
  about sums over the records of a lane or over streams and would need an
  induction over sequences and sets;
* what the codecs compute and what the tables of the configuration resolve to;
* the invariants of UdpMux, UdpSockets, Handshake, the camouflage, the local
  proxies, the bridge, the desktop and Android modules: no proof yet.

## 6. Not modelled

* The ciphers, X25519, HMAC and Argon2: taken as ideal. TLS ClientHello
  fingerprints (`biba`) and the timing and content of decoy traffic: data.
* Metrics export: reads only; `bans_active` is in AuthRateLimiter.
* Glue of the mobile plugins, control-plane HTTP client, user interface, logging.
* Byte budgets before authentication and of the output lane: they share their
  control with the frame and record budgets that are modelled. The users file is
  read and counted in one step.
* Hazards without a property: `next_sid` wraps after 2^32 opens
  (`tcp_mux_flow.rs:511`); a batch whose links all stall has no deadline
  (`local_client.rs:820`); a user disabled between the read of the file and the
  count is still admitted (`users.rs:92`); with 512 requests in flight and both
  directions full the UDP driver and the server can wait for each other
  (`udp_mux.rs:868`).

## 7. Plan

1. done: all modules of section 2 with their runs; the proofs of section 5;
2. proofs to come: UdpMux's `RepliesMatch`, DesktopSession's `QuietMeansRestored`;
3. the refinement of MuxCredit by MuxFlow for every window, if a formulation
   without sums over sequences is found;
4. Handshake and Reality in one instance, UdpMux over UdpSockets in one instance.
