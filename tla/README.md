# A verification model of MSN-GUARD

MSN-GUARD is an Android VPN client. A Kotlin `VpnService` (`src/app`) drives a
Rust core, "Aether" (`src/core/aether`), through a C interface; the core builds
MASQUE, WireGuard or stacked WARP tunnels over the device's TUN, with a modified
`quiche` as its QUIC library; a Go client (`src/anytls`) multiplexes connections
over AnyTLS sessions. This directory holds TLA+ models of the parts whose
correctness depends on the order in which things happen, TLC configurations that
check them, and TLAPS proofs of the safety properties that matter most.

`PROJECT.json` is the machine-readable index: which source lines every
definition stands for, which run checks what, the hazards, the divergences from
the code's own comments, the theorems.

## Inventory

| Component | State it keeps | Operations | What is hard | Correct when | Module |
|---|---|---|---|---|---|
| C interface of the core (`ffi.rs`) | `RUNNING`, `READY`, `STOP_REQUESTED`, a `Notify` | start, stop, is_running, is_ready, mark_ready | any Java thread at any time; atomics written in several stores; a `Notify` that stores no permit; events from a runtime thread | one session at a time, no stop lost, nothing announced by a finished session | `NativeCore` |
| Tunnel service (`MsnGuardVpnService.kt`), native sessions | `connected`, `stopRequested`, `userInitiatedStop`, `reconnectRequested`, `killSwitchSealed`, `sessionGeneration`, the TUN, three timers | connect, disconnect, reconnect, reset, revoke, destroy, watchdog, auto-reconnect, connectivity callback | four threads; a worker blocked in the core whose `finally` runs late; flags read in one thread and acted on in another | a drop comes back, an off stays off, a seal stays sealed, nothing is left claimed | `TunnelService` |
| MASQUE connect (`run_masque`, `masque_h2.rs`) | the HTTP/2 fallback flag (process-wide), refusal count, last good and quick peer | two dialling passes, certificate renewal, scan, tunnel, pinned endpoint | a static that outlives sessions; counts carried over passes; a changing network | HTTP/3 is used again when it works; the certificate is replaced when refused, and only then | `MasqueConnect` |
| WireGuard (`run_wireguard`, `wireguard.rs`) | last good endpoint, its failures, cooldowns, the process-wide size hint | verify, scan, validate, tunnel | counts carried over turns; a static written by every probe; replies to earlier probes | a bad endpoint rests, the clamp is one that crossed, service returns | `WireGuardConnect`, `DataPlane` |
| WARP-in-WARP, MASQUE-in-MASQUE (`main.rs`) | two tunnels, a forwarder, three tasks, remembered edges | establish both, select, settle, rescan | teardown of three task handles; which hop is charged with a failure | no handle awaited twice, no forwarder left pumping without its stack, a bad outer edge is given up | `StackedTunnels` |
| QUIC streams (`quiche`) | send and receive buffers, limits, the flushable queue, packets in flight | send, recv, shutdown, acknowledge, lose, collect | loss, reordering, losses that were none; buffers split and cut | the bytes arrive once and in order; honest ends never accuse each other; nothing is stuck | `QuicStream`, `ByteStream` |
| User-space stack (`netstack.rs`) | TCP entries, channels to the relays, pending bytes | open, send, close, service | full channels; callers that leave; batches that hold a whole exchange | nothing lost, every open answered, every orphan freed | `Netstack` |
| AnyTLS client (`src/anytls`, Go) | sessions, streams, an idle pool | open, receive, close, pool | three goroutines per session, close hooks | a session has one user, a dead session leaves no stream | `AnyTls` |
| MASQUE tunnels (`quic.rs`, `masque_h2.rs`) | a QUIC or HTTP/2 connection | connect, relay, close | packet timing | up only with a proven data plane | - |
| Gateway cache and prober | a JSON file, in-flight probes | read, add, top up | read-modify-write from two tasks, a shared temporary file, a process that dies | updates are atomic and forget only the slowest | `GatewayCache` |
| Account provisioning | identity files | register, enrol, renew | partial failure between API and disk | an identity in use is the one on disk | - |
| SOCKS and HTTP front, TUN bridge, routing | per-connection state | relay | data | - | - |
| Smart DNS | resolver list | resolve, rewrite | data | - | - |
| JNI bridge (`aether_jni.cpp`) | global reference, a mutex | attach, detach, on_event | a callback under the mutex | the callback never re-enters it | - |
| Psiphon, Tor, SHARD, chain (Kotlin) | external processes, ladders | start, rotate, escalate | late callbacks without identity | an old process never ends a new session | - |
| Exit-country rotation | a budget, a pin | verdict, quick reconnect | a late verdict on another executor | bounded rotations | - |
| User interface, tile, settings | preferences | - | - | - | - |

The service calls `NativeCore.start` on its worker thread, which blocks for the
whole session; `NativeCore.stop` may come from any thread; the core calls back
with events from its runtime threads. Inside `NativeCore.start` runs one of
`run_masque`, `run_wireguard`, `run_gool` and `run_mim`; their tunnels carry the
packets of the TUN bridge or of the user-space stack, whose connections belong to
the relays of `socks.rs`. MASQUE tunnels are QUIC connections; everything they say
outside datagrams (the CONNECT-IP request and its capsules) travels on streams.

## Modules

| Module | What it is |
|---|---|
| `TunnelSlot` | What the C interface promises: one tunnel slot, taken, announced and given back. |
| `NativeCore` | `ffi.rs`: every access to its atomics is an action. A session is a thread inside `aether_start_json_inner`. |
| `TunnelSlotRefinement` | The refinement mapping from `NativeCore` to `TunnelSlot`. |
| `TunnelService` | The service during native sessions: main thread, scheduler thread, worker and core. |
| `MasqueConnect` | `run_masque`: passes, renewals, scans, the loop around the tunnel, and `H2_FALLBACK`. |
| `DataPlane` | The validation of one WireGuard tunnel: handshake, small probes, size ladder. |
| `WireGuardConnect` | `run_wireguard` around it: pin, assigned and cached endpoint, scan, failures, cooldowns. |
| `StackedTunnels` | `run_gool` and `run_mim`: two hops, a forwarder, the end of three tasks, what is remembered between sessions. |
| `ByteStream` | What a QUIC stream promises: bytes delivered in order, an end or a reset. |
| `QuicStream` | One stream of `quiche` from writer to reader over a faulty network; implements `ByteStream`. |
| `GatewayCache` | The file of known gateways, every file operation of an update a step, under sessions and their background top-ups. |
| `Netstack` | The TCP half of `netstack.rs`, with its relays and its peers. |
| `AnyTls` | The session layer of the AnyTLS client. |
| `NativeCoreProofs`, `MasqueConnectProofs`, `StackedTunnelsProofs`, `AnyTlsProofs`, `WireGuardConnectProofs`, `TunnelServiceProofs`, `NetstackProofs`, `QuicStreamProofs` | TLAPS proofs about the module of that name. |
| `MC...` | Instances for TLC. |

### NativeCore

`pc[t]` is where thread `t` is in `aether_start_json_inner`; it owns `RUNNING`
from its `compare_exchange` to the first store of `RunningGuard::drop`
(`Owns(t)`). Rust drops locals in reverse order, so the tokio runtime goes before
the guard (`DropRuntime`, then `ReleaseRunning`, `ReleaseReady`). `waiter` and
`notified` model `wait_for_stop`: the `Notified` future exists from
`CreateNotified` on, and `notify_waiters` wakes only futures that exist. What
`crate::start` does is left open: it may report `connected` any number of times
and end at any moment.

### TunnelService

`pc["main"]` and `pc["sched"]` are the main thread and the single thread of
`ladderScheduler`; `worker` is the runnable given to the single-thread executor,
with the `finally` block as five steps (`CloseTun`, `ReleaseConnected`,
`CheckNewer`, `ConsumeLatch`, `Decide`), since each reads or writes something
other threads use. `stopTunnel` is two steps, the flag and `NativeCore.stop`,
because the worker reads the flag in between. `core` is what the service sees of
`NativeCore`: in particular the window between `RUNNING` and the reset of
`STOP_REQUESTED`, where a stop is erased, and the time before `RUNNING`, where a
stop does nothing. `ACTION_RESET_IDENTITIES` and `onRevoke` write the same fields
as `ACTION_DISCONNECT` and are that action.

### MasqueConnect

`pc` is the point in `run_masque`: the four passes (HTTP/3, HTTP/3 with a renewed
certificate, HTTP/2, HTTP/2 renewed), the loop, the scan (`hunt`) with its
HTTP/2 anycast check, and the tunnel. `net` is the environment: the transports
over which some gateway accepts at the moment; it changes freely. A refusal can
come at any dial. `SessionDropped` is the `select!` of `ffi.rs` dropping the
future wherever it waits; the static `fallback` survives it, and only
`set_preferred` at the next start resets it. `refusals` and `renewals` are history
variables read by properties only.

### DataPlane and WireGuardConnect

`DataPlane` is `verify_dataplane` on the session that will carry the traffic:
`stage`, `successes` and `rung` are its locals, `hint` is the static
`INNER_MTU_HINT`. Sizes are numbered from the smallest rung. A reply to any large
probe sent so far may come at any time, because all carry one id; the code takes
it for the rung it is on (`LargeReply`). `proven` is history: the largest size this
validation saw cross.

`WireGuardConnect` extends it with `run_wireguard`: `pc` is the place in its loop,
`cand` the profile tried, `quick`, `lastGood`, `fails` and `cooling` its locals
(`endpoint_cooldowns` without the times: a cooldown may end at any turn). The other
verifications (`verify_endpoint` on a throwaway session, the probes of a scan) are
one step that passes or fails; a passing one that checks the data plane may leave
any size in the hint. `TunnelOver` is common to a validation that fails and a
tunnel that ends: both count as a failure of the endpoint.

### StackedTunnels

One module for both nested sessions, chosen once by `options.protocol`: they share
their shape (outer tunnel, forwarder, inner tunnel, `select!` over three tasks,
settle) and differ in what they remember. `TaskResolves` is `select!` taking the
result of the task that ended first; `Settle` aborts and awaits handles, all three
in `run_warp_in_warp`, those of the losers in `run_masque_in_masque`. `panicked` is
where a session is whose teardown awaited a handle already taken. The edges that
answer (`net`) change freely.

What a session owns besides its handles are two locals, `held`: the handle of the
outer network stack and the `ForwarderGuard`. Every drop of one of them is a step of
its own (`Release`), and so is everything those drops cause. `DropForwarder` is the
drop by hand at `main.rs:3107`, which comes between `select!` and the settling;
`NextCandidate` drops the guard with its iteration; `DropLocal` is what the compiler
adds to every other way out (an error exit, the end of `run_masque_in_masque`, a
stop that drops the future at an await, an unwinding panic): the locals in the
reverse order of their declaration, and only then can the turn end (`TurnEnds`) or
another session begin (`StartOver`). Dropping the guard asks the forwarder's tasks
to end (`told`) and awaits nothing; they go at `ForwarderAborted`, some time later.
The task of the stack ends by itself (`NetstackEnds`) once the tunnel that feeds it
is gone or no handle of it is left.

A task told to end is followed to the end of its turn, or to the next forwarder.
The outer tunnel of a `run_warp_in_warp` that leaves by an error is detached rather
than aborted, and ends after the stack has; that it does is not followed.

### GatewayCache

A session is one of `run_mim`: `run_masque` reads the file and never writes it.
`pc[w]` is where the session or a top-up is; an update (`cache_masque_gateway`) is
read, create, write, rename. All updates share one temporary name, so a task may
find the file it is writing under another name: `fd[w]` is "temporary", "cache" once
somebody has renamed it, "gone" once that one was replaced. A file is absent, blank
(just truncated), torn (two documents over each other, or a disk that filled up) or
a whole list. An update has no await: dropping the session waits for it, only
`ProcessDies` interrupts it. A scan is one step. `alone` and `overlap` are history:
they say which updates ran without another beside them.

### ByteStream and QuicStream

`ByteStream` has four counters and the reader's last news. `QuicStream` is one
unidirectional stream: `SendBuf` and `RecvBuf`, the flushable and the
`MAX_STREAM_DATA` bookkeeping of `Connection`, `STREAM`, `RESET_STREAM`,
`STOP_SENDING` and `MAX_STREAM_DATA` frames. Bytes are their offsets. Frames sent
and not yet acknowledged or declared lost are in `out`; the network may drop them,
deliver them late or in any order, and the loss detector may be wrong
(`SpuriousLoss`: what was declared lost is acknowledged after all). `Retransmit`
splits and requeues buffers as `SendBuf::retransmit` does, `AckStream` drops them,
`Pieces` cuts what arrives against what is there as `RecvBuf::write` does. `broken`
would be set by a frame the receiver answers with a connection error.

### Netstack

`phase` and `todo` are the loop of `run`: one `select!` branch, `poll`, then
`service_tcp` connection by connection, with the relays free to act in between
(they run on other threads). `caller` is the relay, `entry` its entry in
`tcp_conns`, `sock` the state of the smoltcp socket, which is external and reduced
to its states and two buffers. Data is counted in numbered units and followed
through every buffer: the data channel, `pending`, the socket, the channel to the
relay.

### AnyTls

`pc[c]` is a goroutine in `CreateStream` and `OpenStream`, interleaved with each
session's `recvLoop` (`busy`, `finning`), its SYNACK watchdog, `Session.Close`
(`stage`), the close of a stream with its hooks (`stream`), and the idle cleanup.
A stream passes through "shut", "unlinked", "pooling" because `closeWithError`,
`streamClosed` and `dieHook` each take and release a lock of their own.

## Runs

| Run | Question | Result |
|---|---|---|
| `native_core` | The safety invariants of the core, `StopHonoured` and the refinement, in every interleaving | holds, 121 084 states |
| `tunnel_service` | Is a claim or a latch ever orphaned, does an unsealed drop come back | holds, 398 315 states |
| `masque_connect` | Fallback, refusal count, second chance, recovery of HTTP/3 | holds, 3 564 states |
| `wireguard` | Do bad endpoints rest, is the clamp one that crossed, is the session served again | holds, 149 444 states |
| `stacked_tunnels` | Teardown, rescans, who is charged with a failure, is the session served again | holds, 1 216 384 states |
| `quic_stream` | Is the byte stream implemented, do the ends agree, does data arrive | holds, 633 963 states |
| `gateway_cache` | Do updates of the file that do not overlap keep it whole and forget only the slowest | holds, 72 848 states |
| `netstack` | Is anything lost, any open unanswered, any orphan kept | holds, 41 317 states |
| `anytls` | One user per session, no stream left by a dead session | holds, 443 110 states |
| `seal_leak` | "Sealing first means the retry replaces a blocking TUN": is the TUN blocking while a retry waits | violated |
| `stays_off` | "one the user switched off must stay off" | violated |
| `handles_once` | "a handle is consumed exactly once", in WARP-in-WARP | violated |

The three violations are divergences between what the code does and what its
comments say; each is a finding in `PROJECT.json` with the quoted line and the
shape of the counterexample.

### Bounds

* `native_core`: two starters and two stoppers, each repeating for ever. Every
  race of `ffi.rs` is between a session and its successor, or between a session
  and one or two stops; a third thread adds repetition only. The safety
  properties are proved for any number.
* `tunnel_service`: `MaxSessions = 2` (an old session and its successor),
  `MaxIntents = 3` (connect, reconnect or disconnect, and one more), and
  `MaxRestarts = 1`. All four settings of kill switch and auto-reconnect. A
  thread that would claim a third session stays where it is; the liveness
  properties excuse exactly that (`BoundReached`). The safety properties are proved
  for any bounds.
* `masque_connect`: passes of up to three candidates (one more than the refusal
  limit of two) and two sessions in one process (one that can leave the fallback
  behind and one that can find it).
* `wireguard`: two endpoints (one that rests and one to move to), two profiles (a
  first and a last), two sessions in one process (the hint and the file of the
  first meet the second), a ladder of three (top, middle and floor).
* `gateway_cache`: three gateways, one of them of the other address family, a file
  of two that is warm with two, two round-trip times, one top-up: an entry can be
  replaced, be slower than the rest, and be pushed out; two updates can overlap. A
  session that would start a second top-up waits for the first.
* `stacked_tunnels`: three edges (an outer, an inner and one to move to), pins
  none or one edge, two inner tries. The dials of an edge are counted for
  WARP-in-WARP only, which is the only one with a property about them. The safety
  properties are proved for any number.
* `quic_stream`: three bytes in frames of at most two, two frames in flight, two
  faults (a loss, and one more or a wrong loss detection), a window of two that may
  double. A retransmission can then be cut otherwise than the original, be
  acknowledged in part, overlap, and meet a closed window. The safety properties and
  the refinement are proved for any lengths, number of faults and windows of two or more.
* `netstack`: one connection, three units each way, a relay channel of one and
  socket buffers of two, so each of the three places in a row can be full while the
  next is empty. Connections share nothing but the loop, which a single connection
  already sees do anything between two of its own services; `NothingLost` is proved
  for any number of connections and any sizes.
* `anytls`: two connections, two sessions of two streams, two opens, a pool whose
  cleanup keeps one. The safety properties are proved for any number.

`CHECK_DEADLOCK FALSE` is set because each system may rest: nobody has to start a
core, send an intent or open a connection, and the bounds on sessions, bytes and
opens end behaviours.

### Fairness

* `NativeCore`: the runtime polls a woken branch, drops run to their end, a
  native call in progress returns. Nothing obliges anyone to start, to stop, or a
  session to end.
* `TunnelService`: a handler begun is finished; the worker takes what is queued
  and a core that was told to stop returns (`StopHonoured` of `NativeCore`, and a
  drop of the runtime that ends); a scheduled task gets its turn on the scheduler's
  single thread, with strong fairness, because another task can occupy the thread
  in between and the executor's queue is ordered by time. Neither the user, nor the
  watchdog's verdict, nor the network, nor the death of a core is fair.
* `MasqueConnect`: every dial, renewal and scan has a timeout, and a tunnel that
  does not come up ends. Nothing is assumed of the network except in the
  hypothesis of `H3Recovers`.
* `WireGuardConnect`: every verification has a timeout, the loop goes on. A probe
  or scan that is repeated for ever against an endpoint that answers succeeds in
  the end (strong fairness: scans sample, packets get lost), and all cooldowns are
  over at some turn.
* `StackedTunnels`: only `Turn`, the loop of each session; every dial in it has a
  timeout, and dropping a local waits for nothing. That the edges stop changing is
  a hypothesis of `ServesAgain`. Nothing is assumed of a task that was told to end
  or has lost its stack: no step of the session waits for it.
* `QuicStream`: both ends keep sending and detecting losses, the reader reads; what
  the network does not drop it delivers, and drops are bounded. The writer need not
  write.
* `Netstack`: the loop turns (it wakes up four times a second while it has
  connections). Its biased `select!` takes packets first, then commands, then data:
  that packets do not starve the other two for ever is an assumption. A peer that
  is not silent answers a SYN, acknowledges, and closes after us. No relay is fair.
* `GatewayCache` states no liveness.
* `AnyTls`: the goroutines that close a stream or a session finish. The server, the
  network and the callers owe nothing.

## Proofs

`NativeCoreProofs`, for any sets `Starters` and `Stoppers`:

* `CoreInvariant` proves `CoreInv` inductive. `OneSession` alone is not enough for
  what follows it: `EmitsWhileAlive` is needed because `mark_ready` is two steps of
  a task that may outlive `block_on`, and "announced implies owning" because the
  refinement has to know that a free slot is not up.
* `CoreTypes`, `CoreOneSession`, `CoreReadyIsSomeones` and `CoreEmitsWhileAlive`
  are its conjuncts.
* `CoreImplementsSlot` is the refinement: the initial states map to a free slot
  and each step to a slot step or a stutter. It rests on `SlotAssumption`: the
  name for "nobody" is not a thread.

`MasqueConnectProofs`, for any `MaxCandidates > 0` and `MaxSessions`
(`MasqueAssumption`):

* `ConnectInvariant` proves `ConnectInv`. The properties are not inductive: the
  key addition is `CountIsExact`, that throughout the passes the count the code
  carries equals the refusals of the certificate it is presenting, also from one
  transport to the other; and `RenewalsBehind`, how many renewals can lie behind
  each pass.
* `ConnectRefusalsBounded`, `ConnectFreshStart`, `ConnectFailsOnlyRefused` and
  `ConnectTypes` follow.

`StackedTunnelsProofs`, for any set of edges, any pins and any number of inner
tries:

* `StackedInvariant`: what is held and settled at each program point, how what is
  held relates to the tasks that run, and how the count of failures relates to the
  dials of an edge since the last scan.
* `StackOutlivesForwarder` proves `ForwarderNeedsStack`: a forwarder that was not told
  to end has its stack. It is `PumpsOverStack` that is inductive (a pumping forwarder
  has its guard held, a held stack runs until its tunnel has ended), with
  `HoldsByPlace` (the guard is never held without the stack). The cases that carry
  it are `DropLocal`, where it takes that the guard is declared after the stack, and
  `Settle`, where it takes the drop at `main.rs:3107`: with that line removed the
  run finds a WARP-in-WARP teardown ending the outer tunnel, and so the stack, under
  a pumping forwarder.
* `MimTeardownIsSafe`, `GoolRescansInTime`, `InnerFailuresAreFree` and `StackedTypes`
  follow. `HandlesOnce`, which the code violates, is of course not among them.

`AnyTlsProofs`, for any number of connections, sessions and streams:

* `AnyInvariant`: every session made is in exactly one place - with a caller that
  opens on it, under a live stream, in the hands of a close hook, pooled, taken by
  the cleanup, or dead. `SessionHasOneUser`, `CloseLeavesNoStream` and `AnyTypes`
  follow from it.

`WireGuardConnectProofs`, for any set of endpoints and any number of profiles,
sessions and rungs (`WgAssumption`, `RungsAssumption`):

* `WgInvariant`. `RestsAfterTwo` speaks of how often in a row the tunnel was built to
  one endpoint; the code only has the count of `lastGood`. `RowIsCounted` relates the
  two at every program point, and says that an endpoint just given up is in
  `cooling` until another one or the end of the cooldown breaks the row.
  `QuickIsFirst` is needed because `quick` bypasses the cooldowns: it is only ever
  set before anything has failed. `SmallIsShort` bounds the replies counted.
* `WgEndpointsRest`, `WgClampCrossed` and `WgTypes` follow.

`TunnelServiceProofs`, for any settings and any number of sessions, intents and quick
reconnects waiting (`ServiceAssumption`):

* `ServiceInvariant` proves `ServiceIInv`. That `connected` belongs to somebody
  (`ConnectedIsSomeones`) depends on whether the core is up, which the worker, the
  core and whoever stops it decide together: `CoreIsTheWorkers` says that the core
  is up exactly while the worker is inside `NativeCore.start`, so there never is a
  second session and none outlives the close of the TUN. `DestroyedIsQuiet` is
  needed because a destroyed service is excused from the rest: nothing may be armed
  or queued on it afterwards. `RestartHasRoom` keeps the count of waiting reconnects
  in its type. The proof goes thread by thread (main, scheduler, worker, core).
* `ServiceTypeCorrect`, `ConnectedHasAnOwner`, `CoreHasOneSession` and
  `DestroyedStaysQuiet` are its conjuncts.

`NetstackProofs`, for any set of connections, number of units and positive
capacities (`NetAssumption`):

* `NetInvariant` proves `NetIInv`. `NothingLost` speaks of the two ends; what is
  inductive is that the places in between (channel, pending queue, socket buffer on
  the way up, socket and channel on the way down) hold runs of consecutive units
  that lie end to end: `UpInOrder`, `DownInOrder`. `NotYetOpen` and
  `RelayIsAnswered` rule out that a command or an open in progress meets data
  already moved, `OnlyLiveServiced` that an entry is serviced after its removal. The
  lemmas about `Units` (what appending to, cutting and joining runs gives) carry the
  rest.
* `NetTypeCorrect` (with the capacities: the type of a buffer bounds its length),
  `NetLosesNothing` and `ServicesTheTable` follow.

`QuicStreamProofs`, for a stream of any length, frames of any length, any number in
flight, any number of faults, and windows of two bytes or more (`QuicAssumption`: a
window of one byte is never renewed, see below):

* `QuicInvariant` proves `QuicIInv`. `HonestPeersAgree` is a statement about frames
  that may have been sent long ago: `FramesOK` says that no frame on the network, and
  none that may be retransmitted or acknowledged, claims more than the sender still
  holds to (all of them name the same final offset). `SendBufOK` and `RecvBufOK` tie
  the buffers together: the receiver knows no more than was sent, and a known end
  means that everything was sent once. `ReceiptsOK` says that what the sender takes
  for received was received; without it the end of a retransmission would leave
  holes. `CreditOK` follows the flow-control limit from the receiver to the sender:
  a limit not yet in force is due or on its way, and one is due as soon as half of
  the window is used.
* `QuicTypeCorrect`, `PeersAgree` (`HonestPeersAgree`), `BytesAreKept`
  (`NoByteForgotten`) and `LimitReturns` (`CreditReturns`) follow.
* `StreamImplementsBytes` is the refinement of `ByteStream`: a write is `Accept`, a
  shutdown of the writing side or the arrival of STOP_SENDING `Abandon`, a read `Hand` or
  `HandReset`, and every other step a stutter. That a read of a stream
  nobody gave up reports the end only with the last byte is where the invariant is needed: a final offset the receiver knows
  is the writer's.

Only model-checked:

* every liveness property (outside the prover's reach, as is anything with
  `ENABLED`): `StopHonoured`, `LatchSettles`, `UnsealedDropComesBack`,
  `PinnedSecondChance`, `H3Recovers`, `ServesAgain`, `DeadSessionFreesStreams`,
  `DataArrives`, `WgServesAgain`, `OpenIsAnswered`, `GoneIsFreed`;
* `LoneUpdatesAreAtomic` of `GatewayCache`: what it says of the merged list is the
  result of `SelectSeq`, a recursive function over the list, and would be an
  induction over data;
* the violated statements.

## What is not stated, and why

Some things the models show are promised by no document, or contradict one that a
run is not spent on:

* `TunnelService`. A drop with the kill switch on is sealed and never retried: the
  `finally` block takes the kill switch branch and does not reach
  `scheduleAutoReconnect`, although the comment at `MsnGuardVpnService.kt:356-358`
  wants every drop back; `UnsealedDropComesBack` states the rest. Disconnect after a
  sealed drop leaves the blocking TUN up (`:2316-2318`). It does not hold either
  that a session always has a watchdog, that `stopSelf` never runs under a newer
  session, that the service is never ended while a quick reconnect waits, or that
  at most one session is queued: a late `finally` clears `connected` before it
  compares generations, and a stale watchdog ticks during the next session's
  preparation.
* `MasqueConnect`. A rescan after a search that used HTTP/2 stays on HTTP/2
  (`main.rs:1867-1872`); after one renewal a certificate is replaced after a single
  further refusal (`:1142-1143`); the alternation of ports for a pinned endpoint
  goes on for ever (`:1903-1904` says once).
* `WireGuardConnect`. A pin that failed every profile is tested again whenever a turn
  has no last good endpoint (`main.rs:2416`), where the comment at `:2465-2467` says
  that the retry "does not re-test the dead pin forever". An endpoint on which no
  rung crosses is kept on the floor clamp (`wireguard.rs:625-636`), where the
  function's comment (`:596-598`) rejects it. A late echo of a larger probe leaves
  a smaller clamp than what crossed. A tunnel that worked for hours counts as a
  failure when it ends. With a pin the scan it falls back to runs in an empty mode
  and over IPv4 only. Without the data check the clamp is what earlier sessions
  left.
* `StackedTunnels`. `join_outcome` makes an error of every end of a task, so the arm
  of `run_mim` that remembers the inner edge never runs (`main.rs:3747-3750`), and
  only a scan clears the count of failures. The pinned fallback at `:3846-3849` is
  never reached. The comment at `:3103-3106` wants the forwarder dead before the
  stack. The guard's abort is not awaited, so a forwarder that was told to end may be
  there a moment longer than the stack; `run_masque_in_masque` keeps its guard until
  it returns (`:3659`) and ends the outer tunnel before (`:3740-3742`); and an outer
  tunnel that ends by itself takes the stack with it under any forwarder.
  `ForwarderNeedsStack` names these exceptions and states the rest. `drop(outer_stack)`
  at `:3148` is never reached: the settling before it awaits the handle `select!` took,
  which is the violated `HandlesOnce`, and the unwinding drops the stack.
* `GatewayCache`. Updates that overlap (a top-up may scan for three minutes, a session
  rescans in between) can lose an entry, or leave a torn file that counts as empty
  until the next lone update. Entries that no longer answer are never removed, and a
  full file of fast ones keeps slower gateways out. The comment at
  `main.rs:4209-4210` says that "the gateway actually in use is already written to it
  by `cache_masque_gateway` on every connect"; only `select_peer` writes it, which
  `run_masque` never calls and `run_mim` calls only without an edge to reuse.
* `QuicStream`. A stream is collected when its bytes are acknowledged, even if the
  empty frame that carries its end is not (`lib.rs:3655`): the reader may never see
  the end. A window of one byte is never renewed. A reset after a known end enqueues
  no empty buffer (`recv_buf.rs:329-330`). `Shutdown::Write` can leave the stream
  flushable and send an empty frame with the truncated end.
* `AnyTls`. A SYNACK for an earlier stream disarms the watchdog of the one waiting
  (`session.go:230`). A FIN handled between `OpenStream` and the setting of the
  close hook leaves an open session in no pool; a session that dies while its
  stream's hook runs is pooled dead, and the next connection fails on it.
* `Netstack`. A caller that gives up on `open_tcp` while a silent peer is being
  dialled (`socks.rs:792` has such a timeout) leaves the socket in SYN-SENT for
  ever, because the entry itself holds the relay's end of the channel and the answer
  channel is not looked at. What the relay has not read when the peer closes, and
  what is pending when the peer closes its half, is dropped with the entry. A peer
  that accepts and closes in one batch is reported as "connection refused".

Not modelled: exceptions inside `startTunnel` between the claim and the worker;
a rebuild of the blocking TUN that fails; proxy mode and the exit-country
rotation; Psiphon, Tor, SHARD and the chain (their ladders run external processes
whose behaviour is not in this repository); the contents of gateway lists;
UDP in the user-space stack; packets, cryptography and obfuscation; HTTP/3, paths,
congestion control and timers of `quiche`, which are arithmetic over real time or
data. The registration API and the Android framework appear as the outcomes the
code distinguishes. `src/app/src/main/cpp/badvpn` is third-party code left aside.

## Plan

What is left, in order of importance:

1. Proofs: action properties that the invariants already support, such as that a
   known final offset never changes and that a limit never shrinks (`QuicStream`);
   of the merge in `GatewayCache`, the facts that need no induction.
2. `ServiceOverCore`: `TunnelService` composed with `TunnelSlot`, in place of its
   own reduced core.
3. The scan of `prober.rs` as a module of its own, with its concurrent probes and
   its deadlines, in place of the single step of `GatewayCache`.
4. The UDP half of `Netstack`, whose entries go only when the relay says so.
5. Connection ids and paths of `quiche`, as far as a migration of a MASQUE tunnel
   depends on them.
