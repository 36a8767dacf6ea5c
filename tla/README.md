# MihoX: specifications of the core

MihoX is a proxy client: a Flutter application (`lib/`), a Go core (`core/*.go`)
around a fork of the mihomo engine (`core/mihomo`), the Android services that own
the VPN (`android/`), and a helper service for Windows (`services/helper`). The
modules here specify the parts whose correctness depends on the order in which
requests, goroutines, callbacks and system events happen.

## The system

| Part | State it keeps | Operations | Talks to |
|---|---|---|---|
| Core run controller (`core/hub.go`, `core/common.go`) | `isRunning`, `currentConfig`, `pendingTunEnable` under `runLock`; the atomics `isInit`, `uiActive`, `screenActive`, `tunUp`; two stop channels under their own mutexes; the log subscription under `logMu` | init, start and stop of the listeners, setup and patch of the configuration, shutdown, foreground and screen signals, log on and off | listeners and providers of the engine; the UI through messages |
| Android tunnel (`core/lib_android.go`) | `tunHandler`, `runTime` under `tunLock`; per handler a listener, a JVM callback and a semaphore; the two dialer hooks | `startTUN`, `stopTun`, `getRunTime`; `handleProtect` and `handleResolveProcess` on every dial | the JVM (Binder) through JNI; `tunUp` of the controller |
| JNI bridge (`core/android_bride.go`, `android/core/.../cpp`) | the event listener, global references | `setEventListener`, `emitEvent`, one-shot callbacks, `releaseObject` | Kotlin |
| Request dispatch (`core/action.go`, `server.go`, `lib.go`) | the connection | one goroutine per request | all handlers |
| UI feed (`hub.go` 427-533) | `healthCheckSeen`, `requestSeen` | delay and request messages, de-duplicated | event listener or socket |
| Hub requests on proxies and providers (`hub.go` 535-842) | `externalProviders`, 50 test permits | select, update, side-load, delay tests | engine |
| Android VPN service (`android/service`) | `State.runLock`, `runTime`, `delegate`, `tunOwner`; wake lock | start, stop, cold start after a kill, revoke, destroy | core (JNI), StateHub |
| State feed (`StateHub.kt`, app `GlobalState.kt`) | the current snapshot and its stamp | publish, snapshot, apply | application process |
| Service modules (`SuspendModule`, `HealthCheckModule`, `NetworkObserveModule`) | screen and Doze state, failure counts | push `setScreenActive`, probe, reset connections | core |
| Dart core client (`lib/mihomo`) | the child process, `socketCompleter`, the crash budget; pending completers | spawn, accept, restart, recover; invoke with timeout | socket or Binder |
| Application controller (`lib/controller.dart`, `state.dart`) | status queue, epochs | start, stop, exit, resume | core client |
| Fake-IP pool of the engine (`component/fakeip`, `common/lru`) | two LRU caches, the counter of addresses under the pool's mutex | look up, look back, flush, reload | resolver, tunnel |
| Windows helper (`services/helper`) | the child process, a log buffer | start, stop | desktop core |

What is hard: every request runs on a goroutine of its own, so handlers
interleave at every release of a lock; a start answers before its background
work is done; the tunnel flag is shared between code under two different locks;
a call into the JVM may never return; a failed or timed-out operation leaves
resources (a descriptor, a global reference, a goroutine) with one owner or with
none; the system kills and restarts the Android service at any time; a binding call
that timed out goes on in native code; snapshots of the state are pushed and
pulled over each other; on desktop a core that ends is reported twice, while the
next one may already run; two caches that must agree evict each on its own.

What makes the parts correct: no goroutine, subscription, reference or
descriptor is lost or used after its end; what runs follows what was asked for
last, whatever the order of the requests; stops stop, and always finish;
what is announced and what is persisted is what runs; a crash or a kill is
recovered from, once; an address that was answered leads back to its host;
providers stay warm while somebody depends on them.

## Modules

| Module | Models | Lines |
|---|---|---|
| `CoreHub` | the run controller with its forwarders, listeners, desktop TUN, log subscription and signals | `hub.go` 35-533, 844-886, 1021-1044; `common.go` 223-438 |
| `MCCoreHub` | instances for TLC | |
| `CoreHubProofs` | proofs about `CoreHub` | |
| `JniRefs` | abstract: what the JVM asks of code that keeps global references | `core.cpp`, `jni_helper.h` |
| `TunHandler` | the Android tunnel: starts, stops, drains, hooks | `lib_android.go` 30-229 |
| `MCTunHandler` | instances for TLC | |
| `TunHandlerProofs` | proofs about `TunHandler`, with the refinement of `JniRefs` | |
| `UiFeed` | delays on their way to the Android UI: forwarder passes, de-duplication, the event listener and its owners, foreground signals | `hub.go` 77-108, 234-309, 365-390, 506-533; `android_bride.go` 119-187; `RemoteService.kt` 264-357; `Service.kt` 198-246; `ServicePlugin.kt` 61-147; `app_state_manager.dart` 92-143 |
| `MCUiFeed` | instances for TLC | |
| `UiFeedProofs` | proofs about `UiFeed`, with the refinement of `JniRefs` | |
| `VpnService` | the run control of the Android service process: starts, stops, commands, cold start, revocation, destruction, wake lock, kills | `RemoteService.kt` 128-260; `MihoXVpnService.kt` 59-94, 131-496; `IBaseService.kt`; `common/Service.kt` 81-146; `GlobalState.kt` 304-340; `SavedParams.kt` 33-69 |
| `MCVpnService` | instances for TLC | |
| `VpnServiceProofs` | proofs about `VpnService` | |
| `StateFeed` | snapshots of the run state on their way to the app: pushes, pulls, their application, what the app writes itself | `StateHub.kt` 55-119; app `Service.kt` 67-109; `GlobalState.kt` 82-153, 252-340; `ServicePlugin.kt` 231-252; `BootReceiver.kt` 49-58 |
| `StateFeedProofs` | proofs about `StateFeed` | |
| `DesktopCore` | the life of the desktop core: spawn, connection, restart, crash recovery | `service.dart` 52-320; `controller.dart` 95-102; `server.go` 42-77 |
| `DesktopCoreProofs` | proofs about `DesktopCore` | |
| `FakeIp` | the engine's fake-IP pool with its memory store | `pool.go` 31-188; `memory.go`; `lrucache.go` 81-257; `executor.go` 277-285 |
| `MCFakeIp` | instances for TLC | |
| `FakeIpProofs` | proofs about `FakeIp` | |

### CoreHub

A member of `Procs` is a request in flight together with the goroutine it
spawns. `pc[p]` is the place between two steps and `ret[p]` where it goes on after
the call it is in; a section under `runLock` is one step, because everything else
it touches is touched once, except where other locks are taken inside it. These
are `requestChMu` and `requestMu`, in this order, and `runLock`, `requestChMu` and
`requestMu` name their holders: `startRequestForwarder` reads the flags under
`runLock`, then waits for `requestChMu`, then for `requestMu`;
`stopRequestForwarder` does the last two, under `runLock` in `handleStopListener`
and `handleShutdown` and without it in `handleSetUiActive(false)`, and goes on to
the listeners when it is back; `forwardNewRequests` holds `requestMu` from the tick
(`requestTick`) until it has sent every new connection (`requestSent`). A stop
channel is a member of `Chans` (health) or `RequestChans`; `healthOpen` and
`requestOpen` are the channels not closed, `healthPc` and `requestAlive` the
goroutines. The id of a channel is used again once its goroutine has returned,
so the two sets bound the forwarders alive at once.

Configurations are abstracted to the mixed port and the TUN flag: the other
ports are treated alike by the code, the other settings are assigned and read
nowhere in the control flow. Opening the TUN device may fail. Time is abstracted
to `fresh`: the providers were touched less than one interval ago. The interval
between ticks is not modelled: a tick may come at any moment. The delay messages
and their de-duplication are in `UiFeed`.
A request that does not parse and a configuration that does not parse both set
up the default configuration. On Android, `tunUp` is written by the tunnel's
code without `runLock`: `handleStartTun` and `handleStopTun` appear here by what
they do to the hub, and in full in `TunHandler`.

### TunHandler and JniRefs

A session is one start: its descriptor, its callback and the `TunHandler` made
for it. A thread (`Procs`) goes through `handleStopTun` and then, if it is a
start, on to the configuration check, `tunLock` and `t.Start`. Starts come one at
a time because `RemoteService` holds `State.runLock` around them; stops come
from anywhere. A dial goroutine (`Calls`) reads the hook, and with it a handler
that may be replaced at any moment; it takes a permit, looks at the listener,
enters the JVM and leaves, or never leaves. The semaphore's waiters are not kept
in order, which only adds behaviours. `drainTimeout` may happen whenever a
permit is out: the three seconds are not counted. `sing_tun` is outside the
repository's own code: a failed `t.Start` has closed the descriptor or, failing
before it wrapped it, has left it (`"leaked"`; the code's comment accepts this).

`JniRefs` has one variable for the references and one for the threads inside a
call. A reference is created once, deleted at most once, entered only while it
is live and not deleted while somebody is inside. `TunHandler` implements it
with a thread counted as inside while its `callPc` is `"jvm"`.

### UiFeed

One proxy with one history; a measurement is its number. A pass (`Passes`) is a
goroutine in `forwardHealthCheckDelays`: the forwarder's own, one that a
foreground signal started, or one left over from a replaced forwarder. It reads the
history, passes the de-duplication (the measurement is recorded here, before it
is sent), asks for a listener, and dispatches under `eventListenerMu`; the event is
then on the `wire`, a set, because `RemoteService` launches each event on a thread
pool. A configuration is taken to be loaded and the forwarder to be running: that
they are is `CoreHub`'s matter.

The listener lives in three places: the Go variable, `RemoteService`'s reference
under `eventLock`, and `Service.kt`'s owner under `listenerLock`. The last two
change together with the first except while `eventLock` is held, so one variable
stands for the reference and `eventLock` says what its holder has still to do: swap
in a listener, remove it, or send the background signal that ends a removal. The owner
is set before the service is bound, so that a registration that fails leaves the engine
the owner of nothing, or of the listener of its predecessor (`attachFailed`); `mine` are
the listeners that the current engine has sent. The UI
is a Flutter engine in an app process; either may go without the other, and a new
engine may register before the old one's clean-up has run. `pending` holds the
calls under way. They are served in any order, as each runs on a coroutine and a
goroutine of its own; two equal calls count as one. A registration that was
cancelled with its engine is not served; one that had begun is taken to have been
served before, since `listenerLock` lets nothing in between. An engine starts only
when no registration of an earlier process is under way. `Events` chooses which
events of the environment an instance has. Out of this module: the death of the
service process, an orderly shutdown of the UI, and the loss of an event to a full
Binder buffer.

### VpnService

An operation is a coroutine (`Ops`) with a program counter whose labels name the
statements of `handleStart`, `handleStop`, `startService`, `stopService` and the
start commands that touch what is shared: the tunnel of the core (`coreTun`,
which is `TunHandler` seen from outside), `State.runTime`, `State.delegate`,
`State.tunOwner`, the state the hub announces, the persisted intent flag, and the
fields of the instance. `State.runLock` is held where the code holds it, and
nowhere else: the cleanup of a stop command and of `onDestroy` runs outside it.
`useService`'s timeout cancels the coroutine, not the native call it waits for,
so a late start ends and is then reported as failed.

The platform creates one instance after the other, delivers start commands in
order, destroys an instance that is neither started nor bound, and runs its
callbacks one at a time on the main thread; a binding or command reaches the live
instance, or makes a new one. A kill takes the process with all that is not on
disk; a sticky service is started again with a null intent. `onRevoke` launches its
stop and then, through `super.onRevoke()`, takes the start of the service back, so
that the destruction races with that stop. A destruction may overtake the stops and
the revocations of its instance that are queued or under way: what it has taken down
they find gone, or take down again. `Events` chooses which events of the environment
an instance has, and `MaxEvents` how many. Two are set apart, since they break what
the others keep. `"overtake"`: a destruction overtakes a cold start of its instance,
queued or under way (a command that is refused, or a revocation, has taken its start
back); of the orders in which a destruction overtakes a coroutine, this is the only
one left out of the runs. `"stopFails"`: `useService` fails or times out in
`stopService` (`RemoteService.kt` 249-253), whose outcome is ignored. A revocation
that its destruction has overtaken may do harm later: it stops the core's tunnel, which
is by then the next instance's, and releases the wake lock of its own instance only
(`VpnService_late.cfg`). An instance that a coroutine still refers to
is not created again (a bound: the code makes a new object each time). A cold start
without saved parameters (228-233) leaves the flag as it is if the file is missing,
and clears it if the file is bad; in a run with `"startFails"` it does either.
`tileStop` may queue its command also where `triggerStop` would return early, which
only adds behaviours.

### StateFeed

A snapshot is a state and the millisecond of its publication. Pushes are one-way
Binder calls and arrive in order (`wire`); the flow they end in keeps the last
value, and its collector sees no equal value twice in a row. A pull holds the
app's `runLock` from its call to its application. Which transitions the service
makes is left open (any state but the current one), so that nothing depends on
`VpnService`; the persisted intent is written with them or, by a start without a
tunnel and a cold start that is given up, left as it is. The app writes its run
state and the intent itself: a tile or a widget under the app's `runLock`
(`triggerStart`, `triggerStop`), the reply to a start or a stop of the UI
(`replied`) and the receiver at boot (`onBoot`) without it. `overwritten` says that
one of these, or an intent left as it was, is later than the last transition at
rest; the properties claim nothing of such a state. A reply to a start that is
written after the push of a later stop does leave the app showing START: nothing
orders `ServicePlugin.kt` line 238 with the snapshots. `MaxBurst` is the number of
transitions in one millisecond. With three, A, B and A again, a pull that fetched
B in between is applied while the flow, seeing A where it saw A, stays silent: the
model shows it, two state changes of a real service take longer than that, and the
run and the proof take `MaxBurst` to be 2.

### DesktopCore

Dart runs one event at a time, so an action is what a call does between two awaits
that wait for the system. The callers (`at`) are restarts asked for, the restart of
the crash recovery and the accept loop. A core is numbered by its birth; its
connection waits in `backlog`; its end is reported by its socket (`eof`) and by its
process (`exited`), in either order. `isStarting` is read and never set in the
code, so that restarts overlap. An attempt to spawn has one of three outcomes: a core;
an exception of `Process.start` (`spawnThrows`), which ends the restart and, in the
recovery, is caught and not tried again, however many retries are left; or, when the
server could not be bound, nothing (`spawnAborts`), then and ever after. The number of
a failed attempt is used up. `unusual` remembers that they did (`"overlap"`),
that a restart was asked for before the connection was accepted (`"early"`), or
that a core crashed while a restart was under way (`"again"`), and each property
says which of these it excludes. The Windows helper is not used in this module.

### FakeIp

The list of an LRU cache is the relation "used less recently than" between its
keys, which gives the provers sets instead of sequences. `Lookup` and `LookBack`
hold the pool's mutex; each call on a cache is a step, since `FlushFakeIP` and
`PatchFrom` (a reload) touch the caches without it. `raced` remembers that one of
them overlapped a lookup or the other; of such a pool the properties claim
nothing. The counter is an integer between the address before `First` and `Last`,
the broadcast address; the pools of IPv4 and IPv6 are two instances. Ages
(`maxAge` is 0 here), the persistent store and a reload that changes the range are
left out.

## Runs

| Run | Instance | What it shows |
|---|---|---|
| `core_desktop` | 2 requests, 2 channels of each kind, ports 0 and 1, both TUN flags, 9 methods (1.28 M states) | the safety properties of the hub under all desktop requests; who holds which lock |
| `core_live` | 2 requests, 1 request forwarder, start, stop, setup, foreground (40 k states) | every request and its goroutine finish, over three nested locks one of which a forwarder holds while it sends |
| `core_warm` | 1 request, one warm-up tick, the VPN service's calls (32 k states) | closed forwarders return; providers are kept warm |
| `tun` | 2 sessions, 2 threads, 2 dial goroutines, 1 permit | safety of the tunnel, refinement of `JniRefs`; starts and stops end although the JVM may not answer |
| `feed_listener` | 3 registrations, 1 pass, 1 measurement; pauses, recreations, deaths, failed registrations (0.74 M states) | a UI keeps its listener; references are neither lost nor misused; the inductive invariant; refinement of `JniRefs` |
| `feed_delays` | 1 registration, 2 passes, 2 measurements; headless start, resets, initialisation | the de-duplication withholds nothing from a UI that announced itself, and the last measurement arrives (what has arrived is a set: whether in order, asks `UiFeed_order.cfg`) |
| `vpn` | 2 instances, 3 coroutines, 4 events out of all but `"overtake"` and `"stopFails"` (1.92 M states) | the inductive invariant; tunnel, run time and owner agree once all is quiet; no wake lock outlives a teardown by its instance; no transition hangs |
| `vpn_recovery` | 2 instances, 3 coroutines, 4 events: starts, Always-on, kills | a kill leaves a command that recovers what is persisted; the hub and the persisted intent are truthful, and an intent is served or withdrawn in the end |
| `desktop` | 5 cores, 2 restarts, 2 crashes, 1 retry, spawns that fail (0.25 M states) | the core in use is reachable; one core is left; stops are no crashes; the inductive invariant; a core runs again, unless a spawn fails |
| `state` | 3 milliseconds, 2 transitions, also in one of them, 2 pulls, 1 kill, 1 write of the app (0.90 M states) | the app ends up showing the last transition; the inductive invariant |
| `fakeip` | 3 hosts, 3 addresses, 2 cache entries, flushes and reloads (3.3 M states) | the two caches mirror each other; answers lead back |
| `state_restart` | 2 milliseconds, 1 transition, 1 kill, no pulls | violated: see Findings |

Bounds. Two requests suffice for each race in the hub, which is always between
one lagging goroutine and one handler; what the model checker cannot say about
more is proved. Two channels let an old forwarder overlap its successor; `core_live`
needs one only, as a goroutine that has been told to stop keeps `requestMu` just as
long. It has no shutdown, which takes the same locks in the same order as a stop. Two
sessions let the current handler and a start in progress exist at once; two dial
goroutines over one permit let one wait while the other keeps a drain from
succeeding. `WarmTicks` is 0 where only safety is asked (the warm-up loop differs
from the main loop only in what it does in the background) and 1 where the end of
the warm-up matters. Three registrations let one be in use, one be removed and one
be on its way in. Two measurements and two passes let an old value overtake a new
one in the de-duplication; more proxies would only repeat it.

Two instances of the VPN service let one be destroyed while its successor starts;
three coroutines let a start, a stop and a cold start wait for one lock; four
events reach a start, a stop, a restart and a fault on top. Five cores are one for
each restart and each crash and the first. Three milliseconds with up to two transitions in
each let a number be equal to, smaller or larger than the last one applied. Three
hosts over three addresses and two entries make the caches evict, the range wrap
and a host lose its address in every combination.

Fairness. A goroutine that can run does run; a forwarder that sends has sent in the end; strong fairness for sections under
a mutex, since Go's mutex hands over to a waiter that starves. `healthTick` is
weakly fair, as a timer fires; `healthExit` is strongly fair, as a select chooses
at random among ready cases and the timer is re-armed on each turn. Requests
need not come. Nothing is assumed of the dial goroutines: a call into the JVM may
hang for ever. `t.Start` is assumed to return. In `UiFeed` a pass goes on (strongly
fair, as it waits for `eventListenerMu`), a tick comes again while the flag is set,
and an event that was launched arrives; the UI may do what it likes. A UI that is
gone, or signals after registering and then leaves, makes no promise: the liveness
property asks for the last measurement only while the UI stays. In `VpnService` each
coroutine is strongly fair, as the waiters of a Kotlin mutex form a queue, and the
platform goes on delivering commands and destroying what nobody holds; its events
need not come. In `StateFeed` the app binds again and registers, what was pushed
arrives, the collector runs (strongly fair: it competes for the app's `runLock`) and
a pull ends, with an answer or without; transitions, pulls and kills need not come.
In `DesktopCore` every call that waits for the system goes on, a spawned core
connects unless it crashes, and ends are reported; crashes and requests need not
come.

### Findings

`state_restart`: `StateHub.kt` line 86 says of a registration that "Immediate
snapshot delivery doubles as the post-(re)connect state sync". A restarted service
process starts with a snapshot numbered 0 (or its recovery view, which keeps the
number). The app remembers a larger number of the process that died, and
`applyRemoteState` returns at `snap.seq < lastAppliedSeq` (`GlobalState.kt` line 97).
The app goes on showing what the dead process said until the new one makes a
transition. That it then does is what `state` shows.

### Deviations the models reach

Each of these has a configuration that asks for the property and finds it
violated. They are kept for the reader who wants the trace; they are not among the
runs.

| Configuration | Property | What happens |
|---|---|---|
| `CoreHub_standby.cfg` | `NeverPollsInStandby` | `hub.go` line 57 says that the request forwarder "stays uiActive-gated so it never polls during standby". The gate is read before `runLock` is taken and not again under it (lines 152, 371-377); a background signal in between stops a forwarder that is not there yet |
| `UiFeed_foreground.cfg` | `UiActiveReflectsForeground` | `android_bride.go` line 182 says "Any new UI re-asserts true on attach (AppStateManager initState + resumed)". `initState` sends nothing; after a headless start a registered UI is in front with `uiActive` false until the next pause and resume |
| `UiFeed_order.cfg` | `DelaysInOrder` | `ServicePlugin.kt` lines 52-53 say that events "reach Flutter strictly in order". `RemoteService.kt` line 291 launches each on a thread pool; a newer delay is overtaken, and the de-duplication does not send it again |
| `VpnService_revoke.cfg` | `RunningMeansRunning` | a reused instance keeps `destroyed` of its first stop, so that its revocation is not published |
| `VpnService_stop.cfg` | `StoppedMeansStopped` | a stop command clears the flag and publishes STOPPED after it has released the lock; a start in between is overwritten |
| `VpnService_late.cfg` | `AwakeMeansTunnel` | an instance is revoked and destroyed before its revocation has run; the next instance brings its tunnel up and takes the wake lock; the late revocation stops the core's tunnel, whichever it is, but releases the wake lock of its own instance only, so that the device is kept awake for no tunnel |
| `VpnService_unstopped.cfg` | `NoOrphanTunnel` | `stopService` ignores that `useService` failed or timed out (`RemoteService.kt` 249-253), and says STOPPED over a tunnel that is up |
| `VpnService_overtake.cfg` | `NoOrphanTunnel` | a cold start whose instance was destroyed before it got the lock builds a tunnel that the app's stop no longer reaches |

`DesktopCore` and `FakeIp` name theirs in the properties instead: overlapping
restarts leave a second core behind; a restart that renews the completer during another
one and then fails to spawn leaves a core that cannot be talked to, and a recovery
whose spawn fails leaves none (`SpawnFailed`); a core stopped before its connection was
accepted passes for a crash (`unusual`), and a flush or a reload that overlaps a
lookup separates the two caches (`raced`).

## Proofs

`CoreHubProofs` proves `Spec => [](TypeOK /\ Inv)` for any sets of requests,
channels and ports, on both platforms, and from it the listed properties. `Inv`
adds two parts to the properties. `LockDiscipline`: at which places each of the three
locks is held, and what the holder of `runLock` relies on there: a start, up to the
creation of the request forwarder's channel, that on desktop the core runs, without
which `JournalNeedsListener` is not inductive, since nothing would say that no stop
came between check and creation; a stop, while it waits for the forwarder, that the
core no longer does. The properties that speak of the whole hub are about the moments
when no stop is half way (`~Stopping`). The theorem `LocksAreDisciplined` states the
locks' part by itself.
`DesktopDiscipline`: the TUN flag of the configuration and the remembered one
agree on desktop, and nothing of the VPN service happens there; without it a
start could open a device the configuration does not ask for. `TypeOK` needs
`NoLeakedLogPump`, since a subscription counter is decremented. The assumptions
are `CoreHubAssumption` and `NoneIsNoConfig`: None is no process, channel, port
or configuration, and 0 is a port. `TypeOK` of this module is proved and no longer
model-checked. On Android `Inv` is proved only: the checked instance (`core_warm`) is
too poor for it.

`TunHandlerProofs` proves the same for the tunnel, for any sets of sessions and
threads, a finite set of dial goroutines and any number of permits. The argument
is at the head of the module: a goroutine inside the JVM holds a permit, a
callback that was in use goes only after a drain, and a drained handler has no
permit out; references deleted without a drain belong to handlers that never had
a listener. The invariant names who may do what: `LockDiscipline` (who holds
`tunLock`), `CloseDiscipline` (where `close()` is), `StartDiscipline` (the one
start in progress owns a fresh session, and no device is up once it has stopped
the old one), `HandlerDiscipline`, `CallDiscipline` and `Owned` (every live
reference and open descriptor has an owner). `Refinement` shows that the tunnel
implements `JniRefs`, step by step. The types, the bound on the permits with them, are
proved and no longer model-checked.

`FakeIpProofs` proves for any finite set of hosts, any range and any cache size
that the two caches mirror each other and that answers lead back, from
`FakeIpAssumption`. The mirror holds between operations only; `JobOK` says what is
left of it at each step of the mutex holder: one list has moved the pair of the job
and the other not yet (`HalfMoved`), or one cache has taken in the new pair and
dropped its oldest, which is the pair the other will drop (`HalfPut`). For the last
the front of a list must be unique (`Asymmetric`), and the two caches must be equally
full, which follows from the mirror being a bijection (lemma `SameSize`). `FlushOK`
and `CloneOK` say that a flush and a reload that race with nothing find the pool idle.

`UiFeedProofs` proves for any number of registrations, passes and measurements and
all events of the environment that a UI stays registered, that references do not pile
up, that the de-duplication withholds nothing, and that the event listener implements
`JniRefs`, from `UiFeedAssumption`. A removal of the listener is begun by a death
notice, by the clean-up of an engine or by `onDestroy`; `OwnerDiscipline` says that
none of them can be about the current engine, `RefDiscipline` that a fresh
registration has no notice yet, `PassDiscipline` that whoever is inside the JVM holds
the mutex a release waits for, and `FeedDiscipline` that what was recorded as sent is
with the UI, with a pass or on the wire.

`StateFeedProofs` proves for any number of milliseconds, transitions, pulls and kills
that the app shows the last transition once everything was delivered, unless it has
written its state itself since (`overwritten`), from
`FeedAssumption` and `BurstAssumption` (at most two transitions in one millisecond; see
above). A transition differs from every snapshot on its way (`ClockDiscipline`), so
that the collector sees it as new and applies it after any pull that fetched something
else; `Applied` says that it then stays.

`DesktopCoreProofs` proves the three safety properties of the desktop client for any
number of cores, restarts, crashes and retries, from `DesktopAssumption`. For
`Reachable`, `SocketDiscipline` follows the connection of the client's core: it is in
the backlog, with the accept loop or in the completer, or a restart is past its
shutdown and will spawn another core. `OneAtATime` says that a restart alone in its
stop has no process left when it spawns, and `InOrder` that, as long as nothing unusual
happened, the client listens to and watches its one process only; a core that was
killed is forgotten before `stopping` is cleared, so that its end is not taken for a
crash. An attempt to spawn that came to nothing (`SpawnFailed`) leaves the client
without a process, unless restarts overlap; `Reachable` claims nothing when both happen. `LifeDiscipline` says which places a core can be in at each stage of its life.

`VpnServiceProofs` proves the safety of the VPN service for any number of instances,
coroutines and events, from `VpnAssumption` (null is neither an instance nor a
coroutine, and the delegate that is being bound is no instance). None of the
properties is inductive: each speaks of the moments when nothing is under way, and the
invariant has to say what is true at every place of a start and a stop in between.

- `LockDiscipline` says which coroutines hold `runLock` at which places, and that the
  hub announces a transition only while its coroutine holds it. It needs no
  assumption on the environment, and `Settled` (`NoTransitionHangs`) follows.
- `InstanceDiscipline`: one instance is there at a time; the delegate, the owner of the
  tunnel and every coroutine refer to that one, except for the stops and revocations
  that its destruction has overtaken. Those find an instance that holds nothing. This
  is what makes the callbacks and commands that do not take the lock harmless to its
  holder.
- `PlaceDiscipline`: what the holder relies on at each place, such as that a start
  finds no run time before its commit.
- `TunnelDiscipline`: a tunnel of the core is that of the owner, which is active until
  a stop or a rollback has begun, and what the service says it runs it runs, until the
  destruction of the owner has ended.
- `DebtDiscipline`: an active instance that the service does not say it runs will be
  torn down, by a stop command that is queued, by a coroutine, or by its destruction;
  a bound one, which the platform does not destroy, only by the start that is under
  way. Without the second part the stop of a cold start that fails or is withdrawn
  could leave an active instance to nobody.
- `WakeLockDiscipline`: the first half of `WakeLockFollowsTunnel`.

All but the first are proved for environments without `"overtake"`, that is, for a
destruction that overtakes stops and revocations but no cold start; with it they are
false (`VpnService_overtake.cfg`). `DebtDiscipline` also needs that `useService` does
not fail in a stop (`VpnService_unstopped.cfg`). Of the two theorems about the
properties, `TunnelAgrees` has both hypotheses and `WakeLockFollows` the first only.
`HubAndFlagAgree` is about starts, the screen and kills
(`RecoveryEvents`), since the stops break it (`VpnService_stop.cfg`,
`VpnService_revoke.cfg`). There `RecoveryInv` is inductive with `Inv`: only starts are under way
(`OnlyStarts`), the hub and the flag follow what runs (`HubDiscipline`), and
`IntentDiscipline`: while a start by the app holds the lock, its start command is the
last one queued or has made the service sticky, so that once the intent is persisted
a kill at any step leaves a command, and that command finds the intent.

Only model-checked: the liveness properties (`RequestsComplete`,
`ClosedForwardersExit`, `ProvidersKeptWarm`, `StartAndStopEnd`,
`LatestDelayArrives`, `RecoveryResolves`, `Respawns`, `Follows`), which rest on
fairness and are outside the prover's reach.

## Plan

1. `UiFeed`: the messages of `forwardNewRequests` (its loop and its lock are in
   `CoreHub`), an orderly shutdown and the death of the service process.
2. `IpcCall`: completers and timeouts of the Dart client; `Helper`: overlapping starts
   of the Windows helper.
3. `StatusQueue`, `AppLifecycle`, `Standby`: the controller's epochs, the order of
   start and stop, the screen signals of the service modules.
4. `Providers`, `DelayTest`: the hub's remaining requests.
5. `FakeIp`: the persistent store, and reloads that change the range.

## Not modelled

Widgets and presentation, platform plugins, build scripts, encodings and sockets.
Of the engine (`core/mihomo`, by far the largest part of the repository), the
protocols, transports, rules and configuration parsing: a fork of an upstream
project whose code is mostly data transformation and network I/O. From it only
what the hub calls (`ReCreateTun`, port binding) and the fake-IP pool are
modelled. `CommonService`, the service without a tunnel, has neither recovery
nor ownership; the requests `RemoteService` only forwards have no state.
