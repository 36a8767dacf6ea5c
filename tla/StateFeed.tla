------------------------------ MODULE StateFeed -----------------------------
(***************************************************************************)
(* How the run state of the service process reaches the app process: the   *)
(* snapshots of StateHub.kt, pushed to a callback and pulled on demand,    *)
(* and their application in GlobalState.kt of the app.                     *)
(*                                                                         *)
(* A snapshot carries the millisecond of its publication as its number.    *)
(* Pushes are one-way calls on one binder and arrive in order; the flow    *)
(* they end in keeps the last value only.  Both ways of applying one take  *)
(* the runLock of the app.  Which transitions the service makes is left    *)
(* open; VpnService.tla has them.                                          *)
(*                                                                         *)
(* The app also writes its run state itself, ahead of the service or after *)
(* a reply of it: under the lock from a tile or a widget, without it from  *)
(* the plugin of the UI and at boot.  What it wrote stays until the next   *)
(* snapshot; the properties speak of what is shown once the service has    *)
(* made a transition after the last of these writes.                       *)
(***************************************************************************)
EXTENDS Naturals, Sequences

CONSTANTS
    MaxClock,       \* milliseconds that pass (a bound)
    MaxTransitions, \* transitions published (a bound)
    MaxBurst,       \* transitions in one millisecond
    MaxPulls,       \* pulls (a bound)
    MaxKills,       \* deaths of the service process (a bound)
    MaxWrites,      \* writes of the app's own (a bound)
    None            \* null

HubStates == {"starting", "running", "stopping", "stopped"}
UiStates  == {"PENDING", "START", "STOP"}
Snapshots == [state : HubStates, seq : 0 .. MaxClock]

ASSUME FeedAssumption ==
    /\ MaxClock \in Nat \ {0} /\ MaxTransitions \in Nat /\ MaxPulls \in Nat /\ MaxKills \in Nat
    /\ MaxWrites \in Nat
    /\ None \notin Snapshots

\* Three transitions in one millisecond, the third equal to the first, would be
\* one value to the flow, and a pull of the second could be the last to be applied.
ASSUME BurstAssumption == MaxBurst \in 0 .. 2

VARIABLES
    clock,          \* SystemClock.elapsedRealtime()
    current,        \* StateHub.current
    grace,          \* the process is younger than RECOVERY_GRACE_MS
    isVpnActive,    \* the persisted intent
    registered,     \* the callback is in StateHub.callbacks
    reachable,      \* the app holds a proxy of the service
    wire,           \* snapshots on their way to the callback
    remoteStateFlow,\* the last snapshot pushed
    collected,      \* the collector has taken it from the flow and wants the lock
    runLock,        \* "free", or the pull that holds it
    fetched,        \* what the pull has fetched
    lastAppliedSeq, runState,
    overwritten,    \* the run state of the app, or the persisted intent, was written
                    \* otherwise than for the last transition
    burst,          \* transitions published in this millisecond
    transitions, pulls, kills, writes

hub    == <<clock, burst, current, grace, isVpnActive, registered>>
link   == <<reachable, wire>>
client == <<remoteStateFlow, collected, runLock, fetched, lastAppliedSeq, runState>>
bounds == <<transitions, pulls, kills, writes>>
vars   == <<hub, link, client, overwritten, bounds>>

TypeOK ==
    /\ clock \in 1 .. MaxClock /\ burst \in 0 .. MaxBurst
    /\ current \in Snapshots
    /\ grace \in BOOLEAN /\ isVpnActive \in BOOLEAN
    /\ registered \in BOOLEAN /\ reachable \in BOOLEAN
    /\ wire \in Seq(Snapshots)
    /\ remoteStateFlow \in Snapshots \cup {None}
    /\ collected \in Snapshots \cup {None}
    /\ remoteStateFlow = None => collected = None
    /\ runLock \in {"free", "pull", "fetched"}
    /\ fetched \in Snapshots \cup {None}
    /\ runLock = "fetched" <=> fetched # None
    /\ lastAppliedSeq \in 0 .. MaxClock
    /\ runState \in UiStates
    /\ transitions \in 0 .. MaxTransitions
    /\ pulls \in 0 .. MaxPulls /\ kills \in 0 .. MaxKills
    /\ overwritten \in BOOLEAN /\ writes \in 0 .. MaxWrites

Init ==
    /\ clock = 1 /\ burst = 0
    /\ current = [state |-> "stopped", seq |-> 0]
    /\ grace = TRUE /\ isVpnActive = FALSE
    /\ registered = FALSE /\ reachable = FALSE
    /\ wire = << >>
    /\ remoteStateFlow = None /\ collected = None
    /\ runLock = "free" /\ fetched = None
    /\ lastAppliedSeq = 0 /\ runState = "STOP"
    /\ overwritten = FALSE
    /\ transitions = 0 /\ pulls = 0 /\ kills = 0 /\ writes = 0

-----------------------------------------------------------------------------
(* StateHub *)

\* A fresh process whose tunnel is to be recovered passes for running.
effectiveSnapshot ==
    IF current.state = "stopped" /\ current.seq = 0 /\ grace /\ isVpnActive
    THEN [current EXCEPT !.state = "running"] ELSE current

\* The service persists the intent right before it publishes a start or a stop, here
\* in one step; a start without a tunnel of its own and a cold start that is given up
\* may leave it as it is, and the app may have written it in between.
intentFollows(state) ==
    IF state \in {"running", "stopped"}
    THEN \/ isVpnActive' = (state = "running") /\ overwritten' = FALSE
         \/ isVpnActive' = isVpnActive /\ overwritten' = TRUE
    ELSE UNCHANGED <<isVpnActive, overwritten>>

\* Mutant: transitions are numbered, not timed.
publishCounting(state) ==
    /\ transitions < MaxTransitions
    /\ burst < MaxBurst
    /\ burst' = burst + 1
    /\ state # current.state
    /\ current' = [state |-> state, seq |-> transitions + 1]
    /\ wire' = IF registered THEN Append(wire, current') ELSE wire
    /\ intentFollows(state)
    /\ transitions' = transitions + 1
    /\ UNCHANGED <<clock, grace, registered, reachable, client, pulls, kills, writes>>

\* A transition.
publish(state) ==
    /\ transitions < MaxTransitions
    /\ burst < MaxBurst
    /\ burst' = burst + 1
    /\ state # current.state
    /\ current' = [state |-> state, seq |-> clock]
    /\ wire' = IF registered THEN Append(wire, current') ELSE wire
    /\ intentFollows(state)
    /\ transitions' = transitions + 1
    /\ UNCHANGED <<clock, grace, registered, reachable, client, pulls, kills, writes>>

register ==
    /\ reachable /\ ~registered
    /\ registered' = TRUE
    /\ wire' = Append(wire, effectiveSnapshot)
    /\ UNCHANGED <<clock, burst, current, grace, isVpnActive, reachable, client, overwritten,
                   bounds>>

tick ==
    /\ clock < MaxClock
    /\ clock' = clock + 1
    /\ burst' = 0
    /\ grace' \in {grace, FALSE}
    /\ UNCHANGED <<current, isVpnActive, registered, link, client, overwritten, bounds>>

-----------------------------------------------------------------------------
(* The app process *)

\* Mutant: the callback is wired once, and not again when the service comes back.
bindOnce ==
    /\ ~reachable /\ kills = 0
    /\ reachable' = TRUE
    /\ UNCHANGED <<hub, wire, client, overwritten, bounds>>

bind ==
    /\ ~reachable
    /\ reachable' = TRUE
    /\ UNCHANGED <<hub, wire, client, overwritten, bounds>>

onStateChanged ==
    /\ wire # << >>
    /\ remoteStateFlow' = Head(wire)
    /\ wire' = Tail(wire)
    /\ UNCHANGED <<hub, reachable, collected, runLock, fetched, lastAppliedSeq, runState,
                   overwritten, bounds>>

RunStateOf(state) ==
    IF state = "starting" THEN "PENDING" ELSE IF state = "running" THEN "START" ELSE "STOP"

\* Mutant: a snapshot of the same millisecond is dropped as well.
applyLater(snap) ==
    IF snap.seq <= lastAppliedSeq
    THEN UNCHANGED <<lastAppliedSeq, runState>>
    ELSE /\ lastAppliedSeq' = snap.seq
         /\ runState' = RunStateOf(snap.state)

applyRemoteState(snap) ==
    IF snap.seq < lastAppliedSeq
    THEN UNCHANGED <<lastAppliedSeq, runState>>
    ELSE /\ lastAppliedSeq' = snap.seq
         /\ runState' = RunStateOf(snap.state)

\* The collector takes the value of the flow, waits for the lock, applies it,
\* and then looks again; it sees no value twice in a row.
collect ==
    /\ remoteStateFlow # collected
    /\ runLock = "free"
    /\ collected' = remoteStateFlow
    /\ applyRemoteState(remoteStateFlow)
    /\ UNCHANGED <<hub, link, remoteStateFlow, runLock, fetched, overwritten, bounds>>

\* handleSyncState: the lock, the snapshot of the service, its application.
handleSyncState ==
    /\ pulls < MaxPulls
    /\ runLock = "free"
    /\ runLock' = "pull"
    /\ pulls' = pulls + 1
    /\ UNCHANGED <<hub, link, remoteStateFlow, collected, fetched, lastAppliedSeq, runState,
                   overwritten, transitions, kills, writes>>

fetchServiceState ==
    /\ runLock = "pull" /\ reachable
    /\ fetched' = effectiveSnapshot
    /\ runLock' = "fetched"
    /\ UNCHANGED <<hub, link, remoteStateFlow, collected, lastAppliedSeq, runState, overwritten,
                   bounds>>

applyFetched ==
    /\ runLock = "fetched"
    /\ applyRemoteState(fetched)
    /\ fetched' = None
    /\ runLock' = "free"
    /\ UNCHANGED <<hub, link, remoteStateFlow, collected, overwritten, bounds>>

\* The service is away or did not answer in time: the persisted intent decides.
fetchFails ==
    /\ runLock = "pull"
    /\ runState' = IF isVpnActive THEN "START" ELSE "STOP"
    /\ runLock' = "free"
    /\ UNCHANGED <<hub, link, remoteStateFlow, collected, fetched, lastAppliedSeq, overwritten,
                   bounds>>

\* The app writes its run state, and maybe the intent, itself.
writeRunState(state, active) ==
    /\ writes < MaxWrites
    /\ runState' = state
    /\ isVpnActive' = active
    /\ overwritten' = TRUE
    /\ writes' = writes + 1
    /\ UNCHANGED <<clock, burst, current, grace, registered, link, remoteStateFlow, collected,
                   runLock, fetched, lastAppliedSeq, transitions, pulls, kills>>

\* A tile or a widget, under the lock: the start is left to the UI, or there is
\* nothing to start from; or the service is started headless, which may fail.
triggerStart ==
    /\ runLock = "free" /\ runState # "START"
    /\ \/ \E state \in {"PENDING", "STOP"} : writeRunState(state, isVpnActive)
       \/ writeRunState("START", TRUE)
       \/ writeRunState("STOP", FALSE)

triggerStop ==
    /\ runLock = "free"
    /\ runState # "STOP" \/ isVpnActive
    /\ writeRunState("STOP", FALSE)

\* Without the lock: the reply to a start or to a stop that the UI asked for, however
\* long ago the service made that transition.
replied ==
    \/ writeRunState("START", isVpnActive)
    \/ writeRunState("STOP", FALSE)

\* Without the lock: the start at boot, which may fail.
onBoot ==
    /\ isVpnActive
    /\ \E state \in {"START", "STOP"} : writeRunState(state, isVpnActive)

-----------------------------------------------------------------------------
\* The service process dies and starts again, which takes more than a
\* millisecond; calls on their way are lost.
kill ==
    /\ kills < MaxKills
    /\ clock < MaxClock
    /\ clock' = clock + 1 /\ burst' = 0
    /\ current' = [state |-> "stopped", seq |-> 0]
    /\ grace' = TRUE
    /\ registered' = FALSE /\ reachable' = FALSE
    /\ wire' = << >>
    /\ kills' = kills + 1
    /\ UNCHANGED <<isVpnActive, client, overwritten, transitions, pulls, writes>>

App == bind \/ onStateChanged \/ collect \/ fetchServiceState \/ applyFetched \/ fetchFails

Next ==
    \/ \E s \in HubStates : publish(s)
    \/ register \/ tick \/ App \/ handleSyncState \/ kill
    \/ triggerStart \/ triggerStop \/ replied \/ onBoot

Spec == Init /\ [][Next]_vars

\* The app binds again, what is sent arrives, the collector runs, a pull ends.
Fairness ==
    /\ WF_vars(bind) /\ WF_vars(register) /\ WF_vars(onStateChanged)
    /\ SF_vars(collect)
    /\ WF_vars(fetchServiceState) /\ WF_vars(applyFetched) /\ WF_vars(fetchFails)

FairSpec == Spec /\ Fairness

-----------------------------------------------------------------------------
(* Properties *)

\* Everything that was sent has been applied.
Delivered ==
    /\ registered /\ wire = << >>
    /\ remoteStateFlow = collected
    /\ runLock = "free"

\* What the app ought to show of a snapshot at rest.  (Of a start or a stop under
\* way a pull that fails shows the persisted intent instead.)
Shown(snap) == snap.state \in {"running", "stopped"} => runState = RunStateOf(snap.state)

\* Pushes and pulls agree in the end, whatever order they are applied in,
\* whether or not transitions share a millisecond, whether or not a pull gave
\* up, and across a death of the service process: once everything was
\* delivered, the app shows the last transition, if the process has made one
\* and the app has not written its run state since.  What it wrote before the
\* transition does not last.
LaterTransitionWins == Delivered /\ current.seq # 0 /\ ~overwritten => Shown(current)

\* "Immediate snapshot delivery doubles as the post-(re)connect state sync"
\* (StateHub.kt): the same of the snapshot that a registration delivers.
SyncsOnConnect == Delivered => Shown(effectiveSnapshot)

\* The app shows the last transition of the service process in the end, also when
\* the push that carried it was overtaken by a pull or replaced in the flow by a
\* later one, or came from a restarted process, or the app had written its run state
\* before it.
Follows == <>[](current.seq # 0 /\ ~overwritten => Shown(current))

-----------------------------------------------------------------------------
(* The inductive invariant *)

\* No snapshot is younger than the hub's own, and a transition that the hub is
\* free to make differs from each of them.
NotNewer(snap) ==
    /\ snap.seq <= clock
    /\ current.seq # 0 => snap.seq <= current.seq
    /\ burst = 0 => snap.seq < clock
    /\ burst = 1 /\ snap.seq = clock => snap = current

ClockDiscipline ==
    /\ current.seq <= clock /\ lastAppliedSeq <= clock
    /\ burst = 0 => current.seq < clock /\ lastAppliedSeq < clock
    /\ burst # 0 => current.seq = clock
    /\ current.seq # 0 => lastAppliedSeq <= current.seq
    /\ \A snap \in {remoteStateFlow, collected, fetched} \ {None} : NotNewer(snap)
    /\ \A n \in 1 .. Len(wire) : NotNewer(wire[n])

\* The last transition is the last thing sent to a callback.
LastSent ==
    registered /\ current.seq # 0 =>
       current = IF wire = << >> THEN remoteStateFlow ELSE wire[Len(wire)]

\* The persisted intent is that of the last transition.
IntentFollows ==
    current.seq # 0 /\ ~overwritten =>
       /\ current.state = "running" => isVpnActive
       /\ current.state = "stopped" => ~isVpnActive

\* Once the collector has applied the last transition, it stays applied: what a
\* pull fetches afterwards, holding the lock, is the same.
Applied ==
    collected = current /\ current.seq # 0 =>
       /\ ~overwritten => Shown(current)
       /\ fetched # None => fetched = current

Inv == ClockDiscipline /\ LastSent /\ IntentFollows /\ Applied

=============================================================================
