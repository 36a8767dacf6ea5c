--------------------------- MODULE StateFeedProofs --------------------------
(***************************************************************************)
(* Proofs about StateFeed: the app ends up showing the last transition of  *)
(* the service process.                                                    *)
(*                                                                         *)
(* A transition differs from every snapshot on its way, since it carries a *)
(* later millisecond or another state (ClockDiscipline).  It is the last   *)
(* thing pushed (LastSent), so the collector, seeing a value that it has   *)
(* not seen before, applies it after any pull that fetched something else; *)
(* and what is pulled afterwards is the same (Applied).                    *)
(***************************************************************************)
EXTENDS StateFeed, SequenceTheorems, TLAPS

\* The recovery view of effectiveSnapshotLocked only replaces the state of a
\* process that has made no transition; its number stays 0.
LEMMA EffectiveType ==
    ASSUME TypeOK
    PROVE  /\ effectiveSnapshot \in Snapshots
           /\ effectiveSnapshot.seq = current.seq
           /\ current.seq # 0 => effectiveSnapshot = current
BY DEF TypeOK, effectiveSnapshot, Snapshots, HubStates

\* What a snapshot is made of.
LEMMA SnapshotType ==
    /\ \A s \in HubStates, n \in 0 .. MaxClock : [state |-> s, seq |-> n] \in Snapshots
    /\ \A snap \in Snapshots : snap.state \in HubStates /\ snap.seq \in 0 .. MaxClock
    /\ "stopped" \in HubStates
BY DEF Snapshots, HubStates

\* applyRemoteState shows one of the states of the UI.
LEMMA RunStateType == ASSUME NEW s PROVE RunStateOf(s) \in UiStates
BY DEF RunStateOf, UiStates

\* Whatever writes the run state of the app itself writes one of the states of the UI.
LEMMA OwnWrites ==
    ASSUME isVpnActive \in BOOLEAN, triggerStart \/ triggerStop \/ replied \/ onBoot
    PROVE  \E state \in UiStates, active \in BOOLEAN : writeRunState(state, active)
<1>1. {"PENDING", "START", "STOP"} \subseteq UiStates
    BY DEF UiStates
<1> QED
    BY <1>1, Zenon DEF triggerStart, triggerStop, replied, onBoot

\* Every step preserves the types.
LEMMA TypeStep == TypeOK /\ [Next]_vars => TypeOK'
<1> SUFFICES ASSUME TypeOK, [Next]_vars PROVE TypeOK'
    OBVIOUS
<1> USE FeedAssumption, BurstAssumption, EffectiveType, RunStateType, SnapshotType
<1>1. ASSUME NEW s \in HubStates, publish(s) PROVE TypeOK'
  <2>1. current' \in Snapshots
    BY <1>1 DEF publish, TypeOK
  <2>2. wire' \in Seq(Snapshots)
    BY <1>1, <2>1 DEF publish, TypeOK
  <2>3. isVpnActive' \in BOOLEAN /\ overwritten' \in BOOLEAN
    BY <1>1, Zenon DEF publish, intentFollows, TypeOK
  <2>4. burst' \in 0 .. MaxBurst /\ transitions' \in 0 .. MaxTransitions
    BY <1>1 DEF publish, TypeOK
  <2>5. UNCHANGED <<clock, grace, registered, reachable, client, pulls, kills, writes>>
    BY <1>1 DEF publish
  <2> QED
    BY <2>1, <2>2, <2>3, <2>4, <2>5 DEF TypeOK, client
<1>2. CASE register
    BY <1>2 DEF register, TypeOK, UiStates, hub, link, client, bounds
<1>3. CASE tick
  <2>1. grace' \in BOOLEAN
    BY <1>3, Zenon DEF tick, TypeOK
  <2>2. clock' \in 1 .. MaxClock /\ burst' \in 0 .. MaxBurst
    BY <1>3 DEF tick, TypeOK
  <2> QED
    BY <1>3, <2>1, <2>2 DEF tick, TypeOK, link, client, bounds
<1>4. CASE bind
    BY <1>4 DEF bind, TypeOK, UiStates, hub, link, client, bounds
<1>5. CASE onStateChanged
    BY <1>5 DEF onStateChanged, TypeOK, UiStates, hub, link, client, bounds
<1>6. CASE collect
    BY <1>6 DEF collect, applyRemoteState, TypeOK, UiStates, hub, link, client, bounds
<1>7. CASE handleSyncState
    BY <1>7 DEF handleSyncState, TypeOK, UiStates, hub, link, client, bounds
<1>8. CASE fetchServiceState
    BY <1>8 DEF fetchServiceState, TypeOK, UiStates, hub, link, client, bounds
<1>9. CASE applyFetched
    BY <1>9 DEF applyFetched, applyRemoteState, TypeOK, UiStates, hub, link, client, bounds
<1>10. CASE fetchFails
    BY <1>10 DEF fetchFails, TypeOK, UiStates, hub, link, client, bounds
<1>11. CASE kill
  <2>1. current' \in Snapshots
    BY <1>11 DEF kill, TypeOK
  <2>2. wire' \in Seq(Snapshots)
    BY <1>11 DEF kill
  <2>3. clock' \in 1 .. MaxClock /\ burst' \in 0 .. MaxBurst /\ kills' \in 0 .. MaxKills
    BY <1>11 DEF kill, TypeOK
  <2> QED
    BY <1>11, <2>1, <2>2, <2>3 DEF kill, TypeOK, client
<1>12. CASE triggerStart \/ triggerStop \/ replied \/ onBoot
  <2>1. PICK state \in UiStates, active \in BOOLEAN : writeRunState(state, active)
    BY <1>12, OwnWrites DEF TypeOK
  <2> QED
    BY <2>1 DEF writeRunState, TypeOK, link
<1>13. CASE UNCHANGED vars
    BY <1>13 DEF vars, hub, link, client, bounds, TypeOK
<1> QED
    BY <1>1, <1>2, <1>3, <1>4, <1>5, <1>6, <1>7, <1>8, <1>9, <1>10, <1>11, <1>12, <1>13
       DEF Next, App

\* Every step preserves the inductive invariant.
LEMMA InvStep == TypeOK /\ TypeOK' /\ Inv /\ [Next]_vars => Inv'
<1> SUFFICES ASSUME TypeOK, TypeOK', Inv, [Next]_vars PROVE Inv'
    OBVIOUS
<1> USE FeedAssumption, BurstAssumption DEF Inv
<1>1. ASSUME NEW s \in HubStates, publish(s) PROVE Inv'
  <2>1. ClockDiscipline'
    BY <1>1
       DEF publish, ClockDiscipline, NotNewer, TypeOK, Snapshots, hub, link, client, bounds
  <2>2. LastSent'
    BY <1>1
       DEF publish, LastSent, TypeOK, Snapshots, hub, link, client, bounds
  <2>3. IntentFollows'
    BY <1>1
       DEF publish, intentFollows, IntentFollows, TypeOK, Snapshots, hub, link, client, bounds
  <2>4. Applied'
    BY <1>1
       DEF publish, intentFollows, Applied, ClockDiscipline, NotNewer, LastSent, IntentFollows, Shown, RunStateOf, TypeOK, Snapshots, hub, link, client, bounds
  <2> QED
    BY <2>1, <2>2, <2>3, <2>4
<1>2. CASE register
  <2>1. ClockDiscipline'
    BY <1>2, EffectiveType
       DEF register, ClockDiscipline, NotNewer, TypeOK, Snapshots, hub, link, client, bounds
  <2>2. LastSent'
    BY <1>2, EffectiveType
       DEF register, LastSent, TypeOK, Snapshots, hub, link, client, bounds
  <2>3. IntentFollows'
    BY <1>2, EffectiveType
       DEF register, IntentFollows, TypeOK, Snapshots, hub, link, client, bounds
  <2>4. Applied'
    BY <1>2, EffectiveType
       DEF register, Applied, ClockDiscipline, NotNewer, LastSent, IntentFollows, Shown, RunStateOf, TypeOK, Snapshots, hub, link, client, bounds
  <2> QED
    BY <2>1, <2>2, <2>3, <2>4
<1>3. CASE tick
  <2>1. ClockDiscipline'
    <3>1. clock \in Nat /\ clock' = clock + 1 /\ burst' = 0
      BY <1>3 DEF tick, TypeOK
    <3>2. UNCHANGED <<current, wire, remoteStateFlow, collected, fetched, lastAppliedSeq>>
      BY <1>3 DEF tick, link, client
    <3>3. current.seq \in Nat /\ lastAppliedSeq \in Nat
      BY DEF TypeOK, Snapshots
    <3>4. \A snap \in {remoteStateFlow, collected, fetched} \ {None} : snap.seq \in Nat
      BY DEF TypeOK, Snapshots
    <3>5. \A n \in 1 .. Len(wire) : wire[n].seq \in Nat
      <4>1. \A n \in 1 .. Len(wire) : wire[n] \in Snapshots
        BY DEF TypeOK
      <4> QED
        BY <4>1, SnapshotType
    <3> QED
      BY <3>1, <3>2, <3>3, <3>4, <3>5 DEF ClockDiscipline, NotNewer
  <2>2. LastSent'
    BY <1>3
       DEF tick, LastSent, TypeOK, Snapshots, hub, link, client, bounds
  <2>3. IntentFollows'
    BY <1>3
       DEF tick, IntentFollows, TypeOK, Snapshots, hub, link, client, bounds
  <2>4. Applied'
    BY <1>3
       DEF tick, Applied, ClockDiscipline, NotNewer, LastSent, IntentFollows, Shown, RunStateOf, TypeOK, Snapshots, hub, link, client, bounds
  <2> QED
    BY <2>1, <2>2, <2>3, <2>4
<1>4. CASE bind
  <2>1. ClockDiscipline'
    BY <1>4
       DEF bind, ClockDiscipline, NotNewer, TypeOK, Snapshots, hub, link, client, bounds
  <2>2. LastSent'
    BY <1>4
       DEF bind, LastSent, TypeOK, Snapshots, hub, link, client, bounds
  <2>3. IntentFollows'
    BY <1>4
       DEF bind, IntentFollows, TypeOK, Snapshots, hub, link, client, bounds
  <2>4. Applied'
    BY <1>4
       DEF bind, Applied, ClockDiscipline, NotNewer, LastSent, IntentFollows, Shown, RunStateOf, TypeOK, Snapshots, hub, link, client, bounds
  <2> QED
    BY <2>1, <2>2, <2>3, <2>4
<1>5. CASE onStateChanged
  <2>1. ClockDiscipline'
    BY <1>5
       DEF onStateChanged, ClockDiscipline, NotNewer, TypeOK, Snapshots, hub, link, client, bounds
  <2>2. LastSent'
    <3>1. wire \in Seq(Snapshots) /\ wire # << >>
      BY <1>5 DEF onStateChanged, TypeOK
    <3>2. CASE Tail(wire) = << >>
      <4>1. Len(wire) \in Nat /\ Len(wire) # 0 /\ Len(Tail(wire)) = Len(wire) - 1
        BY <3>1
      <4>2. Len(Tail(wire)) = 0
        BY <3>2, EmptySeq, Zenon
      <4>3. Len(wire) = 1
        <5>1. \A n \in Nat : n - 1 = 0 => n = 1
          OBVIOUS
        <5> QED
          BY <4>1, <4>2, <5>1, Zenon
      <4>4. Head(wire) = wire[1]
        BY <3>1
      <4> QED
        BY <1>5, <3>1, <3>2, <4>3, <4>4 DEF onStateChanged, LastSent, hub
    <3>3. CASE Tail(wire) # << >>
      <4>1. Tail(wire)[Len(Tail(wire))] = wire[Len(wire)]
        BY <3>1, <3>3
      <4> QED
        BY <1>5, <3>1, <3>3, <4>1 DEF onStateChanged, LastSent, hub
    <3> QED
      BY <3>2, <3>3
  <2>3. IntentFollows'
    BY <1>5
       DEF onStateChanged, IntentFollows, TypeOK, Snapshots, hub, link, client, bounds
  <2>4. Applied'
    BY <1>5
       DEF onStateChanged, Applied, ClockDiscipline, NotNewer, LastSent, IntentFollows, Shown, RunStateOf, TypeOK, Snapshots, hub, link, client, bounds
  <2> QED
    BY <2>1, <2>2, <2>3, <2>4
<1>6. CASE collect
  <2>1. ClockDiscipline'
    BY <1>6
       DEF collect, applyRemoteState, ClockDiscipline, NotNewer, TypeOK, Snapshots, hub, link, client, bounds
  <2>2. LastSent'
    BY <1>6
       DEF collect, applyRemoteState, LastSent, TypeOK, Snapshots, hub, link, client, bounds
  <2>3. IntentFollows'
    BY <1>6
       DEF collect, applyRemoteState, IntentFollows, TypeOK, Snapshots, hub, link, client, bounds
  <2>4. Applied'
    BY <1>6
       DEF collect, applyRemoteState, Applied, ClockDiscipline, NotNewer, LastSent, IntentFollows, Shown, RunStateOf, TypeOK, Snapshots, hub, link, client, bounds
  <2> QED
    BY <2>1, <2>2, <2>3, <2>4
<1>7. CASE handleSyncState
  <2>1. ClockDiscipline'
    BY <1>7
       DEF handleSyncState, ClockDiscipline, NotNewer, TypeOK, Snapshots, hub, link, client, bounds
  <2>2. LastSent'
    BY <1>7
       DEF handleSyncState, LastSent, TypeOK, Snapshots, hub, link, client, bounds
  <2>3. IntentFollows'
    BY <1>7
       DEF handleSyncState, IntentFollows, TypeOK, Snapshots, hub, link, client, bounds
  <2>4. Applied'
    BY <1>7
       DEF handleSyncState, Applied, ClockDiscipline, NotNewer, LastSent, IntentFollows, Shown, RunStateOf, TypeOK, Snapshots, hub, link, client, bounds
  <2> QED
    BY <2>1, <2>2, <2>3, <2>4
<1>8. CASE fetchServiceState
  <2>1. ClockDiscipline'
    BY <1>8, EffectiveType
       DEF fetchServiceState, ClockDiscipline, NotNewer, TypeOK, Snapshots, hub, link, client, bounds
  <2>2. LastSent'
    BY <1>8, EffectiveType
       DEF fetchServiceState, LastSent, TypeOK, Snapshots, hub, link, client, bounds
  <2>3. IntentFollows'
    BY <1>8, EffectiveType
       DEF fetchServiceState, IntentFollows, TypeOK, Snapshots, hub, link, client, bounds
  <2>4. Applied'
    BY <1>8, EffectiveType
       DEF fetchServiceState, Applied, ClockDiscipline, NotNewer, LastSent, IntentFollows, Shown, RunStateOf, TypeOK, Snapshots, hub, link, client, bounds
  <2> QED
    BY <2>1, <2>2, <2>3, <2>4
<1>9. CASE applyFetched
  <2>1. ClockDiscipline'
    BY <1>9
       DEF applyFetched, applyRemoteState, ClockDiscipline, NotNewer, TypeOK, Snapshots, hub, link, client, bounds
  <2>2. LastSent'
    BY <1>9
       DEF applyFetched, applyRemoteState, LastSent, TypeOK, Snapshots, hub, link, client, bounds
  <2>3. IntentFollows'
    BY <1>9
       DEF applyFetched, applyRemoteState, IntentFollows, TypeOK, Snapshots, hub, link, client, bounds
  <2>4. Applied'
    BY <1>9
       DEF applyFetched, applyRemoteState, Applied, ClockDiscipline, NotNewer, LastSent, IntentFollows, Shown, RunStateOf, TypeOK, Snapshots, hub, link, client, bounds
  <2> QED
    BY <2>1, <2>2, <2>3, <2>4
<1>10. CASE fetchFails
  <2>1. ClockDiscipline'
    BY <1>10
       DEF fetchFails, ClockDiscipline, NotNewer, TypeOK, Snapshots, hub, link, client, bounds
  <2>2. LastSent'
    BY <1>10
       DEF fetchFails, LastSent, TypeOK, Snapshots, hub, link, client, bounds
  <2>3. IntentFollows'
    BY <1>10
       DEF fetchFails, IntentFollows, TypeOK, Snapshots, hub, link, client, bounds
  <2>4. Applied'
    BY <1>10
       DEF fetchFails, Applied, ClockDiscipline, NotNewer, LastSent, IntentFollows, Shown, RunStateOf, TypeOK, Snapshots, hub, link, client, bounds
  <2> QED
    BY <2>1, <2>2, <2>3, <2>4
<1>11. CASE kill
  <2>1. ClockDiscipline'
    BY <1>11
       DEF kill, ClockDiscipline, NotNewer, TypeOK, Snapshots, hub, link, client, bounds
  <2>2. LastSent'
    BY <1>11
       DEF kill, LastSent, TypeOK, Snapshots, hub, link, client, bounds
  <2>3. IntentFollows'
    BY <1>11
       DEF kill, IntentFollows, TypeOK, Snapshots, hub, link, client, bounds
  <2>4. Applied'
    BY <1>11
       DEF kill, Applied, ClockDiscipline, NotNewer, LastSent, IntentFollows, Shown, RunStateOf, TypeOK, Snapshots, hub, link, client, bounds
  <2> QED
    BY <2>1, <2>2, <2>3, <2>4
<1>12. CASE triggerStart \/ triggerStop \/ replied \/ onBoot
  <2>1. PICK state \in UiStates, active \in BOOLEAN : writeRunState(state, active)
    BY <1>12, OwnWrites DEF TypeOK
  <2>2. /\ overwritten' = TRUE
        /\ UNCHANGED <<clock, burst, current, registered, wire, remoteStateFlow, collected, fetched,
                       lastAppliedSeq>>
    BY <2>1 DEF writeRunState, link
  <2>3. ClockDiscipline' /\ LastSent'
    BY <2>2 DEF ClockDiscipline, NotNewer, LastSent
  <2>4. IntentFollows' /\ Applied'
    BY <2>2 DEF IntentFollows, Applied
  <2> QED
    BY <2>3, <2>4
<1>13. CASE UNCHANGED vars
    BY <1>13 DEF vars, hub, link, client, bounds, ClockDiscipline, NotNewer, LastSent, IntentFollows, Applied, Shown
<1> QED
    BY <1>1, <1>2, <1>3, <1>4, <1>5, <1>6, <1>7, <1>8, <1>9, <1>10, <1>11, <1>12, <1>13
       DEF Next, App

\* The hub, the wire and the app keep to their types; the lock of the app is
\* held over a pull exactly while there is something fetched to apply.
THEOREM TypeCorrect == Spec => []TypeOK
<1>1. Init => TypeOK
  <2> SUFFICES ASSUME Init PROVE TypeOK
    OBVIOUS
  <2>1. current \in Snapshots /\ wire \in Seq(Snapshots)
    BY FeedAssumption, SnapshotType DEF Init
  <2>2. /\ clock \in 1 .. MaxClock /\ burst \in 0 .. MaxBurst /\ lastAppliedSeq \in 0 .. MaxClock
        /\ transitions \in 0 .. MaxTransitions /\ pulls \in 0 .. MaxPulls
        /\ kills \in 0 .. MaxKills /\ writes \in 0 .. MaxWrites
    BY FeedAssumption, BurstAssumption DEF Init
  <2> QED
    BY <2>1, <2>2 DEF Init, TypeOK, UiStates
<1> QED
    BY <1>1, TypeStep, PTL DEF Spec

\* The inductive invariant holds of every behaviour of StateHub.kt, the Binder
\* and GlobalState.kt.
THEOREM Safety == Spec => []Inv
<1>1. Init => Inv
    BY FeedAssumption, BurstAssumption
       DEF Init, Inv, ClockDiscipline, NotNewer, LastSent, IntentFollows, Applied
<1> QED
    BY <1>1, TypeCorrect, InvStep, PTL DEF Spec

\* Once everything was delivered the app shows the last transition, unless it has
\* written its run state itself since, for any number of transitions, pulls, writes of
\* its own and deaths of the service process.
THEOREM LastTransitionShown == Spec => []LaterTransitionWins
<1>1. Inv => LaterTransitionWins
    BY DEF Inv, LaterTransitionWins, Delivered, LastSent, Applied
<1> QED
    BY <1>1, Safety, PTL
=============================================================================
