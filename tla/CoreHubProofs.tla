--------------------------- MODULE CoreHubProofs ---------------------------
(***************************************************************************)
(* Proofs about CoreHub, for any number of requests in flight, of stop     *)
(* channels, of ports and of warm-up ticks, on desktop and on Android.     *)
(*                                                                         *)
(* TypeOK needs NoLeakedLogPump (a subscription is only ended if there is  *)
(* one), and the listed properties need the two disciplines of Inv: who    *)
(* holds which lock between steps and what it relies on, and that the two  *)
(* TUN flags agree.  So one invariant, TypeOK /\ Inv, is shown inductive,  *)
(* one action at a time.                                                   *)
(***************************************************************************)
EXTENDS CoreHub, TLAPS

\* Every step preserves the types.
LEMMA TypeStep ==
    TypeOK /\ NoLeakedLogPump /\ [Next]_vars => TypeOK'
<1> SUFFICES ASSUME TypeOK, NoLeakedLogPump, [Next]_vars
             PROVE  TypeOK'
    OBVIOUS
<1> USE CoreHubAssumption, NoneIsNoConfig DEF TypeOK, Labels, Configs, NoLeakedLogPump
<1>1. ASSUME NEW p \in Procs, handleInitClash(p) PROVE TypeOK'
    BY <1>1 DEF handleInitClash, Serve, hub, health, request, atomics, logs
<1>2. ASSUME NEW p \in Procs, handleStartListener(p) PROVE TypeOK'
  <2>1. CASE isRunning
    BY <1>2, <2>1
       DEF handleStartListener, Locked, Serve, hub, health, request, atomics, logs
  <2>2. CASE ~isRunning
    <3>1. (pendingTunEnable /\ ~Android) \in BOOLEAN
      OBVIOUS
    <3>2. currentConfig' \in Configs \cup {None}
      BY <1>2, <2>2, <3>1 DEF handleStartListener
    <3>3. bound' \in Ports /\ tun' \in {"down", "up", "failed"}
      BY <1>2, <2>2, <3>2 DEF handleStartListener, updateListeners, ReCreateTun
    <3> QED
      BY <1>2, <2>2, <3>2, <3>3
      DEF handleStartListener, Locked, Begin, Goto, health, request, atomics, logs
  <2> QED
    BY <2>1, <2>2
<1>3. ASSUME NEW p \in Procs, handleStopListener(p) PROVE TypeOK'
  <2>1. isRunning' \in BOOLEAN
    BY <1>3, Zenon DEF handleStopListener
  <2> QED
    BY <1>3, <2>1 DEF handleStopListener, Call, Goto, hub, health, request, atomics, logs
<1>4. ASSUME NEW p \in Procs, handleStartLog(p) PROVE TypeOK'
    BY <1>4 DEF handleStartLog, Serve, hub, health, request, atomics, logs
<1>5. ASSUME NEW p \in Procs, handleStopLog(p) PROVE TypeOK'
  <2>1. logSubscriber' \in BOOLEAN
    BY <1>5, Zenon DEF handleStopLog, stopLog
  <2> QED
    BY <1>5, <2>1 DEF handleStopLog, Serve, stopLog, hub, health, request, atomics, logs
<1>6. ASSUME NEW p \in Procs, handleShutdown(p) PROVE TypeOK'
    BY <1>6 DEF handleShutdown, Call, Goto, stopHealthCheckForwarder, hub, health, request, atomics, logs
<1>7. ASSUME NEW p \in Procs, handleSetupConfig(p) PROVE TypeOK'
  <2>1. PICK cfg \in Configs : setupConfig(cfg)
    BY <1>7 DEF handleSetupConfig, DefaultConfig
  <2>2. currentConfig' \in Configs \cup {None} /\ pendingTunEnable' \in BOOLEAN
        /\ bound' \in Ports /\ isRunning' \in BOOLEAN
    BY <2>1 DEF setupConfig
  <2>3. tun' \in {"down", "up", "failed"}
    BY <2>1, Zenon DEF setupConfig, ReCreateTun
  <2>4. /\ healthCheckStopCh' \in Chans \cup {None} /\ healthOpen' \in SUBSET Chans
        /\ healthPc' \in [Chans -> {"off", "wait", "emit", "touch"}]
        /\ warm' \in [Chans -> 0..WarmTicks] /\ fresh' \in BOOLEAN
    BY <2>1 DEF setupConfig, startHealthCheckForwarder
  <2> QED
    BY <1>7, <2>2, <2>3, <2>4 DEF handleSetupConfig, Locked, Serve, request, atomics, logs
<1>8. ASSUME NEW p \in Procs, handleUpdateConfig(p) PROVE TypeOK'
    BY <1>8
       DEF handleUpdateConfig, Locked, Serve, updateConfig, updateListeners, ReCreateTun,
           hub, health, request, atomics, logs
<1>9. ASSUME NEW p \in Procs, NEW active \in BOOLEAN, handleSetUiActive(p, active) PROVE
       TypeOK'
    BY <1>9 DEF handleSetUiActive, Begin, Goto, hub, health, request, atomics, logs
<1>10. ASSUME NEW p \in Procs, NEW active \in BOOLEAN, handleSetScreenActive(p, active)
       PROVE TypeOK'
    BY <1>10 DEF handleSetScreenActive, Begin, Goto, hub, health, request, atomics, logs
<1>11. ASSUME NEW p \in Procs, Android, handleStartTun(p) PROVE TypeOK'
  <2>1. tunUp' \in BOOLEAN
    BY <1>11, Zenon DEF handleStartTun
  <2> QED
    BY <1>11, <2>1 DEF handleStartTun, Begin, Goto, hub, health, request, atomics, logs
<1>12. ASSUME NEW p \in Procs, Android, handleStopTun(p) PROVE TypeOK'
  <2>1. tunUp' \in BOOLEAN
    BY <1>12, Zenon DEF handleStopTun
  <2> QED
    BY <1>12, <2>1 DEF handleStopTun, Serve, hub, health, request, atomics, logs
<1>13. ASSUME NEW p \in Procs, startHealthStep(p) PROVE TypeOK'
  <2>1. fresh' \in BOOLEAN
    BY <1>13, Zenon DEF startHealthStep, startHealthCheckForwarder, TypeOK
  <2> QED
    BY <1>13, <2>1
       DEF startHealthStep, Locked, At, Goto, startHealthCheckForwarder, hub, health,
           request, atomics, logs
<1>14. ASSUME NEW p \in Procs, startUiStep(p) PROVE TypeOK'
    BY <1>14 DEF startUiStep, At, Goto, hub, health, request, atomics, logs
<1>15. ASSUME NEW p \in Procs, requestCheckStep(p) PROVE TypeOK'
    BY <1>15 DEF requestCheckStep, Return, Call, Goto, hub, health, request, atomics, logs
<1>16. ASSUME NEW p \in Procs, requestStartStep(p) PROVE TypeOK'
    BY <1>16 DEF requestStartStep, Return, Call, Goto, hub, health, request, atomics, logs
<1>17. ASSUME NEW p \in Procs, requestChStep(p) PROVE TypeOK'
    BY <1>17 DEF requestChStep, Return, Call, Goto, hub, health, request, atomics, logs
<1>18. ASSUME NEW p \in Procs, uiRunningStep(p) PROVE TypeOK'
    BY <1>18 DEF uiRunningStep, Locked, Call, Goto, hub, health, request, atomics, logs
<1>19. ASSUME NEW p \in Procs, uiTunStep(p) PROVE TypeOK'
    BY <1>19 DEF uiTunStep, Call, Goto, hub, health, request, atomics, logs
<1>20. ASSUME NEW p \in Procs, uiFlushStep(p) PROVE TypeOK'
    BY <1>20
       DEF uiFlushStep, Locked, At, Goto, touchIfConfigured, hub, health, request,
           atomics, logs
<1>21. ASSUME NEW p \in Procs, screenGateStep(p) PROVE TypeOK'
    BY <1>21 DEF screenGateStep, At, Goto, hub, health, request, atomics, logs
<1>22. ASSUME NEW p \in Procs, screenConfigStep(p) PROVE TypeOK'
    BY <1>22 DEF screenConfigStep, Locked, At, Goto, hub, health, request, atomics, logs
<1>23. ASSUME NEW p \in Procs, screenTouchStep(p) PROVE TypeOK'
    BY <1>23
       DEF screenTouchStep, Locked, At, Goto, touchIfConfigured, hub, health, request,
           atomics, logs
<1>24. ASSUME NEW p \in Procs, tunConfigStep(p) PROVE TypeOK'
    BY <1>24 DEF tunConfigStep, Locked, At, Goto, hub, health, request, atomics, logs
<1>25. ASSUME NEW p \in Procs, tunOpenStep(p) PROVE TypeOK'
  <2>1. tunUp' \in BOOLEAN
    BY <1>25, Zenon DEF tunOpenStep
  <2> QED
    BY <1>25, <2>1 DEF tunOpenStep, At, Goto, hub, health, request, atomics, logs
<1>26. ASSUME NEW c \in Chans, healthTick(c) PROVE TypeOK'
    BY <1>26 DEF healthTick, touchGateOpen, hub, health, request, atomics, logs
<1>27. ASSUME NEW c \in Chans, healthTouch(c) PROVE TypeOK'
    BY <1>27
       DEF healthTouch, Locked, touchIfConfigured, hub, health, request, atomics, logs
<1>28. ASSUME NEW c \in Chans, healthExit(c) PROVE TypeOK'
    BY <1>28 DEF healthExit, hub, health, request, atomics, logs
<1>29. ASSUME NEW c \in RequestChans, requestExit(c) PROVE TypeOK'
    BY <1>29 DEF requestExit, hub, health, request, atomics, logs
<1>30. CASE intervalElapses
  <2>1. fresh' \in BOOLEAN
    BY <1>30, Zenon DEF intervalElapses
  <2> QED
    BY <1>30, <2>1 DEF intervalElapses, hub, health, request, atomics, logs
<1>31. CASE UNCHANGED vars
    BY <1>31 DEF vars, hub, health, request, atomics, logs
<1>32. ASSUME NEW p \in Procs, stopEndStep(p) PROVE TypeOK'
    BY <1>32 DEF stopEndStep, At, Goto, stopListeners, hub, health, request, atomics, logs
<1>33. ASSUME NEW p \in Procs, shutdownEndStep(p) PROVE TypeOK'
  <2>1. /\ isInit' \in BOOLEAN /\ isRunning' \in BOOLEAN
        /\ tunUp' \in BOOLEAN /\ logSubscriber' \in BOOLEAN
    BY <1>33, Zenon DEF shutdownEndStep, stopLog
  <2> QED
    BY <1>33, <2>1 DEF shutdownEndStep, At, Goto, stopListeners, stopLog, hub, health, request,
       atomics, logs
<1>34. ASSUME NEW p \in Procs, stopRequestForwarder(p) PROVE TypeOK'
    BY <1>34 DEF stopRequestForwarder, Return, Call, Goto, hub, health, request, atomics, logs
<1>35. ASSUME NEW p \in Procs, stopSeenStep(p) PROVE TypeOK'
    BY <1>35 DEF stopSeenStep, Return, Call, Goto, hub, health, request, atomics, logs
<1>36. ASSUME NEW c \in RequestChans, requestTick(c) PROVE TypeOK'
    BY <1>36 DEF requestTick, hub, health, request, atomics, logs
<1>37. ASSUME NEW c \in RequestChans, requestSent(c) PROVE TypeOK'
    BY <1>37 DEF requestSent, hub, health, request, atomics, logs
<1> QED
    BY <1>1, <1>2, <1>3, <1>4, <1>5, <1>6, <1>7, <1>8, <1>9, <1>10, <1>11, <1>12, <1>13,
           <1>14, <1>15, <1>16, <1>17, <1>18, <1>19, <1>20, <1>21, <1>22, <1>23, <1>24,
           <1>25, <1>26, <1>27, <1>28, <1>29, <1>30, <1>31, <1>32, <1>33, <1>34, <1>35, <1>36,
           <1>37
    DEF Next, Request, AndroidRequest, Step, HealthForwarder, RequestForwarder

\* Every step preserves the inductive invariant.
LEMMA InvStep ==
    TypeOK /\ TypeOK' /\ Inv /\ [Next]_vars => Inv'
<1> SUFFICES ASSUME TypeOK, TypeOK', Inv, [Next]_vars
             PROVE  Inv'
    OBVIOUS
<1> USE CoreHubAssumption, NoneIsNoConfig DEF TypeOK, Labels, Configs, Inv,
           NoLeakedForwarder, HealthForwarderFollowsConfig, JournalNeedsListener,
                  TunMatchesIntent, PortsMatchConfig, NoLeakedLogPump, LockDiscipline,
                  DesktopDiscipline, Stopping, StopPlace
<1>1. ASSUME NEW p \in Procs, handleInitClash(p) PROVE Inv'
    BY <1>1 DEF handleInitClash, Serve, hub, health, request, atomics, logs
<1>2. ASSUME NEW p \in Procs, handleStartListener(p) PROVE Inv'
    BY <1>2
       DEF handleStartListener, Locked, Serve, Begin, Goto, updateListeners, ReCreateTun,
           hub, health, request, atomics, logs
<1>3. ASSUME NEW p \in Procs, handleStopListener(p) PROVE Inv'
    BY <1>3 DEF handleStopListener, Call, Goto, hub, health, request, atomics, logs
<1>4. ASSUME NEW p \in Procs, handleStartLog(p) PROVE Inv'
    BY <1>4 DEF handleStartLog, Serve, hub, health, request, atomics, logs
<1>5. ASSUME NEW p \in Procs, handleStopLog(p) PROVE Inv'
    BY <1>5 DEF handleStopLog, Serve, stopLog, hub, health, request, atomics, logs
<1>6. ASSUME NEW p \in Procs, handleShutdown(p) PROVE Inv'
    BY <1>6 DEF handleShutdown, Call, Goto, stopHealthCheckForwarder, hub, health, request, atomics, logs
<1>7. ASSUME NEW p \in Procs, handleSetupConfig(p) PROVE Inv'
    BY <1>7
       DEF handleSetupConfig, Locked, Serve, setupConfig, startHealthCheckForwarder,
           ReCreateTun, DefaultConfig, hub, health, request, atomics, logs
<1>8. ASSUME NEW p \in Procs, handleUpdateConfig(p) PROVE Inv'
    BY <1>8
       DEF handleUpdateConfig, Locked, Serve, updateConfig, updateListeners, ReCreateTun,
           hub, health, request, atomics, logs
<1>9. ASSUME NEW p \in Procs, NEW active \in BOOLEAN, handleSetUiActive(p, active) PROVE
       Inv'
    BY <1>9 DEF handleSetUiActive, Begin, Goto, hub, health, request, atomics, logs
<1>10. ASSUME NEW p \in Procs, NEW active \in BOOLEAN, handleSetScreenActive(p, active)
       PROVE Inv'
    BY <1>10 DEF handleSetScreenActive, Begin, Goto, hub, health, request, atomics, logs
<1>11. ASSUME NEW p \in Procs, Android, handleStartTun(p) PROVE Inv'
    BY <1>11 DEF handleStartTun, Begin, Goto, hub, health, request, atomics, logs
<1>12. ASSUME NEW p \in Procs, Android, handleStopTun(p) PROVE Inv'
    BY <1>12 DEF handleStopTun, Serve, hub, health, request, atomics, logs
<1>13. ASSUME NEW p \in Procs, startHealthStep(p) PROVE Inv'
    BY <1>13
       DEF startHealthStep, Locked, At, Goto, startHealthCheckForwarder, hub, health,
           request, atomics, logs
<1>14. ASSUME NEW p \in Procs, startUiStep(p) PROVE Inv'
    BY <1>14 DEF startUiStep, At, Goto, hub, health, request, atomics, logs
<1>15. ASSUME NEW p \in Procs, requestCheckStep(p) PROVE Inv'
    BY <1>15 DEF requestCheckStep, Return, Call, Goto, hub, health, request, atomics, logs
<1>16. ASSUME NEW p \in Procs, requestStartStep(p) PROVE Inv'
    BY <1>16 DEF requestStartStep, Return, Call, Goto, hub, health, request, atomics, logs
<1>17. ASSUME NEW p \in Procs, requestChStep(p) PROVE Inv'
    BY <1>17 DEF requestChStep, Return, Call, Goto, hub, health, request, atomics, logs
<1>18. ASSUME NEW p \in Procs, uiRunningStep(p) PROVE Inv'
    BY <1>18 DEF uiRunningStep, Locked, Call, Goto, hub, health, request, atomics, logs
<1>19. ASSUME NEW p \in Procs, uiTunStep(p) PROVE Inv'
    BY <1>19 DEF uiTunStep, Call, Goto, hub, health, request, atomics, logs
<1>20. ASSUME NEW p \in Procs, uiFlushStep(p) PROVE Inv'
    BY <1>20
       DEF uiFlushStep, Locked, At, Goto, touchIfConfigured, hub, health, request,
           atomics, logs
<1>21. ASSUME NEW p \in Procs, screenGateStep(p) PROVE Inv'
    BY <1>21 DEF screenGateStep, At, Goto, hub, health, request, atomics, logs
<1>22. ASSUME NEW p \in Procs, screenConfigStep(p) PROVE Inv'
    BY <1>22 DEF screenConfigStep, Locked, At, Goto, hub, health, request, atomics, logs
<1>23. ASSUME NEW p \in Procs, screenTouchStep(p) PROVE Inv'
    BY <1>23
       DEF screenTouchStep, Locked, At, Goto, touchIfConfigured, hub, health, request,
           atomics, logs
<1>24. ASSUME NEW p \in Procs, tunConfigStep(p) PROVE Inv'
    BY <1>24 DEF tunConfigStep, Locked, At, Goto, hub, health, request, atomics, logs
<1>25. ASSUME NEW p \in Procs, tunOpenStep(p) PROVE Inv'
    BY <1>25 DEF tunOpenStep, At, Goto, hub, health, request, atomics, logs
<1>26. ASSUME NEW c \in Chans, healthTick(c) PROVE Inv'
    BY <1>26 DEF healthTick, touchGateOpen, hub, health, request, atomics, logs
<1>27. ASSUME NEW c \in Chans, healthTouch(c) PROVE Inv'
    BY <1>27
       DEF healthTouch, Locked, touchIfConfigured, hub, health, request, atomics, logs
<1>28. ASSUME NEW c \in Chans, healthExit(c) PROVE Inv'
    BY <1>28 DEF healthExit, hub, health, request, atomics, logs
<1>29. ASSUME NEW c \in RequestChans, requestExit(c) PROVE Inv'
    BY <1>29 DEF requestExit, hub, health, request, atomics, logs
<1>30. CASE intervalElapses
    BY <1>30 DEF intervalElapses, hub, health, request, atomics, logs
<1>31. CASE UNCHANGED vars
    BY <1>31 DEF vars, hub, health, request, atomics, logs
<1>32. ASSUME NEW p \in Procs, stopEndStep(p) PROVE Inv'
    BY <1>32 DEF stopEndStep, At, Goto, stopListeners, hub, health, request, atomics, logs
<1>33. ASSUME NEW p \in Procs, shutdownEndStep(p) PROVE Inv'
    BY <1>33 DEF shutdownEndStep, At, Goto, stopListeners, stopLog, hub, health, request, atomics, logs
<1>34. ASSUME NEW p \in Procs, stopRequestForwarder(p) PROVE Inv'
    BY <1>34 DEF stopRequestForwarder, Return, Call, Goto, hub, health, request, atomics, logs
<1>35. ASSUME NEW p \in Procs, stopSeenStep(p) PROVE Inv'
    BY <1>35 DEF stopSeenStep, Return, Call, Goto, hub, health, request, atomics, logs
<1>36. ASSUME NEW c \in RequestChans, requestTick(c) PROVE Inv'
    BY <1>36 DEF requestTick, hub, health, request, atomics, logs
<1>37. ASSUME NEW c \in RequestChans, requestSent(c) PROVE Inv'
    BY <1>37 DEF requestSent, hub, health, request, atomics, logs
<1> HIDE DEF TypeOK, Inv
<1> QED
    BY <1>1, <1>2, <1>3, <1>4, <1>5, <1>6, <1>7, <1>8, <1>9, <1>10, <1>11, <1>12, <1>13,
           <1>14, <1>15, <1>16, <1>17, <1>18, <1>19, <1>20, <1>21, <1>22, <1>23, <1>24,
           <1>25, <1>26, <1>27, <1>28, <1>29, <1>30, <1>31, <1>32, <1>33, <1>34, <1>35, <1>36,
           <1>37
    DEF Next, Request, AndroidRequest, Step, HealthForwarder, RequestForwarder

\* The initial state satisfies the invariant.
LEMMA InitInv == Init => TypeOK /\ Inv
<1> SUFFICES ASSUME Init PROVE TypeOK /\ Inv
    OBVIOUS
<1> USE CoreHubAssumption, NoneIsNoConfig DEF Init
<1>1. TypeOK
  <2>1. /\ isInit \in BOOLEAN /\ uiActive \in BOOLEAN /\ screenActive \in BOOLEAN
        /\ tunUp \in BOOLEAN /\ isRunning \in BOOLEAN /\ pendingTunEnable \in BOOLEAN
        /\ logSubscriber \in BOOLEAN /\ fresh \in BOOLEAN
    BY Zenon
  <2> QED
    BY <2>1 DEF TypeOK, Labels
<1>2. Inv
    BY DEF Inv, NoLeakedForwarder, HealthForwarderFollowsConfig, JournalNeedsListener,
           TunMatchesIntent, PortsMatchConfig, NoLeakedLogPump, LockDiscipline,
           DesktopDiscipline, Stopping, StopPlace
<1> QED
    BY <1>1, <1>2

\* TypeOK /\ Inv is an invariant of the run controller: hub.go and common.go
\* keep every property of Inv whatever requests arrive and however their
\* goroutines interleave.
THEOREM Safety == Spec => [](TypeOK /\ Inv)
<1>1. Init => TypeOK /\ Inv
    BY InitInv
<1>2. TypeOK /\ Inv /\ [Next]_vars => (TypeOK /\ Inv)'
  <2> SUFFICES ASSUME TypeOK, Inv, [Next]_vars PROVE (TypeOK /\ Inv)'
    OBVIOUS
  <2>1. NoLeakedLogPump
    BY DEF Inv
  <2>2. TypeOK'
    BY <2>1, TypeStep
  <2> QED
    BY <2>2, InvStep
<1> QED
    BY <1>1, <1>2, PTL DEF Spec

\* Types hold in every reachable state.
THEOREM TypeCorrect == Spec => []TypeOK
    BY Safety, PTL

\* No health or request forwarder goroutine of hub.go ever outlives its handle,
\* and no stop channel is closed twice.
THEOREM ForwardersNeverLeak == Spec => []NoLeakedForwarder
<1>1. Inv => NoLeakedForwarder
    BY DEF Inv
<1> QED
    BY Safety, <1>1, PTL

\* The health forwarder exists exactly while setupConfig's configuration is in
\* force: no start goroutine revives it after handleShutdown.
THEOREM ForwarderFollowsConfig == Spec => []HealthForwarderFollowsConfig
<1>1. Inv => HealthForwarderFollowsConfig
    BY DEF Inv
<1> QED
    BY Safety, <1>1, PTL

\* On desktop handleStopListener and handleShutdown leave no request forwarder.
THEOREM JournalStopsWithListener == Spec => []JournalNeedsListener
<1>1. Inv => JournalNeedsListener
    BY DEF Inv
<1> QED
    BY Safety, <1>1, PTL

\* The desktop TUN device follows the run flag and the remembered TUN flag.
THEOREM TunFollowsIntent == Spec => []TunMatchesIntent
<1>1. Inv => TunMatchesIntent
    BY DEF Inv
<1> QED
    BY Safety, <1>1, PTL

\* A running core serves the port of its current configuration.
THEOREM PortsFollowConfig == Spec => []PortsMatchConfig
<1>1. Inv => PortsMatchConfig
    BY DEF Inv
<1> QED
    BY Safety, <1>1, PTL

\* runLock, requestChMu and requestMu are held where hub.go takes them and nowhere
\* else, and whoever holds runLock finds what it relies on.
THEOREM LocksAreDisciplined == Spec => []LockDiscipline
<1>1. Inv => LockDiscipline
    BY DEF Inv
<1> QED
    BY Safety, <1>1, PTL

\* handleStartLog and handleStopLog, in any number and order, leave one pump of
\* the logs while someone listens and none otherwise.
THEOREM LogPumpNeverLeaks == Spec => []NoLeakedLogPump
<1>1. Inv => NoLeakedLogPump
    BY DEF Inv
<1> QED
    BY Safety, <1>1, PTL
=============================================================================
