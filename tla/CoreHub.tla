------------------------------ MODULE CoreHub ------------------------------
(***************************************************************************)
(* The run controller of the Go core (core/hub.go, core/common.go): the    *)
(* run flag, the loaded configuration, the listeners and the desktop TUN   *)
(* device, and the two background forwarders that feed the Flutter UI.     *)
(*                                                                         *)
(* Every IPC request runs on a goroutine of its own (go handleAction), so  *)
(* handlers interleave freely.  What they share is guarded by runLock,     *)
(* except four atomics (isInit, uiActive, screenActive, tunUp), the        *)
(* request forwarder's channel (requestChMu), the connections it has seen  *)
(* (requestMu) and the log subscription (logMu).  A section under runLock  *)
(* is one step when it waits for no other lock; the stop of the request    *)
(* forwarder nests all three, and every wait in it ends a step (a lock     *)
(* names its holder between steps).  A process p of Procs is a request     *)
(* together with the goroutine it spawns, which runs after the answer.     *)
(***************************************************************************)
EXTENDS Naturals

CONSTANTS
    Procs,      \* requests in flight (go handleAction)
    Chans,      \* stop channels of health forwarders; a goroutine listens on each
    RequestChans, \* likewise of request forwarders
    Ports,      \* mixed-port values; 0 closes the listener
    TunFlags,   \* values of tun.enable in the configurations that are sent
    None,       \* the nil of the locks, currentConfig and the stop channels
    Android,    \* runtime.GOOS == "android"
    Methods,    \* the requests the clients send (names of constant.go, lib_android.go)
    WarmTicks   \* warm-up emits of the health forwarder (4 in the code)

ASSUME CoreHubAssumption ==
    /\ None \notin Procs \cup Chans \cup RequestChans
    /\ None \notin Ports /\ None \notin BOOLEAN
    /\ Ports \subseteq Nat /\ 0 \in Ports
    /\ TunFlags \subseteq BOOLEAN
    /\ Android \in BOOLEAN
    /\ WarmTicks \in Nat

Configs == [port : Ports, tun : BOOLEAN]

ASSUME NoneIsNoConfig == None \notin Configs

\* config.DefaultRawConfig(): no port, TUN disabled.
DefaultConfig == [port |-> 0, tun |-> FALSE]

VARIABLES
    runLock,            \* holder of runLock between two steps, or None
    isInit, uiActive, screenActive, tunUp,              \* the atomics
    isRunning, currentConfig, pendingTunEnable,         \* under runLock
    bound,              \* port the listeners were last told to serve, 0 = closed
    tun,                \* desktop TUN device: "down", "up", "failed" to open
    healthCheckStopCh,  \* channel of the current health forwarder, or None
    healthOpen,         \* health channels not closed yet
    healthPc,           \* where the goroutine of a health channel is
    warm,               \* warm-up emits it has left
    requestStopCh, requestOpen, requestAlive,   \* likewise for the requests
    requestChMu,        \* the process that holds it between two steps, or None
    requestMu,          \* likewise the forwarder goroutine, while it sends
    logSubscriber,      \* logSubscriber # nil
    logSubs,            \* subscriptions (and pump goroutines) alive
    fresh,              \* providers touched less than one interval ago
    pc, ret             \* where each process is; where it goes after a call

hub     == <<isRunning, currentConfig, pendingTunEnable, bound, tun>>
health  == <<healthCheckStopCh, healthOpen, healthPc, warm>>
request == <<requestStopCh, requestOpen, requestAlive, requestChMu, requestMu>>
atomics == <<isInit, uiActive, screenActive, tunUp>>
logs    == <<logSubscriber, logSubs>>
vars    == <<runLock, atomics, hub, health, request, logs, fresh, pc, ret>>

-----------------------------------------------------------------------------
(* Listeners.                                                              *)

\* listener.ReCreateTun: opening the device may fail, closing it does not.
ReCreateTun(enable) == IF enable THEN {"up", "failed"} ELSE {"down"}

\* updateListeners(): nothing while stopped or unconfigured; otherwise every
\* port again, and the TUN device except on Android.
updateListeners(running, cfg) ==
    IF running /\ cfg # None
    THEN /\ bound' = cfg.port
         /\ IF Android THEN tun' = tun ELSE tun' \in ReCreateTun(cfg.tun)
    ELSE UNCHANGED <<bound, tun>>

\* stopListeners(): every port to 0 and, except on Android, an empty TUN
\* configuration; listener.Cleanup() closes a device still open.
stopListeners ==
    /\ bound' = 0
    /\ tun' = "down"

-----------------------------------------------------------------------------
(* The forwarders' channels.                                               *)

\* Mutant: the previous channel is overwritten without being closed.
startWithoutClosing ==
    \E c \in Chans :
        /\ healthPc[c] = "off"
        /\ healthCheckStopCh' = c
        /\ healthOpen' = healthOpen \cup {c}
        /\ healthPc' = [healthPc EXCEPT ![c] = "wait"]
        /\ warm' = [warm EXCEPT ![c] = WarmTicks]
        /\ fresh' = TRUE

\* Closes the current channel and makes a new one under one hold of
\* healthCheckChMu, then starts its goroutine.  The touch stamp is renewed.
startHealthCheckForwarder ==
    \E c \in Chans :
        /\ healthPc[c] = "off"
        /\ healthCheckStopCh' = c
        /\ healthOpen' = (healthOpen \ {healthCheckStopCh}) \cup {c}
        /\ healthPc' = [healthPc EXCEPT ![c] = "wait"]
        /\ warm' = [warm EXCEPT ![c] = WarmTicks]
        /\ fresh' = TRUE

stopHealthCheckForwarder ==
    /\ healthCheckStopCh' = None
    /\ healthOpen' = healthOpen \ {healthCheckStopCh}
    /\ UNCHANGED <<healthPc, warm>>

touchGateOpen == screenActive /\ tunUp

\* touchProviders() under runLock, by forwardHealthCheckDelays and by
\* touchProvidersSafely: nothing without a configuration.
touchIfConfigured == fresh' = (fresh \/ currentConfig # None)

-----------------------------------------------------------------------------
(* Control flow of a process.                                              *)

Goto(p, l) == pc' = [pc EXCEPT ![p] = l]

\* A request arrives: p is a new goroutine.
Begin(p, l) == pc[p] = "idle" /\ Goto(p, l)

\* Serves a request in one step.
Serve(p) == pc[p] = "idle" /\ pc' = pc

At(p, l, m) == pc[p] = l /\ Goto(p, m)

\* A call that goes on at l when it returns, and its return.
Call(p, callee, l) == Goto(p, callee) /\ ret' = [ret EXCEPT ![p] = l]
Return(p) == Call(p, ret[p], "idle")

\* A whole section under runLock.
Locked == runLock = None /\ runLock' = None

-----------------------------------------------------------------------------
(* Requests: initialisation, start, stop, shutdown, configuration.         *)

handleInitClash(p) ==
    /\ Serve(p)
    /\ isInit' = TRUE /\ uiActive' = TRUE /\ screenActive' = TRUE
    /\ UNCHANGED <<runLock, tunUp, hub, health, request, logs, fresh, ret>>

handleStartListener(p) ==
    /\ Locked
    /\ IF isRunning
       THEN Serve(p) /\ UNCHANGED hub
       ELSE /\ Begin(p, "start_health")
            /\ isRunning' = TRUE
            /\ currentConfig' =
                 IF currentConfig = None THEN None
                 ELSE [currentConfig EXCEPT !.tun = pendingTunEnable /\ ~Android]
            /\ updateListeners(TRUE, currentConfig')
            /\ UNCHANGED pendingTunEnable
    /\ UNCHANGED <<atomics, health, request, logs, fresh, ret>>

\* Mutant: no re-check under runLock.
startHealthUnchecked(p) ==
    /\ Locked
    /\ At(p, "start_health", "start_ui")
    /\ startHealthCheckForwarder
    /\ UNCHANGED <<atomics, hub, request, logs, ret>>

\* The goroutine of handleStartListener: the re-check under runLock.
startHealthStep(p) ==
    /\ Locked
    /\ IF ~isRunning \/ currentConfig = None
       THEN At(p, "start_health", "idle") /\ UNCHANGED <<health, fresh>>
       ELSE At(p, "start_health", "start_ui") /\ startHealthCheckForwarder
    /\ UNCHANGED <<atomics, hub, request, logs, ret>>

\* ... and the request forwarder, if uiActive is set when it is read.
startUiStep(p) ==
    /\ At(p, "start_ui", IF uiActive THEN "request_check" ELSE "idle")
    /\ UNCHANGED <<runLock, atomics, hub, health, request, logs, fresh, ret>>

\* handleStopListener holds runLock while it stops the request forwarder ...
handleStopListener(p) ==
    /\ pc[p] = "idle" /\ Call(p, "stop_request", "stop_end")
    /\ runLock = None /\ runLock' = p
    /\ isRunning' = FALSE
    /\ UNCHANGED <<atomics, currentConfig, pendingTunEnable, bound, tun, health,
                   request, logs, fresh>>

\* ... and then the listeners.
stopEndStep(p) ==
    /\ At(p, "stop_end", "idle")
    /\ stopListeners
    /\ runLock' = None
    /\ UNCHANGED <<atomics, isRunning, currentConfig, pendingTunEnable, health, request,
                   logs, fresh, ret>>

\* Mutant: a second start subscribes without ending the first subscription.
startLogTwice(p) ==
    /\ Serve(p)
    /\ logSubs' = logSubs + 1
    /\ logSubscriber' = TRUE
    /\ UNCHANGED <<runLock, atomics, hub, health, request, fresh, ret>>

handleStartLog(p) ==
    /\ Serve(p)
    /\ logSubs' = (IF logSubscriber THEN logSubs - 1 ELSE logSubs) + 1
    /\ logSubscriber' = TRUE
    /\ UNCHANGED <<runLock, atomics, hub, health, request, fresh, ret>>

stopLog ==
    /\ logSubs' = IF logSubscriber THEN logSubs - 1 ELSE logSubs
    /\ logSubscriber' = FALSE

handleStopLog(p) ==
    /\ Serve(p) /\ stopLog
    /\ UNCHANGED <<runLock, atomics, hub, health, request, fresh, ret>>

handleShutdown(p) ==
    /\ pc[p] = "idle" /\ Call(p, "stop_request", "shutdown_end")
    /\ runLock = None /\ runLock' = p
    /\ stopHealthCheckForwarder
    /\ UNCHANGED <<atomics, hub, request, logs, fresh>>

\* pendingTunEnable survives: only the next configuration overwrites it.
shutdownEndStep(p) ==
    /\ At(p, "shutdown_end", "idle")
    /\ stopLog
    /\ stopListeners
    /\ isInit' = FALSE /\ isRunning' = FALSE /\ tunUp' = FALSE
    /\ currentConfig' = None
    /\ runLock' = None
    /\ UNCHANGED <<uiActive, screenActive, pendingTunEnable, health, request, fresh, ret>>

\* Mutant: the TUN flag is not masked while the core is stopped.
setupWhileStopped(cfg) ==
    /\ currentConfig' = cfg
    /\ pendingTunEnable' = cfg.tun
    /\ bound' = cfg.port
    /\ tun' \in ReCreateTun(cfg.tun /\ ~Android)
    /\ UNCHANGED isRunning
    /\ startHealthCheckForwarder

\* setupConfig: executor.ApplyConfig binds the ports even while stopped, but
\* opens the TUN device only while running on desktop; updateListeners then
\* asks for the same again.
setupConfig(cfg) ==
    /\ currentConfig' = cfg
    /\ pendingTunEnable' = cfg.tun
    /\ bound' = cfg.port
    /\ tun' \in ReCreateTun(cfg.tun /\ isRunning /\ ~Android)
    /\ UNCHANGED isRunning
    /\ startHealthCheckForwarder

\* A request that does not parse sets the default configuration up.
handleSetupConfig(p) ==
    /\ Locked /\ Serve(p)
    /\ \E cfg \in [port : Ports, tun : TunFlags] \cup {DefaultConfig} : setupConfig(cfg)
    /\ UNCHANGED <<atomics, request, logs, ret>>

\* Mutant: the patch is stored and the listeners are left alone.
patchWithoutListeners(port, enable) ==
    /\ currentConfig' =
         [port |-> IF port = None THEN currentConfig.port ELSE port,
          tun  |-> IF enable = None THEN currentConfig.tun ELSE enable]
    /\ pendingTunEnable' = IF enable = None THEN pendingTunEnable ELSE enable
    /\ UNCHANGED <<bound, tun, isRunning>>

\* updateConfig: a patch of the port, of the TUN flag, of both or of neither
\* (None); the flag is remembered for the next start.
updateConfig(port, enable) ==
    /\ currentConfig' =
         [port |-> IF port = None THEN currentConfig.port ELSE port,
          tun  |-> IF enable = None THEN currentConfig.tun ELSE enable]
    /\ pendingTunEnable' = IF enable = None THEN pendingTunEnable ELSE enable
    /\ updateListeners(isRunning, currentConfig')
    /\ UNCHANGED isRunning

handleUpdateConfig(p) ==
    /\ Locked /\ Serve(p)
    /\ IF currentConfig = None
       THEN UNCHANGED hub
       ELSE \E port \in Ports \cup {None}, enable \in TunFlags \cup {None} :
                updateConfig(port, enable)
    /\ UNCHANGED <<atomics, health, request, logs, fresh, ret>>

-----------------------------------------------------------------------------
(* The start and the stop of the request forwarder.  Both take requestChMu *)
(* and under it requestMu, which the forwarder holds while it sends; the   *)
(* start, and the stop in handleStopListener and handleShutdown, hold      *)
(* runLock all the while.                                                  *)

\* Mutant: the run flags are not read again under runLock.
requestUnchecked(p) ==
    /\ runLock = None /\ runLock' = p
    /\ At(p, "request_check", "request_ch")
    /\ UNCHANGED <<atomics, hub, health, request, logs, fresh, ret>>

\* startRequestForwarder takes runLock and reads the two run flags ...
requestCheckStep(p) ==
    /\ runLock = None
    /\ pc[p] = "request_check"
    /\ IF isRunning \/ tunUp
       THEN runLock' = p /\ Goto(p, "request_ch") /\ UNCHANGED ret
       ELSE runLock' = None /\ Return(p)
    /\ UNCHANGED <<atomics, hub, health, request, logs, fresh>>

\* Mutant: it looks at the channel without waiting for requestChMu.
requestChUnlocked(p) ==
    /\ pc[p] = "request_ch"
    /\ IF requestStopCh = None
       THEN requestChMu' = p /\ Goto(p, "request_start") /\ UNCHANGED <<runLock, ret>>
       ELSE runLock' = None /\ Return(p) /\ UNCHANGED requestChMu
    /\ UNCHANGED <<atomics, hub, health, requestStopCh, requestOpen, requestAlive,
                   requestMu, logs, fresh>>

\* ... then takes requestChMu, and leaves a forwarder that runs alone ...
requestChStep(p) ==
    /\ requestChMu = None
    /\ pc[p] = "request_ch"
    /\ IF requestStopCh = None
       THEN requestChMu' = p /\ Goto(p, "request_start") /\ UNCHANGED <<runLock, ret>>
       ELSE runLock' = None /\ Return(p) /\ UNCHANGED requestChMu
    /\ UNCHANGED <<atomics, hub, health, requestStopCh, requestOpen, requestAlive,
                   requestMu, logs, fresh>>

\* ... forgets the connections seen under requestMu, makes the channel, and
\* releases every lock.
requestStartStep(p) ==
    /\ requestMu = None
    /\ pc[p] = "request_start" /\ Return(p)
    /\ \E c \in RequestChans \ requestAlive :
          /\ requestStopCh' = c
          /\ requestOpen' = requestOpen \cup {c}
          /\ requestAlive' = requestAlive \cup {c}
    /\ requestChMu' = None /\ runLock' = None
    /\ UNCHANGED <<atomics, hub, health, requestMu, logs, fresh>>

\* stopRequestForwarder closes the channel under requestChMu ...
stopRequestForwarder(p) ==
    /\ requestChMu = None
    /\ pc[p] = "stop_request"
    /\ IF requestStopCh = None
       THEN Return(p) /\ UNCHANGED request
       ELSE /\ requestChMu' = p
            /\ requestStopCh' = None
            /\ requestOpen' = requestOpen \ {requestStopCh}
            /\ Goto(p, "stop_seen")
            /\ UNCHANGED <<ret, requestAlive, requestMu>>
    /\ UNCHANGED <<runLock, atomics, hub, health, logs, fresh>>

\* ... and forgets the connections seen, once requestMu is free.
stopSeenStep(p) ==
    /\ requestMu = None
    /\ pc[p] = "stop_seen" /\ Return(p)
    /\ requestChMu' = None
    /\ UNCHANGED <<runLock, atomics, hub, health, requestStopCh, requestOpen,
                   requestAlive, requestMu, logs, fresh>>

-----------------------------------------------------------------------------
(* Requests: foreground, screen and VPN signals.                           *)

\* Also what setEventListener(nil) does, with active = FALSE.
handleSetUiActive(p, active) ==
    /\ Begin(p, IF active THEN "ui_running" ELSE "stop_request")
    /\ uiActive' = active
    /\ UNCHANGED <<runLock, isInit, screenActive, tunUp, hub, health, request,
                   logs, fresh, ret>>

\* running := isRunning under runLock, which is released before it is used.
uiRunningStep(p) ==
    /\ Locked
    /\ pc[p] = "ui_running"
    /\ IF isRunning THEN Call(p, "request_check", "ui_flush")
       ELSE Goto(p, "ui_tun") /\ UNCHANGED ret
    /\ UNCHANGED <<atomics, hub, health, request, logs, fresh>>

uiTunStep(p) ==
    /\ pc[p] = "ui_tun"
    /\ IF tunUp THEN Call(p, "request_check", "ui_flush")
       ELSE Goto(p, "ui_flush") /\ UNCHANGED ret
    /\ UNCHANGED <<runLock, atomics, hub, health, request, logs, fresh>>

\* go forwardHealthCheckDelays()
uiFlushStep(p) ==
    /\ Locked /\ At(p, "ui_flush", "idle")
    /\ touchIfConfigured
    /\ UNCHANGED <<atomics, hub, health, request, logs, ret>>

\* Only the off -> on edge goes on, and only with a tunnel or a UI.
handleSetScreenActive(p, active) ==
    /\ Begin(p, IF active /\ ~screenActive THEN "screen_gate" ELSE "idle")
    /\ screenActive' = active
    /\ UNCHANGED <<runLock, isInit, uiActive, tunUp, hub, health, request,
                   logs, fresh, ret>>

screenGateStep(p) ==
    /\ At(p, "screen_gate", IF tunUp \/ uiActive THEN "screen_config" ELSE "idle")
    /\ UNCHANGED <<runLock, atomics, hub, health, request, logs, fresh, ret>>

screenConfigStep(p) ==
    /\ Locked
    /\ At(p, "screen_config",
          IF currentConfig # None /\ ~fresh THEN "screen_touch" ELSE "idle")
    /\ UNCHANGED <<atomics, hub, health, request, logs, fresh, ret>>

screenTouchStep(p) ==
    /\ Locked /\ At(p, "screen_touch", "idle")
    /\ touchIfConfigured
    /\ UNCHANGED <<atomics, hub, health, request, logs, ret>>

\* handleStopTun clears the flag under tunLock, not runLock, and leaves the
\* request forwarder alone.
handleStopTun(p) ==
    /\ Serve(p)
    /\ tunUp' = FALSE
    /\ UNCHANGED <<runLock, isInit, uiActive, screenActive, hub, health, request,
                   logs, fresh, ret>>

\* handleStartTun stops first, looks at the configuration under runLock, and
\* opens the device after releasing it; an open that fails leaves tunUp alone.
handleStartTun(p) ==
    /\ Begin(p, "tun_config")
    /\ tunUp' = FALSE
    /\ UNCHANGED <<runLock, isInit, uiActive, screenActive, hub, health, request,
                   logs, fresh, ret>>

tunConfigStep(p) ==
    /\ Locked
    /\ At(p, "tun_config", IF currentConfig = None THEN "idle" ELSE "tun_open")
    /\ UNCHANGED <<atomics, hub, health, request, logs, fresh, ret>>

tunOpenStep(p) ==
    /\ At(p, "tun_open", "idle")
    /\ tunUp' \in {tunUp, TRUE}
    /\ UNCHANGED <<runLock, isInit, uiActive, screenActive, hub, health, request,
                   logs, fresh, ret>>

-----------------------------------------------------------------------------
(* The forwarder goroutines.                                               *)

\* Mutant: a tick only serves the UI.
tickForUiOnly(c) ==
    /\ healthPc[c] = "wait"
    /\ warm' = [warm EXCEPT ![c] = IF @ > 0 THEN @ - 1 ELSE 0]
    /\ healthPc' = [healthPc EXCEPT ![c] = IF uiActive THEN "emit" ELSE "wait"]
    /\ UNCHANGED <<runLock, atomics, hub, healthCheckStopCh, healthOpen, request,
                   logs, fresh, pc, ret>>

\* The timer of the select fires.  A warm-up tick only emits; a later one
\* emits in the foreground and otherwise touches while the gate is open.
healthTick(c) ==
    /\ healthPc[c] = "wait"
    /\ warm' = [warm EXCEPT ![c] = IF @ > 0 THEN @ - 1 ELSE 0]
    /\ healthPc' = [healthPc EXCEPT ![c] =
                      IF uiActive THEN "emit"
                      ELSE IF warm[c] = 0 /\ touchGateOpen THEN "touch"
                      ELSE "wait"]
    /\ UNCHANGED <<runLock, atomics, hub, healthCheckStopCh, healthOpen, request,
                   logs, fresh, pc, ret>>

\* forwardHealthCheckDelays or touchProvidersSafely, then back to the select.
healthTouch(c) ==
    /\ Locked
    /\ healthPc[c] \in {"emit", "touch"}
    /\ healthPc' = [healthPc EXCEPT ![c] = "wait"]
    /\ touchIfConfigured
    /\ UNCHANGED <<atomics, hub, healthCheckStopCh, healthOpen, warm, request,
                   logs, pc, ret>>

\* Mutant: only the warm-up loop listens to the channel.
exitInWarmUpOnly(c) ==
    /\ healthPc[c] = "wait" /\ c \notin healthOpen /\ warm[c] > 0
    /\ healthPc' = [healthPc EXCEPT ![c] = "off"]
    /\ UNCHANGED <<runLock, atomics, hub, healthCheckStopCh, healthOpen, warm,
                   request, logs, fresh, pc, ret>>

\* The closed channel is selected: the goroutine returns.
healthExit(c) ==
    /\ healthPc[c] = "wait" /\ c \notin healthOpen
    /\ healthPc' = [healthPc EXCEPT ![c] = "off"]
    /\ UNCHANGED <<runLock, atomics, hub, healthCheckStopCh, healthOpen, warm,
                   request, logs, fresh, pc, ret>>

\* The ticker fires: forwardNewRequests takes requestMu ...
requestTick(c) ==
    /\ c \in requestAlive /\ requestMu = None
    /\ requestMu' = c
    /\ UNCHANGED <<runLock, atomics, hub, health, requestStopCh, requestOpen,
                   requestAlive, requestChMu, logs, fresh, pc, ret>>

\* Mutant: it looks, under requestChMu, whether it was stopped while it sent.
requestSentUnlessStopped(c) ==
    /\ requestMu = c /\ requestChMu = None
    /\ requestMu' = None
    /\ UNCHANGED <<runLock, atomics, hub, health, requestStopCh, requestOpen,
                   requestAlive, requestChMu, logs, fresh, pc, ret>>

\* ... and holds it until every new connection has been sent.
requestSent(c) ==
    /\ requestMu = c
    /\ requestMu' = None
    /\ UNCHANGED <<runLock, atomics, hub, health, requestStopCh, requestOpen,
                   requestAlive, requestChMu, logs, fresh, pc, ret>>

requestExit(c) ==
    /\ c \in requestAlive \ requestOpen /\ requestMu # c
    /\ requestAlive' = requestAlive \ {c}
    /\ UNCHANGED <<runLock, atomics, hub, health, requestStopCh, requestOpen,
                   requestChMu, requestMu, logs, fresh, pc, ret>>

\* One interval without a touch.
intervalElapses ==
    /\ fresh /\ fresh' = FALSE
    /\ UNCHANGED <<runLock, atomics, hub, health, request, logs, pc, ret>>

-----------------------------------------------------------------------------
Init ==
    /\ runLock = None
    /\ isInit = FALSE /\ uiActive = FALSE /\ screenActive = FALSE /\ tunUp = FALSE
    /\ isRunning = FALSE /\ currentConfig = None /\ pendingTunEnable = FALSE
    /\ bound = 0 /\ tun = "down"
    /\ healthCheckStopCh = None /\ healthOpen = {}
    /\ healthPc = [c \in Chans |-> "off"] /\ warm = [c \in Chans |-> 0]
    /\ requestStopCh = None /\ requestOpen = {} /\ requestAlive = {}
    /\ requestChMu = None /\ requestMu = None
    /\ logSubscriber = FALSE /\ logSubs = 0
    /\ fresh = FALSE
    /\ pc = [p \in Procs |-> "idle"] /\ ret = [p \in Procs |-> "idle"]

Request(p) ==
    \/ "initClash" \in Methods /\ handleInitClash(p)
    \/ "startListener" \in Methods /\ handleStartListener(p)
    \/ "stopListener" \in Methods /\ handleStopListener(p)
    \/ "startLog" \in Methods /\ handleStartLog(p)
    \/ "stopLog" \in Methods /\ handleStopLog(p)
    \/ "shutdown" \in Methods /\ handleShutdown(p)
    \/ "setupConfig" \in Methods /\ handleSetupConfig(p)
    \/ "updateConfig" \in Methods /\ handleUpdateConfig(p)
    \/ "setUiActive" \in Methods /\ \E active \in BOOLEAN : handleSetUiActive(p, active)

\* What only the Android service calls.
AndroidRequest(p) ==
    /\ Android
    /\ \/ "startTUN" \in Methods /\ handleStartTun(p)
       \/ "stopTun" \in Methods /\ handleStopTun(p)
       \/ "setScreenActive" \in Methods
            /\ \E active \in BOOLEAN : handleSetScreenActive(p, active)

\* A goroutine goes on with what it was doing.
Step(p) ==
    \/ startHealthStep(p) \/ startUiStep(p)
    \/ stopEndStep(p) \/ shutdownEndStep(p)
    \/ requestCheckStep(p) \/ requestChStep(p) \/ requestStartStep(p)
    \/ stopRequestForwarder(p) \/ stopSeenStep(p)
    \/ uiRunningStep(p) \/ uiTunStep(p) \/ uiFlushStep(p)
    \/ screenGateStep(p) \/ screenConfigStep(p) \/ screenTouchStep(p)
    \/ tunConfigStep(p) \/ tunOpenStep(p)

HealthForwarder(c) == healthTick(c) \/ healthTouch(c) \/ healthExit(c)
RequestForwarder(c) == requestTick(c) \/ requestSent(c) \/ requestExit(c)

Next ==
    \/ \E p \in Procs : Request(p) \/ AndroidRequest(p) \/ Step(p)
    \/ \E c \in Chans : HealthForwarder(c)
    \/ \E c \in RequestChans : RequestForwarder(c)
    \/ intervalElapses

Spec == Init /\ [][Next]_vars

\* Requests may stop coming and time need not pass, but a runnable goroutine
\* runs (strongly fair for what waits for a lock: a Go mutex hands over to a
\* starved waiter), a message is sent in the end, and a select with a closed
\* channel does not pick the timer for ever (the choice among ready cases is
\* random and the timer is re-armed).
Fairness ==
    /\ \A p \in Procs : SF_vars(Step(p))
    /\ \A c \in Chans : /\ SF_vars(healthTouch(c)) /\ SF_vars(healthExit(c))
                        /\ WF_vars(healthTick(c))
    /\ \A c \in RequestChans : WF_vars(requestSent(c)) /\ SF_vars(requestExit(c))

FairSpec == Spec /\ Fairness

-----------------------------------------------------------------------------
(* Properties.                                                             *)

Labels == {"idle", "start_health", "start_ui", "stop_end", "shutdown_end",
           "request_check", "request_ch", "request_start", "stop_request", "stop_seen",
           "ui_running", "ui_tun", "ui_flush", "screen_gate",
           "screen_config", "screen_touch", "tun_config", "tun_open"}

\* The types of the state, with the places a forwarder goroutine can be in.
TypeOK ==
    /\ runLock \in Procs \cup {None}
    /\ isInit \in BOOLEAN /\ uiActive \in BOOLEAN
    /\ screenActive \in BOOLEAN /\ tunUp \in BOOLEAN
    /\ isRunning \in BOOLEAN
    /\ currentConfig \in Configs \cup {None}
    /\ pendingTunEnable \in BOOLEAN
    /\ bound \in Ports /\ tun \in {"down", "up", "failed"}
    /\ healthCheckStopCh \in Chans \cup {None} /\ healthOpen \in SUBSET Chans
    /\ healthPc \in [Chans -> {"off", "wait", "emit", "touch"}]
    /\ warm \in [Chans -> 0..WarmTicks]
    /\ requestStopCh \in RequestChans \cup {None}
    /\ requestOpen \in SUBSET RequestChans /\ requestAlive \in SUBSET RequestChans
    /\ requestChMu \in Procs \cup {None} /\ requestMu \in RequestChans \cup {None}
    /\ logSubscriber \in BOOLEAN /\ logSubs \in Nat
    /\ fresh \in BOOLEAN
    /\ pc \in [Procs -> Labels]
    /\ ret \in [Procs -> {"idle", "ui_flush", "stop_end", "shutdown_end"}]

\* A stop or a shutdown is halfway: it holds runLock, so that nobody else reads
\* what it has not yet brought in line.
Stopping == runLock # None /\ pc[runLock] \notin {"request_ch", "request_start"}

\* A forwarder whose channel is open is the one the controller knows, so that
\* it can be stopped; and the channel the controller would close is open, so
\* that no close panics (hub.go: "a leaked forwarder goroutine").
NoLeakedForwarder ==
    /\ healthOpen = {healthCheckStopCh} \ {None}
    /\ requestOpen = {requestStopCh} \ {None}

\* A health forwarder runs exactly while a configuration is loaded: a start
\* that lags behind a shutdown does not revive it, and no interleaving of
\* start and stop loses it.
HealthForwarderFollowsConfig ==
    ~Stopping => ((healthCheckStopCh # None) <=> (currentConfig # None))

\* On desktop a stopped core has no request forwarder: neither a lagging start
\* nor a foreground signal revives it after handleStopListener.
JournalNeedsListener ==
    ~Stopping /\ ~Android /\ ~isRunning => requestOpen = {}

\* The desktop TUN device is open, or failed to open, exactly while the core
\* runs with a configuration whose TUN flag is set, whatever the order of
\* start, stop, setup and patch; on Android the core never opens one itself.
TunMatchesIntent ==
    ~Stopping =>
       ((tun # "down") <=>
           (~Android /\ isRunning /\ currentConfig # None /\ pendingTunEnable))

\* A running core listens on the port of the configuration in force, and a
\* core without configuration has its listeners closed.
PortsMatchConfig ==
    ~Stopping =>
       IF currentConfig = None THEN bound = 0
       ELSE isRunning => bound = currentConfig.port

\* The only log subscription alive is the one handleStopLog would end.
NoLeakedLogPump == logSubs = IF logSubscriber THEN 1 ELSE 0

\* Where a process is when it is inside stopRequestForwarder, or back from it.
StopPlace(p) == IF pc[p] \in {"stop_request", "stop_seen"} THEN ret[p] ELSE pc[p]

\* Who holds which lock between two steps: runLock a start of the request
\* forwarder, and a stop or a shutdown up to its end; requestChMu a start that
\* makes the channel and a stop that has closed it; requestMu a forwarder
\* goroutine.  And what the holder of runLock relies on.
LockDiscipline ==
    /\ \A p \in Procs :
          /\ pc[p] \in {"request_ch", "request_start"} \/ StopPlace(p) \in {"stop_end", "shutdown_end"}
             <=> runLock = p
          /\ pc[p] \in {"request_start", "stop_seen"} <=> requestChMu = p
          /\ pc[p] \in {"request_check", "request_ch", "request_start"} => ret[p] \in {"idle", "ui_flush"}
          /\ pc[p] \notin {"request_check", "request_ch", "request_start", "stop_request", "stop_seen"} =>
                ret[p] = "idle"
          /\ pc[p] \in {"request_ch", "request_start"} /\ ~Android => isRunning
          /\ pc[p] = "request_start" => requestStopCh = None
          /\ pc[p] \in {"stop_seen", "stop_end", "shutdown_end"} /\ runLock = p => requestStopCh = None
          /\ StopPlace(p) = "stop_end" =>
                /\ ~isRunning
                /\ (healthCheckStopCh # None) <=> (currentConfig # None)
          /\ StopPlace(p) = "shutdown_end" => healthCheckStopCh = None
    /\ requestMu # None => requestMu \in requestAlive

\* On desktop the flag in the configuration is the remembered one, and nothing
\* of the VPN service is in progress.
DesktopDiscipline ==
    ~Android =>
        /\ currentConfig # None => currentConfig.tun = pendingTunEnable
        /\ ~tunUp
        /\ \A p \in Procs : pc[p] \notin {"tun_config", "tun_open"}

\* The inductive invariant: the safety properties and what keeps them true,
\* the lock's holder and the agreement of the two TUN flags.
Inv ==
    /\ NoLeakedForwarder /\ HealthForwarderFollowsConfig
    /\ JournalNeedsListener
    /\ TunMatchesIntent /\ PortsMatchConfig
    /\ NoLeakedLogPump
    /\ LockDiscipline /\ DesktopDiscipline

\* Every request, with the goroutine it spawned, finishes: the locks that a stop
\* nests are taken in one order, the one that the forwarder holds last, and none
\* is left held.
RequestsComplete == \A p \in Procs : (pc[p] # "idle") ~> (pc[p] = "idle")

\* A forwarder goroutine whose channel has been closed returns.
ClosedForwardersExit ==
    /\ \A c \in Chans :
          (healthPc[c] # "off" /\ c \notin healthOpen) ~> (healthPc[c] = "off")
    /\ \A c \in RequestChans :
          (c \in requestAlive \ requestOpen) ~> (c \notin requestAlive)

\* While a configuration is loaded and either the UI is in front or the screen
\* is on with the tunnel up, providers are touched again and again ("fallback
\* groups go stale otherwise", hub.go).
ProvidersKeptWarm ==
    <>[](currentConfig # None /\ (uiActive \/ touchGateOpen)) => []<>fresh

\* hub.go of the request forwarder: "it stays uiActive-gated so it never polls
\* during standby".  Between requests, no forwarder runs in the background.
NeverPollsInStandby ==
    (\A p \in Procs : pc[p] = "idle") /\ ~uiActive => requestOpen = {}
=============================================================================
