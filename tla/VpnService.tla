----------------------------- MODULE VpnService -----------------------------
(***************************************************************************)
(* The run control of the Android service process: startService and        *)
(* stopService of RemoteService.kt, the instances of MihoXVpnService.kt    *)
(* with their start commands, cold start, revocation and destruction, and  *)
(* what they share (State.kt, StateHub.kt, the persisted intent flag).     *)
(*                                                                         *)
(* Each operation is a coroutine with a program counter; State.runLock is  *)
(* taken and released where the code does it.  The timeout of useService   *)
(* cancels a coroutine, it does not interrupt the native call it waits     *)
(* for: a start that is late ends first and is then reported as failed.    *)
(* Callbacks of the platform run on the main thread, one at a time.        *)
(* The VPN mode is modelled; CommonService has no tunnel and no restart.   *)
(***************************************************************************)
EXTENDS Naturals, Sequences, FiniteSets

CONSTANTS
    Instances,  \* instances of MihoXVpnService, created one after the other
    Ops,        \* coroutines under way (a bound)
    Events,     \* which events of the environment occur (a bound)
    MaxEvents,  \* how many events occur (a bound)
    None        \* null

EventNames == {"appStart", "appStop", "tileStart", "tileStop", "notificationStop",
               "alwaysOn", "kill", "revoke", "awake", "startFails", "denied",
               "stopFails", "overtake"}

ASSUME VpnAssumption ==
    /\ None \notin Instances \cup Ops /\ "binding" \notin Instances
    /\ Events \subseteq EventNames
    /\ MaxEvents \in Nat

VARIABLES
    flag,       \* SavedParams.isVpnActive(), on disk
    intents,    \* start commands on their way to the service
    hub,        \* StateHub.current.state
    runTime,    \* State.runTime # 0
    delegate,   \* State.delegate: None, "binding" or the instance it is bound to
    tunOwner,   \* State.tunOwner
    coreTun,    \* the tunnel of the core is up (TunHandler.tla)
    runLock,    \* the operation that holds State.runLock, or None
    inst,       \* the instances
    ops,        \* the operations under way
    events      \* events so far

persisted == <<flag, intents>>
state     == <<hub, runTime, delegate>>
tunnel    == <<tunOwner, coreTun>>
vars      == <<persisted, state, tunnel, runLock, inst, ops, events>>

States == {"starting", "running", "stopping", "stopped"}
Commands == {"start", "stop", "null"}
Kinds  == {"none", "startService", "stopService", "stop", "cold", "revoke"}
Places == {"idle", "wait", "proxy", "quickStart", "establish", "modules",
           "startTun", "own", "started", "undo", "rollback", "failed", "commit",
           "persist", "announce", "stop1", "stop2", "stop3", "stop4", "after",
           "unflag", "publish", "self"}

NoOp  == [kind |-> "none", pc |-> "idle", i |-> None]
\* An instance that handleCreate has just set up.  "started" is what the
\* platform knows of it: stopped by stopSelf, or started and (once, sticky)
\* restarted after the process was killed.
Fresh == [life |-> "alive", started |-> "no", tunActive |-> FALSE,
          wakeLock |-> FALSE, modules |-> FALSE, revoked |-> FALSE,
          destroyed |-> FALSE, owned |-> FALSE]
Absent == [Fresh EXCEPT !.life = "none"]

InstanceType == [life : {"none", "alive", "destroying", "dead"},
                 started : {"no", "once", "sticky"},
                 tunActive : BOOLEAN, wakeLock : BOOLEAN, modules : BOOLEAN,
                 revoked : BOOLEAN, destroyed : BOOLEAN, owned : BOOLEAN]
OpType == [kind : Kinds, pc : Places, i : Instances \cup {None}]

TypeOK ==
    /\ flag \in BOOLEAN /\ runTime \in BOOLEAN /\ coreTun \in BOOLEAN
    /\ intents \in Seq(Commands)
    /\ hub \in States
    /\ delegate \in Instances \cup {None, "binding"}
    /\ tunOwner \in Instances \cup {None}
    /\ runLock \in Ops \cup {None}
    /\ inst \in [Instances -> InstanceType]
    /\ ops \in [Ops -> OpType]
    /\ events \in 0 .. MaxEvents

Init ==
    /\ flag = FALSE /\ intents = << >>
    /\ hub = "stopped" /\ runTime = FALSE /\ delegate = None
    /\ tunOwner = None /\ coreTun = FALSE
    /\ runLock = None
    /\ inst = [i \in Instances |-> Absent]
    /\ ops = [o \in Ops |-> NoOp]
    /\ events = 0

-----------------------------------------------------------------------------
(* Helpers *)

At(o, kind, pc)   == ops[o].kind = kind /\ ops[o].pc = pc
Goto(o, pc)       == ops' = [ops EXCEPT ![o].pc = pc]
Finish(o)         == ops' = [ops EXCEPT ![o] = NoOp]
Launch(o, kind, i) == ops' = [ops EXCEPT ![o] = [kind |-> kind, pc |-> "wait", i |-> i]]
\* Coroutines are interchangeable: a new one takes any that is idle.
Idle(o)           == ops[o] = NoOp
Lock(o)           == runLock = None /\ runLock' = o
Unlock            == runLock' = None
InService(o)      == ops[o].i

StopSelf(f, i)    == [f EXCEPT ![i].started = "no"]
\* handleDestroy of IBaseService: the first call publishes, unless something runs.
Destroyed(f, i)   == [f EXCEPT ![i].destroyed = TRUE]
HubAfterDestroy(i) == IF ~inst[i].destroyed /\ ~runTime THEN "stopped" ELSE hub

\* The main thread serves a callback only when no onDestroy is on it.
MainFree == \A i \in Instances : inst[i].life # "destroying"
\* The instance a command or a binding reaches: the live one, or a new one.
Reaches(i) ==
    /\ MainFree
    /\ \/ inst[i].life = "alive"
       \/ /\ inst[i].life = "none"
          /\ \A j \in Instances : inst[j].life # "alive"
Instance(i) == IF inst[i].life = "alive" THEN inst[i] ELSE Fresh
May(e) == e \in Events

-----------------------------------------------------------------------------
(* handleStart, inside startService and the cold start *)

establish(o) ==
    /\ ops[o].pc = "establish"
    /\ \/ /\ inst' = [inst EXCEPT ![InService(o)].tunActive = TRUE]
          /\ Goto(o, "modules")
       \/ /\ May("startFails")
          /\ Goto(o, "failed")
          /\ UNCHANGED inst
    /\ UNCHANGED <<persisted, state, tunnel, runLock, events>>

\* acquireWakeLock and loader.start.
startModules(o) ==
    /\ ops[o].pc = "modules"
    /\ inst' = [inst EXCEPT ![InService(o)].wakeLock = TRUE,
                            ![InService(o)].modules = TRUE]
    /\ \/ Goto(o, "startTun")
       \/ May("startFails") /\ Goto(o, "undo")
    /\ UNCHANGED <<persisted, state, tunnel, runLock, events>>

\* Core.startTun replaces the tunnel there was, also when it fails.
startTun(o) ==
    /\ ops[o].pc = "startTun"
    /\ \/ coreTun' = TRUE /\ Goto(o, "own")
       \/ May("startFails") /\ coreTun' = FALSE /\ Goto(o, "undo")
    /\ UNCHANGED <<persisted, state, tunOwner, runLock, inst, events>>

claimTun(o) ==
    /\ ops[o].pc = "own"
    /\ tunOwner' = InService(o)
    /\ Goto(o, IF ops[o].kind = "cold" THEN "commit" ELSE "started")
    /\ UNCHANGED <<persisted, state, coreTun, runLock, inst, events>>

\* The catch block: tunActive = false, then the wake lock, the modules, the core.
undoStart(o) ==
    /\ ops[o].pc = "undo"
    /\ inst' = [inst EXCEPT ![InService(o)].tunActive = FALSE]
    /\ Goto(o, "rollback")
    /\ UNCHANGED <<persisted, state, tunnel, runLock, events>>

rollback(o) ==
    /\ ops[o].pc = "rollback"
    /\ inst' = [inst EXCEPT ![InService(o)].wakeLock = FALSE,
                            ![InService(o)].modules = FALSE]
    /\ coreTun' = FALSE
    /\ Goto(o, "failed")
    /\ UNCHANGED <<persisted, state, tunOwner, runLock, events>>

handleStart(o) ==
    \/ establish(o) \/ startModules(o) \/ startTun(o) \/ claimTun(o)
    \/ undoStart(o) \/ rollback(o)

-----------------------------------------------------------------------------
(* handleStop, under runLock, inside stopService, a stop command, a revocation *)

\* Mutant: a start that is not over yet has nothing to stop.
stopIfRunning(o) ==
    /\ ops[o].pc = "stop1"
    /\ IF ~runTime
       THEN Goto(o, "after") /\ UNCHANGED <<runTime, inst>>
       ELSE /\ runTime' = FALSE
            /\ inst' = [inst EXCEPT ![InService(o)].tunActive = FALSE]
            /\ Goto(o, "stop2")
    /\ UNCHANGED <<persisted, hub, delegate, tunnel, runLock, events>>

stopFlags(o) ==
    /\ ops[o].pc = "stop1"
    /\ IF ~runTime /\ ~inst[InService(o)].tunActive
       THEN Goto(o, "after") /\ UNCHANGED <<runTime, inst>>
       ELSE /\ runTime' = FALSE
            /\ inst' = [inst EXCEPT ![InService(o)].tunActive = FALSE]
            /\ Goto(o, "stop2")
    /\ UNCHANGED <<persisted, hub, delegate, tunnel, runLock, events>>

stopPersist(o) ==
    /\ ops[o].pc = "stop2"
    /\ inst' = [inst EXCEPT ![InService(o)].wakeLock = FALSE]
    /\ flag' = FALSE
    /\ Goto(o, "stop3")
    /\ UNCHANGED <<intents, state, tunnel, runLock, events>>

\* Mutant: the core is stopped only when the service is bound.
stopIfBound(o) ==
    /\ ops[o].pc = "stop3"
    /\ tunOwner' = IF tunOwner = InService(o) THEN None ELSE tunOwner
    /\ coreTun' = (coreTun /\ delegate # InService(o))
    /\ Goto(o, "stop4")
    /\ UNCHANGED <<persisted, state, runLock, inst, events>>

stopCore(o) ==
    /\ ops[o].pc = "stop3"
    /\ coreTun' = FALSE
    /\ tunOwner' = IF tunOwner = InService(o) THEN None ELSE tunOwner
    /\ Goto(o, "stop4")
    /\ UNCHANGED <<persisted, state, runLock, inst, events>>

stopModules(o) ==
    /\ ops[o].pc = "stop4"
    /\ LET i == InService(o) IN
       /\ hub' = HubAfterDestroy(i)
       /\ inst' = StopSelf(Destroyed([inst EXCEPT ![i].modules = FALSE], i), i)
    /\ Goto(o, "after")
    /\ UNCHANGED <<persisted, runTime, delegate, tunnel, runLock, events>>

handleStop(o) == stopFlags(o) \/ stopPersist(o) \/ stopCore(o) \/ stopModules(o)

-----------------------------------------------------------------------------
(* RemoteService.startService *)

startService(o) ==
    /\ At(o, "startService", "wait")
    /\ runLock = None
    /\ \/ /\ runTime
          /\ Finish(o)
          /\ UNCHANGED <<state, persisted, runLock>>
       \/ /\ ~runTime
          /\ hub' = "starting"
          /\ delegate' = "binding"
          /\ intents' = Append(intents, "start")
          /\ Lock(o) /\ Goto(o, "proxy")
          /\ UNCHANGED <<runTime, flag>>
       \/ /\ ~runTime /\ May("startFails")     \* startForegroundService is refused
          /\ hub' = "stopped"
          /\ delegate' = None
          /\ flag' = FALSE
          /\ Finish(o)
          /\ UNCHANGED <<runTime, intents, runLock>>
    /\ UNCHANGED <<tunnel, inst, events>>

\* The binding yields the proxy of the live instance, or of a new one; the
\* platform creates one only after the last one was destroyed.
bound(o) ==
    /\ At(o, "startService", "proxy")
    /\ \/ \E i \in Instances :
             /\ Reaches(i)
             /\ delegate' = i
             /\ inst' = [inst EXCEPT ![i] = Instance(i)]
             /\ ops' = [ops EXCEPT ![o].pc = "establish", ![o].i = i]
       \/ /\ May("startFails")
          /\ Goto(o, "failed")
          /\ UNCHANGED <<delegate, inst>>
    /\ UNCHANGED <<persisted, hub, runTime, tunnel, runLock, events>>

\* The answer came in time, or the start is over but reported as failed.
startInTime(o) ==
    /\ At(o, "startService", "started")
    /\ \/ Goto(o, "commit")
       \/ May("startFails") /\ Goto(o, "failed")
    /\ UNCHANGED <<persisted, state, tunnel, runLock, inst, events>>

\* A stop command is queued, the tunnel is stopped, everything is unwound.
startFailed(o) ==
    /\ At(o, "startService", "failed")
    /\ intents' = Append(intents, "stop")
    /\ coreTun' = FALSE
    /\ delegate' = None
    /\ flag' = FALSE
    /\ hub' = "stopped"
    /\ Unlock /\ Finish(o)
    /\ UNCHANGED <<runTime, tunOwner, inst, events>>

\* Both starts end alike: runTime, the flag, the announcement.
commit(o) ==
    /\ ops[o].pc = "commit"
    /\ runTime' = TRUE
    /\ Goto(o, "persist")
    /\ UNCHANGED <<persisted, hub, delegate, tunnel, runLock, inst, events>>

\* Mutant: the intent of a start by the app is not saved.
persistNothing(o) ==
    /\ ops[o].pc = "persist"
    /\ Goto(o, "announce")
    /\ UNCHANGED <<persisted, state, tunnel, runLock, inst, events>>

persist(o) ==
    /\ ops[o].pc = "persist"
    /\ flag' = TRUE
    /\ Goto(o, "announce")
    /\ UNCHANGED <<intents, state, tunnel, runLock, inst, events>>

\* Mutant: only what runs is announced.
announceSuccess(o) ==
    /\ ops[o].pc = "announce"
    /\ hub' = IF runTime THEN "running" ELSE hub
    /\ Unlock /\ Finish(o)
    /\ UNCHANGED <<persisted, runTime, delegate, tunnel, inst, events>>

announce(o) ==
    /\ ops[o].pc = "announce"
    /\ hub' = IF runTime \/ ops[o].kind = "startService" THEN "running" ELSE "stopped"
    /\ Unlock /\ Finish(o)
    /\ UNCHANGED <<persisted, runTime, delegate, tunnel, inst, events>>

-----------------------------------------------------------------------------
(* RemoteService.stopService *)

\* The proxy of the delegate may not answer in time: handleStop is then not
\* called at all, and the rest of the section runs as if it had been.
stopService(o) ==
    /\ At(o, "stopService", "wait")
    /\ runLock = None
    /\ \/ /\ delegate = None
          /\ intents' = IF runTime THEN Append(intents, "stop") ELSE intents
          /\ runTime' = FALSE
          /\ flag' = FALSE
          /\ hub' = "stopped"
          /\ Finish(o)
          /\ UNCHANGED <<delegate, runLock>>
       \/ /\ delegate \in Instances
          /\ hub' = "stopping"
          /\ Lock(o)
          /\ ops' = [ops EXCEPT ![o].pc = "stop1", ![o].i = delegate]
          /\ UNCHANGED <<persisted, runTime, delegate>>
       \/ /\ delegate \in Instances /\ May("stopFails")
          /\ delegate' = None
          /\ runTime' = FALSE
          /\ flag' = FALSE
          /\ hub' = "stopped"
          /\ Finish(o)
          /\ UNCHANGED <<intents, runLock>>
    /\ UNCHANGED <<tunnel, inst, events>>

stopServiceEnd(o) ==
    /\ At(o, "stopService", "after")
    /\ delegate' = None
    /\ runTime' = FALSE
    /\ flag' = FALSE
    /\ hub' = "stopped"
    /\ Unlock /\ Finish(o)
    /\ UNCHANGED <<intents, tunnel, inst, events>>

-----------------------------------------------------------------------------
(* MihoXVpnService: start commands *)

\* The instance a command reaches is (no longer) a started one for the platform.
Commanded(i, started) == [inst EXCEPT ![i] = [Instance(i) EXCEPT !.started = started]]

\* Mutant: a restart without an intent is never a recovery.
commandWithoutRecovery(i) ==
    /\ intents # << >>
    /\ Reaches(i)
    /\ \/ /\ Head(intents) = "null"
          /\ inst' = Commanded(i, "no")
          /\ UNCHANGED ops
       \/ /\ Head(intents) # "null"
          /\ inst' = Commanded(i, "sticky")
          /\ \E o \in Ops : Idle(o) /\ Launch(o, "cold", i)
    /\ intents' = Tail(intents)
    /\ UNCHANGED <<flag, state, tunnel, runLock, events>>

\* Foreground promotion may be denied; the command is then dropped.
onStartCommand(i) ==
    /\ intents # << >>
    /\ Reaches(i)
    /\ LET cmd == Head(intents) IN
       \/ /\ May("denied")
          /\ inst' = Commanded(i, "no")
          /\ UNCHANGED ops
       \/ /\ cmd = "stop"
          /\ inst' = Commanded(i, "once")
          /\ \E o \in Ops : Idle(o) /\ Launch(o, "stop", i)
       \/ /\ cmd = "null" /\ ~flag
          /\ inst' = Commanded(i, "no")
          /\ UNCHANGED ops
       \/ /\ cmd = "start" \/ (cmd = "null" /\ flag)
          /\ inst' = Commanded(i, "sticky")
          /\ \/ runTime /\ UNCHANGED ops
             \/ ~runTime /\ \E o \in Ops : Idle(o) /\ Launch(o, "cold", i)
    /\ intents' = Tail(intents)
    /\ UNCHANGED <<flag, state, tunnel, runLock, events>>

\* A stop command and a revocation wait for the lock.
stopCommand(o) ==
    /\ ops[o].kind \in {"stop", "revoke"} /\ ops[o].pc = "wait"
    /\ Lock(o) /\ Goto(o, "stop1")
    /\ UNCHANGED <<persisted, state, tunnel, inst, events>>

\* What follows runs after the lock was given back.
stopUnlocks(o) ==
    /\ ops[o].kind \in {"stop", "revoke"} /\ ops[o].pc = "after"
    /\ Unlock
    /\ Goto(o, IF ops[o].kind = "stop" THEN "unflag" ELSE "self")
    /\ UNCHANGED <<persisted, state, tunnel, inst, events>>

unflag(o) ==
    /\ ops[o].pc = "unflag"
    /\ flag' = FALSE
    /\ Goto(o, "publish")
    /\ UNCHANGED <<intents, state, tunnel, runLock, inst, events>>

publishStopped(o) ==
    /\ ops[o].pc = "publish"
    /\ hub' = "stopped"
    /\ Goto(o, "self")
    /\ UNCHANGED <<persisted, runTime, delegate, tunnel, runLock, inst, events>>

stopSelf(o) ==
    /\ ops[o].pc = "self"
    /\ inst' = IF inst[InService(o)].destroyed THEN inst ELSE StopSelf(inst, InService(o))
    /\ Finish(o)
    /\ UNCHANGED <<persisted, state, tunnel, runLock, events>>

-----------------------------------------------------------------------------
(* MihoXVpnService.coldStart *)

\* Given up when revoked, when there is no intent, or when there are no saved
\* parameters; of the last, a missing file leaves the flag and a bad one clears it.
coldStart(o) ==
    /\ At(o, "cold", "wait")
    /\ runLock = None
    /\ \/ /\ runTime
          /\ Finish(o)
          /\ UNCHANGED <<flag, hub, runLock, inst>>
       \/ /\ ~runTime
          /\ Lock(o)
          /\ hub' = "starting"
          /\ \/ /\ inst[InService(o)].revoked \/ ~flag
                /\ inst' = StopSelf(inst, InService(o))
                /\ Goto(o, "announce")
                /\ UNCHANGED flag
             \/ /\ ~inst[InService(o)].revoked /\ flag /\ May("startFails")
                /\ flag' \in BOOLEAN
                /\ inst' = StopSelf(inst, InService(o))
                /\ Goto(o, "announce")
             \/ /\ ~inst[InService(o)].revoked /\ flag
                /\ Goto(o, "quickStart")
                /\ UNCHANGED <<flag, inst>>
    /\ UNCHANGED <<intents, runTime, delegate, tunnel, events>>

\* The core is set up from the saved parameters, or it times out or refuses.
quickStart(o) ==
    /\ ops[o].pc = "quickStart"
    /\ \/ Goto(o, "establish")
       \/ May("startFails") /\ Goto(o, "failed")
    /\ UNCHANGED <<persisted, state, tunnel, runLock, inst, events>>

coldFailed(o) ==
    /\ At(o, "cold", "failed")
    /\ flag' = FALSE
    /\ coreTun' = FALSE
    /\ inst' = StopSelf(inst, InService(o))
    /\ Goto(o, "announce")
    /\ UNCHANGED <<intents, state, tunOwner, runLock, events>>

-----------------------------------------------------------------------------
(* MihoXVpnService: destruction and the wake lock *)

\* The platform destroys an instance that is neither started nor bound, also while
\* a stop or a revocation of it is queued or under way.  That it overtakes a cold
\* start is an event of its own.
onDestroy(i) ==
    /\ inst[i].life = "alive" /\ inst[i].started = "no" /\ delegate # i
    /\ MainFree
    /\ May("overtake") \/ ~\E o \in Ops : InService(o) = i /\ ops[o].kind = "cold"
    /\ inst' = [inst EXCEPT ![i].life = "destroying", ![i].tunActive = FALSE,
                            ![i].wakeLock = FALSE, ![i].owned = (tunOwner = i)]
    /\ tunOwner' = IF tunOwner = i THEN None ELSE tunOwner
    /\ coreTun' = IF tunOwner = i THEN FALSE ELSE coreTun
    /\ UNCHANGED <<persisted, state, runLock, ops, events>>

\* An instance is gone, unless a coroutine still refers to it.
onDestroyEnds(i) ==
    /\ inst[i].life = "destroying"
    /\ runTime' = IF inst[i].owned THEN FALSE ELSE runTime
    /\ hub' = IF ~inst[i].destroyed /\ ~runTime' THEN "stopped" ELSE hub
    /\ inst' = IF \E o \in Ops : InService(o) = i
               THEN [inst EXCEPT ![i].life = "dead", ![i].modules = FALSE,
                                 ![i].destroyed = TRUE, ![i].owned = FALSE]
               ELSE [inst EXCEPT ![i] = Absent]
    /\ UNCHANGED <<persisted, delegate, tunnel, runLock, ops, events>>

\* Mutant: the tunnel is not looked at before the wake lock is taken.
awakeUnchecked(i) ==
    /\ May("awake")
    /\ inst[i].modules /\ MainFree
    /\ \E awake \in BOOLEAN : inst' = [inst EXCEPT ![i].wakeLock = awake]
    /\ inst' # inst
    /\ UNCHANGED <<persisted, state, tunnel, runLock, ops, events>>

\* setAwake, which the receiver of SuspendModule calls on the main thread.
setAwake(i) ==
    /\ May("awake")
    /\ inst[i].modules /\ MainFree
    /\ \E awake \in BOOLEAN :
          inst' = [inst EXCEPT ![i].wakeLock =
                      awake /\ (inst[i].wakeLock \/ inst[i].tunActive)]
    /\ inst' # inst
    /\ UNCHANGED <<persisted, state, tunnel, runLock, ops, events>>

-----------------------------------------------------------------------------
(* The environment *)

Event(e) ==
    /\ May(e)
    /\ events < MaxEvents
    /\ events' = events + 1

appCalls ==
    \E o \in Ops :
       /\ Idle(o)
       /\ \/ Event("appStart") /\ Launch(o, "startService", None)
          \/ Event("appStop") /\ Launch(o, "stopService", None)
       /\ UNCHANGED <<persisted, state, tunnel, runLock, inst>>

\* GlobalState.triggerStart, headless, in the process of the app.
tileStart ==
    /\ Event("tileStart")
    /\ \/ flag' = TRUE /\ intents' = Append(intents, "start")
       \/ May("startFails") /\ flag' = FALSE /\ UNCHANGED intents
    /\ UNCHANGED <<state, tunnel, runLock, inst, ops>>

\* GlobalState.triggerStop: the flag, a stop command, and stopService.
tileStop ==
    /\ Event("tileStop")
    /\ flag' = FALSE
    /\ intents' = Append(intents, "stop")
    /\ \E o \in Ops : Idle(o) /\ Launch(o, "stopService", None)
    /\ UNCHANGED <<state, tunnel, runLock, inst>>

\* The stop button of the notification, and the platform's Always-on start.
command ==
    /\ \/ Event("notificationStop") /\ intents' = Append(intents, "stop")
       \/ Event("alwaysOn") /\ intents' = Append(intents, "start")
    /\ UNCHANGED <<flag, state, tunnel, runLock, inst, ops>>

\* super.onRevoke() ends in stopSelf, before the coroutine has the lock.
onRevoke(i) ==
    /\ Event("revoke")
    /\ inst[i].life = "alive" /\ MainFree
    /\ inst' = [inst EXCEPT ![i].revoked = TRUE, ![i].started = "no"]
    /\ \E o \in Ops : Idle(o) /\ Launch(o, "revoke", i)
    /\ UNCHANGED <<persisted, state, tunnel, runLock>>

\* The service process dies.  The flag stays, commands are delivered again,
\* and a sticky service is started again without an intent.
kill ==
    /\ Event("kill")
    /\ \E i \in Instances : inst[i].life # "none"
    /\ intents' = IF \E i \in Instances : inst[i].life = "alive" /\ inst[i].started = "sticky"
                  THEN Append(intents, "null") ELSE intents
    /\ hub' = "stopped" /\ runTime' = FALSE /\ delegate' = None
    /\ tunOwner' = None /\ coreTun' = FALSE
    /\ runLock' = None
    /\ inst' = [i \in Instances |-> Absent]
    /\ ops' = [o \in Ops |-> NoOp]
    /\ UNCHANGED flag

Environment ==
    \/ appCalls \/ tileStart \/ tileStop \/ command \/ kill
    \/ \E i \in Instances : onRevoke(i) \/ setAwake(i)

Step(o) ==
    \/ handleStart(o) \/ handleStop(o)
    \/ startService(o) \/ bound(o) \/ startInTime(o) \/ startFailed(o)
    \/ commit(o) \/ persist(o) \/ announce(o)
    \/ stopService(o) \/ stopServiceEnd(o)
    \/ stopCommand(o) \/ stopUnlocks(o) \/ unflag(o) \/ publishStopped(o) \/ stopSelf(o)
    \/ coldStart(o) \/ quickStart(o) \/ coldFailed(o)

Platform(i) == onStartCommand(i) \/ onDestroy(i) \/ onDestroyEnds(i)

Next ==
    \/ \E o \in Ops : Step(o)
    \/ \E i \in Instances : Platform(i)
    \/ Environment

Spec == Init /\ [][Next]_vars

\* Coroutines go on and the lock is fair (a queue of waiters); the platform
\* delivers commands and destroys what is neither started nor bound.
Fairness ==
    /\ \A o \in Ops : SF_vars(Step(o))
    /\ WF_vars(\E i \in Instances : Platform(i))

FairSpec == Spec /\ Fairness

-----------------------------------------------------------------------------
(* Properties *)

\* Nothing is under way: no command, no coroutine, no instance to destroy.
Quiet ==
    /\ intents = << >>
    /\ \A o \in Ops : Idle(o)
    /\ \A i \in Instances :
          /\ inst[i].life # "destroying"
          /\ inst[i].life = "alive" => inst[i].started # "no" \/ delegate = i

\* A tunnel that is up is one the service says it runs.
NoOrphanTunnel == Quiet => (coreTun => runTime)

\* handleStart and handleStop keep the tunnel and what the service says of it
\* together: when nothing is under way, a tunnel is up exactly if the service
\* says it runs one, in the hands of the instance that owns it and whose wake
\* lock may be taken.  A start that failed, timed out, was revoked, or was
\* killed half-way leaves no tunnel behind.
TunnelMatchesRunTime ==
    /\ NoOrphanTunnel
    /\ Quiet /\ runTime => coreTun /\ tunOwner # None /\ inst[tunOwner].tunActive

\* setAwake cannot take the wake lock past a teardown (setAwake, handleStop,
\* onDestroy): an instance without a tunnel holds it only until the teardown
\* that is under way reaches releaseWakeLock; and when nothing is under way,
\* its holder is the instance that claimed the tunnel last.
WakeLockFollowsTunnel ==
    \A i \in Instances :
       /\ inst[i].wakeLock /\ ~inst[i].tunActive =>
             \E o \in Ops : InService(o) = i /\ ops[o].pc \in {"stop2", "rollback"}
       /\ Quiet /\ inst[i].wakeLock => tunOwner = i

\* "a delayed teardown of THIS instance can't close a tunnel a newer instance has
\* since brought up" (MihoXVpnService.kt): when nothing is under way, the holder of
\* the wake lock has its tunnel.
AwakeMeansTunnel == Quiet => \A i \in Instances : inst[i].wakeLock => coreTun

\* No transition is left hanging: every path out of a start or a stop, the
\* aborts of a cold start included, publishes its outcome.
Settled == Quiet => hub \in {"running", "stopped"}

\* "Every transition in the :remote process is published here" (StateHub.kt):
\* when nothing is under way, the hub does not announce a tunnel that is gone.
RunningMeansRunning == Quiet => (hub = "running" => runTime)

\* "Report STOPPED only when nothing is running anymore" (IBaseService.kt).
StoppedMeansStopped == Quiet => (hub = "stopped" => ~runTime)

\* Among starts and kills, what the hub publishes is the truth, and the
\* persisted intent says what runs, so that a restarted process recovers that
\* and nothing else.
HubAndFlagTruthful ==
    /\ RunningMeansRunning /\ StoppedMeansStopped
    /\ Quiet => flag = runTime

\* A persisted intent that is not served, after a kill or a headless start,
\* is served or withdrawn in the end.
RecoveryResolves == (flag /\ ~runTime) ~> (runTime \/ ~flag)

-----------------------------------------------------------------------------
(* The inductive invariant *)

StartPlaces == {"proxy", "quickStart", "establish", "modules", "startTun", "own",
                "started", "undo", "rollback", "failed", "commit"}
EndPlaces   == {"persist", "announce"}
StopPlaces  == {"stop1", "stop2", "stop3", "stop4", "after"}
Locked      == StartPlaces \cup EndPlaces \cup StopPlaces

\* runLock is held exactly between the places where the code holds it, and a
\* transition is announced only by its holder; each kind of coroutine is at a
\* place of its own and, from the lock on, knows its instance.
OpDiscipline(o) ==
    LET kind == ops[o].kind  pc == ops[o].pc IN
    /\ pc \in Locked <=> runLock = o
    /\ pc = "idle" <=> kind = "none"
    /\ pc = "idle" => ops[o] = NoOp
    /\ pc \in StartPlaces \cup EndPlaces => kind \in {"startService", "cold"}
    /\ pc \in StopPlaces => kind \in {"stopService", "stop", "revoke"}
    /\ pc \in {"unflag", "publish", "self"} => kind \in {"stop", "revoke"}
    /\ kind = "cold" => pc \notin {"proxy", "started"}
    /\ kind = "startService" => pc # "quickStart"
    /\ ops[o].i = None <=>
          \/ kind = "none"
          \/ kind \in {"startService", "stopService"} /\ pc = "wait"
          \/ pc = "proxy"
          \/ kind = "startService" /\ pc = "failed" /\ delegate = "binding"
    /\ kind \in {"startService", "stopService"} /\ pc \in Locked =>
          delegate = IF ops[o].i = None THEN "binding" ELSE ops[o].i

LockDiscipline ==
    /\ \A o \in Ops : OpDiscipline(o)
    /\ hub \in {"starting", "stopping"} =>
          runLock # None /\ ops[runLock].kind \in {"startService", "stopService", "cold"}

\* One instance is there at a time, and whatever refers to an instance refers to
\* that one, except for the stops and revocations its destruction has overtaken.
InstanceDiscipline ==
    /\ \A i, j \in Instances :
          {inst[i].life, inst[j].life} \subseteq {"alive", "destroying"} => i = j
    /\ \A i \in Instances :
          /\ inst[i].life # "alive" => ~inst[i].tunActive /\ ~inst[i].wakeLock
          /\ inst[i].owned => inst[i].life = "destroying"
          /\ i \in {delegate, tunOwner} => inst[i].life = "alive"
          /\ \A o \in Ops : InService(o) = i =>
                \/ inst[i].life = "alive"
                \/ inst[i].life # "none" /\ ops[o].kind \in {"stop", "revoke"}

\* What the holder of the lock may rely on at each place of a start and a stop.
PlaceFacts(o) ==
    LET i == InService(o)  pc == ops[o].pc IN
    /\ pc \in StartPlaces => ~runTime
    /\ pc \in {"modules", "startTun", "own", "started", "undo", "commit"} => inst[i].tunActive
    /\ pc = "own" => coreTun
    /\ pc \in {"started", "commit"} => coreTun /\ tunOwner = i
    /\ pc = "persist" \/ At(o, "startService", "announce") => runTime
    /\ pc \in {"rollback", "stop2", "stop3", "stop4", "after"} => ~inst[i].tunActive /\ ~runTime

PlaceDiscipline == \A o \in Ops : PlaceFacts(o)

\* Whose tunnel it is: that of the instance that owns it, which is active until
\* a stop or a rollback has begun; and an active instance is the owner, or in the
\* middle of a start.  Once the service says it runs a tunnel, it does, until the
\* destruction of its owner.
TunnelDiscipline ==
    /\ coreTun => tunOwner # None \/ \E o \in Ops : ops[o].pc = "own"
    /\ coreTun /\ tunOwner # None =>
          \/ inst[tunOwner].tunActive
          \/ \E o \in Ops : ops[o].pc \in {"stop2", "stop3", "rollback"}
    /\ runTime =>
          \/ coreTun /\ tunOwner # None /\ inst[tunOwner].tunActive
          \/ \E i \in Instances : inst[i].life = "destroying" /\ inst[i].owned
    /\ \A i \in Instances : inst[i].tunActive =>
          \/ tunOwner = i
          \/ \E o \in Ops : /\ InService(o) = i
                            /\ ops[o].pc \in {"modules", "startTun", "own", "undo"}

\* Whoever will still tear the tunnel of an instance down or take it over.
StopPending == \E n \in 1 .. Len(intents) : intents[n] = "stop"
Owes(o, i) == InService(o) = i /\ ops[o].pc \notin EndPlaces \cup {"unflag", "publish", "self"}
TornDown(i) ==
    StopPending \/ (\E o \in Ops : Owes(o, i)) \/ (inst[i].started = "no" /\ delegate # i)

\* The start that has, or may find, an active tunnel in its instance.
Serves(o, i) ==
    /\ InService(o) = i
    /\ \/ ops[o].pc \in {"modules", "startTun", "own", "started", "undo", "commit"}
       \/ ops[o].kind = "startService" /\ ops[o].pc \in {"establish", "failed"}

\* A tunnel that the service does not say it runs will be torn down: by a stop that
\* is about to, of whatever instance, or else with its own; that of a bound instance
\* only by the start that is under way.
DebtDiscipline ==
    \A i \in Instances : coreTun /\ inst[i].tunActive /\ ~runTime =>
       \/ \E o \in Ops : ops[o].pc \in {"stop2", "stop3"}
       \/ TornDown(i) /\ (delegate = i => \E o \in Ops : Serves(o, i))

WakeLockDiscipline ==
    \A i \in Instances : inst[i].wakeLock /\ ~inst[i].tunActive =>
       \E o \in Ops : InService(o) = i /\ ops[o].pc \in {"stop2", "rollback"}

Inv ==
    /\ LockDiscipline
    /\ "overtake" \notin Events =>
          /\ InstanceDiscipline /\ PlaceDiscipline
          /\ TunnelDiscipline /\ WakeLockDiscipline
          /\ "stopFails" \notin Events => DebtDiscipline

RecoveryEvents == {"appStart", "tileStart", "alwaysOn", "kill", "awake"}
Sticky == \E i \in Instances : inst[i].life = "alive" /\ inst[i].started = "sticky"

\* With starts and kills only, nothing but starts is under way.
OnlyStarts ==
    /\ \A o \in Ops : /\ ops[o].kind \in {"none", "startService", "cold"}
                      /\ ops[o].pc \notin {"undo", "rollback", "failed"}
    /\ \A n \in 1 .. Len(intents) : intents[n] \in {"start", "null"}
    /\ \A i \in Instances : ~inst[i].revoked /\ ~inst[i].destroyed

\* The hub says what runs, and what runs is persisted.
HubDiscipline ==
    /\ hub = "running" => runTime
    /\ runTime => hub = "running" \/ \E o \in Ops : ops[o].pc \in EndPlaces
    /\ runTime => flag \/ \E o \in Ops : At(o, "startService", "persist")
    /\ \A o \in Ops : ops[o].kind = "cold" /\ ops[o].pc \notin {"wait", "announce"} => flag

\* A persisted intent is served, or a start is on its way; and if the process is
\* killed now, a command is left that starts it again.  That is so before the
\* intent is persisted.
IntentDiscipline ==
    /\ flag =>
          \/ runTime \/ intents # << >>
          \/ \E o \in Ops : \/ ops[o].kind = "cold" /\ ops[o].pc # "announce"
                            \/ ops[o].kind = "startService" /\ ops[o].pc \in StartPlaces
    /\ flag => intents # << >> \/ Sticky
    /\ \A o \in Ops : ops[o].kind = "startService" /\ ops[o].pc # "wait" =>
          \/ intents # << >> /\ intents[Len(intents)] = "start"
          \/ intents = << >> /\ Sticky

RecoveryInv ==
    Events \subseteq RecoveryEvents => OnlyStarts /\ HubDiscipline /\ IntentDiscipline

=============================================================================
