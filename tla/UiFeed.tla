------------------------------- MODULE UiFeed -------------------------------
(***************************************************************************)
(* How delays reach the Android UI: the passes of the health forwarder     *)
(* with their de-duplication (core/hub.go), the event listener             *)
(* (core/android_bride.go, RemoteService.kt, Service.kt), and the UI that  *)
(* registers a listener and says when it is in front                       *)
(* (app_state_manager.dart).                                               *)
(*                                                                         *)
(* One proxy is modelled, since proxies share nothing but a pass; its      *)
(* history is the number of its last measurement (0: none), which is also  *)
(* the signature the de-duplication compares.  A listener is one           *)
(* registration; a UI, that is a Flutter engine, registers again whenever  *)
(* it comes to the front.  The calls of a UI run on coroutines and         *)
(* goroutines of their own, so that those under way (pending) are served   *)
(* in any order.  The service process lives on.                            *)
(***************************************************************************)
EXTENDS Naturals

CONSTANTS
    Listeners,  \* registrations
    Passes,     \* goroutines inside forwardHealthCheckDelays
    MaxDelay,   \* measurements made (a bound)
    Events,     \* which events of the environment occur (a bound)
    None        \* nil

ASSUME UiFeedAssumption ==
    /\ None \notin Listeners \cup Passes
    /\ Listeners \cap {"free", "nil", "background"} = {}
    /\ MaxDelay \in Nat
    /\ Events \subseteq {"reset", "coldStart", "init", "pause", "detach", "die"}

VARIABLES
    latest,             \* last entry of the proxy's delay history
    healthCheckSeen,    \* signature recorded for it, 0 = none
    isInit, uiActive,   \* the atomics of hub.go
    eventListener,      \* the listener of android_bride.go, or None
    eventListenerMu,    \* the pass that dispatches under this mutex, or None
    ref,                \* JVM global references of the listeners
    pass, value,        \* where a pass is; the measurement it carries
    wire,               \* events on their way to the UI (GlobalState.launch, Binder)
    eventLock,          \* what is done under eventLock of RemoteService
    eventDeathRecipient,\* the listener whose process is watched, or None
    notices,            \* listeners whose process is gone, before binderDied
    process, alive,     \* the app process and its engine exist
    front,              \* the engine's UI is in front
    listenerOwner,      \* Service.kt: "none", "old" engine or "current" one
    mine,               \* the listeners the current engine has sent
    got,                \* measurements its UI has received
    welcomed,           \* it said that it is in front after it had registered
    pending             \* calls under way

delays   == <<latest, healthCheckSeen>>
flags    == <<isInit, uiActive>>
listener == <<eventListener, eventListenerMu, ref>>
passes   == <<pass, value>>
watch    == <<eventLock, eventDeathRecipient, notices>>
ui       == <<process, alive, front, listenerOwner, mine, got, welcomed>>
vars     == <<delays, flags, listener, passes, wire, watch, ui, pending>>

\* What a UI calls, the clean-up of an engine that is gone, and the second
\* half of two calls inside the service process: of a foreground signal, and
\* of a headless start.
UiCalls == {"attach", "active", "inactive", "isInit", "init"}
Calls   == UiCalls \cup {"clear", "flush", "headless"}

Step(p, l) == pass' = [pass EXCEPT ![p] = l] /\ UNCHANGED value
Done(p)    == pass' = [pass EXCEPT ![p] = "idle"] /\ value' = [value EXCEPT ![p] = 0]
Served(c)  == c \in pending /\ pending' = pending \ {c}

-----------------------------------------------------------------------------
(* The engine and the forwarder.                                           *)

\* A health check appends to the delay history.
measure ==
    /\ latest < MaxDelay /\ latest' = latest + 1
    /\ UNCHANGED <<healthCheckSeen, flags, listener, passes, wire, watch, ui, pending>>

\* A tick of the forwarder in the foreground.
tick(p) ==
    /\ uiActive /\ pass[p] = "idle" /\ Step(p, "read")
    /\ UNCHANGED <<delays, flags, listener, wire, watch, ui, pending>>

\* startHealthCheckForwarder and setupConfig forget what was sent.
resetHealthCheckForwarderState ==
    /\ "reset" \in Events /\ healthCheckSeen' = 0
    /\ UNCHANGED <<latest, flags, listener, passes, wire, watch, ui, pending>>

\* proxy.DelayHistory(); an empty history is left alone.
readHistory(p) ==
    /\ pass[p] = "read"
    /\ IF latest = 0 THEN Done(p)
       ELSE /\ pass' = [pass EXCEPT ![p] = "dedup"]
            /\ value' = [value EXCEPT ![p] = latest]
    /\ UNCHANGED <<delays, flags, listener, wire, watch, ui, pending>>

\* Mutant: compares the proxy, not the measurement.
dedupByKey(p) ==
    /\ pass[p] = "dedup"
    /\ IF healthCheckSeen # 0
       THEN Done(p) /\ UNCHANGED healthCheckSeen
       ELSE Step(p, "send") /\ healthCheckSeen' = value[p]
    /\ UNCHANGED <<latest, flags, listener, wire, watch, ui, pending>>

\* emitLatestDelay under healthCheckMu: recorded before it is sent.
emitLatestDelay(p) ==
    /\ pass[p] = "dedup"
    /\ IF healthCheckSeen = value[p]
       THEN Done(p) /\ UNCHANGED healthCheckSeen
       ELSE Step(p, "send") /\ healthCheckSeen' = value[p]
    /\ UNCHANGED <<latest, flags, listener, wire, watch, ui, pending>>

\* sendMessage asks hasEventListener() first.
sendMessage(p) ==
    /\ pass[p] = "send" /\ eventListenerMu = None
    /\ IF eventListener = None THEN Done(p) ELSE Step(p, "emit")
    /\ UNCHANGED <<delays, flags, listener, wire, watch, ui, pending>>

\* Mutant: trusts the answer of hasEventListener.
emitUnchecked(p) ==
    /\ pass[p] = "emit" /\ eventListenerMu = None
    /\ Step(p, "jvm") /\ eventListenerMu' = p
    /\ UNCHANGED <<delays, flags, eventListener, ref, wire, watch, ui, pending>>

\* emitEvent looks again under eventListenerMu, which it keeps for the call.
emitEvent(p) ==
    /\ pass[p] = "emit" /\ eventListenerMu = None
    /\ IF eventListener = None
       THEN Done(p) /\ UNCHANGED eventListenerMu
       ELSE Step(p, "jvm") /\ eventListenerMu' = p
    /\ UNCHANGED <<delays, flags, eventListener, ref, wire, watch, ui, pending>>

\* The listener has launched the delivery and returned.
dispatched(p) ==
    /\ pass[p] = "jvm" /\ Done(p)
    /\ wire' = wire \cup {<<eventListener, value[p]>>}
    /\ eventListenerMu' = None
    /\ UNCHANGED <<delays, flags, eventListener, ref, watch, ui, pending>>

\* An event arrives: each was launched on a pool of threads, in no order.  An
\* engine that is gone drops it.
onEvent ==
    \E m \in wire :
        /\ wire' = wire \ {m}
        /\ got' = IF m[1] \in mine THEN got \cup {m[2]} ELSE got
        /\ UNCHANGED <<delays, flags, listener, passes, watch, process, alive, front,
                       listenerOwner, mine, welcomed, pending>>

-----------------------------------------------------------------------------
(* The event listener.  eventLock of RemoteService is "free", or held by   *)
(* the registration of a listener, by a removal ("nil"), or for the        *)
(* background signal that ends a removal ("background").                   *)

\* RemoteService.setEventListener(event) from Service.setEventListener, up to
\* the global reference core.cpp makes.  A process that is gone by now cannot
\* be watched.
attach(l) ==
    /\ eventLock = "free" /\ Served("attach")
    /\ ref[l] = "unborn" /\ ref' = [ref EXCEPT ![l] = "live"]
    /\ eventLock' = l
    /\ eventDeathRecipient' = IF process THEN l ELSE None
    /\ listenerOwner' = IF process THEN "current" ELSE listenerOwner
    /\ mine' = IF process THEN mine \cup {l} ELSE mine
    /\ UNCHANGED <<delays, flags, eventListener, eventListenerMu, passes, wire, notices,
                   process, alive, front, got, welcomed>>

\* The service could not be bound, or not in time; the engine owns what is
\* registered all the same.
attachFailed ==
    /\ process /\ Served("attach")
    /\ listenerOwner' = "current"
    /\ UNCHANGED <<delays, flags, listener, passes, wire, watch, process, alive, front, mine,
                   got, welcomed>>

\* What a held eventLock leads to: the Go side's new listener.
Incoming == IF eventLock \in Listeners THEN eventLock ELSE None

\* Mutant: the previous listener is released without the mutex.
swapUnlocked ==
    /\ eventLock \in Listeners \cup {"nil"}
    /\ eventListener' = Incoming
    /\ ref' = [r \in Listeners |-> IF r = eventListener THEN "deleted" ELSE ref[r]]
    /\ eventLock' = IF eventLock = "nil" THEN "background" ELSE "free"
    /\ UNCHANGED <<delays, flags, eventListenerMu, passes, wire, eventDeathRecipient,
                   notices, ui, pending>>

\* Mutant: the previous listener is forgotten, not released.
swapWithoutRelease ==
    /\ eventLock \in Listeners \cup {"nil"} /\ eventListenerMu = None
    /\ eventListener' = Incoming
    /\ eventLock' = IF eventLock = "nil" THEN "background" ELSE "free"
    /\ UNCHANGED <<delays, flags, eventListenerMu, ref, passes, wire, eventDeathRecipient,
                   notices, ui, pending>>

\* setEventListener of android_bride.go: the previous reference goes under the
\* mutex.
setEventListener ==
    /\ eventLock \in Listeners \cup {"nil"} /\ eventListenerMu = None
    /\ eventListener' = Incoming
    /\ ref' = [r \in Listeners |-> IF r = eventListener THEN "deleted" ELSE ref[r]]
    /\ eventLock' = IF eventLock = "nil" THEN "background" ELSE "free"
    /\ UNCHANGED <<delays, flags, eventListenerMu, passes, wire, eventDeathRecipient,
                   notices, ui, pending>>

\* Its last step for a nil listener: handleSetUiActive(false).
detached ==
    /\ eventLock = "background" /\ eventLock' = "free"
    /\ uiActive' = FALSE
    /\ UNCHANGED <<delays, isInit, listener, passes, wire, eventDeathRecipient, notices, ui,
                   pending>>

\* The death recipient: only the listener it was made for is removed.
binderDied(l) ==
    /\ l \in notices /\ eventLock = "free"
    /\ notices' = notices \ {l}
    /\ IF eventListener = l
       THEN eventLock' = "nil" /\ eventDeathRecipient' = None
       ELSE UNCHANGED <<eventLock, eventDeathRecipient>>
    /\ UNCHANGED <<delays, flags, listener, passes, wire, ui, pending>>

\* Mutant: removes whatever is registered.
clearUnowned ==
    /\ eventLock = "free" /\ Served("clear")
    /\ eventLock' = "nil" /\ eventDeathRecipient' = None /\ listenerOwner' = "none"
    /\ UNCHANGED <<delays, flags, listener, passes, wire, notices, process, alive, front,
                   mine, got, welcomed>>

\* clearEventListener of an engine that is gone: nothing to do if another one
\* has registered since.
clearEventListener ==
    /\ eventLock = "free" /\ Served("clear")
    /\ IF listenerOwner = "old"
       THEN eventLock' = "nil" /\ eventDeathRecipient' = None /\ listenerOwner' = "none"
       ELSE UNCHANGED <<eventLock, eventDeathRecipient, listenerOwner>>
    /\ UNCHANGED <<delays, flags, listener, passes, wire, notices, process, alive, front,
                   mine, got, welcomed>>

\* RemoteService.onDestroy, once no app process is bound.
onDestroy ==
    /\ ~process /\ eventLock = "free"
    /\ eventLock' = "nil" /\ eventDeathRecipient' = None
    /\ UNCHANGED <<delays, flags, listener, passes, wire, notices, ui, pending>>

-----------------------------------------------------------------------------
(* Foreground and background signals.                                      *)

\* handleSetUiActive(TRUE): the flag, and then ...
setActive ==
    /\ "active" \in pending /\ "flush" \notin pending
    /\ uiActive' = TRUE
    /\ pending' = (pending \ {"active"}) \cup {"flush"}
    /\ UNCHANGED <<delays, isInit, listener, passes, wire, watch, ui>>

\* Mutant: flushes on top of what was recorded without a listener.
flushWithoutReset(p) ==
    /\ pass[p] = "idle" /\ Served("flush") /\ Step(p, "read")
    /\ welcomed' = (welcomed \/ eventListener \in mine)
    /\ UNCHANGED <<delays, flags, listener, wire, watch, process, alive, front,
                   listenerOwner, mine, got>>

\* ... the reset of the de-duplication and a pass of its own.
flush(p) ==
    /\ pass[p] = "idle" /\ Served("flush") /\ Step(p, "read")
    /\ healthCheckSeen' = 0
    /\ welcomed' = (welcomed \/ eventListener \in mine)
    /\ UNCHANGED <<latest, flags, listener, wire, watch, process, alive, front,
                   listenerOwner, mine, got>>

\* handleSetUiActive(FALSE), from the UI or from the end of a headless start.
setInactive ==
    \E c \in {"inactive", "headless"} :
        /\ Served(c) /\ uiActive' = FALSE
        /\ UNCHANGED <<delays, isInit, listener, passes, wire, watch, ui>>

\* coldStart: quickStart runs handleInitClash; a background signal follows if
\* the start succeeds.
coldStart ==
    /\ "coldStart" \in Events /\ isInit' = TRUE /\ uiActive' = TRUE
    /\ pending' \in {pending, pending \cup {"headless"}}
    /\ UNCHANGED <<delays, listener, passes, wire, watch, ui>>

\* _initCore of a UI: asks isInit, and if it is not set calls init
\* (handleInitClash).
getIsInit ==
    /\ "isInit" \in pending
    /\ pending' = (pending \ {"isInit"}) \cup (IF isInit THEN {} ELSE {"init"})
    /\ UNCHANGED <<delays, flags, listener, passes, wire, watch, ui>>

handleInitClash ==
    /\ Served("init") /\ isInit' = TRUE /\ uiActive' = TRUE
    /\ UNCHANGED <<delays, listener, passes, wire, watch, ui>>

-----------------------------------------------------------------------------
(* The UI.                                                                 *)

\* main() registers and runs _initCore.  The framework may report "resumed"
\* before the widget that would pass it on observes the lifecycle.
launch ==
    /\ ~alive /\ "attach" \notin pending
    /\ process' = TRUE /\ alive' = TRUE /\ front' = TRUE
    /\ \E c \in {{}, {"active"}} :
          pending' = pending \cup {"attach"} \cup c
                       \cup (IF "init" \in Events THEN {"isInit"} ELSE {})
    /\ UNCHANGED <<delays, flags, listener, passes, wire, watch, listenerOwner, mine, got,
                   welcomed>>

\* didChangeAppLifecycleState(resumed): reconnectIfNeeded and setUiActive(true),
\* neither awaited.
resumed ==
    /\ alive /\ ~front /\ front' = TRUE
    /\ pending' = pending \cup {"attach", "active"}
    /\ UNCHANGED <<delays, flags, listener, passes, wire, watch, process, alive,
                   listenerOwner, mine, got, welcomed>>

paused ==
    /\ "pause" \in Events /\ alive /\ front /\ front' = FALSE
    /\ pending' = pending \cup {"inactive"}
    /\ UNCHANGED <<delays, flags, listener, passes, wire, watch, process, alive,
                   listenerOwner, mine, got, welcomed>>

\* The engine's registrations and what its UI has seen are gone with it, and
\* those of its calls that have not reached the service.
EngineGone(keep) ==
    /\ alive' = FALSE /\ front' = FALSE
    /\ mine' = {} /\ got' = {} /\ welcomed' = FALSE
    /\ wire' = {}
    /\ \E lost \in SUBSET (pending \cap (UiCalls \ {"isInit", "init"})) :
          pending' = (pending \ (lost \cup {"isInit", "init", "clear"})) \cup keep

\* onDetachedFromEngine: the engine goes, alone or for a new one.  Its job is
\* cancelled, and with it a registration it had not begun.
onDetachedFromEngine ==
    /\ "detach" \in Events /\ alive /\ EngineGone({"clear"}) /\ "attach" \notin pending'
    /\ listenerOwner' = IF listenerOwner = "current" THEN "old" ELSE listenerOwner
    /\ UNCHANGED <<delays, flags, listener, passes, watch, process>>

\* The app process dies.
die ==
    /\ "die" \in Events /\ process /\ process' = FALSE /\ EngineGone({})
    /\ listenerOwner' = "none"
    /\ notices' = notices \cup ({eventDeathRecipient} \ {None})
    /\ eventDeathRecipient' = None
    /\ UNCHANGED <<delays, flags, listener, passes, eventLock>>

-----------------------------------------------------------------------------
Init ==
    /\ latest = 0 /\ healthCheckSeen = 0
    /\ isInit = FALSE /\ uiActive = FALSE
    /\ eventListener = None /\ eventListenerMu = None
    /\ ref = [l \in Listeners |-> "unborn"]
    /\ pass = [p \in Passes |-> "idle"] /\ value = [p \in Passes |-> 0]
    /\ wire = {}
    /\ eventLock = "free" /\ eventDeathRecipient = None /\ notices = {}
    /\ process = FALSE /\ alive = FALSE /\ front = FALSE
    /\ listenerOwner = "none" /\ mine = {} /\ got = {} /\ welcomed = FALSE
    /\ pending = {}

Pass(p) ==
    \/ readHistory(p) \/ emitLatestDelay(p) \/ sendMessage(p)
    \/ emitEvent(p) \/ dispatched(p)

Next ==
    \/ measure \/ resetHealthCheckForwarderState
    \/ \E p \in Passes : tick(p) \/ flush(p) \/ Pass(p)
    \/ onEvent
    \/ \E l \in Listeners : attach(l) \/ binderDied(l)
    \/ attachFailed \/ setEventListener \/ detached \/ clearEventListener \/ onDestroy
    \/ setActive \/ setInactive \/ coldStart \/ getIsInit \/ handleInitClash
    \/ launch \/ resumed \/ paused \/ onDetachedFromEngine \/ die

Spec == Init /\ [][Next]_vars

\* Goroutines go on, with strong fairness where they wait for eventListenerMu;
\* the forwarder ticks again once its pass is done; events arrive.
Fairness ==
    /\ \A p \in Passes : SF_vars(Pass(p)) /\ WF_vars(tick(p))
    /\ WF_vars(onEvent)

FairSpec == Spec /\ Fairness

-----------------------------------------------------------------------------
(* Properties.                                                             *)

\* The types of the state; an event always has a listener and a measurement.
TypeOK ==
    /\ latest \in 0..MaxDelay /\ healthCheckSeen \in 0..MaxDelay
    /\ isInit \in BOOLEAN /\ uiActive \in BOOLEAN
    /\ eventListener \in Listeners \cup {None}
    /\ eventListenerMu \in Passes \cup {None}
    /\ ref \in [Listeners -> {"unborn", "live", "deleted"}]
    /\ pass \in [Passes -> {"idle", "read", "dedup", "send", "emit", "jvm"}]
    /\ value \in [Passes -> 0..MaxDelay]
    /\ wire \in SUBSET (Listeners \X (1..MaxDelay))
    /\ eventLock \in Listeners \cup {"free", "nil", "background"}
    /\ eventDeathRecipient \in Listeners \cup {None}
    /\ notices \in SUBSET Listeners
    /\ process \in BOOLEAN /\ alive \in BOOLEAN /\ front \in BOOLEAN
    /\ listenerOwner \in {"none", "old", "current"}
    /\ mine \in SUBSET Listeners /\ got \in SUBSET (1..MaxDelay)
    /\ welcomed \in BOOLEAN
    /\ pending \in SUBSET Calls

\* Nothing about delays is under way.
Quiet == wire = {} /\ \A p \in Passes : pass[p] = "idle"

\* Once a UI has said that it is in front after it had registered, the
\* de-duplication never withholds a delay from it that it has not received
\* (hub.go on the reset in handleSetUiActive: otherwise "a plain flush here
\* would be fully de-duped and deliver NOTHING to the just-attached UI").
NothingWithheld ==
    welcomed /\ Quiet /\ healthCheckSeen # 0 => healthCheckSeen \in got

\* A UI that has registered stays registered as long as it lives: neither the
\* clean-up of an earlier engine nor the notice of an earlier process's death
\* takes its listener away (Service.kt: "an unguarded trailing null would wipe
\* the fresh listener").  What eventLock holds is yet to be registered.
StaysRegistered == mine \ {eventLock} # {} => eventListener \in mine

\* Registrations do not pile up in the JVM's table of global references: with
\* none in progress only the current listener's reference is held.
OnlyListenerHeld ==
    eventLock \notin Listeners => \A l \in Listeners : ref[l] = "live" => l = eventListener

\* While a registered UI stays in front, with the flag set, the last
\* measurement reaches it in the end (emitLatestDelay records a delay before
\* it knows whether it is delivered).
LatestDelayArrives ==
    <>[](welcomed /\ uiActive) => <>[](latest = 0 \/ latest \in got)

\* hub.go: "uiActive reflects whether the Flutter UI is in the foreground";
\* android_bride.go: "Any new UI re-asserts true on attach".  With no call under
\* way, a registered UI that is in front has the flag set.
UiActiveReflectsForeground ==
    mine # {} /\ front /\ pending = {} /\ eventLock = "free" => uiActive

\* ServicePlugin.kt: "events (logs/traffic/state) reach Flutter strictly in
\* order".  A UI does not receive an older measurement after a newer one.
DelaysInOrder == [][\A new \in got' \ got : \A old \in got : old < new]_vars

\* The JVM's contract for global references, with a pass inside emitEvent's
\* call as a user of the listener.
Jvm == INSTANCE JniRefs WITH
    Refs <- Listeners, Users <- Passes,
    user <- [p \in Passes |-> IF pass[p] = "jvm" THEN eventListener ELSE None]

\* The event listener's code implements that contract: emitEvent never calls
\* through a reference that setEventListener has released or is releasing.
ImplementsJniRefs == Jvm!Spec

-----------------------------------------------------------------------------
(* The inductive invariant.                                                *)

\* A pass past readHistory carries a measurement; the one inside the JVM holds
\* eventListenerMu, and there is a listener while it does.
PassDiscipline ==
    /\ \A p \in Passes : pass[p] \in {"dedup", "send", "emit", "jvm"} => value[p] # 0
    /\ \A p \in Passes : pass[p] = "jvm" <=> eventListenerMu = p
    /\ eventListenerMu # None => eventListener # None

\* The live references are the listener and the one on its way in.
RefDiscipline ==
    /\ eventListener # None => ref[eventListener] = "live"
    /\ eventLock \in Listeners => ref[eventLock] = "live" /\ eventLock # eventListener
    /\ \A l \in Listeners : ref[l] = "live" => l \in {eventListener, eventLock}
    /\ \A l \in Listeners : ref[l] = "unborn" => l \notin notices /\ l # eventDeathRecipient

\* Nobody is about to remove the listener of the current engine: its owner is that
\* engine, and no notice of a death is about one of its registrations.
OwnerDiscipline ==
    /\ StaysRegistered
    /\ mine # {} => listenerOwner = "current" /\ eventLock \in mine \cup {"free"}
    /\ listenerOwner = "current" => process
    /\ mine \cap notices = {}

\* What the de-duplication has recorded is with the UI or on its way to it.
FeedDiscipline ==
    /\ welcomed => eventListener \in mine
    /\ welcomed /\ healthCheckSeen # 0 =>
          \/ healthCheckSeen \in got
          \/ \E p \in Passes : pass[p] \in {"send", "emit", "jvm"} /\ value[p] = healthCheckSeen
          \/ \E l \in mine : <<l, healthCheckSeen>> \in wire

Inv == PassDiscipline /\ RefDiscipline /\ OwnerDiscipline /\ FeedDiscipline
=============================================================================
