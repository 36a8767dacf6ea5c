----------------------------- MODULE TunHandler -----------------------------
(***************************************************************************)
(* The VPN tunnel of the Android core (core/lib_android.go).  A start gets *)
(* a file descriptor and a JVM callback from VpnService; the tunnel's dial *)
(* goroutines call the callback through a socket hook; a stop drains those *)
(* calls, but only for a bounded time, since a call into the JVM can wedge.*)
(*                                                                         *)
(* A session is one start: its fd, its callback reference and the          *)
(* TunHandler made for it.  Starts come one at a time (State.runLock of    *)
(* the Android service); stops come from anywhere (onDestroy does not take *)
(* that lock).  fd 0 is no descriptor VpnService hands out and is left out.*)
(***************************************************************************)
EXTENDS FiniteSets, Naturals

CONSTANTS
    Sessions,   \* starts
    Procs,      \* JNI threads inside startTUN or stopTun
    Calls,      \* dial goroutines that consult the hook
    Limit,      \* weight of TunHandler.limit (4 in the code)
    None        \* nil

ASSUME TunHandlerAssumption ==
    /\ None \notin Sessions \cup Procs
    /\ IsFiniteSet(Calls)
    /\ Limit \in Nat \ {0}

VARIABLES
    hasConfig,  \* currentConfig # nil
    tunLock,    \* holder of tunLock between two steps, or None
    runTime,    \* runTime # nil
    tunUp,
    tunHandler, \* session of the current TunHandler, or None
    hook,       \* session the socket hook is bound to, or None
    listener,   \* t.listener # nil, that is the device of the session is up
    callback,   \* t.callback # nil
    held,       \* calls holding a permit of t.limit
    drained,    \* close() holds every permit of t.limit
    ref,        \* the JVM's global reference of the session's callback
    fd,         \* "none", "open" or "closed"
    closes,     \* times the fd was closed
    timedOut,   \* sessions whose drain has timed out
    pc, op,     \* where a thread is, and the session it starts (None: a stop)
    callPc, call \* where a dial goroutine is, and in which session

tunnel  == <<tunLock, runTime, tunHandler, hook>>
handler == <<listener, callback, held, drained>>
session == <<ref, fd, closes, timedOut>>
procs   == <<pc, op>>
calls   == <<callPc, call>>
vars    == <<hasConfig, tunUp, tunnel, handler, session, procs, calls>>

Set(f, s, v) == [f EXCEPT ![s] = v]

Goto(p, l) == pc' = [pc EXCEPT ![p] = l]

releaseObject(s) == ref' = Set(ref, s, "deleted")

\* What follows handleStopTun: the rest of a start, or nothing.
afterStop(p) == IF op[p] = None THEN "idle" ELSE "config"

-----------------------------------------------------------------------------
(* handleStopTun and TunHandler.close.                                     *)

StopTun(p) ==
    /\ pc[p] = "idle" /\ Goto(p, "stop")
    /\ op' = Set(op, p, None)
    /\ UNCHANGED <<hasConfig, tunUp, tunnel, handler, session, calls>>

\* Mutant: the flag that gates the forwarders is left set.
stopWithoutFlag(p) ==
    /\ pc[p] = "stop" /\ tunLock = None
    /\ runTime' = FALSE
    /\ IF tunHandler = None
       THEN Goto(p, afterStop(p)) /\ UNCHANGED tunLock
       ELSE Goto(p, "drain") /\ tunLock' = p
    /\ UNCHANGED <<hasConfig, tunUp, tunHandler, hook, handler, session, op, calls>>

stopLock(p) ==
    /\ pc[p] = "stop" /\ tunLock = None
    /\ runTime' = FALSE /\ tunUp' = FALSE
    /\ IF tunHandler = None
       THEN Goto(p, afterStop(p)) /\ UNCHANGED tunLock
       ELSE Goto(p, "drain") /\ tunLock' = p
    /\ UNCHANGED <<hasConfig, tunHandler, hook, handler, session, op, calls>>

\* limit.Acquire(ctx, 4) succeeds.
drain(p) ==
    /\ pc[p] = "drain" /\ held[tunHandler] = {}
    /\ drained' = Set(drained, tunHandler, TRUE)
    /\ Goto(p, "teardown")
    /\ UNCHANGED <<hasConfig, tunUp, tunnel, listener, callback, held, session, op, calls>>

\* Mutant: the drain is not bounded.
drainForEver(p) == FALSE /\ UNCHANGED vars

\* ... or three seconds pass with a permit still out.
drainTimeout(p) ==
    /\ pc[p] = "drain" /\ held[tunHandler] # {}
    /\ timedOut' = timedOut \cup {tunHandler}
    /\ Goto(p, "teardown")
    /\ UNCHANGED <<hasConfig, tunUp, tunnel, handler, ref, fd, closes, op, calls>>

\* Mutant: the listener is closed and kept.
teardownKeepingListener(p) ==
    /\ pc[p] = "teardown"
    /\ hook' = None
    /\ IF listener[tunHandler]
       THEN /\ fd' = Set(fd, tunHandler, "closed")
            /\ closes' = [closes EXCEPT ![tunHandler] = @ + 1]
       ELSE UNCHANGED <<fd, closes>>
    /\ Goto(p, "release")
    /\ UNCHANGED <<hasConfig, tunUp, tunLock, runTime, tunHandler, handler,
                   ref, timedOut, op, calls>>

\* removeTunHook; the listener is cleared, then closed, which closes the fd.
teardown(p) ==
    /\ pc[p] = "teardown"
    /\ hook' = None
    /\ listener' = Set(listener, tunHandler, FALSE)
    /\ IF listener[tunHandler]
       THEN /\ fd' = Set(fd, tunHandler, "closed")
            /\ closes' = [closes EXCEPT ![tunHandler] = @ + 1]
       ELSE UNCHANGED <<fd, closes>>
    /\ Goto(p, "release")
    /\ UNCHANGED <<hasConfig, tunUp, tunLock, runTime, tunHandler, callback, held,
                   drained, ref, timedOut, op, calls>>

\* Mutant: the reference is deleted after a timeout as well.
releaseAlways(p) ==
    /\ pc[p] = "release"
    /\ IF callback[tunHandler] THEN releaseObject(tunHandler) ELSE UNCHANGED ref
    /\ callback' = Set(callback, tunHandler, FALSE)
    /\ drained' = Set(drained, tunHandler, FALSE)
    /\ tunLock' = None
    /\ Goto(p, afterStop(p))
    /\ UNCHANGED <<hasConfig, tunUp, runTime, tunHandler, hook, listener, held,
                   fd, closes, timedOut, op, calls>>

\* The reference goes only if the drain succeeded; the permits and tunLock go.
release(p) ==
    /\ pc[p] = "release"
    /\ IF drained[tunHandler]
       THEN /\ IF callback[tunHandler] THEN releaseObject(tunHandler) ELSE UNCHANGED ref
            /\ callback' = Set(callback, tunHandler, FALSE)
       ELSE UNCHANGED <<ref, callback>>
    /\ drained' = Set(drained, tunHandler, FALSE)
    /\ tunLock' = None
    /\ Goto(p, afterStop(p))
    /\ UNCHANGED <<hasConfig, tunUp, runTime, tunHandler, hook, listener, held,
                   fd, closes, timedOut, op, calls>>

-----------------------------------------------------------------------------
(* handleStartTun.                                                         *)

\* Mutant: a start does not stop the tunnel that is up.
startWithoutStop(p, s) ==
    /\ pc[p] = "idle" /\ \A q \in Procs : pc[q] = "idle" \/ op[q] = None
    /\ ref[s] = "unborn"
    /\ ref' = Set(ref, s, "live") /\ fd' = Set(fd, s, "open")
    /\ Goto(p, "config") /\ op' = Set(op, p, s)
    /\ UNCHANGED <<hasConfig, tunUp, tunnel, handler, closes, timedOut, calls>>

\* nativeStartTun makes the reference and hands the fd over; the core stops
\* whatever is up before it looks at anything else.
StartTun(p, s) ==
    /\ pc[p] = "idle" /\ \A q \in Procs : pc[q] = "idle" \/ op[q] = None
    /\ ref[s] = "unborn"
    /\ ref' = Set(ref, s, "live") /\ fd' = Set(fd, s, "open")
    /\ Goto(p, "stop") /\ op' = Set(op, p, s)
    /\ UNCHANGED <<hasConfig, tunUp, tunnel, handler, closes, timedOut, calls>>

\* Mutant: the early return forgets the callback.
startConfigLeak(p) ==
    /\ pc[p] = "config"
    /\ IF hasConfig
       THEN Goto(p, "start") /\ UNCHANGED <<ref, fd, closes>>
       ELSE /\ fd' = Set(fd, op[p], "closed")
            /\ closes' = [closes EXCEPT ![op[p]] = @ + 1]
            /\ Goto(p, "idle") /\ UNCHANGED ref
    /\ UNCHANGED <<hasConfig, tunUp, tunnel, handler, timedOut, op, calls>>

\* Under runLock.  Without a configuration the start gives fd and callback up.
startConfig(p) ==
    /\ pc[p] = "config"
    /\ IF hasConfig
       THEN Goto(p, "start") /\ UNCHANGED <<ref, fd, closes>>
       ELSE /\ fd' = Set(fd, op[p], "closed")
            /\ closes' = [closes EXCEPT ![op[p]] = @ + 1]
            /\ releaseObject(op[p])
            /\ Goto(p, "idle")
    /\ UNCHANGED <<hasConfig, tunUp, tunnel, handler, timedOut, op, calls>>

\* tunLock again: a new handler takes the place of the old one, and initTunHook
\* binds the hooks to it before it has a listener.
startLock(p) ==
    /\ pc[p] = "start" /\ tunLock = None
    /\ tunLock' = p
    /\ runTime' = TRUE
    /\ tunHandler' = op[p] /\ hook' = op[p]
    /\ callback' = Set(callback, op[p], TRUE)
    /\ Goto(p, "open")
    /\ UNCHANGED <<hasConfig, tunUp, listener, held, drained, session, op, calls>>

\* t.Start succeeds.
openTun(p) ==
    /\ pc[p] = "open"
    /\ listener' = Set(listener, op[p], TRUE)
    /\ tunUp' = TRUE
    /\ tunLock' = None
    /\ Goto(p, "idle")
    /\ UNCHANGED <<hasConfig, runTime, tunHandler, hook, callback, held, drained,
                   session, op, calls>>

\* t.Start fails.  sing-tun closes the fd, unless it fails before wrapping it
\* (a leak the code accepts).  The callback goes without a drain; runTime stays.
openTunFails(p) ==
    /\ pc[p] = "open"
    /\ hook' = None /\ tunHandler' = None
    /\ releaseObject(op[p])
    /\ \/ /\ fd' = Set(fd, op[p], "closed")
          /\ closes' = [closes EXCEPT ![op[p]] = @ + 1]
       \/ fd' = Set(fd, op[p], "leaked") /\ UNCHANGED closes
    /\ tunLock' = None
    /\ Goto(p, "idle")
    /\ UNCHANGED <<hasConfig, tunUp, runTime, handler, timedOut, op, calls>>

-----------------------------------------------------------------------------
(* The hooks: handleProtect and handleResolveProcess.                      *)

\* A dial reads the hook, and with it a handler.
dial(c) ==
    /\ callPc[c] = "idle" /\ hook # None
    /\ callPc' = Set(callPc, c, "acquire") /\ call' = Set(call, c, hook)
    /\ UNCHANGED <<hasConfig, tunUp, tunnel, handler, session, procs>>

\* limit.Acquire(1).  The order of the semaphore's queue is not modelled.
acquire(c) ==
    /\ callPc[c] = "acquire" /\ ~drained[call[c]]
    /\ Cardinality(held[call[c]]) < Limit
    /\ held' = [held EXCEPT ![call[c]] = @ \cup {c}]
    /\ callPc' = Set(callPc, c, "guard")
    /\ UNCHANGED <<hasConfig, tunUp, tunnel, listener, callback, drained, session,
                   procs, call>>

\* Mutant: the callback is used without looking at the listener.
enterUnguarded(c) ==
    /\ callPc[c] = "guard"
    /\ callPc' = Set(callPc, c, "jvm")
    /\ UNCHANGED <<hasConfig, tunUp, tunnel, handler, session, procs, call>>

\* A handler with a listener: into the JVM with its callback.
enterJvm(c) ==
    /\ callPc[c] = "guard" /\ listener[call[c]]
    /\ callPc' = Set(callPc, c, "jvm")
    /\ UNCHANGED <<hasConfig, tunUp, tunnel, handler, session, procs, call>>

\* A handler without one, or the JVM returns: the permit goes.
leave(c) ==
    /\ \/ callPc[c] = "guard" /\ ~listener[call[c]]
       \/ callPc[c] = "jvm"
    /\ held' = [held EXCEPT ![call[c]] = @ \ {c}]
    /\ callPc' = Set(callPc, c, "idle") /\ call' = Set(call, c, None)
    /\ UNCHANGED <<hasConfig, tunUp, tunnel, listener, callback, drained, session, procs>>

-----------------------------------------------------------------------------
(* The rest of the core: setupConfig and handleShutdown (module CoreHub).  *)

setupConfig ==
    /\ ~hasConfig /\ hasConfig' = TRUE
    /\ UNCHANGED <<tunUp, tunnel, handler, session, procs, calls>>

handleShutdown ==
    /\ hasConfig /\ hasConfig' = FALSE
    /\ tunUp' = FALSE
    /\ UNCHANGED <<tunnel, handler, session, procs, calls>>

-----------------------------------------------------------------------------
Init ==
    /\ hasConfig = FALSE
    /\ tunLock = None /\ runTime = FALSE /\ tunUp = FALSE
    /\ tunHandler = None /\ hook = None
    /\ listener = [s \in Sessions |-> FALSE] /\ callback = [s \in Sessions |-> FALSE]
    /\ held = [s \in Sessions |-> {}] /\ drained = [s \in Sessions |-> FALSE]
    /\ ref = [s \in Sessions |-> "unborn"]
    /\ fd = [s \in Sessions |-> "none"] /\ closes = [s \in Sessions |-> 0]
    /\ timedOut = {}
    /\ pc = [p \in Procs |-> "idle"] /\ op = [p \in Procs |-> None]
    /\ callPc = [c \in Calls |-> "idle"] /\ call = [c \in Calls |-> None]

Request(p) == StopTun(p) \/ \E s \in Sessions : StartTun(p, s)

Step(p) ==
    \/ stopLock(p) \/ drain(p) \/ drainTimeout(p) \/ teardown(p) \/ release(p)
    \/ startConfig(p) \/ startLock(p) \/ openTun(p) \/ openTunFails(p)

Call(c) == dial(c) \/ acquire(c) \/ enterJvm(c) \/ leave(c)

Next ==
    \/ \E p \in Procs : Request(p) \/ Step(p)
    \/ \E c \in Calls : Call(c)
    \/ setupConfig \/ handleShutdown

Spec == Init /\ [][Next]_vars

\* A JNI thread goes on, with strong fairness for tunLock (a Go mutex does not
\* starve a waiter).  Nothing is assumed of the dial goroutines: a call into
\* the JVM may never return.
FairSpec == Spec /\ \A p \in Procs : SF_vars(Step(p))

-----------------------------------------------------------------------------
(* Properties.                                                             *)

\* The types of the state; no handler has more than Limit permits out.
TypeOK ==
    /\ hasConfig \in BOOLEAN /\ runTime \in BOOLEAN /\ tunUp \in BOOLEAN
    /\ tunLock \in Procs \cup {None}
    /\ tunHandler \in Sessions \cup {None} /\ hook \in Sessions \cup {None}
    /\ listener \in [Sessions -> BOOLEAN] /\ callback \in [Sessions -> BOOLEAN]
    /\ held \in [Sessions -> SUBSET Calls] /\ drained \in [Sessions -> BOOLEAN]
    /\ \A s \in Sessions : Cardinality(held[s]) <= Limit
    /\ ref \in [Sessions -> {"unborn", "live", "deleted"}]
    /\ fd \in [Sessions -> {"none", "open", "closed", "leaked"}]
    /\ closes \in [Sessions -> Nat]
    /\ timedOut \in SUBSET Sessions
    /\ pc \in [Procs -> {"idle", "stop", "drain", "teardown", "release", "config",
                         "start", "open"}]
    /\ op \in [Procs -> Sessions \cup {None}]
    /\ callPc \in [Calls -> {"idle", "acquire", "guard", "jvm"}]
    /\ call \in [Calls -> Sessions \cup {None}]

Quiet == \A p \in Procs : pc[p] = "idle"

\* A dial goroutine inside the JVM uses a reference that exists and a callback
\* field that is set, whatever stops, timed-out drains, failed starts and
\* restarts happened since it read the hook.
NoUseAfterRelease ==
    \A c \in Calls :
        callPc[c] = "jvm" => ref[call[c]] = "live" /\ callback[call[c]]

\* At most one device is up, the current handler's, and getRunTime reports it.
OneTunnel ==
    \A s \in Sessions : listener[s] => s = tunHandler /\ (tunLock = None => runTime)

\* The tunUp flag of hub.go is only set over a device that is up.
FlagMeansTunnel ==
    tunUp => tunHandler # None /\ listener[tunHandler]

\* A descriptor is closed at most once (its number may be another's by then),
\* and not while its device is up.
FdClosedOnce ==
    \A s \in Sessions : closes[s] <= 1 /\ (listener[s] => closes[s] = 0)

\* When no start or stop is in progress, every callback reference is deleted
\* but the current handler's and those a timed-out drain gave up, and every
\* descriptor is closed but that of the device that is up.
NothingLeaks ==
    Quiet => \A s \in Sessions :
        /\ ref[s] = "live" => s = tunHandler \/ s \in timedOut
        /\ fd[s] = "open" => listener[s]

\* tunLock is held by the thread inside close() or t.Start, and by no other;
\* whoever holds it has cleared tunUp.
LockDiscipline ==
    /\ \A p \in Procs :
         (pc[p] \in {"drain", "teardown", "release", "open"}) <=> (tunLock = p)
    /\ tunLock # None => ~tunUp

\* close() works on a handler, has either drained it or given its callback up,
\* and has cleared the listener when it comes to the callback.
CloseDiscipline ==
    /\ \A p \in Procs :
         /\ pc[p] \in {"drain", "teardown", "release"} => tunHandler # None
         /\ pc[p] \in {"teardown", "release"} =>
               drained[tunHandler] \/ tunHandler \in timedOut
         /\ pc[p] = "release" => ~listener[tunHandler]
    /\ \A s \in Sessions :
         drained[s] =>
            /\ held[s] = {} /\ s = tunHandler
            /\ \E p \in Procs : pc[p] \in {"teardown", "release"}

Starting(p) == pc[p] # "idle" /\ op[p] # None

\* A session no handler was made for.
Fresh(s) ==
    /\ ~callback[s] /\ tunHandler # s /\ hook # s /\ closes[s] = 0
    /\ ~listener[s] /\ \A c \in Calls : call[c] # s

\* A single start is in progress; its session is fresh until it has its handler,
\* and once it has stopped the old tunnel no device is up and the old callback
\* is deleted or given up.
StartDiscipline ==
    /\ \A p, q \in Procs : Starting(p) /\ Starting(q) => p = q
    /\ \A s \in Sessions : ref[s] = "unborn" => Fresh(s) /\ fd[s] = "none"
    /\ \A p \in Procs : Starting(p) =>
         /\ ref[op[p]] = "live" /\ fd[op[p]] = "open"
         /\ pc[p] # "open" => Fresh(op[p])
         /\ pc[p] = "open" => /\ tunHandler = op[p] /\ runTime
                              /\ closes[op[p]] = 0 /\ callback[op[p]]
                              /\ \A c \in Calls : ~(callPc[c] = "jvm" /\ call[c] = op[p])
         /\ pc[p] \in {"config", "start", "open"} =>
               ~tunUp /\ \A s \in Sessions : ~listener[s]
         /\ pc[p] \in {"config", "start"} /\ tunHandler # None =>
               ref[tunHandler] # "live" \/ tunHandler \in timedOut
    /\ \A p \in Procs : pc[p] \in {"config", "start", "open"} => op[p] # None

\* The current handler owns a callback exactly while its reference lives; a
\* device that is up belongs to it.
HandlerDiscipline ==
    /\ hook # None => hook = tunHandler
    /\ tunHandler # None => (callback[tunHandler] <=> ref[tunHandler] = "live")
    /\ \A s \in Sessions : listener[s] => callback[s]
    /\ OneTunnel /\ FlagMeansTunnel /\ FdClosedOnce

\* A goroutine past Acquire holds a permit of the handler it read.
CallDiscipline ==
    \A c \in Calls :
        /\ (callPc[c] = "idle") <=> (call[c] = None)
        /\ callPc[c] \in {"guard", "jvm"} => c \in held[call[c]]

\* What is still alive belongs to the current handler, to a start in progress
\* or to a drain that timed out.
Owned ==
    \A s \in Sessions :
        /\ ref[s] = "live" =>
             \/ s = tunHandler \/ s \in timedOut
             \/ \E p \in Procs : Starting(p) /\ op[p] = s
        /\ fd[s] = "open" => listener[s] \/ \E p \in Procs : Starting(p) /\ op[p] = s

\* The inductive invariant.
Inv ==
    /\ LockDiscipline /\ CloseDiscipline /\ StartDiscipline
    /\ HandlerDiscipline /\ CallDiscipline /\ Owned /\ NoUseAfterRelease

\* A start or a stop ends even if a call into the JVM never returns.
StartAndStopEnd == \A p \in Procs : (pc[p] # "idle") ~> (pc[p] = "idle")

\* The JVM's contract for global references, with each call inside the JVM as
\* a user of its session's callback.
Jvm == INSTANCE JniRefs WITH
    Refs <- Sessions, Users <- Calls, ref <- ref,
    user <- [c \in Calls |-> IF callPc[c] = "jvm" THEN call[c] ELSE None]

\* The tunnel implements that contract (NewGlobalRef on start, EnterCall in
\* handleProtect and handleResolveProcess, DeleteGlobalRef in close and in the
\* failure paths of handleStartTun).
ImplementsJniRefs == Jvm!Spec
=============================================================================
