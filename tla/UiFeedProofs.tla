---------------------------- MODULE UiFeedProofs ----------------------------
(***************************************************************************)
(* Proofs about UiFeed, for any number of registrations, passes and        *)
(* measurements and all events of the environment.                         *)
(*                                                                         *)
(* The argument for StaysRegistered: a removal is begun by a death notice, *)
(* by the clean-up of an engine, or by onDestroy.  A notice is about a     *)
(* registration of a process that has died, never one of the current       *)
(* engine; a clean-up acts only for an owner that is gone; and an engine   *)
(* has a process (OwnerDiscipline).  Since a removal that has begun keeps  *)
(* eventLock, no engine can register before it is over.                    *)
(***************************************************************************)
EXTENDS UiFeed, TLAPS

\* Every step preserves the types.
LEMMA TypeStep ==
    TypeOK /\ PassDiscipline /\ [Next]_vars => TypeOK'
<1> SUFFICES ASSUME TypeOK, PassDiscipline, [Next]_vars
             PROVE  TypeOK'
    OBVIOUS
<1> USE UiFeedAssumption DEF TypeOK
<1>1. CASE measure
    BY <1>1 DEF measure, flags, listener, passes, watch, ui
<1>2. CASE resetHealthCheckForwarderState
    BY <1>2 DEF resetHealthCheckForwarderState, flags, listener, passes, watch, ui
<1>3. ASSUME NEW p \in Passes, tick(p) PROVE TypeOK'
    BY <1>3 DEF tick, Step, delays, flags, listener, watch, ui
<1>4. ASSUME NEW p \in Passes, flush(p) PROVE TypeOK'
    BY <1>4 DEF flush, Step, Served, flags, listener, watch
<1>5. ASSUME NEW p \in Passes, readHistory(p) PROVE TypeOK'
    BY <1>5 DEF readHistory, Done, delays, flags, listener, watch, ui
<1>6. ASSUME NEW p \in Passes, emitLatestDelay(p) PROVE TypeOK'
    BY <1>6 DEF emitLatestDelay, Done, Step, flags, listener, watch, ui
<1>7. ASSUME NEW p \in Passes, sendMessage(p) PROVE TypeOK'
    BY <1>7 DEF sendMessage, Done, Step, delays, flags, listener, watch, ui
<1>8. ASSUME NEW p \in Passes, emitEvent(p) PROVE TypeOK'
    BY <1>8 DEF emitEvent, Done, Step, delays, flags, watch, ui
<1>9. ASSUME NEW p \in Passes, dispatched(p) PROVE TypeOK'
  <2>1. value[p] \in 1 .. MaxDelay /\ eventListener \in Listeners
    BY <1>9 DEF dispatched, PassDiscipline
  <2>2. wire' \in SUBSET (Listeners \X (1 .. MaxDelay))
    BY <1>9, <2>1 DEF dispatched
  <2>3. UNCHANGED <<eventListener, ref, delays, flags, watch, ui, pending>>
    BY <1>9 DEF dispatched
  <2>4. pass' \in [Passes -> {"idle", "read", "dedup", "send", "emit",
     "jvm"}] /\ value' \in [Passes -> 0..MaxDelay]
    BY <1>9 DEF dispatched, Done
  <2>5. eventListenerMu' = None
    BY <1>9 DEF dispatched
  <2> QED
    BY <2>2, <2>3, <2>4, <2>5 DEF delays, flags, watch, ui
<1>10. CASE onEvent
  <2>1. got' \in SUBSET (1 .. MaxDelay) /\ wire' \in SUBSET (Listeners \X (1 .. MaxDelay))
    BY <1>10 DEF onEvent
  <2>2. UNCHANGED <<delays, flags, listener, passes, watch, process, alive, front,
     listenerOwner,
                    mine, welcomed, pending>>
    BY <1>10 DEF onEvent
  <2> QED
    BY <2>1, <2>2 DEF delays, flags, listener, passes, watch
<1>11. ASSUME NEW l \in Listeners, attach(l) PROVE TypeOK'
    BY <1>11 DEF attach, Served, delays, flags, passes
<1>12. ASSUME NEW l \in Listeners, binderDied(l) PROVE TypeOK'
    BY <1>12 DEF binderDied, delays, flags, listener, passes, ui
<1>13. CASE attachFailed
    BY <1>13 DEF attachFailed, Served, delays, flags, listener, passes, watch
<1>14. CASE setEventListener
    BY <1>14 DEF setEventListener, Incoming, delays, flags, passes, ui
<1>15. CASE detached
    BY <1>15 DEF detached, delays, listener, passes, ui
<1>16. CASE clearEventListener
    BY <1>16 DEF clearEventListener, Served, delays, flags, listener, passes
<1>17. CASE onDestroy
    BY <1>17 DEF onDestroy, delays, flags, listener, passes, ui
<1>18. CASE setActive
  <2>1. pending' \in SUBSET Calls
    BY <1>18 DEF setActive, Calls, UiCalls
  <2> QED
    BY <1>18, <2>1 DEF setActive, delays, listener, passes, watch, ui
<1>19. CASE setInactive
    BY <1>19 DEF setInactive, Served, delays, listener, passes, watch, ui
<1>20. CASE coldStart
  <2>1. pending' \in SUBSET Calls
    BY <1>20 DEF coldStart, Calls, UiCalls
  <2> QED
    BY <1>20, <2>1 DEF coldStart, delays, listener, passes, watch, ui
<1>21. CASE getIsInit
  <2>1. pending' \in SUBSET Calls
    BY <1>21 DEF getIsInit, Calls, UiCalls
  <2> QED
    BY <1>21, <2>1 DEF getIsInit, delays, flags, listener, passes, watch, ui
<1>22. CASE handleInitClash
    BY <1>22 DEF handleInitClash, Served, delays, listener, passes, watch, ui
<1>23. CASE launch
  <2>1. pending' \in SUBSET Calls
    BY <1>23 DEF launch, Calls, UiCalls
  <2> QED
    BY <1>23, <2>1 DEF launch, delays, flags, listener, passes, watch
<1>24. CASE resumed
  <2>1. pending' \in SUBSET Calls
    BY <1>24 DEF resumed, Calls, UiCalls
  <2> QED
    BY <1>24, <2>1 DEF resumed, delays, flags, listener, passes, watch
<1>25. CASE paused
  <2>1. pending' \in SUBSET Calls
    BY <1>25 DEF paused, Calls, UiCalls
  <2> QED
    BY <1>25, <2>1 DEF paused, delays, flags, listener, passes, watch
<1>26. CASE onDetachedFromEngine
  <2>1. pending' \in SUBSET Calls
    BY <1>26 DEF onDetachedFromEngine, EngineGone, Calls
  <2>2. listenerOwner' \in {"none", "old", "current"}
    BY <1>26 DEF onDetachedFromEngine
  <2> QED
    BY <1>26, <2>1, <2>2 DEF onDetachedFromEngine, EngineGone, delays, flags,
       listener, passes, watch
<1>27. CASE die
    BY <1>27 DEF die, EngineGone, delays, flags, listener, passes
<1>28. CASE UNCHANGED vars
    BY <1>28 DEF vars, delays, flags, listener, passes, watch, ui
<1> QED
    BY <1>1, <1>2, <1>3, <1>4, <1>5, <1>6, <1>7, <1>8, <1>9, <1>10, <1>11, <1>12,
       <1>13, <1>14, <1>15, <1>16, <1>17, <1>18, <1>19, <1>20, <1>21, <1>22, <1>23,
       <1>24, <1>25, <1>26, <1>27, <1>28
       DEF Next, Pass

\* A pass inside the JVM holds the mutex that setEventListener waits for.
LEMMA PassStep ==
    TypeOK /\ PassDiscipline /\ [Next]_vars => PassDiscipline'
<1> SUFFICES ASSUME TypeOK, PassDiscipline, [Next]_vars
             PROVE  PassDiscipline'
    OBVIOUS
<1> USE UiFeedAssumption DEF TypeOK, PassDiscipline
<1>1. CASE measure
    BY <1>1 DEF measure, flags, listener, passes, watch, ui
<1>2. CASE resetHealthCheckForwarderState
    BY <1>2 DEF resetHealthCheckForwarderState, flags, listener, passes, watch, ui
<1>3. ASSUME NEW p \in Passes, tick(p) PROVE PassDiscipline'
    BY <1>3 DEF tick, Step, delays, flags, listener, watch, ui
<1>4. ASSUME NEW p \in Passes, flush(p) PROVE PassDiscipline'
    BY <1>4 DEF flush, Step, Served, flags, listener, watch
<1>5. ASSUME NEW p \in Passes, readHistory(p) PROVE PassDiscipline'
    BY <1>5 DEF readHistory, Done, delays, flags, listener, watch, ui
<1>6. ASSUME NEW p \in Passes, emitLatestDelay(p) PROVE PassDiscipline'
    BY <1>6 DEF emitLatestDelay, Done, Step, flags, listener, watch, ui
<1>7. ASSUME NEW p \in Passes, sendMessage(p) PROVE PassDiscipline'
    BY <1>7 DEF sendMessage, Done, Step, delays, flags, listener, watch, ui
<1>8. ASSUME NEW p \in Passes, emitEvent(p) PROVE PassDiscipline'
    BY <1>8 DEF emitEvent, Done, Step, delays, flags, watch, ui
<1>9. ASSUME NEW p \in Passes, dispatched(p) PROVE PassDiscipline'
    BY <1>9 DEF dispatched, Done, delays, flags, watch, ui
<1>10. CASE onEvent
    BY <1>10 DEF onEvent, delays, flags, listener, passes, watch
<1>11. ASSUME NEW l \in Listeners, attach(l) PROVE PassDiscipline'
    BY <1>11 DEF attach, Served, delays, flags, passes
<1>12. ASSUME NEW l \in Listeners, binderDied(l) PROVE PassDiscipline'
    BY <1>12 DEF binderDied, delays, flags, listener, passes, ui
<1>13. CASE attachFailed
    BY <1>13 DEF attachFailed, Served, delays, flags, listener, passes, watch
<1>14. CASE setEventListener
    BY <1>14 DEF setEventListener, Incoming, delays, flags, passes, ui
<1>15. CASE detached
    BY <1>15 DEF detached, delays, listener, passes, ui
<1>16. CASE clearEventListener
    BY <1>16 DEF clearEventListener, Served, delays, flags, listener, passes
<1>17. CASE onDestroy
    BY <1>17 DEF onDestroy, delays, flags, listener, passes, ui
<1>18. CASE setActive
    BY <1>18 DEF setActive, delays, listener, passes, watch, ui
<1>19. CASE setInactive
    BY <1>19 DEF setInactive, Served, delays, listener, passes, watch, ui
<1>20. CASE coldStart
    BY <1>20 DEF coldStart, delays, listener, passes, watch, ui
<1>21. CASE getIsInit
    BY <1>21 DEF getIsInit, delays, flags, listener, passes, watch, ui
<1>22. CASE handleInitClash
    BY <1>22 DEF handleInitClash, Served, delays, listener, passes, watch, ui
<1>23. CASE launch
    BY <1>23 DEF launch, delays, flags, listener, passes, watch
<1>24. CASE resumed
    BY <1>24 DEF resumed, delays, flags, listener, passes, watch
<1>25. CASE paused
    BY <1>25 DEF paused, delays, flags, listener, passes, watch
<1>26. CASE onDetachedFromEngine
    BY <1>26 DEF onDetachedFromEngine, EngineGone, delays, flags, listener, passes,
       watch
<1>27. CASE die
    BY <1>27 DEF die, EngineGone, delays, flags, listener, passes
<1>28. CASE UNCHANGED vars
    BY <1>28 DEF vars, delays, flags, listener, passes, watch, ui
<1> QED
    BY <1>1, <1>2, <1>3, <1>4, <1>5, <1>6, <1>7, <1>8, <1>9, <1>10, <1>11, <1>12,
       <1>13, <1>14, <1>15, <1>16, <1>17, <1>18, <1>19, <1>20, <1>21, <1>22, <1>23,
       <1>24, <1>25, <1>26, <1>27, <1>28
       DEF Next, Pass

\* Each reference is the listener, is on its way in, or is gone.
LEMMA RefStep ==
    TypeOK /\ RefDiscipline /\ [Next]_vars => RefDiscipline'
<1> SUFFICES ASSUME TypeOK, RefDiscipline, [Next]_vars
             PROVE  RefDiscipline'
    OBVIOUS
<1> USE UiFeedAssumption DEF TypeOK, RefDiscipline
<1>1. CASE measure
    BY <1>1 DEF measure, flags, listener, passes, watch, ui
<1>2. CASE resetHealthCheckForwarderState
    BY <1>2 DEF resetHealthCheckForwarderState, flags, listener, passes, watch, ui
<1>3. ASSUME NEW p \in Passes, tick(p) PROVE RefDiscipline'
    BY <1>3 DEF tick, Step, delays, flags, listener, watch, ui
<1>4. ASSUME NEW p \in Passes, flush(p) PROVE RefDiscipline'
    BY <1>4 DEF flush, Step, Served, flags, listener, watch
<1>5. ASSUME NEW p \in Passes, readHistory(p) PROVE RefDiscipline'
    BY <1>5 DEF readHistory, Done, delays, flags, listener, watch, ui
<1>6. ASSUME NEW p \in Passes, emitLatestDelay(p) PROVE RefDiscipline'
    BY <1>6 DEF emitLatestDelay, Done, Step, flags, listener, watch, ui
<1>7. ASSUME NEW p \in Passes, sendMessage(p) PROVE RefDiscipline'
    BY <1>7 DEF sendMessage, Done, Step, delays, flags, listener, watch, ui
<1>8. ASSUME NEW p \in Passes, emitEvent(p) PROVE RefDiscipline'
    BY <1>8 DEF emitEvent, Done, Step, delays, flags, watch, ui
<1>9. ASSUME NEW p \in Passes, dispatched(p) PROVE RefDiscipline'
    BY <1>9 DEF dispatched, Done, delays, flags, watch, ui
<1>10. CASE onEvent
    BY <1>10 DEF onEvent, delays, flags, listener, passes, watch
<1>11. ASSUME NEW l \in Listeners, attach(l) PROVE RefDiscipline'
    BY <1>11 DEF attach, Served, delays, flags, passes
<1>12. ASSUME NEW l \in Listeners, binderDied(l) PROVE RefDiscipline'
    BY <1>12 DEF binderDied, delays, flags, listener, passes, ui
<1>13. CASE attachFailed
    BY <1>13 DEF attachFailed, Served, delays, flags, listener, passes, watch
<1>14. CASE setEventListener
    BY <1>14 DEF setEventListener, Incoming, delays, flags, passes, ui
<1>15. CASE detached
    BY <1>15 DEF detached, delays, listener, passes, ui
<1>16. CASE clearEventListener
    BY <1>16 DEF clearEventListener, Served, delays, flags, listener, passes
<1>17. CASE onDestroy
    BY <1>17 DEF onDestroy, delays, flags, listener, passes, ui
<1>18. CASE setActive
    BY <1>18 DEF setActive, delays, listener, passes, watch, ui
<1>19. CASE setInactive
    BY <1>19 DEF setInactive, Served, delays, listener, passes, watch, ui
<1>20. CASE coldStart
    BY <1>20 DEF coldStart, delays, listener, passes, watch, ui
<1>21. CASE getIsInit
    BY <1>21 DEF getIsInit, delays, flags, listener, passes, watch, ui
<1>22. CASE handleInitClash
    BY <1>22 DEF handleInitClash, Served, delays, listener, passes, watch, ui
<1>23. CASE launch
    BY <1>23 DEF launch, delays, flags, listener, passes, watch
<1>24. CASE resumed
    BY <1>24 DEF resumed, delays, flags, listener, passes, watch
<1>25. CASE paused
    BY <1>25 DEF paused, delays, flags, listener, passes, watch
<1>26. CASE onDetachedFromEngine
    BY <1>26 DEF onDetachedFromEngine, EngineGone, delays, flags, listener, passes,
       watch
<1>27. CASE die
    BY <1>27 DEF die, EngineGone, delays, flags, listener, passes
<1>28. CASE UNCHANGED vars
    BY <1>28 DEF vars, delays, flags, listener, passes, watch, ui
<1> QED
    BY <1>1, <1>2, <1>3, <1>4, <1>5, <1>6, <1>7, <1>8, <1>9, <1>10, <1>11, <1>12,
       <1>13, <1>14, <1>15, <1>16, <1>17, <1>18, <1>19, <1>20, <1>21, <1>22, <1>23,
       <1>24, <1>25, <1>26, <1>27, <1>28
       DEF Next, Pass

\* No removal begins that is about the listener of the current engine.
LEMMA OwnerStep ==
    TypeOK /\ RefDiscipline /\ OwnerDiscipline /\ [Next]_vars => OwnerDiscipline'
<1> SUFFICES ASSUME TypeOK, RefDiscipline, OwnerDiscipline, [Next]_vars
             PROVE  OwnerDiscipline'
    OBVIOUS
<1> USE UiFeedAssumption DEF TypeOK, OwnerDiscipline, StaysRegistered
<1>1. CASE measure
    BY <1>1 DEF measure, flags, listener, passes, watch, ui
<1>2. CASE resetHealthCheckForwarderState
    BY <1>2 DEF resetHealthCheckForwarderState, flags, listener, passes, watch, ui
<1>3. ASSUME NEW p \in Passes, tick(p) PROVE OwnerDiscipline'
    BY <1>3 DEF tick, Step, delays, flags, listener, watch, ui
<1>4. ASSUME NEW p \in Passes, flush(p) PROVE OwnerDiscipline'
    BY <1>4 DEF flush, Step, Served, flags, listener, watch
<1>5. ASSUME NEW p \in Passes, readHistory(p) PROVE OwnerDiscipline'
    BY <1>5 DEF readHistory, Done, delays, flags, listener, watch, ui
<1>6. ASSUME NEW p \in Passes, emitLatestDelay(p) PROVE OwnerDiscipline'
    BY <1>6 DEF emitLatestDelay, Done, Step, flags, listener, watch, ui
<1>7. ASSUME NEW p \in Passes, sendMessage(p) PROVE OwnerDiscipline'
    BY <1>7 DEF sendMessage, Done, Step, delays, flags, listener, watch, ui
<1>8. ASSUME NEW p \in Passes, emitEvent(p) PROVE OwnerDiscipline'
    BY <1>8 DEF emitEvent, Done, Step, delays, flags, watch, ui
<1>9. ASSUME NEW p \in Passes, dispatched(p) PROVE OwnerDiscipline'
    BY <1>9 DEF dispatched, Done, delays, flags, watch, ui
<1>10. CASE onEvent
    BY <1>10 DEF onEvent, delays, flags, listener, passes, watch
<1>11. ASSUME NEW l \in Listeners, attach(l) PROVE OwnerDiscipline'
    BY <1>11 DEF attach, Served, delays, flags, passes, RefDiscipline
<1>12. ASSUME NEW l \in Listeners, binderDied(l) PROVE OwnerDiscipline'
    BY <1>12 DEF binderDied, delays, flags, listener, passes, ui
<1>13. CASE attachFailed
    BY <1>13 DEF attachFailed, Served, delays, flags, listener, passes, watch
<1>14. CASE setEventListener
    BY <1>14 DEF setEventListener, Incoming, delays, flags, passes, ui
<1>15. CASE detached
    BY <1>15 DEF detached, delays, listener, passes, ui
<1>16. CASE clearEventListener
    BY <1>16 DEF clearEventListener, Served, delays, flags, listener, passes
<1>17. CASE onDestroy
    BY <1>17 DEF onDestroy, delays, flags, listener, passes, ui
<1>18. CASE setActive
    BY <1>18 DEF setActive, delays, listener, passes, watch, ui
<1>19. CASE setInactive
    BY <1>19 DEF setInactive, Served, delays, listener, passes, watch, ui
<1>20. CASE coldStart
    BY <1>20 DEF coldStart, delays, listener, passes, watch, ui
<1>21. CASE getIsInit
    BY <1>21 DEF getIsInit, delays, flags, listener, passes, watch, ui
<1>22. CASE handleInitClash
    BY <1>22 DEF handleInitClash, Served, delays, listener, passes, watch, ui
<1>23. CASE launch
    BY <1>23 DEF launch, delays, flags, listener, passes, watch
<1>24. CASE resumed
    BY <1>24 DEF resumed, delays, flags, listener, passes, watch
<1>25. CASE paused
    BY <1>25 DEF paused, delays, flags, listener, passes, watch
<1>26. CASE onDetachedFromEngine
    BY <1>26 DEF onDetachedFromEngine, EngineGone, delays, flags, listener, passes,
       watch
<1>27. CASE die
    BY <1>27 DEF die, EngineGone, delays, flags, listener, passes
<1>28. CASE UNCHANGED vars
    BY <1>28 DEF vars, delays, flags, listener, passes, watch, ui
<1> QED
    BY <1>1, <1>2, <1>3, <1>4, <1>5, <1>6, <1>7, <1>8, <1>9, <1>10, <1>11, <1>12,
       <1>13, <1>14, <1>15, <1>16, <1>17, <1>18, <1>19, <1>20, <1>21, <1>22, <1>23,
       <1>24, <1>25, <1>26, <1>27, <1>28
       DEF Next, Pass

\* What emitLatestDelay has recorded is on its way until it arrives.
LEMMA FeedStep ==
    TypeOK /\ PassDiscipline /\ OwnerDiscipline /\ FeedDiscipline /\ [Next]_vars => FeedDiscipline'
<1> SUFFICES ASSUME TypeOK, PassDiscipline, OwnerDiscipline, FeedDiscipline,
   [Next]_vars
             PROVE  FeedDiscipline'
    OBVIOUS
<1> USE UiFeedAssumption DEF TypeOK, FeedDiscipline
<1>1. CASE measure
    BY <1>1 DEF measure, flags, listener, passes, watch, ui
<1>2. CASE resetHealthCheckForwarderState
    BY <1>2 DEF resetHealthCheckForwarderState, flags, listener, passes, watch, ui
<1>3. ASSUME NEW p \in Passes, tick(p) PROVE FeedDiscipline'
    BY <1>3 DEF tick, Step, delays, flags, listener, watch, ui
<1>4. ASSUME NEW p \in Passes, flush(p) PROVE FeedDiscipline'
    BY <1>4 DEF flush, Step, Served, flags, listener, watch
<1>5. ASSUME NEW p \in Passes, readHistory(p) PROVE FeedDiscipline'
    BY <1>5 DEF readHistory, Done, delays, flags, listener, watch, ui
<1>6. ASSUME NEW p \in Passes, emitLatestDelay(p) PROVE FeedDiscipline'
    BY <1>6 DEF emitLatestDelay, Done, Step, flags, listener, watch, ui
<1>7. ASSUME NEW p \in Passes, sendMessage(p) PROVE FeedDiscipline'
  <2>1. welcomed => eventListener # None
    BY DEF OwnerDiscipline, StaysRegistered
  <2> QED
    BY <1>7, <2>1 DEF sendMessage, Done, Step, delays, flags, listener, watch, ui
<1>8. ASSUME NEW p \in Passes, emitEvent(p) PROVE FeedDiscipline'
  <2>1. welcomed => eventListener # None
    BY DEF OwnerDiscipline, StaysRegistered
  <2> QED
    BY <1>8, <2>1 DEF emitEvent, Done, Step, delays, flags, watch, ui
<1>9. ASSUME NEW p \in Passes, dispatched(p) PROVE FeedDiscipline'
  <2>1. welcomed => eventListener \in mine
    OBVIOUS
  <2>2. UNCHANGED <<eventListener, healthCheckSeen, mine, got, welcomed>>
    BY <1>9 DEF dispatched, delays, ui
  <2>3. wire' = wire \cup {<<eventListener, value[p]>>}
    BY <1>9 DEF dispatched
  <2>4. \A q \in Passes \ {p} : pass'[q] = pass[q] /\ value'[q] = value[q]
    BY <1>9 DEF dispatched, Done
  <2>5. ASSUME welcomed, healthCheckSeen # 0, value[p] = healthCheckSeen
        PROVE  \E l \in mine' : <<l, healthCheckSeen>> \in wire'
    BY <2>1, <2>2, <2>3, <2>5
  <2>6. ASSUME NEW q \in Passes, q # p, pass[q] \in {"send", "emit", "jvm"},
               value[q] = healthCheckSeen
        PROVE  pass'[q] \in {"send", "emit", "jvm"} /\ value'[q] = healthCheckSeen
    BY <2>4, <2>6
  <2> QED
    BY <2>1, <2>2, <2>3, <2>5, <2>6
<1>10. CASE onEvent
    BY <1>10 DEF onEvent, delays, flags, listener, passes, watch
<1>11. ASSUME NEW l \in Listeners, attach(l) PROVE FeedDiscipline'
    BY <1>11 DEF attach, Served, delays, flags, passes
<1>12. ASSUME NEW l \in Listeners, binderDied(l) PROVE FeedDiscipline'
    BY <1>12 DEF binderDied, delays, flags, listener, passes, ui
<1>13. CASE attachFailed
    BY <1>13 DEF attachFailed, Served, delays, flags, listener, passes, watch
<1>14. CASE setEventListener
    BY <1>14 DEF setEventListener, Incoming, delays, flags, passes, ui,
       OwnerDiscipline
<1>15. CASE detached
    BY <1>15 DEF detached, delays, listener, passes, ui
<1>16. CASE clearEventListener
    BY <1>16 DEF clearEventListener, Served, delays, flags, listener, passes
<1>17. CASE onDestroy
    BY <1>17 DEF onDestroy, delays, flags, listener, passes, ui
<1>18. CASE setActive
    BY <1>18 DEF setActive, delays, listener, passes, watch, ui
<1>19. CASE setInactive
    BY <1>19 DEF setInactive, Served, delays, listener, passes, watch, ui
<1>20. CASE coldStart
    BY <1>20 DEF coldStart, delays, listener, passes, watch, ui
<1>21. CASE getIsInit
    BY <1>21 DEF getIsInit, delays, flags, listener, passes, watch, ui
<1>22. CASE handleInitClash
    BY <1>22 DEF handleInitClash, Served, delays, listener, passes, watch, ui
<1>23. CASE launch
    BY <1>23 DEF launch, delays, flags, listener, passes, watch
<1>24. CASE resumed
    BY <1>24 DEF resumed, delays, flags, listener, passes, watch
<1>25. CASE paused
    BY <1>25 DEF paused, delays, flags, listener, passes, watch
<1>26. CASE onDetachedFromEngine
    BY <1>26 DEF onDetachedFromEngine, EngineGone, delays, flags, listener, passes,
       watch
<1>27. CASE die
    BY <1>27 DEF die, EngineGone, delays, flags, listener, passes
<1>28. CASE UNCHANGED vars
    BY <1>28 DEF vars, delays, flags, listener, passes, watch, ui
<1> QED
    BY <1>1, <1>2, <1>3, <1>4, <1>5, <1>6, <1>7, <1>8, <1>9, <1>10, <1>11, <1>12,
       <1>13, <1>14, <1>15, <1>16, <1>17, <1>18, <1>19, <1>20, <1>21, <1>22, <1>23,
       <1>24, <1>25, <1>26, <1>27, <1>28
       DEF Next, Pass

\* The engine, the listener and the UI keep to their types.
THEOREM TypeCorrect == Spec => []TypeOK
<1>1. Init => TypeOK
  <2> SUFFICES ASSUME Init PROVE TypeOK
    OBVIOUS
  <2>1. /\ latest \in 0..MaxDelay /\ healthCheckSeen \in 0..MaxDelay
        /\ value \in [Passes -> 0..MaxDelay]
    BY UiFeedAssumption DEF Init
  <2>2. /\ wire \in SUBSET (Listeners \X (1..MaxDelay)) /\ notices \in SUBSET Listeners
        /\ mine \in SUBSET Listeners /\ got \in SUBSET (1..MaxDelay)
        /\ pending \in SUBSET Calls
    BY DEF Init
  <2> QED
    BY <2>1, <2>2 DEF Init, TypeOK
<1>2. Init => PassDiscipline
    BY UiFeedAssumption DEF Init, PassDiscipline
<1>3. TypeOK /\ PassDiscipline /\ [Next]_vars => (TypeOK /\ PassDiscipline)'
    BY TypeStep, PassStep
<1> QED
    BY <1>1, <1>2, <1>3, PTL DEF Spec

\* The inductive invariant of the event listener and the de-duplication.
THEOREM Safety == Spec => []Inv
<1>1. Init => Inv
    BY UiFeedAssumption
       DEF Init, Inv, PassDiscipline, RefDiscipline, OwnerDiscipline, StaysRegistered,
           FeedDiscipline
<1>2. TypeOK /\ Inv /\ [Next]_vars => Inv'
    BY PassStep, RefStep, OwnerStep, FeedStep DEF Inv
<1> QED
    BY <1>1, <1>2, TypeCorrect, PTL DEF Spec

\* A UI that has registered stays registered as long as it lives, whatever
\* clean-ups and death notices of earlier engines and processes are under way.
THEOREM UiStaysRegistered == Spec => []StaysRegistered
<1>1. Inv => StaysRegistered
    BY DEF Inv, OwnerDiscipline
<1> QED
    BY <1>1, Safety, PTL

\* setEventListener releases what it replaces: references do not pile up.
THEOREM ListenersReleased == Spec => []OnlyListenerHeld
<1>1. Inv => OnlyListenerHeld
    BY DEF Inv, RefDiscipline, OnlyListenerHeld
<1> QED
    BY <1>1, Safety, PTL

\* The de-duplication of emitLatestDelay withholds no delay from a UI that has
\* announced itself after it had registered.
THEOREM DelaysNotWithheld == Spec => []NothingWithheld
<1>1. Inv => NothingWithheld
    BY DEF Inv, FeedDiscipline, NothingWithheld, Quiet
<1> QED
    BY <1>1, Safety, PTL
\* Every step is one of JniRefs, or changes neither the references nor who is
\* inside a call.
LEMMA JvmStep ==
    TypeOK /\ Inv /\ [Next]_vars =>
        [Jvm!Next]_<<ref,
           [p \in Passes |-> IF pass[p] = "jvm" THEN eventListener ELSE None]>>
<1> DEFINE user == [p \in Passes |-> IF pass[p] = "jvm" THEN eventListener ELSE None]
           Simulated == Jvm!Next \/ UNCHANGED <<ref, user>>
<1> SUFFICES ASSUME TypeOK, Inv, [Next]_vars PROVE Simulated
    OBVIOUS
<1> USE UiFeedAssumption DEF TypeOK
<1>0. CASE UNCHANGED <<listener, passes>>
    BY <1>0 DEF listener, passes
<1>1. CASE measure
    BY <1>1, <1>0 DEF measure
<1>2. CASE resetHealthCheckForwarderState
    BY <1>2, <1>0 DEF resetHealthCheckForwarderState
<1>3. ASSUME NEW p \in Passes, tick(p) PROVE Simulated
    BY <1>3 DEF tick, Step, listener
<1>4. ASSUME NEW p \in Passes, flush(p) PROVE Simulated
    BY <1>4 DEF flush, Step, Served, listener
<1>5. ASSUME NEW p \in Passes, readHistory(p) PROVE Simulated
    BY <1>5 DEF readHistory, Done, listener
<1>6. ASSUME NEW p \in Passes, emitLatestDelay(p) PROVE Simulated
    BY <1>6 DEF emitLatestDelay, Done, Step, listener
<1>7. ASSUME NEW p \in Passes, sendMessage(p) PROVE Simulated
    BY <1>7 DEF sendMessage, Done, Step, listener
<1>8. ASSUME NEW p \in Passes, emitEvent(p) PROVE Simulated
  <2>1. CASE eventListener = None
    BY <1>8, <2>1 DEF emitEvent, Done
  <2>2. CASE eventListener # None
    <3>1. PICK l \in Listeners : l = eventListener
      BY <2>2
    <3>2. Jvm!EnterCall(p, l)
      BY <1>8, <2>2, <3>1 DEF emitEvent, Step, Inv, RefDiscipline, Jvm!EnterCall
    <3> QED
      BY <3>2 DEF Jvm!Next
  <2> QED
    BY <2>1, <2>2
<1>9. ASSUME NEW p \in Passes, dispatched(p) PROVE Simulated
  <2>1. eventListenerMu = p /\ eventListener # None /\ user[p] = eventListener
    BY <1>9 DEF dispatched, Inv, PassDiscipline
  <2>2. UNCHANGED <<ref, eventListener>>
    BY <1>9 DEF dispatched
  <2>3. user' = [user EXCEPT ![p] = None]
    BY <1>9, <2>2 DEF dispatched, Done
  <2>4. Jvm!LeaveCall(p)
    BY <2>1, <2>2, <2>3 DEF Jvm!LeaveCall
  <2> QED
    BY <2>4 DEF Jvm!Next
<1>10. CASE onEvent
    BY <1>10, <1>0 DEF onEvent
<1>11. ASSUME NEW l \in Listeners, attach(l) PROVE Simulated
  <2>1. Jvm!NewGlobalRef(l)
    BY <1>11 DEF attach, passes, Jvm!NewGlobalRef
  <2> QED
    BY <2>1 DEF Jvm!Next
<1>12. ASSUME NEW l \in Listeners, binderDied(l) PROVE Simulated
    BY <1>12, <1>0 DEF binderDied
<1>13. CASE attachFailed
    BY <1>13, <1>0 DEF attachFailed
<1>14. CASE setEventListener
  <2>1. \A p \in Passes : pass[p] # "jvm" /\ pass'[p] # "jvm"
    BY <1>14 DEF setEventListener, passes, Inv, PassDiscipline
  <2>2. UNCHANGED user
    BY <2>1
  <2>3. CASE eventListener = None
    BY <1>14, <2>2, <2>3 DEF setEventListener
  <2>4. CASE eventListener # None
    <3>1. Jvm!DeleteGlobalRef(eventListener)
      BY <1>14, <2>1, <2>2, <2>4 DEF setEventListener, Inv, RefDiscipline,
         Jvm!DeleteGlobalRef
    <3> QED
      BY <2>4, <3>1 DEF Jvm!Next
  <2> QED
    BY <2>3, <2>4
<1>15. CASE detached
    BY <1>15, <1>0 DEF detached
<1>16. CASE clearEventListener
    BY <1>16, <1>0 DEF clearEventListener
<1>17. CASE onDestroy
    BY <1>17, <1>0 DEF onDestroy
<1>18. CASE setActive
    BY <1>18, <1>0 DEF setActive
<1>19. CASE setInactive
    BY <1>19, <1>0 DEF setInactive
<1>20. CASE coldStart
    BY <1>20, <1>0 DEF coldStart
<1>21. CASE getIsInit
    BY <1>21, <1>0 DEF getIsInit
<1>22. CASE handleInitClash
    BY <1>22, <1>0 DEF handleInitClash
<1>23. CASE launch
    BY <1>23, <1>0 DEF launch
<1>24. CASE resumed
    BY <1>24, <1>0 DEF resumed
<1>25. CASE paused
    BY <1>25, <1>0 DEF paused
<1>26. CASE onDetachedFromEngine
    BY <1>26, <1>0 DEF onDetachedFromEngine, EngineGone
<1>27. CASE die
    BY <1>27, <1>0 DEF die, EngineGone
<1>28. CASE UNCHANGED vars
    BY <1>28, <1>0 DEF vars
<1> QED
    BY <1>1, <1>2, <1>3, <1>4, <1>5, <1>6, <1>7, <1>8, <1>9, <1>10, <1>11, <1>12,
       <1>13, <1>14, <1>15, <1>16, <1>17, <1>18, <1>19, <1>20, <1>21, <1>22, <1>23,
       <1>24, <1>25, <1>26, <1>27, <1>28
       DEF Next, Pass

\* android_bride.go and core.cpp implement the JVM's contract for global
\* references: emitEvent never calls through a reference that has been released.
THEOREM Refinement == Spec => ImplementsJniRefs
<1>1. Init => Jvm!Init
    BY DEF Init, Jvm!Init
<1> QED
    BY <1>1, JvmStep, Safety, TypeCorrect, PTL DEF Spec, ImplementsJniRefs, Jvm!Spec
=============================================================================
