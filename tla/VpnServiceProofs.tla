-------------------------- MODULE VpnServiceProofs --------------------------
(***************************************************************************)
(* The safety of VpnService, for any number of instances, coroutines and   *)
(* events.  Inv is inductive together with the types; its parts are proved *)
(* one after the other, each from those before it:                         *)
(*                                                                         *)
(*  - who holds runLock, and which coroutine is where (LockStep);          *)
(*  - one instance is there at a time, and whoever refers to an instance   *)
(*    refers to that one, but for the stops and revocations its            *)
(*    destruction has overtaken (InstanceStep);                            *)
(*  - what the holder of the lock may rely on (PlaceStep): the start       *)
(*    commands, callbacks and other coroutines between two of its steps    *)
(*    leave it alone, because it is alone with its instance;               *)
(*  - whose tunnel it is (TunnelStep), who will take down a tunnel that    *)
(*    the service does not say it runs (DebtStep), and who holds a wake    *)
(*    lock (WakeStep).                                                     *)
(*                                                                         *)
(* All but the first need that no destruction overtakes a cold start of    *)
(* its instance, and DebtStep that no stop of the app goes unanswered.     *)
(* With starts and kills only, RecoveryInv is inductive too.               *)
(*                                                                         *)
(* Lemmas named ...Effect say what an action does to each field of the     *)
(* instances, lemmas named ...Kept when a step that touches none of what a *)
(* discipline is about preserves it.                                       *)
(***************************************************************************)
EXTENDS VpnService, TLAPS

\* An update of one field of an instance keeps to the type.
LEMMA UpdateType ==
    ASSUME NEW f \in [Instances -> InstanceType], NEW x, NEW a \in BOOLEAN,
           NEW s \in {"no", "once", "sticky"}, NEW l \in {"none", "alive", "destroying", "dead"}
    PROVE  /\ [f EXCEPT ![x].tunActive = a] \in [Instances -> InstanceType]
           /\ [f EXCEPT ![x].wakeLock = a] \in [Instances -> InstanceType]
           /\ [f EXCEPT ![x].modules = a] \in [Instances -> InstanceType]
           /\ [f EXCEPT ![x].destroyed = a] \in [Instances -> InstanceType]
           /\ [f EXCEPT ![x].owned = a] \in [Instances -> InstanceType]
           /\ [f EXCEPT ![x].started = s] \in [Instances -> InstanceType]
           /\ [f EXCEPT ![x].life = l] \in [Instances -> InstanceType]
<1>1. [f EXCEPT ![x].tunActive = a] \in [Instances -> InstanceType]
    BY DEF InstanceType
<1>2. [f EXCEPT ![x].wakeLock = a] \in [Instances -> InstanceType]
    BY DEF InstanceType
<1>3. [f EXCEPT ![x].modules = a] \in [Instances -> InstanceType]
    BY DEF InstanceType
<1>4. [f EXCEPT ![x].destroyed = a] \in [Instances -> InstanceType]
    BY DEF InstanceType
<1>5. [f EXCEPT ![x].owned = a] \in [Instances -> InstanceType]
    BY DEF InstanceType
<1>6. [f EXCEPT ![x].started = s] \in [Instances -> InstanceType]
    BY DEF InstanceType
<1>7. [f EXCEPT ![x].life = l] \in [Instances -> InstanceType]
    BY DEF InstanceType
<1> QED
    BY <1>1, <1>2, <1>3, <1>4, <1>5, <1>6, <1>7

\* Every step keeps the coroutines to their type.
LEMMA OpsStep ==
    ASSUME ops \in [Ops -> OpType], delegate \in Instances \cup {None, "binding"},
           [Next]_vars
    PROVE  ops' \in [Ops -> OpType]
<1> USE VpnAssumption DEF OpType, Kinds, Places, NoOp
<1>1. ASSUME NEW o \in Ops, establish(o) PROVE ops' \in [Ops -> OpType]
    BY <1>1 DEF establish, Goto, InService, May, persisted, state, tunnel
<1>2. ASSUME NEW o \in Ops, startModules(o) PROVE ops' \in [Ops -> OpType]
    BY <1>2 DEF startModules, Goto, InService, May, persisted, state, tunnel
<1>3. ASSUME NEW o \in Ops, startTun(o) PROVE ops' \in [Ops -> OpType]
    BY <1>3 DEF startTun, Goto, May, persisted, state
<1>4. ASSUME NEW o \in Ops, claimTun(o) PROVE ops' \in [Ops -> OpType]
    BY <1>4 DEF claimTun, Goto, InService, persisted, state
<1>5. ASSUME NEW o \in Ops, undoStart(o) PROVE ops' \in [Ops -> OpType]
    BY <1>5 DEF undoStart, Goto, InService, persisted, state, tunnel
<1>6. ASSUME NEW o \in Ops, rollback(o) PROVE ops' \in [Ops -> OpType]
    BY <1>6 DEF rollback, Goto, InService, persisted, state
<1>7. ASSUME NEW o \in Ops, stopFlags(o) PROVE ops' \in [Ops -> OpType]
    BY <1>7 DEF stopFlags, Goto, InService, persisted, tunnel
<1>8. ASSUME NEW o \in Ops, stopPersist(o) PROVE ops' \in [Ops -> OpType]
    BY <1>8 DEF stopPersist, Goto, InService, state, tunnel
<1>9. ASSUME NEW o \in Ops, stopCore(o) PROVE ops' \in [Ops -> OpType]
    BY <1>9 DEF stopCore, Goto, InService, persisted, state
<1>10. ASSUME NEW o \in Ops, stopModules(o) PROVE ops' \in [Ops -> OpType]
    BY <1>10 DEF stopModules, Goto, InService, StopSelf, Destroyed, HubAfterDestroy,
       persisted, tunnel
<1>11. ASSUME NEW o \in Ops, startService(o) PROVE ops' \in [Ops -> OpType]
    BY <1>11 DEF startService, At, Goto, Finish, Lock, May, NoOp, persisted, state,
       tunnel
<1>12. ASSUME NEW o \in Ops, bound(o) PROVE ops' \in [Ops -> OpType]
    BY <1>12 DEF bound, At, Goto, MainFree, Reaches, Instance, May, Fresh, persisted,
       tunnel
<1>13. ASSUME NEW o \in Ops, startInTime(o) PROVE ops' \in [Ops -> OpType]
    BY <1>13 DEF startInTime, At, Goto, May, persisted, state, tunnel
<1>14. ASSUME NEW o \in Ops, startFailed(o) PROVE ops' \in [Ops -> OpType]
    BY <1>14 DEF startFailed, At, Finish, Unlock, NoOp
<1>15. ASSUME NEW o \in Ops, commit(o) PROVE ops' \in [Ops -> OpType]
    BY <1>15 DEF commit, Goto, persisted, tunnel
<1>16. ASSUME NEW o \in Ops, persist(o) PROVE ops' \in [Ops -> OpType]
    BY <1>16 DEF persist, Goto, state, tunnel
<1>17. ASSUME NEW o \in Ops, announce(o) PROVE ops' \in [Ops -> OpType]
    BY <1>17 DEF announce, Finish, Unlock, NoOp, persisted, tunnel
<1>18. ASSUME NEW o \in Ops, stopService(o) PROVE ops' \in [Ops -> OpType]
    BY <1>18 DEF stopService, At, Finish, Lock, May, NoOp, persisted, tunnel
<1>19. ASSUME NEW o \in Ops, stopServiceEnd(o) PROVE ops' \in [Ops -> OpType]
    BY <1>19 DEF stopServiceEnd, At, Finish, Unlock, NoOp, tunnel
<1>20. ASSUME NEW o \in Ops, stopCommand(o) PROVE ops' \in [Ops -> OpType]
    BY <1>20 DEF stopCommand, Goto, Lock, persisted, state, tunnel
<1>21. ASSUME NEW o \in Ops, stopUnlocks(o) PROVE ops' \in [Ops -> OpType]
    BY <1>21 DEF stopUnlocks, Goto, Unlock, persisted, state, tunnel
<1>22. ASSUME NEW o \in Ops, unflag(o) PROVE ops' \in [Ops -> OpType]
    BY <1>22 DEF unflag, Goto, state, tunnel
<1>23. ASSUME NEW o \in Ops, publishStopped(o) PROVE ops' \in [Ops -> OpType]
    BY <1>23 DEF publishStopped, Goto, persisted, tunnel
<1>24. ASSUME NEW o \in Ops, stopSelf(o) PROVE ops' \in [Ops -> OpType]
    BY <1>24 DEF stopSelf, Finish, InService, StopSelf, NoOp, persisted, state, tunnel
<1>25. ASSUME NEW o \in Ops, coldStart(o) PROVE ops' \in [Ops -> OpType]
    BY <1>25 DEF coldStart, At, Goto, Finish, Lock, InService, StopSelf, May, NoOp,
       tunnel
<1>26. ASSUME NEW o \in Ops, quickStart(o) PROVE ops' \in [Ops -> OpType]
    BY <1>26 DEF quickStart, Goto, May, persisted, state, tunnel
<1>27. ASSUME NEW o \in Ops, coldFailed(o) PROVE ops' \in [Ops -> OpType]
    BY <1>27 DEF coldFailed, At, Goto, InService, StopSelf, state
<1>28. ASSUME NEW i \in Instances, onStartCommand(i) PROVE ops' \in [Ops -> OpType]
  <2>1. UNCHANGED ops \/ \E o \in Ops : Launch(o, "stop", i) \/ Launch(o, "cold", i)
    BY <1>28 DEF onStartCommand
  <2> QED
    BY <2>1 DEF Launch
<1>29. ASSUME NEW i \in Instances, onDestroy(i) PROVE ops' \in [Ops -> OpType]
    BY <1>29 DEF onDestroy, InService, MainFree, May, persisted, state
<1>30. ASSUME NEW i \in Instances, onDestroyEnds(i) PROVE ops' \in [Ops -> OpType]
    BY <1>30 DEF onDestroyEnds, InService, Fresh, Absent, persisted, tunnel
<1>31. ASSUME NEW i \in Instances, onRevoke(i) PROVE ops' \in [Ops -> OpType]
    BY <1>31 DEF onRevoke, Launch, Idle, MainFree, May, Event, NoOp, persisted,
       state, tunnel
<1>32. ASSUME NEW i \in Instances, setAwake(i) PROVE ops' \in [Ops -> OpType]
    BY <1>32 DEF setAwake, MainFree, May, persisted, state, tunnel
<1>33. CASE appCalls
    BY <1>33 DEF appCalls, Launch, Idle, May, Event, NoOp, persisted, state, tunnel
<1>34. CASE tileStart
    BY <1>34 DEF tileStart, May, Event, state, tunnel
<1>35. CASE tileStop
    BY <1>35 DEF tileStop, Launch, Idle, May, Event, NoOp, state, tunnel
<1>36. CASE command
    BY <1>36 DEF command, May, Event, state, tunnel
<1>37. CASE kill
    BY <1>37 DEF kill, May, Event, NoOp, Fresh, Absent
<1>38. CASE UNCHANGED vars
    BY <1>38 DEF vars, persisted, state, tunnel
<1> QED
    BY <1>1, <1>2, <1>3, <1>4, <1>5, <1>6, <1>7, <1>8, <1>9, <1>10, <1>11, <1>12,
       <1>13, <1>14, <1>15, <1>16, <1>17, <1>18, <1>19, <1>20, <1>21, <1>22, <1>23,
       <1>24, <1>25, <1>26, <1>27, <1>28, <1>29, <1>30, <1>31, <1>32, <1>33, <1>34,
       <1>35, <1>36, <1>37, <1>38
       DEF Next, Step, Platform, Environment, handleStart, handleStop

\* Every step keeps the instances to their type.
LEMMA InstStep ==
    ASSUME inst \in [Instances -> InstanceType], [Next]_vars
    PROVE  inst' \in [Instances -> InstanceType]
<1> USE VpnAssumption
<1>1. ASSUME NEW o \in Ops, establish(o) PROVE inst' \in [Instances -> InstanceType]
  <2>1. [inst EXCEPT ![InService(o)].tunActive = TRUE] \in [Instances -> InstanceType]
    BY UpdateType
  <2> QED
    BY <1>1, <2>1 DEF establish
<1>2. ASSUME NEW o \in Ops,
   startModules(o) PROVE inst' \in [Instances -> InstanceType]
  <2> DEFINE g == [inst EXCEPT ![InService(o)].wakeLock = TRUE]
  <2>1. g \in [Instances -> InstanceType]
    BY UpdateType
  <2>2. [g EXCEPT ![InService(o)].modules = TRUE] \in [Instances -> InstanceType]
    BY <2>1, UpdateType
  <2> QED
    BY <1>2, <2>2 DEF startModules
<1>3. ASSUME NEW o \in Ops, startTun(o) PROVE inst' \in [Instances -> InstanceType]
    BY <1>3 DEF startTun, Goto, May, persisted, state
<1>4. ASSUME NEW o \in Ops, claimTun(o) PROVE inst' \in [Instances -> InstanceType]
    BY <1>4 DEF claimTun, Goto, InService, persisted, state
<1>5. ASSUME NEW o \in Ops, undoStart(o) PROVE inst' \in [Instances -> InstanceType]
    BY <1>5 DEF undoStart, InstanceType
<1>6. ASSUME NEW o \in Ops, rollback(o) PROVE inst' \in [Instances -> InstanceType]
  <2> DEFINE g == [inst EXCEPT ![InService(o)].wakeLock = FALSE]
  <2>1. g \in [Instances -> InstanceType]
    BY UpdateType
  <2>2. [g EXCEPT ![InService(o)].modules = FALSE] \in [Instances -> InstanceType]
    BY <2>1, UpdateType
  <2> QED
    BY <1>6, <2>2 DEF rollback
<1>7. ASSUME NEW o \in Ops, stopFlags(o) PROVE inst' \in [Instances -> InstanceType]
  <2>1. [inst EXCEPT ![InService(o)].tunActive = FALSE] \in [Instances -> InstanceType]
    BY UpdateType
  <2> QED
    BY <1>7, <2>1 DEF stopFlags
<1>8. ASSUME NEW o \in Ops, stopPersist(o) PROVE inst' \in [Instances -> InstanceType]
    BY <1>8 DEF stopPersist, InstanceType
<1>9. ASSUME NEW o \in Ops, stopCore(o) PROVE inst' \in [Instances -> InstanceType]
    BY <1>9 DEF stopCore, Goto, InService, persisted, state
<1>10. ASSUME NEW o \in Ops,
   stopModules(o) PROVE inst' \in [Instances -> InstanceType]
  <2> DEFINE x == InService(o)
             g == [inst EXCEPT ![x].modules = FALSE]
  <2>1. g \in [Instances -> InstanceType]
    BY UpdateType
  <2>2. Destroyed(g, x) \in [Instances -> InstanceType]
    BY <2>1, UpdateType DEF Destroyed
  <2>3. StopSelf(Destroyed(g, x), x) \in [Instances -> InstanceType]
    BY <2>2, UpdateType DEF StopSelf
  <2> QED
    BY <1>10, <2>3 DEF stopModules
<1>11. ASSUME NEW o \in Ops,
   startService(o) PROVE inst' \in [Instances -> InstanceType]
    BY <1>11 DEF startService, At, Goto, Finish, Lock, May, NoOp, persisted, state,
       tunnel
<1>12. ASSUME NEW o \in Ops, bound(o) PROVE inst' \in [Instances -> InstanceType]
  <2>1. \A j \in Instances : Instance(j) \in InstanceType
    BY DEF InstanceType, Instance, Fresh
  <2> QED
    BY <1>12, <2>1 DEF bound
<1>13. ASSUME NEW o \in Ops,
   startInTime(o) PROVE inst' \in [Instances -> InstanceType]
    BY <1>13 DEF startInTime, At, Goto, May, persisted, state, tunnel
<1>14. ASSUME NEW o \in Ops,
   startFailed(o) PROVE inst' \in [Instances -> InstanceType]
    BY <1>14 DEF startFailed, At, Finish, Unlock, NoOp
<1>15. ASSUME NEW o \in Ops, commit(o) PROVE inst' \in [Instances -> InstanceType]
    BY <1>15 DEF commit, Goto, persisted, tunnel
<1>16. ASSUME NEW o \in Ops, persist(o) PROVE inst' \in [Instances -> InstanceType]
    BY <1>16 DEF persist, Goto, state, tunnel
<1>17. ASSUME NEW o \in Ops, announce(o) PROVE inst' \in [Instances -> InstanceType]
    BY <1>17 DEF announce, Finish, Unlock, NoOp, persisted, tunnel
<1>18. ASSUME NEW o \in Ops,
   stopService(o) PROVE inst' \in [Instances -> InstanceType]
    BY <1>18 DEF stopService, At, Finish, Lock, May, NoOp, persisted, tunnel
<1>19. ASSUME NEW o \in Ops,
   stopServiceEnd(o) PROVE inst' \in [Instances -> InstanceType]
    BY <1>19 DEF stopServiceEnd, At, Finish, Unlock, NoOp, tunnel
<1>20. ASSUME NEW o \in Ops,
   stopCommand(o) PROVE inst' \in [Instances -> InstanceType]
    BY <1>20 DEF stopCommand, Goto, Lock, persisted, state, tunnel
<1>21. ASSUME NEW o \in Ops,
   stopUnlocks(o) PROVE inst' \in [Instances -> InstanceType]
    BY <1>21 DEF stopUnlocks, Goto, Unlock, persisted, state, tunnel
<1>22. ASSUME NEW o \in Ops, unflag(o) PROVE inst' \in [Instances -> InstanceType]
    BY <1>22 DEF unflag, Goto, state, tunnel
<1>23. ASSUME NEW o \in Ops,
   publishStopped(o) PROVE inst' \in [Instances -> InstanceType]
    BY <1>23 DEF publishStopped, Goto, persisted, tunnel
<1>24. ASSUME NEW o \in Ops, stopSelf(o) PROVE inst' \in [Instances -> InstanceType]
  <2>1. StopSelf(inst, InService(o)) \in [Instances -> InstanceType]
    BY UpdateType DEF StopSelf
  <2> QED
    BY <1>24, <2>1 DEF stopSelf
<1>25. ASSUME NEW o \in Ops, coldStart(o) PROVE inst' \in [Instances -> InstanceType]
  <2>1. StopSelf(inst, InService(o)) \in [Instances -> InstanceType]
    BY UpdateType DEF StopSelf
  <2> QED
    BY <1>25, <2>1 DEF coldStart
<1>26. ASSUME NEW o \in Ops, quickStart(o) PROVE inst' \in [Instances -> InstanceType]
    BY <1>26 DEF quickStart, Goto, May, persisted, state, tunnel
<1>27. ASSUME NEW o \in Ops, coldFailed(o) PROVE inst' \in [Instances -> InstanceType]
  <2>1. StopSelf(inst, InService(o)) \in [Instances -> InstanceType]
    BY UpdateType DEF StopSelf
  <2> QED
    BY <1>27, <2>1 DEF coldFailed
<1>28. ASSUME NEW i \in Instances,
   onStartCommand(i) PROVE inst' \in [Instances -> InstanceType]
  <2>1. Instance(i) \in InstanceType
    BY DEF InstanceType, Instance, Fresh
  <2>2. \A s \in {"no", "once", "sticky"} : [Instance(i) EXCEPT !.started = s] \in InstanceType
    BY <2>1 DEF InstanceType
  <2>3. \A s \in {"no", "once", "sticky"} : Commanded(i, s) \in [Instances -> InstanceType]
    BY <2>2 DEF Commanded
  <2>4. inst' \in {Commanded(i, "no"), Commanded(i, "once"), Commanded(i, "sticky")}
    BY <1>28 DEF onStartCommand
  <2> QED
    BY <2>3, <2>4
<1>29. ASSUME NEW i \in Instances,
   onDestroy(i) PROVE inst' \in [Instances -> InstanceType]
  <2> DEFINE f == [inst EXCEPT ![i].life = "destroying"]
             g == [f EXCEPT ![i].tunActive = FALSE]
             h == [g EXCEPT ![i].wakeLock = FALSE]
  <2>1. f \in [Instances -> InstanceType]
    BY UpdateType
  <2>2. g \in [Instances -> InstanceType]
    BY <2>1, UpdateType
  <2>3. h \in [Instances -> InstanceType]
    BY <2>2, UpdateType
  <2>4. [h EXCEPT ![i].owned = (tunOwner = i)] \in [Instances -> InstanceType]
    BY <2>3, UpdateType
  <2> QED
    BY <1>29, <2>4 DEF onDestroy
<1>30. ASSUME NEW i \in Instances,
   onDestroyEnds(i) PROVE inst' \in [Instances -> InstanceType]
  <2> DEFINE f == [inst EXCEPT ![i].life = "dead"]
             g == [f EXCEPT ![i].modules = FALSE]
             h == [g EXCEPT ![i].destroyed = TRUE]
  <2>1. f \in [Instances -> InstanceType]
    BY UpdateType
  <2>2. g \in [Instances -> InstanceType]
    BY <2>1, UpdateType
  <2>3. h \in [Instances -> InstanceType]
    BY <2>2, UpdateType
  <2>4. [h EXCEPT ![i].owned = FALSE] \in [Instances -> InstanceType]
    BY <2>3, UpdateType
  <2>5. Absent \in InstanceType
    BY DEF Absent, Fresh, InstanceType
  <2>6. CASE \E o \in Ops : InService(o) = i
    BY <1>30, <2>4, <2>6 DEF onDestroyEnds
  <2>7. CASE ~ \E o \in Ops : InService(o) = i
    BY <1>30, <2>5, <2>7 DEF onDestroyEnds
  <2> QED
    BY <2>6, <2>7
<1>31. ASSUME NEW i \in Instances,
   onRevoke(i) PROVE inst' \in [Instances -> InstanceType]
  <2> DEFINE r == [inst[i] EXCEPT !.revoked = TRUE, !.started = "no"]
  <2>1. r \in InstanceType
    BY DEF InstanceType
  <2>2. inst' = [inst EXCEPT ![i] = r]
    BY <1>31 DEF onRevoke, InstanceType
  <2> HIDE DEF r
  <2> QED
    BY <2>1, <2>2
<1>32. ASSUME NEW i \in Instances,
   setAwake(i) PROVE inst' \in [Instances -> InstanceType]
    BY <1>32 DEF setAwake, InstanceType
<1>33. CASE appCalls
    BY <1>33 DEF appCalls, Launch, Idle, May, Event, NoOp, persisted, state, tunnel
<1>34. CASE tileStart
    BY <1>34 DEF tileStart, May, Event, state, tunnel
<1>35. CASE tileStop
    BY <1>35 DEF tileStop, Launch, Idle, May, Event, NoOp, state, tunnel
<1>36. CASE command
    BY <1>36 DEF command, May, Event, state, tunnel
<1>37. CASE kill
    BY <1>37 DEF kill, Absent, Fresh, InstanceType
<1>38. CASE UNCHANGED vars
    BY <1>38 DEF vars, persisted, state, tunnel
<1> QED
    BY <1>1, <1>2, <1>3, <1>4, <1>5, <1>6, <1>7, <1>8, <1>9, <1>10, <1>11, <1>12,
       <1>13, <1>14, <1>15, <1>16, <1>17, <1>18, <1>19, <1>20, <1>21, <1>22, <1>23,
       <1>24, <1>25, <1>26, <1>27, <1>28, <1>29, <1>30, <1>31, <1>32, <1>33, <1>34,
       <1>35, <1>36, <1>37, <1>38
       DEF Next, Step, Platform, Environment, handleStart, handleStop

\* Every step keeps the queue of start commands to its type.
LEMMA IntentsStep ==
    ASSUME intents \in Seq(Commands), [Next]_vars
    PROVE  intents' \in Seq(Commands)
<1> USE DEF Commands
<1>1. ASSUME NEW o \in Ops, establish(o) PROVE intents' \in Seq(Commands)
    BY <1>1 DEF establish, Goto, InService, May, persisted, state, tunnel
<1>2. ASSUME NEW o \in Ops, startModules(o) PROVE intents' \in Seq(Commands)
    BY <1>2 DEF startModules, Goto, InService, May, persisted, state, tunnel
<1>3. ASSUME NEW o \in Ops, startTun(o) PROVE intents' \in Seq(Commands)
    BY <1>3 DEF startTun, Goto, May, persisted, state
<1>4. ASSUME NEW o \in Ops, claimTun(o) PROVE intents' \in Seq(Commands)
    BY <1>4 DEF claimTun, Goto, InService, persisted, state
<1>5. ASSUME NEW o \in Ops, undoStart(o) PROVE intents' \in Seq(Commands)
    BY <1>5 DEF undoStart, Goto, InService, persisted, state, tunnel
<1>6. ASSUME NEW o \in Ops, rollback(o) PROVE intents' \in Seq(Commands)
    BY <1>6 DEF rollback, Goto, InService, persisted, state
<1>7. ASSUME NEW o \in Ops, stopFlags(o) PROVE intents' \in Seq(Commands)
    BY <1>7 DEF stopFlags, Goto, InService, persisted, tunnel
<1>8. ASSUME NEW o \in Ops, stopPersist(o) PROVE intents' \in Seq(Commands)
    BY <1>8 DEF stopPersist, Goto, InService, state, tunnel
<1>9. ASSUME NEW o \in Ops, stopCore(o) PROVE intents' \in Seq(Commands)
    BY <1>9 DEF stopCore, Goto, InService, persisted, state
<1>10. ASSUME NEW o \in Ops, stopModules(o) PROVE intents' \in Seq(Commands)
    BY <1>10 DEF stopModules, Goto, InService, StopSelf, Destroyed, HubAfterDestroy,
       persisted, tunnel
<1>11. ASSUME NEW o \in Ops, startService(o) PROVE intents' \in Seq(Commands)
    BY <1>11 DEF startService, At, Goto, Finish, Lock, May, NoOp, persisted, state,
       tunnel
<1>12. ASSUME NEW o \in Ops, bound(o) PROVE intents' \in Seq(Commands)
    BY <1>12 DEF bound, At, Goto, MainFree, Reaches, Instance, May, Fresh, persisted,
       tunnel
<1>13. ASSUME NEW o \in Ops, startInTime(o) PROVE intents' \in Seq(Commands)
    BY <1>13 DEF startInTime, At, Goto, May, persisted, state, tunnel
<1>14. ASSUME NEW o \in Ops, startFailed(o) PROVE intents' \in Seq(Commands)
    BY <1>14 DEF startFailed, At, Finish, Unlock, NoOp
<1>15. ASSUME NEW o \in Ops, commit(o) PROVE intents' \in Seq(Commands)
    BY <1>15 DEF commit, Goto, persisted, tunnel
<1>16. ASSUME NEW o \in Ops, persist(o) PROVE intents' \in Seq(Commands)
    BY <1>16 DEF persist, Goto, state, tunnel
<1>17. ASSUME NEW o \in Ops, announce(o) PROVE intents' \in Seq(Commands)
    BY <1>17 DEF announce, Finish, Unlock, NoOp, persisted, tunnel
<1>18. ASSUME NEW o \in Ops, stopService(o) PROVE intents' \in Seq(Commands)
    BY <1>18 DEF stopService, At, Finish, Lock, May, NoOp, persisted, tunnel
<1>19. ASSUME NEW o \in Ops, stopServiceEnd(o) PROVE intents' \in Seq(Commands)
    BY <1>19 DEF stopServiceEnd, At, Finish, Unlock, NoOp, tunnel
<1>20. ASSUME NEW o \in Ops, stopCommand(o) PROVE intents' \in Seq(Commands)
    BY <1>20 DEF stopCommand, Goto, Lock, persisted, state, tunnel
<1>21. ASSUME NEW o \in Ops, stopUnlocks(o) PROVE intents' \in Seq(Commands)
    BY <1>21 DEF stopUnlocks, Goto, Unlock, persisted, state, tunnel
<1>22. ASSUME NEW o \in Ops, unflag(o) PROVE intents' \in Seq(Commands)
    BY <1>22 DEF unflag, Goto, state, tunnel
<1>23. ASSUME NEW o \in Ops, publishStopped(o) PROVE intents' \in Seq(Commands)
    BY <1>23 DEF publishStopped, Goto, persisted, tunnel
<1>24. ASSUME NEW o \in Ops, stopSelf(o) PROVE intents' \in Seq(Commands)
    BY <1>24 DEF stopSelf, Finish, InService, StopSelf, NoOp, persisted, state, tunnel
<1>25. ASSUME NEW o \in Ops, coldStart(o) PROVE intents' \in Seq(Commands)
    BY <1>25 DEF coldStart, At, Goto, Finish, Lock, InService, StopSelf, May, NoOp,
       tunnel
<1>26. ASSUME NEW o \in Ops, quickStart(o) PROVE intents' \in Seq(Commands)
    BY <1>26 DEF quickStart, Goto, May, persisted, state, tunnel
<1>27. ASSUME NEW o \in Ops, coldFailed(o) PROVE intents' \in Seq(Commands)
    BY <1>27 DEF coldFailed, At, Goto, InService, StopSelf, state
<1>28. ASSUME NEW i \in Instances, onStartCommand(i) PROVE intents' \in Seq(Commands)
    BY <1>28 DEF onStartCommand
<1>29. ASSUME NEW i \in Instances, onDestroy(i) PROVE intents' \in Seq(Commands)
    BY <1>29 DEF onDestroy, InService, MainFree, May, persisted, state
<1>30. ASSUME NEW i \in Instances, onDestroyEnds(i) PROVE intents' \in Seq(Commands)
    BY <1>30 DEF onDestroyEnds, InService, Fresh, Absent, persisted, tunnel
<1>31. ASSUME NEW i \in Instances, onRevoke(i) PROVE intents' \in Seq(Commands)
    BY <1>31 DEF onRevoke, Launch, Idle, MainFree, May, Event, NoOp, persisted,
       state, tunnel
<1>32. ASSUME NEW i \in Instances, setAwake(i) PROVE intents' \in Seq(Commands)
    BY <1>32 DEF setAwake, MainFree, May, persisted, state, tunnel
<1>33. CASE appCalls
    BY <1>33 DEF appCalls, Launch, Idle, May, Event, NoOp, persisted, state, tunnel
<1>34. CASE tileStart
    BY <1>34 DEF tileStart, May, Event, state, tunnel
<1>35. CASE tileStop
    BY <1>35 DEF tileStop, Launch, Idle, May, Event, NoOp, state, tunnel
<1>36. CASE command
    BY <1>36 DEF command, May, Event, state, tunnel
<1>37. CASE kill
    BY <1>37 DEF kill, May, Event, NoOp, Fresh, Absent
<1>38. CASE UNCHANGED vars
    BY <1>38 DEF vars, persisted, state, tunnel
<1> QED
    BY <1>1, <1>2, <1>3, <1>4, <1>5, <1>6, <1>7, <1>8, <1>9, <1>10, <1>11, <1>12,
       <1>13, <1>14, <1>15, <1>16, <1>17, <1>18, <1>19, <1>20, <1>21, <1>22, <1>23,
       <1>24, <1>25, <1>26, <1>27, <1>28, <1>29, <1>30, <1>31, <1>32, <1>33, <1>34,
       <1>35, <1>36, <1>37, <1>38
       DEF Next, Step, Platform, Environment, handleStart, handleStop

\* Every step keeps the other variables to their types.
LEMMA RestStep ==
    ASSUME TypeOK, ops' \in [Ops -> OpType], inst' \in [Instances -> InstanceType],
           intents' \in Seq(Commands), [Next]_vars
    PROVE  TypeOK'
<1> USE VpnAssumption DEF TypeOK, States
<1>1. ASSUME NEW o \in Ops, establish(o) PROVE TypeOK'
    BY <1>1 DEF establish, Goto, InService, May, persisted, state, tunnel
<1>2. ASSUME NEW o \in Ops, startModules(o) PROVE TypeOK'
    BY <1>2 DEF startModules, Goto, InService, May, persisted, state, tunnel
<1>3. ASSUME NEW o \in Ops, startTun(o) PROVE TypeOK'
    BY <1>3 DEF startTun, Goto, May, persisted, state
<1>4. ASSUME NEW o \in Ops, claimTun(o) PROVE TypeOK'
  <2>1. InService(o) \in Instances \cup {None}
    BY DEF InService, OpType
  <2> QED
    BY <1>4, <2>1 DEF claimTun, Goto, InService, persisted, state
<1>5. ASSUME NEW o \in Ops, undoStart(o) PROVE TypeOK'
    BY <1>5 DEF undoStart, Goto, InService, persisted, state, tunnel
<1>6. ASSUME NEW o \in Ops, rollback(o) PROVE TypeOK'
    BY <1>6 DEF rollback, Goto, InService, persisted, state
<1>7. ASSUME NEW o \in Ops, stopFlags(o) PROVE TypeOK'
    BY <1>7 DEF stopFlags, Goto, InService, persisted, tunnel
<1>8. ASSUME NEW o \in Ops, stopPersist(o) PROVE TypeOK'
    BY <1>8 DEF stopPersist, Goto, InService, state, tunnel
<1>9. ASSUME NEW o \in Ops, stopCore(o) PROVE TypeOK'
    BY <1>9 DEF stopCore, Goto, InService, persisted, state
<1>10. ASSUME NEW o \in Ops, stopModules(o) PROVE TypeOK'
    BY <1>10 DEF stopModules, Goto, InService, StopSelf, Destroyed, HubAfterDestroy,
       persisted, tunnel
<1>11. ASSUME NEW o \in Ops, startService(o) PROVE TypeOK'
    BY <1>11 DEF startService, At, Goto, Finish, Lock, May, NoOp, persisted, state,
       tunnel
<1>12. ASSUME NEW o \in Ops, bound(o) PROVE TypeOK'
    BY <1>12 DEF bound, At, Goto, MainFree, Reaches, Instance, May, Fresh, persisted,
       tunnel
<1>13. ASSUME NEW o \in Ops, startInTime(o) PROVE TypeOK'
    BY <1>13 DEF startInTime, At, Goto, May, persisted, state, tunnel
<1>14. ASSUME NEW o \in Ops, startFailed(o) PROVE TypeOK'
    BY <1>14 DEF startFailed, At, Finish, Unlock, NoOp
<1>15. ASSUME NEW o \in Ops, commit(o) PROVE TypeOK'
    BY <1>15 DEF commit, Goto, persisted, tunnel
<1>16. ASSUME NEW o \in Ops, persist(o) PROVE TypeOK'
    BY <1>16 DEF persist, Goto, state, tunnel
<1>17. ASSUME NEW o \in Ops, announce(o) PROVE TypeOK'
    BY <1>17 DEF announce, Finish, Unlock, NoOp, persisted, tunnel
<1>18. ASSUME NEW o \in Ops, stopService(o) PROVE TypeOK'
    BY <1>18 DEF stopService, At, Finish, Lock, May, NoOp, persisted, tunnel
<1>19. ASSUME NEW o \in Ops, stopServiceEnd(o) PROVE TypeOK'
    BY <1>19 DEF stopServiceEnd, At, Finish, Unlock, NoOp, tunnel
<1>20. ASSUME NEW o \in Ops, stopCommand(o) PROVE TypeOK'
    BY <1>20 DEF stopCommand, Goto, Lock, persisted, state, tunnel
<1>21. ASSUME NEW o \in Ops, stopUnlocks(o) PROVE TypeOK'
    BY <1>21 DEF stopUnlocks, Goto, Unlock, persisted, state, tunnel
<1>22. ASSUME NEW o \in Ops, unflag(o) PROVE TypeOK'
    BY <1>22 DEF unflag, Goto, state, tunnel
<1>23. ASSUME NEW o \in Ops, publishStopped(o) PROVE TypeOK'
    BY <1>23 DEF publishStopped, Goto, persisted, tunnel
<1>24. ASSUME NEW o \in Ops, stopSelf(o) PROVE TypeOK'
    BY <1>24 DEF stopSelf, Finish, InService, StopSelf, NoOp, persisted, state, tunnel
<1>25. ASSUME NEW o \in Ops, coldStart(o) PROVE TypeOK'
    BY <1>25 DEF coldStart, At, Goto, Finish, Lock, InService, StopSelf, May, NoOp,
       tunnel
<1>26. ASSUME NEW o \in Ops, quickStart(o) PROVE TypeOK'
    BY <1>26 DEF quickStart, Goto, May, persisted, state, tunnel
<1>27. ASSUME NEW o \in Ops, coldFailed(o) PROVE TypeOK'
    BY <1>27 DEF coldFailed, At, Goto, InService, StopSelf, state
<1>28. ASSUME NEW i \in Instances, onStartCommand(i) PROVE TypeOK'
    BY <1>28 DEF onStartCommand, Launch, Idle, MainFree, Reaches, Commanded,
       Instance, May, NoOp, Fresh, state, tunnel
<1>29. ASSUME NEW i \in Instances, onDestroy(i) PROVE TypeOK'
    BY <1>29 DEF onDestroy, InService, MainFree, May, persisted, state
<1>30. ASSUME NEW i \in Instances, onDestroyEnds(i) PROVE TypeOK'
    BY <1>30 DEF onDestroyEnds, InService, Fresh, Absent, persisted, tunnel
<1>31. ASSUME NEW i \in Instances, onRevoke(i) PROVE TypeOK'
    BY <1>31 DEF onRevoke, Launch, Idle, MainFree, May, Event, NoOp, persisted,
       state, tunnel
<1>32. ASSUME NEW i \in Instances, setAwake(i) PROVE TypeOK'
    BY <1>32 DEF setAwake, MainFree, May, persisted, state, tunnel
<1>33. CASE appCalls
    BY <1>33 DEF appCalls, Launch, Idle, May, Event, NoOp, persisted, state, tunnel
<1>34. CASE tileStart
  <2>1. events' \in 0 .. MaxEvents
    BY <1>34 DEF tileStart, Event
  <2>2. UNCHANGED <<hub, runTime, delegate, tunOwner, coreTun, runLock>> /\ flag' \in BOOLEAN
    BY <1>34 DEF tileStart, state, tunnel
  <2> QED
    BY <2>1, <2>2
<1>35. CASE tileStop
  <2>1. events' \in 0 .. MaxEvents
    BY <1>35 DEF tileStop, Event
  <2>2. UNCHANGED <<hub, runTime, delegate, tunOwner, coreTun, runLock>> /\ flag' \in BOOLEAN
    BY <1>35 DEF tileStop, state, tunnel
  <2> QED
    BY <2>1, <2>2
<1>36. CASE command
    BY <1>36 DEF command, May, Event, state, tunnel
<1>37. CASE kill
  <2>1. events' \in 0 .. MaxEvents
    BY <1>37 DEF kill, Event
  <2>2. /\ hub' = "stopped" /\ runTime' = FALSE /\ delegate' = None /\ flag' = flag
        /\ tunOwner' = None /\ coreTun' = FALSE /\ runLock' = None
    BY <1>37 DEF kill
  <2> QED
    BY <2>1, <2>2
<1>38. CASE UNCHANGED vars
    BY <1>38 DEF vars, persisted, state, tunnel
<1> QED
    BY <1>1, <1>2, <1>3, <1>4, <1>5, <1>6, <1>7, <1>8, <1>9, <1>10, <1>11, <1>12,
       <1>13, <1>14, <1>15, <1>16, <1>17, <1>18, <1>19, <1>20, <1>21, <1>22, <1>23,
       <1>24, <1>25, <1>26, <1>27, <1>28, <1>29, <1>30, <1>31, <1>32, <1>33, <1>34,
       <1>35, <1>36, <1>37, <1>38
       DEF Next, Step, Platform, Environment, handleStart, handleStop

\* The lock is taken and given back where the code does it.
LEMMA LockStep ==
    ASSUME TypeOK, TypeOK', LockDiscipline, [Next]_vars
    PROVE  LockDiscipline'
<1> USE VpnAssumption DEF TypeOK, OpType, LockDiscipline, OpDiscipline, Locked,
   StartPlaces, EndPlaces, StopPlaces, NoOp
<1>1. ASSUME NEW o \in Ops, establish(o) PROVE LockDiscipline'
    BY <1>1 DEF establish, Goto, InService, May, persisted, state, tunnel
<1>2. ASSUME NEW o \in Ops, startModules(o) PROVE LockDiscipline'
    BY <1>2 DEF startModules, Goto, InService, May, persisted, state, tunnel
<1>3. ASSUME NEW o \in Ops, startTun(o) PROVE LockDiscipline'
    BY <1>3 DEF startTun, Goto, May, persisted, state
<1>4. ASSUME NEW o \in Ops, claimTun(o) PROVE LockDiscipline'
    BY <1>4 DEF claimTun, Goto, InService, persisted, state
<1>5. ASSUME NEW o \in Ops, undoStart(o) PROVE LockDiscipline'
    BY <1>5 DEF undoStart, Goto, InService, persisted, state, tunnel
<1>6. ASSUME NEW o \in Ops, rollback(o) PROVE LockDiscipline'
    BY <1>6 DEF rollback, Goto, InService, persisted, state
<1>7. ASSUME NEW o \in Ops, stopFlags(o) PROVE LockDiscipline'
    BY <1>7 DEF stopFlags, Goto, InService, persisted, tunnel
<1>8. ASSUME NEW o \in Ops, stopPersist(o) PROVE LockDiscipline'
    BY <1>8 DEF stopPersist, Goto, InService, state, tunnel
<1>9. ASSUME NEW o \in Ops, stopCore(o) PROVE LockDiscipline'
    BY <1>9 DEF stopCore, Goto, InService, persisted, state
<1>10. ASSUME NEW o \in Ops, stopModules(o) PROVE LockDiscipline'
    BY <1>10 DEF stopModules, Goto, InService, StopSelf, Destroyed, HubAfterDestroy,
       persisted, tunnel
<1>11. ASSUME NEW o \in Ops, startService(o) PROVE LockDiscipline'
  <2>1. CASE runTime /\ Finish(o) /\ UNCHANGED <<state, runLock>>
    BY <1>11, <2>1 DEF startService, At, Finish, state
  <2>2. CASE hub' = "starting" /\ delegate' = "binding" /\ Lock(o) /\ Goto(o, "proxy")
    <3>1. ops'[o] = [kind |-> "startService", pc |-> "proxy", i |-> None]
      BY <1>11, <2>2 DEF startService, At, Goto
    <3>2. \A p \in Ops : p # o => ops'[p] = ops[p] /\ ops[p].pc \notin Locked
      BY <1>11, <2>2 DEF startService, Goto
    <3>3. runLock' = o /\ hub' = "starting" /\ delegate' = "binding"
      BY <2>2 DEF Lock
    <3>4. ASSUME NEW p \in Ops, p # o PROVE OpDiscipline(p)'
      <4>1. OpDiscipline(p) /\ ops'[p] = ops[p] /\ ops[p].pc \notin Locked
        BY <3>2, <3>4
      <4> QED
        BY <3>3, <3>4, <4>1
    <3>5. ops'[o].kind = "startService" /\ ops'[o].pc = "proxy" /\ ops'[o].i = None
      BY <3>1
    <3>6. OpDiscipline(o)' /\ runLock' # None
      BY <3>3, <3>5
    <3> QED
      BY <3>3, <3>4, <3>5, <3>6
  <2>3. CASE hub' = "stopped" /\ delegate' = None /\ Finish(o) /\ UNCHANGED runLock
    BY <1>11, <2>3 DEF startService, At, Finish
  <2> QED
    BY <1>11, <2>1, <2>2, <2>3 DEF startService
<1>12. ASSUME NEW o \in Ops, bound(o) PROVE LockDiscipline'
    BY <1>12 DEF bound, At, Goto, MainFree, Reaches, Instance, May, Fresh, persisted,
       tunnel
<1>13. ASSUME NEW o \in Ops, startInTime(o) PROVE LockDiscipline'
    BY <1>13 DEF startInTime, At, Goto, May, persisted, state, tunnel
<1>14. ASSUME NEW o \in Ops, startFailed(o) PROVE LockDiscipline'
    BY <1>14 DEF startFailed, At, Finish, Unlock, NoOp
<1>15. ASSUME NEW o \in Ops, commit(o) PROVE LockDiscipline'
    BY <1>15 DEF commit, Goto, persisted, tunnel
<1>16. ASSUME NEW o \in Ops, persist(o) PROVE LockDiscipline'
    BY <1>16 DEF persist, Goto, state, tunnel
<1>17. ASSUME NEW o \in Ops, announce(o) PROVE LockDiscipline'
    BY <1>17 DEF announce, Finish, Unlock, NoOp, persisted, tunnel
<1>18. ASSUME NEW o \in Ops, stopService(o) PROVE LockDiscipline'
    BY <1>18 DEF stopService, At, Finish, Lock, May, NoOp, persisted, tunnel
<1>19. ASSUME NEW o \in Ops, stopServiceEnd(o) PROVE LockDiscipline'
    BY <1>19 DEF stopServiceEnd, At, Finish, Unlock, NoOp, tunnel
<1>20. ASSUME NEW o \in Ops, stopCommand(o) PROVE LockDiscipline'
    BY <1>20 DEF stopCommand, Goto, Lock, persisted, state, tunnel
<1>21. ASSUME NEW o \in Ops, stopUnlocks(o) PROVE LockDiscipline'
    BY <1>21 DEF stopUnlocks, Goto, Unlock, persisted, state, tunnel
<1>22. ASSUME NEW o \in Ops, unflag(o) PROVE LockDiscipline'
    BY <1>22 DEF unflag, Goto, state, tunnel
<1>23. ASSUME NEW o \in Ops, publishStopped(o) PROVE LockDiscipline'
    BY <1>23 DEF publishStopped, Goto, persisted, tunnel
<1>24. ASSUME NEW o \in Ops, stopSelf(o) PROVE LockDiscipline'
    BY <1>24 DEF stopSelf, Finish, InService, StopSelf, NoOp, persisted, state, tunnel
<1>25. ASSUME NEW o \in Ops, coldStart(o) PROVE LockDiscipline'
    BY <1>25 DEF coldStart, At, Goto, Finish, Lock, InService, StopSelf, May, NoOp,
       tunnel
<1>26. ASSUME NEW o \in Ops, quickStart(o) PROVE LockDiscipline'
    BY <1>26 DEF quickStart, Goto, May, persisted, state, tunnel
<1>27. ASSUME NEW o \in Ops, coldFailed(o) PROVE LockDiscipline'
    BY <1>27 DEF coldFailed, At, Goto, InService, StopSelf, state
<1>28. ASSUME NEW i \in Instances, onStartCommand(i) PROVE LockDiscipline'
  <2>1. UNCHANGED ops \/ \E o \in Ops : Idle(o) /\ (Launch(o, "stop", i) \/ Launch(o, "cold", i))
    BY <1>28 DEF onStartCommand
  <2>2. UNCHANGED <<hub, delegate, runLock>>
    BY <1>28 DEF onStartCommand, state
  <2>3. CASE UNCHANGED ops
    BY <2>2, <2>3
  <2>4. ASSUME NEW o \in Ops, Idle(o), NEW c \in {"stop", "cold"}, Launch(o, c, i)
        PROVE  LockDiscipline'
    <3>1. ops'[o] = [kind |-> c, pc |-> "wait", i |-> i]
      BY <2>4 DEF Launch
    <3>2. \A p \in Ops : p # o => ops'[p] = ops[p]
      BY <2>4 DEF Launch
    <3>3. ops[o].pc = "idle" /\ runLock # o
      BY <2>4 DEF Idle
    <3> QED
      BY <2>2, <3>1, <3>2, <3>3
  <2> QED
    BY <2>1, <2>3, <2>4
<1>29. ASSUME NEW i \in Instances, onDestroy(i) PROVE LockDiscipline'
    BY <1>29 DEF onDestroy, InService, MainFree, May, persisted, state
<1>30. ASSUME NEW i \in Instances, onDestroyEnds(i) PROVE LockDiscipline'
    BY <1>30 DEF onDestroyEnds, InService, Fresh, Absent, persisted, tunnel
<1>31. ASSUME NEW i \in Instances, onRevoke(i) PROVE LockDiscipline'
    BY <1>31 DEF onRevoke, Launch, Idle, MainFree, May, Event, NoOp, persisted,
       state, tunnel
<1>32. ASSUME NEW i \in Instances, setAwake(i) PROVE LockDiscipline'
    BY <1>32 DEF setAwake, MainFree, May, persisted, state, tunnel
<1>33. CASE appCalls
    BY <1>33 DEF appCalls, Launch, Idle, May, Event, NoOp, persisted, state, tunnel
<1>34. CASE tileStart
    BY <1>34 DEF tileStart, May, Event, state, tunnel
<1>35. CASE tileStop
    BY <1>35 DEF tileStop, Launch, Idle, May, Event, NoOp, state, tunnel
<1>36. CASE command
    BY <1>36 DEF command, May, Event, state, tunnel
<1>37. CASE kill
    BY <1>37 DEF kill, May, Event, NoOp, Fresh, Absent
<1>38. CASE UNCHANGED vars
    BY <1>38 DEF vars, persisted, state, tunnel
<1> QED
    BY <1>1, <1>2, <1>3, <1>4, <1>5, <1>6, <1>7, <1>8, <1>9, <1>10, <1>11, <1>12,
       <1>13, <1>14, <1>15, <1>16, <1>17, <1>18, <1>19, <1>20, <1>21, <1>22, <1>23,
       <1>24, <1>25, <1>26, <1>27, <1>28, <1>29, <1>30, <1>31, <1>32, <1>33, <1>34,
       <1>35, <1>36, <1>37, <1>38
       DEF Next, Step, Platform, Environment, handleStart, handleStop

-----------------------------------------------------------------------------
(* What the actions do *)

\* What a step leaves alone in every instance.
SameLife      == \A k \in Instances : inst'[k].life = inst[k].life
SameStarted   == \A k \in Instances : inst'[k].started = inst[k].started
SameTunActive == \A k \in Instances : inst'[k].tunActive = inst[k].tunActive
SameWakeLock  == \A k \in Instances : inst'[k].wakeLock = inst[k].wakeLock
SameOwned     == \A k \in Instances : inst'[k].owned = inst[k].owned
SameRevoked   == \A k \in Instances : inst'[k].revoked = inst[k].revoked
SameDestroyed == \A k \in Instances : inst'[k].destroyed = inst[k].destroyed

USE DEF SameLife, SameStarted, SameTunActive, SameWakeLock, SameOwned, SameRevoked,
        SameDestroyed

\* What a jump does to the coroutines.
LEMMA GotoFields ==
    ASSUME TypeOK, NEW o \in Ops, NEW q, Goto(o, q)
    PROVE  /\ ops'[o].pc = q /\ \A p \in Ops : p # o => ops'[p].pc = ops[p].pc
           /\ \A p \in Ops : ops'[p].kind = ops[p].kind /\ ops'[p].i = ops[p].i
BY DEF TypeOK, OpType, Goto

\* What the end of a coroutine does to them.
LEMMA FinishFields ==
    ASSUME TypeOK, NEW o \in Ops, Finish(o)
    PROVE  /\ ops'[o].pc = "idle" /\ ops'[o].kind = "none" /\ ops'[o].i = None
           /\ \A p \in Ops : p # o => ops'[p] = ops[p]
BY DEF TypeOK, OpType, NoOp, Finish

\* What the launch of a coroutine does to them.
LEMMA LaunchFields ==
    ASSUME TypeOK, NEW o \in Ops, NEW kind, NEW i, Launch(o, kind, i)
    PROVE  /\ ops'[o].pc = "wait" /\ ops'[o].kind = kind /\ ops'[o].i = i
           /\ \A p \in Ops : p # o => ops'[p] = ops[p]
BY DEF TypeOK, OpType, Launch

\* From the lock on, a coroutine has an instance.
LEMMA KnownInstance ==
    ASSUME TypeOK, LockDiscipline, NEW o \in Ops,
           \/ ops[o].kind \in {"cold", "stop", "revoke"}
           \/ ops[o].pc \notin {"idle", "wait", "proxy", "failed"}
    PROVE  InService(o) \in Instances
<1>1. ops[o].i \in Instances \cup {None} /\ OpDiscipline(o)
    BY DEF TypeOK, OpType, LockDiscipline
<1> QED
    BY <1>1 DEF InService, OpDiscipline, StartPlaces

\* The first step of the catch block of a start.
LEMMA undoStartEffect ==
    ASSUME TypeOK, NEW o \in Ops, undoStart(o)
    PROVE  /\ Goto(o, "rollback")
           /\ UNCHANGED <<flag, intents, hub, runTime, delegate, tunOwner, coreTun, runLock>>
           /\ \A k \in Instances : inst'[k].tunActive = (inst[k].tunActive /\ k # InService(o))
           /\ SameLife /\ SameStarted /\ SameWakeLock /\ SameOwned /\ SameRevoked /\ SameDestroyed
<1>1. inst \in [Instances -> InstanceType]
    BY DEF TypeOK
<1>2. inst' = [inst EXCEPT ![InService(o)].tunActive = FALSE]
    BY DEF undoStart, StopSelf
<1>3. /\ Goto(o, "rollback")
      /\ UNCHANGED <<flag, intents, hub, runTime, delegate, tunOwner, coreTun, runLock>>
    BY DEF undoStart, persisted, state, tunnel
<1> DEFINE x == InService(o)
<1> HIDE DEF x
<1>4. inst' = [inst EXCEPT ![x].tunActive = FALSE]
    BY <1>2 DEF x
<1>5. \A k \in Instances : inst'[k].tunActive = (inst[k].tunActive /\ k # x)
    BY <1>1, <1>4 DEF InstanceType
<1>6. SameLife /\ SameStarted /\ SameWakeLock /\ SameOwned /\ SameRevoked /\ SameDestroyed
    BY <1>1, <1>4 DEF InstanceType
<1> QED
    BY <1>3, <1>5, <1>6 DEF x

\* A stop gives the wake lock back and withdraws the intent.
LEMMA stopPersistEffect ==
    ASSUME TypeOK, NEW o \in Ops, stopPersist(o)
    PROVE  /\ Goto(o, "stop3")
           /\ flag' = FALSE
           /\ UNCHANGED <<intents, hub, runTime, delegate, tunOwner, coreTun, runLock>>
           /\ \A k \in Instances : inst'[k].wakeLock = (inst[k].wakeLock /\ k # InService(o))
           /\ SameLife /\ SameStarted /\ SameTunActive /\ SameOwned /\ SameRevoked /\ SameDestroyed
<1>1. inst \in [Instances -> InstanceType]
    BY DEF TypeOK
<1>2. inst' = [inst EXCEPT ![InService(o)].wakeLock = FALSE]
    BY DEF stopPersist, StopSelf
<1>3. /\ Goto(o, "stop3")
      /\ flag' = FALSE
      /\ UNCHANGED <<intents, hub, runTime, delegate, tunOwner, coreTun, runLock>>
    BY DEF stopPersist, persisted, state, tunnel
<1> DEFINE x == InService(o)
<1> HIDE DEF x
<1>4. inst' = [inst EXCEPT ![x].wakeLock = FALSE]
    BY <1>2 DEF x
<1>5. \A k \in Instances : inst'[k].wakeLock = (inst[k].wakeLock /\ k # x)
    BY <1>1, <1>4 DEF InstanceType
<1>6. SameLife /\ SameStarted /\ SameTunActive /\ SameOwned /\ SameRevoked /\ SameDestroyed
    BY <1>1, <1>4 DEF InstanceType
<1> QED
    BY <1>3, <1>5, <1>6 DEF x

\* A cold start that fails stops its instance.
LEMMA coldFailedEffect ==
    ASSUME TypeOK, NEW o \in Ops, coldFailed(o)
    PROVE  /\ Goto(o, "announce")
           /\ flag' = FALSE /\ coreTun' = FALSE
           /\ UNCHANGED <<intents, hub, runTime, delegate, tunOwner, runLock>>
           /\ \A k \in Instances : inst'[k].started = IF k = InService(o) THEN "no" ELSE inst[k].started
           /\ SameLife /\ SameTunActive /\ SameWakeLock /\ SameOwned /\ SameRevoked /\ SameDestroyed
<1>1. inst \in [Instances -> InstanceType]
    BY DEF TypeOK
<1>2. inst' = [inst EXCEPT ![InService(o)].started = "no"]
    BY DEF coldFailed, StopSelf
<1>3. /\ Goto(o, "announce")
      /\ flag' = FALSE /\ coreTun' = FALSE
      /\ UNCHANGED <<intents, hub, runTime, delegate, tunOwner, runLock>>
    BY DEF coldFailed, persisted, state, tunnel
<1> DEFINE x == InService(o)
<1> HIDE DEF x
<1>4. inst' = [inst EXCEPT ![x].started = "no"]
    BY <1>2 DEF x
<1>5. \A k \in Instances : inst'[k].started = IF k = x THEN "no" ELSE inst[k].started
    BY <1>1, <1>4 DEF InstanceType
<1>6. SameLife /\ SameTunActive /\ SameWakeLock /\ SameOwned /\ SameRevoked /\ SameDestroyed
    BY <1>1, <1>4 DEF InstanceType
<1> QED
    BY <1>3, <1>5, <1>6 DEF x

\* What acquireWakeLock and the modules leave alone.
LEMMA startModulesEffect ==
    ASSUME TypeOK, NEW o \in Ops, startModules(o)
    PROVE  /\ Goto(o, "startTun") \/ Goto(o, "undo")
           /\ UNCHANGED <<flag, intents, hub, runTime, delegate, tunOwner, coreTun, runLock>>
           /\ \A k \in Instances : inst'[k].wakeLock = (inst[k].wakeLock \/ k = InService(o))
           /\ SameLife /\ SameStarted /\ SameTunActive /\ SameOwned /\ SameRevoked /\ SameDestroyed
<1> DEFINE x == InService(o)
           f == [inst EXCEPT ![x].wakeLock = TRUE]
<1>0. /\ Goto(o, "startTun") \/ Goto(o, "undo")
      /\ UNCHANGED <<flag, intents, hub, runTime, delegate, tunOwner, coreTun, runLock>>
    BY DEF startModules, persisted, state, tunnel
<1>1. inst \in [Instances -> InstanceType] /\ f \in [Instances -> InstanceType]
    BY UpdateType DEF TypeOK
<1>2. inst' = [f EXCEPT ![x].modules = TRUE]
    BY DEF startModules
<1>3. ASSUME NEW k \in Instances
      PROVE  /\ f[k].life = inst[k].life /\ f[k].started = inst[k].started
             /\ f[k].tunActive = inst[k].tunActive /\ f[k].owned = inst[k].owned
             /\ f[k].revoked = inst[k].revoked /\ f[k].destroyed = inst[k].destroyed
             /\ f[k].wakeLock = IF k = x THEN TRUE ELSE inst[k].wakeLock
    BY <1>1 DEF InstanceType
<1> HIDE DEF f, x
<1>4. ASSUME NEW k \in Instances
      PROVE  /\ inst'[k].life = inst[k].life /\ inst'[k].started = inst[k].started
             /\ inst'[k].tunActive = inst[k].tunActive /\ inst'[k].owned = inst[k].owned
             /\ inst'[k].revoked = inst[k].revoked /\ inst'[k].destroyed = inst[k].destroyed
             /\ inst'[k].wakeLock = IF k = x THEN TRUE ELSE inst[k].wakeLock
    BY <1>1, <1>2, <1>3 DEF InstanceType
<1>5. \A k \in Instances : inst[k].wakeLock \in BOOLEAN
    BY <1>1 DEF InstanceType
<1> QED
    BY <1>0, <1>4, <1>5 DEF x

\* What the rollback of a start leaves alone.
LEMMA rollbackEffect ==
    ASSUME TypeOK, NEW o \in Ops, rollback(o)
    PROVE  /\ Goto(o, "failed")
           /\ coreTun' = FALSE
           /\ UNCHANGED <<flag, intents, hub, runTime, delegate, tunOwner, runLock>>
           /\ \A k \in Instances : inst'[k].wakeLock = (inst[k].wakeLock /\ k # InService(o))
           /\ SameLife /\ SameStarted /\ SameTunActive /\ SameOwned /\ SameRevoked /\ SameDestroyed
<1> DEFINE x == InService(o)
           f == [inst EXCEPT ![x].wakeLock = FALSE]
<1>0. /\ Goto(o, "failed")
      /\ coreTun' = FALSE
      /\ UNCHANGED <<flag, intents, hub, runTime, delegate, tunOwner, runLock>>
    BY DEF rollback, persisted, state, tunnel
<1>1. inst \in [Instances -> InstanceType] /\ f \in [Instances -> InstanceType]
    BY UpdateType DEF TypeOK
<1>2. inst' = [f EXCEPT ![x].modules = FALSE]
    BY DEF rollback
<1>3. ASSUME NEW k \in Instances
      PROVE  /\ f[k].life = inst[k].life /\ f[k].started = inst[k].started
             /\ f[k].tunActive = inst[k].tunActive /\ f[k].owned = inst[k].owned
             /\ f[k].revoked = inst[k].revoked /\ f[k].destroyed = inst[k].destroyed
             /\ f[k].wakeLock = IF k = x THEN FALSE ELSE inst[k].wakeLock
    BY <1>1 DEF InstanceType
<1> HIDE DEF f, x
<1>4. ASSUME NEW k \in Instances
      PROVE  /\ inst'[k].life = inst[k].life /\ inst'[k].started = inst[k].started
             /\ inst'[k].tunActive = inst[k].tunActive /\ inst'[k].owned = inst[k].owned
             /\ inst'[k].revoked = inst[k].revoked /\ inst'[k].destroyed = inst[k].destroyed
             /\ inst'[k].wakeLock = IF k = x THEN FALSE ELSE inst[k].wakeLock
    BY <1>1, <1>2, <1>3 DEF InstanceType
<1>5. \A k \in Instances : inst[k].wakeLock \in BOOLEAN
    BY <1>1 DEF InstanceType
<1> QED
    BY <1>0, <1>4, <1>5 DEF x

\* What the end of a stop leaves alone.
LEMMA stopModulesEffect ==
    ASSUME TypeOK, NEW o \in Ops, stopModules(o)
    PROVE  /\ UNCHANGED <<flag, intents, runTime, delegate, tunOwner, coreTun, runLock>>
           /\ hub' \in {hub, "stopped"} /\ Goto(o, "after")
           /\ \A k \in Instances :
                 inst'[k].started = IF k = InService(o) THEN "no" ELSE inst[k].started
           /\ SameLife /\ SameTunActive /\ SameWakeLock /\ SameOwned /\ SameRevoked
<1> DEFINE x == InService(o)
           f == [inst EXCEPT ![x].modules = FALSE]
           g == Destroyed(f, x)
<1>1. inst \in [Instances -> InstanceType] /\ f \in [Instances -> InstanceType]
    BY UpdateType DEF TypeOK
<1>2. g \in [Instances -> InstanceType]
    BY <1>1, UpdateType DEF Destroyed
<1>3. inst' = [g EXCEPT ![x].started = "no"]
    BY DEF stopModules, StopSelf
<1>4. ASSUME NEW k \in Instances
      PROVE  /\ f[k].life = inst[k].life /\ f[k].started = inst[k].started
             /\ f[k].tunActive = inst[k].tunActive /\ f[k].wakeLock = inst[k].wakeLock
             /\ f[k].owned = inst[k].owned /\ f[k].revoked = inst[k].revoked
    BY <1>1 DEF InstanceType
<1>5. ASSUME NEW k \in Instances
      PROVE  /\ g[k].life = f[k].life /\ g[k].started = f[k].started
             /\ g[k].tunActive = f[k].tunActive /\ g[k].wakeLock = f[k].wakeLock
             /\ g[k].owned = f[k].owned /\ g[k].revoked = f[k].revoked
  <2> HIDE DEF f
  <2> QED
    BY <1>1 DEF InstanceType, Destroyed
<1>6. /\ UNCHANGED <<flag, intents, runTime, delegate, tunOwner, coreTun, runLock>>
      /\ hub' \in {hub, "stopped"} /\ Goto(o, "after")
    BY DEF stopModules, HubAfterDestroy, persisted, tunnel
<1> HIDE DEF f, g
<1> QED
    BY <1>2, <1>3, <1>4, <1>5, <1>6 DEF InstanceType

\* The first step of a stop, also of one that finds nothing to stop.
LEMMA stopFlagsEffect ==
    ASSUME TypeOK, NEW o \in Ops, InService(o) \in Instances, stopFlags(o)
    PROVE  /\ ~runTime' /\ UNCHANGED <<flag, intents, hub, delegate, tunOwner, coreTun, runLock>>
           /\ \/ Goto(o, "stop2")
              \/ Goto(o, "after") /\ ~inst[InService(o)].tunActive /\ ~runTime
           /\ \A k \in Instances : inst'[k].tunActive = (inst[k].tunActive /\ k # InService(o))
           /\ SameLife /\ SameStarted /\ SameWakeLock /\ SameOwned /\ SameRevoked /\ SameDestroyed
<1>0. UNCHANGED <<flag, intents, hub, delegate, tunOwner, coreTun, runLock>>
    BY DEF stopFlags, persisted, tunnel
<1>1. inst \in [Instances -> InstanceType]
    BY DEF TypeOK
<1>2. CASE ~runTime /\ ~inst[InService(o)].tunActive
  <2>1. inst' = inst /\ ~runTime' /\ Goto(o, "after")
    BY <1>2 DEF stopFlags
  <2>2. \A k \in Instances : inst[k].tunActive \in BOOLEAN
    BY <1>1 DEF InstanceType
  <2> QED
    BY <1>0, <1>2, <2>1, <2>2
<1>3. CASE ~(~runTime /\ ~inst[InService(o)].tunActive)
  <2>1. /\ inst' = [inst EXCEPT ![InService(o)].tunActive = FALSE]
        /\ ~runTime' /\ Goto(o, "stop2")
    BY <1>3 DEF stopFlags
  <2> DEFINE x == InService(o)
  <2> HIDE DEF x
  <2>3. \A k \in Instances : inst'[k].tunActive = (inst[k].tunActive /\ k # x)
    BY <1>1, <2>1 DEF InstanceType, x
  <2>4. SameLife /\ SameStarted /\ SameWakeLock /\ SameOwned /\ SameRevoked /\ SameDestroyed
    BY <1>1, <2>1 DEF InstanceType
  <2> QED
    BY <2>1, <2>3, <2>4, <1>0 DEF x
<1> QED
    BY <1>2, <1>3

\* A command or a binding that reaches an instance finds the live one or makes
\* a new one, whose fields are those of one that is not there.
Revived(i) ==
    /\ \A k \in Instances :
          inst[k].life \in {"alive", "destroying"} => k = i /\ inst[k].life = "alive"
    /\ \A k \in Instances : inst'[k].life = IF k = i THEN "alive" ELSE inst[k].life
    /\ \A k \in Instances : /\ inst'[k].tunActive = inst[k].tunActive
                            /\ inst'[k].wakeLock = inst[k].wakeLock
                            /\ inst'[k].owned = inst[k].owned
                            /\ inst'[k].revoked => inst[k].revoked
                            /\ inst'[k].destroyed => inst[k].destroyed
                            /\ k # i => inst'[k].started = inst[k].started

\* RemoteService has the proxy of instance i.
BoundTo(o, i) ==
    /\ Revived(i)
    /\ inst[i].life = "alive" => inst'[i].started = inst[i].started
    /\ delegate' = i
    /\ ops' = [ops EXCEPT ![o].pc = "establish", ![o].i = i]

\* The instance that a command or a binding reaches is the only one there.
LEMMA InstanceFields ==
    ASSUME TypeOK, InstanceDiscipline, NEW i \in Instances, Reaches(i)
    PROVE  /\ Instance(i) \in InstanceType /\ Instance(i).life = "alive"
           /\ Instance(i).tunActive = inst[i].tunActive /\ Instance(i).wakeLock = inst[i].wakeLock
           /\ Instance(i).owned = inst[i].owned
           /\ Instance(i).revoked => inst[i].revoked
           /\ Instance(i).destroyed => inst[i].destroyed
           /\ inst[i].life = "alive" => Instance(i) = inst[i]
           /\ \A k \in Instances :
                 inst[k].life \in {"alive", "destroying"} => k = i /\ inst[k].life = "alive"
<1>1. inst[i] \in InstanceType
    BY DEF TypeOK
<1>2. Fresh \in InstanceType
    BY DEF Fresh, InstanceType
<1>3. CASE inst[i].life = "alive"
    BY <1>1, <1>3 DEF Instance, Reaches, MainFree, InstanceDiscipline
<1>4. CASE inst[i].life = "none"
  <2>1. ~inst[i].tunActive /\ ~inst[i].wakeLock /\ ~inst[i].owned
    BY <1>4 DEF InstanceDiscipline
  <2>2. inst[i].tunActive = FALSE /\ inst[i].wakeLock = FALSE /\ inst[i].owned = FALSE
    BY <1>1, <2>1 DEF InstanceType
  <2>3. Instance(i) = Fresh
    BY <1>4 DEF Instance
  <2>4. /\ Fresh.life = "alive" /\ Fresh.tunActive = FALSE /\ Fresh.wakeLock = FALSE
        /\ Fresh.owned = FALSE /\ ~Fresh.revoked /\ ~Fresh.destroyed
    BY DEF Fresh
  <2>5. \A k \in Instances : inst[k].life \notin {"alive", "destroying"}
    BY <1>4 DEF Reaches, MainFree
  <2> QED
    BY <1>2, <1>4, <2>2, <2>3, <2>4, <2>5
<1> QED
    BY <1>3, <1>4 DEF Reaches

\* bindService yields the instance it reaches, or it fails.
LEMMA boundEffect ==
    ASSUME TypeOK, InstanceDiscipline, NEW o \in Ops, bound(o)
    PROVE  \/ UNCHANGED <<delegate, inst>> /\ Goto(o, "failed") /\ May("startFails")
           \/ \E i \in Instances : BoundTo(o, i)
<1>1. SUFFICES ASSUME NEW i \in Instances, Reaches(i), delegate' = i,
                      inst' = [inst EXCEPT ![i] = Instance(i)],
                      ops' = [ops EXCEPT ![o].pc = "establish", ![o].i = i]
               PROVE  BoundTo(o, i)
    BY DEF bound
<1>2. inst \in [Instances -> InstanceType]
    BY DEF TypeOK
<1>3. \A k \in Instances : inst'[k] = IF k = i THEN Instance(i) ELSE inst[k]
    BY <1>1, <1>2
<1> QED
    BY <1>1, <1>3, InstanceFields DEF BoundTo, Revived

\* onStartCommand serves the first command, and what becomes of it.
LEMMA onStartCommandEffect ==
    ASSUME TypeOK, InstanceDiscipline, NEW i \in Instances, onStartCommand(i)
    PROVE  /\ Revived(i) /\ intents # << >> /\ intents' = Tail(intents)
           /\ \/ May("denied") /\ inst'[i].started = "no" /\ UNCHANGED ops
              \/ /\ Head(intents) = "stop" /\ inst'[i].started = "once"
                 /\ \E o \in Ops : Idle(o) /\ Launch(o, "stop", i)
              \/ Head(intents) = "null" /\ ~flag /\ inst'[i].started = "no" /\ UNCHANGED ops
              \/ /\ Head(intents) = "start" \/ (Head(intents) = "null" /\ flag)
                 /\ inst'[i].started = "sticky"
                 /\ \/ runTime /\ UNCHANGED ops
                    \/ ~runTime /\ \E o \in Ops : Idle(o) /\ Launch(o, "cold", i)
<1>1. Reaches(i) /\ inst \in [Instances -> InstanceType]
    BY DEF onStartCommand, TypeOK
<1>2. ASSUME NEW s \in {"no", "once", "sticky"}, inst' = Commanded(i, s)
      PROVE  Revived(i) /\ inst'[i].started = s
  <2> DEFINE r == [Instance(i) EXCEPT !.started = s]
  <2>1. \A k \in Instances : inst'[k] = IF k = i THEN r ELSE inst[k]
    BY <1>1, <1>2 DEF Commanded
  <2>2. /\ r.life = Instance(i).life /\ r.tunActive = Instance(i).tunActive /\ r.started = s
        /\ r.wakeLock = Instance(i).wakeLock /\ r.owned = Instance(i).owned
        /\ r.revoked = Instance(i).revoked /\ r.destroyed = Instance(i).destroyed
    BY <1>1, InstanceFields DEF InstanceType
  <2> HIDE DEF r
  <2> QED
    BY <1>1, <2>1, <2>2, InstanceFields DEF Revived
<1>3. intents # << >> /\ intents' = Tail(intents)
    BY DEF onStartCommand
<1>4. \/ May("denied") /\ inst' = Commanded(i, "no") /\ UNCHANGED ops
      \/ /\ Head(intents) = "stop" /\ inst' = Commanded(i, "once")
         /\ \E o \in Ops : Idle(o) /\ Launch(o, "stop", i)
      \/ Head(intents) = "null" /\ ~flag /\ inst' = Commanded(i, "no") /\ UNCHANGED ops
      \/ /\ Head(intents) = "start" \/ (Head(intents) = "null" /\ flag)
         /\ inst' = Commanded(i, "sticky")
         /\ \/ runTime /\ UNCHANGED ops
            \/ ~runTime /\ \E o \in Ops : Idle(o) /\ Launch(o, "cold", i)
    BY DEF onStartCommand
<1> QED
    BY <1>2, <1>3, <1>4

\* The TUN device is established, or the start fails.
LEMMA establishEffect ==
    ASSUME TypeOK, NEW o \in Ops, establish(o)
    PROVE  /\ UNCHANGED <<flag, intents, hub, runTime, delegate, tunOwner, coreTun, runLock>>
           /\ SameLife /\ SameStarted /\ SameWakeLock /\ SameOwned /\ SameRevoked /\ SameDestroyed
           /\ \/ /\ Goto(o, "modules")
                 /\ \A k \in Instances : inst'[k].tunActive = (inst[k].tunActive \/ k = InService(o))
              \/ May("startFails") /\ Goto(o, "failed") /\ SameTunActive
<1>1. inst \in [Instances -> InstanceType]
    BY DEF TypeOK
<1>2. UNCHANGED <<flag, intents, hub, runTime, delegate, tunOwner, coreTun, runLock>>
    BY DEF establish, persisted, state, tunnel
<1>3. CASE UNCHANGED inst /\ May("startFails") /\ Goto(o, "failed")
    BY <1>2, <1>3
<1> DEFINE x == InService(o)
<1> HIDE DEF x
<1>4. CASE inst' = [inst EXCEPT ![x].tunActive = TRUE] /\ Goto(o, "modules")
  <2>1. SameLife /\ SameStarted /\ SameWakeLock /\ SameOwned /\ SameRevoked /\ SameDestroyed
    BY <1>1, <1>4 DEF InstanceType
  <2>2. \A k \in Instances : inst'[k].tunActive = (inst[k].tunActive \/ k = x)
    BY <1>1, <1>4 DEF InstanceType
  <2> QED
    BY <1>2, <1>4, <2>1, <2>2 DEF x
<1> QED
    BY <1>3, <1>4 DEF establish, x

\* stopSelf is for the platform.
LEMMA StopSelfEffect ==
    ASSUME TypeOK, NEW x, inst' \in {inst, StopSelf(inst, x)}
    PROVE  /\ SameLife /\ SameTunActive /\ SameWakeLock /\ SameOwned /\ SameRevoked /\ SameDestroyed
           /\ \A k \in Instances : inst'[k].started # inst[k].started => inst'[k].started = "no"
           /\ inst' # inst /\ x \in Instances => inst'[x].started = "no"
<1>1. inst \in [Instances -> InstanceType]
    BY DEF TypeOK
<1>2. CASE inst' = inst
    BY <1>2
<1>3. CASE inst' = [inst EXCEPT ![x].started = "no"]
    BY <1>1, <1>3 DEF InstanceType
<1> QED
    BY <1>2, <1>3 DEF StopSelf

\* onDestroy releases what the instance holds.
LEMMA onDestroyEffect ==
    ASSUME TypeOK, NEW i \in Instances, onDestroy(i)
    PROVE  /\ UNCHANGED <<flag, intents, hub, runTime, delegate, runLock, ops>>
           /\ SameStarted /\ SameRevoked /\ SameDestroyed
           /\ \A k \in Instances :
                 /\ inst'[k].life = IF k = i THEN "destroying" ELSE inst[k].life
                 /\ inst'[k].tunActive = (inst[k].tunActive /\ k # i)
                 /\ inst'[k].wakeLock = (inst[k].wakeLock /\ k # i)
                 /\ inst'[k].owned = IF k = i THEN tunOwner = i ELSE inst[k].owned
<1>1. inst \in [Instances -> InstanceType]
    BY DEF TypeOK
<1>2. UNCHANGED <<flag, intents, hub, runTime, delegate, runLock, ops>>
    BY DEF onDestroy, persisted, state
<1>3. inst' = [inst EXCEPT ![i] = [inst[i] EXCEPT !.life = "destroying", !.tunActive = FALSE,
                                                  !.wakeLock = FALSE, !.owned = (tunOwner = i)]]
    BY <1>1 DEF onDestroy, InstanceType
<1> DEFINE r == [inst[i] EXCEPT !.life = "destroying", !.tunActive = FALSE,
                                !.wakeLock = FALSE, !.owned = (tunOwner = i)]
<1>4. /\ r.life = "destroying" /\ r.tunActive = FALSE /\ r.wakeLock = FALSE
      /\ r.owned = (tunOwner = i) /\ r.started = inst[i].started
      /\ r.revoked = inst[i].revoked /\ r.destroyed = inst[i].destroyed
    BY <1>1 DEF InstanceType
<1> HIDE DEF r
<1>5. \A k \in Instances : inst'[k] = IF k = i THEN r ELSE inst[k]
    BY <1>1, <1>3 DEF r
<1>6. \A k \in Instances : inst[k].tunActive \in BOOLEAN /\ inst[k].wakeLock \in BOOLEAN
    BY <1>1 DEF InstanceType
<1> QED
    BY <1>2, <1>4, <1>5, <1>6

\* The end of onDestroy, of an instance that no coroutine refers to.
LEMMA onDestroyEndsEffect ==
    ASSUME TypeOK, NEW i \in Instances, onDestroyEnds(i), \A o \in Ops : InService(o) # i
    PROVE  /\ UNCHANGED <<flag, intents, delegate, tunOwner, coreTun, runLock, ops>>
           /\ runTime' = IF inst[i].owned THEN FALSE ELSE runTime
           /\ hub' = IF ~inst[i].destroyed /\ ~runTime' THEN "stopped" ELSE hub
           /\ inst'[i] = Absent /\ \A k \in Instances : k # i => inst'[k] = inst[k]
BY DEF onDestroyEnds, TypeOK, persisted, tunnel

\* What an instance is that is not there.
LEMMA AbsentFields ==
    /\ Absent.life = "none" /\ ~Absent.tunActive /\ ~Absent.wakeLock /\ ~Absent.owned
    /\ Absent.started = "no" /\ ~Absent.revoked /\ ~Absent.destroyed
BY DEF Absent, Fresh

\* The end of onDestroy, of an instance that coroutines may still refer to.
LEMMA onDestroyEndsFields ==
    ASSUME TypeOK, NEW i \in Instances, onDestroyEnds(i)
    PROVE  /\ UNCHANGED <<flag, intents, delegate, tunOwner, coreTun, runLock, ops>>
           /\ inst[i].life = "destroying"
           /\ runTime' = IF inst[i].owned THEN FALSE ELSE runTime
           /\ \A k \in Instances : k # i => inst'[k] = inst[k]
           /\ ~inst'[i].owned
           /\ inst'[i].tunActive => inst[i].tunActive
           /\ inst'[i].wakeLock => inst[i].wakeLock
           /\ \/ inst'[i].life = "none" /\ \A o \in Ops : InService(o) # i
              \/ inst'[i].life = "dead"
<1>1. /\ UNCHANGED <<flag, intents, delegate, tunOwner, coreTun, runLock, ops>>
      /\ inst[i].life = "destroying" /\ inst \in [Instances -> InstanceType]
      /\ runTime' = IF inst[i].owned THEN FALSE ELSE runTime
    BY DEF onDestroyEnds, TypeOK, persisted, tunnel
<1>2. CASE \A o \in Ops : InService(o) # i
    BY <1>1, <1>2, onDestroyEndsEffect, AbsentFields
<1>3. CASE \E o \in Ops : InService(o) = i
  <2> DEFINE r == [inst[i] EXCEPT !.life = "dead", !.modules = FALSE,
                                  !.destroyed = TRUE, !.owned = FALSE]
  <2>1. inst' = [inst EXCEPT ![i] = r]
    BY <1>1, <1>3 DEF onDestroyEnds, InstanceType
  <2>2. /\ r.life = "dead" /\ r.owned = FALSE /\ r.tunActive = inst[i].tunActive
        /\ r.wakeLock = inst[i].wakeLock
    BY <1>1 DEF InstanceType
  <2> HIDE DEF r
  <2>3. \A k \in Instances : inst'[k] = IF k = i THEN r ELSE inst[k]
    BY <1>1, <2>1
  <2> QED
    BY <1>1, <2>2, <2>3
<1> QED
    BY <1>2, <1>3

\* onRevoke marks the instance and stops it.
LEMMA onRevokeEffect ==
    ASSUME TypeOK, NEW i \in Instances, onRevoke(i)
    PROVE  /\ UNCHANGED <<flag, intents, hub, runTime, delegate, tunOwner, coreTun, runLock>>
           /\ SameLife /\ SameTunActive /\ SameWakeLock /\ SameOwned /\ SameDestroyed
           /\ \A k \in Instances : inst'[k].started = IF k = i THEN "no" ELSE inst[k].started
           /\ \E o \in Ops : Idle(o) /\ Launch(o, "revoke", i)
<1> DEFINE r == [inst[i] EXCEPT !.revoked = TRUE, !.started = "no"]
<1>1. inst \in [Instances -> InstanceType] /\ inst' = [inst EXCEPT ![i] = r]
    BY DEF TypeOK, onRevoke, InstanceType
<1>2. /\ r.life = inst[i].life /\ r.tunActive = inst[i].tunActive /\ r.wakeLock = inst[i].wakeLock
      /\ r.owned = inst[i].owned /\ r.destroyed = inst[i].destroyed /\ r.started = "no"
    BY <1>1 DEF InstanceType
<1> HIDE DEF r
<1>3. \A k \in Instances : inst'[k] = IF k = i THEN r ELSE inst[k]
    BY <1>1
<1>4. /\ UNCHANGED <<flag, intents, hub, runTime, delegate, tunOwner, coreTun, runLock>>
      /\ \E o \in Ops : Idle(o) /\ Launch(o, "revoke", i)
    BY DEF onRevoke, persisted, state, tunnel
<1> QED
    BY <1>2, <1>3, <1>4

\* setAwake takes the wake lock only of an instance with a tunnel.
LEMMA setAwakeEffect ==
    ASSUME TypeOK, NEW i \in Instances, setAwake(i)
    PROVE  /\ UNCHANGED <<flag, intents, hub, runTime, delegate, tunOwner, coreTun, runLock, ops>>
           /\ SameLife /\ SameStarted /\ SameTunActive /\ SameOwned /\ SameRevoked /\ SameDestroyed
           /\ \A k \in Instances : inst'[k].wakeLock => inst[k].wakeLock \/ inst[k].tunActive
<1>1. inst \in [Instances -> InstanceType]
    BY DEF TypeOK
<1>2. PICK awake \in BOOLEAN :
         inst' = [inst EXCEPT ![i].wakeLock = awake /\ (inst[i].wakeLock \/ inst[i].tunActive)]
    BY DEF setAwake
<1>3. SameLife /\ SameStarted /\ SameTunActive /\ SameOwned /\ SameRevoked /\ SameDestroyed
    BY <1>1, <1>2 DEF InstanceType
<1>4. \A k \in Instances : inst'[k].wakeLock => inst[k].wakeLock \/ inst[k].tunActive
    BY <1>1, <1>2 DEF InstanceType
<1> QED
    BY <1>3, <1>4 DEF setAwake, persisted, state, tunnel

-----------------------------------------------------------------------------
(* The disciplines *)

\* Everything that is there belongs to the instance of a start; so does that of a
\* stop, unless its destruction has overtaken it.
LEMMA TheInstance ==
    ASSUME TypeOK, LockDiscipline, InstanceDiscipline, NEW o \in Ops, InService(o) \in Instances,
           ops[o].pc \in StartPlaces \/ ops[o].kind = "cold" \/ inst[InService(o)].life = "alive"
    PROVE  /\ inst[InService(o)].life = "alive"
           /\ \A k \in Instances :
                 \/ k \in {delegate, tunOwner} \/ inst[k].tunActive \/ inst[k].wakeLock
                 \/ inst[k].life \in {"alive", "destroying"}
                 => k = InService(o)
<1>1. inst[InService(o)].life = "alive"
    BY DEF LockDiscipline, OpDiscipline, InstanceDiscipline
<1> QED
    BY <1>1 DEF InstanceDiscipline

\* A step that leaves the instances where they are, and refers to live ones only.
LEMMA InstancesKept ==
    ASSUME InstanceDiscipline, SameLife, SameOwned,
           \A k \in Instances : inst[k].life # "alive" =>
              /\ inst'[k].tunActive => inst[k].tunActive
              /\ inst'[k].wakeLock => inst[k].wakeLock,
           \A k \in Instances : k \in {delegate', tunOwner'} =>
              k \in {delegate, tunOwner} \/ inst[k].life = "alive",
           \A o \in Ops : \A k \in Instances : ops'[o].i = k =>
              (ops[o].i = k /\ ops'[o].kind = ops[o].kind) \/ inst[k].life = "alive"
    PROVE  InstanceDiscipline'
BY DEF InstanceDiscipline, InService

\* The same for a step that reaches instance j.
LEMMA InstancesRevived ==
    ASSUME InstanceDiscipline, NEW j \in Instances, Revived(j),
           tunOwner' = tunOwner, delegate' \in {delegate, j},
           \A o \in Ops : ops'[o].i = j \/ (ops'[o].i = ops[o].i /\ ops'[o].kind = ops[o].kind)
    PROVE  InstanceDiscipline'
<1>1. \A k \in Instances :
         inst'[k].life \in {"alive", "destroying"} => k = j /\ inst'[k].life = "alive"
    BY DEF Revived
<1>2. \A k \in Instances : inst[k].life = "alive" => k = j
    BY DEF Revived
<1>3. inst'[j].life = "alive" /\ ~inst'[j].owned
    BY DEF Revived, InstanceDiscipline
<1>4. ASSUME NEW k \in Instances, k # j
      PROVE  /\ k \notin {delegate', tunOwner'}
             /\ \A o \in Ops : ops'[o].i = k =>
                   inst'[k].life # "none" /\ ops'[o].kind \in {"stop", "revoke"}
             /\ ~inst'[k].tunActive /\ ~inst'[k].wakeLock /\ inst'[k].life = inst[k].life
             /\ inst'[k].owned = inst[k].owned
    BY <1>2, <1>4 DEF Revived, InstanceDiscipline, InService
<1> QED
    BY <1>1, <1>3, <1>4 DEF InstanceDiscipline, InService

\* One instance is there at a time.
LEMMA InstanceStep ==
    ASSUME "overtake" \notin Events, TypeOK, TypeOK', LockDiscipline,
           LockDiscipline', InstanceDiscipline, PlaceDiscipline, [Next]_vars
    PROVE  InstanceDiscipline'
<1> USE VpnAssumption
<1>1. ASSUME NEW o \in Ops, establish(o) PROVE InstanceDiscipline'
  <2>1. InService(o) \in Instances
    BY <1>1, KnownInstance DEF establish, At
  <2>2. \E q : Goto(o, q)
    BY <1>1, establishEffect
  <2>3. \A p \in Ops : ops'[p].i = ops[p].i /\ ops'[p].kind = ops[p].kind
    BY <2>2, GotoFields
  <2>4. inst[InService(o)].life = "alive"
    BY <1>1, <2>1, TheInstance DEF establish, StartPlaces
  <2> QED
    BY <1>1, <2>1, <2>3, <2>4, InstancesKept, establishEffect
<1>2. ASSUME NEW o \in Ops, startModules(o) PROVE InstanceDiscipline'
  <2>1. InService(o) \in Instances
    BY <1>2, KnownInstance DEF startModules, At
  <2>2. \E q : Goto(o, q)
    BY <1>2, startModulesEffect
  <2>3. \A p \in Ops : ops'[p].i = ops[p].i /\ ops'[p].kind = ops[p].kind
    BY <2>2, GotoFields
  <2>4. inst[InService(o)].life = "alive"
    BY <1>2, <2>1, TheInstance DEF startModules, StartPlaces
  <2> QED
    BY <1>2, <2>1, <2>3, <2>4, InstancesKept, startModulesEffect
<1>3. ASSUME NEW o \in Ops, startTun(o) PROVE InstanceDiscipline'
    BY <1>3 DEF startTun, Goto, May, persisted, state, TypeOK, OpType,
       LockDiscipline, OpDiscipline, InstanceDiscipline, InService
<1>4. ASSUME NEW o \in Ops, claimTun(o) PROVE InstanceDiscipline'
  <2>1. InService(o) \in Instances /\ ops[o].pc = "own"
    BY <1>4, KnownInstance DEF claimTun
  <2>2. inst[InService(o)].life = "alive"
    BY <2>1, TheInstance DEF StartPlaces
  <2>3. \A p \in Ops : ops'[p].i = ops[p].i /\ ops'[p].kind = ops[p].kind
    BY <1>4, GotoFields DEF claimTun
  <2>4. UNCHANGED <<inst, delegate>> /\ tunOwner' = InService(o)
    BY <1>4 DEF claimTun, state
  <2> QED
    BY <2>2, <2>3, <2>4, InstancesKept
<1>5. ASSUME NEW o \in Ops, undoStart(o) PROVE InstanceDiscipline'
  <2>1. InService(o) \in Instances
    BY <1>5, KnownInstance DEF undoStart, At
  <2>2. \E q : Goto(o, q)
    BY <1>5, undoStartEffect
  <2>3. \A p \in Ops : ops'[p].i = ops[p].i /\ ops'[p].kind = ops[p].kind
    BY <2>2, GotoFields
  <2> QED
    BY <1>5, <2>1, <2>3, InstancesKept, undoStartEffect
<1>6. ASSUME NEW o \in Ops, rollback(o) PROVE InstanceDiscipline'
  <2>1. InService(o) \in Instances
    BY <1>6, KnownInstance DEF rollback, At
  <2>2. \E q : Goto(o, q)
    BY <1>6, rollbackEffect
  <2>3. \A p \in Ops : ops'[p].i = ops[p].i /\ ops'[p].kind = ops[p].kind
    BY <2>2, GotoFields
  <2> QED
    BY <1>6, <2>1, <2>3, InstancesKept, rollbackEffect
<1>7. ASSUME NEW o \in Ops, stopFlags(o) PROVE InstanceDiscipline'
  <2>1. InService(o) \in Instances
    BY <1>7, KnownInstance DEF stopFlags
  <2>2. \A p \in Ops : ops'[p].i = ops[p].i /\ ops'[p].kind = ops[p].kind
    BY <1>7, <2>1, stopFlagsEffect, GotoFields
  <2>3. UNCHANGED <<delegate, tunOwner>>
    BY <1>7 DEF stopFlags, tunnel
  <2> QED
    BY <1>7, <2>1, <2>2, <2>3, stopFlagsEffect, InstancesKept
<1>8. ASSUME NEW o \in Ops, stopPersist(o) PROVE InstanceDiscipline'
  <2>1. InService(o) \in Instances
    BY <1>8, KnownInstance DEF stopPersist, At
  <2>2. \E q : Goto(o, q)
    BY <1>8, stopPersistEffect
  <2>3. \A p \in Ops : ops'[p].i = ops[p].i /\ ops'[p].kind = ops[p].kind
    BY <2>2, GotoFields
  <2> QED
    BY <1>8, <2>1, <2>3, InstancesKept, stopPersistEffect
<1>9. ASSUME NEW o \in Ops, stopCore(o) PROVE InstanceDiscipline'
    BY <1>9 DEF stopCore, Goto, InService, persisted, state, TypeOK, OpType,
       LockDiscipline, OpDiscipline, InstanceDiscipline
<1>10. ASSUME NEW o \in Ops, stopModules(o) PROVE InstanceDiscipline'
  <2>1. \A p \in Ops : ops'[p].i = ops[p].i /\ ops'[p].kind = ops[p].kind
    BY <1>10 DEF stopModules, Goto, TypeOK, OpType
  <2>2. UNCHANGED <<delegate, tunOwner>>
    BY <1>10 DEF stopModules, tunnel
  <2> QED
    BY <1>10, <2>1, <2>2, stopModulesEffect, InstancesKept
<1>11. ASSUME NEW o \in Ops, startService(o) PROVE InstanceDiscipline'
    BY <1>11 DEF startService, At, Goto, Finish, Lock, May, NoOp, persisted, state,
       tunnel, TypeOK, OpType, LockDiscipline, OpDiscipline, InstanceDiscipline,
       InService
<1>12. ASSUME NEW o \in Ops, bound(o) PROVE InstanceDiscipline'
  <2>1. CASE UNCHANGED <<delegate, inst>> /\ Goto(o, "failed")
    <3>1. tunOwner' = tunOwner
      BY <1>12 DEF bound, tunnel
    <3>2. \A p \in Ops : ops'[p].i = ops[p].i /\ ops'[p].kind = ops[p].kind
      BY <2>1, GotoFields
    <3> QED
      BY <2>1, <3>1, <3>2 DEF InstanceDiscipline, InService
  <2>2. CASE \E j \in Instances : BoundTo(o, j)
    <3>1. PICK j \in Instances : BoundTo(o, j)
      BY <2>2
    <3>2. tunOwner' = tunOwner
      BY <1>12 DEF bound, tunnel
    <3> QED
      <4>1. \A p \in Ops :
               ops'[p].i = j \/ (ops'[p].i = ops[p].i /\ ops'[p].kind = ops[p].kind)
        BY <3>1 DEF BoundTo, TypeOK, OpType
      <4> QED
        BY <3>1, <3>2, <4>1, InstancesRevived DEF BoundTo
  <2> QED
    BY <1>12, <2>1, <2>2, boundEffect
<1>13. ASSUME NEW o \in Ops, startInTime(o) PROVE InstanceDiscipline'
    BY <1>13 DEF startInTime, At, Goto, May, persisted, state, tunnel, TypeOK,
       OpType, LockDiscipline, OpDiscipline, InstanceDiscipline, InService
<1>14. ASSUME NEW o \in Ops, startFailed(o) PROVE InstanceDiscipline'
    BY <1>14 DEF startFailed, At, Finish, Unlock, NoOp, TypeOK, OpType,
       LockDiscipline, OpDiscipline, InstanceDiscipline, InService
<1>15. ASSUME NEW o \in Ops, commit(o) PROVE InstanceDiscipline'
    BY <1>15 DEF commit, Goto, persisted, tunnel, TypeOK, OpType, LockDiscipline,
       OpDiscipline, InstanceDiscipline, InService
<1>16. ASSUME NEW o \in Ops, persist(o) PROVE InstanceDiscipline'
    BY <1>16 DEF persist, Goto, state, tunnel, TypeOK, OpType, LockDiscipline,
       OpDiscipline, InstanceDiscipline, InService
<1>17. ASSUME NEW o \in Ops, announce(o) PROVE InstanceDiscipline'
    BY <1>17 DEF announce, Finish, Unlock, NoOp, persisted, tunnel, TypeOK, OpType,
       LockDiscipline, OpDiscipline, InstanceDiscipline, InService
<1>18. ASSUME NEW o \in Ops, stopService(o) PROVE InstanceDiscipline'
  <2>1. \A p \in Ops : \/ ops'[p].i = None
                       \/ ops'[p].i = ops[p].i /\ ops'[p].kind = ops[p].kind
                       \/ ops'[p].i = delegate /\ delegate \in Instances
    BY <1>18 DEF stopService, Finish, NoOp, TypeOK, OpType
  <2>2. UNCHANGED <<tunOwner, inst>> /\ delegate' \in {delegate, None}
    BY <1>18 DEF stopService, state, tunnel
  <2>3. delegate \in Instances => inst[delegate].life = "alive"
    BY DEF InstanceDiscipline
  <2> QED
    BY <2>1, <2>2, <2>3, VpnAssumption, InstancesKept
<1>19. ASSUME NEW o \in Ops, stopServiceEnd(o) PROVE InstanceDiscipline'
    BY <1>19 DEF stopServiceEnd, At, Finish, Unlock, NoOp, tunnel, TypeOK, OpType,
       LockDiscipline, OpDiscipline, InstanceDiscipline, InService
<1>20. ASSUME NEW o \in Ops, stopCommand(o) PROVE InstanceDiscipline'
    BY <1>20 DEF stopCommand, Goto, Lock, persisted, state, tunnel, TypeOK, OpType,
       LockDiscipline, OpDiscipline, InstanceDiscipline, InService
<1>21. ASSUME NEW o \in Ops, stopUnlocks(o) PROVE InstanceDiscipline'
    BY <1>21 DEF stopUnlocks, Goto, Unlock, persisted, state, tunnel, TypeOK, OpType,
       LockDiscipline, OpDiscipline, InstanceDiscipline, InService
<1>22. ASSUME NEW o \in Ops, unflag(o) PROVE InstanceDiscipline'
    BY <1>22 DEF unflag, Goto, state, tunnel, TypeOK, OpType, LockDiscipline,
       OpDiscipline, InstanceDiscipline, InService
<1>23. ASSUME NEW o \in Ops, publishStopped(o) PROVE InstanceDiscipline'
    BY <1>23 DEF publishStopped, Goto, persisted, tunnel, TypeOK, OpType,
       LockDiscipline, OpDiscipline, InstanceDiscipline, InService
<1>24. ASSUME NEW o \in Ops, stopSelf(o) PROVE InstanceDiscipline'
  <2>1. inst' \in {inst, StopSelf(inst, InService(o))}
    BY <1>24 DEF stopSelf
  <2>2. \A p \in Ops :
           ops'[p].i = None \/ (ops'[p].i = ops[p].i /\ ops'[p].kind = ops[p].kind)
    BY <1>24 DEF stopSelf, Goto, Finish, NoOp, TypeOK, OpType
  <2>3. UNCHANGED <<delegate, tunOwner>>
    BY <1>24 DEF stopSelf, state, tunnel
  <2> QED
    BY <2>1, <2>2, <2>3, VpnAssumption, StopSelfEffect, InstancesKept
<1>25. ASSUME NEW o \in Ops, coldStart(o) PROVE InstanceDiscipline'
  <2>1. inst' \in {inst, StopSelf(inst, InService(o))}
    BY <1>25 DEF coldStart
  <2>2. \A p \in Ops :
           ops'[p].i = None \/ (ops'[p].i = ops[p].i /\ ops'[p].kind = ops[p].kind)
    BY <1>25 DEF coldStart, Goto, Finish, NoOp, TypeOK, OpType
  <2>3. UNCHANGED <<delegate, tunOwner>>
    BY <1>25 DEF coldStart, state, tunnel
  <2> QED
    BY <2>1, <2>2, <2>3, VpnAssumption, StopSelfEffect, InstancesKept
<1>26. ASSUME NEW o \in Ops, quickStart(o) PROVE InstanceDiscipline'
    BY <1>26 DEF quickStart, Goto, May, persisted, state, tunnel, TypeOK, OpType,
       LockDiscipline, OpDiscipline, InstanceDiscipline, InService
<1>27. ASSUME NEW o \in Ops, coldFailed(o) PROVE InstanceDiscipline'
  <2>1. InService(o) \in Instances
    BY <1>27, KnownInstance DEF coldFailed, At
  <2>2. \E q : Goto(o, q)
    BY <1>27, coldFailedEffect
  <2>3. \A p \in Ops : ops'[p].i = ops[p].i /\ ops'[p].kind = ops[p].kind
    BY <2>2, GotoFields
  <2> QED
    BY <1>27, <2>1, <2>3, InstancesKept, coldFailedEffect
<1>28. ASSUME NEW i \in Instances, onStartCommand(i) PROVE InstanceDiscipline'
  <2>1. UNCHANGED <<delegate, tunOwner>> /\ Revived(i)
    BY <1>28, onStartCommandEffect DEF onStartCommand, state, tunnel
  <2>2. UNCHANGED ops \/ \E o \in Ops : Launch(o, "stop", i) \/ Launch(o, "cold", i)
    BY <1>28, onStartCommandEffect
  <2>3. \A p \in Ops :
           ops'[p].i = i \/ (ops'[p].i = ops[p].i /\ ops'[p].kind = ops[p].kind)
    BY <2>2, LaunchFields
  <2> QED
    BY <2>1, <2>3, InstancesRevived
<1>29. ASSUME NEW i \in Instances, onDestroy(i) PROVE InstanceDiscipline'
  <2>1. /\ inst[i].life = "alive" /\ delegate # i
        /\ \A k \in Instances : inst[k].life # "destroying"
        /\ tunOwner' \in {tunOwner, None} /\ tunOwner' # i
        /\ \A o \in Ops : InService(o) = i => ops[o].kind # "cold"
    BY <1>29, VpnAssumption DEF onDestroy, MainFree, May
  <2>6. ASSUME NEW o \in Ops, ops[o].i = i PROVE ops[o].kind \in {"stop", "revoke"}
    <3>1. OpDiscipline(o) /\ OpType = [kind : Kinds, pc : Places, i : Instances \cup {None}]
      BY DEF LockDiscipline, OpType
    <3>2. ops[o].kind \in Kinds /\ ops[o].pc \in Places /\ ops[o].i # None
      BY <2>6, VpnAssumption DEF TypeOK, OpType
    <3> QED
      BY <2>1, <2>6, <3>1, <3>2
         DEF OpDiscipline, InService, Kinds, Places, Locked, StartPlaces, EndPlaces,
            StopPlaces
  <2>2. \A k \in Instances : k # i => inst[k].life # "alive"
    BY <2>1 DEF InstanceDiscipline
  <2>3. UNCHANGED <<delegate, ops>>
    BY <1>29, onDestroyEffect
  <2>4. \A k \in Instances : k # i =>
           UNCHANGED <<inst[k].life, inst[k].tunActive, inst[k].wakeLock, inst[k].owned>>
    BY <1>29, onDestroyEffect DEF TypeOK, InstanceType
  <2>5. inst'[i].life = "destroying" /\ ~inst'[i].tunActive /\ ~inst'[i].wakeLock
    BY <1>29, onDestroyEffect
  <2> QED
    BY <2>1, <2>2, <2>3, <2>4, <2>5, <2>6, VpnAssumption DEF InstanceDiscipline,
       InService
<1>30. ASSUME NEW i \in Instances, onDestroyEnds(i) PROVE InstanceDiscipline'
  <2>1. inst[i].life = "destroying" /\ inst'[i].life \in {"none", "dead"}
    BY <1>30, onDestroyEndsFields
  <2>2. /\ UNCHANGED <<delegate, tunOwner, ops>>
        /\ \A k \in Instances : k # i => inst'[k] = inst[k]
        /\ inst'[i].life = "none" => \A o \in Ops : InService(o) # i
        /\ ~inst'[i].tunActive /\ ~inst'[i].wakeLock /\ ~inst'[i].owned
    BY <1>30, <2>1, onDestroyEndsFields DEF InstanceDiscipline
  <2>3. i # delegate /\ i # tunOwner
    BY <2>1 DEF InstanceDiscipline
  <2> QED
    BY <2>1, <2>2, <2>3 DEF InstanceDiscipline, InService
<1>31. ASSUME NEW i \in Instances, onRevoke(i) PROVE InstanceDiscipline'
  <2>1. inst[i].life = "alive"
    BY <1>31 DEF onRevoke
  <2>2. \A p \in Ops :
           ops'[p].i = i \/ (ops'[p].i = ops[p].i /\ ops'[p].kind = ops[p].kind)
    BY <1>31, onRevokeEffect, LaunchFields
  <2> QED
    BY <1>31, <2>1, <2>2, onRevokeEffect, InstancesKept
<1>32. ASSUME NEW i \in Instances, setAwake(i) PROVE InstanceDiscipline'
    BY <1>32, setAwakeEffect DEF InstanceDiscipline, InService
<1>33. CASE appCalls
    BY <1>33 DEF appCalls, Launch, Idle, May, Event, NoOp, persisted, state, tunnel,
       TypeOK, OpType, LockDiscipline, OpDiscipline, InstanceDiscipline, InService
<1>34. CASE tileStart
    BY <1>34 DEF tileStart, May, Event, state, tunnel, TypeOK, OpType,
       LockDiscipline, OpDiscipline, InstanceDiscipline, InService
<1>35. CASE tileStop
    BY <1>35 DEF tileStop, Launch, Idle, May, Event, NoOp, state, tunnel, TypeOK,
       OpType, LockDiscipline, OpDiscipline, InstanceDiscipline, InService
<1>36. CASE command
    BY <1>36 DEF command, May, Event, state, tunnel, TypeOK, OpType, LockDiscipline,
       OpDiscipline, InstanceDiscipline, InService
<1>37. CASE kill
  <2>1. \A k \in Instances : inst'[k] = Absent
    BY <1>37 DEF kill
  <2>2. Absent.life = "none" /\ ~Absent.tunActive /\ ~Absent.wakeLock /\ ~Absent.owned
    BY DEF Absent, Fresh
  <2>3. delegate' = None /\ tunOwner' = None /\ \A p \in Ops : ops'[p].i = None
    BY <1>37 DEF kill, NoOp
  <2> QED
    BY <2>1, <2>2, <2>3 DEF InstanceDiscipline, InService
<1>38. CASE UNCHANGED vars
    BY <1>38 DEF vars, persisted, state, tunnel, TypeOK, OpType, LockDiscipline,
       OpDiscipline, InstanceDiscipline, InService
<1> QED
    BY <1>1, <1>2, <1>3, <1>4, <1>5, <1>6, <1>7, <1>8, <1>9, <1>10, <1>11, <1>12,
       <1>13, <1>14, <1>15, <1>16, <1>17, <1>18, <1>19, <1>20, <1>21, <1>22, <1>23,
       <1>24, <1>25, <1>26, <1>27, <1>28, <1>29, <1>30, <1>31, <1>32, <1>33, <1>34,
       <1>35, <1>36, <1>37, <1>38
       DEF Next, Step, Platform, Environment, handleStart, handleStop

\* What the holder of the lock relies on stays so until it gives the lock back.
LEMMA PlaceStep ==
    ASSUME "overtake" \notin Events, TypeOK, TypeOK', LockDiscipline,
           LockDiscipline', InstanceDiscipline, PlaceDiscipline, [Next]_vars
    PROVE  PlaceDiscipline'
<1> USE VpnAssumption
<1>1. ASSUME NEW o \in Ops, establish(o) PROVE PlaceDiscipline'
  <2>1. runLock' \in {o, None}
    BY <1>1 DEF establish, May, persisted, state, tunnel, LockDiscipline,
       OpDiscipline, Locked, StartPlaces, EndPlaces, StopPlaces
  <2>2. \A p \in Ops : p # o => PlaceFacts(p)'
    BY <2>1, VpnAssumption DEF LockDiscipline, OpDiscipline, PlaceFacts, At, Locked,
       StartPlaces, EndPlaces, StopPlaces
  <2>3. InService(o) \in Instances
    BY <1>1, KnownInstance DEF establish, At
  <2>4. PICK q \in {"modules", "failed"} : Goto(o, q)
    BY <1>1, <2>3, establishEffect DEF establish
  <2>5. ops'[o].pc = q /\ ops'[o].kind = ops[o].kind /\ InService(o)' = InService(o)
    BY <2>4, GotoFields DEF InService
  <2>6. PlaceFacts(o)
    BY DEF PlaceDiscipline
  <2>7. ~runTime'
    BY <1>1, <2>6, establishEffect DEF establish, PlaceFacts, StartPlaces
  <2>8. Goto(o, "failed") => ops'[o].pc = "failed"
    BY GotoFields
  <2>9. q = "modules" => inst'[InService(o)].tunActive
    BY <1>1, <2>3, <2>5, <2>8, establishEffect
  <2>10. PlaceFacts(o)'
    BY <2>5, <2>7, <2>9 DEF PlaceFacts, At, StartPlaces
  <2> QED
    BY <2>2, <2>10 DEF PlaceDiscipline
<1>2. ASSUME NEW o \in Ops, startModules(o) PROVE PlaceDiscipline'
  <2>1. runLock' \in {o, None}
    BY <1>2 DEF startModules, May, persisted, state, tunnel, LockDiscipline,
       OpDiscipline, Locked, StartPlaces, EndPlaces, StopPlaces
  <2>2. \A p \in Ops : p # o => PlaceFacts(p)'
    BY <2>1, VpnAssumption DEF LockDiscipline, OpDiscipline, PlaceFacts, At, Locked,
       StartPlaces, EndPlaces, StopPlaces
  <2>3. InService(o) \in Instances
    BY <1>2, KnownInstance DEF startModules, At
  <2>4. PICK q \in {"startTun", "undo"} : Goto(o, q)
    BY <1>2, <2>3, startModulesEffect DEF startModules
  <2>5. ops'[o].pc = q /\ ops'[o].kind = ops[o].kind /\ InService(o)' = InService(o)
    BY <2>4, GotoFields DEF InService
  <2>6. PlaceFacts(o)
    BY DEF PlaceDiscipline
  <2>7. PlaceFacts(o)'
    BY <1>2, <2>3, <2>5, <2>6, startModulesEffect DEF PlaceFacts, At, StartPlaces,
       startModules, May, persisted, state, tunnel
  <2> QED
    BY <2>2, <2>7 DEF PlaceDiscipline
<1>3. ASSUME NEW o \in Ops, startTun(o) PROVE PlaceDiscipline'
  <2>1. runLock' \in {o, None}
    BY <1>3 DEF startTun, May, persisted, state, LockDiscipline, OpDiscipline,
       Locked, StartPlaces, EndPlaces, StopPlaces
  <2>2. \A p \in Ops : p # o => PlaceFacts(p)'
    BY <2>1, VpnAssumption DEF LockDiscipline, OpDiscipline, PlaceFacts, At, Locked,
       StartPlaces, EndPlaces, StopPlaces
  <2>3. InService(o) \in Instances
    BY <1>3, KnownInstance DEF startTun, At
  <2>4. PICK q \in {"own", "undo"} : Goto(o, q)
    BY <1>3, <2>3 DEF startTun
  <2>5. ops'[o].pc = q /\ ops'[o].kind = ops[o].kind /\ InService(o)' = InService(o)
    BY <2>4, GotoFields DEF InService
  <2>6. PlaceFacts(o)
    BY DEF PlaceDiscipline
  <2>7. ops[o].pc = "startTun" /\ UNCHANGED <<runTime, inst>>
    BY <1>3 DEF startTun, state
  <2>8. q = "own" => coreTun'
    BY <1>3, <2>5, GotoFields DEF startTun
  <2>9. PlaceFacts(o)'
    BY <2>5, <2>6, <2>7, <2>8 DEF PlaceFacts, At, StartPlaces
  <2> QED
    BY <2>2, <2>9 DEF PlaceDiscipline
<1>4. ASSUME NEW o \in Ops, claimTun(o) PROVE PlaceDiscipline'
  <2>1. runLock' \in {o, None}
    BY <1>4 DEF claimTun, persisted, state, LockDiscipline, OpDiscipline, Locked,
       StartPlaces, EndPlaces, StopPlaces
  <2>2. \A p \in Ops : p # o => PlaceFacts(p)'
    BY <2>1, VpnAssumption DEF LockDiscipline, OpDiscipline, PlaceFacts, At, Locked,
       StartPlaces, EndPlaces, StopPlaces
  <2>3. InService(o) \in Instances
    BY <1>4, KnownInstance DEF claimTun, At
  <2>4. PICK q \in {"commit", "started"} : Goto(o, q)
    BY <1>4, <2>3 DEF claimTun
  <2>5. ops'[o].pc = q /\ ops'[o].kind = ops[o].kind /\ InService(o)' = InService(o)
    BY <2>4, GotoFields DEF InService
  <2>6. PlaceFacts(o)
    BY DEF PlaceDiscipline
  <2>7. PlaceFacts(o)'
    BY <1>4, <2>3, <2>5, <2>6 DEF PlaceFacts, At, StartPlaces, claimTun, persisted,
       state
  <2> QED
    BY <2>2, <2>7 DEF PlaceDiscipline
<1>5. ASSUME NEW o \in Ops, undoStart(o) PROVE PlaceDiscipline'
  <2>1. runLock' \in {o, None}
    BY <1>5 DEF undoStart, persisted, state, tunnel, LockDiscipline, OpDiscipline,
       Locked, StartPlaces, EndPlaces, StopPlaces
  <2>2. \A p \in Ops : p # o => PlaceFacts(p)'
    BY <2>1, VpnAssumption DEF LockDiscipline, OpDiscipline, PlaceFacts, At, Locked,
       StartPlaces, EndPlaces, StopPlaces
  <2>3. InService(o) \in Instances
    BY <1>5, KnownInstance DEF undoStart, At
  <2>4. PICK q \in {"rollback"} : Goto(o, q)
    BY <1>5, <2>3, undoStartEffect DEF undoStart
  <2>5. ops'[o].pc = q /\ ops'[o].kind = ops[o].kind /\ InService(o)' = InService(o)
    BY <2>4, GotoFields DEF InService
  <2>6. PlaceFacts(o)
    BY DEF PlaceDiscipline
  <2>7. ~runTime' /\ ~inst'[InService(o)].tunActive
    BY <1>5, <2>3, <2>6, undoStartEffect DEF undoStart, PlaceFacts, StartPlaces
  <2>8. PlaceFacts(o)'
    BY <2>5, <2>7 DEF PlaceFacts, At, StartPlaces
  <2> QED
    BY <2>2, <2>8 DEF PlaceDiscipline
<1>6. ASSUME NEW o \in Ops, rollback(o) PROVE PlaceDiscipline'
  <2>1. runLock' \in {o, None}
    BY <1>6 DEF rollback, persisted, state, LockDiscipline, OpDiscipline, Locked,
       StartPlaces, EndPlaces, StopPlaces
  <2>2. \A p \in Ops : p # o => PlaceFacts(p)'
    BY <2>1, VpnAssumption DEF LockDiscipline, OpDiscipline, PlaceFacts, At, Locked,
       StartPlaces, EndPlaces, StopPlaces
  <2>3. InService(o) \in Instances
    BY <1>6, KnownInstance DEF rollback, At
  <2>4. PICK q \in {"failed"} : Goto(o, q)
    BY <1>6, <2>3, rollbackEffect DEF rollback
  <2>5. ops'[o].pc = q /\ ops'[o].kind = ops[o].kind /\ InService(o)' = InService(o)
    BY <2>4, GotoFields DEF InService
  <2>6. PlaceFacts(o)
    BY DEF PlaceDiscipline
  <2>7. PlaceFacts(o)'
    BY <1>6, <2>3, <2>5, <2>6, rollbackEffect DEF PlaceFacts, At, StartPlaces,
       rollback, persisted, state
  <2> QED
    BY <2>2, <2>7 DEF PlaceDiscipline
<1>7. ASSUME NEW o \in Ops, stopFlags(o) PROVE PlaceDiscipline'
  <2>1. runLock' \in {o, None}
    BY <1>7 DEF stopFlags, persisted, tunnel, LockDiscipline, OpDiscipline, Locked,
       StartPlaces, EndPlaces, StopPlaces
  <2>2. \A p \in Ops : p # o => PlaceFacts(p)'
    BY <2>1, VpnAssumption DEF LockDiscipline, OpDiscipline, PlaceFacts, At, Locked,
       StartPlaces, EndPlaces, StopPlaces
  <2>3. InService(o) \in Instances
    BY <1>7, KnownInstance DEF stopFlags, At
  <2>4. PICK q \in {"after", "stop2"} : Goto(o, q)
    BY <1>7, <2>3, stopFlagsEffect DEF stopFlags
  <2>5. ops'[o].pc = q /\ ops'[o].kind = ops[o].kind /\ InService(o)' = InService(o)
    BY <2>4, GotoFields DEF InService
  <2>6. PlaceFacts(o)
    BY DEF PlaceDiscipline
  <2>7. PlaceFacts(o)'
    BY <1>7, <2>3, <2>5, <2>6, stopFlagsEffect DEF PlaceFacts, At, StartPlaces,
       stopFlags, persisted, tunnel
  <2> QED
    BY <2>2, <2>7 DEF PlaceDiscipline
<1>8. ASSUME NEW o \in Ops, stopPersist(o) PROVE PlaceDiscipline'
  <2>1. runLock' \in {o, None}
    BY <1>8 DEF stopPersist, state, tunnel, LockDiscipline, OpDiscipline, Locked,
       StartPlaces, EndPlaces, StopPlaces
  <2>2. \A p \in Ops : p # o => PlaceFacts(p)'
    BY <2>1, VpnAssumption DEF LockDiscipline, OpDiscipline, PlaceFacts, At, Locked,
       StartPlaces, EndPlaces, StopPlaces
  <2>3. InService(o) \in Instances
    BY <1>8, KnownInstance DEF stopPersist, At
  <2>4. PICK q \in {"stop3"} : Goto(o, q)
    BY <1>8, <2>3, stopPersistEffect DEF stopPersist
  <2>5. ops'[o].pc = q /\ ops'[o].kind = ops[o].kind /\ InService(o)' = InService(o)
    BY <2>4, GotoFields DEF InService
  <2>6. PlaceFacts(o)
    BY DEF PlaceDiscipline
  <2>7. PlaceFacts(o)'
    BY <1>8, <2>3, <2>5, <2>6, stopPersistEffect DEF PlaceFacts, At, StartPlaces,
       stopPersist, state, tunnel
  <2> QED
    BY <2>2, <2>7 DEF PlaceDiscipline
<1>9. ASSUME NEW o \in Ops, stopCore(o) PROVE PlaceDiscipline'
  <2>1. runLock' \in {o, None}
    BY <1>9 DEF stopCore, persisted, state, LockDiscipline, OpDiscipline, Locked,
       StartPlaces, EndPlaces, StopPlaces
  <2>2. \A p \in Ops : p # o => PlaceFacts(p)'
    BY <2>1, VpnAssumption DEF LockDiscipline, OpDiscipline, PlaceFacts, At, Locked,
       StartPlaces, EndPlaces, StopPlaces
  <2>3. InService(o) \in Instances
    BY <1>9, KnownInstance DEF stopCore, At
  <2>4. PICK q \in {"stop4"} : Goto(o, q)
    BY <1>9, <2>3 DEF stopCore
  <2>5. ops'[o].pc = q /\ ops'[o].kind = ops[o].kind /\ InService(o)' = InService(o)
    BY <2>4, GotoFields DEF InService
  <2>6. PlaceFacts(o)
    BY DEF PlaceDiscipline
  <2>7. PlaceFacts(o)'
    BY <1>9, <2>3, <2>5, <2>6 DEF PlaceFacts, At, StartPlaces, stopCore, persisted,
       state
  <2> QED
    BY <2>2, <2>7 DEF PlaceDiscipline
<1>10. ASSUME NEW o \in Ops, stopModules(o) PROVE PlaceDiscipline'
  <2>1. runLock' \in {o, None}
    BY <1>10 DEF stopModules, StopSelf, persisted, tunnel, LockDiscipline,
       OpDiscipline, Locked, StartPlaces, EndPlaces, StopPlaces
  <2>2. \A p \in Ops : p # o => PlaceFacts(p)'
    BY <2>1, VpnAssumption DEF LockDiscipline, OpDiscipline, PlaceFacts, At, Locked,
       StartPlaces, EndPlaces, StopPlaces
  <2>3. InService(o) \in Instances
    BY <1>10, KnownInstance DEF stopModules, At
  <2>4. PICK q \in {"after"} : Goto(o, q)
    BY <1>10, <2>3, stopModulesEffect DEF stopModules
  <2>5. ops'[o].pc = q /\ ops'[o].kind = ops[o].kind /\ InService(o)' = InService(o)
    BY <2>4, GotoFields DEF InService
  <2>6. PlaceFacts(o)
    BY DEF PlaceDiscipline
  <2>7. PlaceFacts(o)'
    BY <1>10, <2>3, <2>5, <2>6, stopModulesEffect DEF PlaceFacts, At, StartPlaces,
       stopModules, StopSelf, persisted, tunnel
  <2> QED
    BY <2>2, <2>7 DEF PlaceDiscipline
<1>11. ASSUME NEW o \in Ops, startService(o) PROVE PlaceDiscipline'
    BY <1>11 DEF startService, At, Goto, Finish, Lock, May, NoOp, persisted, state,
       tunnel, TypeOK, OpType, LockDiscipline, OpDiscipline, InstanceDiscipline,
       InService, PlaceDiscipline, PlaceFacts, Locked, StartPlaces, EndPlaces,
       StopPlaces
<1>12. ASSUME NEW o \in Ops, bound(o) PROVE PlaceDiscipline'
    BY <1>12 DEF bound, At, Goto, MainFree, Reaches, Instance, May, Fresh, persisted,
       tunnel, TypeOK, OpType, LockDiscipline, OpDiscipline, InstanceDiscipline,
       InService, PlaceDiscipline, PlaceFacts, Locked, StartPlaces, EndPlaces,
       StopPlaces
<1>13. ASSUME NEW o \in Ops, startInTime(o) PROVE PlaceDiscipline'
  <2>1. runLock' \in {o, None}
    BY <1>13 DEF startInTime, At, May, persisted, state, tunnel, LockDiscipline,
       OpDiscipline, Locked, StartPlaces, EndPlaces, StopPlaces
  <2>2. \A p \in Ops : p # o => PlaceFacts(p)'
    BY <2>1, VpnAssumption DEF LockDiscipline, OpDiscipline, PlaceFacts, At, Locked,
       StartPlaces, EndPlaces, StopPlaces
  <2>3. InService(o) \in Instances
    BY <1>13, KnownInstance DEF startInTime, At
  <2>4. PICK q \in {"commit", "failed"} : Goto(o, q)
    BY <1>13, <2>3 DEF startInTime
  <2>5. ops'[o].pc = q /\ ops'[o].kind = ops[o].kind /\ InService(o)' = InService(o)
    BY <2>4, GotoFields DEF InService
  <2>6. PlaceFacts(o)
    BY DEF PlaceDiscipline
  <2>7. PlaceFacts(o)'
    BY <1>13, <2>3, <2>5, <2>6 DEF PlaceFacts, At, StartPlaces, startInTime, At, May,
       persisted, state, tunnel
  <2> QED
    BY <2>2, <2>7 DEF PlaceDiscipline
<1>14. ASSUME NEW o \in Ops, startFailed(o) PROVE PlaceDiscipline'
  <2>1. runLock' \in {o, None}
    BY <1>14 DEF startFailed, At, Unlock, LockDiscipline, OpDiscipline, Locked,
       StartPlaces, EndPlaces, StopPlaces
  <2>2. \A p \in Ops : p # o => PlaceFacts(p)'
    BY <2>1, VpnAssumption DEF LockDiscipline, OpDiscipline, PlaceFacts, At, Locked,
       StartPlaces, EndPlaces, StopPlaces
  <2>3. ops'[o].pc = "idle"
    BY <1>14, FinishFields DEF startFailed
  <2>4. PlaceFacts(o)'
    BY <2>3 DEF PlaceFacts, At, StartPlaces
  <2> QED
    BY <2>2, <2>4 DEF PlaceDiscipline
<1>15. ASSUME NEW o \in Ops, commit(o) PROVE PlaceDiscipline'
  <2>1. runLock' \in {o, None}
    BY <1>15 DEF commit, persisted, tunnel, LockDiscipline, OpDiscipline, Locked,
       StartPlaces, EndPlaces, StopPlaces
  <2>2. \A p \in Ops : p # o => PlaceFacts(p)'
    BY <2>1, VpnAssumption DEF LockDiscipline, OpDiscipline, PlaceFacts, At, Locked,
       StartPlaces, EndPlaces, StopPlaces
  <2>3. InService(o) \in Instances
    BY <1>15, KnownInstance DEF commit, At
  <2>4. PICK q \in {"persist"} : Goto(o, q)
    BY <1>15, <2>3 DEF commit
  <2>5. ops'[o].pc = q /\ ops'[o].kind = ops[o].kind /\ InService(o)' = InService(o)
    BY <2>4, GotoFields DEF InService
  <2>6. PlaceFacts(o)
    BY DEF PlaceDiscipline
  <2>7. PlaceFacts(o)'
    BY <1>15, <2>3, <2>5, <2>6 DEF PlaceFacts, At, StartPlaces, commit, persisted,
       tunnel
  <2> QED
    BY <2>2, <2>7 DEF PlaceDiscipline
<1>16. ASSUME NEW o \in Ops, persist(o) PROVE PlaceDiscipline'
  <2>1. runLock' \in {o, None}
    BY <1>16 DEF persist, state, tunnel, LockDiscipline, OpDiscipline, Locked,
       StartPlaces, EndPlaces, StopPlaces
  <2>2. \A p \in Ops : p # o => PlaceFacts(p)'
    BY <2>1, VpnAssumption DEF LockDiscipline, OpDiscipline, PlaceFacts, At, Locked,
       StartPlaces, EndPlaces, StopPlaces
  <2>3. InService(o) \in Instances
    BY <1>16, KnownInstance DEF persist, At
  <2>4. PICK q \in {"announce"} : Goto(o, q)
    BY <1>16, <2>3 DEF persist
  <2>5. ops'[o].pc = q /\ ops'[o].kind = ops[o].kind /\ InService(o)' = InService(o)
    BY <2>4, GotoFields DEF InService
  <2>6. PlaceFacts(o)
    BY DEF PlaceDiscipline
  <2>7. PlaceFacts(o)'
    BY <1>16, <2>3, <2>5, <2>6 DEF PlaceFacts, At, StartPlaces, persist, state, tunnel
  <2> QED
    BY <2>2, <2>7 DEF PlaceDiscipline
<1>17. ASSUME NEW o \in Ops, announce(o) PROVE PlaceDiscipline'
  <2>1. runLock' \in {o, None}
    BY <1>17 DEF announce, Unlock, persisted, tunnel, LockDiscipline, OpDiscipline,
       Locked, StartPlaces, EndPlaces, StopPlaces
  <2>2. \A p \in Ops : p # o => PlaceFacts(p)'
    BY <2>1, VpnAssumption DEF LockDiscipline, OpDiscipline, PlaceFacts, At, Locked,
       StartPlaces, EndPlaces, StopPlaces
  <2>3. ops'[o].pc = "idle"
    BY <1>17, FinishFields DEF announce
  <2>4. PlaceFacts(o)'
    BY <2>3 DEF PlaceFacts, At, StartPlaces
  <2> QED
    BY <2>2, <2>4 DEF PlaceDiscipline
<1>18. ASSUME NEW o \in Ops, stopService(o) PROVE PlaceDiscipline'
    BY <1>18 DEF stopService, At, Finish, Lock, May, NoOp, persisted, tunnel, TypeOK,
       OpType, LockDiscipline, OpDiscipline, InstanceDiscipline, InService,
       PlaceDiscipline, PlaceFacts, Locked, StartPlaces, EndPlaces, StopPlaces
<1>19. ASSUME NEW o \in Ops, stopServiceEnd(o) PROVE PlaceDiscipline'
  <2>1. runLock' \in {o, None}
    BY <1>19 DEF stopServiceEnd, At, Unlock, tunnel, LockDiscipline, OpDiscipline,
       Locked, StartPlaces, EndPlaces, StopPlaces
  <2>2. \A p \in Ops : p # o => PlaceFacts(p)'
    BY <2>1, VpnAssumption DEF LockDiscipline, OpDiscipline, PlaceFacts, At, Locked,
       StartPlaces, EndPlaces, StopPlaces
  <2>3. ops'[o].pc = "idle"
    BY <1>19, FinishFields DEF stopServiceEnd
  <2>4. PlaceFacts(o)'
    BY <2>3 DEF PlaceFacts, At, StartPlaces
  <2> QED
    BY <2>2, <2>4 DEF PlaceDiscipline
<1>20. ASSUME NEW o \in Ops, stopCommand(o) PROVE PlaceDiscipline'
  <2>1. runLock' \in {o, None}
    BY <1>20 DEF stopCommand, Lock, persisted, state, tunnel, LockDiscipline,
       OpDiscipline, Locked, StartPlaces, EndPlaces, StopPlaces
  <2>2. \A p \in Ops : p # o => PlaceFacts(p)'
    BY <2>1, VpnAssumption DEF LockDiscipline, OpDiscipline, PlaceFacts, At, Locked,
       StartPlaces, EndPlaces, StopPlaces
  <2>3. ops[o].pc = "wait"
    BY <1>20 DEF stopCommand, At
  <2>4. PICK q \in {"stop1"} : Goto(o, q)
    BY <1>20, <2>3 DEF stopCommand
  <2>5. ops'[o].pc = q /\ ops'[o].kind = ops[o].kind /\ InService(o)' = InService(o)
    BY <2>4, GotoFields DEF InService
  <2>6. PlaceFacts(o)
    BY DEF PlaceDiscipline
  <2>7. PlaceFacts(o)'
    BY <1>20, <2>3, <2>5, <2>6 DEF PlaceFacts, At, StartPlaces, stopCommand, Lock,
       persisted, state, tunnel
  <2> QED
    BY <2>2, <2>7 DEF PlaceDiscipline
<1>21. ASSUME NEW o \in Ops, stopUnlocks(o) PROVE PlaceDiscipline'
  <2>1. runLock' \in {o, None}
    BY <1>21 DEF stopUnlocks, Unlock, persisted, state, tunnel, LockDiscipline,
       OpDiscipline, Locked, StartPlaces, EndPlaces, StopPlaces
  <2>2. \A p \in Ops : p # o => PlaceFacts(p)'
    BY <2>1, VpnAssumption DEF LockDiscipline, OpDiscipline, PlaceFacts, At, Locked,
       StartPlaces, EndPlaces, StopPlaces
  <2>3. InService(o) \in Instances
    BY <1>21, KnownInstance DEF stopUnlocks, At
  <2>4. PICK q \in {"unflag", "self"} : Goto(o, q)
    BY <1>21, <2>3 DEF stopUnlocks
  <2>5. ops'[o].pc = q /\ ops'[o].kind = ops[o].kind /\ InService(o)' = InService(o)
    BY <2>4, GotoFields DEF InService
  <2>6. PlaceFacts(o)
    BY DEF PlaceDiscipline
  <2>7. PlaceFacts(o)'
    BY <1>21, <2>3, <2>5, <2>6 DEF PlaceFacts, At, StartPlaces, stopUnlocks, Unlock,
       persisted, state, tunnel
  <2> QED
    BY <2>2, <2>7 DEF PlaceDiscipline
<1>22. ASSUME NEW o \in Ops, unflag(o) PROVE PlaceDiscipline'
    BY <1>22 DEF unflag, Goto, state, tunnel, TypeOK, OpType, LockDiscipline,
       OpDiscipline, InstanceDiscipline, InService, PlaceDiscipline, PlaceFacts,
       Locked, StartPlaces, EndPlaces, StopPlaces, At
<1>23. ASSUME NEW o \in Ops, publishStopped(o) PROVE PlaceDiscipline'
    BY <1>23 DEF publishStopped, Goto, persisted, tunnel, TypeOK, OpType,
       LockDiscipline, OpDiscipline, InstanceDiscipline, InService, PlaceDiscipline,
       PlaceFacts, Locked, StartPlaces, EndPlaces, StopPlaces, At
<1>24. ASSUME NEW o \in Ops, stopSelf(o) PROVE PlaceDiscipline'
    BY <1>24 DEF stopSelf, Finish, InService, StopSelf, NoOp, persisted, state,
       tunnel, TypeOK, OpType, LockDiscipline, OpDiscipline, InstanceDiscipline,
       PlaceDiscipline, PlaceFacts, Locked, StartPlaces, EndPlaces, StopPlaces, At
<1>25. ASSUME NEW o \in Ops, coldStart(o) PROVE PlaceDiscipline'
    BY <1>25 DEF coldStart, At, Goto, Finish, Lock, InService, StopSelf, May, NoOp,
       tunnel, TypeOK, OpType, LockDiscipline, OpDiscipline, InstanceDiscipline,
       PlaceDiscipline, PlaceFacts, Locked, StartPlaces, EndPlaces, StopPlaces
<1>26. ASSUME NEW o \in Ops, quickStart(o) PROVE PlaceDiscipline'
  <2>1. runLock' \in {o, None}
    BY <1>26 DEF quickStart, May, persisted, state, tunnel, LockDiscipline,
       OpDiscipline, Locked, StartPlaces, EndPlaces, StopPlaces
  <2>2. \A p \in Ops : p # o => PlaceFacts(p)'
    BY <2>1, VpnAssumption DEF LockDiscipline, OpDiscipline, PlaceFacts, At, Locked,
       StartPlaces, EndPlaces, StopPlaces
  <2>3. InService(o) \in Instances
    BY <1>26, KnownInstance DEF quickStart, At
  <2>4. PICK q \in {"establish", "failed"} : Goto(o, q)
    BY <1>26, <2>3 DEF quickStart
  <2>5. ops'[o].pc = q /\ ops'[o].kind = ops[o].kind /\ InService(o)' = InService(o)
    BY <2>4, GotoFields DEF InService
  <2>6. PlaceFacts(o)
    BY DEF PlaceDiscipline
  <2>7. PlaceFacts(o)'
    BY <1>26, <2>3, <2>5, <2>6 DEF PlaceFacts, At, StartPlaces, quickStart, May,
       persisted, state, tunnel
  <2> QED
    BY <2>2, <2>7 DEF PlaceDiscipline
<1>27. ASSUME NEW o \in Ops, coldFailed(o) PROVE PlaceDiscipline'
  <2>1. runLock' \in {o, None}
    BY <1>27 DEF coldFailed, At, StopSelf, state, LockDiscipline, OpDiscipline,
       Locked, StartPlaces, EndPlaces, StopPlaces
  <2>2. \A p \in Ops : p # o => PlaceFacts(p)'
    BY <2>1, VpnAssumption DEF LockDiscipline, OpDiscipline, PlaceFacts, At, Locked,
       StartPlaces, EndPlaces, StopPlaces
  <2>3. InService(o) \in Instances
    BY <1>27, KnownInstance DEF coldFailed, At
  <2>4. PICK q \in {"announce"} : Goto(o, q)
    BY <1>27, <2>3, coldFailedEffect DEF coldFailed
  <2>5. ops'[o].pc = q /\ ops'[o].kind = ops[o].kind /\ InService(o)' = InService(o)
    BY <2>4, GotoFields DEF InService
  <2>6. PlaceFacts(o)
    BY DEF PlaceDiscipline
  <2>7. PlaceFacts(o)'
    BY <1>27, <2>3, <2>5, <2>6, coldFailedEffect DEF PlaceFacts, At, StartPlaces,
       coldFailed, At, StopSelf, state
  <2> QED
    BY <2>2, <2>7 DEF PlaceDiscipline
<1>28. ASSUME NEW i \in Instances, onStartCommand(i) PROVE PlaceDiscipline'
  <2>1. Revived(i) /\ UNCHANGED <<runTime, coreTun, tunOwner>>
    BY <1>28, onStartCommandEffect DEF onStartCommand, state, tunnel
  <2>2. UNCHANGED ops \/ \E o \in Ops : Launch(o, "stop", i) \/ Launch(o, "cold", i)
    BY <1>28, onStartCommandEffect
  <2>3. ASSUME NEW p \in Ops PROVE ops'[p].pc = "wait" \/ ops'[p] = ops[p]
    BY <2>2, LaunchFields
  <2>4. \A p \in Ops : ops[p].pc \in Locked \ {"proxy", "failed"} => InService(p) \in Instances
    BY KnownInstance DEF Locked, StartPlaces, EndPlaces, StopPlaces
  <2>5. ASSUME NEW p \in Ops, ops'[p] = ops[p] PROVE PlaceFacts(p)'
    BY <2>1, <2>4, <2>5 DEF Revived, PlaceDiscipline, PlaceFacts, At, InService,
       Locked, StartPlaces, EndPlaces, StopPlaces
  <2>6. ASSUME NEW p \in Ops, ops'[p].pc = "wait" PROVE PlaceFacts(p)'
    BY <2>6 DEF PlaceFacts, At, StartPlaces
  <2> QED
    BY <2>3, <2>5, <2>6 DEF PlaceDiscipline
<1>29. ASSUME NEW i \in Instances, onDestroy(i) PROVE PlaceDiscipline'
    BY <1>29 DEF onDestroy, InService, MainFree, May, persisted, state, TypeOK,
       OpType, LockDiscipline, OpDiscipline, InstanceDiscipline, PlaceDiscipline,
       PlaceFacts, Locked, StartPlaces, EndPlaces, StopPlaces, At
<1>30. ASSUME NEW i \in Instances, onDestroyEnds(i) PROVE PlaceDiscipline'
  <2>1. /\ inst[i].life = "destroying" /\ UNCHANGED <<coreTun, tunOwner, ops>>
        /\ runTime' => runTime
        /\ \A k \in Instances : inst'[k].tunActive => inst[k].tunActive
    BY <1>30, onDestroyEndsFields
  <2>2. ASSUME NEW p \in Ops PROVE PlaceFacts(p)'
    <3>1. PlaceFacts(p) /\ OpDiscipline(p) /\ ops'[p] = ops[p]
      BY <2>1 DEF PlaceDiscipline, LockDiscipline
    <3>2. CASE ops[p].pc \in {"modules", "startTun", "own", "started", "undo", "commit",
                             "persist", "announce"}
      <4>1. InService(p) \in Instances /\ ops[p].kind \in {"startService", "cold"}
        BY <3>1, <3>2, KnownInstance DEF OpDiscipline, StartPlaces, EndPlaces
      <4>2. inst[InService(p)].life = "alive"
        BY <4>1 DEF InstanceDiscipline
      <4> QED
        BY <2>1, <4>1, <4>2 DEF InstanceDiscipline
    <3>3. CASE ops[p].pc \notin {"modules", "startTun", "own", "started", "undo", "commit",
                                "persist", "announce"}
      <4>1. ops[p].pc \in {"rollback", "stop2", "stop3", "stop4", "after"} =>
               InService(p) \in Instances
        BY KnownInstance
      <4> QED
        BY <2>1, <3>1, <3>3, <4>1 DEF PlaceFacts, At, InService
    <3> QED
      BY <3>2, <3>3
  <2> QED
    BY <2>2 DEF PlaceDiscipline
<1>31. ASSUME NEW i \in Instances, onRevoke(i) PROVE PlaceDiscipline'
    BY <1>31 DEF onRevoke, Launch, Idle, MainFree, May, Event, NoOp, persisted,
       state, tunnel, TypeOK, OpType, LockDiscipline, OpDiscipline,
       InstanceDiscipline, InService, PlaceDiscipline, PlaceFacts, Locked,
       StartPlaces, EndPlaces, StopPlaces, At
<1>32. ASSUME NEW i \in Instances, setAwake(i) PROVE PlaceDiscipline'
    BY <1>32 DEF setAwake, MainFree, May, persisted, state, tunnel, TypeOK, OpType,
       LockDiscipline, OpDiscipline, InstanceDiscipline, InService, PlaceDiscipline,
       PlaceFacts, Locked, StartPlaces, EndPlaces, StopPlaces, At
<1>33. CASE appCalls
    BY <1>33 DEF appCalls, Launch, Idle, May, Event, NoOp, persisted, state, tunnel,
       TypeOK, OpType, LockDiscipline, OpDiscipline, InstanceDiscipline, InService,
       PlaceDiscipline, PlaceFacts, Locked, StartPlaces, EndPlaces, StopPlaces, At
<1>34. CASE tileStart
    BY <1>34 DEF tileStart, May, Event, state, tunnel, TypeOK, OpType,
       LockDiscipline, OpDiscipline, InstanceDiscipline, InService, PlaceDiscipline,
       PlaceFacts, Locked, StartPlaces, EndPlaces, StopPlaces, At
<1>35. CASE tileStop
    BY <1>35 DEF tileStop, Launch, Idle, May, Event, NoOp, state, tunnel, TypeOK,
       OpType, LockDiscipline, OpDiscipline, InstanceDiscipline, InService,
       PlaceDiscipline, PlaceFacts, Locked, StartPlaces, EndPlaces, StopPlaces, At
<1>36. CASE command
    BY <1>36 DEF command, May, Event, state, tunnel, TypeOK, OpType, LockDiscipline,
       OpDiscipline, InstanceDiscipline, InService, PlaceDiscipline, PlaceFacts,
       Locked, StartPlaces, EndPlaces, StopPlaces, At
<1>37. CASE kill
    BY <1>37 DEF kill, May, Event, NoOp, Fresh, Absent, TypeOK, OpType,
       LockDiscipline, OpDiscipline, InstanceDiscipline, InService, PlaceDiscipline,
       PlaceFacts, Locked, StartPlaces, EndPlaces, StopPlaces, At
<1>38. CASE UNCHANGED vars
    BY <1>38 DEF vars, persisted, state, tunnel, TypeOK, OpType, LockDiscipline,
       OpDiscipline, InstanceDiscipline, InService, PlaceDiscipline, PlaceFacts,
       Locked, StartPlaces, EndPlaces, StopPlaces, At
<1> QED
    BY <1>1, <1>2, <1>3, <1>4, <1>5, <1>6, <1>7, <1>8, <1>9, <1>10, <1>11, <1>12,
       <1>13, <1>14, <1>15, <1>16, <1>17, <1>18, <1>19, <1>20, <1>21, <1>22, <1>23,
       <1>24, <1>25, <1>26, <1>27, <1>28, <1>29, <1>30, <1>31, <1>32, <1>33, <1>34,
       <1>35, <1>36, <1>37, <1>38
       DEF Next, Step, Platform, Environment, handleStart, handleStop

\* Nobody else is at a place that needs the lock.
LEMMA HolderAlone ==
    ASSUME TypeOK, LockDiscipline, NEW o \in Ops, ops[o].pc \in Locked \/ runLock = None
    PROVE  \A p \in Ops : p # o => ops[p].pc \notin Locked
BY VpnAssumption DEF TypeOK, LockDiscipline, OpDiscipline

\* The coroutines that answer for a tunnel stay where they are.
TunnelPlacesKept ==
    \A p \in Ops :
       /\ ops[p].pc \in {"own", "stop2", "stop3", "rollback"} => ops'[p].pc = ops[p].pc
       /\ ops[p].pc \in {"modules", "startTun", "own", "undo"} =>
             ops'[p].pc \in {"modules", "startTun", "own", "undo"} /\ ops'[p].i = ops[p].i

USE DEF TunnelPlacesKept

\* A step that touches neither the tunnel nor what is said of it.
LEMMA TunnelKept ==
    ASSUME TypeOK, TunnelDiscipline, UNCHANGED <<coreTun, tunOwner>>, runTime' => runTime,
           SameTunActive,
           \A k \in Instances : inst[k].life = "destroying" /\ inst[k].owned =>
              inst'[k].life = "destroying" /\ inst'[k].owned,
           TunnelPlacesKept
    PROVE  TunnelDiscipline'
<1>1. coreTun' => tunOwner' # None \/ \E p \in Ops : ops'[p].pc = "own"
    BY DEF TunnelDiscipline
<1>2. coreTun' /\ tunOwner' # None =>
         \/ inst'[tunOwner'].tunActive
         \/ \E p \in Ops : ops'[p].pc \in {"stop2", "stop3", "rollback"}
    BY DEF TunnelDiscipline, TypeOK
<1>3. runTime' =>
         \/ coreTun' /\ tunOwner' # None /\ inst'[tunOwner'].tunActive
         \/ \E k \in Instances : inst'[k].life = "destroying" /\ inst'[k].owned
    BY DEF TunnelDiscipline, TypeOK
<1>4. ASSUME NEW k \in Instances, inst'[k].tunActive
      PROVE  \/ tunOwner' = k
             \/ \E p \in Ops : /\ InService(p)' = k
                               /\ ops'[p].pc \in {"modules", "startTun", "own", "undo"}
    BY <1>4 DEF TunnelDiscipline, InService
<1> QED
    BY <1>1, <1>2, <1>3, <1>4 DEF TunnelDiscipline

\* A tunnel has an owner, and what runs has a tunnel.
LEMMA TunnelStep ==
    ASSUME "overtake" \notin Events, TypeOK, TypeOK', LockDiscipline,
           LockDiscipline', InstanceDiscipline, PlaceDiscipline, TunnelDiscipline,
    [Next]_vars
    PROVE  TunnelDiscipline'
<1> USE VpnAssumption
<1>1. ASSUME NEW o \in Ops, establish(o) PROVE TunnelDiscipline'
  <2>1. InService(o) \in Instances /\ ops[o].pc = "establish" /\ PlaceFacts(o)
    BY <1>1, KnownInstance DEF establish, At, PlaceDiscipline
  <2>2. \A p \in Ops : p # o => ops[p].pc \notin Locked
    BY <2>1, HolderAlone DEF Locked, StartPlaces, EndPlaces, StopPlaces
  <2>3. \A k \in Instances : inst[k].tunActive \/ k \in {delegate, tunOwner} => k = InService(o)
    BY <2>1, TheInstance DEF StartPlaces
  <2>4. ~runTime' /\ UNCHANGED <<coreTun, tunOwner>>
    BY <1>1, <2>1, establishEffect DEF PlaceFacts, StartPlaces
  <2>5. \A p \in Ops : (p # o => ops'[p].pc = ops[p].pc) /\ ops'[p].i = ops[p].i
    BY <1>1, establishEffect, GotoFields
  <2>6. CASE SameTunActive
    BY <1>1, <2>1, <2>4, <2>5, <2>6, establishEffect, TunnelKept
  <2>7. CASE /\ Goto(o, "modules")
             /\ \A k \in Instances : inst'[k].tunActive = (inst[k].tunActive \/ k = InService(o))
    <3>1. ops'[o].pc = "modules" /\ InService(o)' = InService(o)
      BY <2>5, <2>7, GotoFields DEF InService
    <3>2. \A k \in Instances : inst'[k].tunActive => k = InService(o)
      BY <2>3, <2>7
    <3>3. coreTun => tunOwner # None /\ inst[tunOwner].tunActive /\ tunOwner \in Instances
      BY <2>1, <2>2 DEF TunnelDiscipline, TypeOK, Locked, StartPlaces, StopPlaces
    <3> QED
      BY <2>4, <2>7, <3>1, <3>2, <3>3 DEF TunnelDiscipline
  <2> QED
    BY <1>1, <2>6, <2>7, establishEffect
<1>2. ASSUME NEW o \in Ops, startModules(o) PROVE TunnelDiscipline'
  <2>1. UNCHANGED <<coreTun, tunOwner>> /\ (runTime' => runTime)
    BY <1>2, startModulesEffect DEF startModules, persisted, state, tunnel
  <2>2. TunnelPlacesKept
    BY <1>2, GotoFields, startModulesEffect DEF startModules, persisted, state, tunnel
  <2> QED
    BY <1>2, <2>1, <2>2, TunnelKept, startModulesEffect
<1>3. ASSUME NEW o \in Ops, startTun(o) PROVE TunnelDiscipline'
  <2>1. InService(o) \in Instances /\ ops[o].pc = "startTun" /\ PlaceFacts(o)
    BY <1>3, KnownInstance DEF startTun, At, PlaceDiscipline
  <2>2. \A p \in Ops : p # o => ops[p].pc \notin Locked
    BY <2>1, HolderAlone DEF Locked, StartPlaces, EndPlaces, StopPlaces
  <2>3. \A k \in Instances : inst[k].tunActive \/ k \in {delegate, tunOwner} => k = InService(o)
    BY <2>1, TheInstance DEF StartPlaces
  <2>4. ~runTime' /\ inst[InService(o)].tunActive /\ UNCHANGED <<inst, tunOwner>>
    BY <1>3, <2>1 DEF startTun, PlaceFacts, StartPlaces, state
  <2>5. (coreTun' => ops'[o].pc = "own") /\ ops'[o].pc \in {"own", "undo"}
    BY <1>3, GotoFields DEF startTun
  <2>6. InService(o)' = InService(o)
    BY <1>3, GotoFields DEF startTun, InService
  <2> QED
    BY <2>1, <2>3, <2>4, <2>5, <2>6 DEF TunnelDiscipline, TypeOK
<1>4. ASSUME NEW o \in Ops, claimTun(o) PROVE TunnelDiscipline'
  <2>1. InService(o) \in Instances /\ ops[o].pc = "own" /\ PlaceFacts(o)
    BY <1>4, KnownInstance DEF claimTun, At, PlaceDiscipline
  <2>2. \A p \in Ops : p # o => ops[p].pc \notin Locked
    BY <2>1, HolderAlone DEF Locked, StartPlaces, EndPlaces, StopPlaces
  <2>3. \A k \in Instances : inst[k].tunActive \/ k \in {delegate, tunOwner} => k = InService(o)
    BY <2>1, TheInstance DEF StartPlaces
  <2>4. /\ tunOwner' = InService(o) /\ UNCHANGED <<inst, coreTun, runTime>>
        /\ inst[InService(o)].tunActive /\ coreTun
    BY <1>4, <2>1 DEF claimTun, PlaceFacts, state
  <2> QED
    BY <2>1, <2>3, <2>4, VpnAssumption DEF TunnelDiscipline
<1>5. ASSUME NEW o \in Ops, undoStart(o) PROVE TunnelDiscipline'
  <2>1. InService(o) \in Instances /\ ops[o].pc = "undo" /\ PlaceFacts(o)
    BY <1>5, KnownInstance DEF undoStart, At, PlaceDiscipline
  <2>2. \A p \in Ops : p # o => ops[p].pc \notin Locked
    BY <2>1, HolderAlone DEF Locked, StartPlaces, EndPlaces, StopPlaces
  <2>3. \A k \in Instances : inst[k].tunActive \/ k \in {delegate, tunOwner} => k = InService(o)
    BY <2>1, TheInstance DEF StartPlaces
  <2>4. ~runTime' /\ UNCHANGED <<coreTun, tunOwner>> /\ ops'[o].pc = "rollback"
    BY <1>5, <2>1, undoStartEffect, GotoFields DEF PlaceFacts, StartPlaces
  <2>5. coreTun => tunOwner # None
    BY <2>1, <2>2 DEF TunnelDiscipline, Locked, StartPlaces
  <2>6. \A k \in Instances : ~inst'[k].tunActive
    BY <1>5, <2>3, undoStartEffect
  <2> QED
    BY <2>4, <2>5, <2>6 DEF TunnelDiscipline
<1>6. ASSUME NEW o \in Ops, rollback(o) PROVE TunnelDiscipline'
  <2>1. InService(o) \in Instances /\ ops[o].pc = "rollback" /\ PlaceFacts(o)
    BY <1>6, KnownInstance DEF rollback, At, PlaceDiscipline
  <2>2. \A p \in Ops : p # o => ops[p].pc \notin Locked
    BY <2>1, HolderAlone DEF Locked, StartPlaces, EndPlaces, StopPlaces
  <2>3. \A k \in Instances : inst[k].tunActive \/ k \in {delegate, tunOwner} => k = InService(o)
    BY <2>1, TheInstance DEF StartPlaces
  <2>4. ~runTime' /\ ~coreTun'
    BY <1>6, <2>1, rollbackEffect DEF PlaceFacts
  <2>5. \A k \in Instances : ~inst'[k].tunActive
    BY <1>6, <2>1, <2>3, rollbackEffect DEF PlaceFacts
  <2> QED
    BY <2>4, <2>5 DEF TunnelDiscipline
<1>7. ASSUME NEW o \in Ops, stopFlags(o) PROVE TunnelDiscipline'
  <2>1. InService(o) \in Instances /\ ops[o].pc = "stop1" /\ PlaceFacts(o)
    BY <1>7, KnownInstance DEF stopFlags, At, PlaceDiscipline
  <2>2. \A p \in Ops : p # o => ops[p].pc \notin Locked
    BY <2>1, HolderAlone DEF Locked, StartPlaces, EndPlaces, StopPlaces
  <2>3. \A k \in Instances : inst[k].tunActive => tunOwner = k
    BY <2>1, <2>2 DEF TunnelDiscipline, Locked, StartPlaces
  <2>4. coreTun => tunOwner \in Instances /\ tunOwner # None /\ inst[tunOwner].tunActive
    BY <2>1, <2>2 DEF TunnelDiscipline, TypeOK, Locked, StartPlaces, StopPlaces
  <2>5. ~runTime' /\ UNCHANGED <<coreTun, tunOwner>>
    BY <1>7, <2>1, stopFlagsEffect
  <2>6. coreTun => inst'[tunOwner].tunActive \/ ops'[o].pc = "stop2"
    BY <1>7, <2>1, <2>4, stopFlagsEffect, GotoFields
  <2>7. \A k \in Instances : inst'[k].tunActive => inst[k].tunActive
    BY <1>7, <2>1, stopFlagsEffect
  <2> QED
    BY <2>3, <2>4, <2>5, <2>6, <2>7 DEF TunnelDiscipline
<1>8. ASSUME NEW o \in Ops, stopPersist(o) PROVE TunnelDiscipline'
  <2>1. InService(o) \in Instances /\ ops[o].pc = "stop2" /\ PlaceFacts(o)
    BY <1>8, KnownInstance DEF stopPersist, At, PlaceDiscipline
  <2>2. \A p \in Ops : p # o => ops[p].pc \notin Locked
    BY <2>1, HolderAlone DEF Locked, StartPlaces, EndPlaces, StopPlaces
  <2>3. \A k \in Instances : inst'[k].tunActive => tunOwner = k
    BY <1>8, <2>1, <2>2, stopPersistEffect DEF TunnelDiscipline, Locked, StartPlaces
  <2>4. coreTun => tunOwner # None
    BY <2>1, <2>2 DEF TunnelDiscipline, Locked, StartPlaces
  <2>5. ~runTime' /\ UNCHANGED <<coreTun, tunOwner>> /\ ops'[o].pc = "stop3"
    BY <1>8, <2>1, stopPersistEffect, GotoFields DEF PlaceFacts
  <2> QED
    BY <2>3, <2>4, <2>5 DEF TunnelDiscipline
<1>9. ASSUME NEW o \in Ops, stopCore(o) PROVE TunnelDiscipline'
  <2>1. InService(o) \in Instances /\ ops[o].pc = "stop3" /\ PlaceFacts(o)
    BY <1>9, KnownInstance DEF stopCore, At, PlaceDiscipline
  <2>2. \A p \in Ops : p # o => ops[p].pc \notin Locked
    BY <2>1, HolderAlone DEF Locked, StartPlaces, EndPlaces, StopPlaces
  <2>3. \A k \in Instances : inst[k].tunActive => tunOwner = k /\ k # InService(o)
    BY <2>1, <2>2 DEF TunnelDiscipline, PlaceFacts, Locked, StartPlaces
  <2>4. \A k \in Instances : inst'[k].tunActive => tunOwner' = k
    BY <1>9, <2>3 DEF stopCore
  <2>5. ~runTime' /\ ~coreTun'
    BY <1>9, <2>1 DEF stopCore, state, PlaceFacts
  <2> QED
    BY <2>4, <2>5 DEF TunnelDiscipline
<1>10. ASSUME NEW o \in Ops, stopModules(o) PROVE TunnelDiscipline'
  <2>1. UNCHANGED <<coreTun, tunOwner>> /\ (runTime' => runTime)
    BY <1>10, stopModulesEffect DEF stopModules, persisted, tunnel
  <2>2. TunnelPlacesKept
    BY <1>10, GotoFields, stopModulesEffect DEF stopModules, persisted, tunnel
  <2> QED
    BY <1>10, <2>1, <2>2, TunnelKept, stopModulesEffect
<1>11. ASSUME NEW o \in Ops, startService(o) PROVE TunnelDiscipline'
  <2>1. UNCHANGED <<coreTun, tunOwner>> /\ (runTime' => runTime)
    BY <1>11 DEF startService, At, Lock, persisted, state, tunnel
  <2>2. TunnelPlacesKept
    BY <1>11, FinishFields, GotoFields DEF startService, At, Lock, persisted, state,
       tunnel
  <2> QED
    BY <1>11, <2>1, <2>2, TunnelKept DEF startService
<1>12. ASSUME NEW o \in Ops, bound(o) PROVE TunnelDiscipline'
  <2>1. UNCHANGED <<runTime, coreTun, tunOwner>> /\ ops[o].pc = "proxy"
    BY <1>12 DEF bound, At, tunnel
  <2>2. CASE UNCHANGED <<delegate, inst>> /\ Goto(o, "failed")
    BY <2>1, <2>2, GotoFields, TunnelKept
  <2>3. ASSUME NEW j \in Instances, BoundTo(o, j) PROVE TunnelDiscipline'
    <3>1. \A p \in Ops : p # o => ops'[p] = ops[p]
      BY <2>3 DEF BoundTo, TypeOK, OpType
    <3> QED
      BY <2>1, <2>3, <3>1, TunnelKept DEF BoundTo, Revived
  <2> QED
    BY <1>12, <2>2, <2>3, boundEffect
<1>13. ASSUME NEW o \in Ops, startInTime(o) PROVE TunnelDiscipline'
  <2>1. UNCHANGED <<coreTun, tunOwner>> /\ (runTime' => runTime)
    BY <1>13 DEF startInTime, At, persisted, state, tunnel
  <2>2. TunnelPlacesKept
    BY <1>13, GotoFields DEF startInTime, At, persisted, state, tunnel
  <2> QED
    BY <1>13, <2>1, <2>2, TunnelKept DEF startInTime
<1>14. ASSUME NEW o \in Ops, startFailed(o) PROVE TunnelDiscipline'
  <2>1. ops[o].pc = "failed" /\ ~coreTun' /\ runTime' = runTime
    BY <1>14 DEF startFailed, At, state
  <2>2. ~runTime
    BY <2>1 DEF PlaceDiscipline, PlaceFacts, StartPlaces
  <2>3. ASSUME NEW p \in Ops,
     ops[p].pc \in {"modules", "startTun", "own", "undo"} PROVE FALSE
    BY <2>1, <2>3, HolderAlone DEF Locked, StartPlaces
  <2>4. UNCHANGED tunOwner /\ \A k \in Instances : inst'[k].tunActive = inst[k].tunActive
    BY <1>14 DEF startFailed
  <2> QED
    BY <2>1, <2>2, <2>3, <2>4 DEF TunnelDiscipline
<1>15. ASSUME NEW o \in Ops, commit(o) PROVE TunnelDiscipline'
  <2>1. InService(o) \in Instances /\ ops[o].pc = "commit" /\ PlaceFacts(o)
    BY <1>15, KnownInstance DEF commit, At, PlaceDiscipline
  <2>2. \A p \in Ops : p # o => ops[p].pc \notin Locked
    BY <2>1, HolderAlone DEF Locked, StartPlaces, EndPlaces, StopPlaces
  <2>3. \A k \in Instances : inst[k].tunActive \/ k \in {delegate, tunOwner} => k = InService(o)
    BY <2>1, TheInstance DEF StartPlaces
  <2>4. /\ coreTun' /\ tunOwner' = InService(o) /\ inst'[InService(o)].tunActive
        /\ UNCHANGED inst
    BY <1>15, <2>1 DEF commit, PlaceFacts, tunnel
  <2> QED
    BY <2>1, <2>3, <2>4, VpnAssumption DEF TunnelDiscipline
<1>16. ASSUME NEW o \in Ops, persist(o) PROVE TunnelDiscipline'
  <2>1. UNCHANGED <<coreTun, tunOwner>> /\ (runTime' => runTime)
    BY <1>16 DEF persist, state, tunnel
  <2>2. TunnelPlacesKept
    BY <1>16, GotoFields DEF persist, state, tunnel
  <2> QED
    BY <1>16, <2>1, <2>2, TunnelKept DEF persist
<1>17. ASSUME NEW o \in Ops, announce(o) PROVE TunnelDiscipline'
  <2>1. UNCHANGED <<coreTun, tunOwner>> /\ (runTime' => runTime)
    BY <1>17 DEF announce, Unlock, persisted, tunnel
  <2>2. TunnelPlacesKept
    BY <1>17, FinishFields DEF announce, Unlock, persisted, tunnel
  <2> QED
    BY <1>17, <2>1, <2>2, TunnelKept DEF announce
<1>18. ASSUME NEW o \in Ops, stopService(o) PROVE TunnelDiscipline'
  <2>1. UNCHANGED <<coreTun, tunOwner, inst>> /\ (runTime' => runTime)
    BY <1>18 DEF stopService, tunnel
  <2>2. TunnelPlacesKept
    BY <1>18, FinishFields DEF stopService, At, TypeOK, OpType
  <2> QED
    BY <2>1, <2>2, TunnelKept
<1>19. ASSUME NEW o \in Ops, stopServiceEnd(o) PROVE TunnelDiscipline'
  <2>1. UNCHANGED <<coreTun, tunOwner>> /\ (runTime' => runTime)
    BY <1>19 DEF stopServiceEnd, At, Unlock, tunnel
  <2>2. TunnelPlacesKept
    BY <1>19, FinishFields DEF stopServiceEnd, At, Unlock, tunnel
  <2> QED
    BY <1>19, <2>1, <2>2, TunnelKept DEF stopServiceEnd
<1>20. ASSUME NEW o \in Ops, stopCommand(o) PROVE TunnelDiscipline'
  <2>1. UNCHANGED <<coreTun, tunOwner>> /\ (runTime' => runTime)
    BY <1>20 DEF stopCommand, Lock, persisted, state, tunnel
  <2>2. TunnelPlacesKept
    BY <1>20, GotoFields DEF stopCommand, Lock, persisted, state, tunnel
  <2> QED
    BY <1>20, <2>1, <2>2, TunnelKept DEF stopCommand
<1>21. ASSUME NEW o \in Ops, stopUnlocks(o) PROVE TunnelDiscipline'
  <2>1. UNCHANGED <<coreTun, tunOwner>> /\ (runTime' => runTime)
    BY <1>21 DEF stopUnlocks, Unlock, persisted, state, tunnel
  <2>2. TunnelPlacesKept
    BY <1>21, GotoFields DEF stopUnlocks, Unlock, persisted, state, tunnel
  <2> QED
    BY <1>21, <2>1, <2>2, TunnelKept DEF stopUnlocks
<1>22. ASSUME NEW o \in Ops, unflag(o) PROVE TunnelDiscipline'
  <2>1. UNCHANGED <<coreTun, tunOwner>> /\ (runTime' => runTime)
    BY <1>22 DEF unflag, state, tunnel
  <2>2. TunnelPlacesKept
    BY <1>22, GotoFields DEF unflag, state, tunnel
  <2> QED
    BY <1>22, <2>1, <2>2, TunnelKept DEF unflag
<1>23. ASSUME NEW o \in Ops, publishStopped(o) PROVE TunnelDiscipline'
  <2>1. UNCHANGED <<coreTun, tunOwner>> /\ (runTime' => runTime)
    BY <1>23 DEF publishStopped, persisted, tunnel
  <2>2. TunnelPlacesKept
    BY <1>23, GotoFields DEF publishStopped, persisted, tunnel
  <2> QED
    BY <1>23, <2>1, <2>2, TunnelKept DEF publishStopped
<1>24. ASSUME NEW o \in Ops, stopSelf(o) PROVE TunnelDiscipline'
  <2>1. UNCHANGED <<coreTun, tunOwner, runTime>> /\ inst' \in {inst, StopSelf(inst, InService(o))}
    BY <1>24 DEF stopSelf, state, tunnel
  <2>2. TunnelPlacesKept
    BY <1>24, FinishFields DEF stopSelf, At
  <2> QED
    BY <2>1, <2>2, StopSelfEffect, TunnelKept
<1>25. ASSUME NEW o \in Ops, coldStart(o) PROVE TunnelDiscipline'
  <2>1. UNCHANGED <<coreTun, tunOwner, runTime>> /\ inst' \in {inst, StopSelf(inst, InService(o))}
    BY <1>25 DEF coldStart, state, tunnel
  <2>2. TunnelPlacesKept
    BY <1>25, FinishFields, GotoFields DEF coldStart, At
  <2> QED
    BY <2>1, <2>2, StopSelfEffect, TunnelKept
<1>26. ASSUME NEW o \in Ops, quickStart(o) PROVE TunnelDiscipline'
  <2>1. UNCHANGED <<coreTun, tunOwner>> /\ (runTime' => runTime)
    BY <1>26 DEF quickStart, persisted, state, tunnel
  <2>2. TunnelPlacesKept
    BY <1>26, GotoFields DEF quickStart, persisted, state, tunnel
  <2> QED
    BY <1>26, <2>1, <2>2, TunnelKept DEF quickStart
<1>27. ASSUME NEW o \in Ops, coldFailed(o) PROVE TunnelDiscipline'
  <2>1. ops[o].pc = "failed" /\ ~coreTun' /\ runTime' = runTime
    BY <1>27 DEF coldFailed, At, state
  <2>2. ~runTime
    BY <2>1 DEF PlaceDiscipline, PlaceFacts, StartPlaces
  <2>3. ASSUME NEW p \in Ops,
     ops[p].pc \in {"modules", "startTun", "own", "undo"} PROVE FALSE
    BY <2>1, <2>3, HolderAlone DEF Locked, StartPlaces
  <2>4. UNCHANGED tunOwner /\ \A k \in Instances : inst'[k].tunActive = inst[k].tunActive
    BY <1>27, coldFailedEffect
  <2> QED
    BY <2>1, <2>2, <2>3, <2>4 DEF TunnelDiscipline
<1>28. ASSUME NEW i \in Instances, onStartCommand(i) PROVE TunnelDiscipline'
  <2>1. Revived(i) /\ UNCHANGED <<runTime, coreTun, tunOwner>>
    BY <1>28, onStartCommandEffect DEF onStartCommand, state, tunnel
  <2>2. UNCHANGED ops \/ \E o \in Ops : Idle(o) /\ (Launch(o, "stop", i) \/ Launch(o, "cold", i))
    BY <1>28, onStartCommandEffect
  <2>3. TunnelPlacesKept
    BY <2>2, LaunchFields DEF Idle, NoOp
  <2> QED
    BY <2>1, <2>3, TunnelKept DEF Revived
<1>29. ASSUME NEW i \in Instances, onDestroy(i) PROVE TunnelDiscipline'
  <2>1. /\ inst[i].life = "alive" /\ \A k \in Instances : inst[k].life # "destroying"
        /\ delegate # i /\ \A o \in Ops : InService(o) = i => ops[o].kind # "cold"
    BY <1>29 DEF onDestroy, MainFree, May
  <2>2. \A k \in Instances : inst[k].life = "alive" => k = i
    BY <2>1 DEF InstanceDiscipline
  <2>3. tunOwner \in {i, None}
    BY <2>2 DEF InstanceDiscipline, TypeOK
  <2>4. ASSUME NEW o \in Ops, ops[o].pc = "own" PROVE FALSE
    <3>1. /\ OpDiscipline(o) /\ "own" \in StartPlaces /\ "own" \in Locked
          /\ InService(o) \in Instances
      BY <2>4, KnownInstance DEF LockDiscipline, Locked, StartPlaces
    <3>2. inst[InService(o)].life = "alive"
      BY <2>4, <3>1, TheInstance
    <3> QED
      BY <2>1, <2>2, <2>4, <3>1, <3>2, VpnAssumption DEF OpDiscipline, InService
  <2>5. ~coreTun' /\ runTime' = runTime
    BY <1>29, <2>3, <2>4, VpnAssumption DEF onDestroy, TunnelDiscipline, state
  <2>6. runTime => tunOwner = i
    BY <2>1, <2>3 DEF TunnelDiscipline
  <2>7. inst'[i].life = "destroying" /\ inst'[i].owned = (tunOwner = i)
    BY <1>29, onDestroyEffect
  <2>8. \A k \in Instances : ~inst'[k].tunActive
    BY <1>29, <2>2, onDestroyEffect DEF InstanceDiscipline
  <2> QED
    BY <2>5, <2>6, <2>7, <2>8 DEF TunnelDiscipline
<1>30. ASSUME NEW i \in Instances, onDestroyEnds(i) PROVE TunnelDiscipline'
  <2>1. inst[i].life = "destroying"
    BY <1>30, onDestroyEndsFields
  <2>2. \A k \in Instances : inst[k].life = "destroying" => k = i
    BY <2>1 DEF InstanceDiscipline
  <2>3. UNCHANGED <<coreTun, tunOwner, ops>> /\ (runTime' => runTime /\ ~inst[i].owned)
    BY <1>30, <2>1, onDestroyEndsFields
  <2>4. tunOwner # None => tunOwner \in Instances /\ tunOwner # i
    BY <2>1 DEF InstanceDiscipline, TypeOK
  <2>5. tunOwner # None => inst'[tunOwner] = inst[tunOwner]
    BY <1>30, <2>1, <2>4, onDestroyEndsFields
  <2>6. \A k \in Instances : inst'[k].tunActive => inst[k].tunActive
    BY <1>30, onDestroyEndsFields
  <2> QED
    BY <2>2, <2>3, <2>5, <2>6 DEF TunnelDiscipline, InService
<1>31. ASSUME NEW i \in Instances, onRevoke(i) PROVE TunnelDiscipline'
  <2>1. TunnelPlacesKept
    BY <1>31, onRevokeEffect, LaunchFields DEF Idle, NoOp
  <2> QED
    BY <1>31, <2>1, onRevokeEffect, TunnelKept
<1>32. ASSUME NEW i \in Instances, setAwake(i) PROVE TunnelDiscipline'
    BY <1>32, setAwakeEffect, TunnelKept
<1>33. CASE appCalls
  <2>1. UNCHANGED <<coreTun, tunOwner, runTime, inst>>
    BY <1>33 DEF appCalls, state, tunnel
  <2>2. TunnelPlacesKept
    BY <1>33, LaunchFields DEF appCalls, Idle, NoOp
  <2> QED
    BY <2>1, <2>2, TunnelKept
<1>34. CASE tileStart
  <2>1. UNCHANGED <<coreTun, tunOwner, runTime, inst, ops>>
    BY <1>34 DEF tileStart, state, tunnel
  <2> QED
    BY <2>1, TunnelKept
<1>35. CASE tileStop
  <2>1. UNCHANGED <<coreTun, tunOwner, runTime, inst>>
    BY <1>35 DEF tileStop, state, tunnel
  <2>2. TunnelPlacesKept
    BY <1>35, LaunchFields DEF tileStop, Idle, NoOp
  <2> QED
    BY <2>1, <2>2, TunnelKept
<1>36. CASE command
  <2>1. UNCHANGED <<coreTun, tunOwner, runTime, inst, ops>>
    BY <1>36 DEF command, state, tunnel
  <2> QED
    BY <2>1, TunnelKept
<1>37. CASE kill
    BY <1>37, AbsentFields DEF kill, TunnelDiscipline
<1>38. CASE UNCHANGED vars
  <2>1. UNCHANGED <<coreTun, tunOwner, runTime, inst, ops>>
    BY <1>38 DEF vars, state, tunnel
  <2> QED
    BY <2>1, TunnelKept
<1> QED
    BY <1>1, <1>2, <1>3, <1>4, <1>5, <1>6, <1>7, <1>8, <1>9, <1>10, <1>11, <1>12,
       <1>13, <1>14, <1>15, <1>16, <1>17, <1>18, <1>19, <1>20, <1>21, <1>22, <1>23,
       <1>24, <1>25, <1>26, <1>27, <1>28, <1>29, <1>30, <1>31, <1>32, <1>33, <1>34,
       <1>35, <1>36, <1>37, <1>38
       DEF Next, Step, Platform, Environment, handleStart, handleStop

\* The coroutines about to give a wake lock back stay where they are.
TeardownsKept ==
    \A p \in Ops : ops[p].pc \in {"stop2", "rollback"} =>
       ops'[p].pc = ops[p].pc /\ ops'[p].i = ops[p].i

USE DEF TeardownsKept

\* A teardown that has begun, or was never needed, is not disturbed.
LEMMA WakeKept ==
    ASSUME WakeLockDiscipline,
           \A k \in Instances :
              inst'[k].wakeLock /\ ~inst'[k].tunActive =>
                 inst[k].wakeLock /\ ~inst[k].tunActive,
           TeardownsKept
    PROVE  WakeLockDiscipline'
BY DEF WakeLockDiscipline, InService

\* No wake lock outlives its tunnel, but for the teardown under way.
LEMMA WakeStep ==
    ASSUME "overtake" \notin Events, TypeOK, TypeOK', LockDiscipline,
           LockDiscipline', InstanceDiscipline, PlaceDiscipline, WakeLockDiscipline,
    [Next]_vars
    PROVE  WakeLockDiscipline'
<1> USE VpnAssumption
<1>1. ASSUME NEW o \in Ops, establish(o) PROVE WakeLockDiscipline'
  <2>1. InService(o) \in Instances /\ ops[o].pc \notin {"stop2", "rollback"} /\ PlaceFacts(o)
    BY <1>1, KnownInstance DEF establish, PlaceDiscipline
  <2>3. TeardownsKept
    BY <1>1, <2>1, establishEffect, GotoFields
  <2> QED
    BY <1>1, <2>1, <2>3, establishEffect, WakeKept DEF establish, PlaceFacts
<1>2. ASSUME NEW o \in Ops, startModules(o) PROVE WakeLockDiscipline'
  <2>1. InService(o) \in Instances /\ ops[o].pc \notin {"stop2", "rollback"} /\ PlaceFacts(o)
    BY <1>2, KnownInstance DEF startModules, PlaceDiscipline
  <2>3. TeardownsKept
    BY <1>2, <2>1, startModulesEffect, GotoFields
  <2> QED
    BY <1>2, <2>1, <2>3, startModulesEffect, WakeKept DEF startModules, PlaceFacts
<1>3. ASSUME NEW o \in Ops, startTun(o) PROVE WakeLockDiscipline'
  <2>1. UNCHANGED inst
    BY <1>3 DEF startTun
  <2>2. TeardownsKept
    BY <1>3, GotoFields, FinishFields, LaunchFields DEF startTun
  <2> QED
    BY <2>1, <2>2, WakeKept
<1>4. ASSUME NEW o \in Ops, claimTun(o) PROVE WakeLockDiscipline'
  <2>1. UNCHANGED inst
    BY <1>4 DEF claimTun
  <2>2. TeardownsKept
    BY <1>4, GotoFields, FinishFields, LaunchFields DEF claimTun
  <2> QED
    BY <2>1, <2>2, WakeKept
<1>5. ASSUME NEW o \in Ops, undoStart(o) PROVE WakeLockDiscipline'
  <2>1. InService(o) \in Instances /\ ops[o].pc \in {"undo", "stop1"}
    BY <1>5, KnownInstance DEF undoStart
  <2>3. \A p \in Ops : ops[p].pc \notin {"stop2", "rollback"}
    BY <2>1, HolderAlone DEF Locked, StartPlaces, StopPlaces
  <2>4. \A k \in Instances : inst[k].wakeLock => inst[k].tunActive
    BY <2>3 DEF WakeLockDiscipline
  <2>5. inst[InService(o)].tunActive => ops'[o].pc \in {"stop2", "rollback"} /\ ops'[o].i = ops[o].i
    BY <1>5, <2>1, undoStartEffect, GotoFields
  <2>6. /\ SameWakeLock
        /\ \A k \in Instances : inst'[k].tunActive = (inst[k].tunActive /\ k # InService(o))
    BY <1>5, <2>1, undoStartEffect
  <2> QED
    BY <2>1, <2>4, <2>5, <2>6 DEF WakeLockDiscipline, InService
<1>6. ASSUME NEW o \in Ops, rollback(o) PROVE WakeLockDiscipline'
  <2>1. \A p \in Ops : p # o => ops[p].pc \notin {"stop2", "rollback"}
    BY <1>6, HolderAlone DEF rollback, Locked, StartPlaces, StopPlaces
  <2> QED
    BY <1>6, <2>1, rollbackEffect DEF WakeLockDiscipline
<1>7. ASSUME NEW o \in Ops, stopFlags(o) PROVE WakeLockDiscipline'
  <2>1. InService(o) \in Instances /\ ops[o].pc \in {"undo", "stop1"}
    BY <1>7, KnownInstance DEF stopFlags
  <2>3. \A p \in Ops : ops[p].pc \notin {"stop2", "rollback"}
    BY <2>1, HolderAlone DEF Locked, StartPlaces, StopPlaces
  <2>4. \A k \in Instances : inst[k].wakeLock => inst[k].tunActive
    BY <2>3 DEF WakeLockDiscipline
  <2>5. inst[InService(o)].tunActive => ops'[o].pc \in {"stop2", "rollback"} /\ ops'[o].i = ops[o].i
    BY <1>7, <2>1, stopFlagsEffect, GotoFields
  <2>6. /\ SameWakeLock
        /\ \A k \in Instances : inst'[k].tunActive = (inst[k].tunActive /\ k # InService(o))
    BY <1>7, <2>1, stopFlagsEffect
  <2> QED
    BY <2>1, <2>4, <2>5, <2>6 DEF WakeLockDiscipline, InService
<1>8. ASSUME NEW o \in Ops, stopPersist(o) PROVE WakeLockDiscipline'
  <2>1. \A p \in Ops : p # o => ops[p].pc \notin {"stop2", "rollback"}
    BY <1>8, HolderAlone DEF stopPersist, Locked, StartPlaces, StopPlaces
  <2> QED
    BY <1>8, <2>1, stopPersistEffect DEF WakeLockDiscipline
<1>9. ASSUME NEW o \in Ops, stopCore(o) PROVE WakeLockDiscipline'
  <2>1. UNCHANGED inst
    BY <1>9 DEF stopCore
  <2>2. TeardownsKept
    BY <1>9, GotoFields, FinishFields, LaunchFields DEF stopCore
  <2> QED
    BY <2>1, <2>2, WakeKept
<1>10. ASSUME NEW o \in Ops, stopModules(o) PROVE WakeLockDiscipline'
  <2>1. InService(o) \in Instances /\ ops[o].pc \notin {"stop2", "rollback"} /\ PlaceFacts(o)
    BY <1>10, KnownInstance DEF stopModules, PlaceDiscipline
  <2>3. TeardownsKept
    BY <1>10, <2>1, stopModulesEffect, GotoFields
  <2> QED
    BY <1>10, <2>1, <2>3, stopModulesEffect, WakeKept DEF stopModules, PlaceFacts
<1>11. ASSUME NEW o \in Ops, startService(o) PROVE WakeLockDiscipline'
  <2>1. UNCHANGED inst
    BY <1>11 DEF startService
  <2>2. TeardownsKept
    BY <1>11, GotoFields, FinishFields, LaunchFields DEF startService, At, NoOp
  <2> QED
    BY <2>1, <2>2, WakeKept
<1>12. ASSUME NEW o \in Ops, bound(o) PROVE WakeLockDiscipline'
  <2>1. ops[o].pc = "proxy"
    BY <1>12 DEF bound, At
  <2>2. CASE UNCHANGED <<delegate, inst>> /\ Goto(o, "failed")
    BY <2>1, <2>2, GotoFields, WakeKept
  <2>3. ASSUME NEW j \in Instances, BoundTo(o, j) PROVE WakeLockDiscipline'
    <3>1. \A p \in Ops : p # o => ops'[p].pc = ops[p].pc /\ ops'[p].i = ops[p].i
      BY <2>3 DEF BoundTo, TypeOK, OpType
    <3> QED
      BY <2>1, <2>3, <3>1, WakeKept DEF BoundTo, Revived
  <2> QED
    BY <1>12, <2>2, <2>3, boundEffect
<1>13. ASSUME NEW o \in Ops, startInTime(o) PROVE WakeLockDiscipline'
  <2>1. UNCHANGED inst
    BY <1>13 DEF startInTime
  <2>2. TeardownsKept
    BY <1>13, GotoFields, FinishFields, LaunchFields DEF startInTime, At
  <2> QED
    BY <2>1, <2>2, WakeKept
<1>14. ASSUME NEW o \in Ops, startFailed(o) PROVE WakeLockDiscipline'
  <2>1. UNCHANGED inst
    BY <1>14 DEF startFailed
  <2>2. TeardownsKept
    BY <1>14, GotoFields, FinishFields, LaunchFields DEF startFailed, At, NoOp
  <2> QED
    BY <2>1, <2>2, WakeKept
<1>15. ASSUME NEW o \in Ops, commit(o) PROVE WakeLockDiscipline'
  <2>1. UNCHANGED inst
    BY <1>15 DEF commit
  <2>2. TeardownsKept
    BY <1>15, GotoFields, FinishFields, LaunchFields DEF commit
  <2> QED
    BY <2>1, <2>2, WakeKept
<1>16. ASSUME NEW o \in Ops, persist(o) PROVE WakeLockDiscipline'
  <2>1. UNCHANGED inst
    BY <1>16 DEF persist
  <2>2. TeardownsKept
    BY <1>16, GotoFields, FinishFields, LaunchFields DEF persist
  <2> QED
    BY <2>1, <2>2, WakeKept
<1>17. ASSUME NEW o \in Ops, announce(o) PROVE WakeLockDiscipline'
  <2>1. UNCHANGED inst
    BY <1>17 DEF announce
  <2>2. TeardownsKept
    BY <1>17, GotoFields, FinishFields, LaunchFields DEF announce, NoOp
  <2> QED
    BY <2>1, <2>2, WakeKept
<1>18. ASSUME NEW o \in Ops, stopService(o) PROVE WakeLockDiscipline'
  <2>1. UNCHANGED inst
    BY <1>18 DEF stopService
  <2>2. TeardownsKept
    BY <1>18, GotoFields, FinishFields, LaunchFields DEF stopService, At, TypeOK,
       OpType
  <2> QED
    BY <2>1, <2>2, WakeKept
<1>19. ASSUME NEW o \in Ops, stopServiceEnd(o) PROVE WakeLockDiscipline'
  <2>1. UNCHANGED inst
    BY <1>19 DEF stopServiceEnd
  <2>2. TeardownsKept
    BY <1>19, GotoFields, FinishFields, LaunchFields DEF stopServiceEnd, At, NoOp
  <2> QED
    BY <2>1, <2>2, WakeKept
<1>20. ASSUME NEW o \in Ops, stopCommand(o) PROVE WakeLockDiscipline'
  <2>1. UNCHANGED inst
    BY <1>20 DEF stopCommand
  <2>2. TeardownsKept
    BY <1>20, GotoFields, FinishFields, LaunchFields DEF stopCommand
  <2> QED
    BY <2>1, <2>2, WakeKept
<1>21. ASSUME NEW o \in Ops, stopUnlocks(o) PROVE WakeLockDiscipline'
  <2>1. UNCHANGED inst
    BY <1>21 DEF stopUnlocks
  <2>2. TeardownsKept
    BY <1>21, GotoFields, FinishFields, LaunchFields DEF stopUnlocks
  <2> QED
    BY <2>1, <2>2, WakeKept
<1>22. ASSUME NEW o \in Ops, unflag(o) PROVE WakeLockDiscipline'
  <2>1. UNCHANGED inst
    BY <1>22 DEF unflag
  <2>2. TeardownsKept
    BY <1>22, GotoFields, FinishFields, LaunchFields DEF unflag
  <2> QED
    BY <2>1, <2>2, WakeKept
<1>23. ASSUME NEW o \in Ops, publishStopped(o) PROVE WakeLockDiscipline'
  <2>1. UNCHANGED inst
    BY <1>23 DEF publishStopped
  <2>2. TeardownsKept
    BY <1>23, GotoFields, FinishFields, LaunchFields DEF publishStopped
  <2> QED
    BY <2>1, <2>2, WakeKept
<1>24. ASSUME NEW o \in Ops, stopSelf(o) PROVE WakeLockDiscipline'
  <2>1. inst' \in {inst, StopSelf(inst, InService(o))}
    BY <1>24 DEF stopSelf
  <2>2. TeardownsKept
    BY <1>24, GotoFields, FinishFields DEF stopSelf, At
  <2> QED
    BY <2>1, <2>2, StopSelfEffect, WakeKept
<1>25. ASSUME NEW o \in Ops, coldStart(o) PROVE WakeLockDiscipline'
  <2>1. inst' \in {inst, StopSelf(inst, InService(o))}
    BY <1>25 DEF coldStart
  <2>2. TeardownsKept
    BY <1>25, GotoFields, FinishFields DEF coldStart, At
  <2> QED
    BY <2>1, <2>2, StopSelfEffect, WakeKept
<1>26. ASSUME NEW o \in Ops, quickStart(o) PROVE WakeLockDiscipline'
  <2>1. UNCHANGED inst
    BY <1>26 DEF quickStart
  <2>2. TeardownsKept
    BY <1>26, GotoFields, FinishFields, LaunchFields DEF quickStart
  <2> QED
    BY <2>1, <2>2, WakeKept
<1>27. ASSUME NEW o \in Ops, coldFailed(o) PROVE WakeLockDiscipline'
  <2>1. TeardownsKept
    BY <1>27, coldFailedEffect, GotoFields DEF coldFailed, At
  <2> QED
    BY <1>27, <2>1, coldFailedEffect, WakeKept
<1>28. ASSUME NEW i \in Instances, onStartCommand(i) PROVE WakeLockDiscipline'
  <2>1. Revived(i)
    BY <1>28, onStartCommandEffect
  <2>2. UNCHANGED ops \/ \E o \in Ops : Idle(o) /\ (Launch(o, "stop", i) \/ Launch(o, "cold", i))
    BY <1>28, onStartCommandEffect
  <2>3. TeardownsKept
    BY <2>2, LaunchFields DEF Idle, NoOp
  <2> QED
    BY <2>1, <2>3, WakeKept DEF Revived
<1>29. ASSUME NEW i \in Instances, onDestroy(i) PROVE WakeLockDiscipline'
    BY <1>29, onDestroyEffect, WakeKept
<1>30. ASSUME NEW i \in Instances, onDestroyEnds(i) PROVE WakeLockDiscipline'
  <2>1. UNCHANGED ops /\ \A k \in Instances : k # i => inst'[k] = inst[k]
    BY <1>30, onDestroyEndsFields
  <2>2. ~inst'[i].wakeLock
    BY <1>30, onDestroyEndsFields DEF InstanceDiscipline
  <2> QED
    BY <2>1, <2>2, WakeKept
<1>31. ASSUME NEW i \in Instances, onRevoke(i) PROVE WakeLockDiscipline'
  <2>1. TeardownsKept
    BY <1>31, onRevokeEffect, LaunchFields DEF Idle, NoOp
  <2> QED
    BY <1>31, <2>1, onRevokeEffect, WakeKept
<1>32. ASSUME NEW i \in Instances, setAwake(i) PROVE WakeLockDiscipline'
    BY <1>32, setAwakeEffect, WakeKept
<1>33. CASE appCalls
  <2>1. UNCHANGED inst
    BY <1>33 DEF appCalls
  <2>2. TeardownsKept
    BY <1>33, GotoFields, FinishFields, LaunchFields DEF appCalls, Idle, NoOp
  <2> QED
    BY <2>1, <2>2, WakeKept
<1>34. CASE tileStart
    BY <1>34, WakeKept DEF tileStart
<1>35. CASE tileStop
  <2>1. UNCHANGED inst
    BY <1>35 DEF tileStop
  <2>2. TeardownsKept
    BY <1>35, GotoFields, FinishFields, LaunchFields DEF tileStop, Idle, NoOp
  <2> QED
    BY <2>1, <2>2, WakeKept
<1>36. CASE command
    BY <1>36, WakeKept DEF command
<1>37. CASE kill
    BY <1>37, AbsentFields DEF kill, WakeLockDiscipline
<1>38. CASE UNCHANGED vars
    BY <1>38, WakeKept DEF vars
<1> QED
    BY <1>1, <1>2, <1>3, <1>4, <1>5, <1>6, <1>7, <1>8, <1>9, <1>10, <1>11, <1>12,
       <1>13, <1>14, <1>15, <1>16, <1>17, <1>18, <1>19, <1>20, <1>21, <1>22, <1>23,
       <1>24, <1>25, <1>26, <1>27, <1>28, <1>29, <1>30, <1>31, <1>32, <1>33, <1>34,
       <1>35, <1>36, <1>37, <1>38
       DEF Next, Step, Platform, Environment, handleStart, handleStop

\* A command that is queued leaves those queued before it.
LEMMA StopQueued ==
    ASSUME TypeOK, NEW c \in Commands, intents' = Append(intents, c)
    PROVE  (StopPending => StopPending') /\ (c = "stop" => StopPending')
<1>1. /\ intents \in Seq(Commands) /\ Len(intents) \in Nat /\ Len(intents') = Len(intents) + 1
      /\ intents'[Len(intents) + 1] = c
      /\ \A n \in 1 .. Len(intents) : intents'[n] = intents[n]
    BY DEF TypeOK
<1>2. StopPending => StopPending'
    BY <1>1 DEF StopPending
<1>3. Len(intents) + 1 \in 1 .. Len(intents')
    BY <1>1
<1> QED
    BY <1>1, <1>2, <1>3 DEF StopPending

\* The coroutines that will tear a tunnel down still will.
DebtsKept ==
    \A p \in Ops : \A k \in Instances :
       /\ ops[p].pc \in {"stop2", "stop3"} => ops'[p].pc \in {"stop2", "stop3"}
       /\ inst[k].tunActive =>
             (Owes(p, k) => Owes(p, k)') /\ (Serves(p, k) => Serves(p, k)')

USE DEF DebtsKept

\* Whatever will tear a tunnel down still will.
LEMMA DebtKept ==
    ASSUME DebtDiscipline,
           \A k \in Instances : inst'[k].tunActive => inst[k].tunActive,
           runTime => runTime', coreTun' => coreTun,
           \A k \in Instances : delegate' = k => delegate = k,
           StopPending => StopPending',
           \A k \in Instances : inst[k].started = "no" => inst'[k].started = "no",
           DebtsKept
    PROVE  DebtDiscipline'
<1> SUFFICES ASSUME NEW k \in Instances, coreTun, inst[k].tunActive, ~runTime
             PROVE  \/ \E p \in Ops : ops'[p].pc \in {"stop2", "stop3"}
                    \/ TornDown(k)' /\ (delegate' = k => \E p \in Ops : Serves(p, k)')
    BY DEF DebtDiscipline
<1>1. CASE \E p \in Ops : ops[p].pc \in {"stop2", "stop3"}
    BY <1>1
<1>2. CASE TornDown(k) /\ (delegate = k => \E p \in Ops : Serves(p, k))
    BY <1>2 DEF TornDown
<1> QED
    BY <1>1, <1>2 DEF DebtDiscipline

\* No tunnel, nobody's, or one that the service says it runs.
LEMMA NoDebt ==
    ASSUME runTime' \/ ~coreTun' \/ \A k \in Instances : ~inst'[k].tunActive
    PROVE  DebtDiscipline'
BY DEF DebtDiscipline

\* A tunnel that the service does not say it runs stays due for a teardown.
LEMMA DebtStep ==
    ASSUME "overtake" \notin Events, "stopFails" \notin Events, TypeOK, TypeOK',
           LockDiscipline, LockDiscipline', InstanceDiscipline, PlaceDiscipline,
    DebtDiscipline, [Next]_vars
    PROVE  DebtDiscipline'
<1> USE VpnAssumption
<1>1. ASSUME NEW o \in Ops, establish(o) PROVE DebtDiscipline'
  <2>1. InService(o) \in Instances /\ ops[o].pc = "establish"
    BY <1>1, KnownInstance DEF establish
  <2>2. StopPending => StopPending'
    BY <1>1, establishEffect DEF StopPending
  <2>3. CASE Goto(o, "failed") /\ SameTunActive
    <3>1. DebtsKept
      BY <2>1, <2>3, GotoFields DEF Owes, Serves, InService, EndPlaces
    <3> QED
      BY <1>1, <2>2, <2>3, <3>1, establishEffect, DebtKept
  <2>4. CASE /\ Goto(o, "modules")
             /\ \A k \in Instances : inst'[k].tunActive = (inst[k].tunActive \/ k = InService(o))
    <3>1. \A k \in Instances : k = InService(o) => Owes(o, k)' /\ Serves(o, k)'
      BY <2>4, GotoFields DEF Owes, Serves, InService, EndPlaces
    <3>2. \A k \in Instances : inst'[k].tunActive => k = InService(o)
      BY <2>1, <2>4, TheInstance DEF StartPlaces
    <3> QED
      BY <3>1, <3>2 DEF DebtDiscipline, TornDown
  <2> QED
    BY <1>1, <2>3, <2>4, establishEffect
<1>2. ASSUME NEW o \in Ops, startModules(o) PROVE DebtDiscipline'
  <2>1. ops[o].pc = "modules"
    BY <1>2 DEF startModules
  <2>2. DebtsKept
    BY <1>2, <2>1, startModulesEffect, GotoFields DEF Owes, Serves, InService,
       EndPlaces
  <2>3. StopPending => StopPending'
    BY <1>2, startModulesEffect DEF StopPending
  <2> QED
    BY <1>2, <2>2, <2>3, startModulesEffect, DebtKept
<1>3. ASSUME NEW o \in Ops, startTun(o) PROVE DebtDiscipline'
  <2>1. InService(o) \in Instances /\ ops[o].pc = "startTun" /\ UNCHANGED inst
    BY <1>3, KnownInstance DEF startTun
  <2>2. \A k \in Instances : inst'[k].tunActive => k = InService(o)
    BY <2>1, TheInstance DEF StartPlaces
  <2>3. \A k \in Instances : k = InService(o) => Owes(o, k)' /\ Serves(o, k)'
    BY <1>3, <2>1, GotoFields DEF startTun, Owes, Serves, InService, EndPlaces
  <2> QED
    BY <2>2, <2>3 DEF DebtDiscipline, TornDown
<1>4. ASSUME NEW o \in Ops, claimTun(o) PROVE DebtDiscipline'
  <2>1. /\ UNCHANGED <<inst, intents, coreTun>> /\ (runTime => runTime')
        /\ delegate' \in {delegate, None}
    BY <1>4 DEF claimTun, persisted, state
  <2>2. DebtsKept
    BY <1>4, GotoFields, FinishFields, LaunchFields, VpnAssumption DEF claimTun,
       persisted, state, Owes, Serves, InService, EndPlaces
  <2>3. StopPending => StopPending'
    BY <2>1 DEF StopPending
  <2> QED
    BY <2>1, <2>2, <2>3, VpnAssumption, DebtKept
<1>5. ASSUME NEW o \in Ops, undoStart(o) PROVE DebtDiscipline'
  <2>1. InService(o) \in Instances /\ ops[o].pc = "undo"
    BY <1>5, KnownInstance DEF undoStart
  <2>2. \A k \in Instances : inst[k].tunActive => k = InService(o)
    BY <2>1, TheInstance DEF StartPlaces
  <2> QED
    BY <1>5, <2>1, <2>2, undoStartEffect, NoDebt
<1>6. ASSUME NEW o \in Ops, rollback(o) PROVE DebtDiscipline'
    BY <1>6, rollbackEffect, NoDebt
<1>7. ASSUME NEW o \in Ops, stopFlags(o) PROVE DebtDiscipline'
  <2>1. InService(o) \in Instances /\ ops[o].pc = "stop1"
    BY <1>7, KnownInstance DEF stopFlags
  <2>2. CASE Goto(o, "stop2")
    BY <2>2, GotoFields DEF DebtDiscipline
  <2>3. CASE Goto(o, "after") /\ ~runTime
    <3>1. DebtsKept
      BY <2>1, <2>3, GotoFields DEF Owes, Serves, InService, EndPlaces
    <3>2. StopPending => StopPending'
      BY <1>7, <2>1, stopFlagsEffect DEF StopPending
    <3> QED
      BY <1>7, <2>1, <2>3, <3>1, <3>2, stopFlagsEffect, DebtKept
  <2> QED
    BY <1>7, <2>1, <2>2, <2>3, stopFlagsEffect
<1>8. ASSUME NEW o \in Ops, stopPersist(o) PROVE DebtDiscipline'
  <2>1. ops'[o].pc = "stop3"
    BY <1>8, stopPersistEffect, GotoFields
  <2> QED
    BY <2>1 DEF DebtDiscipline
<1>9. ASSUME NEW o \in Ops, stopCore(o) PROVE DebtDiscipline'
    BY <1>9, NoDebt DEF stopCore
<1>10. ASSUME NEW o \in Ops, stopModules(o) PROVE DebtDiscipline'
  <2>1. ops[o].pc = "stop4" /\ Goto(o, "after")
    BY <1>10, stopModulesEffect DEF stopModules
  <2>2. DebtsKept
    BY <2>1, GotoFields DEF Owes, Serves, InService, EndPlaces
  <2>3. StopPending => StopPending'
    BY <1>10, stopModulesEffect DEF StopPending
  <2> QED
    BY <1>10, <2>2, <2>3, stopModulesEffect, DebtKept
<1>11. ASSUME NEW o \in Ops, startService(o) PROVE DebtDiscipline'
  <2>1. UNCHANGED <<runTime, inst, coreTun>> /\ delegate' \in {delegate, None, "binding"}
    BY <1>11 DEF startService, state, tunnel
  <2>2. ops[o].i = None /\ ops[o].pc = "wait"
    BY <1>11 DEF startService, At, LockDiscipline, OpDiscipline
  <2>3. DebtsKept
    BY <1>11, <2>2, GotoFields, FinishFields, VpnAssumption DEF startService, Owes,
       Serves, InService, EndPlaces
  <2>4. intents' = intents \/ intents' = Append(intents, "start")
    BY <1>11 DEF startService, persisted
  <2>5. StopPending => StopPending'
    BY <2>4, StopQueued DEF Commands, StopPending
  <2> QED
    BY <2>1, <2>3, <2>5, VpnAssumption, DebtKept
<1>12. ASSUME NEW o \in Ops, bound(o) PROVE DebtDiscipline'
  <2>1. ops[o].pc = "proxy" /\ ops[o].kind = "startService" /\ ops[o].i = None
    BY <1>12 DEF bound, At, LockDiscipline, OpDiscipline
  <2>2. UNCHANGED <<runTime, intents, coreTun>>
    BY <1>12 DEF bound, persisted, tunnel
  <2>3. CASE UNCHANGED <<delegate, inst>> /\ Goto(o, "failed")
    <3>1. DebtsKept
      BY <2>1, <2>3, GotoFields, VpnAssumption DEF Owes, Serves, InService, EndPlaces
    <3>2. StopPending => StopPending'
      BY <2>2 DEF StopPending
    <3> QED
      BY <2>2, <2>3, <3>1, <3>2, DebtKept
  <2>4. ASSUME NEW j \in Instances, BoundTo(o, j) PROVE DebtDiscipline'
    <3>1. ops'[o].pc = "establish" /\ ops'[o].i = j /\ ops'[o].kind = "startService"
      BY <2>1, <2>4 DEF BoundTo, TypeOK, OpType
    <3>2. Owes(o, j)' /\ Serves(o, j)'
      BY <3>1 DEF Owes, Serves, InService, EndPlaces
    <3>3. \A k \in Instances : inst'[k].tunActive => k = j
      BY <2>4 DEF BoundTo, Revived, InstanceDiscipline
    <3> QED
      BY <3>2, <3>3 DEF DebtDiscipline, TornDown
  <2> QED
    BY <1>12, <2>3, <2>4, boundEffect
<1>13. ASSUME NEW o \in Ops, startInTime(o) PROVE DebtDiscipline'
  <2>1. /\ UNCHANGED <<inst, intents, coreTun>> /\ (runTime => runTime')
        /\ delegate' \in {delegate, None}
    BY <1>13 DEF startInTime, At, May, persisted, state, tunnel
  <2>2. DebtsKept
    BY <1>13, GotoFields, FinishFields, LaunchFields, VpnAssumption DEF startInTime,
       At, May, persisted, state, tunnel, Owes, Serves, InService, EndPlaces
  <2>3. StopPending => StopPending'
    BY <2>1 DEF StopPending
  <2> QED
    BY <2>1, <2>2, <2>3, VpnAssumption, DebtKept
<1>14. ASSUME NEW o \in Ops, startFailed(o) PROVE DebtDiscipline'
    BY <1>14, NoDebt DEF startFailed
<1>15. ASSUME NEW o \in Ops, commit(o) PROVE DebtDiscipline'
    BY <1>15, NoDebt DEF commit
<1>16. ASSUME NEW o \in Ops, persist(o) PROVE DebtDiscipline'
  <2>1. runTime' = runTime /\ PlaceFacts(o)
    BY <1>16 DEF persist, state, PlaceDiscipline
  <2> QED
    BY <1>16, <2>1, NoDebt DEF persist, PlaceFacts
<1>17. ASSUME NEW o \in Ops, announce(o) PROVE DebtDiscipline'
  <2>1. /\ UNCHANGED <<inst, intents, coreTun>> /\ (runTime => runTime')
        /\ delegate' \in {delegate, None}
    BY <1>17 DEF announce, NoOp, persisted, tunnel
  <2>2. DebtsKept
    BY <1>17, GotoFields, FinishFields, LaunchFields, VpnAssumption DEF announce,
       NoOp, persisted, tunnel, Owes, Serves, InService, EndPlaces
  <2>3. StopPending => StopPending'
    BY <2>1 DEF StopPending
  <2> QED
    BY <2>1, <2>2, <2>3, VpnAssumption, DebtKept
<1>18. ASSUME NEW o \in Ops, stopService(o) PROVE DebtDiscipline'
  <2>0. ~May("stopFails")
    BY DEF May
  <2>1. ops[o].i = None /\ ops[o].pc = "wait" /\ UNCHANGED <<inst, delegate, coreTun>>
    BY <1>18, <2>0 DEF stopService, At, LockDiscipline, OpDiscipline, tunnel
  <2>2. DebtsKept
    BY <1>18, <2>0, <2>1, FinishFields, VpnAssumption DEF stopService, Owes, Serves,
       InService, EndPlaces, TypeOK, OpType
  <2>3. CASE runTime /\ ~runTime'
    <3>1. intents' = Append(intents, "stop") /\ delegate = None
      BY <1>18, <2>0, <2>3 DEF stopService
    <3>2. StopPending'
      BY <3>1, StopQueued DEF Commands
    <3> QED
      BY <2>1, <3>1, <3>2, VpnAssumption DEF DebtDiscipline, TornDown
  <2>4. CASE runTime => runTime'
    <3>1. intents' = intents \/ intents' = Append(intents, "stop")
      BY <1>18, <2>0 DEF stopService, persisted
    <3>2. StopPending => StopPending'
      BY <3>1, StopQueued DEF Commands, StopPending
    <3> QED
      BY <2>1, <2>2, <2>4, <3>2, DebtKept
  <2> QED
    BY <2>3, <2>4
<1>19. ASSUME NEW o \in Ops, stopServiceEnd(o) PROVE DebtDiscipline'
  <2>1. /\ ops[o].pc = "after" /\ UNCHANGED <<inst, intents, coreTun>>
        /\ delegate' \in {delegate, None}
    BY <1>19 DEF stopServiceEnd, At, persisted, state, tunnel
  <2>2. ~inst[InService(o)].tunActive /\ ~runTime
    BY <2>1 DEF PlaceDiscipline, PlaceFacts
  <2>3. \A p \in Ops : p # o => ops'[p].pc = ops[p].pc /\ ops'[p].i = ops[p].i /\ ops'[p].kind = ops[p].kind
    BY <1>19, FinishFields DEF stopServiceEnd
  <2>4. OpDiscipline(o)
    BY DEF LockDiscipline
  <2>5. DebtsKept
    BY <2>1, <2>2, <2>3, <2>4 DEF OpDiscipline, StopPlaces, Owes, Serves, InService,
       EndPlaces
  <2>6. StopPending => StopPending'
    BY <2>1 DEF StopPending
  <2> QED
    BY <2>1, <2>2, <2>5, <2>6, VpnAssumption, DebtKept
<1>20. ASSUME NEW o \in Ops, stopCommand(o) PROVE DebtDiscipline'
  <2>1. /\ UNCHANGED <<inst, intents, coreTun>> /\ (runTime => runTime')
        /\ delegate' \in {delegate, None}
    BY <1>20 DEF stopCommand, persisted, state, tunnel
  <2>2. DebtsKept
    BY <1>20, GotoFields, FinishFields, LaunchFields, VpnAssumption DEF stopCommand,
       persisted, state, tunnel, Owes, Serves, InService, EndPlaces
  <2>3. StopPending => StopPending'
    BY <2>1 DEF StopPending
  <2> QED
    BY <2>1, <2>2, <2>3, VpnAssumption, DebtKept
<1>21. ASSUME NEW o \in Ops, stopUnlocks(o) PROVE DebtDiscipline'
  <2>1. /\ ops[o].pc = "after" /\ UNCHANGED <<inst, intents, coreTun>>
        /\ delegate' \in {delegate, None}
    BY <1>21 DEF stopUnlocks, At, persisted, state, tunnel
  <2>2. ~inst[InService(o)].tunActive /\ ~runTime
    BY <2>1 DEF PlaceDiscipline, PlaceFacts
  <2>3. \A p \in Ops : p # o => ops'[p].pc = ops[p].pc /\ ops'[p].i = ops[p].i /\ ops'[p].kind = ops[p].kind
    BY <1>21, GotoFields DEF stopUnlocks
  <2>4. OpDiscipline(o)
    BY DEF LockDiscipline
  <2>5. DebtsKept
    BY <2>1, <2>2, <2>3, <2>4 DEF OpDiscipline, StopPlaces, Owes, Serves, InService,
       EndPlaces
  <2>6. StopPending => StopPending'
    BY <2>1 DEF StopPending
  <2> QED
    BY <2>1, <2>2, <2>5, <2>6, VpnAssumption, DebtKept
<1>22. ASSUME NEW o \in Ops, unflag(o) PROVE DebtDiscipline'
  <2>1. /\ UNCHANGED <<inst, intents, coreTun>> /\ (runTime => runTime')
        /\ delegate' \in {delegate, None}
    BY <1>22 DEF unflag, state, tunnel
  <2>2. DebtsKept
    BY <1>22, GotoFields, FinishFields, LaunchFields, VpnAssumption DEF unflag,
       state, tunnel, Owes, Serves, InService, EndPlaces
  <2>3. StopPending => StopPending'
    BY <2>1 DEF StopPending
  <2> QED
    BY <2>1, <2>2, <2>3, VpnAssumption, DebtKept
<1>23. ASSUME NEW o \in Ops, publishStopped(o) PROVE DebtDiscipline'
  <2>1. /\ UNCHANGED <<inst, intents, coreTun>> /\ (runTime => runTime')
        /\ delegate' \in {delegate, None}
    BY <1>23 DEF publishStopped, persisted, tunnel
  <2>2. DebtsKept
    BY <1>23, GotoFields, FinishFields, LaunchFields,
       VpnAssumption DEF publishStopped, persisted, tunnel, Owes, Serves, InService,
       EndPlaces
  <2>3. StopPending => StopPending'
    BY <2>1 DEF StopPending
  <2> QED
    BY <2>1, <2>2, <2>3, VpnAssumption, DebtKept
<1>24. ASSUME NEW o \in Ops, stopSelf(o) PROVE DebtDiscipline'
  <2>1. UNCHANGED <<runTime, delegate, intents, coreTun>> /\ inst' \in {inst, StopSelf(inst, InService(o))}
    BY <1>24 DEF stopSelf, persisted, state, tunnel
  <2>2. DebtsKept
    BY <1>24, FinishFields DEF stopSelf, Owes, Serves, InService, EndPlaces
  <2>3. StopPending => StopPending'
    BY <2>1 DEF StopPending
  <2> QED
    BY <2>1, <2>2, <2>3, StopSelfEffect, DebtKept
<1>25. ASSUME NEW o \in Ops, coldStart(o) PROVE DebtDiscipline'
  <2>1. /\ InService(o) \in Instances
        /\ ops[o].pc = "wait" /\ ops[o].kind = "cold" /\ runLock = None
    BY <1>25, KnownInstance DEF coldStart, At
  <2>2. UNCHANGED <<runTime, delegate, intents, coreTun>>
    BY <1>25 DEF coldStart, tunnel
  <2>3. CASE runTime
    BY <2>2, <2>3, NoDebt
  <2>4. CASE ~runTime /\ inst' = inst /\ Goto(o, "quickStart")
    <3>1. DebtsKept
      BY <2>1, <2>4, GotoFields DEF Owes, Serves, InService, EndPlaces
    <3>2. StopPending => StopPending'
      BY <2>2 DEF StopPending
    <3> QED
      BY <2>2, <2>4, <3>1, <3>2, DebtKept
  <2>5. CASE ~runTime /\ inst' = StopSelf(inst, InService(o))
    <3>1. /\ \A p \in Ops : ~Serves(p, InService(o))
          /\ \A p \in Ops : ops[p].pc \notin {"stop2", "stop3"}
      BY <2>1, HolderAlone DEF Serves, Locked, StartPlaces, StopPlaces
    <3>2. coreTun /\ inst[InService(o)].tunActive => delegate # InService(o)
      BY <2>1, <2>5, <3>1 DEF DebtDiscipline
    <3>3. \A k \in Instances : inst[k].tunActive => k = InService(o)
      BY <2>1, TheInstance
    <3>4. SameTunActive /\ inst'[InService(o)].started = "no"
      BY <2>1, <2>5, StopSelfEffect DEF StopSelf, TypeOK, InstanceType
    <3> QED
      BY <2>2, <3>2, <3>3, <3>4 DEF DebtDiscipline, TornDown
  <2> QED
    BY <1>25, <2>3, <2>4, <2>5 DEF coldStart
<1>26. ASSUME NEW o \in Ops, quickStart(o) PROVE DebtDiscipline'
  <2>1. /\ UNCHANGED <<inst, intents, coreTun>> /\ (runTime => runTime')
        /\ delegate' \in {delegate, None}
    BY <1>26 DEF quickStart, May, persisted, state, tunnel
  <2>2. DebtsKept
    BY <1>26, GotoFields, FinishFields, LaunchFields, VpnAssumption DEF quickStart,
       May, persisted, state, tunnel, Owes, Serves, InService, EndPlaces
  <2>3. StopPending => StopPending'
    BY <2>1 DEF StopPending
  <2> QED
    BY <2>1, <2>2, <2>3, VpnAssumption, DebtKept
<1>27. ASSUME NEW o \in Ops, coldFailed(o) PROVE DebtDiscipline'
    BY <1>27, coldFailedEffect, NoDebt
<1>28. ASSUME NEW i \in Instances, onStartCommand(i) PROVE DebtDiscipline'
  <2>1. UNCHANGED <<runTime, delegate, coreTun>> /\ Revived(i)
    BY <1>28, onStartCommandEffect DEF onStartCommand, state, tunnel
  <2>2. SUFFICES ASSUME coreTun, inst[i].tunActive, ~runTime,
                        \A p \in Ops : ops'[p].pc \notin {"stop2", "stop3"}
                 PROVE  TornDown(i)' /\ (delegate = i => \E o \in Ops : Serves(o, i)')
    BY <2>1 DEF DebtDiscipline, Revived, InstanceDiscipline
  <2>9. \A p \in Ops : ops[p].pc \notin {"stop2", "stop3"}
    BY <1>28, <2>2, onStartCommandEffect, LaunchFields DEF Idle, NoOp
  <2>3. UNCHANGED ops \/ \E o \in Ops : Idle(o) /\ (Launch(o, "stop", i) \/ Launch(o, "cold", i))
    BY <1>28, onStartCommandEffect
  <2>4. \A p \in Ops : (Owes(p, i) => Owes(p, i)') /\ (Serves(p, i) => Serves(p, i)')
    BY <2>3, LaunchFields, VpnAssumption DEF Idle, NoOp, Owes, Serves, InService,
       EndPlaces
  <2>5. delegate = i => \E o \in Ops : Serves(o, i) /\ Serves(o, i)'
    BY <2>2, <2>4, <2>9 DEF DebtDiscipline
  <2>6. CASE \E o \in Ops : Launch(o, "stop", i) \/ Launch(o, "cold", i)
    <3>1. \E o \in Ops : Owes(o, i)'
      BY <2>6, LaunchFields DEF Owes, Serves, InService, EndPlaces
    <3> QED
      BY <2>5, <3>1 DEF TornDown
  <2>7. CASE inst'[i].started = "no" /\ delegate # i
    BY <2>1, <2>7 DEF TornDown
  <2>8. CASE delegate = i
    <3>1. \E o \in Ops : Owes(o, i)'
      BY <2>5, <2>8 DEF Owes, Serves, InService, EndPlaces
    <3> QED
      BY <2>5, <3>1 DEF TornDown
  <2> QED
    BY <1>28, <2>2, <2>6, <2>7, <2>8, onStartCommandEffect
<1>29. ASSUME NEW i \in Instances, onDestroy(i) PROVE DebtDiscipline'
  <2>1. \A k \in Instances : inst[k].tunActive => k = i
    BY <1>29 DEF onDestroy, InstanceDiscipline
  <2> QED
    BY <1>29, <2>1, onDestroyEffect, NoDebt
<1>30. ASSUME NEW i \in Instances, onDestroyEnds(i) PROVE DebtDiscipline'
  <2>1. inst[i].life = "destroying"
    BY <1>30, onDestroyEndsFields
  <2>2. \A k \in Instances : ~inst[k].tunActive
    BY <2>1 DEF InstanceDiscipline
  <2> QED
    BY <1>30, <2>2, onDestroyEndsFields, NoDebt
<1>31. ASSUME NEW i \in Instances, onRevoke(i) PROVE DebtDiscipline'
  <2>1. DebtsKept
    BY <1>31, onRevokeEffect, LaunchFields, VpnAssumption DEF Idle, NoOp, Owes,
       Serves, InService, EndPlaces
  <2>2. StopPending => StopPending'
    BY <1>31, onRevokeEffect DEF StopPending
  <2> QED
    BY <1>31, <2>1, <2>2, onRevokeEffect, DebtKept
<1>32. ASSUME NEW i \in Instances, setAwake(i) PROVE DebtDiscipline'
  <2>1. DebtsKept
    BY <1>32, setAwakeEffect DEF Owes, Serves, InService, EndPlaces
  <2>2. StopPending => StopPending'
    BY <1>32, setAwakeEffect DEF StopPending
  <2> QED
    BY <1>32, <2>1, <2>2, setAwakeEffect, DebtKept
<1>33. CASE appCalls
  <2>1. /\ UNCHANGED <<inst, intents, coreTun>> /\ (runTime => runTime')
        /\ delegate' \in {delegate, None}
    BY <1>33 DEF appCalls, Idle, NoOp, May, persisted, state, tunnel
  <2>2. DebtsKept
    BY <1>33, GotoFields, FinishFields, LaunchFields, VpnAssumption DEF appCalls,
       Idle, NoOp, May, persisted, state, tunnel, Owes, Serves, InService, EndPlaces
  <2>3. StopPending => StopPending'
    BY <2>1 DEF StopPending
  <2> QED
    BY <2>1, <2>2, <2>3, VpnAssumption, DebtKept
<1>34. CASE tileStart
  <2>1. /\ UNCHANGED <<inst, ops, runTime, delegate, coreTun>>
        /\ \/ intents' = intents
           \/ intents' = Append(intents, "start") \/ intents' = Append(intents, "stop")
    BY <1>34 DEF tileStart, state, tunnel
  <2>2. DebtsKept
    BY <2>1 DEF Owes, Serves, InService, EndPlaces
  <2>3. StopPending => StopPending'
    BY <2>1, StopQueued DEF Commands, StopPending
  <2> QED
    BY <2>1, <2>2, <2>3, DebtKept
<1>35. CASE tileStop
  <2>1. UNCHANGED <<inst, runTime, delegate, coreTun>> /\ intents' = Append(intents, "stop")
    BY <1>35 DEF tileStop, state, tunnel
  <2>2. DebtsKept
    BY <1>35, LaunchFields, VpnAssumption DEF tileStop, Idle, NoOp, Owes, Serves,
       InService, EndPlaces
  <2>3. StopPending => StopPending'
    BY <2>1, StopQueued DEF Commands
  <2> QED
    BY <2>1, <2>2, <2>3, DebtKept
<1>36. CASE command
  <2>1. /\ UNCHANGED <<inst, ops, runTime, delegate, coreTun>>
        /\ \/ intents' = intents
           \/ intents' = Append(intents, "start") \/ intents' = Append(intents, "stop")
    BY <1>36 DEF command, state, tunnel
  <2>2. DebtsKept
    BY <2>1 DEF Owes, Serves, InService, EndPlaces
  <2>3. StopPending => StopPending'
    BY <2>1, StopQueued DEF Commands, StopPending
  <2> QED
    BY <2>1, <2>2, <2>3, DebtKept
<1>37. CASE kill
    BY <1>37, AbsentFields, NoDebt DEF kill
<1>38. CASE UNCHANGED vars
  <2>1. DebtsKept
    BY <1>38 DEF vars, Owes, Serves, InService, EndPlaces
  <2>2. StopPending => StopPending'
    BY <1>38 DEF vars, persisted, StopPending
  <2> QED
    BY <1>38, <2>1, <2>2, DebtKept DEF vars, state, tunnel
<1> QED
    BY <1>1, <1>2, <1>3, <1>4, <1>5, <1>6, <1>7, <1>8, <1>9, <1>10, <1>11, <1>12,
       <1>13, <1>14, <1>15, <1>16, <1>17, <1>18, <1>19, <1>20, <1>21, <1>22, <1>23,
       <1>24, <1>25, <1>26, <1>27, <1>28, <1>29, <1>30, <1>31, <1>32, <1>33, <1>34,
       <1>35, <1>36, <1>37, <1>38
       DEF Next, Step, Platform, Environment, handleStart, handleStop

-----------------------------------------------------------------------------
(* Starts and kills *)

\* What may happen when only starts and kills do.
RecoveryNext ==
    \/ \E o \in Ops :
          \/ establish(o) \/ startModules(o) \/ startTun(o) \/ claimTun(o)
          \/ startService(o) \/ bound(o) \/ startInTime(o) \/ commit(o)
          \/ persist(o) \/ announce(o) \/ coldStart(o) \/ quickStart(o)
    \/ \E i \in Instances : onStartCommand(i) \/ onDestroy(i) \/ onDestroyEnds(i) \/ setAwake(i)
    \/ appCalls \/ tileStart \/ command \/ kill

\* No stop and no failure is possible.
LEMMA RecoverySteps ==
    ASSUME Events \subseteq RecoveryEvents, TypeOK, LockDiscipline, OnlyStarts, Next
    PROVE  RecoveryNext
<1>1. \A e \in {"appStop", "tileStop", "notificationStop", "revoke", "startFails", "denied",
                "stopFails", "overtake"} : ~May(e)
    BY DEF May, RecoveryEvents
<1>2. ASSUME NEW o \in Ops
      PROVE  /\ ops[o].pc \notin StopPlaces \cup {"unflag", "publish", "self"}
             /\ ops[o].pc \notin {"undo", "rollback", "failed"}
             /\ ops[o].kind \notin {"stopService", "stop", "revoke"}
    BY DEF OnlyStarts, LockDiscipline, OpDiscipline
<1>3. ASSUME NEW o \in Ops
      PROVE  /\ ~undoStart(o) /\ ~rollback(o) /\ ~handleStop(o) /\ ~startFailed(o)
             /\ ~stopService(o) /\ ~stopServiceEnd(o) /\ ~stopCommand(o) /\ ~stopUnlocks(o)
             /\ ~unflag(o) /\ ~publishStopped(o) /\ ~stopSelf(o) /\ ~coldFailed(o)
    BY <1>2 DEF undoStart, rollback, handleStop, stopFlags, stopPersist, stopCore, stopModules,
       startFailed, stopService, stopServiceEnd, stopCommand, stopUnlocks, unflag,
       publishStopped, stopSelf, coldFailed, At, StopPlaces
<1>4. ~tileStop /\ \A i \in Instances : ~onRevoke(i)
    BY <1>1 DEF tileStop, onRevoke, Event
<1> QED
    BY <1>3, <1>4 DEF RecoveryNext, Next, Step, Platform, Environment, handleStart

\* The command that is queued is the last one.
LEMMA Queued ==
    ASSUME TypeOK, NEW c \in Commands, intents' = Append(intents, c)
    PROVE  /\ intents' # << >> /\ intents'[Len(intents')] = c
           /\ \A n \in 1 .. Len(intents') :
                 intents'[n] = c \/ \E m \in 1 .. Len(intents) : intents'[n] = intents[m]
<1>1. /\ intents \in Seq(Commands) /\ Len(intents) \in Nat /\ Len(intents') = Len(intents) + 1
      /\ intents'[Len(intents) + 1] = c
      /\ \A n \in 1 .. Len(intents) : intents'[n] = intents[n]
    BY DEF TypeOK
<1>2. intents' # << >>
    BY <1>1
<1>3. \A n \in 1 .. Len(intents') : n = Len(intents) + 1 \/ n \in 1 .. Len(intents)
    BY <1>1
<1> QED
    BY <1>1, <1>2, <1>3

\* Serving the first command leaves the others, the last one with them.
LEMMA Served ==
    ASSUME TypeOK, intents # << >>, intents' = Tail(intents)
    PROVE  /\ \A n \in 1 .. Len(intents') : \E m \in 1 .. Len(intents) : intents'[n] = intents[m]
           /\ \/ intents' = << >> /\ intents[Len(intents)] = Head(intents)
              \/ intents' # << >> /\ intents'[Len(intents')] = intents[Len(intents)]
           /\ \E m \in 1 .. Len(intents) : Head(intents) = intents[m]
<1>1. /\ intents \in Seq(Commands) /\ Len(intents) \in Nat /\ Len(intents) > 0
      /\ Len(intents') = Len(intents) - 1 /\ Head(intents) = intents[1]
      /\ \A n \in 1 .. Len(intents') : intents'[n] = intents[n + 1]
    BY DEF TypeOK
<1>2. \A n \in 1 .. Len(intents') : n + 1 \in 1 .. Len(intents)
    BY <1>1
<1>3. Len(intents') = 0 => intents' = << >>
    BY <1>1
<1>4. CASE Len(intents) = 1
    BY <1>1, <1>2, <1>3, <1>4
<1>5. CASE Len(intents) # 1
  <2>1. /\ Len(intents') \in 1 .. Len(intents') /\ Len(intents') + 1 = Len(intents)
        /\ 1 \in 1 .. Len(intents)
    BY <1>1, <1>5
  <2>2. Len(intents') # 0
    BY <1>1, <1>5
  <2>3. intents' # << >>
    BY <2>2
  <2> QED
    BY <1>1, <1>2, <2>1, <2>3
<1> QED
    BY <1>4, <1>5

\* Neither a stop nor a failure is begun, and no stop is queued.
StartsOnly ==
    \A p \in Ops :
       /\ ops'[p].kind \in {ops[p].kind, "none", "startService", "cold"}
       /\ ops'[p].pc = ops[p].pc \/ ops'[p].pc \notin {"undo", "rollback", "failed"}
CommandsKept ==
    \A n \in 1 .. Len(intents') :
       intents'[n] = "start" \/ \E m \in 1 .. Len(intents) : intents'[n] = intents[m]

USE DEF StartsOnly, CommandsKept

\* A step that brings in neither a stop nor a mark.
LEMMA StartsKept ==
    ASSUME OnlyStarts,
           StartsOnly, CommandsKept,
           \A k \in Instances :
              (inst'[k].revoked => inst[k].revoked) /\ (inst'[k].destroyed => inst[k].destroyed)
    PROVE  OnlyStarts'
BY DEF OnlyStarts

\* Starts bring nothing but starts.
LEMMA OnlyStartsStep ==
    ASSUME Events \subseteq RecoveryEvents, TypeOK, TypeOK', LockDiscipline,
           InstanceDiscipline, PlaceDiscipline, OnlyStarts, [RecoveryNext]_vars
    PROVE  OnlyStarts'
<1> USE VpnAssumption
<1>0. \A e \in {"appStop", "tileStop", "notificationStop", "revoke", "startFails", "denied",
                "stopFails", "overtake"} : ~May(e)
    BY DEF May, RecoveryEvents
<1>1. ASSUME NEW o \in Ops, establish(o) PROVE OnlyStarts'
  <2>1. UNCHANGED intents /\ SameRevoked /\ SameDestroyed
    BY <1>1, establishEffect
  <2>2. StartsOnly
    BY <1>1, <1>0, establishEffect, GotoFields
  <2> QED
    BY <2>1, <2>2, StartsKept
<1>2. ASSUME NEW o \in Ops, startModules(o) PROVE OnlyStarts'
  <2>1. UNCHANGED intents /\ SameRevoked /\ SameDestroyed
    BY <1>2, startModulesEffect
  <2>2. StartsOnly
    BY <1>2, <1>0, startModulesEffect, GotoFields DEF startModules
  <2> QED
    BY <2>1, <2>2, StartsKept
<1>3. ASSUME NEW o \in Ops, startTun(o) PROVE OnlyStarts'
  <2>1. UNCHANGED <<intents, inst>>
    BY <1>3 DEF startTun, persisted
  <2>2. StartsOnly
    BY <1>3, <1>0, GotoFields, FinishFields, LaunchFields DEF startTun, persisted
  <2> QED
    BY <2>1, <2>2, StartsKept
<1>4. ASSUME NEW o \in Ops, claimTun(o) PROVE OnlyStarts'
  <2>1. UNCHANGED <<intents, inst>>
    BY <1>4 DEF claimTun, persisted
  <2>2. StartsOnly
    BY <1>4, <1>0, GotoFields, FinishFields, LaunchFields DEF claimTun, persisted
  <2> QED
    BY <2>1, <2>2, StartsKept
<1>5. ASSUME NEW o \in Ops, startService(o) PROVE OnlyStarts'
  <2>1. UNCHANGED inst
    BY <1>5 DEF startService
  <2>2. StartsOnly
    BY <1>5, <1>0, GotoFields, FinishFields DEF startService
  <2>3. intents' = intents \/ intents' = Append(intents, "start")
    BY <1>5, <1>0 DEF startService, persisted
  <2>4. CommandsKept
    BY <2>3, Queued DEF Commands
  <2> QED
    BY <2>1, <2>2, <2>4, StartsKept
<1>6. ASSUME NEW o \in Ops, bound(o) PROVE OnlyStarts'
  <2>1. PICK j \in Instances : BoundTo(o, j)
    BY <1>6, <1>0, boundEffect DEF bound
  <2>2. StartsOnly
    BY <2>1 DEF BoundTo, TypeOK, OpType
  <2>3. intents' = intents
    BY <1>6 DEF bound, persisted
  <2> QED
    BY <2>1, <2>2, <2>3, StartsKept DEF BoundTo, Revived
<1>7. ASSUME NEW o \in Ops, startInTime(o) PROVE OnlyStarts'
  <2>1. UNCHANGED <<intents, inst>>
    BY <1>7 DEF startInTime, At, persisted
  <2>2. StartsOnly
    BY <1>7, <1>0, GotoFields, FinishFields, LaunchFields DEF startInTime, At,
       persisted
  <2> QED
    BY <2>1, <2>2, StartsKept
<1>8. ASSUME NEW o \in Ops, commit(o) PROVE OnlyStarts'
  <2>1. UNCHANGED <<intents, inst>>
    BY <1>8 DEF commit, persisted
  <2>2. StartsOnly
    BY <1>8, <1>0, GotoFields, FinishFields, LaunchFields DEF commit, persisted
  <2> QED
    BY <2>1, <2>2, StartsKept
<1>9. ASSUME NEW o \in Ops, persist(o) PROVE OnlyStarts'
  <2>1. UNCHANGED <<intents, inst>>
    BY <1>9 DEF persist
  <2>2. StartsOnly
    BY <1>9, <1>0, GotoFields, FinishFields, LaunchFields DEF persist
  <2> QED
    BY <2>1, <2>2, StartsKept
<1>10. ASSUME NEW o \in Ops, announce(o) PROVE OnlyStarts'
  <2>1. UNCHANGED <<intents, inst>>
    BY <1>10 DEF announce, NoOp, persisted
  <2>2. StartsOnly
    BY <1>10, <1>0, GotoFields, FinishFields, LaunchFields DEF announce, NoOp,
       persisted
  <2> QED
    BY <2>1, <2>2, StartsKept
<1>11. ASSUME NEW o \in Ops, coldStart(o) PROVE OnlyStarts'
  <2>1. UNCHANGED intents /\ inst' \in {inst, StopSelf(inst, InService(o))}
    BY <1>11 DEF coldStart, persisted
  <2>2. StartsOnly
    BY <1>11, GotoFields, FinishFields DEF coldStart
  <2> QED
    BY <2>1, <2>2, StopSelfEffect, StartsKept
<1>12. ASSUME NEW o \in Ops, quickStart(o) PROVE OnlyStarts'
  <2>1. UNCHANGED <<intents, inst>>
    BY <1>12 DEF quickStart, persisted
  <2>2. StartsOnly
    BY <1>12, <1>0, GotoFields, FinishFields, LaunchFields DEF quickStart, persisted
  <2> QED
    BY <2>1, <2>2, StartsKept
<1>13. ASSUME NEW i \in Instances, onStartCommand(i) PROVE OnlyStarts'
  <2>1. Revived(i) /\ intents # << >> /\ intents' = Tail(intents)
    BY <1>13, onStartCommandEffect
  <2>2. Head(intents) # "stop"
    BY <2>1, Served DEF OnlyStarts
  <2>3. UNCHANGED ops \/ \E o \in Ops : Launch(o, "cold", i)
    BY <1>13, <2>2, onStartCommandEffect
  <2>4. StartsOnly
    BY <2>3, LaunchFields
  <2>5. CommandsKept
    BY <2>1, Served
  <2> QED
    BY <2>1, <2>4, <2>5, StartsKept DEF Revived
<1>14. ASSUME NEW i \in Instances, onDestroy(i) PROVE OnlyStarts'
    BY <1>14, onDestroyEffect, StartsKept
<1>15. ASSUME NEW i \in Instances, onDestroyEnds(i) PROVE OnlyStarts'
  <2>1. inst[i].life = "destroying" /\ \A o \in Ops : InService(o) # i
    BY <1>15 DEF onDestroyEnds, InstanceDiscipline, OnlyStarts
  <2>2. StartsOnly /\ CommandsKept
    BY <1>15, <2>1, onDestroyEndsEffect
  <2>3. \A k \in Instances :
           (inst'[k].revoked => inst[k].revoked) /\ (inst'[k].destroyed => inst[k].destroyed)
    BY <1>15, <2>1, onDestroyEndsEffect, AbsentFields
  <2> QED
    BY <2>2, <2>3, StartsKept
<1>16. ASSUME NEW i \in Instances, setAwake(i) PROVE OnlyStarts'
    BY <1>16, setAwakeEffect, StartsKept
<1>17. CASE appCalls
  <2>1. UNCHANGED <<intents, inst>>
    BY <1>17 DEF appCalls, NoOp, persisted, Event
  <2>2. StartsOnly
    BY <1>17, <1>0, GotoFields, FinishFields, LaunchFields DEF appCalls, NoOp,
       persisted, Event
  <2> QED
    BY <2>1, <2>2, StartsKept
<1>18. CASE tileStart
  <2>1. UNCHANGED <<inst, ops>> /\ intents' = Append(intents, "start")
    BY <1>18, <1>0 DEF tileStart, Event
  <2>2. CommandsKept
    BY <2>1, Queued DEF Commands
  <2> QED
    BY <2>1, <2>2, StartsKept
<1>19. CASE command
  <2>1. UNCHANGED <<inst, ops>> /\ intents' = Append(intents, "start")
    BY <1>19, <1>0 DEF command, Event
  <2>2. CommandsKept
    BY <2>1, Queued DEF Commands
  <2> QED
    BY <2>1, <2>2, StartsKept
<1>20. CASE kill
  <2>1. intents' = intents \/ intents' = Append(intents, "null")
    BY <1>20 DEF kill
  <2>2. \A n \in 1 .. Len(intents') : intents'[n] \in {"start", "null"}
    BY <2>1, Queued DEF OnlyStarts, Commands
  <2> QED
    BY <1>20, <2>2, AbsentFields DEF kill, NoOp, OnlyStarts
<1>21. CASE UNCHANGED vars
    BY <1>21, StartsKept DEF vars, persisted
<1> QED
    BY <1>1, <1>2, <1>3, <1>4, <1>5, <1>6, <1>7, <1>8, <1>9, <1>10, <1>11, <1>12,
       <1>13, <1>14, <1>15, <1>16, <1>17, <1>18, <1>19, <1>20, <1>21
       DEF RecoveryNext

\* Whoever ends a start goes on, and no cold start passes its check of the flag.
EndsKept ==
    /\ \A p \in Ops : ops[p].pc \in EndPlaces =>
          ops'[p].pc = ops[p].pc /\ ops'[p].kind = ops[p].kind
    /\ \A p \in Ops : ops'[p].kind = "cold" /\ ops'[p].pc \notin {"wait", "announce"} =>
          ops[p].kind = "cold" /\ ops[p].pc \notin {"wait", "announce"}

USE DEF EndsKept

\* A step that changes nothing of what is announced or persisted.
LEMMA HubKept ==
    ASSUME HubDiscipline, UNCHANGED <<runTime, hub, flag>>,
           EndsKept
    PROVE  HubDiscipline'
<1>1. /\ hub' = "running" => runTime'
      /\ \A p \in Ops : ops'[p].kind = "cold" /\ ops'[p].pc \notin {"wait", "announce"} => flag'
    BY DEF HubDiscipline
<1>2. runTime' => hub' = "running" \/ \E p \in Ops : ops'[p].pc \in EndPlaces
    BY DEF HubDiscipline
<1>3. runTime' => flag' \/ \E p \in Ops : At(p, "startService", "persist")'
  <2>1. \A p \in Ops : At(p, "startService", "persist") => At(p, "startService", "persist")'
    BY DEF At, EndPlaces
  <2> QED
    BY <2>1 DEF HubDiscipline
<1> QED
    BY <1>1, <1>2, <1>3 DEF HubDiscipline

\* The hub and the flag follow what runs.
LEMMA HubStep ==
    ASSUME Events \subseteq RecoveryEvents, TypeOK, TypeOK', LockDiscipline,
           InstanceDiscipline, PlaceDiscipline, OnlyStarts, HubDiscipline, [RecoveryNext]_vars
    PROVE  HubDiscipline'
<1> USE VpnAssumption
<1>0. \A e \in {"appStop", "tileStop", "notificationStop", "revoke", "startFails", "denied",
                "stopFails", "overtake"} : ~May(e)
    BY DEF May, RecoveryEvents
<1>1. ASSUME NEW o \in Ops, establish(o) PROVE HubDiscipline'
  <2>1. UNCHANGED <<runTime, hub, flag>>
    BY <1>1 DEF establish, persisted, state
  <2>2. EndsKept
    BY <1>1, GotoFields, FinishFields, LaunchFields DEF establish, persisted, state,
       EndPlaces
  <2> QED
    BY <2>1, <2>2, HubKept
<1>2. ASSUME NEW o \in Ops, startModules(o) PROVE HubDiscipline'
  <2>1. UNCHANGED <<runTime, hub, flag>>
    BY <1>2 DEF startModules, persisted, state
  <2>2. EndsKept
    BY <1>2, GotoFields, FinishFields, LaunchFields DEF startModules, persisted,
       state, EndPlaces
  <2> QED
    BY <2>1, <2>2, HubKept
<1>3. ASSUME NEW o \in Ops, startTun(o) PROVE HubDiscipline'
  <2>1. UNCHANGED <<runTime, hub, flag>>
    BY <1>3 DEF startTun, persisted, state
  <2>2. EndsKept
    BY <1>3, GotoFields, FinishFields, LaunchFields DEF startTun, persisted, state,
       EndPlaces
  <2> QED
    BY <2>1, <2>2, HubKept
<1>4. ASSUME NEW o \in Ops, claimTun(o) PROVE HubDiscipline'
  <2>1. UNCHANGED <<runTime, hub, flag>>
    BY <1>4 DEF claimTun, persisted, state
  <2>2. EndsKept
    BY <1>4, GotoFields, FinishFields, LaunchFields DEF claimTun, persisted, state,
       EndPlaces
  <2> QED
    BY <2>1, <2>2, HubKept
<1>5. ASSUME NEW o \in Ops, startService(o) PROVE HubDiscipline'
  <2>1. CASE runTime
    <3>1. UNCHANGED <<runTime, hub, flag>>
      BY <1>5, <2>1 DEF startService, state, persisted
    <3>2. EndsKept
      BY <1>5, <2>1, FinishFields DEF startService, At, EndPlaces
    <3> QED
      BY <3>1, <3>2, HubKept
  <2>2. CASE ~runTime
    <3>1. UNCHANGED <<runTime, flag>> /\ hub' = "starting"
      BY <1>5, <1>0, <2>2 DEF startService
    <3>2. \A p \in Ops : ops'[p].kind = "cold" /\ ops'[p].pc \notin {"wait", "announce"} =>
             ops[p].kind = "cold" /\ ops[p].pc \notin {"wait", "announce"}
      BY <1>5, <1>0, <2>2, GotoFields DEF startService, At
    <3> QED
      BY <2>2, <3>1, <3>2 DEF HubDiscipline
  <2> QED
    BY <2>1, <2>2
<1>6. ASSUME NEW o \in Ops, bound(o) PROVE HubDiscipline'
  <2>1. PICK j \in Instances : BoundTo(o, j)
    BY <1>6, <1>0, boundEffect DEF bound
  <2>2. /\ \A p \in Ops : p # o => ops'[p] = ops[p]
        /\ ops'[o].kind = "startService" /\ ops[o].pc = "proxy"
    BY <1>6, <2>1 DEF bound, At, BoundTo, TypeOK, OpType
  <2>3. EndsKept
    BY <2>2 DEF EndPlaces
  <2> QED
    BY <1>6, <2>3, HubKept DEF bound, persisted
<1>7. ASSUME NEW o \in Ops, startInTime(o) PROVE HubDiscipline'
  <2>1. UNCHANGED <<runTime, hub, flag>>
    BY <1>7 DEF startInTime, At, persisted, state
  <2>2. EndsKept
    BY <1>7, GotoFields, FinishFields, LaunchFields DEF startInTime, At, persisted,
       state, EndPlaces
  <2> QED
    BY <2>1, <2>2, HubKept
<1>8. ASSUME NEW o \in Ops, commit(o) PROVE HubDiscipline'
  <2>1. runTime' /\ UNCHANGED <<hub, flag>> /\ ops[o].pc = "commit" /\ Goto(o, "persist")
    BY <1>8 DEF commit, persisted
  <2>2. ops[o].kind \in {"startService", "cold"}
    BY <2>1 DEF LockDiscipline, OpDiscipline, StartPlaces
  <2>3. ops[o].kind = "cold" => flag
    BY <2>1 DEF HubDiscipline
  <2> QED
    BY <2>1, <2>2, <2>3, GotoFields DEF HubDiscipline, At, EndPlaces
<1>9. ASSUME NEW o \in Ops, persist(o) PROVE HubDiscipline'
  <2>1. flag' /\ UNCHANGED <<hub, runTime>> /\ Goto(o, "announce")
    BY <1>9 DEF persist, state
  <2> QED
    BY <2>1, GotoFields DEF HubDiscipline, At, EndPlaces
<1>10. ASSUME NEW o \in Ops, announce(o) PROVE HubDiscipline'
  <2>1. UNCHANGED <<flag, runTime>> /\ Finish(o) /\ ops[o].pc = "announce"
    BY <1>10 DEF announce, persisted
  <2>2. ops[o].kind = "startService" => runTime
    BY <2>1 DEF PlaceDiscipline, PlaceFacts, At
  <2>3. hub' = IF runTime THEN "running" ELSE "stopped"
    BY <1>10, <2>2 DEF announce
  <2>4. \A p \in Ops : At(p, "startService", "persist") => At(p, "startService", "persist")'
    BY <2>1, FinishFields DEF At
  <2>5. \A p \in Ops : ops'[p].kind = "cold" => ops'[p] = ops[p]
    BY <2>1, FinishFields
  <2> QED
    BY <2>1, <2>3, <2>4, <2>5 DEF HubDiscipline
<1>11. ASSUME NEW o \in Ops, coldStart(o) PROVE HubDiscipline'
  <2>1. UNCHANGED <<runTime, flag>> /\ ops[o].pc = "wait" /\ ops[o].kind = "cold"
    BY <1>11, <1>0 DEF coldStart, At
  <2>2. CASE runTime
    <3>1. UNCHANGED hub /\ Finish(o)
      BY <1>11, <2>2 DEF coldStart
    <3>2. EndsKept
      BY <2>1, <3>1, FinishFields DEF EndPlaces
    <3> QED
      BY <2>1, <3>1, <3>2, HubKept
  <2>3. CASE ~runTime
    <3>1. hub' = "starting" /\ (Goto(o, "announce") \/ (flag /\ Goto(o, "quickStart")))
      BY <1>11, <2>3 DEF coldStart
    <3>2. \A p \in Ops : ops'[p].kind = "cold" /\ ops'[p].pc \notin {"wait", "announce"} => flag
      BY <2>1, <3>1, GotoFields DEF HubDiscipline
    <3> QED
      BY <2>1, <2>3, <3>1, <3>2 DEF HubDiscipline
  <2> QED
    BY <2>2, <2>3
<1>12. ASSUME NEW o \in Ops, quickStart(o) PROVE HubDiscipline'
  <2>1. UNCHANGED <<runTime, hub, flag>>
    BY <1>12 DEF quickStart, persisted, state
  <2>2. EndsKept
    BY <1>12, GotoFields, FinishFields, LaunchFields DEF quickStart, persisted,
       state, EndPlaces
  <2> QED
    BY <2>1, <2>2, HubKept
<1>13. ASSUME NEW i \in Instances, onStartCommand(i) PROVE HubDiscipline'
  <2>1. UNCHANGED <<runTime, hub, flag>>
    BY <1>13 DEF onStartCommand, state
  <2>2. UNCHANGED ops \/ \E o \in Ops : Idle(o) /\ (Launch(o, "stop", i) \/ Launch(o, "cold", i))
    BY <1>13, onStartCommandEffect
  <2>3. EndsKept
    BY <2>2, LaunchFields DEF Idle, NoOp, EndPlaces
  <2> QED
    BY <2>1, <2>3, HubKept
<1>14. ASSUME NEW i \in Instances, onDestroy(i) PROVE HubDiscipline'
    BY <1>14, onDestroyEffect, HubKept
<1>15. ASSUME NEW i \in Instances, onDestroyEnds(i) PROVE HubDiscipline'
  <2>1. inst[i].life = "destroying" /\ \A o \in Ops : InService(o) # i
    BY <1>15 DEF onDestroyEnds, InstanceDiscipline, OnlyStarts
  <2>2. /\ UNCHANGED <<flag, ops>> /\ (runTime' => runTime /\ hub' = hub)
        /\ ~runTime' => hub' = "stopped"
    BY <1>15, <2>1, onDestroyEndsEffect DEF OnlyStarts
  <2> QED
    BY <2>2 DEF HubDiscipline, At
<1>16. ASSUME NEW i \in Instances, setAwake(i) PROVE HubDiscipline'
    BY <1>16, setAwakeEffect, HubKept
<1>17. CASE appCalls
  <2>1. UNCHANGED <<runTime, hub, flag>>
    BY <1>17 DEF appCalls, Idle, NoOp, persisted, state
  <2>2. EndsKept
    BY <1>17, GotoFields, FinishFields, LaunchFields DEF appCalls, Idle, NoOp,
       persisted, state, EndPlaces
  <2> QED
    BY <2>1, <2>2, HubKept
<1>18. CASE tileStart
    BY <1>18, <1>0 DEF tileStart, state, HubDiscipline, At
<1>19. CASE command
    BY <1>19, HubKept DEF command, state
<1>20. CASE kill
    BY <1>20 DEF kill, NoOp, HubDiscipline
<1>21. CASE UNCHANGED vars
    BY <1>21, HubKept DEF vars, persisted, state
<1> QED
    BY <1>1, <1>2, <1>3, <1>4, <1>5, <1>6, <1>7, <1>8, <1>9, <1>10, <1>11, <1>12,
       <1>13, <1>14, <1>15, <1>16, <1>17, <1>18, <1>19, <1>20, <1>21
       DEF RecoveryNext

\* A start that is on its way.
OnItsWay(o) ==
    \/ ops[o].kind = "cold" /\ ops[o].pc # "announce"
    \/ ops[o].kind = "startService" /\ ops[o].pc \in StartPlaces
Committed(o) == ops[o].kind = "startService" /\ ops[o].pc # "wait"

\* A start goes on, and none takes the lock.
WayKept ==
    /\ \A p \in Ops : OnItsWay(p) => OnItsWay(p)'
    /\ \A p \in Ops : Committed(p)' => Committed(p)

USE DEF WayKept

\* A step that changes neither the intent nor what will serve it.
LEMMA IntentKept ==
    ASSUME IntentDiscipline, UNCHANGED <<flag, intents>>,
           runTime => runTime', Sticky => Sticky',
           \A p \in Ops : OnItsWay(p) => OnItsWay(p)' \/ runTime',
           \A p \in Ops : Committed(p)' => Committed(p)
    PROVE  IntentDiscipline'
<1>1. flag' => runTime' \/ intents' # << >> \/ \E p \in Ops : OnItsWay(p)'
    BY DEF IntentDiscipline, OnItsWay
<1>2. flag' => intents' # << >> \/ Sticky'
    BY DEF IntentDiscipline
<1>3. ASSUME NEW p \in Ops, Committed(p)'
      PROVE  \/ intents' # << >> /\ intents'[Len(intents')] = "start"
             \/ intents' = << >> /\ Sticky'
    BY <1>3 DEF IntentDiscipline, Committed
<1> QED
    BY <1>1, <1>2, <1>3 DEF IntentDiscipline, OnItsWay, Committed

\* An instance that keeps its place with the platform.
LEMMA StickyKept ==
    ASSUME SameLife, SameStarted
    PROVE  Sticky => Sticky'
BY DEF Sticky

\* A persisted intent stays served or on its way, through a kill too.
LEMMA IntentStep ==
    ASSUME Events \subseteq RecoveryEvents, TypeOK, TypeOK', LockDiscipline,
           InstanceDiscipline, PlaceDiscipline, OnlyStarts, HubDiscipline,
    IntentDiscipline, [RecoveryNext]_vars
    PROVE  IntentDiscipline'
<1> USE VpnAssumption
<1>0. \A e \in {"appStop", "tileStop", "notificationStop", "revoke", "startFails", "denied",
                "stopFails", "overtake"} : ~May(e)
    BY DEF May, RecoveryEvents
<1>1. ASSUME NEW o \in Ops, establish(o) PROVE IntentDiscipline'
  <2>1. UNCHANGED <<flag, intents, runTime>> /\ SameLife /\ SameStarted
    BY <1>1, establishEffect DEF establish, persisted, state
  <2>2. WayKept
    BY <1>1, <1>0, GotoFields, FinishFields, LaunchFields DEF establish, persisted,
       state, OnItsWay, Committed, StartPlaces
  <2> QED
    BY <2>1, <2>2, StickyKept, IntentKept
<1>2. ASSUME NEW o \in Ops, startModules(o) PROVE IntentDiscipline'
  <2>1. UNCHANGED <<flag, intents, runTime>> /\ SameLife /\ SameStarted
    BY <1>2, startModulesEffect DEF startModules, persisted, state
  <2>2. WayKept
    BY <1>2, <1>0, GotoFields, FinishFields, LaunchFields DEF startModules,
       persisted, state, OnItsWay, Committed, StartPlaces
  <2> QED
    BY <2>1, <2>2, StickyKept, IntentKept
<1>3. ASSUME NEW o \in Ops, startTun(o) PROVE IntentDiscipline'
  <2>1. UNCHANGED <<flag, intents, runTime>> /\ SameLife /\ SameStarted
    BY <1>3 DEF startTun, persisted, state
  <2>2. WayKept
    BY <1>3, <1>0, GotoFields, FinishFields, LaunchFields DEF startTun, persisted,
       state, OnItsWay, Committed, StartPlaces
  <2> QED
    BY <2>1, <2>2, StickyKept, IntentKept
<1>4. ASSUME NEW o \in Ops, claimTun(o) PROVE IntentDiscipline'
  <2>1. UNCHANGED <<flag, intents, runTime>> /\ SameLife /\ SameStarted
    BY <1>4 DEF claimTun, persisted, state
  <2>2. WayKept
    BY <1>4, <1>0, GotoFields, FinishFields, LaunchFields DEF claimTun, persisted,
       state, OnItsWay, Committed, StartPlaces
  <2> QED
    BY <2>1, <2>2, StickyKept, IntentKept
<1>5. ASSUME NEW o \in Ops, startService(o) PROVE IntentDiscipline'
  <2>1. UNCHANGED <<inst, runTime, flag>> /\ ops[o].pc = "wait" /\ ops[o].kind = "startService"
    BY <1>5, <1>0 DEF startService, At, state, persisted
  <2>2. CASE runTime
    <3>1. UNCHANGED intents /\ Finish(o)
      BY <1>5, <2>2 DEF startService, persisted
    <3>2. WayKept
      BY <2>1, <3>1, FinishFields DEF OnItsWay, Committed, StartPlaces
    <3> QED
      BY <2>1, <3>1, <3>2, StickyKept, IntentKept
  <2>3. CASE ~runTime
    <3>1. intents' = Append(intents, "start")
      BY <1>5, <1>0, <2>3 DEF startService
    <3> QED
      BY <3>1, Queued DEF Commands, IntentDiscipline
  <2> QED
    BY <2>2, <2>3
<1>6. ASSUME NEW o \in Ops, bound(o) PROVE IntentDiscipline'
  <2>1. PICK j \in Instances : BoundTo(o, j)
    BY <1>6, <1>0, boundEffect DEF bound
  <2>2. WayKept
    BY <1>6, <2>1 DEF bound, At, BoundTo, TypeOK, OpType, OnItsWay, Committed,
       StartPlaces
  <2>3. Sticky => Sticky'
    BY <2>1 DEF BoundTo, Revived, Sticky
  <2> QED
    BY <1>6, <2>2, <2>3, IntentKept DEF bound, persisted
<1>7. ASSUME NEW o \in Ops, startInTime(o) PROVE IntentDiscipline'
  <2>1. UNCHANGED <<flag, intents, runTime>> /\ SameLife /\ SameStarted
    BY <1>7 DEF startInTime, At, persisted, state
  <2>2. WayKept
    BY <1>7, <1>0, GotoFields, FinishFields, LaunchFields DEF startInTime, At,
       persisted, state, OnItsWay, Committed, StartPlaces
  <2> QED
    BY <2>1, <2>2, StickyKept, IntentKept
<1>8. ASSUME NEW o \in Ops, commit(o) PROVE IntentDiscipline'
  <2>1. runTime' /\ UNCHANGED <<flag, intents, inst>> /\ Goto(o, "persist") /\ ops[o].pc = "commit"
    BY <1>8 DEF commit, persisted
  <2>2. \A p \in Ops : Committed(p)' => Committed(p)
    BY <2>1, GotoFields DEF Committed
  <2> QED
    BY <2>1, <2>2, StickyKept, IntentKept
<1>9. ASSUME NEW o \in Ops, persist(o) PROVE IntentDiscipline'
  <2>1. UNCHANGED <<runTime, intents, inst>> /\ Goto(o, "announce") /\ ops[o].pc = "persist"
    BY <1>9 DEF persist, state
  <2>2. runTime /\ ops[o].kind \in {"startService", "cold"}
    BY <2>1 DEF PlaceDiscipline, PlaceFacts, LockDiscipline, OpDiscipline, EndPlaces
  <2>3. ops[o].kind = "cold" => flag
    BY <2>1 DEF HubDiscipline
  <2>4. intents # << >> \/ Sticky
    BY <2>1, <2>2, <2>3 DEF IntentDiscipline
  <2>5. \A p \in Ops : Committed(p)' => Committed(p)
    BY <2>1, GotoFields DEF Committed
  <2>6. Sticky => Sticky'
    BY <2>1, StickyKept
  <2> QED
    BY <2>1, <2>2, <2>4, <2>5, <2>6 DEF IntentDiscipline, Committed
<1>10. ASSUME NEW o \in Ops, announce(o) PROVE IntentDiscipline'
  <2>1. UNCHANGED <<flag, intents, runTime>> /\ SameLife /\ SameStarted
    BY <1>10 DEF announce, NoOp, persisted
  <2>2. WayKept
    BY <1>10, <1>0, GotoFields, FinishFields, LaunchFields DEF announce, NoOp,
       persisted, OnItsWay, Committed, StartPlaces
  <2> QED
    BY <2>1, <2>2, StickyKept, IntentKept
<1>11. ASSUME NEW o \in Ops, coldStart(o) PROVE IntentDiscipline'
  <2>1. UNCHANGED <<runTime, flag, intents>> /\ ops[o].pc = "wait" /\ ops[o].kind = "cold"
    BY <1>11, <1>0 DEF coldStart, At
  <2>2. CASE runTime
    <3>1. UNCHANGED inst /\ Finish(o)
      BY <1>11, <2>2 DEF coldStart
    <3>2. \A p \in Ops : Committed(p)' => Committed(p)
      BY <3>1, FinishFields DEF Committed
    <3> QED
      BY <2>1, <2>2, <3>1, <3>2, StickyKept, IntentKept
  <2>3. CASE ~runTime /\ UNCHANGED inst /\ Goto(o, "quickStart")
    <3>1. WayKept
      BY <2>1, <2>3, GotoFields DEF OnItsWay, Committed, StartPlaces
    <3> QED
      BY <2>1, <2>3, <3>1, StickyKept, IntentKept
  <2>4. CASE ~runTime /\ ~flag /\ Goto(o, "announce") /\ runLock = None
    <3>1. ASSUME NEW p \in Ops PROVE ~Committed(p)
      <4>1. OpDiscipline(p) /\ ops[p].pc \in Places /\ p # None
        BY VpnAssumption DEF LockDiscipline, TypeOK, OpType
      <4> QED
        BY <2>4, <4>1 DEF OpDiscipline, Committed, Places, Locked, StartPlaces,
           EndPlaces, StopPlaces
    <3>2. \A p \in Ops : ~Committed(p)'
      BY <2>1, <2>4, <3>1, GotoFields DEF Committed
    <3> QED
      BY <2>1, <2>4, <3>2 DEF IntentDiscipline, Committed
  <2>5. InService(o) \in Instances
    BY <2>1, KnownInstance
  <2>6. ~inst[InService(o)].revoked
    BY <2>5 DEF OnlyStarts
  <2> QED
    BY <1>11, <1>0, <2>2, <2>3, <2>4, <2>6 DEF coldStart
<1>12. ASSUME NEW o \in Ops, quickStart(o) PROVE IntentDiscipline'
  <2>1. UNCHANGED <<flag, intents, runTime>> /\ SameLife /\ SameStarted
    BY <1>12 DEF quickStart, persisted, state
  <2>2. WayKept
    BY <1>12, <1>0, GotoFields, FinishFields, LaunchFields DEF quickStart, persisted,
       state, OnItsWay, Committed, StartPlaces
  <2> QED
    BY <2>1, <2>2, StickyKept, IntentKept
<1>13. ASSUME NEW i \in Instances, onStartCommand(i) PROVE IntentDiscipline'
  <2>1. /\ UNCHANGED <<runTime, flag>> /\ Revived(i)
        /\ intents # << >> /\ intents' = Tail(intents)
    BY <1>13, onStartCommandEffect DEF onStartCommand, state
  <2>2. Head(intents) # "stop"
    BY <2>1, Served DEF OnlyStarts
  <2>3. ASSUME NEW p \in Ops, Committed(p)' PROVE Committed(p)
    BY <1>13, <2>2, <2>3, onStartCommandEffect, LaunchFields DEF Committed
  <2>4. ASSUME NEW p \in Ops, Committed(p)' PROVE intents[Len(intents)] = "start"
    BY <2>1, <2>3, <2>4 DEF IntentDiscipline, Committed
  <2>5. CASE Head(intents) = "null" /\ ~flag /\ UNCHANGED ops
    BY <2>1, <2>4, <2>5, Served DEF IntentDiscipline, Committed
  <2>6. CASE /\ inst'[i].started = "sticky"
             /\ runTime \/ \E o \in Ops : Launch(o, "cold", i)
    <3>1. Sticky'
      BY <2>1, <2>6 DEF Sticky, Revived
    <3>2. runTime' \/ \E o \in Ops : OnItsWay(o)'
      BY <2>1, <2>6, LaunchFields DEF OnItsWay
    <3>3. ASSUME NEW p \in Ops, Committed(p)'
          PROVE  intents' = << >> \/ (intents' # << >> /\ intents'[Len(intents')] = "start")
      BY <2>1, <2>4, <3>3, Served
    <3> QED
      BY <3>1, <3>2, <3>3 DEF IntentDiscipline, OnItsWay, Committed
  <2> QED
    BY <1>13, <1>0, <2>2, <2>5, <2>6, onStartCommandEffect
<1>14. ASSUME NEW i \in Instances, onDestroy(i) PROVE IntentDiscipline'
  <2>1. ASSUME Sticky PROVE Sticky'
    <3>1. PICK k \in Instances : inst[k].life = "alive" /\ inst[k].started = "sticky"
      BY <2>1 DEF Sticky
    <3>2. k # i
      BY <1>14, <3>1 DEF onDestroy
    <3>3. inst'[k].life = "alive" /\ inst'[k].started = "sticky"
      BY <1>14, <3>1, <3>2, onDestroyEffect
    <3> QED
      BY <3>3 DEF Sticky
  <2>2. WayKept
    BY <1>14, onDestroyEffect DEF OnItsWay, Committed
  <2> QED
    BY <1>14, <2>1, <2>2, onDestroyEffect, IntentKept
<1>15. ASSUME NEW i \in Instances, onDestroyEnds(i) PROVE IntentDiscipline'
  <2>1. inst[i].life = "destroying" /\ \A o \in Ops : InService(o) # i
    BY <1>15 DEF onDestroyEnds, InstanceDiscipline, OnlyStarts
  <2>2. ~Sticky
    BY <2>1 DEF Sticky, InstanceDiscipline
  <2>3. UNCHANGED <<flag, intents, ops>>
    BY <1>15, <2>1, onDestroyEndsEffect
  <2> QED
    BY <2>2, <2>3 DEF IntentDiscipline
<1>16. ASSUME NEW i \in Instances, setAwake(i) PROVE IntentDiscipline'
  <2>1. WayKept
    BY <1>16, setAwakeEffect DEF OnItsWay, Committed
  <2> QED
    BY <1>16, <2>1, setAwakeEffect, StickyKept, IntentKept
<1>17. CASE appCalls
  <2>1. UNCHANGED <<flag, intents, runTime>> /\ SameLife /\ SameStarted
    BY <1>17 DEF appCalls, Idle, NoOp, persisted, state
  <2>2. WayKept
    BY <1>17, <1>0, GotoFields, FinishFields, LaunchFields DEF appCalls, Idle, NoOp,
       persisted, state, OnItsWay, Committed, StartPlaces
  <2> QED
    BY <2>1, <2>2, StickyKept, IntentKept
<1>18. CASE tileStart
  <2>1. intents' = Append(intents, "start")
    BY <1>18, <1>0 DEF tileStart, Event
  <2> QED
    BY <2>1, Queued DEF Commands, IntentDiscipline
<1>19. CASE command
  <2>1. intents' = Append(intents, "start")
    BY <1>19, <1>0 DEF command, Event
  <2> QED
    BY <2>1, Queued DEF Commands, IntentDiscipline
<1>20. CASE kill
  <2>1. flag' = flag /\ intents' = IF Sticky THEN Append(intents, "null") ELSE intents
    BY <1>20 DEF kill, Sticky
  <2>2. flag' => intents' # << >>
    BY <2>1, Queued DEF IntentDiscipline, Commands
  <2>3. \A p \in Ops : ops'[p].kind = "none"
    BY <1>20 DEF kill, NoOp
  <2> QED
    BY <2>2, <2>3 DEF IntentDiscipline
<1>21. CASE UNCHANGED vars
  <2>1. WayKept
    BY <1>21 DEF vars, OnItsWay, Committed
  <2> QED
    BY <1>21, <2>1, StickyKept, IntentKept DEF vars, persisted, state
<1> QED
    BY <1>1, <1>2, <1>3, <1>4, <1>5, <1>6, <1>7, <1>8, <1>9, <1>10, <1>11, <1>12,
       <1>13, <1>14, <1>15, <1>16, <1>17, <1>18, <1>19, <1>20, <1>21
       DEF RecoveryNext

-----------------------------------------------------------------------------
(* The theorems *)

\* Every step preserves the types.
LEMMA TypeStep ==
    ASSUME TypeOK, [Next]_vars
    PROVE  TypeOK'
<1>1. ops' \in [Ops -> OpType]
    BY OpsStep DEF TypeOK
<1>2. inst' \in [Instances -> InstanceType]
    BY InstStep DEF TypeOK
<1>3. intents' \in Seq(Commands)
    BY IntentsStep DEF TypeOK
<1> QED
    BY <1>1, <1>2, <1>3, RestStep

\* The initial states: nothing is there and nothing runs.
LEMMA InitInv ==
    Init => TypeOK /\ Inv /\ RecoveryInv
<1> SUFFICES ASSUME Init PROVE TypeOK /\ Inv /\ RecoveryInv
    OBVIOUS
<1>1. /\ \A i \in Instances : inst[i] = Absent
      /\ \A o \in Ops : /\ ops[o] = NoOp /\ ops[o].i = None
                        /\ ops[o].kind = "none" /\ ops[o].pc = "idle"
    BY DEF Init, NoOp
<1>2. TypeOK
  <2>1. Absent \in InstanceType /\ NoOp \in OpType
    BY DEF Absent, Fresh, InstanceType, NoOp, OpType, Kinds, Places
  <2>2. 0 \in 0 .. MaxEvents
    BY VpnAssumption
  <2>3. inst \in [Instances -> InstanceType] /\ ops \in [Ops -> OpType]
    BY <2>1 DEF Init
  <2>4. intents \in Seq(Commands)
    BY DEF Init
  <2>5. /\ flag \in BOOLEAN /\ runTime \in BOOLEAN /\ coreTun \in BOOLEAN
        /\ hub \in States /\ delegate \in Instances \cup {None, "binding"}
        /\ tunOwner \in Instances \cup {None} /\ runLock \in Ops \cup {None}
        /\ events \in 0 .. MaxEvents
    BY <2>2 DEF Init, States
  <2> QED
    BY <2>3, <2>4, <2>5 DEF TypeOK
<1>3. LockDiscipline
    BY <1>1, VpnAssumption DEF Init, LockDiscipline, OpDiscipline, Locked, StartPlaces, EndPlaces,
       StopPlaces
<1>4. InstanceDiscipline
    BY <1>1, AbsentFields, VpnAssumption DEF Init, InstanceDiscipline, InService
<1>5. PlaceDiscipline
    BY <1>1 DEF PlaceDiscipline, PlaceFacts, At, StartPlaces
<1>6. TunnelDiscipline
    BY <1>1, AbsentFields DEF Init, TunnelDiscipline
<1>7. DebtDiscipline /\ WakeLockDiscipline
    BY <1>1, AbsentFields DEF DebtDiscipline, WakeLockDiscipline
<1>8. OnlyStarts
    BY <1>1, AbsentFields DEF Init, OnlyStarts
<1>9. HubDiscipline /\ IntentDiscipline
    BY <1>1 DEF Init, HubDiscipline, IntentDiscipline
<1> QED
    BY <1>2, <1>3, <1>4, <1>5, <1>6, <1>7, <1>8, <1>9 DEF Inv, RecoveryInv

\* Every step preserves the inductive invariant.
LEMMA InvStep ==
    TypeOK /\ Inv /\ [Next]_vars => TypeOK' /\ Inv'
<1> SUFFICES ASSUME TypeOK, Inv, [Next]_vars PROVE TypeOK' /\ Inv'
    OBVIOUS
<1>1. TypeOK'
    BY TypeStep
<1>2. LockDiscipline /\ LockDiscipline'
    BY <1>1, LockStep DEF Inv
<1>3. CASE "overtake" \notin Events
  <2>1. /\ InstanceDiscipline /\ PlaceDiscipline /\ TunnelDiscipline
        /\ WakeLockDiscipline /\ ("stopFails" \notin Events => DebtDiscipline)
    BY <1>3 DEF Inv
  <2>2. InstanceDiscipline'
    BY <1>1, <1>2, <1>3, <2>1, InstanceStep
  <2>3. PlaceDiscipline'
    BY <1>1, <1>2, <1>3, <2>1, PlaceStep
  <2>4. TunnelDiscipline'
    BY <1>1, <1>2, <1>3, <2>1, TunnelStep
  <2>5. "stopFails" \notin Events => DebtDiscipline'
    BY <1>1, <1>2, <1>3, <2>1, DebtStep
  <2>6. WakeLockDiscipline'
    BY <1>1, <1>2, <1>3, <2>1, WakeStep
  <2> QED
    BY <1>1, <1>2, <2>2, <2>3, <2>4, <2>5, <2>6 DEF Inv
<1>4. CASE "overtake" \in Events
    BY <1>1, <1>2, <1>4 DEF Inv
<1> QED
    BY <1>3, <1>4

\* The variables keep their types, whatever the environment does.
THEOREM TypeCorrect == Spec => []TypeOK
<1>1. Init => TypeOK
    BY InitInv
<1>2. TypeOK /\ [Next]_vars => TypeOK'
    BY TypeStep
<1> QED
    BY <1>1, <1>2, PTL DEF Spec

\* The lock discipline is kept under every environment; as long as no destruction
\* overtakes a cold start of its instance, so is the discipline of the instances,
\* of the tunnel and of the wake lock; and if no stop times out either, that of
\* what is due for a teardown.
THEOREM Safety == Spec => []Inv
<1>1. Init => TypeOK /\ Inv
    BY InitInv
<1>2. TypeOK /\ Inv /\ [Next]_vars => (TypeOK /\ Inv)'
    BY InvStep
<1> QED
    BY <1>1, <1>2, PTL DEF Spec

\* Every way out of a start or a stop publishes an outcome (StateHub.kt): a
\* transition is announced only while its coroutine holds runLock.
THEOREM NoTransitionHangs == Spec => []Settled
<1>1. TypeOK /\ Inv => Settled
  <2> SUFFICES ASSUME TypeOK, Inv, Quiet, hub \in {"starting", "stopping"} PROVE FALSE
    BY DEF Settled, TypeOK, States
  <2>1. runLock \in Ops /\ ops[runLock].kind # "none"
    BY DEF Inv, LockDiscipline, TypeOK
  <2> QED
    BY <2>1 DEF Quiet, Idle, NoOp
<1> QED
    BY <1>1, TypeCorrect, Safety, PTL

\* What holds when nothing is under way.
LEMMA AtRest ==
    ASSUME "overtake" \notin Events, TypeOK, Inv, Quiet
    PROVE  /\ "stopFails" \notin Events =>
                 \A i \in Instances : coreTun /\ inst[i].tunActive => runTime
           /\ coreTun => tunOwner \in Instances /\ inst[tunOwner].tunActive
           /\ runTime => coreTun /\ tunOwner \in Instances /\ inst[tunOwner].tunActive
           /\ \A i \in Instances : inst[i].wakeLock => tunOwner = i
<1>1. /\ InstanceDiscipline /\ TunnelDiscipline /\ WakeLockDiscipline
      /\ "stopFails" \notin Events => DebtDiscipline
    BY DEF Inv
<1>2. \A o \in Ops : ops[o].pc = "idle" /\ InService(o) = None
    BY DEF Quiet, Idle, NoOp, InService
<1>3. ~StopPending
    BY DEF Quiet, StopPending
<1>4. ASSUME "stopFails" \notin Events, NEW i \in Instances, coreTun, inst[i].tunActive, ~runTime
      PROVE  FALSE
  <2>1. inst[i].life = "alive" /\ TornDown(i)
    BY <1>1, <1>2, <1>4 DEF InstanceDiscipline, DebtDiscipline
  <2>2. \A o \in Ops : ~Owes(o, i)
    BY <1>2, VpnAssumption DEF Owes
  <2> QED
    BY <1>3, <2>1, <2>2 DEF TornDown, Quiet
<1>5. coreTun => tunOwner \in Instances /\ inst[tunOwner].tunActive
    BY <1>1, <1>2 DEF TunnelDiscipline, TypeOK
<1>6. runTime => coreTun /\ tunOwner \in Instances /\ inst[tunOwner].tunActive
    BY <1>1 DEF TunnelDiscipline, TypeOK, Quiet
<1>7. \A i \in Instances : inst[i].wakeLock => tunOwner = i
    BY <1>1, <1>2 DEF WakeLockDiscipline, TunnelDiscipline
<1> QED
    BY <1>4, <1>5, <1>6, <1>7

\* When nothing is under way, a tunnel is up exactly if the service says it runs
\* one (handleStart, handleStop, coldStart, onDestroy), whatever order starts,
\* stops, failures, revocations and kills came in, also when a destruction
\* overtakes a stop or a revocation; unless it overtakes a cold start, or a stop of
\* the app gets no answer of the service.
THEOREM TunnelAgrees ==
    ASSUME "overtake" \notin Events, "stopFails" \notin Events
    PROVE  Spec => []TunnelMatchesRunTime
<1>1. TypeOK /\ Inv => TunnelMatchesRunTime
    BY AtRest, VpnAssumption DEF TunnelMatchesRunTime, NoOrphanTunnel
<1> QED
    BY <1>1, TypeCorrect, Safety, PTL

\* No wake lock is held past a teardown of its instance (setAwake, handleStop,
\* onDestroy), and its holder is the last to have claimed the tunnel, unless a
\* destruction overtakes a cold start of its instance.
THEOREM WakeLockFollows ==
    ASSUME "overtake" \notin Events
    PROVE  Spec => []WakeLockFollowsTunnel
<1>1. TypeOK /\ Inv => WakeLockFollowsTunnel
  <2> SUFFICES ASSUME TypeOK, Inv PROVE WakeLockFollowsTunnel
    OBVIOUS
  <2>1. WakeLockDiscipline
    BY DEF Inv
  <2>2. ASSUME NEW i \in Instances, Quiet, inst[i].wakeLock PROVE tunOwner = i
    BY <2>2, AtRest
  <2> QED
    BY <2>1, <2>2 DEF WakeLockFollowsTunnel, WakeLockDiscipline
<1> QED
    BY <1>1, TypeCorrect, Safety, PTL

\* Every step of starts and kills preserves what a recovery relies on.
LEMMA RecoveryStep ==
    TypeOK /\ Inv /\ RecoveryInv /\ [Next]_vars => RecoveryInv'
<1> SUFFICES ASSUME TypeOK, Inv, RecoveryInv, [Next]_vars, Events \subseteq RecoveryEvents
             PROVE  OnlyStarts' /\ HubDiscipline' /\ IntentDiscipline'
    BY DEF RecoveryInv
<1>1. "overtake" \notin Events
    BY DEF RecoveryEvents
<1>2. /\ LockDiscipline /\ InstanceDiscipline /\ PlaceDiscipline
      /\ OnlyStarts /\ HubDiscipline /\ IntentDiscipline
    BY <1>1 DEF Inv, RecoveryInv
<1>3. [RecoveryNext]_vars
    BY <1>2, RecoverySteps
<1>4. TypeOK'
    BY TypeStep
<1>5. OnlyStarts'
    BY <1>2, <1>3, <1>4, OnlyStartsStep
<1>6. HubDiscipline'
    BY <1>2, <1>3, <1>4, HubStep
<1>7. IntentDiscipline'
    BY <1>2, <1>3, <1>4, IntentStep
<1> QED
    BY <1>5, <1>6, <1>7

\* With starts and kills only, a persisted intent is always served or on its way,
\* and a process killed at any point leaves a command that starts it again.
THEOREM RecoverySafety == Spec => []RecoveryInv
<1>1. Init => TypeOK /\ Inv /\ RecoveryInv
    BY InitInv
<1>2. TypeOK /\ Inv /\ RecoveryInv /\ [Next]_vars => (TypeOK /\ Inv /\ RecoveryInv)'
    BY InvStep, RecoveryStep
<1> QED
    BY <1>1, <1>2, PTL DEF Spec

\* Among starts by the app, the tile and the platform, and kills of the process
\* between any two steps of them, what the hub publishes is the truth and the
\* flag on disk says what runs, whenever nothing is under way.
THEOREM HubAndFlagAgree ==
    ASSUME Events \subseteq RecoveryEvents
    PROVE  Spec => []HubAndFlagTruthful
<1>1. TypeOK /\ RecoveryInv => HubAndFlagTruthful
  <2> SUFFICES ASSUME TypeOK, HubDiscipline, IntentDiscipline, Quiet
               PROVE  /\ hub = "running" => runTime
                      /\ hub = "stopped" => ~runTime
                      /\ flag = runTime
    BY DEF RecoveryInv, HubAndFlagTruthful, RunningMeansRunning, StoppedMeansStopped
  <2>1. \A o \in Ops : ops[o].kind = "none" /\ ops[o].pc = "idle"
    BY DEF Quiet, Idle, NoOp
  <2>2. (hub = "running" => runTime) /\ (hub = "stopped" => ~runTime)
    BY <2>1 DEF HubDiscipline, EndPlaces
  <2>3. runTime => flag
    BY <2>1 DEF HubDiscipline, At
  <2>4. flag => runTime
    BY <2>1 DEF IntentDiscipline, Quiet
  <2>5. flag \in BOOLEAN /\ runTime \in BOOLEAN
    BY DEF TypeOK
  <2> QED
    BY <2>2, <2>3, <2>4, <2>5
<1> QED
    BY <1>1, TypeCorrect, RecoverySafety, PTL

=============================================================================
