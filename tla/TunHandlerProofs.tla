-------------------------- MODULE TunHandlerProofs --------------------------
(***************************************************************************)
(* Proofs about TunHandler, for any number of starts, JNI threads and dial *)
(* goroutines and any weight of the semaphore.                             *)
(*                                                                         *)
(* The argument for NoUseAfterRelease: a goroutine inside the JVM holds a  *)
(* permit of its handler (CallDiscipline), the callback of a handler that  *)
(* has been in use goes only after a drain, and a drained handler has no   *)
(* permit out (CloseDiscipline); the references deleted without a drain    *)
(* belong to handlers that never had a listener (StartDiscipline), and the *)
(* guard lets nobody through to those.                                     *)
(***************************************************************************)
EXTENDS TunHandler, FiniteSetTheorems, TLAPS

\* Every step preserves the types and the bound on the permits.
LEMMA TypeStep ==
    TypeOK /\ CloseDiscipline /\ StartDiscipline /\ CallDiscipline /\ [Next]_vars => TypeOK'
<1> SUFFICES ASSUME TypeOK, CloseDiscipline, StartDiscipline, CallDiscipline, [Next]_vars
             PROVE  TypeOK'
    OBVIOUS
<1> USE TunHandlerAssumption DEF TypeOK
<1>1. ASSUME NEW p \in Procs, StopTun(p) PROVE TypeOK'
    BY <1>1 DEF StopTun, Goto, Set, tunnel, handler, session, procs, calls,
       CloseDiscipline, StartDiscipline
<1>2. ASSUME NEW p \in Procs, NEW s \in Sessions, StartTun(p, s) PROVE TypeOK'
    BY <1>2 DEF StartTun, Goto, Set, tunnel, handler, session, procs, calls,
       CloseDiscipline, StartDiscipline
<1>3. ASSUME NEW p \in Procs, stopLock(p) PROVE TypeOK'
  <2>1. runTime' \in BOOLEAN /\ tunUp' \in BOOLEAN
    BY <1>3, Zenon DEF stopLock
  <2> QED
    BY <1>3, <2>1 DEF stopLock, Goto, afterStop, tunnel, handler, session, procs, calls
<1>4. ASSUME NEW p \in Procs, drain(p) PROVE TypeOK'
    BY <1>4 DEF drain, Goto, Set, tunnel, handler, session, procs, calls,
       CloseDiscipline, StartDiscipline
<1>5. ASSUME NEW p \in Procs, drainTimeout(p) PROVE TypeOK'
    BY <1>5 DEF drainTimeout, Goto, tunnel, handler, session, procs, calls,
       CloseDiscipline, StartDiscipline
<1>6. ASSUME NEW p \in Procs, teardown(p) PROVE TypeOK'
    BY <1>6 DEF teardown, Goto, Set, tunnel, handler, session, procs, calls,
       CloseDiscipline, StartDiscipline
<1>7. ASSUME NEW p \in Procs, release(p) PROVE TypeOK'
  <2>1. tunHandler \in Sessions
    BY <1>7 DEF release, CloseDiscipline
  <2>2. ref' \in [Sessions -> {"unborn", "live", "deleted"}]
    BY <1>7, <2>1 DEF release, releaseObject, Set
  <2>3. callback' \in [Sessions -> BOOLEAN] /\ drained' \in [Sessions -> BOOLEAN]
    BY <1>7, <2>1 DEF release, Set
  <2> QED
    BY <1>7, <2>2, <2>3 DEF release, Goto, afterStop, calls
<1>8. ASSUME NEW p \in Procs, startConfig(p) PROVE TypeOK'
    BY <1>8 DEF startConfig, Goto, Set, releaseObject, tunnel, handler, session, procs,
       calls, CloseDiscipline, StartDiscipline
<1>9. ASSUME NEW p \in Procs, startLock(p) PROVE TypeOK'
    BY <1>9 DEF startLock, Goto, Set, tunnel, handler, session, procs, calls,
       CloseDiscipline, StartDiscipline
<1>10. ASSUME NEW p \in Procs, openTun(p) PROVE TypeOK'
    BY <1>10 DEF openTun, Goto, Set, tunnel, handler, session, procs, calls,
       CloseDiscipline, StartDiscipline
<1>11. ASSUME NEW p \in Procs, openTunFails(p) PROVE TypeOK'
    BY <1>11 DEF openTunFails, Goto, Set, releaseObject, tunnel, handler, session,
       procs, calls, CloseDiscipline, StartDiscipline
<1>12. ASSUME NEW c \in Calls, dial(c) PROVE TypeOK'
    BY <1>12 DEF dial, Set, tunnel, handler, session, procs, calls, CloseDiscipline,
       StartDiscipline
<1>13. ASSUME NEW c \in Calls, acquire(c) PROVE TypeOK'
  <2>1. call[c] \in Sessions
    BY <1>13 DEF acquire, CallDiscipline
  <2>2. IsFiniteSet(held[call[c]])
    BY <2>1, FS_Subset
  <2>3. held'[call[c]] = held[call[c]] \cup {c}
    BY <1>13, <2>1 DEF acquire
  <2>4. Cardinality(held[call[c]]) \in Nat
    BY <2>2, FS_CardinalityType
  <2>5. Cardinality(held'[call[c]]) <= Limit
    <3> DEFINE H == held[call[c]]
    <3>1. Cardinality(H) < Limit /\ Cardinality(H) \in Nat
      BY <1>13, <2>1, <2>4 DEF acquire
    <3>2. Cardinality(H \cup {c}) = IF c \in H THEN Cardinality(H) ELSE Cardinality(H) + 1
      BY <2>2, FS_AddElement
    <3>3. Cardinality(H \cup {c}) <= Limit
      <4> HIDE DEF H
      <4> QED
        BY <3>1, <3>2
    <3> QED
      BY <2>3, <3>3
  <2> QED
    BY <1>13, <2>1, <2>5 DEF acquire, Set, tunnel, handler, session, procs, calls
<1>14. ASSUME NEW c \in Calls, enterJvm(c) PROVE TypeOK'
    BY <1>14 DEF enterJvm, Set, tunnel, handler, session, procs, calls, CloseDiscipline,
       StartDiscipline
<1>15. ASSUME NEW c \in Calls, leave(c) PROVE TypeOK'
  <2>1. call[c] \in Sessions
    BY <1>15 DEF leave, CallDiscipline
  <2>2. IsFiniteSet(held[call[c]])
    BY <2>1, FS_Subset
  <2>3. held'[call[c]] = held[call[c]] \ {c}
    BY <1>15, <2>1 DEF leave
  <2>4. Cardinality(held[call[c]]) \in Nat
    BY <2>2, FS_CardinalityType
  <2>5. Cardinality(held'[call[c]]) <= Limit
    <3> DEFINE H == held[call[c]]
    <3>1. Cardinality(H) <= Limit /\ Cardinality(H) \in Nat
      BY <1>15, <2>1, <2>4 DEF leave
    <3>2. Cardinality(H \ {c}) = IF c \in H THEN Cardinality(H) - 1 ELSE Cardinality(H)
      BY <2>2, FS_RemoveElement
    <3>3. Cardinality(H \ {c}) <= Limit
      <4> HIDE DEF H
      <4> QED
        BY <3>1, <3>2
    <3> QED
      BY <2>3, <3>3
  <2> QED
    BY <1>15, <2>1, <2>5 DEF leave, Set, tunnel, handler, session, procs, calls
<1>16. ASSUME setupConfig PROVE TypeOK'
  <2>1. hasConfig' \in BOOLEAN
    BY <1>16, Zenon DEF setupConfig
  <2> QED
    BY <1>16, <2>1 DEF setupConfig, tunnel, handler, session, procs, calls
<1>17. ASSUME handleShutdown PROVE TypeOK'
  <2>1. hasConfig' \in BOOLEAN /\ tunUp' \in BOOLEAN
    BY <1>17, Zenon DEF handleShutdown
  <2> QED
    BY <1>17, <2>1 DEF handleShutdown, tunnel, handler, session, procs, calls
<1>18. CASE UNCHANGED vars
    BY <1>18 DEF vars, tunnel, handler, session, procs, calls
<1> QED
    BY <1>1, <1>2, <1>3, <1>4, <1>5, <1>6, <1>7, <1>8, <1>9, <1>10, <1>11, <1>12, <1>13,
       <1>14, <1>15, <1>16, <1>17, <1>18 DEF Next, Request, Step, Call

\* Every step preserves the invariant.
LEMMA InvStep ==
    TypeOK /\ TypeOK' /\ Inv /\ [Next]_vars => Inv'
<1> SUFFICES ASSUME TypeOK, TypeOK', Inv, [Next]_vars
             PROVE  Inv'
    OBVIOUS
<1> USE TunHandlerAssumption DEF TypeOK, Inv
<1>1. ASSUME NEW p \in Procs, StopTun(p) PROVE Inv'
    BY <1>1 DEF StopTun, Goto, Set, tunnel, handler, session, procs, calls,
       LockDiscipline, StartDiscipline, Starting, CloseDiscipline, Fresh,
       HandlerDiscipline, OneTunnel, FdClosedOnce, FlagMeansTunnel, CallDiscipline,
       Owned, NoUseAfterRelease
<1>2. ASSUME NEW p \in Procs, NEW s \in Sessions, StartTun(p, s) PROVE Inv'
    BY <1>2 DEF StartTun, Goto, Set, tunnel, handler, session, procs, calls,
       LockDiscipline, StartDiscipline, Starting, CloseDiscipline, Fresh,
       HandlerDiscipline, OneTunnel, FdClosedOnce, FlagMeansTunnel, CallDiscipline,
       Owned, NoUseAfterRelease
<1>3. ASSUME NEW p \in Procs, stopLock(p) PROVE Inv'
    BY <1>3 DEF stopLock, Goto, afterStop, tunnel, handler, session, procs, calls,
       LockDiscipline, StartDiscipline, Starting, CloseDiscipline, Fresh,
       HandlerDiscipline, OneTunnel, FdClosedOnce, FlagMeansTunnel, CallDiscipline,
       Owned, NoUseAfterRelease
<1>4. ASSUME NEW p \in Procs, drain(p) PROVE Inv'
    BY <1>4 DEF drain, Goto, Set, tunnel, handler, session, procs, calls,
       LockDiscipline, StartDiscipline, Starting, CloseDiscipline, Fresh,
       HandlerDiscipline, OneTunnel, FdClosedOnce, FlagMeansTunnel, CallDiscipline,
       Owned, NoUseAfterRelease
<1>5. ASSUME NEW p \in Procs, drainTimeout(p) PROVE Inv'
    BY <1>5 DEF drainTimeout, Goto, tunnel, handler, session, procs, calls,
       LockDiscipline, StartDiscipline, Starting, CloseDiscipline, Fresh,
       HandlerDiscipline, OneTunnel, FdClosedOnce, FlagMeansTunnel, CallDiscipline,
       Owned, NoUseAfterRelease
<1>6. ASSUME NEW p \in Procs, teardown(p) PROVE Inv'
  <2>1. LockDiscipline'
    BY <1>6 DEF teardown, Goto, Set, tunnel, handler, session, procs, calls,
       LockDiscipline, StartDiscipline, Starting
  <2>2. CloseDiscipline'
    BY <1>6 DEF teardown, Goto, Set, tunnel, handler, session, procs, calls,
       LockDiscipline, CloseDiscipline, StartDiscipline, Starting, Fresh
  <2>3. StartDiscipline'
    BY <1>6 DEF teardown, Goto, Set, tunnel, handler, session, procs, calls,
       LockDiscipline, CloseDiscipline, StartDiscipline, Starting, Fresh,
       HandlerDiscipline, OneTunnel, FdClosedOnce, FlagMeansTunnel, CallDiscipline
  <2>4. HandlerDiscipline'
    BY <1>6 DEF teardown, Goto, Set, tunnel, handler, session, procs, calls,
       LockDiscipline, CloseDiscipline, StartDiscipline, Starting, Fresh,
       HandlerDiscipline, OneTunnel, FdClosedOnce, FlagMeansTunnel
  <2>5. CallDiscipline'
    BY <1>6 DEF teardown, Goto, Set, tunnel, handler, session, procs, calls,
       CallDiscipline
  <2>6. Owned'
    BY <1>6 DEF teardown, Goto, Set, tunnel, handler, session, procs, calls, Owned,
       LockDiscipline, StartDiscipline, CloseDiscipline, HandlerDiscipline, Starting,
       Fresh, OneTunnel
  <2>7. NoUseAfterRelease'
    BY <1>6 DEF teardown, Goto, Set, tunnel, handler, session, procs, calls,
       NoUseAfterRelease, CallDiscipline, CloseDiscipline, StartDiscipline, Starting,
       Fresh, HandlerDiscipline, OneTunnel
  <2> QED
    BY <2>1, <2>2, <2>3, <2>4, <2>5, <2>6, <2>7
<1>7. ASSUME NEW p \in Procs, release(p) PROVE Inv'
  <2>1. LockDiscipline'
    BY <1>7 DEF release, Goto, Set, releaseObject, afterStop, tunnel, handler, session,
       procs, calls, LockDiscipline, StartDiscipline, Starting
  <2>2. CloseDiscipline'
    BY <1>7 DEF release, Goto, Set, releaseObject, afterStop, tunnel, handler, session,
       procs, calls, LockDiscipline, CloseDiscipline, StartDiscipline, Starting, Fresh
  <2>3. StartDiscipline'
    BY <1>7 DEF release, Goto, Set, releaseObject, afterStop, tunnel, handler, session,
       procs, calls, LockDiscipline, CloseDiscipline, StartDiscipline, Starting, Fresh,
       HandlerDiscipline, OneTunnel, FdClosedOnce, FlagMeansTunnel, CallDiscipline
  <2>4. HandlerDiscipline'
    BY <1>7 DEF release, Goto, Set, releaseObject, afterStop, tunnel, handler, session,
       procs, calls, LockDiscipline, CloseDiscipline, StartDiscipline, Starting, Fresh,
       HandlerDiscipline, OneTunnel, FdClosedOnce, FlagMeansTunnel
  <2>5. CallDiscipline'
    BY <1>7 DEF release, Goto, Set, releaseObject, afterStop, tunnel, handler, session,
       procs, calls, CallDiscipline
  <2>6. Owned'
    BY <1>7 DEF release, Goto, Set, releaseObject, afterStop, tunnel, handler, session,
       procs, calls, Owned, LockDiscipline, StartDiscipline, CloseDiscipline,
       HandlerDiscipline, Starting, Fresh, OneTunnel
  <2>7. NoUseAfterRelease'
    BY <1>7 DEF release, Goto, Set, releaseObject, afterStop, tunnel, handler, session,
       procs, calls, NoUseAfterRelease, CallDiscipline, CloseDiscipline,
       StartDiscipline, Starting, Fresh, HandlerDiscipline, OneTunnel
  <2> QED
    BY <2>1, <2>2, <2>3, <2>4, <2>5, <2>6, <2>7
<1>8. ASSUME NEW p \in Procs, startConfig(p) PROVE Inv'
  <2>1. LockDiscipline'
    BY <1>8 DEF startConfig, Goto, Set, releaseObject, tunnel, handler, session, procs,
       calls, LockDiscipline, StartDiscipline, Starting
  <2>2. CloseDiscipline'
    BY <1>8 DEF startConfig, Goto, Set, releaseObject, tunnel, handler, session, procs,
       calls, LockDiscipline, CloseDiscipline, StartDiscipline, Starting, Fresh
  <2>3. StartDiscipline'
    BY <1>8 DEF startConfig, Goto, Set, releaseObject, tunnel, handler, session, procs,
       calls, LockDiscipline, CloseDiscipline, StartDiscipline, Starting, Fresh,
       HandlerDiscipline, OneTunnel, FdClosedOnce, FlagMeansTunnel, CallDiscipline
  <2>4. HandlerDiscipline'
    BY <1>8 DEF startConfig, Goto, Set, releaseObject, tunnel, handler, session, procs,
       calls, LockDiscipline, CloseDiscipline, StartDiscipline, Starting, Fresh,
       HandlerDiscipline, OneTunnel, FdClosedOnce, FlagMeansTunnel
  <2>5. CallDiscipline'
    BY <1>8 DEF startConfig, Goto, Set, releaseObject, tunnel, handler, session, procs,
       calls, CallDiscipline
  <2>6. Owned'
    BY <1>8 DEF startConfig, Goto, Set, releaseObject, tunnel, handler, session, procs,
       calls, Owned, LockDiscipline, StartDiscipline, CloseDiscipline,
       HandlerDiscipline, Starting, Fresh, OneTunnel
  <2>7. NoUseAfterRelease'
    BY <1>8 DEF startConfig, Goto, Set, releaseObject, tunnel, handler, session, procs,
       calls, NoUseAfterRelease, CallDiscipline, CloseDiscipline, StartDiscipline,
       Starting, Fresh, HandlerDiscipline, OneTunnel
  <2> QED
    BY <2>1, <2>2, <2>3, <2>4, <2>5, <2>6, <2>7
<1>9. ASSUME NEW p \in Procs, startLock(p) PROVE Inv'
  <2>1. LockDiscipline'
    BY <1>9 DEF startLock, Goto, Set, tunnel, handler, session, procs, calls,
       LockDiscipline, StartDiscipline, Starting
  <2>2. CloseDiscipline'
    BY <1>9 DEF startLock, Goto, Set, tunnel, handler, session, procs, calls,
       LockDiscipline, CloseDiscipline, StartDiscipline, Starting, Fresh
  <2>3. StartDiscipline'
    BY <1>9 DEF startLock, Goto, Set, tunnel, handler, session, procs, calls,
       LockDiscipline, CloseDiscipline, StartDiscipline, Starting, Fresh,
       HandlerDiscipline, OneTunnel, FdClosedOnce, FlagMeansTunnel, CallDiscipline
  <2>4. HandlerDiscipline'
    BY <1>9 DEF startLock, Goto, Set, tunnel, handler, session, procs, calls,
       LockDiscipline, CloseDiscipline, StartDiscipline, Starting, Fresh,
       HandlerDiscipline, OneTunnel, FdClosedOnce, FlagMeansTunnel
  <2>5. CallDiscipline'
    BY <1>9 DEF startLock, Goto, Set, tunnel, handler, session, procs, calls,
       CallDiscipline
  <2>6. Owned'
    BY <1>9 DEF startLock, Goto, Set, tunnel, handler, session, procs, calls, Owned,
       LockDiscipline, StartDiscipline, CloseDiscipline, HandlerDiscipline, Starting,
       Fresh, OneTunnel
  <2>7. NoUseAfterRelease'
    BY <1>9 DEF startLock, Goto, Set, tunnel, handler, session, procs, calls,
       NoUseAfterRelease, CallDiscipline, CloseDiscipline, StartDiscipline, Starting,
       Fresh, HandlerDiscipline, OneTunnel
  <2> QED
    BY <2>1, <2>2, <2>3, <2>4, <2>5, <2>6, <2>7
<1>10. ASSUME NEW p \in Procs, openTun(p) PROVE Inv'
  <2>1. LockDiscipline'
    BY <1>10 DEF openTun, Goto, Set, tunnel, handler, session, procs, calls,
       LockDiscipline, StartDiscipline, Starting
  <2>2. CloseDiscipline'
    BY <1>10 DEF openTun, Goto, Set, tunnel, handler, session, procs, calls,
       LockDiscipline, CloseDiscipline, StartDiscipline, Starting, Fresh
  <2>3. StartDiscipline'
    BY <1>10 DEF openTun, Goto, Set, tunnel, handler, session, procs, calls,
       LockDiscipline, CloseDiscipline, StartDiscipline, Starting, Fresh,
       HandlerDiscipline, OneTunnel, FdClosedOnce, FlagMeansTunnel, CallDiscipline
  <2>4. HandlerDiscipline'
    BY <1>10 DEF openTun, Goto, Set, tunnel, handler, session, procs, calls,
       LockDiscipline, CloseDiscipline, StartDiscipline, Starting, Fresh,
       HandlerDiscipline, OneTunnel, FdClosedOnce, FlagMeansTunnel
  <2>5. CallDiscipline'
    BY <1>10 DEF openTun, Goto, Set, tunnel, handler, session, procs, calls,
       CallDiscipline
  <2>6. Owned'
    BY <1>10 DEF openTun, Goto, Set, tunnel, handler, session, procs, calls, Owned,
       LockDiscipline, StartDiscipline, CloseDiscipline, HandlerDiscipline, Starting,
       Fresh, OneTunnel
  <2>7. NoUseAfterRelease'
    BY <1>10 DEF openTun, Goto, Set, tunnel, handler, session, procs, calls,
       NoUseAfterRelease, CallDiscipline, CloseDiscipline, StartDiscipline, Starting,
       Fresh, HandlerDiscipline, OneTunnel
  <2> QED
    BY <2>1, <2>2, <2>3, <2>4, <2>5, <2>6, <2>7
<1>11. ASSUME NEW p \in Procs, openTunFails(p) PROVE Inv'
  <2>1. LockDiscipline'
    BY <1>11 DEF openTunFails, Goto, Set, releaseObject, tunnel, handler, session,
       procs, calls, LockDiscipline, StartDiscipline, Starting
  <2>2. CloseDiscipline'
    BY <1>11 DEF openTunFails, Goto, Set, releaseObject, tunnel, handler, session,
       procs, calls, LockDiscipline, CloseDiscipline, StartDiscipline, Starting, Fresh
  <2>3. StartDiscipline'
    BY <1>11 DEF openTunFails, Goto, Set, releaseObject, tunnel, handler, session,
       procs, calls, LockDiscipline, CloseDiscipline, StartDiscipline, Starting, Fresh,
       HandlerDiscipline, OneTunnel, FdClosedOnce, FlagMeansTunnel, CallDiscipline
  <2>4. HandlerDiscipline'
    BY <1>11 DEF openTunFails, Goto, Set, releaseObject, tunnel, handler, session,
       procs, calls, LockDiscipline, CloseDiscipline, StartDiscipline, Starting, Fresh,
       HandlerDiscipline, OneTunnel, FdClosedOnce, FlagMeansTunnel
  <2>5. CallDiscipline'
    BY <1>11 DEF openTunFails, Goto, Set, releaseObject, tunnel, handler, session,
       procs, calls, CallDiscipline
  <2>6. Owned'
    BY <1>11 DEF openTunFails, Goto, Set, releaseObject, tunnel, handler, session,
       procs, calls, Owned, LockDiscipline, StartDiscipline, CloseDiscipline,
       HandlerDiscipline, Starting, Fresh, OneTunnel
  <2>7. NoUseAfterRelease'
    BY <1>11 DEF openTunFails, Goto, Set, releaseObject, tunnel, handler, session,
       procs, calls, NoUseAfterRelease, CallDiscipline, CloseDiscipline,
       StartDiscipline, Starting, Fresh, HandlerDiscipline, OneTunnel
  <2> QED
    BY <2>1, <2>2, <2>3, <2>4, <2>5, <2>6, <2>7
<1>12. ASSUME NEW c \in Calls, dial(c) PROVE Inv'
    BY <1>12 DEF dial, Set, tunnel, handler, session, procs, calls, LockDiscipline,
       StartDiscipline, Starting, CloseDiscipline, Fresh, HandlerDiscipline, OneTunnel,
       FdClosedOnce, FlagMeansTunnel, CallDiscipline, Owned, NoUseAfterRelease
<1>13. ASSUME NEW c \in Calls, acquire(c) PROVE Inv'
    BY <1>13 DEF acquire, Set, tunnel, handler, session, procs, calls, LockDiscipline,
       StartDiscipline, Starting, CloseDiscipline, Fresh, HandlerDiscipline, OneTunnel,
       FdClosedOnce, FlagMeansTunnel, CallDiscipline, Owned, NoUseAfterRelease
<1>14. ASSUME NEW c \in Calls, enterJvm(c) PROVE Inv'
    BY <1>14 DEF enterJvm, Set, tunnel, handler, session, procs, calls, LockDiscipline,
       StartDiscipline, Starting, CloseDiscipline, Fresh, HandlerDiscipline, OneTunnel,
       FdClosedOnce, FlagMeansTunnel, CallDiscipline, Owned, NoUseAfterRelease
<1>15. ASSUME NEW c \in Calls, leave(c) PROVE Inv'
    BY <1>15 DEF leave, Set, tunnel, handler, session, procs, calls, LockDiscipline,
       StartDiscipline, Starting, CloseDiscipline, Fresh, HandlerDiscipline, OneTunnel,
       FdClosedOnce, FlagMeansTunnel, CallDiscipline, Owned, NoUseAfterRelease
<1>16. ASSUME setupConfig PROVE Inv'
    BY <1>16 DEF setupConfig, tunnel, handler, session, procs, calls, LockDiscipline,
       StartDiscipline, Starting, CloseDiscipline, Fresh, HandlerDiscipline, OneTunnel,
       FdClosedOnce, FlagMeansTunnel, CallDiscipline, Owned, NoUseAfterRelease
<1>17. ASSUME handleShutdown PROVE Inv'
    BY <1>17 DEF handleShutdown, tunnel, handler, session, procs, calls, LockDiscipline,
       StartDiscipline, Starting, CloseDiscipline, Fresh, HandlerDiscipline, OneTunnel,
       FdClosedOnce, FlagMeansTunnel, CallDiscipline, Owned, NoUseAfterRelease
<1>18. CASE UNCHANGED vars
    BY <1>18 DEF vars, tunnel, handler, session, procs, calls, CallDiscipline,
       CloseDiscipline, FdClosedOnce, FlagMeansTunnel, Fresh, HandlerDiscipline,
       LockDiscipline, NoUseAfterRelease, OneTunnel, Owned, StartDiscipline, Starting
<1> QED
    BY <1>1, <1>2, <1>3, <1>4, <1>5, <1>6, <1>7, <1>8, <1>9, <1>10, <1>11, <1>12, <1>13,
       <1>14, <1>15, <1>16, <1>17, <1>18 DEF Next, Request, Step, Call

\* The initial state satisfies both.
LEMMA InitInv == Init => TypeOK /\ Inv
<1> SUFFICES ASSUME Init PROVE TypeOK /\ Inv
    OBVIOUS
<1> USE TunHandlerAssumption DEF Init
<1>1. TypeOK
  <2>1. \A s \in Sessions : Cardinality(held[s]) <= Limit
    BY FS_EmptySet
  <2> QED
    BY <2>1 DEF TypeOK
<1>2. Inv
    BY DEF Inv, LockDiscipline, CloseDiscipline, StartDiscipline, Starting, Fresh,
           HandlerDiscipline, OneTunnel, FlagMeansTunnel, FdClosedOnce, CallDiscipline,
           Owned, NoUseAfterRelease
<1> QED
    BY <1>1, <1>2

\* The inductive invariant holds in every reachable state of the tunnel code.
THEOREM Safety == Spec => [](TypeOK /\ Inv)
<1>1. TypeOK /\ Inv /\ [Next]_vars => (TypeOK /\ Inv)'
    BY TypeStep, InvStep DEF Inv
<1> QED
    BY InitInv, <1>1, PTL DEF Spec

\* The types hold, and no handler ever has more than Limit permits out.
THEOREM TypeCorrect == Spec => []TypeOK
    BY Safety, PTL

\* handleProtect and handleResolveProcess never use a deleted callback.
THEOREM NeverUsesReleased == Spec => []NoUseAfterRelease
<1>1. Inv => NoUseAfterRelease
    BY DEF Inv
<1> QED
    BY Safety, <1>1, PTL

\* handleStartTun and handleStopTun never leave two devices up.
THEOREM NeverTwoTunnels == Spec => []OneTunnel
<1>1. Inv => OneTunnel
    BY DEF Inv, HandlerDiscipline
<1> QED
    BY Safety, <1>1, PTL

\* tunUp, read by the forwarders of hub.go, never outlives the device.
THEOREM FlagFollowsTunnel == Spec => []FlagMeansTunnel
<1>1. Inv => FlagMeansTunnel
    BY DEF Inv, HandlerDiscipline
<1> QED
    BY Safety, <1>1, PTL

\* No descriptor is closed twice, by close(), the core or sing-tun.
THEOREM NeverClosedTwice == Spec => []FdClosedOnce
<1>1. Inv => FdClosedOnce
    BY DEF Inv, HandlerDiscipline
<1> QED
    BY Safety, <1>1, PTL

\* Every callback and descriptor handed to handleStartTun is given back, but
\* for the callbacks of a drain that timed out.
THEOREM NeverLeaks == Spec => []NothingLeaks
<1>1. Inv => NothingLeaks
    BY DEF Inv, Owned, NothingLeaks, Quiet, Starting
<1> QED
    BY Safety, <1>1, PTL

-----------------------------------------------------------------------------
(* The refinement.                                                         *)

\* Every step of the tunnel is a step of the JVM's contract or leaves the
\* references and the calls inside the JVM alone.
LEMMA JvmStep ==
    TypeOK /\ Inv /\ [Next]_vars =>
        [Jvm!Next]_<<ref, [c \in Calls |-> IF callPc[c] = "jvm" THEN call[c] ELSE None]>>
<1> DEFINE user == [c \in Calls |-> IF callPc[c] = "jvm" THEN call[c] ELSE None]
           Simulated == Jvm!Next \/ UNCHANGED <<ref, user>>
<1> SUFFICES ASSUME TypeOK, Inv, [Next]_vars PROVE Simulated
    OBVIOUS
<1> USE TunHandlerAssumption DEF TypeOK
<1>1. ASSUME NEW p \in Procs, StopTun(p) PROVE Simulated
    BY <1>1 DEF StopTun, Set, session, calls
<1>2. ASSUME NEW p \in Procs, NEW s \in Sessions, StartTun(p, s) PROVE Simulated
  <2>1. Jvm!NewGlobalRef(s)
    BY <1>2 DEF StartTun, Set, calls, Jvm!NewGlobalRef
  <2> QED
    BY <2>1 DEF Jvm!Next
<1>3. ASSUME NEW p \in Procs, stopLock(p) PROVE Simulated
    BY <1>3 DEF stopLock, session, calls
<1>4. ASSUME NEW p \in Procs, drain(p) PROVE Simulated
    BY <1>4 DEF drain, Set, session, calls
<1>5. ASSUME NEW p \in Procs, drainTimeout(p) PROVE Simulated
    BY <1>5 DEF drainTimeout, session, calls
<1>6. ASSUME NEW p \in Procs, teardown(p) PROVE Simulated
    BY <1>6 DEF teardown, Set, session, calls
<1>7. ASSUME NEW p \in Procs, release(p) PROVE Simulated
  <2>1. tunHandler \in Sessions
    BY <1>7 DEF release, Inv, CloseDiscipline
  <2>2. CASE drained[tunHandler] /\ callback[tunHandler]
    <3>1. Jvm!DeleteGlobalRef(tunHandler)
      BY <1>7, <2>1, <2>2 DEF release, releaseObject, Set, calls, Inv, CloseDiscipline,
         HandlerDiscipline, CallDiscipline, Jvm!DeleteGlobalRef
    <3> QED
      BY <2>1, <3>1 DEF Jvm!Next
  <2>3. CASE ~(drained[tunHandler] /\ callback[tunHandler])
    BY <1>7, <2>3 DEF release, calls
  <2> QED
    BY <2>2, <2>3
<1>8. ASSUME NEW p \in Procs, startConfig(p) PROVE Simulated
  <2>1. CASE hasConfig
    BY <1>8, <2>1 DEF startConfig, calls
  <2>2. CASE ~hasConfig
    <3>1. op[p] \in Sessions
      BY <1>8 DEF startConfig, Inv, StartDiscipline
    <3>2. Jvm!DeleteGlobalRef(op[p])
      BY <1>8, <2>2, <3>1 DEF startConfig, releaseObject, Set, calls, Inv, StartDiscipline,
         Starting, Fresh, Jvm!DeleteGlobalRef
    <3> QED
      BY <3>1, <3>2 DEF Jvm!Next
  <2> QED
    BY <2>1, <2>2
<1>9. ASSUME NEW p \in Procs, startLock(p) PROVE Simulated
    BY <1>9 DEF startLock, Set, session, calls
<1>10. ASSUME NEW p \in Procs, openTun(p) PROVE Simulated
    BY <1>10 DEF openTun, Set, session, calls
<1>11. ASSUME NEW p \in Procs, openTunFails(p) PROVE Simulated
  <2>1. op[p] \in Sessions
    BY <1>11 DEF openTunFails, Inv, StartDiscipline
  <2>2. Jvm!DeleteGlobalRef(op[p])
    BY <1>11, <2>1 DEF openTunFails, releaseObject, Set, calls, Inv, StartDiscipline,
       Starting, Jvm!DeleteGlobalRef
  <2> QED
    BY <2>1, <2>2 DEF Jvm!Next
<1>12. ASSUME NEW c \in Calls, dial(c) PROVE Simulated
    BY <1>12 DEF dial, Set, session, calls, Inv, CallDiscipline
<1>13. ASSUME NEW c \in Calls, acquire(c) PROVE Simulated
    BY <1>13 DEF acquire, Set, session, calls, Inv, CallDiscipline
<1>14. ASSUME NEW c \in Calls, enterJvm(c) PROVE Simulated
  <2>1. PICK s \in Sessions : call[c] = s /\ ref[s] = "live"
    BY <1>14 DEF enterJvm, Inv, CallDiscipline, HandlerDiscipline, OneTunnel
  <2>2. Jvm!EnterCall(c, s)
    BY <1>14, <2>1 DEF enterJvm, Set, session, Jvm!EnterCall
  <2> QED
    BY <2>2 DEF Jvm!Next
<1>15. ASSUME NEW c \in Calls, leave(c) PROVE Simulated
  <2>1. CASE callPc[c] = "jvm"
    <3>1. Jvm!LeaveCall(c)
      BY <1>15, <2>1 DEF leave, Set, session, Inv, CallDiscipline, Jvm!LeaveCall
    <3> QED
      BY <3>1 DEF Jvm!Next
  <2>2. CASE callPc[c] # "jvm"
    BY <1>15, <2>2 DEF leave, Set, session
  <2> QED
    BY <2>1, <2>2
<1>16. ASSUME setupConfig PROVE Simulated
    BY <1>16 DEF setupConfig, session, calls
<1>17. ASSUME handleShutdown PROVE Simulated
    BY <1>17 DEF handleShutdown, session, calls
<1>18. CASE UNCHANGED vars
    BY <1>18 DEF vars, session, calls
<1> QED
    BY <1>1, <1>2, <1>3, <1>4, <1>5, <1>6, <1>7, <1>8, <1>9, <1>10, <1>11, <1>12, <1>13,
       <1>14, <1>15, <1>16, <1>17, <1>18 DEF Next, Request, Step, Call

\* The tunnel implements the JVM's contract for global references.
THEOREM Refinement == Spec => ImplementsJniRefs
<1>1. Init => Jvm!Init
    BY DEF Init, Jvm!Init
<1> QED
    BY <1>1, JvmStep, Safety, PTL DEF Spec, ImplementsJniRefs, Jvm!Spec
=============================================================================
