------------------------- MODULE DesktopCoreProofs --------------------------
(***************************************************************************)
(* Proofs about DesktopCore, for any number of cores, restarts and crashes *)
(* and any limit of the retries.                                           *)
(*                                                                         *)
(* The argument for Reachable: between its connection and its end, the     *)
(* client's core is in the backlog, with the accept loop or in the         *)
(* completer, or some restart is past shutdown and will spawn another one  *)
(* (SocketDiscipline).  For NotMistaken: as long as nothing unusual        *)
(* happens, the client listens to and watches its process only, and        *)
(* shutdown forgets the process it has stopped before stopping is cleared  *)
(* (InOrder).                                                              *)
(***************************************************************************)
EXTENDS DesktopCore, TLAPS

\* Neither null nor the accept loop is a core or a restart.
LEMMA CoresType == None \notin Cores /\ None \notin Restarts /\ Accept \notin Restarts
BY DesktopAssumption DEF Cores

\* Every step preserves the types.
LEMMA TypeStep ==
    TypeOK /\ LifeDiscipline /\ [Next]_vars => TypeOK'
<1> SUFFICES ASSUME TypeOK, LifeDiscipline, [Next]_vars
             PROVE  TypeOK'
    OBVIOUS
<1> USE DesktopAssumption, CoresType DEF TypeOK, Callers, Places
<1>1. ASSUME NEW r \in Restarts, begin(r) PROVE TypeOK'
  <2>1. CASE process = None
    BY <1>1, <2>1 DEF begin, Goto
  <2>2. CASE process # None /\ socket = None
    <3>1. /\ core' \in [Cores -> {"none", "spawned", "connected", "dead", "failed", "aborted"}]
          /\ eof' \subseteq Cores /\ exited' \subseteq Cores
      BY <1>1, <2>2 DEF begin, killProcess, Ends
    <3>2. killed' \subseteq Cores
      BY <1>1, <2>2 DEF begin, killProcess
    <3>3. listening' \subseteq Cores /\ at' \in [Callers -> Places]
      BY <1>1, <2>2 DEF begin, Goto
    <3> QED
      BY <1>1, <2>2, <3>1, <3>2, <3>3 DEF begin, killProcess
  <2>3. CASE process # None /\ socket # None
    BY <1>1, <2>3 DEF begin, Goto, destroySocket, Ends, Alive
  <2> QED
    BY <2>1, <2>2, <2>3
<1>2. ASSUME NEW r \in Restarts, shutdown(r) PROVE TypeOK'
    BY <1>2 DEF shutdown, Goto, killProcess, Ends, Alive
<1>3. ASSUME NEW r \in Restarts, applyPending(r) PROVE TypeOK'
    BY <1>3 DEF applyPending, Goto, children, recoveryState, history
<1>4. ASSUME NEW r \in Restarts, spawn(r) PROVE TypeOK'
    BY <1>4 DEF spawn, Attempt, Goto, socketState, recoveryState, history
<1>5. ASSUME NEW r \in Restarts, ended(r) PROVE TypeOK'
    BY <1>5 DEF ended, restartOver, Goto, children, socketState, history
<1>6. ASSUME NEW r \in Restarts, backoffEnds(r) PROVE TypeOK'
    BY <1>6 DEF backoffEnds, Goto, children, socketState, recoveryState, history
<1>7. CASE accept
    BY <1>7 DEF accept, Goto, completed, destroySocket, Ends, Alive, recoveryState
<1>8. CASE acceptClosed
    BY <1>8 DEF acceptClosed, Goto, completed, children, recoveryState, history,
       LifeDiscipline
<1>9. ASSUME NEW c \in Cores, connect(c) PROVE TypeOK'
    BY <1>9 DEF connect, recoveryState, history
<1>10. ASSUME NEW c \in Cores, socketClosed(c) PROVE TypeOK'
  <2>1. CASE UNCHANGED <<recoveryState, at, mistaken, unusual>>
    BY <1>10, <2>1 DEF socketClosed, socketState, recoveryState
  <2>2. CASE coreLost(c)
    <3>1. crashCount' \in 0 .. MaxRetries + 1
      BY <1>10, <2>2 DEF coreLost, recoveryState
    <3>2. /\ recovering' \in BOOLEAN /\ stopping' \in BOOLEAN /\ recovery' \in Restarts \cup {None}
          /\ at' \in [Callers -> Places]
      BY <1>10, <2>2 DEF coreLost, Goto, recoveryState
    <3>3. mistaken' \in BOOLEAN /\ unusual' \subseteq {"overlap", "early", "again"}
      BY <1>10, <2>2 DEF coreLost, recoveryState
    <3> QED
      BY <1>10, <3>1, <3>2, <3>3 DEF socketClosed, socketState
  <2> QED
    BY <1>10, <2>1, <2>2 DEF socketClosed
<1>11. ASSUME NEW c \in Cores, processExit(c) PROVE TypeOK'
  <2>1. CASE UNCHANGED <<recoveryState, at, mistaken, unusual>>
    BY <1>11, <2>1 DEF processExit, socketState, recoveryState
  <2>2. CASE coreLost(c)
    <3>1. crashCount' \in 0 .. MaxRetries + 1
      BY <1>11, <2>2 DEF coreLost, recoveryState
    <3>2. /\ recovering' \in BOOLEAN /\ stopping' \in BOOLEAN /\ recovery' \in Restarts \cup {None}
          /\ at' \in [Callers -> Places]
      BY <1>11, <2>2 DEF coreLost, Goto, recoveryState
    <3>3. mistaken' \in BOOLEAN /\ unusual' \subseteq {"overlap", "early", "again"}
      BY <1>11, <2>2 DEF coreLost, recoveryState
    <3> QED
      BY <1>11, <3>1, <3>2, <3>3 DEF processExit, socketState
  <2> QED
    BY <1>11, <2>1, <2>2 DEF processExit
<1>12. ASSUME NEW c \in Cores, crash(c) PROVE TypeOK'
    BY <1>12 DEF crash, Ends, Alive, socketState, recoveryState
<1>13. CASE askRestart
    BY <1>13 DEF askRestart, Goto, children, socketState, recoveryState
<1>14. CASE UNCHANGED vars
    BY <1>14 DEF vars, children, socketState, recoveryState, history
<1>15. ASSUME NEW r \in Restarts, spawnThrows(r) PROVE TypeOK'
    BY <1>15 DEF spawnThrows, Attempt, restartOver, Goto, socketState, history
<1>16. ASSUME NEW r \in Restarts, spawnAborts(r) PROVE TypeOK'
    BY <1>16 DEF spawnAborts, Attempt, Goto, socketState, recoveryState, history
<1> QED
    BY <1>1, <1>2, <1>3, <1>4, <1>5, <1>6, <1>7, <1>8, <1>9, <1>10, <1>11, <1>12,
       <1>13, <1>14, <1>15, <1>16
       DEF Next, Caller, reStart, Loop, System

\* Only an attempt to spawn a core changes which attempt was the last and how it went.
LEMMA AttemptsKept ==
    ASSUME TypeOK,
           \/ \E r \in Restarts : \/ begin(r) \/ shutdown(r) \/ applyPending(r)
                                  \/ ended(r) \/ backoffEnds(r)
           \/ Loop
           \/ \E c \in Cores : System(c) \/ crash(c)
           \/ askRestart
           \/ UNCHANGED vars
    PROVE  /\ \A c \in Cores : core'[c] = "none" <=> core[c] = "none"
           /\ SpawnFailed' <=> SpawnFailed
<1> DEFINE Unborn == {"none", "failed", "aborted"}
<1>1. \A c \in Cores : core[c] \in Unborn \/ core'[c] \in Unborn => core'[c] = core[c]
  <2>1. ASSUME NEW c \in Cores, Alive(c), Ends(c)
        PROVE  \A d \in Cores : core[d] \in Unborn \/ core'[d] \in Unborn => core'[d] = core[d]
    BY <2>1 DEF Alive, Ends, TypeOK
  <2>2. ASSUME core' = core
        PROVE  \A d \in Cores : core[d] \in Unborn \/ core'[d] \in Unborn => core'[d] = core[d]
    BY <2>2
  <2>3. ASSUME NEW r \in Restarts, begin(r)
        PROVE  \/ core' = core
               \/ \E c \in Cores : Alive(c) /\ Ends(c)
    BY <2>3, CoresType DEF begin, killProcess, destroySocket, Alive, TypeOK
  <2>4. ASSUME NEW r \in Restarts, shutdown(r)
        PROVE  \/ core' = core
               \/ \E c \in Cores : Alive(c) /\ Ends(c)
    BY <2>4, CoresType DEF shutdown, killProcess, Alive, TypeOK
  <2>5. ASSUME NEW r \in Restarts, applyPending(r) \/ ended(r) \/ backoffEnds(r)
        PROVE  core' = core
    BY <2>5 DEF applyPending, ended, backoffEnds, children
  <2>6. ASSUME Loop
        PROVE  \/ core' = core
               \/ \E c \in Cores : Alive(c) /\ Ends(c)
    BY <2>6, CoresType DEF Loop, accept, acceptClosed, destroySocket, Alive, TypeOK, children
  <2>7. ASSUME NEW c \in Cores, socketClosed(c) \/ processExit(c)
        PROVE  core' = core
    BY <2>7 DEF socketClosed, processExit
  <2>8. ASSUME NEW c \in Cores, connect(c)
        PROVE  \A d \in Cores : core[d] \in Unborn \/ core'[d] \in Unborn => core'[d] = core[d]
    BY <2>8 DEF connect, TypeOK
  <2>9. ASSUME NEW c \in Cores, crash(c)
        PROVE  Alive(c) /\ Ends(c)
    BY <2>9 DEF crash
  <2>10. ASSUME askRestart \/ UNCHANGED vars
         PROVE  core' = core
    BY <2>10 DEF askRestart, vars, children
  <2> QED
    BY <2>1, <2>2, <2>3, <2>4, <2>5, <2>6, <2>7, <2>8, <2>9, <2>10 DEF System
<1> QED
    BY <1>1 DEF SpawnFailed, TypeOK

\* The attempts before the next one have been made, those after it have not.
LEMMA AttemptOrder ==
    ASSUME TypeOK, LifeDiscipline, NEW c \in Cores,
           NEW outcome \in {"spawned", "failed", "aborted"}, Attempt(c, outcome)
    PROVE  /\ \A d \in Cores : d > c => core'[d] = "none"
           /\ core'[c] = outcome
           /\ \A d, e \in Cores : d < e /\ core'[e] # "none" => core'[d] # "none"
<1>1. \A d \in Cores : d < c => core[d] # "none"
  BY DesktopAssumption DEF Attempt, Cores
<1>2. \A d \in Cores : d > c => core[d] = "none"
  BY DEF Attempt, LifeDiscipline
<1>3. /\ core'[c] = outcome
      /\ \A d \in Cores : d # c => core'[d] = core[d]
  BY DEF Attempt, TypeOK
<1> QED
  BY <1>1, <1>2, <1>3, DesktopAssumption DEF Cores

\* A core is spawned, connects and dies, in this order.
LEMMA LifeStep ==
    TypeOK /\ TypeOK' /\ LifeDiscipline /\ [Next]_vars => LifeDiscipline'
<1> SUFFICES ASSUME TypeOK, TypeOK', LifeDiscipline, [Next]_vars
             PROVE  LifeDiscipline'
    OBVIOUS
<1> USE DesktopAssumption, CoresType DEF TypeOK, Callers, LifeDiscipline
<1>1. ASSUME NEW r \in Restarts, begin(r) PROVE LifeDiscipline'
  <2>1. \A d \in Cores : core'[d] = "none" <=> core[d] = "none"
    BY <1>1, AttemptsKept
  <2> QED
    BY <1>1, <2>1 DEF begin, Goto, destroySocket, killProcess, Ends, Alive
<1>2. ASSUME NEW r \in Restarts, shutdown(r) PROVE LifeDiscipline'
  <2>1. \A d \in Cores : core'[d] = "none" <=> core[d] = "none"
    BY <1>2, AttemptsKept
  <2> QED
    BY <1>2, <2>1 DEF shutdown, Goto, killProcess, Ends, Alive
<1>3. ASSUME NEW r \in Restarts, applyPending(r) PROVE LifeDiscipline'
  <2>1. \A d \in Cores : core'[d] = "none" <=> core[d] = "none"
    BY <1>3, AttemptsKept
  <2> QED
    BY <1>3, <2>1 DEF applyPending, Goto, children, recoveryState, history
<1>4. ASSUME NEW r \in Restarts, spawn(r) PROVE LifeDiscipline'
  <2>1. \A d, e \in Cores : d < e /\ core'[e] # "none" => core'[d] # "none"
    BY <1>4, AttemptOrder DEF spawn
  <2> QED
    BY <1>4, <2>1 DEF spawn, Attempt, Goto, socketState, recoveryState, history
<1>5. ASSUME NEW r \in Restarts, ended(r) PROVE LifeDiscipline'
  <2>1. \A d \in Cores : core'[d] = "none" <=> core[d] = "none"
    BY <1>5, AttemptsKept
  <2> QED
    BY <1>5, <2>1 DEF ended, restartOver, Goto, children, socketState, history
<1>6. ASSUME NEW r \in Restarts, backoffEnds(r) PROVE LifeDiscipline'
  <2>1. \A d \in Cores : core'[d] = "none" <=> core[d] = "none"
    BY <1>6, AttemptsKept
  <2> QED
    BY <1>6, <2>1 DEF backoffEnds, Goto, children, socketState, recoveryState, history
<1>7. CASE accept
  <2>1. \A d \in Cores : core'[d] = "none" <=> core[d] = "none"
    BY <1>7, AttemptsKept DEF Loop
  <2> QED
    BY <1>7, <2>1 DEF accept, Goto, completed, destroySocket, Ends, Alive, recoveryState
<1>8. CASE acceptClosed
  <2>1. \A d \in Cores : core'[d] = "none" <=> core[d] = "none"
    BY <1>8, AttemptsKept DEF Loop
  <2> QED
    BY <1>8, <2>1 DEF acceptClosed, Goto, completed, children, recoveryState, history
<1>9. ASSUME NEW c \in Cores, connect(c) PROVE LifeDiscipline'
  <2>1. \A d \in Cores : core'[d] = "none" <=> core[d] = "none"
    BY <1>9, AttemptsKept DEF System
  <2> QED
    BY <1>9, <2>1 DEF connect, recoveryState, history
<1>10. ASSUME NEW c \in Cores, socketClosed(c) PROVE LifeDiscipline'
  <2>1. \A d \in Cores : core'[d] = "none" <=> core[d] = "none"
    BY <1>10, AttemptsKept DEF System
  <2> QED
    BY <1>10, <2>1 DEF socketClosed, coreLost, Goto, socketState, recoveryState
<1>11. ASSUME NEW c \in Cores, processExit(c) PROVE LifeDiscipline'
  <2>1. \A d \in Cores : core'[d] = "none" <=> core[d] = "none"
    BY <1>11, AttemptsKept DEF System
  <2> QED
    BY <1>11, <2>1 DEF processExit, coreLost, Goto, socketState, recoveryState
<1>12. ASSUME NEW c \in Cores, crash(c) PROVE LifeDiscipline'
  <2>1. \A d \in Cores : core'[d] = "none" <=> core[d] = "none"
    BY <1>12, AttemptsKept
  <2> QED
    BY <1>12, <2>1 DEF crash, Ends, Alive, socketState, recoveryState
<1>13. CASE askRestart
  <2>1. \A d \in Cores : core'[d] = "none" <=> core[d] = "none"
    BY <1>13, AttemptsKept
  <2> QED
    BY <1>13, <2>1 DEF askRestart, Goto, children, socketState, recoveryState
<1>14. CASE UNCHANGED vars
  <2>1. \A d \in Cores : core'[d] = "none" <=> core[d] = "none"
    BY <1>14, AttemptsKept
  <2> QED
    BY <1>14, <2>1 DEF vars, children, socketState, recoveryState, history
<1>15. ASSUME NEW r \in Restarts, spawnThrows(r) PROVE LifeDiscipline'
  <2>1. \A d, e \in Cores : d < e /\ core'[e] # "none" => core'[d] # "none"
    BY <1>15, AttemptOrder DEF spawnThrows
  <2> QED
    BY <1>15, <2>1 DEF spawnThrows, Attempt, restartOver, Goto, socketState, history
<1>16. ASSUME NEW r \in Restarts, spawnAborts(r) PROVE LifeDiscipline'
  <2>1. \A d, e \in Cores : d < e /\ core'[e] # "none" => core'[d] # "none"
    BY <1>16, AttemptOrder DEF spawnAborts
  <2> QED
    BY <1>16, <2>1 DEF spawnAborts, Attempt, Goto, socketState, recoveryState, history
<1> QED
    BY <1>1, <1>2, <1>3, <1>4, <1>5, <1>6, <1>7, <1>8, <1>9, <1>10, <1>11, <1>12,
       <1>13, <1>14, <1>15, <1>16
       DEF Next, Caller, reStart, Loop, System

\* The steps that renew the completer come before the one that completes it.
LEMMA SocketStep ==
    TypeOK /\ TypeOK' /\ LifeDiscipline /\ SocketDiscipline /\ [Next]_vars => SocketDiscipline'
<1> SUFFICES ASSUME TypeOK, TypeOK', LifeDiscipline, SocketDiscipline, [Next]_vars
             PROVE  SocketDiscipline'
    OBVIOUS
<1> USE DesktopAssumption, CoresType DEF TypeOK, Callers, LifeDiscipline,
   SocketDiscipline
<1>1. ASSUME NEW r \in Restarts, begin(r) PROVE SocketDiscipline'
  <2>1. SpawnFailed' <=> SpawnFailed
    BY <1>1, AttemptsKept
  <2> QED
    BY <1>1, <2>1 DEF begin, Goto, destroySocket, killProcess, Ends, Alive
<1>2. ASSUME NEW r \in Restarts, shutdown(r) PROVE SocketDiscipline'
  <2>1. SpawnFailed' <=> SpawnFailed
    BY <1>2, AttemptsKept
  <2> QED
    BY <1>2, <2>1 DEF shutdown, Goto, killProcess, Ends, Alive
<1>3. ASSUME NEW r \in Restarts, applyPending(r) PROVE SocketDiscipline'
  <2>1. SpawnFailed' <=> SpawnFailed
    BY <1>3, AttemptsKept
  <2> QED
    BY <1>3, <2>1 DEF applyPending, Goto, children, recoveryState, history
<1>4. ASSUME NEW r \in Restarts, spawn(r) PROVE SocketDiscipline'
    BY <1>4 DEF spawn, Attempt, Goto, socketState, recoveryState, history
<1>5. ASSUME NEW r \in Restarts, ended(r) PROVE SocketDiscipline'
  <2>1. SpawnFailed' <=> SpawnFailed
    BY <1>5, AttemptsKept
  <2> QED
    BY <1>5, <2>1 DEF ended, restartOver, Goto, children, socketState, history
<1>6. ASSUME NEW r \in Restarts, backoffEnds(r) PROVE SocketDiscipline'
  <2>1. SpawnFailed' <=> SpawnFailed
    BY <1>6, AttemptsKept
  <2> QED
    BY <1>6, <2>1 DEF backoffEnds, Goto, children, socketState, recoveryState, history
<1>7. CASE accept
  <2>1. SpawnFailed' <=> SpawnFailed
    BY <1>7, AttemptsKept DEF Loop
  <2>2. /\ process' = process /\ backlog # << >> /\ Head(backlog) \in Cores
        /\ backlog' = Tail(backlog)
        /\ \A r \in Restarts : at'[r] = at[r]
        /\ \A c \in Cores : core'[c] = "connected" => core[c] = "connected"
    BY <1>7 DEF accept, Goto, completed, destroySocket, Ends
  <2>3. ASSUME NEW n \in 1 .. Len(backlog), backlog[n] = process, backlog[n] # Head(backlog)
        PROVE  \E k \in 1 .. Len(backlog') : backlog'[k] = process
    <3>1. n # 1 /\ n - 1 \in 1 .. Len(backlog') /\ backlog'[n - 1] = backlog[n]
      BY <2>2, <2>3
    <3> QED
      BY <2>3, <3>1
  <2>4. CASE socket = None
    <3>1. socket' = Head(backlog) /\ subscription' = Head(backlog) /\ accepting' = None
      BY <1>7, <2>4 DEF accept, completed
    <3>2. listening' = (listening \ {subscription}) \cup {Head(backlog)}
      BY <1>7, <2>4 DEF accept
    <3>3. accepting = None /\ core' = core
      BY <1>7, <2>4 DEF accept
    <3> QED
      BY <2>1, <2>2, <2>3, <2>4, <3>1, <3>2, <3>3
  <2>5. CASE socket # None
    <3>1. socket' = socket /\ subscription' = None /\ accepting' = Head(backlog)
      BY <1>7, <2>5 DEF accept, destroySocket
    <3>2. listening' = listening \ {subscription} /\ accepting = None
      BY <1>7, <2>5 DEF accept, destroySocket
    <3>3. core'[socket] # "connected"
      BY <1>7, <2>5 DEF accept, destroySocket, Ends
    <3> QED
      BY <2>1, <2>2, <2>3, <2>5, <3>1, <3>2, <3>3
  <2> QED
    BY <2>4, <2>5
<1>8. CASE acceptClosed
  <2>1. accepting # None /\ accepting \in Cores
    BY <1>8 DEF acceptClosed
  <2>2. SpawnFailed' <=> SpawnFailed
    BY <1>8, AttemptsKept DEF Loop
  <2> QED
    BY <1>8, <2>1, <2>2 DEF acceptClosed, Goto, completed, children, recoveryState, history
<1>9. ASSUME NEW c \in Cores, connect(c) PROVE SocketDiscipline'
  <2>1. SpawnFailed' <=> SpawnFailed
    BY <1>9, AttemptsKept DEF System
  <2> QED
    BY <1>9, <2>1 DEF connect, recoveryState, history
<1>10. ASSUME NEW c \in Cores, socketClosed(c) PROVE SocketDiscipline'
  <2>1. SpawnFailed' <=> SpawnFailed
    BY <1>10, AttemptsKept DEF System
  <2> QED
    BY <1>10, <2>1 DEF socketClosed, coreLost, Goto, socketState, recoveryState
<1>11. ASSUME NEW c \in Cores, processExit(c) PROVE SocketDiscipline'
  <2>1. SpawnFailed' <=> SpawnFailed
    BY <1>11, AttemptsKept DEF System
  <2> QED
    BY <1>11, <2>1 DEF processExit, coreLost, Goto, socketState, recoveryState
<1>12. ASSUME NEW c \in Cores, crash(c) PROVE SocketDiscipline'
  <2>1. SpawnFailed' <=> SpawnFailed
    BY <1>12, AttemptsKept
  <2> QED
    BY <1>12, <2>1 DEF crash, Ends, Alive, socketState, recoveryState
<1>13. CASE askRestart
  <2>1. SpawnFailed' <=> SpawnFailed
    BY <1>13, AttemptsKept
  <2> QED
    BY <1>13, <2>1 DEF askRestart, Goto, children, socketState, recoveryState
<1>14. CASE UNCHANGED vars
  <2>1. SpawnFailed' <=> SpawnFailed
    BY <1>14, AttemptsKept
  <2> QED
    BY <1>14, <2>1 DEF vars, children, socketState, recoveryState, history
<1>15. ASSUME NEW r \in Restarts, spawnThrows(r) PROVE SocketDiscipline'
  <2>1. SpawnFailed'
    BY <1>15, AttemptOrder DEF spawnThrows, SpawnFailed
  <2> QED
    BY <1>15, <2>1 DEF spawnThrows, Attempt, restartOver, Goto, socketState, history
<1>16. ASSUME NEW r \in Restarts, spawnAborts(r) PROVE SocketDiscipline'
  <2>1. SpawnFailed'
    BY <1>16, AttemptOrder DEF spawnAborts, SpawnFailed
  <2> QED
    BY <1>16, <2>1 DEF spawnAborts, Attempt, Goto, socketState, recoveryState, history
<1> QED
    BY <1>1, <1>2, <1>3, <1>4, <1>5, <1>6, <1>7, <1>8, <1>9, <1>10, <1>11, <1>12,
       <1>13, <1>14, <1>15, <1>16
       DEF Next, Caller, reStart, Loop, System

\* A restart that is not overlapped spawns a core only once it has stopped the last.
LEMMA OneStep ==
    TypeOK /\ TypeOK' /\ LifeDiscipline /\ OneAtATime /\ [Next]_vars => OneAtATime'
<1> SUFFICES ASSUME TypeOK, TypeOK', LifeDiscipline, OneAtATime, [Next]_vars
             PROVE  OneAtATime'
    OBVIOUS
<1> USE DesktopAssumption, CoresType DEF TypeOK, Callers, LifeDiscipline,
   OneAtATime, Busy, Alive
<1>1. ASSUME NEW r \in Restarts, begin(r) PROVE OneAtATime'
  <2>1. SpawnFailed' <=> SpawnFailed
    BY <1>1, AttemptsKept
  <2> QED
    BY <1>1, <2>1 DEF begin, Goto, destroySocket, killProcess, Ends, Alive
<1>2. ASSUME NEW r \in Restarts, shutdown(r) PROVE OneAtATime'
  <2>1. SpawnFailed' <=> SpawnFailed
    BY <1>2, AttemptsKept
  <2> QED
    BY <1>2, <2>1 DEF shutdown, Goto, killProcess, Ends, Alive
<1>3. ASSUME NEW r \in Restarts, applyPending(r) PROVE OneAtATime'
  <2>1. SpawnFailed' <=> SpawnFailed
    BY <1>3, AttemptsKept
  <2> QED
    BY <1>3, <2>1 DEF applyPending, Goto, children, recoveryState, history
<1>4. ASSUME NEW r \in Restarts, spawn(r) PROVE OneAtATime'
  <2>1. ~SpawnFailed'
    BY <1>4 DEF spawn, Attempt, SpawnFailed, Cores
  <2> QED
    BY <1>4, <2>1 DEF spawn, Attempt, Goto, socketState, recoveryState, history
<1>5. ASSUME NEW r \in Restarts, ended(r) PROVE OneAtATime'
  <2>1. SpawnFailed' <=> SpawnFailed
    BY <1>5, AttemptsKept
  <2> QED
    BY <1>5, <2>1 DEF ended, restartOver, Goto, children, socketState, history
<1>6. ASSUME NEW r \in Restarts, backoffEnds(r) PROVE OneAtATime'
  <2>1. SpawnFailed' <=> SpawnFailed
    BY <1>6, AttemptsKept
  <2> QED
    BY <1>6, <2>1 DEF backoffEnds, Goto, children, socketState, recoveryState, history
<1>7. CASE accept
  <2>1. SpawnFailed' <=> SpawnFailed
    BY <1>7, AttemptsKept DEF Loop
  <2> QED
    BY <1>7, <2>1 DEF accept, Goto, completed, destroySocket, Ends, Alive, recoveryState
<1>8. CASE acceptClosed
  <2>1. SpawnFailed' <=> SpawnFailed
    BY <1>8, AttemptsKept DEF Loop
  <2> QED
    BY <1>8, <2>1 DEF acceptClosed, Goto, completed, children, recoveryState, history
<1>9. ASSUME NEW c \in Cores, connect(c) PROVE OneAtATime'
  <2>1. SpawnFailed' <=> SpawnFailed
    BY <1>9, AttemptsKept DEF System
  <2> QED
    BY <1>9, <2>1 DEF connect, recoveryState, history
<1>10. ASSUME NEW c \in Cores, socketClosed(c) PROVE OneAtATime'
  <2>1. SpawnFailed' <=> SpawnFailed
    BY <1>10, AttemptsKept DEF System
  <2> QED
    BY <1>10, <2>1 DEF socketClosed, coreLost, Goto, socketState, recoveryState
<1>11. ASSUME NEW c \in Cores, processExit(c) PROVE OneAtATime'
  <2>1. SpawnFailed' <=> SpawnFailed
    BY <1>11, AttemptsKept DEF System
  <2> QED
    BY <1>11, <2>1 DEF processExit, coreLost, Goto, socketState, recoveryState
<1>12. ASSUME NEW c \in Cores, crash(c) PROVE OneAtATime'
  <2>1. SpawnFailed' <=> SpawnFailed
    BY <1>12, AttemptsKept
  <2> QED
    BY <1>12, <2>1 DEF crash, Ends, Alive, socketState, recoveryState
<1>13. CASE askRestart
  <2>1. SpawnFailed' <=> SpawnFailed
    BY <1>13, AttemptsKept
  <2> QED
    BY <1>13, <2>1 DEF askRestart, Goto, children, socketState, recoveryState
<1>14. CASE UNCHANGED vars
  <2>1. SpawnFailed' <=> SpawnFailed
    BY <1>14, AttemptsKept
  <2> QED
    BY <1>14, <2>1 DEF vars, children, socketState, recoveryState, history
<1>15. ASSUME NEW r \in Restarts, spawnThrows(r) PROVE OneAtATime'
    BY <1>15 DEF spawnThrows, Attempt, restartOver, Goto, socketState, history
<1>16. ASSUME NEW r \in Restarts, spawnAborts(r) PROVE OneAtATime'
    BY <1>16 DEF spawnAborts, Attempt, Goto, socketState, recoveryState, history
<1> QED
    BY <1>1, <1>2, <1>3, <1>4, <1>5, <1>6, <1>7, <1>8, <1>9, <1>10, <1>11, <1>12,
       <1>13, <1>14, <1>15, <1>16
       DEF Next, Caller, reStart, Loop, System

\* Nothing that was stopped on purpose is listened to or watched.
LEMMA OrderStep ==
    TypeOK /\ TypeOK' /\ Inv /\ unusual' = {} /\ [Next]_vars => InOrder' /\ ~mistaken'
<1> SUFFICES ASSUME TypeOK, TypeOK', Inv, unusual' = {}, [Next]_vars
             PROVE  InOrder' /\ ~mistaken'
    OBVIOUS
<1> USE DesktopAssumption, CoresType DEF TypeOK, Callers, LifeDiscipline
<1>1. ASSUME NEW r \in Restarts, begin(r) PROVE InOrder' /\ ~mistaken'
  <2>1. unusual = {} /\ InOrder /\ ~mistaken
    BY <1>1 DEF begin, history, Inv
  <2> QED
    BY <1>1, <2>1 DEF begin, Goto, destroySocket, killProcess, Ends, Alive, InOrder,
       Inv, OneAtATime, SocketDiscipline, Busy
<1>2. ASSUME NEW r \in Restarts, shutdown(r) PROVE InOrder' /\ ~mistaken'
  <2>1. unusual = {} /\ InOrder /\ ~mistaken
    BY <1>2 DEF shutdown, history, Inv
  <2> QED
    BY <1>2, <2>1 DEF shutdown, Goto, killProcess, Ends, Alive, InOrder, Inv,
       OneAtATime, SocketDiscipline, Busy
<1>3. ASSUME NEW r \in Restarts, applyPending(r) PROVE InOrder' /\ ~mistaken'
  <2>1. unusual = {} /\ InOrder /\ ~mistaken
    BY <1>3 DEF applyPending, history, Inv
  <2> QED
    BY <1>3, <2>1 DEF applyPending, Goto, children, recoveryState, history, InOrder,
       Inv, OneAtATime, SocketDiscipline, Busy
<1>4. ASSUME NEW r \in Restarts, spawn(r) PROVE InOrder' /\ ~mistaken'
  <2>1. unusual = {} /\ InOrder /\ ~mistaken
    BY <1>4 DEF spawn, Attempt, history, Inv
  <2> QED
    BY <1>4, <2>1 DEF spawn, Attempt, Goto, socketState, recoveryState, history, InOrder,
       Inv, OneAtATime, SocketDiscipline, Busy
<1>5. ASSUME NEW r \in Restarts, ended(r) PROVE InOrder' /\ ~mistaken'
  <2>1. unusual = {} /\ InOrder /\ ~mistaken
    BY <1>5 DEF ended, restartOver, history, Inv
  <2> QED
    BY <1>5, <2>1 DEF ended, restartOver, Goto, children, socketState, history, InOrder, Inv,
       OneAtATime, SocketDiscipline, Busy
<1>6. ASSUME NEW r \in Restarts, backoffEnds(r) PROVE InOrder' /\ ~mistaken'
  <2>1. unusual = {} /\ InOrder /\ ~mistaken
    BY <1>6 DEF backoffEnds, history, Inv
  <2> QED
    BY <1>6, <2>1 DEF backoffEnds, Goto, children, socketState, recoveryState,
       history, InOrder, Inv, OneAtATime, SocketDiscipline, Busy
<1>7. CASE accept
  <2>1. unusual = {} /\ InOrder /\ ~mistaken
    BY <1>7 DEF accept, history, Inv
  <2> QED
    BY <1>7, <2>1 DEF accept, Goto, completed, destroySocket, Ends, Alive,
       recoveryState, InOrder, Inv, OneAtATime, SocketDiscipline, Busy
<1>8. CASE acceptClosed
  <2>1. unusual = {} /\ InOrder /\ ~mistaken
    BY <1>8 DEF acceptClosed, history, Inv
  <2> QED
    BY <1>8, <2>1 DEF acceptClosed, Goto, completed, children, recoveryState,
       history, InOrder, Inv, OneAtATime, SocketDiscipline, Busy
<1>9. ASSUME NEW c \in Cores, connect(c) PROVE InOrder' /\ ~mistaken'
  <2>1. unusual = {} /\ InOrder /\ ~mistaken
    BY <1>9 DEF connect, history, Inv
  <2>2. backlog = << >> /\ socket = None /\ c = process
    BY <1>9, <2>1 DEF connect, InOrder, Inv, OneAtATime, Alive
  <2>3. Len(backlog') = 1 /\ backlog'[1] = c
    BY <1>9, <2>2 DEF connect
  <2>4. \A r \in Restarts : at[r] \notin {"delay", "begin", "close", "apply", "spawn"}
    BY <1>9, <2>1, <2>2 DEF connect, InOrder
  <2>5. \A d \in Cores : core'[d] # "spawned"
    BY <1>9, <2>1, <2>2 DEF connect, Inv, OneAtATime, Alive
  <2> QED
    BY <1>9, <2>1, <2>2, <2>3, <2>4, <2>5 DEF connect, InOrder, history
<1>10. ASSUME NEW c \in Cores, socketClosed(c) PROVE InOrder' /\ ~mistaken'
  <2>1. unusual = {} /\ InOrder /\ ~mistaken
    BY <1>10 DEF socketClosed, coreLost, Inv
  <2>2. CASE UNCHANGED <<recoveryState, at, mistaken, unusual>>
    BY <1>10, <2>1, <2>2 DEF socketClosed, InOrder, socketState, recoveryState
  <2>3. CASE c \in listening /\ ~recovering /\ ~stopping
    <3>1. c = process
      BY <2>1, <2>3 DEF InOrder, Inv, SocketDiscipline
    <3>2. c \notin killed
      BY <2>1, <2>3, <3>1 DEF InOrder
    <3>3. core[c] = "dead"
      BY <1>10 DEF socketClosed, Inv
    <3> QED
      BY <1>10, <2>1, <2>3, <3>1, <3>2, <3>3 DEF socketClosed, coreLost, Goto,
         InOrder, socketState
  <2> QED
    BY <1>10, <2>2, <2>3 DEF socketClosed, coreLost
<1>11. ASSUME NEW c \in Cores, processExit(c) PROVE InOrder' /\ ~mistaken'
  <2>1. unusual = {} /\ InOrder /\ ~mistaken
    BY <1>11 DEF processExit, coreLost, Inv
  <2>2. CASE UNCHANGED <<recoveryState, at, mistaken, unusual>>
    BY <1>11, <2>1, <2>2 DEF processExit, InOrder, socketState, recoveryState
  <2>3. CASE c = process /\ ~recovering /\ ~stopping
    <3>1. c = process
      BY <2>1, <2>3 DEF InOrder, Inv, SocketDiscipline
    <3>2. c \notin killed
      BY <2>1, <2>3, <3>1 DEF InOrder
    <3>3. core[c] = "dead"
      BY <1>11 DEF processExit, Inv
    <3> QED
      BY <1>11, <2>1, <2>3, <3>1, <3>2, <3>3 DEF processExit, coreLost, Goto,
         InOrder, socketState
  <2> QED
    BY <1>11, <2>2, <2>3 DEF processExit, coreLost
<1>12. ASSUME NEW c \in Cores, crash(c) PROVE InOrder' /\ ~mistaken'
  <2>1. unusual = {} /\ Busy = {} /\ InOrder /\ ~mistaken
    BY <1>12 DEF crash, Inv
  <2> QED
    BY <1>12, <2>1 DEF crash, Ends, Alive, socketState, recoveryState, InOrder, Busy
<1>13. CASE askRestart
  <2>1. unusual = {} /\ Busy = {} /\ (process = None \/ socket = process) /\ InOrder /\ ~mistaken
    BY <1>13 DEF askRestart, Inv
  <2> QED
    BY <1>13, <2>1 DEF askRestart, Goto, children, socketState, recoveryState,
       InOrder, Busy
<1>14. CASE UNCHANGED vars
    BY <1>14 DEF vars, children, socketState, recoveryState, history, InOrder, Inv
<1>15. ASSUME NEW r \in Restarts, spawnThrows(r) PROVE InOrder' /\ ~mistaken'
  <2>1. unusual = {} /\ InOrder /\ ~mistaken
    BY <1>15 DEF spawnThrows, history, Inv
  <2> QED
    BY <1>15, <2>1 DEF spawnThrows, Attempt, restartOver, Goto, socketState, history,
       InOrder, Inv, OneAtATime, SocketDiscipline, Busy
<1>16. ASSUME NEW r \in Restarts, spawnAborts(r) PROVE InOrder' /\ ~mistaken'
  <2>1. unusual = {} /\ InOrder /\ ~mistaken
    BY <1>16 DEF spawnAborts, history, Inv
  <2> QED
    BY <1>16, <2>1 DEF spawnAborts, Attempt, Goto, socketState, recoveryState,
       history, InOrder, Inv, OneAtATime, SocketDiscipline, Busy
<1> QED
    BY <1>1, <1>2, <1>3, <1>4, <1>5, <1>6, <1>7, <1>8, <1>9, <1>10, <1>11, <1>12,
       <1>13, <1>14, <1>15, <1>16
       DEF Next, Caller, reStart, Loop, System

\* The client and its cores keep to their types; a recovery beyond the limit of
\* the retries is never counted.
THEOREM TypeCorrect == Spec => []TypeOK
<1>1. Init => TypeOK
  <2> SUFFICES ASSUME Init PROVE TypeOK
    OBVIOUS
  <2>1. crashCount \in 0 .. MaxRetries + 1 /\ restarts \in 0 .. MaxRestarts /\ crashes \in 0 .. MaxCrashes
    BY DesktopAssumption DEF Init
  <2>2. backlog \in Seq(Cores) /\ at \in [Callers -> Places]
    BY DEF Init, Places
  <2> QED
    BY <2>1, <2>2 DEF Init, TypeOK
<1>2. Init => LifeDiscipline
    BY CoresType DEF Init, LifeDiscipline, Callers
<1>3. TypeOK /\ LifeDiscipline /\ [Next]_vars => (TypeOK /\ LifeDiscipline)'
    BY TypeStep, LifeStep
<1> QED
    BY <1>1, <1>2, <1>3, PTL DEF Spec

\* The inductive invariant of service.dart and of the cores it spawns.
THEOREM Safety == Spec => []Inv
<1>1. Init => Inv
  <2> SUFFICES ASSUME Init PROVE Inv
    OBVIOUS
  <2>1. LifeDiscipline /\ SocketDiscipline
    BY CoresType DEF Init, LifeDiscipline, SocketDiscipline, Callers
  <2>2. OneAtATime
    BY CoresType DEF Init, OneAtATime, SpawnFailed, Busy, Alive, Callers
  <2>3. InOrder /\ ~mistaken
    BY CoresType DEF Init, InOrder, Callers
  <2> QED
    BY <2>1, <2>2, <2>3 DEF Inv
<1>2. TypeOK /\ TypeOK' /\ Inv /\ [Next]_vars => Inv'
    BY LifeStep, SocketStep, OneStep, OrderStep DEF Inv
<1> QED
    BY <1>1, <1>2, TypeCorrect, PTL DEF Spec

\* The core in use can be talked to, also when restarts overlap.
THEOREM CoreReachable == Spec => []Reachable
<1>1. TypeOK /\ Inv => Reachable
    BY CoresType DEF TypeOK, Inv, LifeDiscipline, SocketDiscipline, OneAtATime, Reachable, Quiet, Alive,
       Callers
<1> QED
    BY <1>1, TypeCorrect, Safety, PTL

\* Restarts and recoveries that do not overlap leave one core behind.
THEOREM OneCoreLeft == Spec => []OneCore
<1>1. Inv => OneCore
    BY DEF Inv, OneAtATime, OneCore
<1> QED
    BY <1>1, Safety, PTL

\* _onCoreLost takes no core for crashed that shutdown has stopped, unless
\* restarts, connections and crashes have come at an odd time.
THEOREM StopsAreNoCrashes == Spec => []NotMistaken
<1>1. Inv => NotMistaken
    BY DEF Inv, NotMistaken
<1> QED
    BY <1>1, Safety, PTL
=============================================================================
