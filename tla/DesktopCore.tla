---------------------------- MODULE DesktopCore -----------------------------
(***************************************************************************)
(* The desktop client of the core, lib/mihomo/service.dart: it spawns the  *)
(* core as a child process, accepts its connection on a socket of its own, *)
(* restarts it on demand and recovers it after a crash.                    *)
(*                                                                         *)
(* Dart runs one event at a time, so that an action is what a call does    *)
(* between two awaits that wait for the system (closing a socket, swapping *)
(* in an update, spawning a process, a delay); an await of what is already *)
(* there lets no event in.  The callers are the restarts under way (asked  *)
(* for, or made by the crash recovery) and the loop that accepts           *)
(* connections.  A core exits when its connection is closed                *)
(* (core/server.go).  The helper service is not used.                      *)
(***************************************************************************)
EXTENDS Naturals, Sequences

CONSTANTS
    MaxCores,    \* child processes spawned (a bound)
    Restarts,    \* calls of reStart under way (a bound)
    MaxRestarts, \* restarts asked for (a bound)
    MaxCrashes,  \* crashes (a bound)
    MaxRetries,  \* _maxCrashRetries
    Accept,      \* the loop of _initServer
    None         \* null

ASSUME DesktopAssumption ==
    /\ MaxCores \in Nat /\ MaxRestarts \in Nat /\ MaxCrashes \in Nat /\ MaxRetries \in Nat
    /\ None \notin (1 .. MaxCores) \cup Restarts /\ Accept \notin Restarts

\* Child processes, numbered in the order of their birth; an attempt to spawn one
\* that comes to nothing has a number too.
Cores == 1 .. MaxCores

VARIABLES
    core,        \* what each child process is
    process,     \* the child process of the client
    backlog,     \* connections not yet accepted
    accepting,   \* the core whose connection the loop handles
    socket,      \* socketCompleter: the core it is completed with, or None
    subscription,\* _socketSubscription
    listening,   \* cores whose socket is listened to
    eof, exited, \* cores whose end of file, whose exit is not yet reported
    stopping, recovering,
    crashCount,
    at,          \* where each caller is
    recovery,    \* the restart that the crash recovery makes
    killed,      \* cores stopped on purpose (history)
    mistaken,    \* one of them was taken for a crash (history)
    unusual,     \* restarts and crashes that came at an odd time (history)
    restarts, crashes

Callers == Restarts \cup {Accept}

children == <<core, process, eof, exited, crashes>>
socketState == <<backlog, accepting, socket, subscription, listening>>
recoveryState == <<stopping, recovering, crashCount, recovery>>
history == <<killed, mistaken, unusual, restarts>>
vars == <<children, socketState, recoveryState, at, history>>

Places == {"idle", "delay", "begin", "close", "apply", "spawn", "init"}

TypeOK ==
    /\ core \in [Cores -> {"none", "spawned", "connected", "dead", "failed", "aborted"}]
    /\ process \in Cores \cup {None}
    /\ backlog \in Seq(Cores)
    /\ accepting \in Cores \cup {None}
    /\ socket \in Cores \cup {None}
    /\ subscription \in Cores \cup {None}
    /\ listening \subseteq Cores
    /\ eof \subseteq Cores /\ exited \subseteq Cores /\ killed \subseteq Cores
    /\ stopping \in BOOLEAN /\ recovering \in BOOLEAN /\ mistaken \in BOOLEAN
    /\ crashCount \in 0 .. MaxRetries + 1
    /\ at \in [Callers -> Places]
    /\ recovery \in Restarts \cup {None}
    /\ unusual \subseteq {"overlap", "early", "again"}
    /\ restarts \in 0 .. MaxRestarts /\ crashes \in 0 .. MaxCrashes

Init ==
    /\ core = [c \in Cores |-> "none"] /\ process = None
    /\ backlog = << >> /\ accepting = None
    /\ socket = None /\ subscription = None /\ listening = {}
    /\ eof = {} /\ exited = {} /\ crashes = 0
    /\ stopping = FALSE /\ recovering = FALSE /\ crashCount = 0 /\ recovery = None
    /\ at = [p \in Callers |-> "idle"]
    /\ killed = {} /\ mistaken = FALSE /\ unusual = {} /\ restarts = 0

Alive(c) == core[c] \in {"spawned", "connected"}
Goto(p, place) == at' = [at EXCEPT ![p] = place]
Busy == {r \in Restarts : at[r] # "idle"}

\* A child process ends: its exit and, once it had connected, an end of file
\* are on their way to the client.
Ends(c) ==
    /\ core' = [core EXCEPT ![c] = "dead"]
    /\ exited' = exited \cup {c}
    /\ eof' = IF core[c] = "connected" THEN eof \cup {c} ELSE eof

-----------------------------------------------------------------------------
(* _destroySocket, inside shutdown and the accept loop *)

\* The subscription is cancelled and forgotten; if the completer is completed,
\* the calls that wait get their defaults and the socket is closed, upon which
\* its core exits.
destroySocket ==
    /\ listening' = listening \ {subscription}
    /\ subscription' = None
    /\ IF socket # None /\ core[socket] = "connected"
       THEN Ends(socket) ELSE UNCHANGED <<core, exited, eof>>
    /\ killed' = killed \cup {c \in {socket} \ {None} : Alive(c)}

-----------------------------------------------------------------------------
(* The accept loop of _initServer *)

\* The socket of the core becomes the client's.
completed(c) ==
    /\ socket' = c
    /\ subscription' = c
    /\ accepting' = None
    /\ Goto(Accept, "idle")

accept ==
    /\ at[Accept] = "idle" /\ backlog # << >>
    /\ backlog' = Tail(backlog)
    /\ IF socket = None
       THEN /\ completed(Head(backlog))
            /\ listening' = (listening \ {subscription}) \cup {Head(backlog)}
            /\ UNCHANGED <<core, exited, eof, killed>>
       ELSE /\ destroySocket
            /\ accepting' = Head(backlog)
            /\ Goto(Accept, "close")
            /\ UNCHANGED socket
    /\ UNCHANGED <<process, crashes, recoveryState, mistaken, unusual, restarts>>

acceptClosed ==
    /\ at[Accept] = "close"
    /\ completed(accepting)
    /\ listening' = listening \cup {accepting}
    /\ UNCHANGED <<children, backlog, recoveryState, history>>

-----------------------------------------------------------------------------
(* reStart and shutdown *)

\* The end of shutdown: the process is killed and forgotten.
killProcess(p) ==
    /\ process' = None
    /\ stopping' = FALSE
    /\ IF p # None /\ Alive(p) THEN Ends(p) ELSE UNCHANGED <<core, exited, eof>>
    /\ killed' = killed \cup {c \in {p} \ {None} : Alive(c)}

\* Mutant: the core there is is not shut down first.
beginOver(r) ==
    /\ at[r] = "begin"
    /\ Goto(r, "apply")
    /\ UNCHANGED <<children, socketState, recoveryState, history>>

\* Mutant: the stop is not marked as deliberate, and the subscription is kept.
beginUnmarked(r) ==
    /\ at[r] = "begin"
    /\ Goto(r, IF process = None THEN "apply" ELSE "close")
    /\ IF process # None /\ socket # None /\ core[socket] = "connected"
       THEN Ends(socket) /\ killed' = killed \cup {socket}
       ELSE UNCHANGED <<core, exited, eof, killed>>
    /\ UNCHANGED <<process, crashes, socketState, recoveryState, mistaken, unusual, restarts>>

\* isStarting is never set, so that a restart does not keep out another one.
begin(r) ==
    /\ at[r] = "begin"
    /\ IF process = None
       THEN /\ Goto(r, "apply")
            /\ UNCHANGED <<core, exited, eof, killed, process, stopping, socket, subscription, listening>>
       ELSE IF socket = None
       THEN /\ listening' = listening \ {subscription}
            /\ subscription' = None
            /\ killProcess(process)
            /\ Goto(r, "apply")
            /\ UNCHANGED socket
       ELSE /\ destroySocket
            /\ stopping' = TRUE
            /\ Goto(r, "close")
            /\ UNCHANGED <<process, socket>>
    /\ UNCHANGED <<crashes, backlog, accepting, recovering, crashCount, recovery, mistaken, unusual, restarts>>

\* The socket is closed: the completer is renewed and shutdown goes on.
shutdown(r) ==
    /\ at[r] = "close"
    /\ socket' = None
    /\ killProcess(process)
    /\ Goto(r, "apply")
    /\ UNCHANGED <<crashes, backlog, accepting, subscription, listening,
                   recovering, crashCount, recovery, mistaken, unusual, restarts>>

\* A pending update of the core is applied, and the completer renewed (again).
applyPending(r) ==
    /\ at[r] = "apply"
    /\ socket' = None
    /\ Goto(r, "spawn")
    /\ UNCHANGED <<children, backlog, accepting, subscription, listening, recoveryState, history>>

\* The next number goes to an attempt of this outcome.
Attempt(c, outcome) ==
    /\ core[c] = "none" /\ \A d \in 1 .. c - 1 : core[d] # "none"
    /\ core' = [core EXCEPT ![c] = outcome]

\* A restart is over; if the crash recovery makes it, so is the recovery.
restartOver(r) ==
    /\ Goto(r, "idle")
    /\ recovering' = (recovering /\ recovery # r)
    /\ recovery' = IF recovery = r THEN None ELSE recovery

spawn(r) ==
    /\ at[r] = "spawn"
    /\ \E c \in Cores : Attempt(c, "spawned") /\ process' = c
    /\ \A c \in Cores : core[c] # "aborted"
    /\ Goto(r, "init")
    /\ UNCHANGED <<eof, exited, crashes, socketState, recoveryState, history>>

\* Process.start throws out of reStart and of restartCore; the recovery catches
\* it and does not try again.
spawnThrows(r) ==
    /\ at[r] = "spawn"
    /\ \E c \in Cores : Attempt(c, "failed")
    /\ \A c \in Cores : core[c] # "aborted"
    /\ restartOver(r)
    /\ UNCHANGED <<process, eof, exited, crashes, socketState, stopping, crashCount, history>>

\* There is no server, then or ever; restartCore goes on, its calls time out.
spawnAborts(r) ==
    /\ at[r] = "spawn"
    /\ \E c \in Cores : Attempt(c, "aborted")
    /\ \A c \in Cores : core[c] \in {"none", "aborted"}
    /\ Goto(r, "init")
    /\ UNCHANGED <<process, eof, exited, crashes, socketState, recoveryState, history>>

\* Mutant: the recovery is ended only when it gives up.
endedRecovering(r) ==
    /\ at[r] = "init"
    /\ Goto(r, "idle")
    /\ recovery' = IF recovery = r THEN None ELSE recovery
    /\ UNCHANGED <<children, socketState, stopping, recovering, crashCount, history>>

\* Mutant: the completer is renewed once the core was spawned.
endedRenewing(r) ==
    /\ at[r] = "init"
    /\ Goto(r, "idle")
    /\ socket' = None
    /\ recovering' = (recovering /\ recovery # r)
    /\ recovery' = IF recovery = r THEN None ELSE recovery
    /\ UNCHANGED <<children, backlog, accepting, subscription, listening, stopping, crashCount, history>>

\* restartCore goes on with the set-up of the core, whose calls are answered or
\* time out.
ended(r) ==
    /\ at[r] = "init"
    /\ restartOver(r)
    /\ UNCHANGED <<children, socketState, stopping, crashCount, history>>

reStart(r) ==
    \/ begin(r) \/ shutdown(r) \/ applyPending(r)
    \/ spawn(r) \/ spawnThrows(r) \/ spawnAborts(r)
    \/ ended(r)

-----------------------------------------------------------------------------
(* _onCoreLost and _handleCrashRestart *)

\* The counter starts again after a minute without a crash.
coreLost(c) ==
    IF recovering \/ stopping
    THEN UNCHANGED <<recoveryState, at, mistaken, unusual>>
    ELSE /\ mistaken' = (mistaken \/ c \in killed)
         /\ unusual' = IF Busy = {} THEN unusual ELSE unusual \cup {"overlap"}
         /\ \E n \in {crashCount + 1, 1} :
               /\ crashCount' = IF n > MaxRetries THEN MaxRetries + 1 ELSE n
               /\ IF n > MaxRetries
                  THEN UNCHANGED <<recovering, recovery, at>>   \* gives up
                  ELSE \E r \in Restarts :
                          /\ at[r] = "idle"
                          /\ Goto(r, "delay")
                          /\ recovering' = TRUE
                          /\ recovery' = r
         /\ UNCHANGED stopping

socketClosed(c) ==
    /\ c \in eof
    /\ eof' = eof \ {c}
    /\ IF c \in listening THEN coreLost(c) ELSE UNCHANGED <<recoveryState, at, mistaken, unusual>>
    /\ UNCHANGED <<core, process, exited, crashes, socketState, killed, restarts>>

processExit(c) ==
    /\ c \in exited
    /\ exited' = exited \ {c}
    /\ IF c = process THEN coreLost(c) ELSE UNCHANGED <<recoveryState, at, mistaken, unusual>>
    /\ UNCHANGED <<core, process, eof, crashes, socketState, killed, restarts>>

\* The delay, a second or more, outlasts what the system has to report.
backoffEnds(r) ==
    /\ at[r] = "delay"
    /\ backlog = << >> /\ eof = {} /\ exited = {}
    /\ Goto(r, "begin")
    /\ UNCHANGED <<children, socketState, recoveryState, history>>

-----------------------------------------------------------------------------
(* The environment *)

\* A restart is asked for, perhaps while another one is under way, perhaps before
\* the core in use has connected.
askRestart ==
    /\ restarts < MaxRestarts
    /\ unusual' = unusual
         \cup (IF Busy # {} THEN {"overlap"} ELSE {})
         \cup (IF process # None /\ socket # process THEN {"early"} ELSE {})
    /\ \E r \in Restarts : at[r] = "idle" /\ Goto(r, "begin")
    /\ restarts' = restarts + 1
    /\ UNCHANGED <<children, socketState, recoveryState, killed, mistaken>>

connect(c) ==
    /\ core[c] = "spawned"
    /\ core' = [core EXCEPT ![c] = "connected"]
    /\ backlog' = Append(backlog, c)
    /\ UNCHANGED <<process, eof, exited, crashes, accepting, socket, subscription, listening,
                   recoveryState, at, history>>

\* A core crashes, perhaps while a restart or a recovery is under way.
crash(c) ==
    /\ crashes < MaxCrashes
    /\ Alive(c)
    /\ unusual' = IF Busy = {} THEN unusual ELSE unusual \cup {"again"}
    /\ Ends(c)
    /\ crashes' = crashes + 1
    /\ UNCHANGED <<process, socketState, recoveryState, at, killed, mistaken, restarts>>

Caller(r) == reStart(r) \/ backoffEnds(r)
Loop == accept \/ acceptClosed
System(c) == connect(c) \/ socketClosed(c) \/ processExit(c)

Next ==
    \/ \E r \in Restarts : Caller(r)
    \/ Loop
    \/ \E c \in Cores : System(c) \/ crash(c)
    \/ askRestart

Spec == Init /\ [][Next]_vars

\* An await ends, a core connects or ends, and the system reports it.
Fairness ==
    /\ \A r \in Restarts : WF_vars(Caller(r))
    /\ WF_vars(Loop)
    /\ \A c \in Cores : WF_vars(System(c))

FairSpec == Spec /\ Fairness

-----------------------------------------------------------------------------
(* Properties *)

\* No step is under way but a crash or a restart asked for.
Quiet ==
    /\ \A p \in Callers : at[p] = "idle"
    /\ backlog = << >> /\ eof = {} /\ exited = {}
    /\ \A c \in Cores : core[c] # "spawned"

GaveUp == crashCount > MaxRetries

\* The last attempt to spawn a core came to nothing.
SpawnFailed ==
    \E c \in Cores :
       /\ core[c] \in {"failed", "aborted"}
       /\ \A d \in Cores : d > c => core[d] = "none"

\* Restarts and recoveries leave one core behind: when nothing is under way, a
\* core that lives is the client's process.  The socket of every other one was
\* closed, by shutdown or by the next connection.  (Restarts that overlap do
\* leave a core behind: isStarting is never set.)
OneCore == Quiet /\ "overlap" \notin unusual => \A c \in Cores : Alive(c) => c = process

\* The core in use can be talked to: when nothing is under way and the client's
\* process lives, the completer holds its socket, which is listened to.  Of the
\* steps that renew the completer, none comes after the one that completes it,
\* also when restarts overlap.  (A restart that renews the completer during
\* another one and then fails to spawn leaves a core that cannot be talked to.)
Reachable ==
    /\ Quiet /\ process # None /\ Alive(process)
    /\ "overlap" \in unusual => ~SpawnFailed
    =>
    socket = process /\ process \in listening

\* "The socket EOF that a deliberate stop produces must NOT be mistaken for a
\* core crash": the recovery starts only for a core that was not stopped.  (Not
\* so for a core stopped before its connection was accepted, which is then
\* accepted and listened to after the stop.)
NotMistaken == mistaken => unusual # {}

\* "The crash handler respawns the core": again and again a core runs, unless
\* the retries are used up, no core was ever asked for, or the last attempt to
\* spawn one has failed: the recovery has retries for crashes, none for that.  (A
\* crash while a recovery or a restart is under way may be overlooked.)
Respawns ==
    []<>(\/ process # None /\ Alive(process)
         \/ GaveUp \/ restarts = 0 \/ SpawnFailed \/ unusual # {})

-----------------------------------------------------------------------------
(* The inductive invariant *)

\* What has connected was spawned before; what was reported, or stopped, is dead.
\* The attempts have been made in the order of their numbers.
LifeDiscipline ==
    /\ \A c, d \in Cores : d < c /\ core[c] # "none" => core[d] # "none"
    /\ \A n \in 1 .. Len(backlog) : core[backlog[n]] \in {"connected", "dead"}
    /\ socket # None => core[socket] \in {"connected", "dead"}
    /\ process # None => core[process] # "none"
    /\ \A c \in eof \cup exited \cup killed : core[c] = "dead"
    /\ accepting # None <=> at[Accept] = "close"
    /\ at[Accept] \in {"idle", "close"}
    /\ accepting # None =>
          /\ core[accepting] \in {"connected", "dead"}
          /\ socket # None => core[socket] = "dead"

\* The connection of the client's core is on its way to the completer, unless a
\* restart that has shut it down, or will replace it, is under way or has failed.
SocketDiscipline ==
    /\ listening \subseteq {subscription} \ {None}
    /\ accepting # None => subscription = None
    /\ socket # None /\ core[socket] = "connected" => subscription = socket /\ socket \in listening
    /\ process # None /\ core[process] = "connected" =>
          \/ \E n \in 1 .. Len(backlog) : backlog[n] = process
          \/ process \in {accepting, socket}
          \/ \E r \in Restarts : at[r] \in {"close", "apply", "spawn"}
          \/ SpawnFailed

\* One restart at a time spawns one core at a time.
OneAtATime ==
    "overlap" \notin unusual =>
       /\ \A r, s \in Busy : r = s
       /\ \A r \in Restarts : at[r] \in {"apply", "spawn"} => process = None
       /\ SpawnFailed => process = None
       /\ \A c \in Cores : Alive(c) => c = process

\* As long as nothing unusual has happened, all that the client knows of is its
\* one process, and what was stopped is not listened to.
InOrder ==
    /\ accepting = None
    /\ \A n \in 1 .. Len(backlog) : backlog[n] = process
    /\ Len(backlog) <= 1
    /\ backlog # << >> => socket = None
    /\ socket \in {None, process} /\ subscription \in {None, process}
    /\ \A c \in Cores : core[c] = "spawned" => backlog = << >> /\ socket = None
    /\ process \in killed => \E r \in Restarts : at[r] = "close"
    /\ \A r \in Restarts :
          /\ at[r] = "delay" => process # None /\ core[process] = "dead"
          /\ at[r] = "begin" =>
                /\ backlog = << >>
                /\ process # None => socket = process \/ core[process] = "dead"
          /\ at[r] = "close" => /\ stopping /\ backlog = << >> /\ subscription = None
                                /\ process # None /\ core[process] = "dead"
          /\ at[r] \in {"apply", "spawn"} =>
                process = None /\ socket = None /\ subscription = None /\ backlog = << >>

Inv ==
    /\ LifeDiscipline /\ SocketDiscipline /\ OneAtATime
    /\ unusual = {} => InOrder /\ ~mistaken

=============================================================================
