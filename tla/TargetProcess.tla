--------------------------- MODULE TargetProcess ---------------------------
(***************************************************************************)
(* The life of the server process: opening the database, starting the      *)
(* backup, e-mail and league jobs and the HTTP server, and stopping them   *)
(* in an order that keeps the database and the Socket.IO server alive for  *)
(* as long as anything still uses them.                                    *)
(*                                                                         *)
(* JavaScript between two awaits is one step.  Starting is one step: the   *)
(* scheduler starts and the port is bound before a signal can arrive.  The *)
(* points where closing awaits are the values of closer.                   *)
(***************************************************************************)
EXTENDS Integers

CONSTANTS
    Jobs,        \* number of scheduled league jobs, run in their order
    Connections  \* HTTP connections

ASSUME ProcessAssumption == Jobs \in Nat \ {0}

VARIABLES
    config,    \* which jobs this deployment runs
    database,  \* "none", "open" or "closed"
    http,      \* "off", "listening" or "draining"
    io,        \* the Socket.IO server is open
    scheduler, \* createTargetScheduler's state
    timer,     \* jobs whose interval timer is set
    started,   \* emailStarted, backupStarted
    cycle,     \* league job under way, 0 when no cycle is in flight
    running,   \* of "email" and "backup", those with a cycle in flight
    conn,      \* each connection and the request on it
    grace,     \* incompleteRequestGraceExpired
    closer     \* what close() awaits; "none" before and "done" after it

jobsState == <<scheduler, timer, started, cycle, running>>
vars == <<config, database, http, io, jobsState, conn, grace, closer>>

Workers == {"email", "backup"}
Configs == [league : {"enabled", "disabled", "paused_maintenance"}, workers : SUBSET Workers]

\* The scheduler of an environment that runs no league jobs never moves.
Dormant == {"disabled", "paused_maintenance"}

Init ==
    /\ config \in Configs
    /\ database = "none"
    /\ http = "off"
    /\ io = FALSE
    /\ scheduler = IF config.league = "enabled" THEN "not_started" ELSE config.league
    /\ timer = {}
    /\ started = {}
    /\ cycle = 0
    /\ running = {}
    /\ conn = [c \in Connections |-> "none"]
    /\ grace = FALSE
    /\ closer = "none"

----------------------------------------------------------------------------
\* openDeployedTargetRuntime and createTargetHttpServer.
OpenRuntime ==
    /\ database = "none" /\ closer = "none"
    /\ database' = "open"
    /\ io' = TRUE
    /\ UNCHANGED <<config, http, jobsState, conn, grace, closer>>

\* A check of the database or the composition of the server fails: what was
\* opened is closed again and the process ends.
OpenFails ==
    /\ database = "none" /\ closer = "none"
    /\ database' = "closed"
    /\ closer' = "done"
    /\ UNCHANGED <<config, http, io, jobsState, conn, grace>>

Unstarted == database = "open" /\ http = "off" /\ closer = "none"

\* start(): every enabled worker starts with an initial cycle.
StartJobs(workers) ==
    /\ started' = workers
    /\ running' = workers
    /\ IF config.league = "enabled"
       THEN /\ scheduler' = "running"
            /\ cycle' = 1
            /\ timer' = workers \cup {"league"}
       ELSE /\ UNCHANGED <<scheduler, cycle>>
            /\ timer' = workers

Start ==
    /\ Unstarted
    /\ StartJobs(config.workers)
    /\ http' = "listening"
    /\ UNCHANGED <<config, database, io, conn, grace, closer>>

\* The port is taken: the jobs run already when close() begins.
ListenFails ==
    /\ Unstarted
    /\ StartJobs(config.workers)
    /\ closer' = "starting"
    /\ UNCHANGED <<config, database, http, io, conn, grace>>

\* emailJob.start throws while it recovers interrupted claims: the backup
\* worker runs already, e-mail and league jobs do not.
StartFails ==
    /\ Unstarted
    /\ "email" \in config.workers
    /\ started' = config.workers \ {"email"}
    /\ running' = started'
    /\ timer' = started'
    /\ scheduler' = IF scheduler \in Dormant THEN scheduler ELSE "failed"
    /\ closer' = "starting"
    /\ UNCHANGED <<config, database, http, io, cycle, conn, grace>>

----------------------------------------------------------------------------
\* The interval starts a cycle unless one is in flight.
RunCycle ==
    /\ "league" \in timer
    /\ scheduler = "running"
    /\ cycle = 0
    /\ cycle' = 1
    /\ UNCHANGED <<config, database, http, io, scheduler, timer, started, running, conn, grace, closer>>

\* Mutant of NextJob: one job too many.
NextJobPastLast(j) == IF j <= Jobs THEN j + 1 ELSE 0

NextJob(j) == IF j < Jobs THEN j + 1 ELSE 0

JobSucceeds ==
    /\ cycle # 0
    /\ cycle' = NextJob(cycle)
    /\ UNCHANGED <<config, database, http, io, scheduler, timer, started, running, conn, grace, closer>>

\* A job that throws is logged and the cycle goes on with the next one.
AfterThrow(j) == NextJob(j)

JobThrows ==
    /\ cycle # 0
    /\ cycle' = AfterThrow(cycle)
    /\ UNCHANGED <<config, database, http, io, scheduler, timer, started, running, conn, grace, closer>>

\* The e-mail and backup workers have timers of their own.
WorkerRuns(k) ==
    /\ k \in timer
    /\ k \notin running
    /\ running' = running \cup {k}
    /\ UNCHANGED <<config, database, http, io, scheduler, timer, started, cycle, conn, grace, closer>>

WorkerSettles(k) ==
    /\ k \in running
    /\ running' = running \ {k}
    /\ UNCHANGED <<config, database, http, io, scheduler, timer, started, cycle, conn, grace, closer>>

----------------------------------------------------------------------------
Request(c, from, to) ==
    /\ conn[c] \in from
    /\ conn' = [conn EXCEPT ![c] = to]
    /\ UNCHANGED <<config, database, http, io, jobsState, grace, closer>>

\* A client connects and starts sending; only while the server listens.
Connect(c) == http = "listening" /\ Request(c, {"none"}, "receiving")

\* A connection kept alive carries another request, also while draining.
SendAgain(c) == Request(c, {"idle"}, "receiving")

\* The body is complete and the handler runs.
Receive(c) == Request(c, {"receiving"}, "handling")

\* A WebSocket client of Socket.IO, which stays until io.close().
Upgrade(c) == io /\ Request(c, {"receiving"}, "upgraded")

\* Mutant of AfterResponse: the connection is kept alive in any case.
AfterResponseKept == "idle"

\* finished(): after the grace a connection ends with its response.
AfterResponse == IF grace THEN "none" ELSE "idle"

Respond(c) == Request(c, {"handling"}, AfterResponse)

\* The client goes away: a handler that runs keeps running.
ClientLeaves(c) ==
    \/ Request(c, {"idle", "receiving", "upgraded"}, "none")
    \/ Request(c, {"handling"}, "abandoned")

HandlerEnds(c) == Request(c, {"abandoned"}, "none")

\* closeIncompleteConnection, for every connection: no complete request.
GraceExpires ==
    /\ closer \in {"league", "email", "backup", "server"}
    /\ ~grace
    /\ grace' = TRUE
    /\ conn' = [c \in Connections |-> IF conn[c] \in {"idle", "receiving"} THEN "none" ELSE conn[c]]
    /\ UNCHANGED <<config, database, http, io, jobsState, closer>>

----------------------------------------------------------------------------
\* close(): stop accepting, drop idle connections, clear the interval and
\* await the cycle in flight.
BeginClose ==
    /\ http' = IF http = "listening" THEN "draining" ELSE http
    /\ scheduler' = IF scheduler \in Dormant THEN scheduler ELSE "stopping"
    /\ timer' = timer \ {"league"}
    /\ conn' = [c \in Connections |-> IF conn[c] = "idle" THEN "none" ELSE conn[c]]
    /\ closer' = "league"
    /\ UNCHANGED <<config, database, io, started, cycle, running, grace>>

\* SIGTERM or SIGINT; a second signal returns the same promise.
Shutdown == http = "listening" /\ closer = "none" /\ BeginClose

\* The failed start closes what it started.
AbortStart == closer = "starting" /\ BeginClose

\* Mutant of Closes: the workers are closed with the league scheduler only.
ClosesWithLeague(k) == IF scheduler = "stopping" THEN timer \ {k} ELSE timer

\* emailJob.close / backupJob.close, for a worker that was started.
Closes(k) == IF k \in started THEN timer \ {k} ELSE timer

\* Mutant of LeagueIdle: the cycle in flight is not awaited.
LeagueNotAwaited == TRUE

LeagueIdle == cycle = 0

CloseEmail ==
    /\ closer = "league"
    /\ LeagueIdle
    /\ timer' = Closes("email")
    /\ closer' = "email"
    /\ UNCHANGED <<config, database, http, io, scheduler, started, cycle, running, conn, grace>>

CloseBackup ==
    /\ closer = "email"
    /\ "email" \notin running
    /\ timer' = Closes("backup")
    /\ closer' = "backup"
    /\ UNCHANGED <<config, database, http, io, scheduler, started, cycle, running, conn, grace>>

\* Everything scheduled is idle: the scheduler is stopped, sockets closed.
CloseSockets ==
    /\ closer = "backup"
    /\ "backup" \notin running
    /\ scheduler' = IF scheduler \in Dormant THEN scheduler ELSE "stopped"
    /\ io' = FALSE
    /\ conn' = [c \in Connections |-> IF conn[c] = "upgraded" THEN "none" ELSE conn[c]]
    /\ closer' = "server"
    /\ UNCHANGED <<config, database, http, timer, started, cycle, running, grace>>

\* Mutant of Drained: only requests still being received are awaited.
DrainedOfSenders == \A c \in Connections : conn[c] # "receiving"

\* server.close calls back when its connections have ended.
Drained == \A c \in Connections : conn[c] \in {"none", "abandoned"}

\* runtime.close: the database goes last.
CloseRuntime ==
    /\ closer = "server"
    /\ Drained
    /\ database' = "closed"
    /\ http' = "off"
    /\ closer' = "done"
    /\ UNCHANGED <<config, io, jobsState, conn, grace>>

----------------------------------------------------------------------------
Closing == CloseEmail \/ CloseBackup \/ CloseSockets \/ CloseRuntime

Serve(c) ==
    \/ Connect(c) \/ SendAgain(c) \/ Receive(c) \/ Upgrade(c)
    \/ Respond(c) \/ ClientLeaves(c) \/ HandlerEnds(c)

Next ==
    \/ OpenRuntime \/ OpenFails \/ Start \/ ListenFails \/ StartFails
    \/ RunCycle \/ JobSucceeds \/ JobThrows
    \/ \E k \in Workers : WorkerRuns(k) \/ WorkerSettles(k)
    \/ \E c \in Connections : Serve(c)
    \/ Shutdown \/ AbortStart \/ GraceExpires \/ Closing

Spec == Init /\ [][Next]_vars

\* Timers fire, jobs and handlers settle, the grace runs out, and code that
\* awaits goes on once its promise is settled.  Nothing makes a client send.
FairSpec ==
    /\ Spec
    /\ WF_vars(RunCycle) /\ WF_vars(JobSucceeds \/ JobThrows)
    /\ \A k \in Workers : WF_vars(WorkerSettles(k))
    /\ \A c \in Connections : WF_vars(Respond(c) \/ HandlerEnds(c))
    /\ WF_vars(AbortStart) /\ WF_vars(GraceExpires) /\ WF_vars(Closing)

----------------------------------------------------------------------------
\* Types of the process's state.
TypeOK ==
    /\ config \in Configs
    /\ database \in {"none", "open", "closed"}
    /\ http \in {"off", "listening", "draining"}
    /\ io \in BOOLEAN
    /\ scheduler \in Dormant \cup {"not_started", "running", "failed", "stopping", "stopped"}
    /\ timer \in SUBSET (Workers \cup {"league"})
    /\ started \in SUBSET Workers
    /\ cycle \in 0..Jobs
    /\ running \in SUBSET Workers
    /\ conn \in [Connections -> {"none", "idle", "receiving", "handling", "abandoned", "upgraded"}]
    /\ grace \in BOOLEAN
    /\ closer \in {"none", "starting", "league", "email", "backup", "server", "done"}

\* The database outlives the work: when it is closed no job is in flight and
\* no handler whose client still waits.  Only a handler whose client has
\* left may find it closed.
DatabaseOutlivesWork ==
    database = "closed" =>
        /\ cycle = 0 /\ running = {}
        /\ \A c \in Connections : conn[c] # "handling"

\* The league jobs, the outbox publication among them, never run on a closed
\* Socket.IO server.
SocketsOutliveCycles == cycle # 0 => io

\* A process that ended, by a signal or by a start that failed half-way,
\* left no timer, no cycle and no listener behind.
EndsWithNothingRunning ==
    closer = "done" =>
        /\ timer = {} /\ cycle = 0 /\ running = {}
        /\ http = "off" /\ ~io /\ database = "closed"

\* A shutdown, or the clean-up of a failed start, comes to its end whatever
\* clients, jobs and workers are in the middle of.
ClosingCompletes == closer \notin {"none", "done"} ~> closer = "done"

----------------------------------------------------------------------------
\* The process as a scope of two resources: the database, which every task
\* uses, and the Socket.IO server, which the league's cycle publishes on.  A
\* task is a cycle in flight or a request whose client waits for its answer.
Task(kind, name) == <<kind, name>>

Tasks == {Task("cycle", k) : k \in Workers \cup {"league"}} \cup {Task("request", c) : c \in Connections}

InFlight == running \cup (IF cycle # 0 THEN {"league"} ELSE {})

Busy ==
    {Task("cycle", k) : k \in InFlight}
    \cup {Task("request", c) : c \in {d \in Connections : conn[d] = "handling"}}

IsOpen(r) == IF r = "io" THEN io ELSE database = "open"

PhaseOf(r) ==
    CASE database = "none" -> "unopened"
      [] database # "none" /\ IsOpen(r) -> "open"
      [] OTHER -> "released"

Scope == INSTANCE ScopedResources WITH
    Resources <- {"database", "io"},
    Uses <- [t \in Tasks |-> IF t = Task("cycle", "league") THEN {"database", "io"} ELSE {"database"}],
    phase <- [r \in {"database", "io"} |-> PhaseOf(r)],
    busy <- Busy

\* From the start, failed or not, to the end of the shutdown the process
\* implements ScopedResources: no cycle or request begins without the database,
\* no league cycle without the sockets, neither is closed under a task that
\* uses it, and what is closed is not opened again.
\* (createTargetScheduler.close, createTargetHttpServer.close, runtime.close.)
ImplementsScopedResources == Scope!Spec
=============================================================================
