------------------------ MODULE TargetProcessProofs ------------------------
(***************************************************************************)
(* The order of the shutdown, and the refinement of ScopedResources, for   *)
(* any number of league jobs and any set of connections.                   *)
(***************************************************************************)
EXTENDS TargetProcess, TLAPS

\* What each stage of close() has behind it.  A stage's timers are cleared
\* before the cycles they started are awaited, so a stage once passed stays
\* idle; nothing runs before start(), and a server that is not listening or
\* draining has no connection but those whose client has left.
StageInv ==
    /\ database = "closed" <=> closer = "done"
    /\ io <=> database = "open" /\ closer # "server"
    /\ database = "none" => closer = "none" /\ http = "off" /\ cycle = 0 /\ timer = {} /\ running = {}
    /\ http = "listening" => closer = "none"
    /\ closer \in {"none", "starting", "done"} => http # "draining"
    /\ http = "off" => \A c \in Connections : conn[c] \in {"none", "abandoned"}
    /\ timer \subseteq started \cup {"league"}
    /\ closer \in {"league", "email", "backup", "server", "done"} => "league" \notin timer
    /\ closer \in {"email", "backup", "server", "done"} => cycle = 0 /\ "email" \notin timer
    /\ closer \in {"backup", "server", "done"} => "email" \notin running /\ "backup" \notin timer
    /\ closer \in {"server", "done"} => "backup" \notin running

ProcessInv == TypeOK /\ StageInv

\* Nothing is open or running in the initial state.
LEMMA ProcessInit == Init => ProcessInv
<1> SUFFICES ASSUME Init
             PROVE  ProcessInv
  OBVIOUS
<1>1. config.league \in {"enabled", "disabled", "paused_maintenance"}
  BY DEF Init, Configs
<1>2. scheduler \in Dormant \cup {"not_started"}
  BY <1>1 DEF Init, Dormant
<1>3. TypeOK
  <2>1. io = FALSE /\ grace = FALSE /\ cycle = 0
    BY DEF Init
  <2>2. io \in BOOLEAN /\ grace \in BOOLEAN
    BY <2>1, Zenon
  <2>3. cycle \in 0..Jobs
    BY <2>1, ProcessAssumption
  <2>4. QED
    BY <1>2, <2>2, <2>3 DEF Init, TypeOK
<1>4. StageInv
  BY DEF Init, StageInv
<1>5. QED
  BY <1>3, <1>4 DEF ProcessInv

\* Opening and starting, successful or not.
LEMMA StartingKeeps ==
  ASSUME ProcessInv, OpenRuntime \/ OpenFails \/ Start \/ ListenFails \/ StartFails
  PROVE  ProcessInv'
<1> USE ProcessAssumption DEF Configs, Dormant, Workers
<1>1. CASE OpenRuntime
  BY <1>1 DEF OpenRuntime, ProcessInv, TypeOK, StageInv, jobsState
<1>2. CASE OpenFails
  <2>1. TypeOK'
    BY <1>2 DEF OpenFails, ProcessInv, TypeOK, jobsState
  <2>2. StageInv'
    BY <1>2 DEF OpenFails, ProcessInv, TypeOK, StageInv, jobsState
  <2>3. QED
    BY <2>1, <2>2 DEF ProcessInv
<1>3. CASE Start
  <2>1. TypeOK'
    BY <1>3 DEF Start, Unstarted, StartJobs, ProcessInv, TypeOK
  <2>2. StageInv'
    BY <1>3 DEF Start, Unstarted, StartJobs, ProcessInv, TypeOK, StageInv
  <2>3. QED
    BY <2>1, <2>2 DEF ProcessInv
<1>4. CASE ListenFails
  <2>1. TypeOK'
    BY <1>4 DEF ListenFails, Unstarted, StartJobs, ProcessInv, TypeOK
  <2>2. StageInv'
    BY <1>4 DEF ListenFails, Unstarted, StartJobs, ProcessInv, TypeOK, StageInv
  <2>3. QED
    BY <2>1, <2>2 DEF ProcessInv
<1>5. CASE StartFails
  <2>1. TypeOK'
    BY <1>5 DEF StartFails, Unstarted, ProcessInv, TypeOK
  <2>2. StageInv'
    BY <1>5 DEF StartFails, Unstarted, ProcessInv, TypeOK, StageInv
  <2>3. QED
    BY <2>1, <2>2 DEF ProcessInv
<1>6. QED
  BY <1>1, <1>2, <1>3, <1>4, <1>5

\* The cycles of the three job runners.
LEMMA JobsKeep ==
  ASSUME ProcessInv,
         \/ RunCycle \/ JobSucceeds \/ JobThrows
         \/ \E k \in Workers : WorkerRuns(k) \/ WorkerSettles(k)
  PROVE  ProcessInv'
<1> USE ProcessAssumption DEF Workers
<1>1. CASE RunCycle
  BY <1>1 DEF RunCycle, ProcessInv, TypeOK, StageInv
<1>2. CASE JobSucceeds
  BY <1>2 DEF JobSucceeds, NextJob, ProcessInv, TypeOK, StageInv
<1>3. CASE JobThrows
  BY <1>3 DEF JobThrows, AfterThrow, NextJob, ProcessInv, TypeOK, StageInv
<1>4. ASSUME NEW k \in Workers, WorkerRuns(k)
      PROVE  ProcessInv'
  BY <1>4 DEF WorkerRuns, ProcessInv, TypeOK, StageInv
<1>5. ASSUME NEW k \in Workers, WorkerSettles(k)
      PROVE  ProcessInv'
  BY <1>5 DEF WorkerSettles, ProcessInv, TypeOK, StageInv
<1>6. QED
  BY <1>1, <1>2, <1>3, <1>4, <1>5

\* Requests come and go while the server listens or drains; on a server
\* that is off only an abandoned handler is left to end.
LEMMA ServingKeeps ==
  ASSUME ProcessInv, NEW c \in Connections, Serve(c)
  PROVE  ProcessInv'
<1> DEFINE Conns == {"none", "idle", "receiving", "handling", "abandoned", "upgraded"}
<1>1. ASSUME NEW from, NEW to \in Conns, Request(c, from, to),
             http = "off" => to \in {"none", "abandoned"}
      PROVE  ProcessInv'
  <2>1. conn' \in [Connections -> Conns]
    BY <1>1 DEF Request, ProcessInv, TypeOK
  <2>2. http = "off" => \A d \in Connections : conn'[d] \in {"none", "abandoned"}
    BY <1>1 DEF Request, ProcessInv, TypeOK, StageInv
  <2>3. QED
    BY <1>1, <2>1, <2>2 DEF Request, ProcessInv, TypeOK, StageInv, jobsState
<1>2. http = "off" => conn[c] \in {"none", "abandoned"}
  BY DEF ProcessInv, StageInv
<1>3. CASE Connect(c)
  BY <1>1, <1>3 DEF Connect
<1>4. CASE SendAgain(c)
  BY <1>1, <1>2, <1>4 DEF SendAgain, Request
<1>5. CASE Receive(c)
  BY <1>1, <1>2, <1>5 DEF Receive, Request
<1>6. CASE Upgrade(c)
  BY <1>1, <1>2, <1>6 DEF Upgrade, Request
<1>7. CASE Respond(c)
  BY <1>1, <1>2, <1>7 DEF Respond, AfterResponse, Request
<1>8. CASE ClientLeaves(c)
  BY <1>1, <1>8 DEF ClientLeaves
<1>9. CASE HandlerEnds(c)
  BY <1>1, <1>9 DEF HandlerEnds
<1>10. QED
  BY <1>3, <1>4, <1>5, <1>6, <1>7, <1>8, <1>9 DEF Serve

\* Every stage of close() leaves behind what the next one relies on.
LEMMA ClosingKeeps ==
  ASSUME ProcessInv, Shutdown \/ AbortStart \/ GraceExpires \/ Closing
  PROVE  ProcessInv'
<1> USE ProcessAssumption DEF Dormant, Workers
<1>1. ASSUME BeginClose, http = "listening" \/ closer = "starting", closer \in {"none", "starting"}
      PROVE  ProcessInv'
  <2>1. TypeOK'
    BY <1>1 DEF BeginClose, ProcessInv, TypeOK
  <2>2. StageInv'
    BY <1>1 DEF BeginClose, ProcessInv, TypeOK, StageInv
  <2>3. QED
    BY <2>1, <2>2 DEF ProcessInv
<1>2. CASE Shutdown
  BY <1>1, <1>2 DEF Shutdown
<1>3. CASE AbortStart
  BY <1>1, <1>3 DEF AbortStart
<1>4. CASE GraceExpires
  <2>1. TypeOK'
    BY <1>4 DEF GraceExpires, ProcessInv, TypeOK, jobsState
  <2>2. StageInv'
    BY <1>4 DEF GraceExpires, ProcessInv, TypeOK, StageInv, jobsState
  <2>3. QED
    BY <2>1, <2>2 DEF ProcessInv
<1>5. CASE CloseEmail
  BY <1>5 DEF CloseEmail, LeagueIdle, Closes, ProcessInv, TypeOK, StageInv
<1>6. CASE CloseBackup
  BY <1>6 DEF CloseBackup, Closes, ProcessInv, TypeOK, StageInv
<1>7. CASE CloseSockets
  <2>1. TypeOK'
    BY <1>7 DEF CloseSockets, ProcessInv, TypeOK
  <2>2. StageInv'
    BY <1>7 DEF CloseSockets, ProcessInv, TypeOK, StageInv
  <2>3. QED
    BY <2>1, <2>2 DEF ProcessInv
<1>8. CASE CloseRuntime
  BY <1>8 DEF CloseRuntime, Drained, ProcessInv, TypeOK, StageInv, jobsState
<1>9. QED
  BY <1>2, <1>3, <1>4, <1>5, <1>6, <1>7, <1>8 DEF Closing

\* Every step of the process keeps the stages in order.
LEMMA ProcessInductive == ProcessInv /\ [Next]_vars => ProcessInv'
<1> SUFFICES ASSUME ProcessInv, [Next]_vars
             PROVE  ProcessInv'
  OBVIOUS
<1>1. CASE Next
  BY <1>1, StartingKeeps, JobsKeep, ServingKeeps, ClosingKeeps DEF Next
<1>2. CASE UNCHANGED vars
  BY <1>2 DEF vars, jobsState, ProcessInv, TypeOK, StageInv
<1>3. QED
  BY <1>1, <1>2

\* The stages of the shutdown hold in every reachable state.
THEOREM ProcessHolds == Spec => []ProcessInv
  BY ProcessInit, ProcessInductive, PTL DEF Spec

\* The state of the process keeps its types.
THEOREM ProcessTypeCorrect == Spec => []TypeOK
<1>1. ProcessInv => TypeOK
  BY DEF ProcessInv
<1>2. QED
  BY <1>1, ProcessHolds, PTL

\* The database is closed only when no job is in flight and no handler has
\* a client that waits, for every number of jobs and connections.
THEOREM DatabaseLast == Spec => []DatabaseOutlivesWork
<1>1. ProcessInv => DatabaseOutlivesWork
  BY DEF ProcessInv, TypeOK, StageInv, DatabaseOutlivesWork, Workers
<1>2. QED
  BY <1>1, ProcessHolds, PTL

\* No league job runs on a closed Socket.IO server.
THEOREM SocketsAfterCycles == Spec => []SocketsOutliveCycles
<1>1. ProcessInv => SocketsOutliveCycles
  BY DEF ProcessInv, TypeOK, StageInv, SocketsOutliveCycles
<1>2. QED
  BY <1>1, ProcessHolds, PTL

\* A process that ended left nothing behind, however far it had started.
THEOREM NothingLeftBehind == Spec => []EndsWithNothingRunning
<1>1. ProcessInv => EndsWithNothingRunning
  BY DEF ProcessInv, TypeOK, StageInv, EndsWithNothingRunning, Workers
<1>2. QED
  BY <1>1, ProcessHolds, PTL

----------------------------------------------------------------------------
\* The phases of the two resources.
LEMMA PhaseFacts ==
    ASSUME ProcessInv
    PROVE  /\ PhaseOf("database") = IF database = "none" THEN "unopened"
                                    ELSE IF database = "open" THEN "open" ELSE "released"
           /\ PhaseOf("io") = IF database = "none" THEN "unopened"
                              ELSE IF io THEN "open" ELSE "released"
BY DEF PhaseOf, IsOpen, ProcessInv, TypeOK

\* A task under way belongs to the process and uses the database at least.
LEMMA BusyFacts ==
    ASSUME ProcessInv
    PROVE  /\ Busy \subseteq Tasks
           /\ \A k \in {"league", "email", "backup"} :
                 Task("cycle", k) \in Busy <=> k \in InFlight
           /\ \A c \in Connections : Task("request", c) \in Busy <=> conn[c] = "handling"
BY DEF Busy, Tasks, Task, InFlight, ProcessInv, TypeOK, Workers

\* Cycles and requests that begin find what they use open.
LEMMA WorkScoped ==
    ASSUME ProcessInv, ProcessInv', UNCHANGED <<database, io>>,
           \A k \in InFlight' \ InFlight : database = "open" /\ (k = "league" => io),
           \A c \in Connections : conn'[c] = "handling" /\ conn[c] # "handling" => database = "open"
    PROVE  Scope!Work
<1> DEFINE Uses == [t \in Tasks |-> IF t = Task("cycle", "league") THEN {"database", "io"}
                                    ELSE {"database"}]
           phase == [r \in {"database", "io"} |-> PhaseOf(r)]
<1>1. Busy' \subseteq Tasks
  BY DEF Busy, Tasks, Task, InFlight, ProcessInv, TypeOK, Workers
<1>2. \A t \in Busy' \ Busy : database = "open" /\ (t = Task("cycle", "league") => io)
  BY DEF Busy, Task
<1>3. ASSUME NEW t \in Busy' \ Busy, NEW r \in Uses[t] PROVE phase[r] = "open"
  BY <1>1, <1>2, <1>3, PhaseFacts
<1>4. phase' = phase
  BY DEF PhaseOf, IsOpen
<1>5. QED
  BY <1>1, <1>3, <1>4 DEF Scope!Work

\* Nothing is under way while the process opens, and it opens everything.
LEMMA OpeningScoped ==
    ASSUME ProcessInv, ProcessInv', OpenRuntime \/ OpenFails
    PROVE  Scope!Open
<1>1. database = "none" /\ UNCHANGED <<cycle, running, conn>> /\ database' # "none"
  BY DEF OpenRuntime, OpenFails, jobsState
<1>2. (database' = "open" /\ io') \/ (database' = "closed" /\ ~io')
  <2>1. CASE OpenRuntime
    BY <2>1 DEF OpenRuntime
  <2>2. CASE OpenFails
    BY <2>2 DEF OpenFails, ProcessInv, TypeOK, StageInv
  <2>3. QED
    BY <2>1, <2>2
<1>3. \A r \in {"database", "io"} : PhaseOf(r) = "unopened"
  BY <1>1 DEF PhaseOf
<1>4. \/ \A r \in {"database", "io"} : PhaseOf(r)' = "open"
      \/ \A r \in {"database", "io"} : PhaseOf(r)' = "released"
  BY <1>1, <1>2 DEF PhaseOf, IsOpen
<1>5. Busy' = Busy
  BY <1>1 DEF Busy, InFlight
<1>6. QED
  BY <1>3, <1>4, <1>5 DEF Scope!Open, Scope!Everywhere

\* The sockets close after the last cycle that publishes on them, and the
\* database after everything.
LEMMA ClosingScoped ==
    ASSUME ProcessInv, ProcessInv', CloseSockets \/ CloseRuntime
    PROVE  \E r \in {"database", "io"} : Scope!Release(r)
<1> DEFINE Uses == [t \in Tasks |-> IF t = Task("cycle", "league") THEN {"database", "io"}
                                    ELSE {"database"}]
           phase == [r \in {"database", "io"} |-> PhaseOf(r)]
<1>1. CASE CloseSockets
  <2>1. /\ database = "open" /\ io /\ ~io' /\ cycle = 0 /\ UNCHANGED <<database, cycle, running>>
        /\ \A c \in Connections : conn'[c] = "handling" <=> conn[c] = "handling"
    BY <1>1 DEF CloseSockets, ProcessInv, TypeOK, StageInv
  <2>2. phase["io"] = "open" /\ phase' = [phase EXCEPT !["io"] = "released"]
    BY <2>1 DEF PhaseOf, IsOpen
  <2>3. Busy' = Busy /\ Task("cycle", "league") \notin Busy
    BY <2>1, BusyFacts DEF Busy, InFlight, ProcessInv, TypeOK, Workers
  <2>4. \A t \in Busy : "io" \notin Uses[t]
    BY <2>3, BusyFacts
  <2>5. Scope!Release("io")
    BY <2>2, <2>3, <2>4 DEF Scope!Release
  <2>6. QED
    BY <2>5
<1>2. CASE CloseRuntime
  <2>1. /\ database = "open" /\ database' = "closed" /\ ~io /\ io' = io
        /\ cycle = 0 /\ running = {} /\ UNCHANGED <<cycle, running, conn>>
        /\ \A c \in Connections : conn[c] # "handling"
    BY <1>2 DEF CloseRuntime, Drained, ProcessInv, TypeOK, StageInv, jobsState, Workers
  <2>2. phase["database"] = "open" /\ phase' = [phase EXCEPT !["database"] = "released"]
    BY <2>1 DEF PhaseOf, IsOpen
  <2>3. Busy = {} /\ Busy' = {}
    BY <2>1 DEF Busy, InFlight
  <2>4. Scope!Release("database")
    BY <2>2, <2>3 DEF Scope!Release
  <2>5. QED
    BY <2>4
<1>3. QED
  BY <1>1, <1>2

\* Whatever else happens, tasks begin only where what they use is open.
LEMMA StepsScoped ==
    ASSUME ProcessInv, ProcessInv', Next
    PROVE  Scope!Next
<1> USE DEF InFlight
<1>1. CASE OpenRuntime \/ OpenFails
  BY <1>1, OpeningScoped DEF Scope!Next
<1>2. CASE CloseSockets \/ CloseRuntime
  BY <1>2, ClosingScoped DEF Scope!Next
<1>3. CASE Start \/ ListenFails \/ StartFails
  <2>1. /\ database = "open" /\ closer = "none"
        /\ UNCHANGED <<database, io, conn>>
    BY <1>3 DEF Start, ListenFails, StartFails, Unstarted
  <2>2. io
    BY <2>1 DEF ProcessInv, StageInv
  <2>3. QED
    BY <2>1, <2>2, WorkScoped DEF Scope!Next
<1>4. CASE RunCycle \/ \E k \in Workers : WorkerRuns(k)
  <2>1. UNCHANGED <<database, io, conn>> /\ timer # {}
    BY <1>4 DEF RunCycle, WorkerRuns
  <2>2. database = "open"
    BY <1>4, <2>1 DEF RunCycle, WorkerRuns, ProcessInv, TypeOK, StageInv, Workers
  <2>3. RunCycle => io
    BY <2>2 DEF RunCycle, ProcessInv, StageInv
  <2>4. ~RunCycle => cycle' = cycle
    BY <1>4 DEF WorkerRuns
  <2>5. \A k \in InFlight' \ InFlight : k = "league" => io
    BY <1>4, <2>3, <2>4 DEF WorkerRuns, Workers
  <2>6. QED
    BY <2>1, <2>2, <2>5, WorkScoped DEF Scope!Next
<1>5. CASE JobSucceeds \/ JobThrows \/ \E k \in Workers : WorkerSettles(k)
  <2>1. UNCHANGED <<database, io, conn>> /\ InFlight' \subseteq InFlight
    BY <1>5 DEF JobSucceeds, JobThrows, WorkerSettles
  <2>2. QED
    BY <2>1, WorkScoped DEF Scope!Next
<1>6. ASSUME NEW c \in Connections, Serve(c) PROVE Scope!Next
  <2>1. PICK from, to : Request(c, from, to)
    BY <1>6 DEF Serve, Connect, SendAgain, Receive, Upgrade, Respond, ClientLeaves, HandlerEnds
  <2>2. UNCHANGED <<database, io, cycle, running>> /\ \A d \in Connections \ {c} : conn'[d] = conn[d]
    BY <2>1 DEF Request, jobsState, ProcessInv, TypeOK
  <2>3. conn'[c] = "handling" => conn[c] \in {"receiving", "handling"}
    BY <1>6 DEF Serve, Connect, SendAgain, Receive, Upgrade, Respond, AfterResponse, ClientLeaves,
                HandlerEnds, Request, ProcessInv, TypeOK
  <2>4. conn[c] = "receiving" => database = "open"
    BY DEF ProcessInv, TypeOK, StageInv
  <2>5. QED
    BY <2>2, <2>3, <2>4, WorkScoped DEF Scope!Next
<1>7. CASE Shutdown \/ AbortStart \/ GraceExpires \/ CloseEmail \/ CloseBackup
  <2>1. /\ UNCHANGED <<database, io, cycle, running>>
        /\ \A c \in Connections : conn'[c] = "handling" => conn[c] = "handling"
    BY <1>7 DEF Shutdown, AbortStart, BeginClose, GraceExpires, CloseEmail, CloseBackup, jobsState,
                ProcessInv, TypeOK
  <2>2. QED
    BY <2>1, WorkScoped DEF Scope!Next
<1>8. QED
  BY <1>1, <1>2, <1>3, <1>4, <1>5, <1>6, <1>7 DEF Next, Closing

\* From the start to the end of the shutdown the process implements
\* ScopedResources: nothing begins without what it uses, and nothing is closed
\* under a task that uses it or opened again.
THEOREM ResourcesAreScoped == Spec => ImplementsScopedResources
<1>1. Init => Scope!Init
  <2> SUFFICES ASSUME Init PROVE Scope!Init
    OBVIOUS
  <2>1. Busy = {} /\ \A r \in {"database", "io"} : PhaseOf(r) = "unopened"
    BY DEF Init, Busy, InFlight, PhaseOf
  <2>2. QED
    BY <2>1 DEF Scope!Init, Scope!Everywhere
<1>2. ProcessInv /\ ProcessInv' /\ [Next]_vars => [Scope!Next]_(Scope!vars)
  <2>1. UNCHANGED vars => UNCHANGED Scope!vars
    BY DEF vars, jobsState, Scope!vars, Busy, InFlight, PhaseOf, IsOpen
  <2>2. QED
    BY <2>1, StepsScoped
<1>3. QED
  BY <1>1, <1>2, ProcessHolds, PTL DEF Spec, ImplementsScopedResources, Scope!Spec
=============================================================================
