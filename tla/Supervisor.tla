------------------------------ MODULE Supervisor ------------------------------
(***************************************************************************)
(* The processes of a hub: main() reads the configuration once and becomes  *)
(* the supervisor, which forks a worker, waits for its death and forks      *)
(* again (management/cpm_hub_starter.cpp). A worker asks to be signalled    *)
(* when its supervisor dies, binds the port and logs the start before it    *)
(* serves (http/HttpServer.cpp). A rotating log has a thread in the         *)
(* supervisor that flushes it under the sink's lock                         *)
(* (logging/LoggerInRotatingFile.cpp); fork() copies the lock as it is, and *)
(* not the thread.                                                          *)
(*                                                                         *)
(* CpmHub takes the hub's life as one Fork and one Crash; this module opens *)
(* that step.                                                              *)
(***************************************************************************)
EXTENDS ProgramOptions

CONSTANTS
    Pids,            \* process numbers of workers
    NoPid,           \* no process
    Configurations,  \* what an administrator may have set
    Readable,        \* the certificate and key files that can be read
    MaxStarts,       \* bound on the starts of the hub
    MaxCrashes,      \* bound on the workers that die of themselves
    MaxForkFailures  \* bound on the forks the system refuses

ASSUME NoPidIsNoPid == NoPid \notin Pids
ASSUME BoundsAreNaturals ==
    MaxStarts \in Nat /\ MaxCrashes \in Nat /\ MaxForkFailures \in Nat

VARIABLES
    configuration,  \* what is set now, in the ini file or the environment
    supervisor,     \* where the supervisor's loop stands, "down" without one
    options,        \* the supervisor's program_options
    child,          \* the supervisor's pid: the worker it waits for
    flushing,       \* the supervisor's flushing thread holds the log's lock
    worker,         \* the worker processes
    budget          \* the starts, crashes and refused forks still to come

vars == <<configuration, supervisor, options, child, flushing, worker, budget>>

Options == {ParseProgramOptions(c) : c \in Configurations}

NoWorker == [step |-> "none"]

Workers == {NoWorker} \cup
    [step : {"forked", "starting", "bound", "refused", "serving", "dead"},
     guarded : BOOLEAN,     \* prctl() came in time: its supervisor's death ends it
     orphaned_early : BOOLEAN, \* its supervisor died before its prctl()
     sigterm : BOOLEAN,     \* SIGTERM is on its way
     log_locked : BOOLEAN,  \* the log's lock was held when it was forked
     options : Options]

\* One type per variable, and the supervisor's loop variables agree.
TypeOK ==
    /\ configuration \in Configurations
    /\ supervisor \in {"down", "forking", "waiting", "reaped"}
    /\ options \in Options
    /\ child \in Pids \cup {NoPid}
    /\ child # NoPid <=> supervisor = "waiting"
    /\ flushing \in BOOLEAN
    /\ worker \in [Pids -> Workers]
    /\ budget \in [starts : 0 .. MaxStarts, crashes : 0 .. MaxCrashes,
                   fork_failures : 0 .. MaxForkFailures]

Init ==
    /\ configuration \in Configurations
    /\ supervisor = "down"
    /\ options = ParseProgramOptions(configuration)
    /\ child = NoPid
    /\ flushing = FALSE
    /\ worker = [p \in Pids |-> NoWorker]
    /\ budget = [starts |-> MaxStarts, crashes |-> MaxCrashes,
                 fork_failures |-> MaxForkFailures]

Living(p) == worker[p].step \notin {"none", "dead"}

\* A dead worker stays until its parent, or init for an orphan, reaps it.
End(p) ==
    worker' = [worker EXCEPT ![p] =
                  IF p = child THEN [@ EXCEPT !.step = "dead"] ELSE NoWorker]

-------------------------------------------------------------------------------
\* The administrator edits the ini file or the environment.
Configure ==
    /\ configuration' \in Configurations
    /\ UNCHANGED <<supervisor, options, child, flushing, worker, budget>>

\* main() parses the options once and the logger is made.
StartHub ==
    /\ supervisor = "down"
    /\ budget.starts > 0
    /\ budget' = [budget EXCEPT !.starts = @ - 1]
    /\ options' = ParseProgramOptions(configuration)
    /\ supervisor' = "forking"
    /\ UNCHANGED <<configuration, child, flushing, worker>>

\* fork(): the worker has the options and the log's lock as they are.
Fork(p) ==
    /\ supervisor = "forking"
    /\ worker[p] = NoWorker
    /\ supervisor' = "waiting"
    /\ child' = p
    /\ worker' = [worker EXCEPT ![p] =
                     [step |-> "forked", guarded |-> FALSE,
                      orphaned_early |-> FALSE, sigterm |-> FALSE,
                      log_locked |-> flushing, options |-> options]]
    /\ UNCHANGED <<configuration, options, flushing, budget>>

\* fork() returns -1: waitpid(-1) has no child to wait for and fails at once.
ForkFails ==
    /\ supervisor = "forking"
    /\ budget.fork_failures > 0
    /\ budget' = [budget EXCEPT !.fork_failures = @ - 1]
    /\ supervisor' = "reaped"
    /\ UNCHANGED <<configuration, options, child, flushing, worker>>

\* Mutant of Reap: waitpid(pid, &wstatus, WNOHANG).
ReapAnyway ==
    /\ supervisor = "waiting"
    /\ supervisor' = "reaped"
    /\ child' = NoPid
    /\ UNCHANGED <<configuration, options, flushing, worker, budget>>

\* Mutant of Reap: the pid of the dead worker is kept.
ReapKeepsPid ==
    /\ supervisor = "waiting"
    /\ worker[child].step = "dead"
    /\ supervisor' = "reaped"
    /\ worker' = [worker EXCEPT ![child] = NoWorker]
    /\ UNCHANGED <<configuration, options, child, flushing, budget>>

\* waitpid() returns when the child is dead.
Reap ==
    /\ supervisor = "waiting"
    /\ worker[child].step = "dead"
    /\ supervisor' = "reaped"
    /\ child' = NoPid
    /\ worker' = [worker EXCEPT ![child] = NoWorker]
    /\ UNCHANGED <<configuration, options, flushing, budget>>

\* logger->error("cpm-hub restarted") takes the log's lock; round again.
LogRestart ==
    /\ supervisor = "reaped"
    /\ ~flushing
    /\ supervisor' = "forking"
    /\ UNCHANGED <<configuration, options, child, flushing, worker, budget>>

\* spdlog::flush_every(5 s): only the rotating file has the thread.
FlushBegins ==
    /\ supervisor # "down"
    /\ options.logger_file # ""
    /\ ~flushing
    /\ flushing' = TRUE
    /\ UNCHANGED <<configuration, supervisor, options, child, worker, budget>>

FlushEnds ==
    /\ flushing
    /\ flushing' = FALSE
    /\ UNCHANGED <<configuration, supervisor, options, child, worker, budget>>

\* Mutant of Guard: no prctl().
GuardForgotten(p) ==
    /\ worker[p].step = "forked"
    /\ worker' = [worker EXCEPT ![p].step = "starting"]
    /\ UNCHANGED <<configuration, supervisor, options, child, flushing, budget>>

\* prctl(PR_SET_PDEATHSIG): of no use once the supervisor is dead.
Guard(p) ==
    /\ worker[p].step = "forked"
    /\ worker' = [worker EXCEPT ![p].step = "starting",
                                ![p].guarded = (p = child)]
    /\ UNCHANGED <<configuration, supervisor, options, child, flushing, budget>>

\* mg_bind_opt() refuses a port no address has and files it cannot read.
CanBind(o) ==
    /\ o.http_service_port \in 0 .. 65534
    /\ o.security_enabled => {o.certificate_file, o.key_file} \subseteq Readable

\* Port 0 is any free port.
PortTaken(port) ==
    port # 0 /\ \E q \in Pids :
        /\ worker[q].step \in {"bound", "serving"}
        /\ worker[q].options.http_service_port = port

Bind(p) ==
    /\ worker[p].step = "starting"
    /\ LET o == worker[p].options
       IN  worker' = [worker EXCEPT ![p].step =
               IF CanBind(o) /\ ~PortTaken(o.http_service_port)
               THEN "bound" ELSE "refused"]
    /\ UNCHANGED <<configuration, supervisor, options, child, flushing, budget>>

\* Mutant of LogStarted: a refused connection is skipped, and serve() polls nothing.
LogStartedAnyway(p) ==
    /\ worker[p].step \in {"bound", "refused"}
    /\ ~worker[p].log_locked
    /\ worker' = [worker EXCEPT ![p].step =
                      IF @ = "bound" THEN "serving" ELSE "refused"]
    /\ UNCHANGED <<configuration, supervisor, options, child, flushing, budget>>

\* INFO("Started server ...") takes the inherited lock, which nobody in this
\* process will release; then a refused connection is a null pointer.
LogStarted(p) ==
    /\ worker[p].step \in {"bound", "refused"}
    /\ ~worker[p].log_locked
    /\ IF worker[p].step = "refused" THEN End(p)
       ELSE worker' = [worker EXCEPT ![p].step = "serving"]
    /\ UNCHANGED <<configuration, supervisor, options, child, flushing, budget>>

\* A worker dies of itself.
CrashWorker(p) ==
    /\ Living(p)
    /\ budget.crashes > 0
    /\ budget' = [budget EXCEPT !.crashes = @ - 1]
    /\ End(p)
    /\ UNCHANGED <<configuration, supervisor, options, child, flushing>>

\* The supervisor dies: the kernel signals the worker that asked for it, and
\* init reaps a dead one.
KillSupervisor ==
    /\ supervisor # "down"
    /\ supervisor' = "down"
    /\ child' = NoPid
    /\ flushing' = FALSE
    /\ worker' = [p \in Pids |->
           IF p # child THEN worker[p]
           ELSE IF ~Living(p) THEN NoWorker
           ELSE [worker[p] EXCEPT !.sigterm = @ \/ worker[p].guarded,
                                  !.orphaned_early = worker[p].step = "forked"]]
    /\ UNCHANGED <<configuration, options, budget>>

\* SIGTERM has no handler: it ends a worker wherever it is, waiting for a lock too.
Terminate(p) ==
    /\ Living(p)
    /\ worker[p].sigterm
    /\ End(p)
    /\ UNCHANGED <<configuration, supervisor, options, child, flushing, budget>>

-------------------------------------------------------------------------------
SupervisorStep == (\E p \in Pids : Fork(p)) \/ Reap \/ LogRestart

WorkerStep(p) == Guard(p) \/ Bind(p) \/ LogStarted(p) \/ Terminate(p)

Next ==
    \/ Configure
    \/ StartHub
    \/ ForkFails
    \/ FlushBegins
    \/ FlushEnds
    \/ KillSupervisor
    \/ SupervisorStep
    \/ \E p \in Pids : WorkerStep(p) \/ CrashWorker(p)

Spec == Init /\ [][Next]_vars

\* Processes and threads are scheduled, and a flush ends. The supervisor gets
\* the log's lock in the seconds between two flushes, hence SF. Nothing obliges
\* an administrator to start the hub, or anything to die.
Fairness ==
    /\ SF_vars(SupervisorStep)
    /\ WF_vars(FlushEnds)
    /\ \A p \in Pids : WF_vars(WorkerStep(p))

FairSpec == Spec /\ Fairness

-------------------------------------------------------------------------------
\* What is wrong with a worker that a supervisor is not alone with.
Leaving(p) == worker[p].sigterm \/ worker[p].orphaned_early

Orphan(p) == Living(p) /\ p # child

\* Two workers live at once only while one of them is about to be ended by the
\* death of its supervisor, or was forked by a supervisor that died before
\* prctl(): waitpid() and PR_SET_PDEATHSIG, and not the port, which the
\* administrator may change, keep two workers off one database
\* (cpm_hub_starter.cpp:115-120).
OneWorkerAtATime ==
    \A p, q \in Pids :
        p # q /\ Living(p) /\ Living(q) => Leaving(p) \/ Leaving(q)

\* The ini file and the environment are read alike, field by field, but for
\* the defaults the two lists give a database and a repository type that are
\* not set, and for the integers and the switch that the conversions of the one
\* and the other read apart (program_options_parser.cpp:42-121).
SourcesAgree ==
    LET settings == configuration.settings
        ini == ParseIniFile(settings)
        env == ParseEnvironmentVariables(settings)
    IN  \A field \in DOMAIN ini \ ReadApart(settings) : ini[field] = env[field]

\* A worker whose supervisor dies ends as well, wherever it stands, unless the
\* supervisor died before the worker's prctl() (cpm_hub_starter.cpp:117).
OrphansEnd ==
    \A p \in Pids : (Orphan(p) /\ ~worker[p].orphaned_early) ~> ~Orphan(p)

\* The port belongs to a worker nobody will end.
PortLost == \E q \in Pids :
    /\ Orphan(q)
    /\ worker[q].orphaned_early
    /\ worker[q].step \in {"bound", "serving"}
    /\ worker[q].options.http_service_port = options.http_service_port

\* A supervisor comes to have a worker that serves, through crashes, refused
\* forks and the port of a predecessor's worker, unless it dies itself, its
\* options cannot be bound, an early orphan keeps the port, or its worker was
\* forked during a flush of the log and waits for a lock nobody holds
\* (cpm_hub_starter.cpp:114-123, HttpServer.cpp:58-62).
ServiceReturns ==
    supervisor # "down" ~>
        \/ supervisor = "down"
        \/ ~CanBind(options)
        \/ PortLost
        \/ child # NoPid /\ (worker[child].step = "serving" \/ worker[child].log_locked)

===============================================================================
