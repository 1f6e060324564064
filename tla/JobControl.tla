----------------------------- MODULE JobControl -----------------------------
(***************************************************************************)
(* Starting, terminating and reaping jobs: run_threads and reap_threads of *)
(* backend.c in the main process, thread_main in every job, and            *)
(* fio_terminate_threads of libfio.c, which any of them may call.          *)
(*                                                                         *)
(* The jobs are numbered as in the job file. thread_data is shared memory; *)
(* main walks the jobs one by one, and between two of its steps any job    *)
(* may move. What a job does between its start and its end is RunsIO.      *)
(***************************************************************************)
EXTENDS Integers, FiniteSets

CONSTANTS
    N,          \* thread_number
    JobFiles,   \* the job files looked at, see JobFile
    UINT        \* 2^32, the range of unsigned int

Jobs == 1..N

\* The options of all jobs, and what may go wrong: see the actions.
JobFile ==
    [group: [Jobs -> Nat],              \* td->groupid of each job
     stonewall: SUBSET Jobs,            \* the jobs with o->stonewall
     delayed: SUBSET Jobs,              \* the jobs with o->start_delay
     wait_for: [Jobs -> SUBSET Jobs],   \* the jobs that o->wait_for of each names
     threads: SUBSET Jobs,              \* the jobs with o->use_thread
     ramp: SUBSET Jobs,                 \* the jobs with o->ramp_time
     cpuio: SUBSET Jobs,                \* the jobs of ioengine cpuio
     endless: SUBSET Jobs,              \* the jobs that stop only when terminated
     exitall: BOOLEAN,                  \* exitall_on_terminate
     exit_what: {"group", "stonewall", "all"},
     faults: SUBSET {"layout", "create", "hang", "early", "setup", "killed",
                     "interrupt", "stuck", "slow"}]

ASSUME JobsAssumption == N \in Nat \ {0} /\ UINT \in Nat /\ N < UINT
ASSUME JobFilesAssumption ==
    \A f \in JobFiles : f \in JobFile /\ \A j \in Jobs : f.wait_for[j] \subseteq 1..j - 1

VARIABLES
    o,          \* the job file of this run
    runstate,   \* td->runstate
    terminate,  \* the jobs with td->terminate
    delayed,    \* the jobs whose o->start_delay has not passed
    pid,        \* the jobs with td->pid
    sigterm,    \* the jobs with a SIGTERM to handle
    jpc,        \* where thread_main of each job is
    sem,        \* the jobs whose td->sem was upped
    startup,    \* startup_sem
    mpc, idx,   \* where run_threads is, and the job it looks at
    map,        \* map[]: the jobs of this pass that are not initialized yet
    todo, nr_running, nr_started, pending,
    fio_abort,
    forced,     \* history: the jobs reaped by force
    discounted  \* history: how often each job was taken off todo unstarted, up to 2

history == <<forced, discounted>>
shared == <<runstate, terminate, delayed, pid, sigterm, sem, startup>>
main == <<mpc, idx, map, todo, nr_running, nr_started, pending, fio_abort, o, history>>
vars == <<shared, jpc, main>>

-----------------------------------------------------------------------------
Minus(a, b) == IF a >= b THEN a - b ELSE a - b + UINT

In(states) == {j \in Jobs : runstate[j] \in states}
BeforeRamp == {"NOT_CREATED", "CREATED", "INITIALIZED"}
Ended == {"EXITED", "REAPED"}

\* The jobs whose files main could not lay out are reaped before the loop.
Init ==
    /\ o \in JobFiles
    /\ \E bad \in SUBSET Jobs :
        /\ "layout" \in o.faults \/ bad = {}
        /\ runstate = [j \in Jobs |-> IF j \in bad THEN "REAPED" ELSE "NOT_CREATED"]
        /\ todo = N - Cardinality(bad)
    /\ terminate = {} /\ delayed = o.delayed /\ pid = {} /\ sigterm = {}
    /\ jpc = [j \in Jobs |-> "none"]
    /\ sem = {} /\ startup = 0
    /\ mpc = "create" /\ idx = 1 /\ map = {}
    /\ nr_running = 0 /\ nr_started = 0 /\ pending = 0
    /\ fio_abort = FALSE
    /\ forced = {} /\ discounted = [j \in Jobs |-> 0]

SetRunstate(j, s) == runstate' = [runstate EXCEPT ![j] = s]

\* fio_terminate_threads of the jobs S, called by job or main p: a job that has
\* not started yet is sent SIGTERM.
fio_terminate_threads(S, p) ==
    LET new == S \ terminate
    IN  /\ terminate' = terminate \cup new
        /\ delayed' = delayed \ new
        /\ sigterm' = sigterm \cup {j \in (new \cap pid) \ {p} : runstate[j] \in BeforeRamp}

\* The jobs that the end of job j terminates.
ExitTargets(j) ==
    CASE o.exit_what = "group" -> {k \in Jobs : o.group[k] = o.group[j]}
      [] o.exit_what = "stonewall" -> In({"RUNNING", "FINISHING"} \cup Ended)
      [] o.exit_what = "all" -> Jobs

-----------------------------------------------------------------------------
(* run_threads: the creation pass over the jobs.                           *)

Considering(j) == mpc = "create" /\ idx = j /\ j \in Jobs

\* Mutant: a waitee that is not running yet is not waited for.
waitee_runningOnly(j) == \E i \in o.wait_for[j] : runstate[i] = "RUNNING"

waitee_running(j) == o.wait_for[j] \cap In(Ended) # o.wait_for[j]

Startable(j) == runstate[j] = "NOT_CREATED" /\ j \notin terminate \cup delayed


Stonewalled(j) == j \in o.stonewall /\ (nr_started # 0 \/ nr_running # 0)

\* Mutant: a job whose time has not come is taken off todo.
PassDiscounts(j) ==
    /\ Considering(j)
    /\ \/ runstate[j] # "NOT_CREATED"
       \/ j \notin terminate /\ j \in delayed
       \/ Startable(j) /\ ~Stonewalled(j) /\ waitee_running(j)
    /\ idx' = idx + 1
    /\ todo' = IF waitee_running(j) THEN Minus(todo, 1) ELSE todo
    /\ UNCHANGED <<shared, jpc, mpc, map, nr_running, nr_started, pending, fio_abort, o, history>>

\* Already created, or its time has not come: the next job.
Pass(j) ==
    /\ Considering(j)
    /\ \/ runstate[j] # "NOT_CREATED"
       \/ j \notin terminate /\ j \in delayed
       \/ Startable(j) /\ ~Stonewalled(j) /\ waitee_running(j)
    /\ idx' = idx + 1
    /\ UNCHANGED <<shared, jpc, mpc, map, todo, nr_running, nr_started, pending, fio_abort, o, history>>

\* "never got a chance to start, killed by other thread": the runstate stays.
Discount(j) ==
    /\ Considering(j)
    /\ runstate[j] = "NOT_CREATED" /\ j \in terminate
    /\ todo' = Minus(todo, 1)
    /\ discounted' = [discounted EXCEPT ![j] = IF @ = 0 THEN 1 ELSE 2]
    /\ idx' = idx + 1
    /\ UNCHANGED <<shared, jpc, mpc, map, nr_running, nr_started, pending, fio_abort, o, forced>>

\* A stonewall ends the pass.
StonewallWait(j) ==
    /\ Considering(j)
    /\ Startable(j) /\ Stonewalled(j)
    /\ mpc' = "init"
    /\ UNCHANGED <<shared, jpc, idx, map, todo, nr_running, nr_started, pending, fio_abort, o, history>>

\* pthread_create or fork; the new job starts at the top of thread_main.
Create(j) ==
    /\ Considering(j)
    /\ Startable(j) /\ ~Stonewalled(j) /\ ~waitee_running(j)
    /\ SetRunstate(j, "CREATED")
    /\ map' = map \cup {j}
    /\ nr_started' = nr_started + 1
    /\ jpc' = [jpc EXCEPT ![j] = "start"]
    /\ mpc' = "startup"
    /\ UNCHANGED <<terminate, delayed, pid, sigterm, sem, startup>>
    /\ UNCHANGED <<idx, todo, nr_running, pending, fio_abort, o, history>>

\* pthread_create fails.
CreateFails(j) ==
    /\ Considering(j) /\ "create" \in o.faults /\ j \in o.threads
    /\ Startable(j) /\ ~Stonewalled(j) /\ ~waitee_running(j)
    /\ SetRunstate(j, "CREATED")
    /\ map' = map \cup {j}
    /\ mpc' = "init"
    /\ UNCHANGED <<terminate, delayed, pid, sigterm, sem, startup, jpc>>
    /\ UNCHANGED <<idx, todo, nr_running, nr_started, pending, fio_abort, o, history>>

\* fio_sem_down_timeout(startup_sem) succeeds ...
Started ==
    /\ mpc = "startup" /\ startup > 0
    /\ startup' = startup - 1
    /\ idx' = idx + 1 /\ mpc' = "create"
    /\ UNCHANGED <<runstate, terminate, delayed, pid, sigterm, sem, jpc>>
    /\ UNCHANGED <<map, todo, nr_running, nr_started, pending, fio_abort, o, history>>

\* ... or the job is not TD_INITIALIZED after ten seconds: it failed or hangs.
StartupHung ==
    /\ mpc = "startup" /\ startup = 0
    /\ "hang" \in o.faults \/ jpc[idx] \in {"err", "exit", "dead"}
    /\ fio_terminate_threads(Jobs, 0)
    /\ fio_abort' = TRUE
    /\ nr_started' = Minus(nr_started, 1)
    /\ mpc' = "init"
    /\ UNCHANGED <<runstate, pid, sem, startup, jpc, idx, map, todo, nr_running, pending, o, history>>

PassEnds ==
    /\ mpc = "create" /\ idx > N
    /\ mpc' = "init"
    /\ UNCHANGED <<shared, jpc, idx, map, todo, nr_running, nr_started, pending, fio_abort, o, history>>

-----------------------------------------------------------------------------
(* run_threads: the jobs of this pass become TD_INITIALIZED and are let go. *)

\* One look at map[]. A job that is gone already counts as started.
InitPoll ==
    /\ mpc = "init" /\ map # {} /\ ~fio_abort
    /\ LET gone == map \cap In(Ended)
       IN  /\ map' = map \ In({"INITIALIZED"} \cup Ended)
           /\ todo' = Minus(todo, Cardinality(gone))
           /\ nr_running' = nr_running + Cardinality(gone)
    /\ map' # map
    /\ UNCHANGED <<shared, jpc, mpc, idx, nr_started, pending, fio_abort, o, history>>

\* JOB_START_TIMEOUT, or abort: SIGTERM to the jobs that are left; the SIGTERM
\* of a job without a pid goes to main's own process group.
FailedToStart ==
    /\ mpc = "init" /\ map # {}
    /\ fio_abort \/ \A j \in map : runstate[j] = "CREATED" /\ jpc[j] = "none"
    /\ IF map \subseteq pid
       THEN sigterm' = sigterm \cup map /\ UNCHANGED <<terminate, delayed>>
       ELSE /\ terminate' = Jobs /\ delayed' = {}
            /\ sigterm' = sigterm \cup (map \cap pid)
                              \cup {j \in pid \ terminate : runstate[j] \in BeforeRamp}
    /\ mpc' = "last"
    /\ UNCHANGED <<runstate, pid, sem, startup, jpc>>
    /\ UNCHANGED <<idx, map, todo, nr_running, nr_started, pending, fio_abort, o, history>>

InitDone ==
    /\ mpc = "init" /\ map = {}
    /\ mpc' = "start" /\ idx' = 1
    /\ UNCHANGED <<shared, jpc, map, todo, nr_running, nr_started, pending, fio_abort, o, history>>

\* Mutant: nr_started-- is forgotten.
LetGoKeepsStarted(j) ==
    /\ SetRunstate(j, IF j \in o.ramp THEN "RAMP" ELSE "RUNNING")
    /\ nr_running' = nr_running + 1
    /\ todo' = Minus(todo, 1)
    /\ sem' = sem \cup {j}
    /\ UNCHANGED nr_started

\* TD_INITIALIZED -> TD_RAMP or TD_RUNNING, and td->sem is upped.
LetGo(j) ==
    /\ SetRunstate(j, IF j \in o.ramp THEN "RAMP" ELSE "RUNNING")
    /\ nr_running' = nr_running + 1
    /\ nr_started' = Minus(nr_started, 1)
    /\ todo' = Minus(todo, 1)
    /\ sem' = sem \cup {j}

StartJob ==
    /\ mpc = "start" /\ idx \in Jobs
    /\ IF runstate[idx] = "INITIALIZED" THEN LetGo(idx)
       ELSE UNCHANGED <<runstate, nr_running, nr_started, todo, sem>>
    /\ idx' = idx + 1
    /\ UNCHANGED <<terminate, delayed, pid, sigterm, startup, jpc, mpc, map, pending, fio_abort, o, history>>

\* Mutant: pending is not reset.
AllLetGoKeepsPending ==
    /\ mpc = "start" /\ idx > N
    /\ mpc' = "reap" /\ idx' = 1
    /\ UNCHANGED <<shared, jpc, map, todo, nr_running, nr_started, pending, fio_abort, o, history>>

AllLetGo ==
    /\ mpc = "start" /\ idx > N
    /\ mpc' = "reap" /\ idx' = 1 /\ pending' = 0
    /\ UNCHANGED <<shared, jpc, map, todo, nr_running, nr_started, fio_abort, o, history>>

-----------------------------------------------------------------------------
(* reap_threads, called in the loop of run_threads and alone at its end.   *)

Reaping(j) == mpc \in {"reap", "reaplast"} /\ idx = j /\ j \in Jobs

Reaped(j) ==
    /\ SetRunstate(j, "REAPED")
    /\ nr_running' = Minus(nr_running, 1)
    /\ idx' = idx + 1
    /\ UNCHANGED <<terminate, delayed, pid, sigterm, sem, startup, jpc>>
    /\ UNCHANGED <<mpc, map, todo, nr_started, pending, fio_abort, o, discounted>>

\* A thread that exited, or a process waitpid returns.
CanReap(j) ==
    /\ j \in pid /\ runstate[j] # "REAPED"
    /\ IF j \in o.threads THEN runstate[j] = "EXITED" ELSE jpc[j] = "dead"

Reap(j) == Reaping(j) /\ CanReap(j) /\ Reaped(j) /\ UNCHANGED forced

\* A job that may be where it is for 300 seconds: stuck, hanging in its start, or
\* waiting to be let go by a main that has given up.
Hangs(j) ==
    \/ jpc[j] = "stuck"
    \/ jpc[j] = "start" /\ "hang" \in o.faults
    \/ jpc[j] = "wait" /\ j \notin sem

\* Mutant: the test of the runstate is turned round.
ForceReapLate(j) ==
    /\ Reaping(j) /\ ~CanReap(j)
    /\ j \in (pid \cap terminate) \ o.threads
    /\ runstate[j] \in {"FINISHING", "EXITED"} /\ Hangs(j)
    /\ Reaped(j)
    /\ forced' = forced \cup {j}

\* A process that was told to terminate FIO_REAP_TIMEOUT seconds ago and is
\* before TD_FSYNCING is reaped by force.
ForceReap(j) ==
    /\ Reaping(j) /\ ~CanReap(j)
    /\ j \in (pid \cap terminate) \ o.threads
    /\ runstate[j] \in BeforeRamp \cup {"RAMP", "RUNNING"} /\ Hangs(j)
    /\ Reaped(j)
    /\ forced' = forced \cup {j}

\* Not to be reaped now. A thread that still runs is not counted as pending.
\* waitpid blocks when the job is already TD_EXITED.
StillThere(j) ==
    /\ Reaping(j) /\ ~CanReap(j)
    /\ j \in o.threads \/ runstate[j] # "EXITED"
    /\ pending' = IF j \notin pid \/ (runstate[j] # "REAPED" /\ j \notin o.threads)
                  THEN pending + 1 ELSE pending
    /\ idx' = idx + 1
    /\ UNCHANGED <<shared, jpc, mpc, map, todo, nr_running, nr_started, fio_abort, o, history>>

\* Mutant: jobs that are not started yet are overlooked.
OnlyCpuioLeftNoPending == nr_running = Cardinality(o.cpuio) /\ o.cpuio # Jobs


\* Only cpuio jobs are left: they are terminated.
OnlyCpuioLeft == nr_running = Cardinality(o.cpuio) /\ pending = 0 /\ o.cpuio # Jobs

ReapEnds ==
    /\ mpc \in {"reap", "reaplast"} /\ idx > N
    /\ IF OnlyCpuioLeft THEN fio_terminate_threads(Jobs, 0)
       ELSE UNCHANGED <<terminate, delayed, sigterm>>
    /\ IF mpc = "reap" /\ todo # 0
       THEN mpc' = "create" /\ idx' = 1 /\ map' = {}
       ELSE mpc' = "last" /\ UNCHANGED <<idx, map>>
    /\ UNCHANGED <<runstate, pid, sem, startup, jpc, todo, nr_running, nr_started, pending, fio_abort, o, history>>

\* Mutant: off by one.
LastOffByOne ==
    /\ mpc = "last"
    /\ IF nr_running <= 1 THEN mpc' = "returned" /\ UNCHANGED <<idx, pending>>
       ELSE mpc' = "reaplast" /\ idx' = 1 /\ pending' = 0
    /\ UNCHANGED <<shared, jpc, map, todo, nr_running, nr_started, fio_abort, o, history>>

\* while (nr_running) reap_threads.
Last ==
    /\ mpc = "last"
    /\ IF nr_running = 0 THEN mpc' = "returned" /\ UNCHANGED <<idx, pending>>
       ELSE mpc' = "reaplast" /\ idx' = 1 /\ pending' = 0
    /\ UNCHANGED <<shared, jpc, map, todo, nr_running, nr_started, fio_abort, o, history>>

-----------------------------------------------------------------------------
(* thread_main of job j.                                                   *)

Goto(j, place) == jpc' = [jpc EXCEPT ![j] = place]

SetPid(j) ==
    /\ jpc[j] = "start" /\ j \notin pid
    /\ pid' = pid \cup {j}
    /\ UNCHANGED <<runstate, terminate, delayed, sigterm, sem, startup, jpc, main>>

\* TD_INITIALIZED, and main is told so.
Initialized(j) ==
    /\ jpc[j] = "start" /\ j \in pid
    /\ SetRunstate(j, "INITIALIZED")
    /\ startup' = startup + 1
    /\ Goto(j, "wait")
    /\ UNCHANGED <<terminate, delayed, pid, sigterm, sem, main>>

\* The job's own mutexes cannot be made: main is never told.
FailsEarly(j) ==
    /\ jpc[j] = "start" /\ j \in pid /\ "early" \in o.faults
    /\ Goto(j, "err")
    /\ UNCHANGED <<shared, main>>

\* fio_sem_down(td->sem); then the setup, which may fail, and the I/O loop.
Begin(j) ==
    /\ jpc[j] = "wait" /\ j \in sem
    /\ \/ Goto(j, "run")
       \/ "setup" \in o.faults /\ Goto(j, "err")
    /\ UNCHANGED <<shared, main>>

RampOver(j) ==
    /\ jpc[j] = "run" /\ runstate[j] = "RAMP"
    /\ SetRunstate(j, "RUNNING")
    /\ UNCHANGED <<terminate, delayed, pid, sigterm, sem, startup, jpc, main>>

\* The I/O loop ends: keep_running saw td->terminate, or the job is done.
\* A slow job is one that was stuck for long and then goes on.
Finish(j) ==
    /\ jpc[j] \in IF "slow" \in o.faults THEN {"run", "stuck"} ELSE {"run"}
    /\ j \in terminate \/ j \notin o.endless
    /\ SetRunstate(j, "FINISHING")
    /\ Goto(j, "finish")
    /\ UNCHANGED <<terminate, delayed, pid, sigterm, sem, startup, main>>

\* exitall: the job takes the others down with it.
TakesDown(j) ==
    /\ jpc[j] = "finish"
    /\ IF o.exitall THEN fio_terminate_threads(ExitTargets(j), j)
       ELSE UNCHANGED <<terminate, delayed, sigterm>>
    /\ Goto(j, "err")
    /\ UNCHANGED <<runstate, pid, sem, startup, main>>

Exit(j) ==
    /\ jpc[j] = "err"
    /\ SetRunstate(j, "EXITED")
    /\ Goto(j, "exit")
    /\ UNCHANGED <<terminate, delayed, pid, sigterm, sem, startup, main>>

\* The process is gone: it ended, or was killed by a signal.
Dies(j) ==
    /\ j \notin o.threads
    /\ \/ jpc[j] = "exit"
       \/ "killed" \in o.faults /\ jpc[j] \in {"wait", "run", "finish", "err"}
    /\ Goto(j, "dead")
    /\ sigterm' = sigterm \ {j}
    /\ UNCHANGED <<runstate, terminate, delayed, pid, sem, startup, main>>

\* The job hangs in its I/O.
GetsStuck(j) ==
    /\ jpc[j] = "run" /\ "stuck" \in o.faults
    /\ Goto(j, "stuck")
    /\ UNCHANGED <<shared, main>>

\* The job inherited sig_int as its handler of SIGTERM: everyone is terminated.
sig_int(j) ==
    /\ j \in sigterm
    /\ LET new == Jobs \ terminate
       IN  /\ terminate' = Jobs /\ delayed' = delayed \ new
           /\ sigterm' = (sigterm \ {j})
                 \cup {k \in (new \cap pid) \ {j} : runstate[k] \in BeforeRamp}
    /\ UNCHANGED <<runstate, pid, sem, startup, jpc, main>>

-----------------------------------------------------------------------------
(* The environment: SIGINT to main, and time.                              *)

Interrupt ==
    /\ "interrupt" \in o.faults /\ mpc # "returned" /\ terminate # Jobs
    /\ fio_terminate_threads(Jobs, 0)
    /\ UNCHANGED <<runstate, pid, sem, startup, jpc, main>>

DelayPasses(j) ==
    /\ j \in delayed
    /\ delayed' = delayed \ {j}
    /\ UNCHANGED <<runstate, terminate, pid, sigterm, sem, startup, jpc, main>>

Returned == mpc = "returned" /\ UNCHANGED vars

RunThreads ==
    \/ \E j \in Jobs :
         \/ Pass(j) \/ Discount(j) \/ StonewallWait(j) \/ Create(j) \/ CreateFails(j)
         \/ Reap(j) \/ ForceReap(j) \/ StillThere(j)
    \/ Started \/ StartupHung \/ PassEnds
    \/ InitPoll \/ FailedToStart \/ InitDone \/ StartJob \/ AllLetGo
    \/ ReapEnds \/ Last

ThreadMain(j) ==
    \/ SetPid(j) \/ Initialized(j) \/ FailsEarly(j) \/ Begin(j) \/ RampOver(j)
    \/ Finish(j) \/ TakesDown(j) \/ Exit(j) \/ Dies(j) \/ sig_int(j)

Next ==
    \/ RunThreads
    \/ \E j \in Jobs : ThreadMain(j) \/ GetsStuck(j) \/ DelayPasses(j)
    \/ Interrupt
    \/ Returned

\* Main and every job are scheduled, and time passes: start delays end, and
\* reap_threads looks at a stuck job after the timeout too.
Fairness ==
    /\ WF_vars(RunThreads)
    /\ \A j \in Jobs : WF_vars(ThreadMain(j)) /\ WF_vars(DelayPasses(j))
    /\ \A j \in Jobs : SF_vars(ForceReap(j))

Spec == Init /\ [][Next]_vars
FairSpec == Spec /\ Fairness

-----------------------------------------------------------------------------
(* Properties.                                                             *)

States == {"NOT_CREATED", "CREATED", "INITIALIZED", "RAMP", "RUNNING",
           "FINISHING", "EXITED", "REAPED"}
Places == {"none", "start", "wait", "run", "stuck", "finish", "err", "exit", "dead"}

\* The types of the thread_data fields and of run_threads' variables.
TypeOK ==
    /\ runstate \in [Jobs -> States] /\ jpc \in [Jobs -> Places]
    /\ terminate \subseteq Jobs /\ delayed \subseteq Jobs /\ pid \subseteq Jobs
    /\ sigterm \subseteq Jobs /\ sem \subseteq Jobs /\ map \subseteq Jobs
    /\ startup \in Nat /\ idx \in 1..N + 1 /\ pending \in 0..N
    /\ mpc \in {"create", "startup", "init", "start", "reap", "reaplast", "last", "returned"}
    /\ todo \in 0..UINT - 1 /\ nr_running \in 0..UINT - 1 /\ nr_started \in 0..UINT - 1
    /\ fio_abort \in BOOLEAN /\ forced \subseteq Jobs /\ discounted \in [Jobs -> 0..2]

Created == {j \in Jobs \ sem : jpc[j] # "none"}
Unstarted == {j \in Jobs \ sem : runstate[j] # "REAPED"}
Unreaped == {j \in sem : runstate[j] # "REAPED"}

\* The three ways in which the code's own counters go wrong: a job terminated
\* unstarted is taken off todo again in a later pass, a job that was never let go
\* is taken off nr_running, and one that was reaped by force goes on after all and
\* is taken off nr_running twice.
Miscounted ==
    \/ \E j \in Jobs : discounted[j] = 2
    \/ \E j \in pid \ sem : runstate[j] = "REAPED"
    \/ \E j \in forced : jpc[j] # "stuck"

\* Unless one of those three happens, run_threads' counters count the jobs they are
\* named for at each of its steps: nr_running those let go and not reaped and, until
\* it aborts, nr_started those created and not let go.
CountsExact ==
    ~Miscounted => /\ nr_running = Cardinality(Unreaped)
                   /\ ~fio_abort => nr_started = Cardinality(Created)

\* todo, which ends the loop of run_threads, is the number of jobs that have not
\* started; it may be less once jobs are terminated unstarted, never more.
TodoCounts ==
    /\ todo <= Cardinality(Unstarted)
    /\ terminate = {} => todo = Cardinality(Unstarted)

CreatedNow(j) == runstate[j] = "NOT_CREATED" /\ runstate'[j] = "CREATED"


\* A job with wait_for does I/O only when the jobs it waits for are done with
\* theirs, except one that was reaped by force: reap_threads has given it up.
WaitForRespected ==
    \A j \in Jobs : jpc[j] \in {"run", "finish"} => \A i \in o.wait_for[j] \ forced :
        jpc[i] \notin {"start", "wait", "run", "stuck", "finish"}

\* Unless a job failed to start or the counters went wrong, run_threads returns
\* when every job that was created is reaped.
ReturnsReaped ==
    (mpc = "returned" /\ ~fio_abort /\ In({"CREATED"}) = {} /\ ~Miscounted)
        => In({"REAPED", "NOT_CREATED"}) = Jobs

\* ... and every job that nobody terminated was created: the loop of run_threads
\* does not end early unless a job was taken off todo twice.
AllStarted ==
    (mpc = "returned" /\ ~fio_abort /\ ~Miscounted) => In({"NOT_CREATED"}) \subseteq terminate

\* While no cpuio job has been reaped, reap_threads terminates the jobs on behalf
\* of cpuio only when no other job is left. (One that was reaped is still counted
\* as if it ran.)
OnlyCpuioCut ==
    [][(mpc \in {"reap", "reaplast"} /\ mpc' # mpc /\ terminate' # terminate
        /\ \A c \in o.cpuio : runstate[c] # "REAPED")
          => \A j \in Jobs \ o.cpuio : runstate[j] \in Ended]_vars


\* Once every job is told to terminate, run_threads returns although processes
\* hang, unless its counters went wrong or a thread hangs, which it never gives up.
InterruptReturns ==
    terminate = Jobs ~> (mpc = "returned" \/ Miscounted \/ \E j \in o.threads : jpc[j] = "stuck")
=============================================================================
