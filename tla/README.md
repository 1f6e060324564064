# fio in TLA+

A TLA+ model of the concurrent core of fio: how jobs are started, ended and
reaped, how a job's io_us travel between its lists, its threads and the I/O
engine, and the primitives this rests on. TLC checks the models on small
instances; TLAPS proves the main invariants of two of them for every value of
their constants. All line numbers refer to the sources in `src/`.

## The system

`fio` reads a job file, and `run_threads` starts every job as a process or a
thread (`thread_main`). `thread_data` (`td`) and the semaphores live in shared
memory. A job owns `iodepth` io_us; `do_io` takes one, fills it, gives it to the
engine, reaps completions and puts it back. With `io_submit_mode=offload` a pool
of workers submits instead; with `verify_async` other threads check what
`do_verify` read. A helper thread prints ETA and statistics, which it asks the
jobs for.

| part | state | operations | what is hard |
|---|---|---|---|
| semaphore, `fio_sem.c` | `value`, `waiters` | down, timed down, trylock, up | up signals only if the value was 0; time-outs race ups; spurious wake-ups |
| io_u life cycle, `io_u.c`, `ioengines.c`, `do_io` | freelist, requeue ring, engine, `io_u->flags`, `cur_depth`, `io_u_queued`, `io_u_in_flight` | get, put, requeue, queue, commit, getevents, complete, quiesce, drain, cleanup | counters moved at different places; short, busy and failing I/O; batches; unsigned wrap |
| job control, `backend.c`, `libfio.c` | `runstate`, `terminate`, `td->sem`, `startup_sem`, `todo`, `nr_running`, `nr_started` | creation pass, start, reap, terminate, SIGINT, the phases of a job | jobs move between any two looks of main; jobs fail, hang or are killed in every phase |
| work queue, `workqueue.c`, `rate-submit.c` | workers' lists and flags, `wake_idle`, workers' `td` | init, enqueue, flush, exit, worker loop | idle flag, list and flush under different locks; workers that fail to start |
| asynchronous verification, `verify.c` | `verify_list`, `verify_thread_exit`, `nr_verify_threads` | init, hand-over, thread loop, exit | detached threads; two condition variables; exit flag read without the lock |
| statistics, `stat.c`, `helper_thread.c` | `stat_sem`, `rusage_sem`, `update_rusage`, `ts.runtime` | intermediate statistics, rusage answer | asks jobs that may exit or die meanwhile |
| file locks, flow, zoned devices, `smalloc` | pools, counters and bitmaps in shared memory | lock, wait for a ratio, open zone, allocate | exhaustion, waiting for one another |
| random maps, histogram, LFSR | none (pure) | next free block, bucket of a latency | boundaries |
| server and client | connections, commands with time-outs | send, reply, fork | late and lost replies |

`PROJECT.json` lists every component with its status and reason, and the hazards
line by line.

## Modules

One step of a model is what the code does between two points where another actor
can see or change the state: the code between taking and giving up a lock, or
one look at shared memory that is not locked. Data (offsets, buffers, latencies,
names) is left out. A definition marked `Mutant` is not part of the model: it is
a deliberately wrong variant used to see that a property can fail.

**FioSem** - `fio_sem.c`. `pc[t]` says where a thread is in a down; `Up`,
`Unlock`, `Trylock`, `Down...` are the functions. The semaphore is used in two ways
in fio, as a lock (starts unlocked) and as a gate (starts locked, one waiter);
`locking` is chosen initially, and the second discipline is a guard taken from
the callers.

**IoU** - one job thread with inline submission. `loc[u]` is the list or hand an
io_u is in, `engine[u]` what the engine knows of it, the other variables are the
fields of `td` and the locals of `wait_for_completions` and
`io_u_queued_complete`. `td_io_queue` has all its results (queued, completed,
busy, error), the device completes in any order with every outcome, and the
engine's commit and getevents hooks may fail, a commit with a part of its batch
submitted (`MaxFaults` times in all; a getevents that fails delivers nothing).
The engine and the device are external. `finished`, `shorts`, `late`, `fatal` and
`getFailed` are history variables.

**JobControl** - main, `N` jobs in job file order, and whoever calls
`fio_terminate_threads`. `mpc`/`idx` walk through `run_threads` one job at a time;
`jpc[j]` walks job `j` through `thread_main`; all interleave. `o` is the job file
with the faults it may meet (creation fails, a job hangs before it is
initialized, fails, is killed, sticks in its I/O and perhaps goes on later, SIGINT).
`forced` and `discounted` are history variables; `Miscounted` names the three
things after which the counters of `run_threads` are wrong: a job taken off `todo`
twice, a job reaped that was never counted, a job reaped by force that goes on.

**Offload** - `workqueue.c` with the callbacks of `rate-submit.c` and the job
thread that feeds it: creation of workers with failures, dispatch by
`get_submit_worker`, the idle/flush/exit flags with their locks, `pre_sleep`,
the moving of counters to the parent, and `serialize_overlap` with its mutex, which
`check_overlap` takes and `td_io_queue` gives up. Where that unlock would fail, fio
aborts: the model has no step there.

**WorkPool** - what a work queue promises its caller: work handed over is done
once, a flush returns when all of it is done, and it does return. `Offload`
implements it (property `IsWorkPool`): `pending` is the set of io_us on a worker's list
or in a worker's hands.

**VerifyAsync** - `do_verify`, the `verify_async` threads, and their exit. The
unlocked `nr_verify_threads++` of `verify_async_init` can race the decrement of
a thread that could not bind itself to its CPUs; `CountRaced` has the outcomes.

**FioSemProofs, IoUProofs** - theorems. **MC...** - instances for TLC.

FioSem describes the primitive under `startup_sem` and `td->sem` of JobControl,
which uses it by its contract (a post is never lost, a lock excludes). IoU,
Offload and VerifyAsync are the three ways a job handles io_us; they share the
code of `__get_io_u`, `put_io_u` and `requeue_io_u`, each with what its mode uses
of it.

## Runs

| run | what it asks | instance | expected |
|---|---|---|---|
| `fio_sem` | exclusion, exact waiters, no lost wake-up, every post is noticed | 4 threads, both disciplines, value up to 3 | pass |
| `io_u_depth` | depth, flags, lists and engine agree on every path; `io_issues` exact, plus one for every short transfer reaped; a free io_u at every loop head; waits are satisfiable; drains are complete unless their own getevents fails; one I/O at most after an unnoticed error | 3 io_us, batches of 2, 5 submissions, one further `do_io`, ok/short/error, one failing hook, think time | pass |
| `io_u_live` | the depth stays below the latency target, the job ends | 3 io_us, latency target 2, all errors tolerated, one failing hook | pass |
| `io_u_quiesce` | `io_u_quiesce` returns | batches of 2, 3 io_us, no errors | violation |
| `io_u_fatal` | an error that is not tolerated is in `td->error` at the end | 2 io_us, `continue_on_error=read` | violation |
| `job_files` | unless `Miscounted`: counters exact, everything started and reaped, `run_threads` returns, also after SIGINT unless a thread hangs; `stonewall` kept, but for delayed and terminated jobs; `wait_for` kept, but for jobs given up; nothing cut for cpuio while others run, until a cpuio job is reaped | 12 job files of 3 jobs | pass |
| `job_todo` | `todo` is the number of jobs to start | SIGINT while a job waits for another | violation |
| `offload` | the queue implements WorkPool, flush means done and, without late engines, accounted, depth exact, overlapping I/O excluded outside a ramp time, the job ends unless it failed on an engine with getevents | 2 workers, 2 io_us, 7 jobs | pass |
| `offload_drain` | the error path waits only for I/O in flight | one failing job | violation |
| `offload_busy` | `td_io_queue` gives up a mutex the worker holds | `serialize_overlap`, a busy engine | violation |
| `verify_async` | an io_u is in one place; unless threads left during creation, they are gone before cleanup and exit returns; the job ends as long as no thread left with an error | 2 threads, 3 io_us, 6 jobs | pass |
| `verify_fatal` | a fatal mismatch is in `td->error` | one job with mismatches | violation |

A property that holds only "unless" something says so in its comment, and the
instances of its run contain the excluded case, so that TLC refutes the property
without its exception. The exceptions are the disagreements listed below. Left
out of the instances, because more than one property fails there, are three
kinds of job: a hook that fails for ever (`io_u_quiesce` then never returns), a
late engine that also fails (`OffloadAssumption`), and an engine with getevents that
is busy while it holds nothing (a worker waits for ever, rate-submit.c:131).

**Bounds.** Three io_us with batches of two give a full batch, a partial batch
and a remainder at once; five submissions and a second `do_io` let an io_u be
requeued, completed short and reused, and one failing hook falls into any of
them. Two workers or threads are the least with
competition, and more io_us than threads (or as many, with more submissions than
io_us) make the job thread wait for one. Three jobs are a job, one that depends on it and a bystander.
`UINT` stands for 2^32: the models need only that it exceeds every true count,
so that a wrap is a wrap. Options that exclude one another are separate job
records and not a product, which is why a run takes a set of jobs and chooses one
initially. Symmetry is used only in `io_u_depth`, over io_us, which appear in no
order but that of the requeue ring; no liveness is checked there.

**Fairness.** FioSem: a woken or expired thread runs again, and a holder
releases (callers hold it for a bounded stretch). IoU: the job thread runs, the
device completes what it was given; a hook fails `MaxFaults` times at most.
JobControl: main and every job are scheduled,
start delays pass, and, strongly fair, `reap_threads` looks at a stuck job after
`FIO_REAP_TIMEOUT` too, since the time-out stays expired. Offload and VerifyAsync: every thread that
can run is scheduled, an engine delivers what it holds and, strongly fair, an
engine that is busy now and then takes an io_u at last. No fairness is assumed
of errors, spurious wake-ups or time-outs, and none of SIGINT.

## Proofs

TLAPS proves, for any number of threads, io_us, any batch sizes, options and
bounds satisfying the named assumptions of the modules:

* `FioSemProofs`: `MutualExclusion`, `WaitersExact`, `NoLostWakeup`. The inductive
  invariant is the conjunction of these with `TypeOK` and `OneWaiter` (as a gate,
  only `Waiter` is ever in a down). `NoLostWakeup` needs `WaitersExact`, because
  `fio_sem_up` decides from `waiters` whether to signal, and the gate needs
  `OneWaiter`: with two waiters the skipped signal would strand one.
* `IoUProofs`: `TypeOK`, `DepthExact`, `SumExact`, `FlagsAgree`, `RequeuesExact`,
  `WaitsForWhatCanCome`, `DrainsAll`, `QuiesceDrains`. `IInv` is the first five with
  `PhaseOK`, which says what each place of the code may assume (who holds an io_u, that
  `min_evts` does not exceed `cur_depth`, which caller is waiting). `SumExact` is the
  form that is inductive: each counter alone is wrong after `td_io_getevents` has
  submitted behind `td_io_commit`, their sum modulo 2^32 is not. Failing hooks are in
  the model the proofs are about: `DrainsAll` says what a failure may leave. One lemma per
  action, cardinality lemmas for adding and removing an io_u, and PTL at the end.

The assumptions are what `fixup_options` establishes (`1 <= iodepth_batch <=
iodepth` and so on), finiteness, and that counts fit the width of the counters.

Only model-checked: all liveness (outside the prover's reach), `LateBounded`, `IssuesExact` and `NeverStarved` of IoU, and everything of
JobControl, Offload (the implementation of WorkPool included) and VerifyAsync.

## Where code and text disagree

Six runs show a disagreement with a comment of the code or with HOWTO.rst;
`findings` in `PROJECT.json` quotes both sides.

* `io_u_quiesce`: after `td_io_getevents` submitted a partial batch,
  `io_u_in_flight` has wrapped and the loop at io_u.c:1549 never ends.
* `io_u_fatal`: with `continue_on_error=read` a failed write is cleared by a read that
  completes after it in the same batch (io_u.c:4298).
* `job_todo`: a job terminated before its creation is taken off `todo` in every
  pass (backend.c:4815).
* `offload_drain`: the io_u the job thread holds when a worker fails is never put
  back, and the drain waits for it (backend.c:2577).
* `offload_busy`: `overlap_check` is unlocked a second time after `FIO_Q_BUSY`
  (rate-submit.c:128), and fio aborts where the mutex checks errors.
* `verify_fatal`: a fatal mismatch is forgotten when a good io_u follows in the
  same batch (verify.c:2794).

Others were met while modelling and have no run of their own. The models contain
the behaviour or exclude it by a named option:

* `todo` can also reach zero early, so that a later job is never started. A thread
  that hangs is never given up, so that `run_threads` does not return (backend.c:4286).
* An endless cpuio process is not terminated when the others end (backend.c:4302,
  against HOWTO.rst:2219); an ended cpuio thread is still counted, so that the
  last real job is cut (backend.c:4322).
* A job that fails before it was counted is reaped and discounted
  (backend.c:4306); a job reaped by force that ends later is discounted twice
  (backend.c:4294).
* `exitall` with `exit_what=group` sends SIGTERM, whose handler ends all groups
  (libfio.c:353); `stonewall` does not wait for a job whose start delay has not
  passed (backend.c:4833, against HOWTO.rst:3949).
* A short I/O that is reaped is counted twice in `io_issues` (io_u.c:4173);
  `cleanup_io_u` leaves a requeued io_u behind (backend.c:2854); what is in the engine
  stays there when the getevents of the drain fails (backend.c:2750).
* A job in its ramp time is passed over by `check_overlap` (rate-submit.c:82); what
  `pre_sleep` reaps is accounted after the worker was flagged idle; an io_u
  is dropped when reaping after `FIO_Q_BUSY` fails.
* verify_async threads leave on the exit flag alone: what is still on
  `verify_list` is not verified (verify.c:2761). After a fatal mismatch the job
  thread may wait on `free_cond` with no thread left (io_u.c:3458): an engine that
  completes in its queue hook never makes `do_verify` look at `td->error`, one that
  queues only right after queueing.

## Not modelled

Job file parsing, checksums, output formats, ETA, the graphical client, engines'
system calls, memory and clock wrappers: data, I/O or user interface without
state that several actors share. Details left out of modelled parts are in the notes
of the components: rate limiting, logging, latency accounting, zoned devices,
`experimental_verify`, reads that fail during verification, log compression (the
second user of the work queue), several jobs sharing `overlap_check`, failing
`pthread` calls on locks.

## Plan

Models, in this order:

1. **StatSync**: `__show_running_run_stats` (stat.c:3791-3857),
   `check_update_rusage` (backend.c:1106-1113), the two uses of `stat_sem` in
   `thread_main` (3975-3998, 4025-4028) and its end (4057-4149). To show: the
   helper returns and no job is kept from ending when jobs exit at any moment;
   `ts.runtime` is left as it was (stat.c:3786 says so, but the job can exit, or
   set `ts.io_bytes`, between the addition and the subtraction). To be included:
   jobs that die, threads not created after `rusage_sem` was set
   (backend.c:4855), and the store of `runstate` against the load of
   `update_rusage` without a barrier.
2. **FileLock**: `filelock.c` with its pool, references and retries.
3. **Algorithms**: `lib/axmap.c`, `lib/lfsr.c`, `plat_val_to_idx` and
   `plat_idx_to_val` against reference definitions, as functions.
4. **Flow**: `flow.c`; at least one job of a flow is never held back.
5. Server and client commands with time-outs; the helper thread's pipe; zone
   locks; `smalloc`.

Theorems, in this order:

1. `VerifyAsync`: `HandedOnce` (strengthened by the sequences being injective) and
   `GoneBeforeCleanup` (from `nr_verify_threads` being exact without affinity faults).
2. `Offload`: an idle worker's lists and hands are empty, hence `FlushComplete`; then
   `DepthExact` and `NoOverlap`, which need that an io_u is in one place; then the
   step simulation of WorkPool.
3. `JobControl`: `CountsExact` for any number of jobs, without "slow" and "create".
4. `Flow`: the sum of the jobs' counters against the shared one, hence that not
   all are held back.
