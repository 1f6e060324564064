-------------------------------- MODULE IoU --------------------------------
(***************************************************************************)
(* The life of the io_us of one job thread: do_io of backend.c with        *)
(* __get_io_u, put_io_u, requeue_io_u, io_u_quiesce and io_completed of    *)
(* io_u.c and td_io_queue, td_io_commit and td_io_getevents of             *)
(* ioengines.c. The job submits inline (io_submit_mode=inline) and         *)
(* verifies nothing asynchronously, so that it never takes td->io_u_lock.  *)
(*                                                                         *)
(* The engine and the device behind it are external: an io_u the engine    *)
(* queued is submitted by its commit, and the device completes submitted   *)
(* io_us in any order and at any time.                                     *)
(***************************************************************************)
EXTENDS Integers, Sequences, FiniteSets

CONSTANTS
    IoUs,           \* td->io_u_all: o->iodepth of them
    IodepthBatch,   \* o->iodepth_batch
    CompleteMin,    \* o->iodepth_batch_complete_min
    CompleteMax,    \* o->iodepth_batch_complete_max
    IodepthLow,     \* o->iodepth_low
    LatencyQd,      \* td->latency_qd, 0 without a latency target
    HasCommit,      \* the engine has a commit hook
    Thinktime,      \* o->thinktime is set
    ContinueOn,     \* the ddirs o->continue_on_error covers
    Outcomes,       \* how the device may complete: "ok", "short", "error"
    MaxGets,        \* bound: io_us taken in all
    MaxLoops,       \* bound: calls of do_io
    MaxFaults,      \* bound: calls of the commit and getevents hooks that fail
    UINT            \* 2^32, the range of unsigned int

Iodepth == Cardinality(IoUs)
Ddirs == {"READ", "WRITE"}

ASSUME IoUsAssumption == IsFiniteSet(IoUs) /\ IoUs # {}
\* fixup_options leaves the four depth options like this.
ASSUME FixupAssumption ==
    /\ IodepthBatch \in 1..Iodepth
    /\ IodepthLow \in 1..Iodepth
    /\ CompleteMin \in Nat /\ CompleteMax \in Nat /\ CompleteMin <= CompleteMax
ASSUME LatencyAssumption == LatencyQd \in 0..Iodepth
ASSUME OptionAssumption ==
    /\ HasCommit \in BOOLEAN /\ Thinktime \in BOOLEAN
    /\ ContinueOn \subseteq Ddirs
    /\ Outcomes \subseteq {"ok", "short", "error"}
ASSUME BoundAssumption == MaxGets \in Nat /\ MaxLoops \in Nat /\ MaxFaults \in Nat
ASSUME UintAssumption == UINT \in Nat /\ Iodepth < UINT /\ MaxGets < UINT

VARIABLES
    loc,            \* the list, or the hands, each io_u is in
    flags,          \* io_u->flags
    ddir,           \* io_u->ddir
    requeues,       \* td->io_u_requeues, oldest first
    engine,         \* what the engine and the device know of each io_u
    cur_depth,      \* td->cur_depth
    io_u_queued,    \* td->io_u_queued
    io_u_in_flight, \* td->io_u_in_flight
    io_issues,      \* td->io_issues, reads and writes together
    error,          \* td->error is set
    icd_error,      \* icd.error of the completions being handled
    pc,             \* where do_io is
    full,           \* wait_for_completions: full
    min_evts,       \* io_u_queued_complete: min_evts
    caller,         \* who called io_u_queued_complete
    gets, loops, faults, \* bounded by MaxGets, MaxLoops, MaxFaults
    getFailed,      \* history: the last td_io_getevents failed
    finished,       \* history: I/Os completed for good
    shorts,         \* history: short transfers td_io_getevents brought
    fatal,          \* history: a completion failed with an error that must end the job
    late            \* history: I/Os issued since td->error was set

depths == <<cur_depth, io_u_queued, io_u_in_flight, io_issues>>
control == <<pc, full, min_evts, caller, gets, loops>>
hook == <<faults, getFailed>>
history == <<finished, shorts, late>>
errors == <<error, icd_error, fatal>>
vars == <<loc, flags, ddir, requeues, engine, depths, control, errors, hook, history>>

-----------------------------------------------------------------------------
\* unsigned int arithmetic.
Plus(a, b) == IF a + b < UINT THEN a + b ELSE a + b - UINT
Minus(a, b) == IF a >= b THEN a - b ELSE a - b + UINT
Less(a, b) == IF a < b THEN a ELSE b

At(place) == {u \in IoUs : loc[u] = place}
Engine(state) == {u \in IoUs : engine[u] = state}

\* init_io_u: every io_u on the freelist.
Init ==
    /\ loc = [u \in IoUs |-> "freelist"]
    /\ flags = [u \in IoUs |-> {"FREE"}]
    /\ ddir \in [IoUs -> {"READ"}]
    /\ requeues = <<>>
    /\ engine = [u \in IoUs |-> "none"]
    /\ cur_depth = 0 /\ io_u_queued = 0 /\ io_u_in_flight = 0 /\ io_issues = 0
    /\ error = FALSE /\ icd_error = FALSE /\ fatal = FALSE
    /\ pc = "loop" /\ full = FALSE /\ min_evts = 0 /\ caller = "none"
    /\ gets = 0 /\ loops = 0 /\ faults = 0 /\ getFailed = FALSE
    /\ finished = 0 /\ shorts = 0 /\ late = 0

\* Mutant: the latency target is not looked at when do_io reaps.
QueueFullFreelistOnly(l, depth) == \A u \in IoUs : l[u] # "freelist"

\* Mutant: only the latency target is looked at, not the freelist.
QueueFullLatencyOnly(l, depth) == LatencyQd # 0 /\ depth >= LatencyQd

\* queue_full, of the locations and depth given.
QueueFull(l, depth) ==
    \/ \A u \in IoUs : l[u] # "freelist"
    \/ LatencyQd # 0 /\ depth >= LatencyQd

\* Mutant: FLIGHT is left set.
ReleaseKeepsFlight(u) ==
    /\ flags' = [flags EXCEPT ![u] = @ \cup {"FREE"}]
    /\ cur_depth' = IF "IN_CUR_DEPTH" \in flags[u] THEN Minus(cur_depth, 1) ELSE cur_depth

\* The part put_io_u and requeue_io_u share: the io_u is FREE again and leaves
\* cur_depth. IN_CUR_DEPTH itself stays set.
Release(u) ==
    /\ flags' = [flags EXCEPT ![u] = (@ \ {"FLIGHT"}) \cup {"FREE"}]
    /\ cur_depth' = IF "IN_CUR_DEPTH" \in flags[u] THEN Minus(cur_depth, 1) ELSE cur_depth

put_io_u(u) ==
    /\ Release(u)
    /\ loc' = [loc EXCEPT ![u] = "freelist"]
    /\ UNCHANGED requeues

\* Mutant: a requeued io_u stays in cur_depth.
requeue_io_u_KeepsDepth(u, inFlight, issues) ==
    /\ flags' = [flags EXCEPT ![u] = (@ \ {"FLIGHT"}) \cup {"FREE"}]
    /\ loc' = [loc EXCEPT ![u] = "requeues"]
    /\ requeues' = Append(requeues, u)
    /\ io_issues' = IF inFlight THEN issues - 1 ELSE issues
    /\ UNCHANGED cur_depth

\* requeue_io_u, with the FLIGHT bit and io_issues it finds.
requeue_io_u(u, inFlight, issues) ==
    /\ Release(u)
    /\ loc' = [loc EXCEPT ![u] = "requeues"]
    /\ requeues' = Append(requeues, u)
    /\ io_issues' = IF inFlight THEN issues - 1 ELSE issues

\* The engine's commit hook: what it has queued goes to the device, but for
\* the io_us rest when the hook fails.
Submit(eng, rest) ==
    [u \in IoUs |-> IF eng[u] = "queued" /\ u \notin rest THEN "submitted" ELSE eng[u]]

CommitHook(eng, rest) ==
    /\ rest \subseteq {u \in IoUs : eng[u] = "queued"}
    /\ rest # {} => faults < MaxFaults
    /\ faults' = IF rest = {} THEN faults ELSE faults + 1
    /\ engine' = Submit(eng, rest)

\* Mutant: io_u_queued is not reset.
td_io_commit_NoReset(eng, queued, depth, rest) ==
    /\ io_u_queued' = queued
    /\ IF depth # 0 /\ queued # 0
       THEN CommitHook(eng, rest) /\ io_u_in_flight' = Plus(io_u_in_flight, queued)
       ELSE rest = {} /\ engine' = eng /\ UNCHANGED <<io_u_in_flight, faults>>

\* td_io_commit, with the engine, io_u_queued and cur_depth it finds. It moves
\* the counters even if the hook fails; its callers see td->error then.
td_io_commit(eng, queued, depth, rest) ==
    IF depth # 0 /\ queued # 0
    THEN /\ CommitHook(eng, rest)
         /\ io_u_in_flight' = Plus(io_u_in_flight, queued)
         /\ io_u_queued' = 0
    ELSE rest = {} /\ engine' = eng /\ io_u_queued' = queued /\ UNCHANGED <<io_u_in_flight, faults>>

-----------------------------------------------------------------------------
(* do_io: the loop head and get_io_u.                                      *)

\* Time is up, the bytes are issued, or somebody asked the job to terminate.
LoopEnds ==
    /\ pc = "loop"
    /\ pc' = "drain"
    /\ UNCHANGED <<loc, flags, ddir, requeues, engine, depths, errors, hook, history>>
    /\ UNCHANGED <<full, min_evts, caller, gets, loops>>

\* __get_io_u hands out the oldest requeued io_u, else a free one. That there
\* is neither, so that it returns NULL, does not happen (NeverStarved).
Take(u) ==
    /\ pc = "loop" /\ gets < MaxGets
    /\ gets' = gets + 1
    /\ loc' = [loc EXCEPT ![u] = "hand"]
    /\ flags' = [flags EXCEPT ![u] = (@ \ {"FREE"}) \cup {"IN_CUR_DEPTH"}]
    /\ cur_depth' = Plus(cur_depth, 1)
    /\ pc' = "have"
    /\ UNCHANGED <<engine, io_u_queued, io_u_in_flight, io_issues, errors, hook, history>>
    /\ UNCHANGED <<full, min_evts, caller, loops>>

\* Mutant: the io_u is not taken off io_u_requeues.
GetRequeuedPeek ==
    /\ requeues # <<>>
    /\ Take(Head(requeues))
    /\ UNCHANGED <<ddir, requeues>>

GetRequeued ==
    /\ requeues # <<>>
    /\ Take(Head(requeues))
    /\ requeues' = Tail(requeues)
    /\ UNCHANGED ddir

GetFree(u, d) ==
    /\ requeues = <<>> /\ ~QueueFull(loc, cur_depth)
    /\ loc[u] = "freelist"
    /\ Take(u)
    /\ ddir' = [ddir EXCEPT ![u] = d]
    /\ UNCHANGED requeues

io_in_polling == CompleteMin = 0 /\ CompleteMax = 0

\* "wait" comes after an I/O was issued and may be followed by think time,
\* "waitnone" after none was.
Next_pc == [wait |-> "think", waitnone |-> "loop"]

\* The reap part of do_io: wait_for_completions, which asks queue_full itself,
\* up to its first io_u_queued_complete; or on with the loop.
Reap(busy, who) ==
    LET isFull == QueueFull(loc', cur_depth')
        m == Less(CompleteMin, cur_depth')
    IN  IF isFull \/ (busy /\ cur_depth' # 0) \/ io_in_polling
        THEN /\ pc' = "complete" /\ caller' = who /\ full' = isFull
             /\ min_evts' = IF (isFull /\ m = 0) \/ CompleteMin = 0 THEN 1 ELSE m
        ELSE pc' = Next_pc[who] /\ UNCHANGED <<caller, full, min_evts>>

\* get_io_u gives the io_u back: no file can take I/O now (EBUSY: reap), or
\* there is no more to do or prep failed (the loop ends).
GiveBack(u) ==
    /\ pc = "have" /\ loc[u] = "hand"
    /\ put_io_u(u)
    /\ \/ Reap(TRUE, "waitnone")
       \/ LatencyQd # 0 /\ Reap(FALSE, "waitnone")
       \/ LatencyQd = 0 /\ pc' = "drain" /\ UNCHANGED <<caller, full, min_evts>>
    /\ UNCHANGED <<ddir, engine, io_u_queued, io_u_in_flight, io_issues, errors, hook, history, gets, loops>>

-----------------------------------------------------------------------------
(* do_io: io_u_submit, td_io_queue and io_queue_event of the io_u in hand. *)

\* Mutant: an error that is already in td->error does not break the loop.
AfterQueueRetOnly(u, failed, busy) ==
    IF failed /\ ddir[u] \notin ContinueOn
    THEN error' = TRUE /\ pc' = "drain" /\ UNCHANGED <<caller, full, min_evts>>
    ELSE UNCHANGED error /\ Reap(busy /\ ~failed, "wait")

\* break_on_this_error, with the ddir of the io_u just issued, and the reaping
\* that follows when the loop goes on. An error that is ignored clears ret, so
\* that FIO_Q_BUSY is forgotten with it.
AfterQueue(u, failed, busy) ==
    LET bad == failed \/ error
    IN  IF bad /\ ddir[u] \notin ContinueOn
        THEN error' = TRUE /\ pc' = "drain" /\ UNCHANGED <<caller, full, min_evts>>
        ELSE error' = FALSE /\ Reap(busy /\ ~bad, "wait")

InHand(u) == pc = "have" /\ loc[u] = "hand"

\* A call of td_io_queue with td->error set is late, unless the error is then
\* ignored with its own.
Issued == late' = IF error /\ error' THEN late + 1 ELSE 0

\* FIO_Q_QUEUED: io_u_queued++, and a commit once a batch is together.
Queued(u, rest) ==
    /\ InHand(u)
    /\ LET queued == Plus(io_u_queued, 1)
           eng == [engine EXCEPT ![u] = IF HasCommit THEN "queued" ELSE "submitted"]
       IN  IF queued >= IodepthBatch
           THEN td_io_commit(eng, queued, cur_depth, rest)
           ELSE rest = {} /\ engine' = eng /\ io_u_queued' = queued /\ UNCHANGED <<io_u_in_flight, faults>>
    /\ flags' = [flags EXCEPT ![u] = @ \cup {"FLIGHT"}]
    /\ loc' = [loc EXCEPT ![u] = "engine"]
    /\ io_issues' = io_issues + 1
    /\ UNCHANGED <<ddir, requeues, cur_depth, icd_error, fatal, getFailed, finished, shorts, gets, loops>>
    /\ AfterQueue(u, rest # {}, FALSE)
    /\ Issued

\* Mutant: a busy io_u is requeued as if it had been issued.
BusyUncounts(u, rest) ==
    /\ InHand(u)
    /\ requeue_io_u(u, TRUE, io_issues)
    /\ td_io_commit(engine, io_u_queued, cur_depth', rest)
    /\ AfterQueue(u, rest # {}, TRUE)
    /\ UNCHANGED <<ddir, icd_error, fatal, getFailed, history, gets, loops>>

\* FIO_Q_BUSY, from the engine, which may hold nothing, or because the io_u
\* overlaps one in flight: it is requeued and what is queued is committed.
Busy(u, rest) ==
    /\ InHand(u)
    /\ requeue_io_u(u, FALSE, io_issues)
    /\ td_io_commit(engine, io_u_queued, cur_depth', rest)
    /\ AfterQueue(u, rest # {}, TRUE)
    /\ UNCHANGED <<ddir, icd_error, fatal, getFailed, history, gets, loops>>

\* FIO_Q_COMPLETED in full, or with an error: the io_u is put.
Completed(u, failed) ==
    /\ InHand(u)
    /\ failed => "error" \in Outcomes
    /\ put_io_u(u)
    /\ io_issues' = io_issues + 1
    /\ finished' = finished + 1
    /\ fatal' = (fatal \/ (failed /\ ddir[u] \notin ContinueOn))
    /\ AfterQueue(u, failed, FALSE)
    /\ Issued
    /\ UNCHANGED <<ddir, engine, io_u_queued, io_u_in_flight, icd_error, hook, shorts, gets, loops>>

\* FIO_Q_COMPLETED short: requeued with FLIGHT set.
CompletedShort(u) ==
    /\ InHand(u)
    /\ "short" \in Outcomes
    /\ requeue_io_u(u, TRUE, io_issues + 1)
    /\ AfterQueue(u, FALSE, FALSE)
    /\ Issued
    /\ UNCHANGED <<ddir, engine, io_u_queued, io_u_in_flight, icd_error, fatal, hook, finished, shorts, gets, loops>>

-----------------------------------------------------------------------------
(* io_u_queued_complete: td_io_getevents, then ios_completed.              *)

\* The device finishes an io_u.
DeviceCompletes(u) ==
    /\ engine[u] = "submitted"
    /\ engine' = [engine EXCEPT ![u] = "done"]
    /\ UNCHANGED <<loc, flags, ddir, requeues, depths, control, errors, hook, history>>

\* Where the error of io_u_queued_complete takes its caller: wait_for_completions
\* returns it and do_io leaves its loop, io_u_quiesce goes on, the drain drops it.
AfterError == [wait |-> "drain", waitnone |-> "drain", quiesce |-> "quiesce", drain |-> "done"]

\* td_io_getevents failed, in the commit hook or in getevents itself.
\* io_u_in_flight and the io_us in the engine are left alone.
GetFails == error' = TRUE /\ getFailed' = TRUE /\ pc' = AfterError[caller]

\* Mutant: min_evts is not capped.
QueuedCompleteNoCap(rest) ==
    /\ pc = "complete"
    /\ IF min_evts > 0 /\ HasCommit
       THEN CommitHook(engine, rest)
       ELSE rest = {} /\ UNCHANGED <<engine, faults>>
    /\ IF rest = {} THEN pc' = "getevents" /\ UNCHANGED <<error, getFailed>> ELSE GetFails
    /\ UNCHANGED <<loc, flags, ddir, requeues, depths, icd_error, fatal, history>>
    /\ UNCHANGED <<full, min_evts, caller, gets, loops>>

\* min_evts is capped at cur_depth; td_io_getevents calls the engine's commit
\* hook itself, and returns its error.
QueuedComplete(rest) ==
    /\ pc = "complete"
    /\ min_evts' = Less(min_evts, cur_depth)
    /\ IF min_evts' > 0 /\ HasCommit
       THEN CommitHook(engine, rest)
       ELSE rest = {} /\ UNCHANGED <<engine, faults>>
    /\ IF rest = {} THEN pc' = "getevents" /\ UNCHANGED <<error, getFailed>> ELSE GetFails
    /\ UNCHANGED <<loc, flags, ddir, requeues, depths, icd_error, fatal, history>>
    /\ UNCHANGED <<full, caller, gets, loops>>

\* The engine's getevents hook fails.
GetEventsFails ==
    /\ pc = "getevents"
    /\ faults < MaxFaults /\ faults' = faults + 1
    /\ GetFails
    /\ UNCHANGED <<loc, flags, ddir, requeues, engine, depths, icd_error, fatal, history>>
    /\ UNCHANGED <<full, min_evts, caller, gets, loops>>

\* The engine returns the done io_us S, at least min_evts and at most max.
Delivered(S) ==
    /\ S \subseteq Engine("done")
    /\ Cardinality(S) >= min_evts
    /\ LET max == Less(CompleteMax, cur_depth)
       IN  Cardinality(S) <= IF min_evts > max THEN min_evts ELSE max

\* Mutant: io_u_in_flight is signed.
InFlightSigned(n) == io_u_in_flight - n

\* Mutant: td_io_getevents leaves io_u_in_flight alone.
InFlightKept(n) == io_u_in_flight

\* io_u_in_flight once n events came back.
InFlightAfter(n) == Minus(io_u_in_flight, n)

GetEvents(S) ==
    /\ pc = "getevents"
    /\ Delivered(S)
    /\ io_u_in_flight' = InFlightAfter(Cardinality(S))
    /\ engine' = [u \in IoUs |-> IF u \in S THEN "none" ELSE engine[u]]
    /\ loc' = [u \in IoUs |-> IF u \in S THEN "event" ELSE loc[u]]
    /\ icd_error' = FALSE /\ getFailed' = FALSE
    /\ pc' = "events"
    /\ UNCHANGED <<flags, ddir, requeues, cur_depth, io_u_queued, io_issues, error, fatal, faults, history>>
    /\ UNCHANGED <<full, min_evts, caller, gets, loops>>

InEvents(u) == pc = "events" /\ loc[u] = "event"

\* io_completed of a full or failed transfer, then put_io_u. icd->error is the
\* batch's: it is judged again, with this io_u's ddir, at every completion.
IoCompleted(u, failed) ==
    /\ InEvents(u)
    /\ failed => "error" \in Outcomes
    /\ put_io_u(u)
    /\ finished' = finished + 1
    /\ fatal' = (fatal \/ (failed /\ ddir[u] \notin ContinueOn))
    /\ LET bad == icd_error \/ failed
           ignored == bad /\ ddir[u] \in ContinueOn
       IN  /\ icd_error' = (bad /\ ~ignored)
           /\ error' = (error /\ ~ignored)
    /\ UNCHANGED <<ddir, engine, io_u_queued, io_u_in_flight, io_issues, hook, shorts, late, control>>

\* io_completed of a short transfer: FLIGHT was cleared before requeue_io_u.
IoCompletedShort(u) ==
    /\ InEvents(u)
    /\ "short" \in Outcomes
    /\ requeue_io_u(u, FALSE, io_issues)
    /\ shorts' = shorts + 1
    /\ UNCHANGED <<ddir, engine, io_u_queued, io_u_in_flight, errors, hook, finished, late, control>>

\* td_verror of icd.error.
BatchError == error \/ icd_error

\* The batch is handled: back to the caller.
EventsDone ==
    /\ pc = "events" /\ At("event") = {}
    /\ error' = BatchError
    /\ pc' = IF icd_error \/ caller \in {"quiesce", "drain"} THEN AfterError[caller]
             ELSE IF full /\ cur_depth > IodepthLow THEN "complete"
             ELSE Next_pc[caller]
    /\ UNCHANGED <<loc, flags, ddir, requeues, engine, depths, icd_error, fatal, hook, history>>
    /\ UNCHANGED <<full, min_evts, caller, gets, loops>>

-----------------------------------------------------------------------------
(* handle_thinktime with io_u_quiesce, and the end of do_io.               *)

\* No think time yet.
Continue ==
    /\ pc = "think"
    /\ pc' = "loop"
    /\ UNCHANGED <<loc, flags, ddir, requeues, engine, depths, errors, hook, history>>
    /\ UNCHANGED <<full, min_evts, caller, gets, loops>>

\* Mutant: io_u_quiesce does not commit.
StallNoCommit(rest) ==
    /\ pc = "think" /\ Thinktime /\ rest = {}
    /\ pc' = "quiesce"
    /\ UNCHANGED <<loc, flags, ddir, requeues, engine, depths, errors, hook, history>>
    /\ UNCHANGED <<full, min_evts, caller, gets, loops>>

\* io_u_quiesce commits what is queued (td_io_commit returns early when
\* cur_depth is 0) ...
Stall(rest) ==
    /\ pc = "think" /\ Thinktime
    /\ td_io_commit(engine, io_u_queued, cur_depth, rest)
    /\ error' = (error \/ rest # {})
    /\ pc' = "quiesce"
    /\ UNCHANGED <<loc, flags, ddir, requeues, cur_depth, io_issues, icd_error, fatal, getFailed, history>>
    /\ UNCHANGED <<full, min_evts, caller, gets, loops>>

\* ... and completes one io_u at a time while io_u_in_flight is not 0,
\* whatever io_u_queued_complete returns.
Quiesce ==
    /\ pc = "quiesce"
    /\ IF io_u_in_flight = 0
       THEN pc' = "loop" /\ UNCHANGED <<min_evts, caller>>
       ELSE pc' = "complete" /\ min_evts' = 1 /\ caller' = "quiesce"
    /\ UNCHANGED <<loc, flags, ddir, requeues, engine, depths, errors, hook, history>>
    /\ UNCHANGED <<full, gets, loops>>

\* Mutant: nothing is reaped after an error.
DrainUnlessError ==
    /\ pc = "drain"
    /\ IF error \/ cur_depth = 0
       THEN pc' = "done" /\ UNCHANGED <<min_evts, caller>>
       ELSE pc' = "complete" /\ min_evts' = cur_depth /\ caller' = "drain"
    /\ UNCHANGED <<loc, flags, ddir, requeues, engine, depths, errors, hook, history>>
    /\ UNCHANGED <<full, gets, loops>>

\* After the loop: one io_u_queued_complete for all of cur_depth. do_io returns
\* whatever comes of it.
Drain ==
    /\ pc = "drain"
    /\ IF ~error /\ cur_depth = 0
       THEN pc' = "done" /\ UNCHANGED <<min_evts, caller>>
       ELSE pc' = "complete" /\ min_evts' = cur_depth /\ caller' = "drain"
    /\ UNCHANGED <<loc, flags, ddir, requeues, engine, depths, errors, hook, history>>
    /\ UNCHANGED <<full, gets, loops>>

\* keep_running: do_io is called again (clear_io_state leaves the depths and
\* the requeued io_us alone).
RunAgain ==
    /\ pc = "done" /\ ~error /\ loops < MaxLoops
    /\ pc' = "loop" /\ loops' = loops + 1
    /\ UNCHANGED <<loc, flags, ddir, requeues, engine, depths, errors, hook, history>>
    /\ UNCHANGED <<full, min_evts, caller, gets>>

\* cleanup_io_u: the freelist is freed, and only then requeued io_us are put.
cleanup_io_u ==
    /\ pc = "done"
    /\ loc' = [u \in IoUs |-> CASE loc[u] = "freelist" -> "freed"
                                [] loc[u] = "requeues" -> "freelist"
                                [] OTHER -> loc[u]]
    /\ cur_depth' = Minus(cur_depth, Cardinality({u \in At("requeues") : "IN_CUR_DEPTH" \in flags[u]}))
    /\ requeues' = <<>>
    /\ pc' = "exited"
    /\ UNCHANGED <<flags, ddir, engine, io_u_queued, io_u_in_flight, io_issues, errors, hook, history>>
    /\ UNCHANGED <<full, min_evts, caller, gets, loops>>

Exited == pc = "exited" /\ UNCHANGED vars

JobStep ==
    \/ LoopEnds \/ GetRequeued
    \/ \E u \in IoUs, d \in Ddirs : GetFree(u, d)
    \/ \E u \in IoUs : GiveBack(u) \/ CompletedShort(u)
    \/ \E u \in IoUs, rest \in SUBSET IoUs : Queued(u, rest) \/ Busy(u, rest)
    \/ \E u \in IoUs, failed \in BOOLEAN : Completed(u, failed) \/ IoCompleted(u, failed)
    \/ \E rest \in SUBSET IoUs : QueuedComplete(rest) \/ Stall(rest)
    \/ GetEventsFails
    \/ \E S \in SUBSET IoUs : GetEvents(S)
    \/ \E u \in IoUs : IoCompletedShort(u)
    \/ EventsDone \/ Continue \/ Quiesce \/ Drain \/ RunAgain \/ cleanup_io_u

Next == JobStep \/ Exited \/ \E u \in IoUs : DeviceCompletes(u)

\* The job thread runs, and the device finishes what it was given.
Fairness == WF_vars(JobStep) /\ \A u \in IoUs : WF_vars(DeviceCompletes(u))

Spec == Init /\ [][Next]_vars /\ Fairness

-----------------------------------------------------------------------------
TypeOK ==
    /\ loc \in [IoUs -> {"freelist", "requeues", "hand", "engine", "event", "freed"}]
    /\ flags \in [IoUs -> SUBSET {"FREE", "FLIGHT", "IN_CUR_DEPTH"}]
    /\ ddir \in [IoUs -> Ddirs]
    /\ requeues \in Seq(IoUs)
    /\ engine \in [IoUs -> {"none", "queued", "submitted", "done"}]
    /\ cur_depth \in 0..UINT - 1
    /\ io_u_queued \in 0..UINT - 1
    /\ io_u_in_flight \in 0..UINT - 1
    /\ io_issues \in Nat /\ finished \in Nat /\ shorts \in Nat /\ late \in Nat
    /\ error \in BOOLEAN /\ icd_error \in BOOLEAN /\ fatal \in BOOLEAN
    /\ pc \in {"loop", "have", "complete", "getevents", "events", "think",
               "quiesce", "drain", "done", "exited"}
    /\ full \in BOOLEAN /\ min_evts \in Nat
    /\ caller \in {"none", "wait", "waitnone", "quiesce", "drain"}
    /\ gets \in Nat /\ loops \in Nat /\ faults \in Nat /\ getFailed \in BOOLEAN

\* The io_us the job or its engine holds.
Held == {u \in IoUs : loc[u] \in {"hand", "engine", "event"}}

\* cur_depth is the number of io_us taken and not given back, over every path
\* that takes, requeues, completes or puts one.
DepthExact == pc # "exited" => cur_depth = Cardinality(Held)

\* io_u_queued and io_u_in_flight are moved at different places from those
\* where the engine submits, but modulo 2^32 their sum is the number of io_us
\* inside the engine: exceeds_number_ios, which adds them, may.
SumExact == Plus(io_u_queued, io_u_in_flight) = Cardinality(At("engine"))

\* FREE and FLIGHT say where an io_u is: what __get_io_u, td_io_queue and
\* io_completed assert holds at each of them.
FlagsAgree ==
    \A u \in IoUs :
        /\ "FREE" \in flags[u] <=> u \notin Held
        /\ "FLIGHT" \in flags[u] <=> loc[u] \in {"engine", "event"}
        /\ u \in Held => "IN_CUR_DEPTH" \in flags[u]
        /\ engine[u] # "none" <=> loc[u] = "engine"

\* io_u_requeues holds every requeued io_u once: the ring cannot overflow.
RequeuesExact ==
    /\ {requeues[i] : i \in DOMAIN requeues} = At("requeues")
    /\ \A i, j \in DOMAIN requeues : requeues[i] = requeues[j] => i = j

\* __get_io_u has an io_u to hand out at every loop head of do_io: the reaping
\* leaves one on the freelist or requeued, and the depth below the latency
\* target. Without a latency target a NULL would end the loop with I/O to do;
\* with one it would be a turn that issues nothing.
NeverStarved ==
    pc = "loop" => \/ requeues # <<>>
                   \/ At("freelist") # {} /\ (LatencyQd = 0 \/ cur_depth < LatencyQd)

\* td_io_getevents never waits for more events than the engine can deliver.
WaitsForWhatCanCome ==
    pc = "getevents" => min_evts <= Cardinality(At("engine"))

\* do_io returns with an io_u still in the engine only when the td_io_getevents
\* of its drain failed, and then with td->error set, so that do_io is not called
\* again; a failing commit, wait or quiesce before the drain leaves nothing.
DrainsAll == pc = "done" /\ Held # {} => getFailed /\ error

\* An I/O that failed in a direction continue_on_error does not cover has ended
\* the job with td->error set.
FatalReported == pc \in {"done", "exited"} /\ fatal => error

\* handle_thinktime ignores what io_u_quiesce returns, so that the loop goes on
\* with td->error set; at most one more I/O is issued before it is noticed.
LateBounded == late <= 1

\* io_u_quiesce returns with nothing in the engine.
QuiesceDrains == [][pc = "quiesce" /\ pc' = "loop" => Held = {}]_vars

\* td->io_issues is the number of I/Os finished or in the engine, whatever was
\* busy, short or failed, and one more for each transfer td_io_getevents brought
\* back short: requeue_io_u takes back only those td_io_queue completed short.
IssuesExact == io_issues = finished + shorts + Cardinality(At("engine") \cup At("event"))

\* The job thread comes to its end: no wait for events, no quiesce and no
\* drain hangs, provided the engine's hooks do not fail for ever.
JobEnds == <>(pc = "exited")

\* What io_u_quiesce is for: it flushes what is pending and returns.
QuiesceReturns == (pc = "quiesce") ~> (pc = "loop")
=============================================================================
