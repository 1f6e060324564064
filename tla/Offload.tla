------------------------------ MODULE Offload ------------------------------
(***************************************************************************)
(* io_submit_mode=offload: the job thread hands every io_u to a pool of    *)
(* workers (workqueue.c) whose callback (rate-submit.c) issues it on the   *)
(* worker's own copy of the job and reaps it; the io_u goes back to the    *)
(* job's free list (io_u.c), where the job thread may be waiting for it.   *)
(*                                                                         *)
(* One action per critical section.  sw->lock, wq->flush_lock and the      *)
(* job's io_u_lock each protect exactly one action's body, so they do not  *)
(* appear; a condition variable is the pc value of the one thread that     *)
(* waits on it.  overlap_check is a variable: it is held across two calls. *)
(***************************************************************************)
EXTENDS Naturals, FiniteSets, Sequences

CONSTANTS IoUs,        \* the job's io_us
          MaxWorkers,  \* workers 0 .. MaxWorkers-1 (iodepth of them)
          Blocks,      \* what an io_u may be directed at
          Jobs         \* the option records to consider

None == "none"
Workers == 0 .. MaxWorkers - 1

ASSUME OffloadAssumption ==
  /\ MaxWorkers \in Nat \ {0}
  /\ None \notin IoUs \cup Blocks
  /\ IsFiniteSet(IoUs)
  /\ Jobs \subseteq [async : BOOLEAN, serialize_overlap : BOOLEAN, region : SUBSET Blocks,
                     number_ios : Nat, loops : Nat,  \* io_us a do_io() may take, rounds of do_io()
                     ramp : BOOLEAN,                 \* the job has a ramp_time
                     faults : SUBSET {"create", "init", "error", "short", "late", "busy"}]
  /\ \A j \in Jobs : j.region # {}
  \* Left out: a late engine that fails.  It answers FIO_Q_BUSY next, and
  \* io_workqueue_fn drops the io_u if reaping fails then.
  /\ \A j \in Jobs : "late" \in j.faults => j.faults \cap {"error", "short"} = {}

VARIABLES
  o,            \* the job's options and what goes wrong in it
  \* the job thread
  ppc, at, hand, left, loops, error,
  \* the job's io_us
  free, requeues, cur_depth, flight, blk,
  overlap_check,  \* the worker that holds the mutex, if any
  ramp,           \* the job is TD_RAMP: check_overlap passes it over
  \* the work queue
  max_workers, next_free_worker, work_seq, wake_idle,
  \* the workers
  wpc, flags, seq, work, local, held, res, failed, acct,
  \* what the workers have added to the job's counters
  this_io

jobv  == <<ppc, at, hand, left, loops>>
iouv  == <<free, requeues, cur_depth, flight>>
ovl   == <<overlap_check, ramp>>
wqv   == <<max_workers, next_free_worker, work_seq, wake_idle>>
listv == <<seq, work, local>>
workv == <<held, res, failed, acct>>
vars  == <<o, jobv, error, iouv, blk, ovl, wqv, wpc, flags, listv, workv, this_io>>

Init ==
  /\ o \in Jobs
  /\ ppc = "create" /\ at = 0 /\ hand = None /\ left = o.number_ios /\ loops = 1
  /\ error = FALSE
  /\ free = IoUs /\ requeues = <<>> /\ cur_depth = 0 /\ flight = {}
  /\ blk = [u \in IoUs |-> None] /\ overlap_check = {} /\ ramp = o.ramp
  /\ max_workers = MaxWorkers /\ next_free_worker = 0 /\ work_seq = 0 /\ wake_idle = FALSE
  /\ wpc = [w \in Workers |-> "none"] /\ flags = [w \in Workers |-> {}]
  /\ seq = [w \in Workers |-> 0]
  /\ work = [w \in Workers |-> <<>>] /\ local = [w \in Workers |-> <<>>]
  /\ held = [w \in Workers |-> {}] /\ res = [w \in Workers |-> "none"]
  /\ failed = [w \in Workers |-> FALSE] /\ acct = [w \in Workers |-> 0]
  /\ this_io = 0

Idle(w) == "idle" \in flags[w]
Exiting(w) == "exit" \in flags[w]
Pool == 0 .. max_workers - 1

-----------------------------------------------------------------------------
(* workqueue_init                                                          *)

\* start_worker: the thread exists, then the worker is flagged idle.
start_worker ==
  /\ ppc = "create" /\ at < MaxWorkers
  /\ wpc' = [wpc EXCEPT ![at] = "init"]
  /\ flags' = [flags EXCEPT ![at] = {"idle"}]
  /\ at' = at + 1
  /\ UNCHANGED <<o, ppc, hand, left, loops, error, iouv, blk, ovl, wqv, listv, workv, this_io>>

\* The loop over start_worker ended: as many workers as could be created.
\* With none at all the queue cannot be had.
AllCreated ==
  /\ ppc = "create"
  /\ at = MaxWorkers \/ "create" \in o.faults
  /\ max_workers' = at
  /\ at' = 0
  /\ IF at = 0 THEN error' = TRUE /\ ppc' = "exit"
               ELSE error' = error /\ ppc' = "count"
  /\ UNCHANGED <<o, hand, left, loops, iouv, blk, ovl, next_free_worker, work_seq,
                 wake_idle, wpc, flags, listv, workv, this_io>>

\* One pass over the workers with flush_lock held, then wait on flush_cond.
CountRunning ==
  LET Running == {w \in Pool : "running" \in flags[w]}
      Failed  == {w \in Pool : "error" \in flags[w]} IN
  /\ ppc = "count"
  /\ error' = (error \/ Failed # {})
  /\ ppc' = IF Failed # {} THEN "exit" ELSE IF Running = Pool THEN "loop" ELSE "countwait"
  /\ UNCHANGED <<o, at, hand, left, loops, iouv, blk, ovl, wqv, wpc, flags, listv, workv, this_io>>

\* Signals flush_cond: only the job thread ever waits there.
SignalFlush == ppc' = CASE ppc = "countwait" -> "count"
                        [] ppc = "flushwait" -> "flushing"
                        [] OTHER -> ppc

-----------------------------------------------------------------------------
(* The job thread in do_io and thread_main                                 *)

\* The loop's own reasons to end: bytes, time, terminate.
LoopEnds ==
  /\ ppc = "loop"
  /\ ppc' = "flush"
  /\ UNCHANGED <<o, at, hand, left, loops, error, iouv, blk, ovl, wqv, wpc, flags, listv, workv, this_io>>

\* __get_io_u: a requeued io_u first, then a free one, else wait on free_cond.
__get_io_u ==
  /\ ppc = "loop" /\ left > 0
  /\ \/ /\ requeues # <<>>
        /\ hand' = Head(requeues) /\ requeues' = Tail(requeues) /\ free' = free
     \/ /\ requeues = <<>>
        /\ \E u \in free : hand' = u /\ free' = free \ {u}
        /\ requeues' = requeues
  /\ cur_depth' = cur_depth + 1
  /\ left' = left - 1
  /\ ppc' = "got"
  /\ UNCHANGED <<o, at, loops, error, flight, blk, ovl, wqv, wpc, flags, listv, workv, this_io>>

WaitFree ==
  /\ ppc = "loop" /\ left > 0 /\ requeues = <<>> /\ free = {}
  /\ ppc' = "freewait"
  /\ UNCHANGED <<o, at, hand, left, loops, error, iouv, blk, ovl, wqv, wpc, flags, listv, workv, this_io>>

\* pthread_cond_wait returned: again, unless an error was raised meanwhile.
FreeWoken ==
  /\ ppc = "freewoken"
  /\ ppc' = IF error THEN "flush" ELSE "loop"
  /\ UNCHANGED <<o, at, hand, left, loops, error, iouv, blk, ovl, wqv, wpc, flags, listv, workv, this_io>>

\* do_io leaves with the io_u it has just taken when the job has failed.
SubmitFails ==
  /\ ppc = "got" /\ error
  /\ ppc' = "flush"
  /\ UNCHANGED <<o, at, hand, left, loops, error, iouv, blk, ovl, wqv, wpc, flags, listv, workv, this_io>>

\* How many workers get_submit_worker looks at before w, starting from the hint.
Rank(w) == (w + max_workers - next_free_worker) % max_workers
\* The first idle worker, else the first of those that got work longest ago.
get_submit_worker(sw) ==
  LET idle == {w \in Pool : Idle(w)}
      best == IF idle # {} THEN idle
                           ELSE {w \in Pool : \A v \in Pool : seq[w] <= seq[v]} IN
  sw \in best /\ \A w \in best : Rank(sw) <= Rank(w)

\* pthread_cond_signal(&sw->cond): cond_wait returns, nothing was spliced.
Woken(w) == IF wpc[w] = "wait" THEN [wpc EXCEPT ![w] = "handle"] ELSE wpc

\* Mutant: the hint does not wrap.
NextHintNoWrap(sw) == IF sw = next_free_worker THEN sw + 1 ELSE next_free_worker
NextHint(sw) == IF sw = next_free_worker THEN (sw + 1) % max_workers ELSE next_free_worker

workqueue_enqueue(sw) ==
  /\ ppc = "got" /\ ~error
  /\ get_submit_worker(sw)
  /\ \E b \in o.region : blk' = [blk EXCEPT ![hand] = b]
  /\ ramp' \in {ramp, FALSE}
  /\ next_free_worker' = NextHint(sw)
  /\ work' = [work EXCEPT ![sw] = Append(@, hand)]
  /\ work_seq' = work_seq + 1
  /\ seq' = [seq EXCEPT ![sw] = work_seq + 1]
  /\ flags' = [flags EXCEPT ![sw] = @ \ {"idle"}]
  /\ wpc' = Woken(sw)
  /\ hand' = None
  /\ ppc' = "loop"
  /\ UNCHANGED <<o, at, left, loops, error, iouv, overlap_check, max_workers, wake_idle, local,
                 workv, this_io>>

\* Mutant: the first worker is not looked at.
all_sw_idleButFirst == \A w \in Pool \ {0} : Idle(w)
all_sw_idle == \A w \in Pool : Idle(w)

\* workqueue_flush: wake_idle is set, and every check of the workers is made,
\* with flush_lock held.
workqueue_flush ==
  /\ ppc \in {"flush", "flushing"}
  /\ IF all_sw_idle
     THEN wake_idle' = FALSE /\ ppc' = "flushed"
     ELSE wake_idle' = TRUE  /\ ppc' = "flushwait"
  /\ UNCHANGED <<o, at, hand, left, loops, error, iouv, blk, ovl, max_workers,
                 next_free_worker, work_seq, wpc, flags, listv, workv, this_io>>

\* The rest of do_io.  After a failure the job thread itself reaps cur_depth
\* events, and its own engine never has any: only an engine without a getevents
\* hook returns then.
DoIoEnds ==
  /\ ppc = "flushed"
  /\ (error /\ cur_depth > 0) => ~o.async
  /\ IF ~error /\ this_io > 0 /\ loops < o.loops
     THEN loops' = loops + 1 /\ left' = o.number_ios /\ ppc' = "loop"
     ELSE loops' = loops /\ left' = left /\ ppc' = "exit"
  /\ this_io' = 0
  /\ UNCHANGED <<o, at, hand, error, iouv, blk, ovl, wqv, wpc, flags, listv, workv>>

\* workqueue_exit: flag and wake every worker, then join them in turn.
AskExit ==
  /\ ppc = "exit" /\ at < max_workers
  /\ flags' = [flags EXCEPT ![at] = @ \cup {"exit"}]
  /\ wpc' = Woken(at)
  /\ at' = at + 1
  /\ UNCHANGED <<o, ppc, hand, left, loops, error, iouv, blk, ovl, wqv, listv, workv, this_io>>

AllAsked ==
  /\ ppc = "exit" /\ at = max_workers
  /\ at' = 0 /\ ppc' = "join"
  /\ UNCHANGED <<o, hand, left, loops, error, iouv, blk, ovl, wqv, wpc, flags, listv, workv, this_io>>

shutdown_worker ==
  /\ ppc = "join" /\ at < max_workers
  /\ wpc[at] = "done"
  /\ flags' = [flags EXCEPT ![at] = @ \cup {"accounted"}]
  /\ at' = at + 1
  /\ UNCHANGED <<o, ppc, hand, left, loops, error, iouv, blk, ovl, wqv, wpc, listv, workv, this_io>>

ExitDone ==
  /\ ppc = "join" /\ at = max_workers
  /\ ppc' = "over"
  /\ UNCHANGED <<o, at, hand, left, loops, error, iouv, blk, ovl, wqv, wpc, flags, listv, workv, this_io>>

JobThread ==
  \/ start_worker \/ AllCreated \/ CountRunning
  \/ LoopEnds \/ __get_io_u \/ WaitFree \/ FreeWoken \/ SubmitFails
  \/ (\E sw \in Workers : workqueue_enqueue(sw)) \/ workqueue_flush \/ DoIoEnds
  \/ AskExit \/ AllAsked \/ shutdown_worker \/ ExitDone
-----------------------------------------------------------------------------
(* worker_thread                                                           *)

Goto(w, pc) == wpc' = [wpc EXCEPT ![w] = pc]

\* workqueue_init_worker, then RUNNING (and ERROR) under sw->lock ...
init_worker(w) ==
  /\ wpc[w] = "init"
  /\ \/ flags' = [flags EXCEPT ![w] = @ \cup {"running"}]
     \/ /\ "init" \in o.faults
        /\ flags' = [flags EXCEPT ![w] = @ \cup {"running", "error"}]
  /\ Goto(w, "announce")
  /\ UNCHANGED <<o, jobv, error, iouv, blk, ovl, wqv, listv, workv, this_io>>

\* ... and flush_cond signalled under flush_lock.
Announce(w) ==
  /\ wpc[w] = "announce"
  /\ SignalFlush
  /\ Goto(w, IF "error" \in flags[w] THEN "done" ELSE "top")
  /\ UNCHANGED <<o, at, hand, left, loops, error, iouv, blk, ovl, wqv, flags, listv, workv, this_io>>

\* Mutant: nothing to do before sleeping.
PreSleepCheckNever(w) == FALSE
\* io_workqueue_pre_sleep_flush_fn: the worker's engine still holds something.
PreSleepCheck(w) == ~failed[w] /\ held[w] # {}

\* The last part of a round: leave, sleep, or take over the whole list.
SleepOrSplice(w) ==
  \/ /\ work[w] = <<>>
     /\ Goto(w, IF Exiting(w) THEN "done" ELSE "wait")
     /\ UNCHANGED <<work, local>>
  \/ /\ work[w] # <<>>
     /\ local' = [local EXCEPT ![w] = work[w]]
     /\ work' = [work EXCEPT ![w] = <<>>]
     /\ Goto(w, "handle")

\* The middle part: a worker with an empty list flags itself idle first.
GoIdle(w) ==
  /\ work[w] = <<>> /\ ~Exiting(w) /\ ~Idle(w)
  /\ flags' = [flags EXCEPT ![w] = @ \cup {"idle"}]
  /\ next_free_worker' = w
  /\ Goto(w, "notify")
  /\ UNCHANGED <<work, local>>

Round(w) ==
  \/ GoIdle(w)
  \/ /\ work[w] # <<>> \/ Exiting(w) \/ Idle(w)
     /\ SleepOrSplice(w)
     /\ UNCHANGED <<flags, next_free_worker>>

Top(w) ==
  /\ wpc[w] = "top"
  /\ IF work[w] = <<>> /\ ~Exiting(w) /\ PreSleepCheck(w)
     THEN Goto(w, "presleep") /\ UNCHANGED <<flags, next_free_worker, work, local>>
     ELSE Round(w)
  /\ UNCHANGED <<o, jobv, error, iouv, blk, ovl, max_workers, work_seq, wake_idle, seq, workv, this_io>>

AfterPreSleep(w) ==
  /\ wpc[w] = "quiesced"
  /\ Round(w)
  /\ UNCHANGED <<o, jobv, error, iouv, blk, ovl, max_workers, work_seq, wake_idle, seq, workv, this_io>>

\* Between two holds of sw->lock: a flusher is told, under flush_lock.
NotifyFlush(w) ==
  /\ wpc[w] = "notify"
  /\ IF wake_idle THEN SignalFlush ELSE ppc' = ppc
  /\ Goto(w, "notified")
  /\ UNCHANGED <<o, at, hand, left, loops, error, iouv, blk, ovl, wqv, flags, listv, workv, this_io>>

AfterNotify(w) ==
  /\ wpc[w] = "notified"
  /\ SleepOrSplice(w)
  /\ UNCHANGED <<o, jobv, error, iouv, blk, ovl, wqv, flags, seq, workv, this_io>>

\* pthread_cond_wait may return by itself.
SpuriousWakeup(w) ==
  /\ wpc[w] = "wait"
  /\ Goto(w, "handle")
  /\ UNCHANGED <<o, jobv, error, iouv, blk, ovl, wqv, flags, listv, workv, this_io>>

\* Mutant: the counters stay with the worker.
update_acctNot(w) ==
  /\ wpc[w] = "handle" /\ local[w] = <<>>
  /\ Goto(w, "top")
  /\ UNCHANGED <<o, jobv, error, iouv, blk, ovl, wqv, flags, listv, workv, this_io>>
\* handle_list is through; update_acct_fn moves the worker's counters to the job.
update_acct(w) ==
  /\ wpc[w] = "handle" /\ local[w] = <<>>
  /\ this_io' = this_io + acct[w]
  /\ acct' = [acct EXCEPT ![w] = 0]
  /\ Goto(w, "top")
  /\ UNCHANGED <<o, jobv, error, iouv, blk, ovl, wqv, flags, listv, held, res, failed>>

-----------------------------------------------------------------------------
(* io_workqueue_fn on the head of the local list                           *)

\* Mutant: nobody is told.
SignalFreeNot == ppc' = ppc
\* Signals free_cond: only the job thread ever waits there.
SignalFree == ppc' = IF ppc = "freewait" THEN "freewoken" ELSE ppc

\* put_io_u and requeue_io_u on the job's lists, with the job's io_u_lock.
put_io_u(U) ==
  /\ free' = free \cup U
  /\ requeues' = requeues
  /\ cur_depth' = cur_depth - Cardinality(U)
  /\ flight' = flight \ U
  /\ SignalFree

\* Mutant: the io_u stays in the depth.
requeue_io_uKeepsDepth(u) ==
  /\ free' = free
  /\ requeues' = Append(requeues, u)
  /\ cur_depth' = cur_depth
  /\ flight' = flight \ {u}
  /\ SignalFree
requeue_io_u(u) ==
  /\ free' = free
  /\ requeues' = Append(requeues, u)
  /\ cur_depth' = cur_depth - 1
  /\ flight' = flight \ {u}
  /\ SignalFree

\* td_verror on the worker: its error is the job's error too.
td_verror(w) ==
  /\ failed' = [failed EXCEPT ![w] = TRUE]
  /\ error' = TRUE

\* in_flight_overlap over every io_u of the job, unless its runstate is not
\* past TD_SETTING_UP: TD_RAMP is not.
Overlaps(u) == ~ramp /\ \E v \in flight : blk[v] = blk[u]

\* Mutant: the mutex is not waited for.
check_overlapNoLock(w) ==
  /\ wpc[w] = "handle" /\ local[w] # <<>> /\ o.serialize_overlap
  /\ ~Overlaps(Head(local[w]))
  /\ overlap_check' = overlap_check \cup {w}
  /\ Goto(w, "issue")
  /\ UNCHANGED <<o, jobv, error, iouv, blk, ramp, wqv, flags, listv, workv, this_io>>
\* check_overlap returns with the mutex held; with an overlap it gives it up and
\* takes it again until there is none.
check_overlap(w) ==
  /\ wpc[w] = "handle" /\ local[w] # <<>> /\ o.serialize_overlap
  /\ overlap_check = {} /\ ~Overlaps(Head(local[w]))
  /\ overlap_check' = {w}
  /\ Goto(w, "issue")
  /\ UNCHANGED <<o, jobv, error, iouv, blk, ramp, wqv, flags, listv, workv, this_io>>

Issuing(w) ==
  \/ wpc[w] = "issue"
  \/ wpc[w] = "handle" /\ local[w] # <<>> /\ ~o.serialize_overlap

\* pthread_mutex_unlock in td_io_queue: fio aborts, and nothing happens any more,
\* if the worker does not hold the mutex.
Unlock(w) ==
  /\ o.serialize_overlap => w \in overlap_check
  /\ overlap_check' = overlap_check \ {w}

\* td_io_queue sets FLIGHT, gives up the mutex and calls the engine.  The
\* worker's engine has room for one io_u (iodepth 1).
td_io_queue(w) ==
  LET u == Head(local[w]) IN
  /\ Issuing(w) /\ held[w] = {}
  /\ Unlock(w)
  /\ flight' = flight \cup {u}
  /\ local' = [local EXCEPT ![w] = Tail(@)]
  /\ held' = [held EXCEPT ![w] = {u}]
  /\ \/ /\ o.async
        /\ Goto(w, "queued")
        /\ UNCHANGED <<res, failed, error>>
     \/ /\ ~o.async
        /\ \E r \in {"ok"} \cup (o.faults \cap {"error", "short"}) :
             /\ res' = [res EXCEPT ![w] = r]
             /\ IF r = "error" THEN td_verror(w) ELSE UNCHANGED <<failed, error>>
        /\ Goto(w, "completed")
  /\ UNCHANGED <<o, jobv, free, requeues, cur_depth, blk, ramp, wqv, flags, seq, work, acct, this_io>>

\* FIO_Q_BUSY: the engine is full, or short of something else; td_io_queue has
\* set FLIGHT and clears it again.
QueueBusy(w) ==
  /\ Issuing(w) /\ (held[w] # {} \/ "busy" \in o.faults)
  /\ Unlock(w)
  /\ Goto(w, "busy")
  /\ UNCHANGED <<o, jobv, error, iouv, blk, ramp, wqv, flags, listv, workv, this_io>>

\* io_u_queued_complete(td, 1) reaps what the engine holds; an engine with a
\* getevents hook that holds nothing is waited for all the same.  Then
\* td_io_queue is called again, without check_overlap.
Busy(w) ==
  /\ wpc[w] = "busy"
  /\ o.async => held[w] # {}
  /\ IF held[w] = {} THEN UNCHANGED <<iouv, ppc>> ELSE put_io_u(held[w])
  /\ acct' = [acct EXCEPT ![w] = @ + Cardinality(held[w])]
  /\ held' = [held EXCEPT ![w] = {}]
  /\ Goto(w, IF o.serialize_overlap THEN "issue" ELSE "handle")
  /\ UNCHANGED <<o, at, hand, left, loops, error, blk, ovl, wqv, flags, listv, res, failed, this_io>>

\* FIO_Q_COMPLETED in io_queue_event: finished, or short and requeued.
Completed(w) ==
  /\ wpc[w] = "completed"
  /\ IF res[w] = "short" THEN requeue_io_u(CHOOSE u \in held[w] : TRUE)
                         ELSE put_io_u(held[w])
  /\ acct' = [acct EXCEPT ![w] = @ + (IF res[w] = "ok" THEN 1 ELSE 0)]
  /\ held' = [held EXCEPT ![w] = {}] /\ res' = [res EXCEPT ![w] = "none"]
  /\ Goto(w, IF failed[w] THEN "tell" ELSE "handle")
  /\ UNCHANGED <<o, at, hand, left, loops, error, blk, ovl, wqv, flags, listv, failed, this_io>>

\* FIO_Q_QUEUED: io_u_queued_complete(td, 1).
Reap(w) ==
  /\ wpc[w] = "queued"
  /\ \/ /\ put_io_u(held[w])
        /\ acct' = [acct EXCEPT ![w] = @ + 1]
     \/ /\ "short" \in o.faults
        /\ requeue_io_u(CHOOSE u \in held[w] : TRUE)
        /\ acct' = acct
  /\ Goto(w, IF failed[w] THEN "tell" ELSE "handle")
  /\ held' = [held EXCEPT ![w] = {}]
  /\ UNCHANGED <<o, at, hand, left, loops, error, blk, ovl, wqv, flags, listv, res, failed, this_io>>

\* The engine came back with no event: the io_u stays with it.
ReapNothing(w) ==
  /\ wpc[w] = "queued" /\ "late" \in o.faults
  /\ Goto(w, IF failed[w] THEN "tell" ELSE "handle")
  /\ UNCHANGED <<o, jobv, error, iouv, blk, ovl, wqv, flags, listv, workv, this_io>>

\* io_completed of a failed io_u: io_u_log_error raises the error, the worker's
\* and the job's ...
ReapError(w) ==
  /\ wpc[w] = "queued" /\ "error" \in o.faults
  /\ flight' = flight \ held[w]
  /\ td_verror(w)
  /\ Goto(w, "verror")
  /\ UNCHANGED <<o, jobv, free, requeues, cur_depth, blk, ovl, wqv, flags, listv, held, res, acct,
                 this_io>>

\* ... before ios_completed puts the io_u back.
PutFailed(w) ==
  /\ wpc[w] = "verror"
  /\ put_io_u(held[w])
  /\ held' = [held EXCEPT ![w] = {}]
  /\ Goto(w, "tell")
  /\ UNCHANGED <<o, at, hand, left, loops, error, blk, ovl, wqv, flags, listv, res, failed, acct,
                 this_io>>

\* A failed worker wakes the job thread after every io_u.
TellParent(w) ==
  /\ wpc[w] = "tell"
  /\ SignalFree
  /\ Goto(w, "handle")
  /\ UNCHANGED <<o, at, hand, left, loops, error, iouv, blk, ovl, wqv, flags, listv, workv, this_io>>

\* io_workqueue_pre_sleep_fn: io_u_quiesce on the worker.
pre_sleep(w) ==
  /\ wpc[w] = "presleep"
  /\ put_io_u(held[w])
  /\ acct' = [acct EXCEPT ![w] = @ + Cardinality(held[w])]
  /\ held' = [held EXCEPT ![w] = {}]
  /\ Goto(w, "quiesced")
  /\ UNCHANGED <<o, at, hand, left, loops, error, blk, ovl, wqv, flags, listv, res, failed, this_io>>
Worker(w) ==
  \/ init_worker(w) \/ Announce(w) \/ Top(w) \/ AfterPreSleep(w) \/ NotifyFlush(w)
  \/ AfterNotify(w) \/ update_acct(w) \/ check_overlap(w) \/ td_io_queue(w) \/ QueueBusy(w)
  \/ Busy(w) \/ Completed(w) \/ Reap(w) \/ ReapNothing(w) \/ ReapError(w) \/ PutFailed(w)
  \/ TellParent(w) \/ pre_sleep(w)

Over == ppc = "over" /\ UNCHANGED vars

Next == JobThread \/ Over \/ \E w \in Workers : Worker(w) \/ SpuriousWakeup(w)

Spec == Init /\ [][Next]_vars

\* Every runnable thread is scheduled; an engine that holds an io_u delivers it,
\* and one with room is not busy for ever.
FairSpec ==
  /\ Spec /\ WF_vars(JobThread)
  /\ \A w \in Workers : WF_vars(Worker(w)) /\ SF_vars(td_io_queue(w))

-----------------------------------------------------------------------------
\* Every variable ranges over what its C declaration and the code's own
\* conventions allow; the hint into the workers is one that exists, as
\* get_submit_worker asserts.
TypeOK ==
  /\ o \in Jobs
  /\ ppc \in {"create", "count", "countwait", "loop", "freewait", "freewoken", "got",
              "flush", "flushing", "flushwait", "flushed", "exit", "join", "over"}
  /\ at \in 0 .. MaxWorkers /\ hand \in IoUs \cup {None}
  /\ left \in 0 .. o.number_ios /\ loops \in Nat /\ error \in BOOLEAN
  /\ free \subseteq IoUs /\ requeues \in Seq(IoUs) /\ cur_depth \in Nat
  /\ flight \subseteq IoUs /\ blk \in [IoUs -> Blocks \cup {None}]
  /\ overlap_check \subseteq Workers /\ ramp \in BOOLEAN
  /\ max_workers \in 0 .. MaxWorkers /\ (Pool # {} => next_free_worker \in Pool)
  /\ work_seq \in Nat /\ wake_idle \in BOOLEAN
  /\ wpc \in [Workers -> {"none", "init", "announce", "top", "presleep", "quiesced", "notify",
                          "notified", "wait", "handle", "issue", "busy", "queued",
                          "completed", "verror", "tell", "done"}]
  /\ flags \in [Workers -> SUBSET {"idle", "running", "error", "exit", "accounted"}]
  /\ seq \in [Workers -> Nat]
  /\ work \in [Workers -> Seq(IoUs)] /\ local \in [Workers -> Seq(IoUs)]
  /\ held \in [Workers -> SUBSET IoUs]
  /\ res \in [Workers -> {"none", "ok", "error", "short"}]
  /\ failed \in [Workers -> BOOLEAN] /\ acct \in [Workers -> Nat] /\ this_io \in Nat

Set(s) == {s[i] : i \in 1 .. Len(s)}
With(w) == Set(work[w]) \cup Set(local[w]) \cup held[w]
Unfinished == UNION {With(w) : w \in Workers}

\* workqueue_flush: when it returns, and from then on until the next io_u is
\* handed over or the workers are gone, no worker has an io_u on a list, in its
\* engine or in its hands: each is back with the job.  The flag the flush
\* looks at is set by the workers between two holds of another lock.  (A late
\* engine that fails is left out, see OffloadAssumption: a worker with an error
\* goes idle without reaping what its engine still holds.)
FlushComplete ==
  ppc \in {"flushed", "exit", "join", "over"} =>
    /\ Unfinished = {} /\ flight = {}
    /\ IoUs \subseteq free \cup Set(requeues) \cup {hand}

\* do_io() decides after the flush, from this_io_bytes, whether anything was
\* done at all: by then every worker has moved its counters to the job
\* (unless an engine was late: pre_sleep reaps after update_acct has run).
FlushAccounts ==
  ppc = "flushed" /\ "late" \notin o.faults => \A w \in Workers : acct[w] = 0

\* cur_depth, which several workers decrement and the job thread increments,
\* is the number of io_us on neither of the job's lists, and no io_u is on
\* both or twice on one.
DepthExact ==
  /\ cur_depth = Cardinality(IoUs \ (free \cup Set(requeues)))
  /\ free \cap Set(requeues) = {}
  /\ Len(requeues) = Cardinality(Set(requeues))

\* serialize_overlap: two io_us that overlap are never in flight together,
\* whichever workers issue them, although the check and the flag it looks at are
\* two calls.  Not so with a ramp_time: a job in TD_RAMP is not looked at.
NoOverlap ==
  o.serialize_overlap /\ ~o.ramp => \A u, v \in flight : u # v => blk[u] # blk[v]

\* What the comment in td_io_queue says of the mutex it gives up: the worker took
\* it when it started its overlap check.
OverlapLockHeld == \A w \in Workers : wpc[w] = "issue" => w \in overlap_check

\* do_io() after a failure waits for cur_depth events "for the I/O in flight":
\* everything it waits for is in flight somewhere.
DrainsInFlight == ppc = "flushed" /\ error => cur_depth <= Cardinality(flight)

\* The work queue keeps the contract of WorkPool: nothing is lost or done
\* twice, a flush returns exactly when all is finished, and it does return.
Pool_ == INSTANCE WorkPool WITH
  Items   <- IoUs,
  pending <- Unfinished,
  caller  <- CASE ppc \in {"flush", "flushing", "flushwait"} -> "flushing"
               [] ppc \in {"exit", "join", "over"} -> "closed"
               [] OTHER -> "open"
IsWorkPool == Pool_!Spec

\* The job comes to its end, whatever goes wrong in its workers, except that a
\* failure on an engine with a getevents hook may leave it waiting for events
\* (run offload_drain): no worker sleeps through a hand-over, a flush or the
\* request to exit, and the job thread not through the return of an io_u or an error.
JobEnds == <>(ppc = "over" \/ (o.async /\ error))
=============================================================================
