---------------------------- MODULE VerifyAsync ----------------------------
(***************************************************************************)
(* verify_async=N: the job thread reads (do_verify of backend.c), and N    *)
(* detached threads check what was read (verify.c).  A completed io_u goes *)
(* from the engine to td->verify_list, from there, with all others, to the *)
(* private list of one thread, and from it back to the free list, where    *)
(* the job thread may wait for it.  td->io_u_lock protects all the lists;  *)
(* each action is one hold of it, or what is done between two holds.       *)
(***************************************************************************)
EXTENDS Integers, Sequences, FiniteSets

CONSTANTS IoUs,      \* the io_us of the job
          Threads,   \* the verify_async threads
          Jobs       \* the option records to consider

None == "none"

ASSUME VerifyAssumption ==
  /\ IsFiniteSet(IoUs) /\ IoUs # {} /\ None \notin IoUs
  /\ IsFiniteSet(Threads) /\ Threads # {}
  /\ Jobs \subseteq [async : BOOLEAN,              \* the engine has a getevents hook
                     verify_fatal : BOOLEAN,
                     continue_on_error : BOOLEAN,  \* verify errors are only counted
                     reads : Nat,                  \* blocks to read back
                     faults : SUBSET {"bad", "create", "affinity", "runtime", "busy"}]

VARIABLES
  o,
  \* the job thread, and the threads it has created
  jpc, hand, left, started,
  \* td
  free, requeues, engine, verify_list, cur_depth, error, terminate,
  verify_thread_exit, nr_verify_threads,
  \* the verify threads
  tpc, local, ret,
  \* history: a mismatch was found that is not to be tolerated
  mismatch

jobv  == <<jpc, hand, left, started>>
listv == <<free, requeues, engine, verify_list, cur_depth>>
exitv == <<verify_thread_exit, nr_verify_threads>>
errv  == <<error, terminate>>
thrv  == <<tpc, local, ret>>
hist  == mismatch
vars  == <<o, jobv, listv, exitv, errv, thrv, hist>>

Init ==
  /\ o \in Jobs
  /\ jpc = "create" /\ hand = None /\ left = o.reads /\ started = {}
  /\ free = IoUs /\ requeues = {} /\ engine = {} /\ verify_list = <<>> /\ cur_depth = 0
  /\ error = FALSE /\ terminate = FALSE
  /\ verify_thread_exit = FALSE /\ nr_verify_threads = 0
  /\ tpc = [t \in Threads |-> "none"] /\ local = [t \in Threads |-> <<>>]
  /\ ret = [t \in Threads |-> FALSE]
  /\ mismatch = FALSE

\* pthread_cond_broadcast(&td->verify_cond).
Broadcast == tpc' = [t \in Threads |-> IF tpc[t] = "wait" THEN "lock" ELSE tpc[t]]
\* Signals free_cond: only the job thread waits there, for an io_u or for the end.
SignalFree == jpc' = CASE jpc = "freewait" -> "freewoken"
                       [] jpc = "exitwait" -> "exiting"
                       [] OTHER -> jpc

-----------------------------------------------------------------------------
(* The job thread: verify_async_init                                       *)

CreateThread(t) ==
  /\ jpc = "create" /\ t \notin started
  /\ tpc' = [tpc EXCEPT ![t] = "new"]
  /\ started' = started \cup {t}
  /\ jpc' = "count"
  /\ UNCHANGED <<o, hand, left, listv, exitv, errv, local, ret, hist>>

\* nr_verify_threads++, without the lock.
Count ==
  /\ jpc = "count"
  /\ nr_verify_threads' = nr_verify_threads + 1
  /\ jpc' = "create"
  /\ UNCHANGED <<o, hand, left, started, listv, verify_thread_exit, errv, thrv, hist>>

\* The same, racing the decrement of a thread that leaves: one of the two is lost.
CountRaced(t) ==
  /\ jpc = "count" /\ tpc[t] = "done"
  /\ nr_verify_threads' \in {nr_verify_threads - 1, nr_verify_threads + 1}
  /\ tpc' = [tpc EXCEPT ![t] = "gone"]
  /\ jpc' = "create"
  /\ UNCHANGED <<o, hand, left, started, listv, verify_thread_exit, errv, local, ret, hist>>

CreateFails ==
  /\ jpc = "create" /\ started # Threads /\ "create" \in o.faults
  /\ verify_thread_exit' = TRUE
  /\ Broadcast
  /\ jpc' = "exit"
  /\ UNCHANGED <<o, hand, left, started, listv, nr_verify_threads, errv, local, ret, hist>>

AllCreated ==
  /\ jpc = "create" /\ started = Threads
  /\ jpc' = "loop"
  /\ UNCHANGED <<o, hand, left, started, listv, exitv, errv, thrv, hist>>

-----------------------------------------------------------------------------
(* The job thread: do_verify                                               *)

\* The loop's condition; or the runtime is over, which terminates the job.
LoopEnds ==
  /\ jpc = "loop"
  /\ terminate \/ "runtime" \in o.faults
  /\ terminate' = TRUE
  /\ jpc' = "drain"
  /\ UNCHANGED <<o, hand, left, started, listv, exitv, error, thrv, hist>>

LoopGoesOn ==
  /\ jpc = "loop" /\ ~terminate
  /\ jpc' = "get"
  /\ UNCHANGED <<o, hand, left, started, listv, exitv, errv, thrv, hist>>

\* The io_us __get_io_u may take: the requeued one first.
Available == IF requeues # {} THEN requeues ELSE free

\* __get_io_u, also when it tries again after its wait, unless the job has failed.
__get_io_u(u) ==
  /\ jpc = "get" \/ (jpc = "freewoken" /\ ~error)
  /\ u \in Available
  /\ free' = free \ {u} /\ requeues' = requeues \ {u}
  /\ hand' = u /\ cur_depth' = cur_depth + 1
  /\ jpc' = "got"
  /\ UNCHANGED <<o, left, started, engine, verify_list, exitv, errv, thrv, hist>>

WaitFree ==
  /\ jpc = "get" \/ (jpc = "freewoken" /\ ~error)
  /\ Available = {}
  /\ jpc' = "freewait"
  /\ UNCHANGED <<o, hand, left, started, listv, exitv, errv, thrv, hist>>

\* After the wait __get_io_u returns NULL if the job has failed.
WokenByError ==
  /\ jpc = "freewoken" /\ error
  /\ jpc' = "drain"
  /\ UNCHANGED <<o, hand, left, started, listv, exitv, errv, thrv, hist>>

\* get_next_verify has nothing more to read: the io_u is put back.
NoMore ==
  /\ jpc = "got" /\ left = 0
  /\ free' = free \cup {hand} /\ hand' = None /\ cur_depth' = cur_depth - 1
  /\ jpc' = "drain"
  /\ UNCHANGED <<o, left, started, requeues, engine, verify_list, exitv, errv, thrv, hist>>

\* The end_io of every read: the io_u leaves the depth for the list, and one
\* sleeping thread is woken.
verify_io_u_async(u) ==
  /\ verify_list' = Append(verify_list, u)
  /\ cur_depth' = cur_depth - 1
  /\ LET asleep == {t \in Threads : tpc[t] = "wait"} IN
       \/ asleep = {} /\ tpc' = tpc
       \/ \E t \in asleep : tpc' = [tpc EXCEPT ![t] = "lock"]

\* An engine that completes in its queue hook: io_queue_event does not look at
\* td->error then.
QueueSync ==
  /\ jpc = "got" /\ left > 0 /\ ~o.async
  /\ verify_io_u_async(hand)
  /\ hand' = None /\ left' = left - 1 /\ jpc' = "loop"
  /\ UNCHANGED <<o, started, free, requeues, engine, exitv, errv, local, ret, hist>>

\* An engine that queues.  io_queue_event breaks on an error of the job, which a
\* thread may have set; with no io_u left the job thread reaps.
QueueAsync ==
  /\ jpc = "got" /\ left > 0 /\ o.async
  /\ engine' = engine \cup {hand}
  /\ hand' = None /\ left' = left - 1
  /\ jpc' = IF error THEN "drain" ELSE IF free = {} THEN "reap" ELSE "loop"
  /\ UNCHANGED <<o, started, free, requeues, verify_list, cur_depth, exitv, errv, thrv, hist>>

\* FIO_Q_BUSY: the io_u is requeued, and the job thread reaps if it can.
QueueBusy ==
  /\ jpc = "got" /\ left > 0 /\ "busy" \in o.faults
  /\ requeues' = requeues \cup {hand} /\ hand' = None /\ cur_depth' = cur_depth - 1
  /\ jpc' = IF error THEN "drain" ELSE IF engine # {} THEN "reap" ELSE "loop"
  /\ UNCHANGED <<o, left, started, free, engine, verify_list, exitv, errv, thrv, hist>>

\* io_u_queued_complete(td, 1).
Reap(u) ==
  /\ jpc = "reap" /\ u \in engine
  /\ verify_io_u_async(u)
  /\ engine' = engine \ {u}
  /\ jpc' = "loop"
  /\ UNCHANGED <<o, hand, left, started, free, requeues, exitv, errv, local, ret, hist>>

\* do_verify reaps the rest before it returns.
Drain(u) ==
  /\ jpc = "drain" /\ u \in engine
  /\ verify_io_u_async(u)
  /\ engine' = engine \ {u}
  /\ UNCHANGED <<o, jobv, free, requeues, exitv, errv, local, ret, hist>>

Drained ==
  /\ jpc = "drain" /\ cur_depth = 0
  /\ jpc' = "exit"
  /\ UNCHANGED <<o, hand, left, started, listv, exitv, errv, thrv, hist>>

-----------------------------------------------------------------------------
(* The job thread: verify_async_exit                                       *)

verify_async_exit ==
  /\ jpc = "exit"
  /\ verify_thread_exit' = TRUE
  /\ Broadcast
  /\ jpc' = "exiting"
  /\ UNCHANGED <<o, hand, left, started, listv, nr_verify_threads, errv, local, ret, hist>>

\* Mutant: the threads are not waited for.
ExitWaitNot ==
  /\ jpc = "exiting"
  /\ jpc' = "over"
  /\ UNCHANGED <<o, hand, left, started, listv, exitv, errv, thrv, hist>>
ExitWait ==
  /\ jpc = "exiting"
  /\ jpc' = IF nr_verify_threads > 0 THEN "exitwait" ELSE "over"
  /\ UNCHANGED <<o, hand, left, started, listv, exitv, errv, thrv, hist>>

\* pthread_cond_wait may return without a signal.
JobSpuriousWakeup ==
  /\ jpc \in {"freewait", "exitwait"}
  /\ SignalFree
  /\ UNCHANGED <<o, hand, left, started, listv, exitv, errv, thrv, hist>>

JobThread ==
  \/ CreateFails \/ AllCreated \/ LoopEnds \/ LoopGoesOn \/ WaitFree \/ WokenByError \/ NoMore
  \/ QueueSync \/ QueueAsync \/ QueueBusy \/ Drained \/ verify_async_exit \/ ExitWait \/ Count
  \/ \E t \in Threads : CreateThread(t) \/ CountRaced(t)
  \/ \E u \in IoUs : __get_io_u(u) \/ Reap(u) \/ Drain(u)

-----------------------------------------------------------------------------
(* verify_async_thread                                                     *)

Goto(t, pc) == tpc' = [tpc EXCEPT ![t] = pc]

\* With verify_cpumask the thread binds itself first, and leaves if it cannot.
Bind(t) ==
  /\ tpc[t] = "new"
  /\ \/ Goto(t, "top")
     \/ "affinity" \in o.faults /\ Goto(t, "done")
  /\ UNCHANGED <<o, jobv, listv, exitv, errv, local, ret, hist>>

\* verify_thread_exit is read without the lock, and before the list.
Top(t) ==
  /\ tpc[t] = "top"
  /\ Goto(t, IF verify_thread_exit THEN "done" ELSE "lock")
  /\ UNCHANGED <<o, jobv, listv, exitv, errv, local, ret, hist>>

\* Mutant: a sleeping thread does not look at verify_thread_exit.
SleepsThrough == verify_list = <<>>
\* The condition under which a thread waits on verify_cond.
Sleeps == verify_list = <<>> /\ ~verify_thread_exit

\* Mutant: the thread takes the list without emptying it.
flist_splice(t) ==
  local' = [local EXCEPT ![t] = verify_list] /\ UNCHANGED verify_list
flist_splice_init(t) ==
  local' = [local EXCEPT ![t] = verify_list] /\ verify_list' = <<>>

\* With the lock: sleep, or take the whole list.
Lock(t) ==
  /\ tpc[t] = "lock"
  /\ IF Sleeps
     THEN Goto(t, "wait") /\ UNCHANGED <<verify_list, local>>
     ELSE flist_splice_init(t) /\ Goto(t, IF verify_list = <<>> THEN "top" ELSE "verify")
  /\ UNCHANGED <<o, jobv, free, requeues, engine, cur_depth, exitv, errv, ret, hist>>

SpuriousWakeup(t) ==
  /\ tpc[t] = "wait"
  /\ Goto(t, "lock")
  /\ UNCHANGED <<o, jobv, listv, exitv, errv, local, ret, hist>>

\* Mutant: the io_u was still counted in cur_depth.
put_io_uDepth(u) == free' = free \cup {u} /\ cur_depth' = cur_depth - 1 /\ SignalFree
\* Mutant: nobody is told.
put_io_uQuiet(u) == free' = free \cup {u} /\ UNCHANGED <<cur_depth, jpc>>
put_io_u(u) == free' = free \cup {u} /\ SignalFree /\ UNCHANGED cur_depth

\* The results of verify_io_u.  A wrong header makes it return at once, past the
\* verify_fatal check that wrong contents get to.
Results == {"ok"} \cup (IF "bad" \in o.faults THEN {"header", "contents"} ELSE {})

\* verify_io_u and put_io_u for the head of the private list.  ret is that of
\* the last io_u verified; a tolerated error clears td->error.
Verify(t, res) ==
  /\ tpc[t] = "verify" /\ local[t] # <<>> /\ res \in Results
  /\ put_io_u(Head(local[t]))
  /\ local' = [local EXCEPT ![t] = Tail(@)]
  /\ ret' = [ret EXCEPT ![t] = res # "ok" /\ ~o.continue_on_error]
  /\ terminate' = (terminate \/ (res = "contents" /\ o.verify_fatal))
  /\ error' = (error /\ (res = "ok" \/ ~o.continue_on_error))
  /\ mismatch' = (mismatch \/ (res # "ok" /\ ~o.continue_on_error))
  /\ UNCHANGED <<o, hand, left, started, requeues, engine, verify_list, exitv, tpc>>

\* The end of a batch: another round, or leave with the error.
BatchDone(t) ==
  /\ tpc[t] = "verify" /\ local[t] = <<>>
  /\ error' = (error \/ ret[t])
  /\ terminate' = (terminate \/ (ret[t] /\ o.verify_fatal))
  /\ Goto(t, IF ret[t] THEN "done" ELSE "top")
  /\ UNCHANGED <<o, jobv, listv, exitv, local, ret, hist>>

\* The last hold of the lock.
Leave(t) ==
  /\ tpc[t] = "done"
  /\ nr_verify_threads' = nr_verify_threads - 1
  /\ SignalFree
  /\ Goto(t, "gone")
  /\ UNCHANGED <<o, hand, left, started, listv, verify_thread_exit, errv, local, ret, hist>>

Thread(t) ==
  \/ Bind(t) \/ Top(t) \/ Lock(t) \/ BatchDone(t) \/ Leave(t)
  \/ \E res \in {"ok", "header", "contents"} : Verify(t, res)

Over == jpc = "over" /\ UNCHANGED vars

Next == JobThread \/ JobSpuriousWakeup \/ Over \/ \E t \in Threads : Thread(t) \/ SpuriousWakeup(t)

Spec == Init /\ [][Next]_vars

\* Every runnable thread is scheduled; the engine delivers what it holds and is
\* not busy for ever.
FairSpec ==
  /\ Spec /\ WF_vars(JobThread) /\ SF_vars(QueueSync \/ QueueAsync)
  /\ \A t \in Threads : WF_vars(Thread(t))
-----------------------------------------------------------------------------
\* The variables range over what their C types and the code's conventions allow.
TypeOK ==
  /\ o \in Jobs
  /\ jpc \in {"create", "count", "loop", "get", "got", "freewait", "freewoken", "reap", "drain",
              "exit", "exiting", "exitwait", "over"}
  /\ hand \in IoUs \cup {None} /\ left \in Nat /\ started \subseteq Threads
  /\ free \subseteq IoUs /\ requeues \subseteq IoUs /\ engine \subseteq IoUs /\ verify_list \in Seq(IoUs)
  /\ cur_depth \in Nat /\ error \in BOOLEAN /\ terminate \in BOOLEAN
  /\ verify_thread_exit \in BOOLEAN /\ nr_verify_threads \in Int
  /\ tpc \in [Threads -> {"none", "new", "top", "lock", "wait", "verify", "done", "gone"}]
  /\ local \in [Threads -> Seq(IoUs)] /\ ret \in [Threads -> BOOLEAN]
  /\ mismatch \in BOOLEAN

Set(s) == {s[i] : i \in 1 .. Len(s)}
Hand == {hand} \ {None}
Private == UNION {Set(local[t]) : t \in Threads}

\* An io_u that was read is in exactly one place until it is free again: on the
\* shared list or with one thread, never with two, never free as well; and
\* cur_depth, from which do_verify decides how much to reap, counts exactly
\* those that have not been read yet.
HandedOnce ==
  /\ cur_depth = Cardinality(engine \cup Hand)
  /\ IoUs = free \cup requeues \cup engine \cup Hand \cup Set(verify_list) \cup Private
  /\ Cardinality(free) + Cardinality(requeues) + Cardinality(engine) + Cardinality(Hand)
       + Cardinality(Set(verify_list)) + Cardinality(Private) = Cardinality(IoUs)
  /\ \A s, t \in Threads : s # t => Set(local[s]) \cap Set(local[t]) = {}

\* The race of CountRaced needs a thread that leaves while others are created.
Counted == "affinity" \notin o.faults

\* The job thread frees the io_us, their buffers and td->verify_threads only
\* when every detached thread has made its last access to td (unless threads
\* left during creation: then nr_verify_threads may be wrong).
GoneBeforeCleanup == Counted /\ jpc = "over" => \A t \in started : tpc[t] = "gone"

\* verify_async_exit returns: no thread sleeps through its request, and the job
\* thread does not sleep through the departure of the last one.
ExitReturns == (Counted /\ jpc = "exit") ~> jpc = "over"

\* As long as no thread has left with an error the job ends: the wait of
\* __get_io_u for an io_u that is with the threads is answered.
JobEnds == Counted => <>(jpc = "over" \/ error)

\* What the comment on verify_async_thread says: an error that is not to be
\* tolerated ends the loop, and the thread records it in td->error.
FatalReported == jpc = "over" /\ mismatch => error

=============================================================================
