------------------------------- MODULE FioSem -------------------------------
(***************************************************************************)
(* The semaphore of fio_sem.c under the two disciplines its callers keep.  *)
(*                                                                         *)
(*   locking       the semaphore starts at FIO_SEM_UNLOCKED and only the   *)
(*                 thread that got it down ups it (stat_sem, flow_lock,    *)
(*                 hash_lock, disk_util_sem, the pool and file locks);     *)
(*   not locking   it starts at FIO_SEM_LOCKED, one thread waits on it and *)
(*                 others post to it (startup_sem, td->sem, rusage_sem,    *)
(*                 sk_out->wait).                                          *)
(*                                                                         *)
(* sem->lock is held from the entry of every function to its return, and   *)
(* only pthread_cond_wait/timedwait give it up: a step of the model is a   *)
(* stretch of code between two points at which sem->lock is free.          *)
(***************************************************************************)
EXTENDS Integers, FiniteSets

CONSTANTS
    Threads,    \* the threads that down the semaphore
    Waiter,     \* the one among them that waits when the others post
    MaxValue    \* bound: no post raises sem->value above it

ASSUME ThreadsAssumption == IsFiniteSet(Threads)
ASSUME WaiterAssumption == Waiter \in Threads
ASSUME MaxValueAssumption == MaxValue \in Nat

VARIABLES
    value,      \* sem->value
    waiters,    \* sem->waiters
    pc,         \* where each thread is
    holder,     \* locking: the threads whose last down got the semaphore
    locking     \* the discipline of this semaphore

vars == <<value, waiters, pc, holder, locking>>

-----------------------------------------------------------------------------
\* "wait" and "twait" block in cond_wait and cond_timedwait; "woken" and
\* "twoken" were signalled and have yet to take sem->lock back; "expired" left
\* cond_timedwait with ETIMEDOUT.
Waiting == {"wait", "woken", "twait", "twoken", "expired"}

WaitingSet == {t \in Threads : pc[t] \in Waiting}
Sleeping == {t \in Threads : pc[t] \in {"wait", "twait"}}
Awake == {t \in Threads : pc[t] \in {"woken", "twoken"}}

Wakened(state) == IF state = "wait" THEN "woken" ELSE "twoken"

\* __fio_sem_init(sem, locking ? FIO_SEM_UNLOCKED : FIO_SEM_LOCKED).
Init ==
    /\ locking \in BOOLEAN
    /\ value = IF locking THEN 1 ELSE 0
    /\ waiters = 0
    /\ pc = [t \in Threads |-> "idle"]
    /\ holder = {}

Goto(t, state) == pc' = [pc EXCEPT ![t] = state]

CanDown(t) == pc[t] = "idle" /\ t \notin holder /\ (locking \/ t = Waiter)

\* The end of every successful down: value--, and the caller has it.
Got(t) ==
    /\ value # 0
    /\ value' = value - 1
    /\ holder' = IF locking THEN holder \cup {t} ELSE holder
    /\ Goto(t, "idle")
    /\ UNCHANGED locking

\* The while test fails to let the thread through: (back) to sleep.
Sleep(t, state) ==
    /\ value = 0
    /\ Goto(t, state)
    /\ UNCHANGED <<value, holder, locking>>

\* Mutant: fio_sem_down sleeps without waiters++.
DownUncounted(t) ==
    /\ CanDown(t)
    /\ Got(t) \/ Sleep(t, "wait")
    /\ UNCHANGED waiters

\* fio_sem_down: waiters++ goes with every cond_wait ...
Down(t) ==
    /\ CanDown(t)
    /\ \/ Got(t) /\ UNCHANGED waiters
       \/ Sleep(t, "wait") /\ waiters' = waiters + 1

\* Mutant: "if (!sem->value)" for "while (!sem->value)".
DownWokenIf(t) ==
    /\ pc[t] = "woken"
    /\ value' = IF value = 0 THEN 0 ELSE value - 1
    /\ holder' = IF locking THEN holder \cup {t} ELSE holder
    /\ Goto(t, "idle")
    /\ UNCHANGED locking
    /\ waiters' = waiters - 1

\* ... and waiters-- with every return from it.
DownWoken(t) ==
    /\ pc[t] = "woken"
    /\ \/ Got(t) /\ waiters' = waiters - 1
       \/ Sleep(t, "wait") /\ UNCHANGED waiters

\* fio_sem_down_timeout: waiters++ once before the loop, waiters-- once after.
DownTimeout(t) ==
    /\ CanDown(t)
    /\ \/ Got(t) /\ UNCHANGED waiters
       \/ Sleep(t, "twait") /\ waiters' = waiters + 1

TimeoutWoken(t) ==
    /\ pc[t] = "twoken"
    /\ \/ Got(t) /\ waiters' = waiters - 1
       \/ Sleep(t, "twait") /\ UNCHANGED waiters

\* cond_timedwait gives up: the thread is off the condition's queue, so that
\* no later signal can reach it.
Expire(t) ==
    /\ pc[t] = "twait"
    /\ Goto(t, "expired")
    /\ UNCHANGED <<value, waiters, holder, locking>>

\* Mutant: the timeout returns before waiters--.
TimeoutExpiredUncounted(t) ==
    /\ pc[t] = "expired"
    /\ \/ Goto(t, "idle") /\ UNCHANGED <<value, waiters, holder, locking>>
       \/ Got(t) /\ waiters' = waiters - 1
       \/ Sleep(t, "twait") /\ UNCHANGED waiters

\* ETIMEDOUT is returned whatever value is by now, unless sem_timed_out finds
\* that it came too early: then the loop tests value again.
TimeoutExpired(t) ==
    /\ pc[t] = "expired"
    /\ \/ Goto(t, "idle") /\ waiters' = waiters - 1
          /\ UNCHANGED <<value, holder, locking>>
       \/ Got(t) /\ waiters' = waiters - 1
       \/ Sleep(t, "twait") /\ UNCHANGED waiters

\* fio_sem_down_trylock that succeeds; one that fails changes nothing.
Trylock(t) == CanDown(t) /\ Got(t) /\ UNCHANGED waiters

\* pthread_cond_signal: one sleeper, if there is one, becomes runnable.
Signal ==
    \/ Sleeping = {} /\ UNCHANGED pc
    \/ \E s \in Sleeping : Goto(s, Wakened(pc[s]))

\* Mutant: do_wake asks for a second waiter.
SemUpOffByOne ==
    /\ value' = value + 1
    /\ IF value = 0 /\ waiters > 1 THEN Signal ELSE UNCHANGED pc
    /\ UNCHANGED <<waiters, locking>>

\* fio_sem_up: do_wake only if value was 0 and somebody is counted in.
SemUp ==
    /\ value' = value + 1
    /\ IF value = 0 /\ waiters # 0 THEN Signal ELSE UNCHANGED pc
    /\ UNCHANGED <<waiters, locking>>

Unlock(t) ==
    /\ locking
    /\ t \in holder /\ pc[t] = "idle"
    /\ SemUp
    /\ holder' = holder \ {t}

Post ==
    /\ ~locking
    /\ value < MaxValue
    /\ SemUp
    /\ UNCHANGED holder

\* POSIX lets both waits return without a signal.
SpuriousWakeup(t) ==
    /\ t \in Sleeping
    /\ Goto(t, Wakened(pc[t]))
    /\ UNCHANGED <<value, waiters, holder, locking>>

Next ==
    \/ Post
    \/ \E t \in Threads :
        \/ Down(t) \/ DownWoken(t)
        \/ DownTimeout(t) \/ TimeoutWoken(t) \/ Expire(t) \/ TimeoutExpired(t)
        \/ Trylock(t) \/ Unlock(t) \/ SpuriousWakeup(t)

\* A thread that was woken or timed out runs again, and a holder unlocks.
Fairness ==
    \A t \in Threads :
        /\ WF_vars(DownWoken(t) \/ TimeoutWoken(t) \/ TimeoutExpired(t))
        /\ WF_vars(Unlock(t))

Spec == Init /\ [][Next]_vars /\ Fairness

-----------------------------------------------------------------------------
TypeOK ==
    /\ value \in Nat
    /\ waiters \in Nat
    /\ pc \in [Threads -> Waiting \cup {"idle"}]
    /\ holder \in SUBSET Threads
    /\ locking \in BOOLEAN

\* fio_sem.c guards shared state with value alone: a semaphore used as a lock
\* is held by at most one thread, and is down exactly while it is held.
MutualExclusion ==
    locking => /\ \A s, t \in holder : s = t
               /\ value = (IF holder = {} THEN 1 ELSE 0)

\* sem->waiters counts the threads between the two ends of a wait, time-outs
\* and early wake-ups included: fio_sem_up may trust it.
WaitersExact == waiters = Cardinality(WaitingSet)

\* fio_sem_up signals only when value was 0. No sleeper is stranded by that:
\* while the semaphore is up and somebody sleeps, a thread that was already
\* signalled is on its way to the value test.
NoLostWakeup == value # 0 /\ Sleeping # {} => Awake # {}

\* A semaphore that is up with threads asleep on it is taken, or its sleepers
\* leave: it never stays up beside them.
UpIsNoticed == (value # 0 /\ Sleeping # {}) ~> (value = 0 \/ Sleeping = {})
=============================================================================
