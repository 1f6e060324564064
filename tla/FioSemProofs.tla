---------------------------- MODULE FioSemProofs ----------------------------
(***************************************************************************)
(* The semaphore keeps mutual exclusion and loses no wake-up, for any      *)
(* finite number of threads.                                               *)
(***************************************************************************)
EXTENDS FioSem, FiniteSetTheorems, TLAPS

\* The inductive invariant. NoLostWakeup needs WaitersExact (a sleeper makes
\* fio_sem_up see waiters # 0) and MutualExclusion (value was 0 before any up).
\* With the posting discipline it also needs that one thread waits.
OneWaiter == ~locking => \A t \in Threads : pc[t] = "idle" \/ t = Waiter

IInv == TypeOK /\ MutualExclusion /\ WaitersExact /\ NoLostWakeup /\ OneWaiter

\* The threads that are counted in change by the thread that moves.
LEMMA WaitingMove ==
    ASSUME TypeOK, NEW t \in Threads, NEW s, Goto(t, s)
    PROVE  /\ s \in Waiting => WaitingSet' = WaitingSet \cup {t}
           /\ s \notin Waiting => WaitingSet' = WaitingSet \ {t}
  BY DEF TypeOK, Goto, WaitingSet

\* sem->waiters stays exact when a thread starts or ends a wait.
LEMMA WaitersCount ==
    ASSUME WaitersExact, NEW t \in Threads
    PROVE  /\ IsFiniteSet(WaitingSet)
           /\ waiters \in Nat
           /\ t \notin WaitingSet => Cardinality(WaitingSet \cup {t}) = waiters + 1
           /\ t \in WaitingSet => /\ Cardinality(WaitingSet \cup {t}) = waiters
                                  /\ Cardinality(WaitingSet \ {t}) = waiters - 1
                                  /\ waiters # 0
           /\ t \notin WaitingSet => Cardinality(WaitingSet \ {t}) = waiters
  <1>1. IsFiniteSet(WaitingSet)
    BY ThreadsAssumption, FS_Subset, WaitingSet \subseteq Threads DEF WaitingSet
  <1>2. waiters \in Nat
    BY <1>1, FS_CardinalityType DEF WaitersExact
  <1>3. t \notin WaitingSet => Cardinality(WaitingSet \cup {t}) = waiters + 1
    BY <1>1, FS_AddElement DEF WaitersExact
  <1>4. t \in WaitingSet => Cardinality(WaitingSet \ {t}) = waiters - 1
    BY <1>1, FS_RemoveElement DEF WaitersExact
  <1>5. t \in WaitingSet => waiters # 0
    BY <1>1, FS_EmptySet DEF WaitersExact
  <1>6. t \in WaitingSet => WaitingSet \cup {t} = WaitingSet
    OBVIOUS
  <1>7. t \notin WaitingSet => WaitingSet \ {t} = WaitingSet
    OBVIOUS
  <1> QED BY <1>1, <1>2, <1>3, <1>4, <1>5, <1>6, <1>7 DEF WaitersExact

LEMMA InitIInv == Init => IInv
  <1> SUFFICES ASSUME Init PROVE IInv
    OBVIOUS
  <1>1. WaitingSet = {} /\ Sleeping = {}
    BY DEF Init, WaitingSet, Waiting, Sleeping
  <1>2. Cardinality(WaitingSet) = 0
    BY <1>1, FS_EmptySet
  <1> QED BY <1>1, <1>2
       DEF Init, IInv, TypeOK, Waiting, MutualExclusion, WaitersExact, NoLostWakeup, OneWaiter

\* Entering a wait, going back to sleep, or leaving a wait keeps the count; so
\* does a wake-up, which moves a thread inside Waiting.
LEMMA WaitersStep ==
    ASSUME IInv, [Next]_vars
    PROVE  WaitersExact'
  <1> USE DEF IInv
  <1>1. ASSUME NEW t \in Threads, NEW s, Goto(t, s), s \in Waiting,
               pc[t] \in Waiting, waiters' = waiters
        PROVE  WaitersExact'
    BY <1>1, WaitingMove, WaitersCount DEF WaitersExact, WaitingSet
  <1>2. ASSUME NEW t \in Threads, NEW s, Goto(t, s), s \in Waiting,
               pc[t] \notin Waiting, waiters' = waiters + 1
        PROVE  WaitersExact'
    BY <1>2, WaitingMove, WaitersCount DEF WaitersExact, WaitingSet
  <1>3. ASSUME NEW t \in Threads, NEW s, Goto(t, s), s \notin Waiting,
               pc[t] \in Waiting, waiters' = waiters - 1
        PROVE  WaitersExact'
    BY <1>3, WaitingMove, WaitersCount DEF WaitersExact, WaitingSet
  <1>4. ASSUME NEW t \in Threads, NEW s, Goto(t, s), s \notin Waiting,
               pc[t] \notin Waiting, waiters' = waiters
        PROVE  WaitersExact'
    BY <1>4, WaitingMove, WaitersCount DEF WaitersExact, WaitingSet
  <1>5. ASSUME pc' = pc, waiters' = waiters
        PROVE  WaitersExact'
    BY <1>5 DEF WaitersExact, WaitingSet
  <1>6. ASSUME SemUp PROVE WaitersExact'
    <2>1. CASE UNCHANGED pc
      BY <1>6, <2>1, <1>5 DEF SemUp
    <2>2. CASE \E s \in Sleeping : Goto(s, Wakened(pc[s]))
      BY <1>6, <2>2, <1>1 DEF SemUp, Sleeping, Wakened, Waiting
    <2> QED BY <1>6, <2>1, <2>2 DEF SemUp, Signal
  <1>7. CASE Post
    BY <1>7, <1>6 DEF Post
  <1>8. ASSUME NEW t \in Threads, Down(t) \/ DownTimeout(t) \/ Trylock(t)
        PROVE  WaitersExact'
    BY <1>8, <1>2, <1>4
    DEF Down, DownTimeout, Trylock, CanDown, Got, Sleep, Waiting
  <1>9. ASSUME NEW t \in Threads,
               DownWoken(t) \/ TimeoutWoken(t) \/ TimeoutExpired(t)
        PROVE  WaitersExact'
    BY <1>9, <1>1, <1>3
    DEF DownWoken, TimeoutWoken, TimeoutExpired, Got, Sleep, Waiting
  <1>10. ASSUME NEW t \in Threads, Expire(t) \/ SpuriousWakeup(t)
         PROVE  WaitersExact'
    BY <1>10, <1>1 DEF Expire, SpuriousWakeup, Sleeping, Wakened, Waiting
  <1>11. ASSUME NEW t \in Threads, Unlock(t) PROVE WaitersExact'
    BY <1>11, <1>6 DEF Unlock
  <1>12. CASE UNCHANGED vars
    BY <1>12, <1>5 DEF vars
  <1> QED BY <1>7, <1>8, <1>9, <1>10, <1>11, <1>12 DEF Next

LEMMA TypeStep ==
    ASSUME IInv, [Next]_vars
    PROVE  TypeOK'
  <1> USE DEF IInv, TypeOK
  <1>0. waiters' \in Nat
    <2>1. WaitersExact'
      BY WaitersStep
    <2>2. IsFiniteSet(WaitingSet')
      BY ThreadsAssumption, FS_Subset, WaitingSet' \subseteq Threads DEF WaitingSet
    <2> QED BY <2>1, <2>2, FS_CardinalityType DEF WaitersExact
  <1>1. ASSUME SemUp
        PROVE  /\ value' \in Nat /\ locking' \in BOOLEAN
               /\ pc' \in [Threads -> Waiting \cup {"idle"}]
    <2>1. locking' = locking
      BY <1>1 DEF SemUp
    <2>2. value' \in Nat /\ pc' \in [Threads -> Waiting \cup {"idle"}]
      BY <1>1 DEF SemUp, Signal, Goto, Sleeping, Wakened, Waiting
    <2> QED BY <2>1, <2>2
  <1>2. CASE Post
    BY <1>0, <1>1, <1>2 DEF Post
  <1>3. ASSUME NEW t \in Threads, Down(t) \/ DownTimeout(t) \/ Trylock(t)
        PROVE  TypeOK'
    BY <1>0, <1>3 DEF Down, DownTimeout, Trylock, Got, Sleep, Goto, Waiting
  <1>4. ASSUME NEW t \in Threads,
               DownWoken(t) \/ TimeoutWoken(t) \/ TimeoutExpired(t)
        PROVE  TypeOK'
    BY <1>0, <1>4 DEF DownWoken, TimeoutWoken, TimeoutExpired, Got, Sleep, Goto, Waiting
  <1>5. ASSUME NEW t \in Threads, Expire(t) \/ SpuriousWakeup(t)
        PROVE  TypeOK'
    BY <1>0, <1>5 DEF Expire, SpuriousWakeup, Goto, Wakened, Waiting
  <1>6. ASSUME NEW t \in Threads, Unlock(t) PROVE TypeOK'
    BY <1>0, <1>1, <1>6 DEF Unlock
  <1>7. CASE UNCHANGED vars
    BY <1>7 DEF vars
  <1> QED BY <1>2, <1>3, <1>4, <1>5, <1>6, <1>7 DEF Next

\* value and holder move together: Got takes what Unlock gives back.
LEMMA MutualExclusionStep ==
    ASSUME IInv, [Next]_vars
    PROVE  MutualExclusion'
  <1> USE DEF IInv, TypeOK, MutualExclusion
  <1>1. CASE Post
    BY <1>1 DEF Post, SemUp
  <1>2. ASSUME NEW t \in Threads, Got(t) PROVE MutualExclusion'
    BY <1>2 DEF Got
  <1>3. ASSUME UNCHANGED <<value, holder, locking>> PROVE MutualExclusion'
    BY <1>3
  <1>4. ASSUME NEW t \in Threads, Unlock(t) PROVE MutualExclusion'
    BY <1>4 DEF Unlock, SemUp
  <1>5. ASSUME NEW t \in Threads,
               \/ Down(t) \/ DownWoken(t) \/ DownTimeout(t) \/ TimeoutWoken(t)
               \/ Expire(t) \/ TimeoutExpired(t) \/ Trylock(t) \/ SpuriousWakeup(t)
        PROVE  MutualExclusion'
    <2>1. Got(t) \/ UNCHANGED <<value, holder, locking>>
      BY <1>5 DEF Down, DownWoken, DownTimeout, TimeoutWoken, Expire,
                  TimeoutExpired, Trylock, SpuriousWakeup, Sleep
    <2> QED BY <2>1, <1>2, <1>3
  <1>6. CASE UNCHANGED vars
    BY <1>6 DEF vars
  <1> QED BY <1>1, <1>4, <1>5, <1>6 DEF Next

\* The heart of the matter: an up that leaves sleepers behind has woken one.
LEMMA NoLostWakeupStep ==
    ASSUME IInv, [Next]_vars
    PROVE  NoLostWakeup'
  <1> USE DEF IInv
  <1>1. ASSUME SemUp PROVE NoLostWakeup'
    <2>1. CASE Sleeping = {}
      <3>1. Sleeping' = {}
        BY <1>1, <2>1 DEF SemUp, Signal, Sleeping
      <3> QED BY <3>1 DEF NoLostWakeup
    <2>2. CASE Sleeping # {} /\ value = 0
      <3>1. waiters # 0
        BY <2>2, WaitersCount, Sleeping \subseteq WaitingSet, Sleeping \subseteq Threads
        DEF Sleeping, WaitingSet, Waiting
      <3>2. PICK s \in Sleeping : Goto(s, Wakened(pc[s]))
        BY <1>1, <2>2, <3>1 DEF SemUp, Signal
      <3>3. s \in Awake'
        BY <3>2 DEF TypeOK, Goto, Sleeping, Awake, Wakened
      <3> QED BY <3>3 DEF NoLostWakeup
    <2>3. CASE Sleeping # {} /\ value # 0
      <3>1. UNCHANGED pc
        BY <1>1, <2>3 DEF SemUp
      <3> QED BY <2>3, <3>1 DEF NoLostWakeup, Sleeping, Awake
    <2> QED BY <2>1, <2>2, <2>3
  <1>2. ASSUME NEW t \in Threads, Got(t), locking \/ t = Waiter
        PROVE  NoLostWakeup'
    <2>1. CASE locking
      BY <1>2, <2>1 DEF Got, MutualExclusion, NoLostWakeup, TypeOK
    <2>2. CASE ~locking
      <3>1. Sleeping' = {}
        BY <1>2, <2>2 DEF Got, Goto, Sleeping, TypeOK, OneWaiter
      <3> QED BY <3>1 DEF NoLostWakeup
    <2> QED BY <2>1, <2>2
  <1>3. ASSUME NEW t \in Threads, NEW s, Sleep(t, s) PROVE NoLostWakeup'
    BY <1>3 DEF Sleep, NoLostWakeup
  <1>4. ASSUME NEW t \in Threads, NEW s, Goto(t, s), UNCHANGED value,
               pc[t] \notin {"woken", "twoken"}, s \notin {"wait", "twait"}
        PROVE  NoLostWakeup'
    <2>1. Sleeping' \subseteq Sleeping /\ Awake \subseteq Awake'
      BY <1>4 DEF Goto, Sleeping, Awake, TypeOK
    <2> QED BY <2>1, <1>4 DEF NoLostWakeup
  <1>5. CASE Post
    BY <1>5, <1>1 DEF Post
  <1>6. ASSUME NEW t \in Threads, Unlock(t) PROVE NoLostWakeup'
    BY <1>6, <1>1 DEF Unlock
  <1>7. ASSUME NEW t \in Threads,
               \/ Down(t) \/ DownWoken(t) \/ DownTimeout(t) \/ TimeoutWoken(t)
               \/ Trylock(t)
        PROVE  NoLostWakeup'
    <2>1. locking \/ t = Waiter
      BY <1>7 DEF Down, DownWoken, DownTimeout, TimeoutWoken, Trylock, CanDown, OneWaiter
    <2> QED BY <1>7, <2>1, <1>2, <1>3 DEF Down, DownWoken, DownTimeout, TimeoutWoken, Trylock
  <1>8. ASSUME NEW t \in Threads, Expire(t) \/ TimeoutExpired(t) \/ SpuriousWakeup(t)
        PROVE  NoLostWakeup'
    <2>1. TimeoutExpired(t) => locking \/ t = Waiter
      BY DEF TimeoutExpired, OneWaiter
    <2> QED BY <1>8, <2>1, <1>2, <1>3, <1>4
         DEF Expire, TimeoutExpired, SpuriousWakeup, Sleeping, Wakened
  <1>9. CASE UNCHANGED vars
    BY <1>9 DEF vars, NoLostWakeup, Sleeping, Awake
  <1> QED BY <1>5, <1>6, <1>7, <1>8, <1>9 DEF Next

\* Only a thread that may down, or one that waits already, changes its place.
LEMMA OneWaiterStep ==
    ASSUME IInv, [Next]_vars
    PROVE  OneWaiter'
  <1> USE DEF IInv, TypeOK
  <1>1. ASSUME NEW t \in Threads, NEW s, Goto(t, s), UNCHANGED locking,
               locking \/ t = Waiter \/ pc[t] # "idle"
        PROVE  OneWaiter'
    BY <1>1 DEF Goto, OneWaiter
  <1>2. ASSUME UNCHANGED <<pc, locking>> PROVE OneWaiter'
    BY <1>2 DEF OneWaiter
  <1>3. ASSUME SemUp PROVE OneWaiter'
    BY <1>3, <1>1, <1>2 DEF SemUp, Signal, Sleeping
  <1>4. CASE Post
    BY <1>4, <1>3 DEF Post
  <1>5. ASSUME NEW t \in Threads, Unlock(t) PROVE OneWaiter'
    BY <1>5, <1>3 DEF Unlock
  <1>6. ASSUME NEW t \in Threads, Down(t) \/ DownTimeout(t) \/ Trylock(t)
        PROVE  OneWaiter'
    BY <1>6, <1>1 DEF Down, DownTimeout, Trylock, CanDown, Got, Sleep
  <1>7. ASSUME NEW t \in Threads,
               DownWoken(t) \/ TimeoutWoken(t) \/ TimeoutExpired(t)
        PROVE  OneWaiter'
    BY <1>7, <1>1 DEF DownWoken, TimeoutWoken, TimeoutExpired, Got, Sleep
  <1>8. ASSUME NEW t \in Threads, Expire(t) \/ SpuriousWakeup(t)
        PROVE  OneWaiter'
    BY <1>8, <1>1 DEF Expire, SpuriousWakeup, Sleeping
  <1>9. CASE UNCHANGED vars
    BY <1>9, <1>2 DEF vars
  <1> QED BY <1>4, <1>5, <1>6, <1>7, <1>8, <1>9 DEF Next

LEMMA Inductive == Spec => []IInv
  <1>1. IInv /\ [Next]_vars => IInv'
    BY TypeStep, WaitersStep, MutualExclusionStep, NoLostWakeupStep, OneWaiterStep DEF IInv
  <1> QED BY <1>1, InitIInv, PTL DEF Spec

\* A fio_sem used as a lock is held by one thread at a time, for any number of
\* threads and any mix of down, down_timeout and trylock.
THEOREM MutualExclusionHolds == Spec => []MutualExclusion
  <1>1. IInv => MutualExclusion
    BY DEF IInv
  <1> QED BY <1>1, Inductive, PTL

\* sem->waiters is the number of threads inside a wait.
THEOREM WaitersExactHolds == Spec => []WaitersExact
  <1>1. IInv => WaitersExact
    BY DEF IInv
  <1> QED BY <1>1, Inductive, PTL

\* Signalling only on the 0 -> 1 change of value strands no sleeper, under
\* either discipline.
THEOREM NoLostWakeupHolds == Spec => []NoLostWakeup
  <1>1. IInv => NoLostWakeup
    BY DEF IInv
  <1> QED BY <1>1, Inductive, PTL
=============================================================================
