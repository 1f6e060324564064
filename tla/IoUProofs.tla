----------------------------- MODULE IoUProofs -----------------------------
(***************************************************************************)
(* The depth of a job is exact, its io_us are where their flags say, every *)
(* wait can be satisfied and nothing is left in the engine unless the last *)
(* getevents failed, for every iodepth, every batching, every order of     *)
(* completions and every failure of the engine's hooks.                    *)
(***************************************************************************)
EXTENDS IoU, FiniteSetTheorems, TLAPS

\* What is true at each point of do_io: the hand and the events are empty
\* elsewhere, the drain asks for all of cur_depth, and io_u_quiesce has nothing
\* left to commit.
PhaseOK ==
    /\ \A u \in IoUs : loc[u] = "hand" => pc = "have"
    /\ \A u, v \in IoUs : loc[u] = "hand" /\ loc[v] = "hand" => u = v
    /\ \A u \in IoUs : loc[u] = "event" => pc = "events"
    /\ pc \in {"complete", "getevents", "events"} => caller # "none"
    /\ pc = "getevents" => min_evts <= cur_depth
    /\ caller = "drain" /\ pc \in {"complete", "getevents"} => min_evts = cur_depth
    /\ caller = "drain" /\ pc = "events" => At("engine") = {}
    /\ pc = "done" => Held = {} \/ (getFailed /\ error)
    /\ pc = "quiesce" \/ (caller = "quiesce" /\ pc \in {"complete", "getevents", "events"})
          => io_u_queued = 0 \/ cur_depth = 0

\* The inductive invariant.
IInv == TypeOK /\ DepthExact /\ SumExact /\ FlagsAgree /\ RequeuesExact /\ PhaseOK

-----------------------------------------------------------------------------
\* Sets of io_us are finite and can be counted in an unsigned int.
LEMMA Counts ==
    ASSUME NEW S \in SUBSET IoUs
    PROVE  /\ IsFiniteSet(S)
           /\ Cardinality(S) \in Nat
           /\ Cardinality(S) < UINT
           /\ Cardinality(S) = 0 <=> S = {}
           /\ \A u : u \notin S => Cardinality(S \cup {u}) = Cardinality(S) + 1
           /\ \A u \in S : Cardinality(S \ {u}) = Cardinality(S) - 1
  <1>1. IsFiniteSet(S) /\ Cardinality(S) <= Iodepth
    BY IoUsAssumption, FS_Subset DEF Iodepth
  <1>2. Cardinality(S) \in Nat /\ Cardinality(IoUs) \in Nat
    BY <1>1, IoUsAssumption, FS_CardinalityType
  <1>3. Cardinality(S) = 0 <=> S = {}
    BY <1>1, FS_EmptySet
  <1>4. \A u : u \notin S => Cardinality(S \cup {u}) = Cardinality(S) + 1
    BY <1>1, FS_AddElement
  <1>5. \A u \in S : Cardinality(S \ {u}) = Cardinality(S) - 1
    BY <1>1, FS_RemoveElement
  <1> QED BY <1>1, <1>2, <1>3, <1>4, <1>5, UintAssumption DEF Iodepth

\* Taking a subset out of a set of io_us takes its cardinality out.
LEMMA CountRemoved ==
    ASSUME NEW S \in SUBSET IoUs, NEW T \in SUBSET S
    PROVE  Cardinality(S \ T) = Cardinality(S) - Cardinality(T)
  <1>1. IsFiniteSet(S)
    BY Counts
  <1>2. S \cap T = T
    OBVIOUS
  <1> QED BY <1>1, <1>2, FS_Difference

\* Where the reaping part of do_io goes.
LEMMA ReapTo ==
    ASSUME NEW busy \in BOOLEAN, NEW who \in {"wait", "waitnone"}, Reap(busy, who),
           TypeOK, cur_depth' \in Nat
    PROVE  /\ pc' \in {"complete", "think", "loop"}
           /\ pc' = "complete" => caller' = who
           /\ caller' \in {who, caller}
           /\ full' \in BOOLEAN /\ min_evts' \in Nat
  <1>1. Next_pc[who] \in {"think", "loop"}
    BY DEF Next_pc
  <1>2. QueueFull(loc', cur_depth') \in BOOLEAN
    BY DEF QueueFull
  <1>3. Less(CompleteMin, cur_depth') \in Nat
    BY FixupAssumption DEF Less
  <1> QED BY <1>1, <1>2, <1>3 DEF Reap, TypeOK

\* Where the loop goes after td_io_queue.
LEMMA AfterQueueTo ==
    ASSUME NEW u \in IoUs, NEW failed \in BOOLEAN, NEW busy \in BOOLEAN,
           AfterQueue(u, failed, busy),
           TypeOK, cur_depth' \in Nat
    PROVE  /\ pc' \in {"complete", "think", "loop", "drain"}
           /\ pc' = "complete" => caller' = "wait"
           /\ caller' \in {"wait", caller}
           /\ full' \in BOOLEAN /\ min_evts' \in Nat /\ error' \in BOOLEAN
  BY ReapTo, ZenonT(30) DEF AfterQueue, TypeOK

\* Where an error of io_u_queued_complete goes.
LEMMA AfterErrorTo ==
    ASSUME caller \in {"wait", "waitnone", "quiesce", "drain"}
    PROVE  /\ caller \in {"wait", "waitnone"} => AfterError[caller] = "drain"
           /\ caller = "quiesce" => AfterError[caller] = "quiesce"
           /\ caller = "drain" => AfterError[caller] = "done"
  BY DEF AfterError

-----------------------------------------------------------------------------
\* unsigned int arithmetic stays in range.
LEMMA UintClosed ==
    ASSUME NEW a \in 0..UINT - 1, NEW b \in 0..UINT - 1
    PROVE  Plus(a, b) \in 0..UINT - 1 /\ Minus(a, b) \in 0..UINT - 1
  BY UintAssumption DEF Plus, Minus

\* td_io_commit keeps the types.
LEMMA CommitType ==
    ASSUME TypeOK, NEW eng \in [IoUs -> {"none", "queued", "submitted", "done"}],
           NEW queued \in 0..UINT - 1, NEW depth, NEW rest \in SUBSET IoUs,
           td_io_commit(eng, queued, depth, rest)
    PROVE  /\ faults' \in Nat
           /\ engine' \in [IoUs -> {"none", "queued", "submitted", "done"}]
           /\ io_u_queued' \in 0..UINT - 1 /\ io_u_in_flight' \in 0..UINT - 1
  <1>1. Submit(eng, rest) \in [IoUs -> {"none", "queued", "submitted", "done"}]
    BY DEF Submit
  <1>2. Plus(io_u_in_flight, queued) \in 0..UINT - 1 /\ 0 \in 0..UINT - 1
    <2>1. io_u_in_flight \in 0..UINT - 1
      BY DEF TypeOK
    <2>2. Plus(io_u_in_flight, queued) \in 0..UINT - 1
      BY <2>1, UintClosed
    <2>3. 0 \in 0..UINT - 1
      BY UintAssumption
    <2> QED BY <2>2, <2>3
  <1> QED BY <1>1, <1>2 DEF td_io_commit, CommitHook, TypeOK

LEMMA TypeStep ==
    ASSUME IInv, [Next]_vars
    PROVE  TypeOK'
  <1>u. 1 \in 0..UINT - 1 /\ 0 \in 0..UINT - 1 /\ 0..UINT - 1 \subseteq Nat
    <2>1. Cardinality(IoUs) \in Nat /\ Cardinality(IoUs) # 0
      BY IoUsAssumption, FS_CardinalityType, FS_EmptySet
    <2> QED BY <2>1, UintAssumption DEF Iodepth
  <1>t. TypeOK
    BY DEF IInv
  <1>r. ASSUME NEW u \in IoUs, Release(u)
        PROVE  /\ flags' \in [IoUs -> SUBSET {"FREE", "FLIGHT", "IN_CUR_DEPTH"}]
               /\ cur_depth' \in 0..UINT - 1
    BY <1>r, <1>t, <1>u, UintClosed, ZenonT(30) DEF Release, TypeOK
  <1>p. ASSUME NEW u \in IoUs, put_io_u(u)
        PROVE  /\ loc' \in [IoUs -> {"freelist", "requeues", "hand", "engine", "event", "freed"}]
               /\ requeues' \in Seq(IoUs)
    BY <1>p, <1>t DEF put_io_u, TypeOK
  <1>q. ASSUME NEW u \in IoUs, NEW f, NEW n, requeue_io_u(u, f, n)
        PROVE  /\ loc' \in [IoUs -> {"freelist", "requeues", "hand", "engine", "event", "freed"}]
               /\ requeues' \in Seq(IoUs)
    BY <1>q, <1>t DEF requeue_io_u, TypeOK
  <1>1. CASE LoopEnds
    BY <1>1, <1>t DEF LoopEnds, TypeOK, depths, errors, hook, history
  <1>2. ASSUME NEW u \in IoUs, Take(u), requeues' \in Seq(IoUs), ddir' \in [IoUs -> Ddirs]
        PROVE  TypeOK'
    <2>1. cur_depth' \in 0..UINT - 1
      BY <1>2, <1>t, <1>u, UintClosed DEF Take, TypeOK
    <2>2. flags' \in [IoUs -> SUBSET {"FREE", "FLIGHT", "IN_CUR_DEPTH"}]
      BY <1>2, <1>t DEF Take, TypeOK
    <2>3. gets' \in Nat
      BY <1>2, <1>t DEF Take, TypeOK
    <2> QED BY <1>2, <2>1, <2>2, <2>3, <1>t DEF Take, TypeOK, errors, hook, history
  <1>3. CASE GetRequeued
    BY <1>3, <1>2, <1>t, SMTT(30) DEF GetRequeued, TypeOK
  <1>4. ASSUME NEW u \in IoUs, NEW d \in Ddirs, GetFree(u, d) PROVE TypeOK'
    BY <1>4, <1>2, <1>t DEF GetFree, TypeOK
  <1>5. ASSUME NEW u \in IoUs, GiveBack(u) PROVE TypeOK'
    <2>1. Release(u) /\ put_io_u(u)
      BY <1>5 DEF GiveBack, put_io_u
    <2>2. /\ pc' \in {"complete", "think", "loop", "drain"}
          /\ caller' \in {"waitnone", caller} /\ full' \in BOOLEAN /\ min_evts' \in Nat
      BY <1>5, <2>1, <1>r, <1>t, <1>u, ReapTo, ZenonT(30) DEF GiveBack, TypeOK
    <2> QED BY <1>5, <2>1, <2>2, <1>r, <1>p, <1>t DEF GiveBack, TypeOK, errors, hook, history
  <1>6. ASSUME NEW u \in IoUs, NEW rest \in SUBSET IoUs, Queued(u, rest) PROVE TypeOK'
    <2>1. /\ engine' \in [IoUs -> {"none", "queued", "submitted", "done"}]
          /\ io_u_queued' \in 0..UINT - 1 /\ io_u_in_flight' \in 0..UINT - 1
          /\ faults' \in Nat
      <3> DEFINE queued == Plus(io_u_queued, 1)
                 eng == [engine EXCEPT ![u] = IF HasCommit THEN "queued" ELSE "submitted"]
      <3>1. queued \in 0..UINT - 1 /\ eng \in [IoUs -> {"none", "queued", "submitted", "done"}]
        BY <1>t, <1>u, UintClosed DEF TypeOK
      <3>2. CASE td_io_commit(eng, queued, cur_depth, rest)
        BY <3>1, <3>2, <1>t, CommitType, ZenonT(30)
      <3>3. CASE engine' = eng /\ io_u_queued' = queued /\ UNCHANGED <<io_u_in_flight, faults>>
        BY <3>1, <3>3, <1>t DEF TypeOK
      <3> QED BY <1>6, <3>2, <3>3 DEF Queued
    <2>2. cur_depth' \in Nat
      BY <1>6, <1>t, <1>u DEF Queued, TypeOK
    <2>3. /\ pc' \in {"complete", "think", "loop", "drain"} /\ error' \in BOOLEAN
          /\ caller' \in {"wait", caller} /\ full' \in BOOLEAN /\ min_evts' \in Nat
      BY <1>6, <2>2, <1>t, AfterQueueTo, ZenonT(30) DEF Queued
    <2> QED BY <1>6, <2>1, <2>3, <1>t DEF Queued, TypeOK, Issued
  <1>7. ASSUME NEW u \in IoUs, NEW rest \in SUBSET IoUs, Busy(u, rest) PROVE TypeOK'
    <2>1. Release(u)
      BY <1>7 DEF Busy, requeue_io_u
    <2>2. cur_depth' \in 0..UINT - 1
      BY <2>1, <1>r
    <2>3. /\ engine' \in [IoUs -> {"none", "queued", "submitted", "done"}]
          /\ io_u_queued' \in 0..UINT - 1 /\ io_u_in_flight' \in 0..UINT - 1
          /\ faults' \in Nat
      BY <1>7, <2>2, <1>t, CommitType DEF Busy, TypeOK
    <2>4. /\ pc' \in {"complete", "think", "loop", "drain"} /\ error' \in BOOLEAN
          /\ caller' \in {"wait", caller} /\ full' \in BOOLEAN /\ min_evts' \in Nat
      BY <1>7, <2>2, <1>t, <1>u, AfterQueueTo, ZenonT(30) DEF Busy
    <2>5. io_issues' = io_issues
      BY <1>7 DEF Busy, requeue_io_u
    <2>6. /\ loc' \in [IoUs -> {"freelist", "requeues", "hand", "engine", "event", "freed"}]
          /\ requeues' \in Seq(IoUs)
      BY <1>7, <1>q, ZenonT(30) DEF Busy
    <2> QED BY <1>7, <2>1, <2>3, <2>4, <2>5, <2>6, <1>r, <1>t DEF Busy, TypeOK, history
  <1>8. ASSUME NEW u \in IoUs, NEW failed \in BOOLEAN, Completed(u, failed) PROVE TypeOK'
    <2>1. Release(u) /\ put_io_u(u)
      BY <1>8 DEF Completed, put_io_u
    <2>2. /\ pc' \in {"complete", "think", "loop", "drain"} /\ error' \in BOOLEAN
          /\ caller' \in {"wait", caller} /\ full' \in BOOLEAN /\ min_evts' \in Nat
      BY <1>8, <2>1, <1>r, <1>t, <1>u, AfterQueueTo, ZenonT(30) DEF Completed
    <2> QED BY <1>8, <2>1, <2>2, <1>r, <1>p, <1>t DEF Completed, TypeOK, Issued, hook
  <1>9. ASSUME NEW u \in IoUs, CompletedShort(u) PROVE TypeOK'
    <2>1. Release(u) /\ io_issues' = io_issues + 1 - 1
      BY <1>9, <1>t DEF CompletedShort, requeue_io_u, TypeOK
    <2>2. /\ pc' \in {"complete", "think", "loop", "drain"} /\ error' \in BOOLEAN
          /\ caller' \in {"wait", caller} /\ full' \in BOOLEAN /\ min_evts' \in Nat
      BY <1>9, <2>1, <1>r, <1>t, <1>u, AfterQueueTo, ZenonT(30) DEF CompletedShort
    <2>3. /\ loc' \in [IoUs -> {"freelist", "requeues", "hand", "engine", "event", "freed"}]
          /\ requeues' \in Seq(IoUs)
      BY <1>9, <1>q, ZenonT(30) DEF CompletedShort
    <2> QED BY <1>9, <2>1, <2>2, <2>3, <1>r, <1>t DEF CompletedShort, TypeOK, Issued, hook
  <1>e. caller # "none" => AfterError[caller] \in {"drain", "quiesce", "done"}
    BY <1>t, AfterErrorTo DEF TypeOK
  <1>10. ASSUME NEW rest \in SUBSET IoUs, QueuedComplete(rest) PROVE TypeOK'
    <2>1. min_evts' \in Nat
      BY <1>10, <1>t, <1>u DEF QueuedComplete, Less, TypeOK
    <2>2. /\ engine' \in [IoUs -> {"none", "queued", "submitted", "done"}]
          /\ faults' \in Nat
      BY <1>10, <1>t DEF QueuedComplete, CommitHook, Submit, TypeOK
    <2>3. caller # "none"
      BY <1>10 DEF IInv, PhaseOK, QueuedComplete
    <2>4. /\ pc' \in {"getevents", "drain", "quiesce", "done"}
          /\ error' \in BOOLEAN /\ getFailed' \in BOOLEAN
      BY <1>10, <2>3, <1>e, <1>t, ZenonT(30) DEF QueuedComplete, GetFails, TypeOK
    <2> QED BY <1>10, <2>1, <2>2, <2>4, <1>t DEF QueuedComplete, TypeOK, depths, history
  <1>23. CASE GetEventsFails
    <2>1. caller # "none"
      BY <1>23 DEF IInv, PhaseOK, GetEventsFails
    <2>2. pc' \in {"drain", "quiesce", "done"}
      BY <1>23, <2>1, <1>e DEF GetEventsFails, GetFails
    <2> QED BY <1>23, <2>2, <1>t DEF GetEventsFails, GetFails, TypeOK, depths, history
  <1>11. ASSUME NEW S \in SUBSET IoUs, GetEvents(S) PROVE TypeOK'
    <2>1. Cardinality(S) \in 0..UINT - 1
      BY Counts, UintAssumption
    <2>2. io_u_in_flight' \in 0..UINT - 1
      BY <1>11, <2>1, <1>t, UintClosed DEF GetEvents, InFlightAfter, TypeOK
    <2> QED BY <1>11, <2>2, <1>t, ZenonT(30) DEF GetEvents, TypeOK, history
  <1>12. ASSUME NEW u \in IoUs, NEW failed \in BOOLEAN, IoCompleted(u, failed) PROVE TypeOK'
    <2>1. Release(u) /\ put_io_u(u)
      BY <1>12 DEF IoCompleted, put_io_u
    <2> QED BY <1>12, <2>1, <1>r, <1>p, <1>t DEF IoCompleted, TypeOK, control, hook
  <1>13. ASSUME NEW u \in IoUs, IoCompletedShort(u) PROVE TypeOK'
    <2>1. Release(u) /\ io_issues' = io_issues
      BY <1>13 DEF IoCompletedShort, requeue_io_u
    <2>2. /\ loc' \in [IoUs -> {"freelist", "requeues", "hand", "engine", "event", "freed"}]
          /\ requeues' \in Seq(IoUs)
      <3>1. requeue_io_u(u, FALSE, io_issues)
        BY <1>13, Zenon DEF IoCompletedShort
      <3> QED BY <3>1, <1>q, ZenonT(30)
    <2>3. shorts' \in Nat
      BY <1>13, <1>t DEF IoCompletedShort, TypeOK
    <2>4. /\ flags' \in [IoUs -> SUBSET {"FREE", "FLIGHT", "IN_CUR_DEPTH"}]
          /\ cur_depth' \in 0..UINT - 1
      BY <2>1, <1>r
    <2> QED BY <1>13, <2>1, <2>2, <2>3, <2>4, <1>t DEF IoCompletedShort, TypeOK, control, errors, hook
  <1>14. CASE EventsDone
    <2>1. pc' \in {"done", "quiesce", "drain", "complete", "think", "loop"}
      <3>1. caller \in {"wait", "waitnone"} => Next_pc[caller] \in {"think", "loop"}
        BY DEF Next_pc
      <3>2. caller # "none"
        BY <1>14 DEF IInv, PhaseOK, EventsDone
      <3> QED BY <1>14, <3>1, <3>2, <1>e, <1>t DEF EventsDone, TypeOK
    <2> QED BY <1>14, <2>1, <1>t DEF EventsDone, BatchError, TypeOK, depths, hook, history
  <1>15. CASE Continue
    BY <1>15, <1>t DEF Continue, TypeOK, depths, errors, hook, history
  <1>16. ASSUME NEW rest \in SUBSET IoUs, Stall(rest) PROVE TypeOK'
    <2>1. /\ engine' \in [IoUs -> {"none", "queued", "submitted", "done"}]
          /\ io_u_queued' \in 0..UINT - 1 /\ io_u_in_flight' \in 0..UINT - 1
          /\ faults' \in Nat
      BY <1>16, <1>t, CommitType DEF Stall, TypeOK
    <2> QED BY <1>16, <2>1, <1>t DEF Stall, TypeOK, history
  <1>17. CASE Quiesce \/ Drain
    BY <1>17, <1>t, <1>u, SMTT(30) DEF Quiesce, Drain, TypeOK, depths, errors, hook, history
  <1>18. CASE RunAgain
    BY <1>18, <1>t DEF RunAgain, TypeOK, depths, errors, hook, history
  <1>19. CASE cleanup_io_u
    <2> DEFINE R == {u \in At("requeues") : "IN_CUR_DEPTH" \in flags[u]}
    <2>1. Cardinality(R) \in 0..UINT - 1
      <3>1. R \in SUBSET IoUs
        BY DEF At
      <3> QED BY <3>1, Counts, UintAssumption
    <2>2. cur_depth' \in 0..UINT - 1
      BY <1>19, <2>1, <1>t, UintClosed DEF cleanup_io_u, TypeOK
    <2>3. loc' \in [IoUs -> {"freelist", "requeues", "hand", "engine", "event", "freed"}]
      BY <1>19, <1>t DEF cleanup_io_u, TypeOK
    <2> QED BY <1>19, <2>2, <2>3, <1>t, SMTT(30) DEF cleanup_io_u, TypeOK, errors, hook, history
  <1>20. ASSUME NEW u \in IoUs, DeviceCompletes(u) PROVE TypeOK'
    BY <1>20, <1>t DEF DeviceCompletes, TypeOK, depths, control, errors, hook, history
  <1>21. CASE UNCHANGED vars
    BY <1>21, <1>t DEF TypeOK, vars, depths, control, errors, hook, history
  <1> QED BY <1>1, <1>3, <1>4, <1>5, <1>6, <1>7, <1>8, <1>9, <1>10, <1>11, <1>12, <1>13, <1>14,
             <1>15, <1>16, <1>17, <1>18, <1>19, <1>20, <1>21, <1>23 DEF Next, JobStep, Exited

-----------------------------------------------------------------------------
\* FlagsAgree for one io_u.
FlagsOf(u) ==
    /\ "FREE" \in flags[u] <=> loc[u] \notin {"hand", "engine", "event"}
    /\ "FLIGHT" \in flags[u] <=> loc[u] \in {"engine", "event"}
    /\ loc[u] \in {"hand", "engine", "event"} => "IN_CUR_DEPTH" \in flags[u]
    /\ engine[u] # "none" <=> loc[u] = "engine"

LEMMA FlagsPointwise == FlagsAgree <=> \A u \in IoUs : FlagsOf(u)
  BY DEF FlagsAgree, FlagsOf, Held

LEMMA FlagsPointwiseNext == FlagsAgree' <=> \A u \in IoUs : FlagsOf(u)'
  BY DEF FlagsAgree, FlagsOf, Held

\* The engine's commit hook moves no io_u in or out of the engine.
LEMMA SubmitKeeps ==
    ASSUME NEW eng, NEW rest, NEW u \in IoUs
    PROVE  Submit(eng, rest)[u] # "none" <=> eng[u] # "none"
  BY DEF Submit

LEMMA CommitKeeps ==
    ASSUME NEW eng, NEW queued, NEW depth, NEW rest, td_io_commit(eng, queued, depth, rest),
           NEW u \in IoUs
    PROVE  engine'[u] # "none" <=> eng[u] # "none"
  BY SubmitKeeps DEF td_io_commit, CommitHook

LEMMA FlagsStep ==
    ASSUME IInv, [Next]_vars
    PROVE  FlagsAgree'
  <1>t. TypeOK
    BY DEF IInv
  <1>f. \A u \in IoUs : FlagsOf(u)
    BY FlagsPointwise DEF IInv
  <1> SUFFICES ASSUME NEW v \in IoUs PROVE FlagsOf(v)'
    BY FlagsPointwiseNext
  <1>v. FlagsOf(v)
    BY <1>f
  \* Nothing but the engine's view of submitted io_us changes.
  <1>s. ASSUME loc' = loc, flags' = flags, engine'[v] # "none" <=> engine[v] # "none"
        PROVE  FlagsOf(v)'
    BY <1>s, <1>v DEF FlagsOf
  \* An io_u is put or requeued.
  <1>r. ASSUME NEW u \in IoUs, NEW place \in {"freelist", "requeues"}, Release(u),
               loc' = [loc EXCEPT ![u] = place], engine'[v] # "none" <=> engine[v] # "none",
               loc[u] # "engine"
        PROVE  FlagsOf(v)'
    BY <1>r, <1>f, <1>v, <1>t DEF FlagsOf, Release, TypeOK
  <1>2. ASSUME NEW u \in IoUs, Take(u), loc[u] \in {"freelist", "requeues"}
        PROVE  FlagsOf(v)'
    BY <1>2, <1>f, <1>v, <1>t DEF FlagsOf, Take, TypeOK
  <1>3. CASE GetRequeued
    <2>1. Head(requeues) \in At("requeues")
      BY <1>3, <1>t DEF GetRequeued, IInv, RequeuesExact, TypeOK
    <2> QED BY <1>3, <2>1, <1>2 DEF GetRequeued, At
  <1>4. ASSUME NEW u \in IoUs, NEW d \in Ddirs, GetFree(u, d) PROVE FlagsOf(v)'
    BY <1>4, <1>2 DEF GetFree
  <1>5. ASSUME NEW u \in IoUs, GiveBack(u) PROVE FlagsOf(v)'
    BY <1>5, <1>r, ZenonT(30) DEF GiveBack, put_io_u
  <1>6. ASSUME NEW u \in IoUs, NEW rest \in SUBSET IoUs, Queued(u, rest) PROVE FlagsOf(v)'
    <2> DEFINE eng == [engine EXCEPT ![u] = IF HasCommit THEN "queued" ELSE "submitted"]
    <2>1. engine'[v] # "none" <=> eng[v] # "none"
      BY <1>6, CommitKeeps, ZenonT(30) DEF Queued
    <2>2. eng[v] # "none" <=> v = u \/ engine[v] # "none"
      BY <1>t DEF TypeOK
    <2> QED BY <1>6, <2>1, <2>2, <1>f, <1>v, <1>t DEF Queued, InHand, FlagsOf, TypeOK
  <1>7. ASSUME NEW u \in IoUs, NEW rest \in SUBSET IoUs, Busy(u, rest) PROVE FlagsOf(v)'
    BY <1>7, <1>r, CommitKeeps, ZenonT(30) DEF Busy, InHand, requeue_io_u
  <1>8. ASSUME NEW u \in IoUs, NEW failed \in BOOLEAN, Completed(u, failed) PROVE FlagsOf(v)'
    BY <1>8, <1>r, ZenonT(30) DEF Completed, InHand, put_io_u
  <1>9. ASSUME NEW u \in IoUs, CompletedShort(u) PROVE FlagsOf(v)'
    BY <1>9, <1>r, ZenonT(30) DEF CompletedShort, InHand, requeue_io_u
  <1>10. ASSUME NEW rest \in SUBSET IoUs, QueuedComplete(rest) PROVE FlagsOf(v)'
    BY <1>10, <1>s, SubmitKeeps DEF QueuedComplete, CommitHook
  <1>11. ASSUME NEW S \in SUBSET IoUs, GetEvents(S) PROVE FlagsOf(v)'
    <2>1. v \in S => engine[v] = "done"
      BY <1>11 DEF GetEvents, Delivered, Engine
    <2> QED BY <1>11, <2>1, <1>v, <1>t DEF GetEvents, FlagsOf, TypeOK
  <1>12. ASSUME NEW u \in IoUs, NEW failed \in BOOLEAN, IoCompleted(u, failed) PROVE FlagsOf(v)'
    BY <1>12, <1>r, ZenonT(30) DEF IoCompleted, InEvents, put_io_u
  <1>13. ASSUME NEW u \in IoUs, IoCompletedShort(u) PROVE FlagsOf(v)'
    BY <1>13, <1>r, ZenonT(30) DEF IoCompletedShort, InEvents, requeue_io_u
  <1>16. ASSUME NEW rest \in SUBSET IoUs, Stall(rest) PROVE FlagsOf(v)'
    BY <1>16, <1>s, CommitKeeps, ZenonT(30) DEF Stall
  <1>19. CASE cleanup_io_u
    BY <1>19, <1>v, <1>t DEF cleanup_io_u, FlagsOf, TypeOK
  <1>20. ASSUME NEW u \in IoUs, DeviceCompletes(u) PROVE FlagsOf(v)'
    BY <1>20, <1>s, <1>t, SMTT(30) DEF DeviceCompletes, TypeOK
  <1>21. CASE LoopEnds \/ GetEventsFails \/ EventsDone \/ Continue \/ Quiesce \/ Drain \/ RunAgain \/ UNCHANGED vars
    BY <1>21, <1>s DEF LoopEnds, GetEventsFails, EventsDone, Continue, Quiesce, Drain, RunAgain, vars
  <1> QED BY <1>3, <1>4, <1>5, <1>6, <1>7, <1>8, <1>9, <1>10, <1>11, <1>12, <1>13,
             <1>16, <1>19, <1>20, <1>21 DEF Next, JobStep, Exited

-----------------------------------------------------------------------------
LEMMA DepthStep ==
    ASSUME IInv, [Next]_vars
    PROVE  DepthExact'
  <1>t. TypeOK /\ DepthExact
    BY DEF IInv
  <1>f. \A u \in IoUs : FlagsOf(u)
    BY FlagsPointwise DEF IInv
  <1>h. Held \in SUBSET IoUs
    BY DEF Held
  <1>s. ASSUME Held' = Held, cur_depth' = cur_depth, pc # "exited" PROVE DepthExact'
    BY <1>s, <1>t DEF DepthExact
  \* An io_u is put or requeued.
  <1>r. ASSUME NEW u \in IoUs, NEW place \in {"freelist", "requeues"}, Release(u),
               loc' = [loc EXCEPT ![u] = place], u \in Held, pc # "exited"
        PROVE  DepthExact'
    <2>1. Held' = Held \ {u}
      BY <1>r, <1>t DEF Held, TypeOK
    <2>2. Cardinality(Held') = Cardinality(Held) - 1 /\ Cardinality(Held) \in Nat
          /\ Cardinality(Held) # 0
      BY <2>1, <1>h, <1>r, Counts
    <2>3. cur_depth' = Minus(cur_depth, 1)
      BY <1>r, <1>f DEF Release, FlagsOf, Held
    <2> QED BY <2>2, <2>3, <1>r, <1>t DEF DepthExact, Minus
  <1>2. ASSUME NEW u \in IoUs, Take(u), loc[u] \in {"freelist", "requeues"}
        PROVE  DepthExact'
    <2>1. Held' = Held \cup {u} /\ u \notin Held
      BY <1>2, <1>t DEF Take, Held, TypeOK
    <2>2. Cardinality(Held') = Cardinality(Held) + 1 /\ Cardinality(Held) \in Nat
      BY <2>1, <1>h, Counts
    <2>3. Cardinality(Held') < UINT
      BY <2>1, <1>h, Counts
    <2>4. cur_depth' = Plus(cur_depth, 1) /\ pc # "exited"
      BY <1>2 DEF Take
    <2> QED BY <2>2, <2>3, <2>4, <1>t DEF DepthExact, Plus
  <1>3. CASE GetRequeued
    <2>1. Head(requeues) \in At("requeues")
      BY <1>3, <1>t DEF GetRequeued, IInv, RequeuesExact, TypeOK
    <2> QED BY <1>3, <2>1, <1>2 DEF GetRequeued, At
  <1>4. ASSUME NEW u \in IoUs, NEW d \in Ddirs, GetFree(u, d) PROVE DepthExact'
    BY <1>4, <1>2 DEF GetFree
  <1>5. ASSUME NEW u \in IoUs, GiveBack(u) PROVE DepthExact'
    BY <1>5, <1>r, ZenonT(30) DEF GiveBack, put_io_u, Held
  <1>6. ASSUME NEW u \in IoUs, NEW rest \in SUBSET IoUs, Queued(u, rest) PROVE DepthExact'
    <2>1. Held' = Held
      BY <1>6, <1>t DEF Queued, InHand, Held, TypeOK
    <2> QED BY <1>6, <2>1, <1>s DEF Queued, InHand
  <1>7. ASSUME NEW u \in IoUs, NEW rest \in SUBSET IoUs, Busy(u, rest) PROVE DepthExact'
    BY <1>7, <1>r, ZenonT(30) DEF Busy, InHand, requeue_io_u, Held
  <1>8. ASSUME NEW u \in IoUs, NEW failed \in BOOLEAN, Completed(u, failed) PROVE DepthExact'
    BY <1>8, <1>r, ZenonT(30) DEF Completed, InHand, put_io_u, Held
  <1>9. ASSUME NEW u \in IoUs, CompletedShort(u) PROVE DepthExact'
    BY <1>9, <1>r, ZenonT(30) DEF CompletedShort, InHand, requeue_io_u, Held
  <1>11. ASSUME NEW S \in SUBSET IoUs, GetEvents(S) PROVE DepthExact'
    <2>1. \A u \in S : loc[u] = "engine"
      BY <1>11, <1>f DEF GetEvents, Delivered, Engine, FlagsOf
    <2>2. Held' = Held
      BY <1>11, <2>1 DEF GetEvents, Held
    <2> QED BY <1>11, <2>2, <1>s DEF GetEvents
  <1>12. ASSUME NEW u \in IoUs, NEW failed \in BOOLEAN, IoCompleted(u, failed) PROVE DepthExact'
    BY <1>12, <1>r, ZenonT(30) DEF IoCompleted, InEvents, put_io_u, Held
  <1>13. ASSUME NEW u \in IoUs, IoCompletedShort(u) PROVE DepthExact'
    BY <1>13, <1>r, ZenonT(30) DEF IoCompletedShort, InEvents, requeue_io_u, Held
  <1>19. CASE cleanup_io_u
    BY <1>19 DEF cleanup_io_u, DepthExact
  <1>20. ASSUME NEW u \in IoUs, DeviceCompletes(u) PROVE DepthExact'
    BY <1>20, <1>t DEF DeviceCompletes, DepthExact, Held, depths, control
  <1>21. CASE UNCHANGED vars
    BY <1>21, <1>t DEF DepthExact, Held, vars, depths, control
  <1>22. ASSUME NEW rest \in SUBSET IoUs,
                \/ LoopEnds \/ QueuedComplete(rest) \/ GetEventsFails \/ EventsDone \/ Continue
                \/ Stall(rest) \/ Quiesce \/ Drain \/ RunAgain
         PROVE  DepthExact'
    <2>1. loc' = loc /\ cur_depth' = cur_depth /\ pc # "exited"
      BY <1>22, ZenonT(30) DEF LoopEnds, QueuedComplete, GetEventsFails, EventsDone, Continue, Stall, Quiesce, Drain, RunAgain, depths
    <2> QED BY <2>1, <1>s, SMTT(30) DEF Held
  <1> QED BY <1>3, <1>4, <1>5, <1>6, <1>7, <1>8, <1>9, <1>11, <1>12, <1>13,
             <1>19, <1>20, <1>21, <1>22 DEF Next, JobStep, Exited

-----------------------------------------------------------------------------
\* td_io_commit moves the same number from io_u_queued to io_u_in_flight.
LEMMA CommitSum ==
    ASSUME TypeOK, NEW eng, NEW queued \in 0..UINT - 1, NEW depth, NEW rest,
           td_io_commit(eng, queued, depth, rest)
    PROVE  Plus(io_u_queued', io_u_in_flight') = Plus(queued, io_u_in_flight)
  <1>1. io_u_in_flight \in 0..UINT - 1
    BY DEF TypeOK
  <1>2. Plus(0, Plus(io_u_in_flight, queued)) = Plus(queued, io_u_in_flight)
    BY <1>1, UintAssumption DEF Plus
  <1> QED BY <1>2 DEF td_io_commit

LEMMA SumStep ==
    ASSUME IInv, [Next]_vars
    PROVE  SumExact'
  <1>t. TypeOK /\ SumExact
    BY DEF IInv
  <1>f. \A u \in IoUs : FlagsOf(u)
    BY FlagsPointwise DEF IInv
  <1>e. At("engine") \in SUBSET IoUs
    BY DEF At
  <1>w. io_u_queued \in 0..UINT - 1 /\ io_u_in_flight \in 0..UINT - 1
    BY <1>t DEF TypeOK
  <1>s. ASSUME At("engine")' = At("engine"),
               Plus(io_u_queued', io_u_in_flight') = Plus(io_u_queued, io_u_in_flight)
        PROVE  SumExact'
    BY <1>s, <1>t DEF SumExact
  \* An io_u that is not in the engine moves to another list.
  <1>m. ASSUME NEW u \in IoUs, NEW place, loc' = [loc EXCEPT ![u] = place],
               loc[u] # "engine", place # "engine"
        PROVE  At("engine")' = At("engine")
    BY <1>m, <1>t DEF At, TypeOK
  <1>2. ASSUME NEW u \in IoUs, Take(u), loc[u] # "engine" PROVE SumExact'
    BY <1>2, <1>m, <1>s, ZenonT(30) DEF Take
  <1>3. CASE GetRequeued
    <2>1. Head(requeues) \in At("requeues")
      BY <1>3, <1>t DEF GetRequeued, IInv, RequeuesExact, TypeOK
    <2> QED BY <1>3, <2>1, <1>2 DEF GetRequeued, At
  <1>4. ASSUME NEW u \in IoUs, NEW d \in Ddirs, GetFree(u, d) PROVE SumExact'
    BY <1>4, <1>2 DEF GetFree
  <1>5. ASSUME NEW u \in IoUs, GiveBack(u) PROVE SumExact'
    BY <1>5, <1>m, <1>s, ZenonT(30) DEF GiveBack, put_io_u
  <1>6. ASSUME NEW u \in IoUs, NEW rest \in SUBSET IoUs, Queued(u, rest) PROVE SumExact'
    <2>1. At("engine")' = At("engine") \cup {u} /\ u \notin At("engine")
      BY <1>6, <1>t DEF Queued, InHand, At, TypeOK
    <2>2. Cardinality(At("engine")') = Cardinality(At("engine")) + 1
          /\ Cardinality(At("engine")) \in Nat /\ Cardinality(At("engine")') < UINT
      BY <2>1, <1>e, Counts
    <2> DEFINE queued == Plus(io_u_queued, 1)
    <2>3. queued \in 0..UINT - 1
      BY <1>w, <2>2, UintAssumption DEF Plus
    <2>4. Plus(io_u_queued', io_u_in_flight') = Plus(queued, io_u_in_flight)
      BY <1>6, <2>3, <1>t, CommitSum DEF Queued
    <2>5. Plus(queued, io_u_in_flight) = Plus(Plus(io_u_queued, io_u_in_flight), 1)
      BY <1>w, <2>2, UintAssumption DEF Plus
    <2>6. Plus(Cardinality(At("engine")), 1) = Cardinality(At("engine")')
      BY <2>2, UintAssumption DEF Plus
    <2> QED BY <2>4, <2>5, <2>6, <1>t DEF SumExact
  <1>7. ASSUME NEW u \in IoUs, NEW rest \in SUBSET IoUs, Busy(u, rest) PROVE SumExact'
    BY <1>7, <1>m, <1>s, <1>t, <1>w, CommitSum, ZenonT(30) DEF Busy, InHand, requeue_io_u
  <1>8. ASSUME NEW u \in IoUs, NEW failed \in BOOLEAN, Completed(u, failed) PROVE SumExact'
    BY <1>8, <1>m, <1>s, ZenonT(30) DEF Completed, InHand, put_io_u
  <1>9. ASSUME NEW u \in IoUs, CompletedShort(u) PROVE SumExact'
    BY <1>9, <1>m, <1>s, ZenonT(30) DEF CompletedShort, InHand, requeue_io_u
  <1>11. ASSUME NEW S \in SUBSET IoUs, GetEvents(S) PROVE SumExact'
    <2>1. \A u \in S : loc[u] = "engine"
      BY <1>11, <1>f DEF GetEvents, Delivered, Engine, FlagsOf
    <2>2. At("engine")' = At("engine") \ S /\ S \in SUBSET At("engine")
      BY <1>11, <2>1 DEF GetEvents, At
    <2>3. Cardinality(At("engine")') = Cardinality(At("engine")) - Cardinality(S)
      BY <2>2, <1>e, CountRemoved
    <2>4. /\ Cardinality(S) \in Nat /\ Cardinality(At("engine")) \in Nat
          /\ Cardinality(At("engine")') \in Nat /\ Cardinality(S) < UINT
      BY <1>e, <2>2, Counts, SMTT(30)
    <2>5. io_u_queued' = io_u_queued /\ io_u_in_flight' = Minus(io_u_in_flight, Cardinality(S))
      BY <1>11, ZenonT(30) DEF GetEvents, InFlightAfter
    <2> QED BY <2>3, <2>4, <2>5, <1>w, <1>t, UintAssumption DEF SumExact, Plus, Minus
  <1>12. ASSUME NEW u \in IoUs, NEW failed \in BOOLEAN, IoCompleted(u, failed) PROVE SumExact'
    BY <1>12, <1>m, <1>s, ZenonT(30) DEF IoCompleted, InEvents, put_io_u
  <1>13. ASSUME NEW u \in IoUs, IoCompletedShort(u) PROVE SumExact'
    BY <1>13, <1>m, <1>s, ZenonT(30) DEF IoCompletedShort, InEvents, requeue_io_u
  <1>16. ASSUME NEW rest \in SUBSET IoUs, Stall(rest) PROVE SumExact'
    BY <1>16, <1>s, <1>t, <1>w, CommitSum DEF Stall, At
  <1>19. CASE cleanup_io_u
    BY <1>19, <1>s, <1>t DEF cleanup_io_u, At, TypeOK
  <1>20. ASSUME NEW u \in IoUs, DeviceCompletes(u) PROVE SumExact'
    BY <1>20, <1>s DEF DeviceCompletes, At, depths
  <1>22. ASSUME NEW rest \in SUBSET IoUs,
                \/ LoopEnds \/ QueuedComplete(rest) \/ GetEventsFails \/ EventsDone \/ Continue
                \/ Quiesce \/ Drain \/ RunAgain \/ UNCHANGED vars
         PROVE  SumExact'
    <2>1. loc' = loc /\ io_u_queued' = io_u_queued /\ io_u_in_flight' = io_u_in_flight
      BY <1>22, ZenonT(30) DEF LoopEnds, QueuedComplete, GetEventsFails, EventsDone, Continue, Quiesce, Drain, RunAgain, vars, depths
    <2> QED BY <2>1, <1>s, SMTT(30) DEF At
  <1> QED BY <1>3, <1>4, <1>5, <1>6, <1>7, <1>8, <1>9, <1>11, <1>12, <1>13,
             <1>16, <1>19, <1>20, <1>22 DEF Next, JobStep, Exited

-----------------------------------------------------------------------------
LEMMA RequeuesStep ==
    ASSUME IInv, [Next]_vars
    PROVE  RequeuesExact'
  <1>t. TypeOK /\ RequeuesExact
    BY DEF IInv
  <1>s. ASSUME At("requeues")' = At("requeues"), requeues' = requeues PROVE RequeuesExact'
    BY <1>s, <1>t DEF RequeuesExact
  \* An io_u moves between two other places.
  <1>m. ASSUME NEW u \in IoUs, NEW place, loc' = [loc EXCEPT ![u] = place],
               loc[u] # "requeues", place # "requeues"
        PROVE  At("requeues")' = At("requeues")
    BY <1>m, <1>t DEF At, TypeOK
  <1>q. ASSUME NEW u \in IoUs, NEW f, NEW n, requeue_io_u(u, f, n), loc[u] # "requeues"
        PROVE  RequeuesExact'
    <2>1. At("requeues")' = At("requeues") \cup {u} /\ u \notin At("requeues")
      BY <1>q, <1>t DEF requeue_io_u, At, TypeOK
    <2>2. requeues' = Append(requeues, u) /\ requeues \in Seq(IoUs)
      BY <1>q, <1>t DEF requeue_io_u, TypeOK
    <2>3. /\ Len(requeues') = Len(requeues) + 1 /\ requeues'[Len(requeues) + 1] = u
          /\ DOMAIN requeues = 1..Len(requeues) /\ DOMAIN requeues' = 1..Len(requeues) + 1
          /\ \A i \in DOMAIN requeues : requeues'[i] = requeues[i]
          /\ Len(requeues) \in Nat
      BY <2>2
    <2>4. {requeues'[i] : i \in DOMAIN requeues'} = At("requeues")'
      BY <2>1, <2>3, <1>t DEF RequeuesExact
    <2>5. \A i \in DOMAIN requeues : requeues'[i] # u
      BY <2>1, <2>3, <1>t DEF RequeuesExact
    <2>6. \A i, j \in DOMAIN requeues' : requeues'[i] = requeues'[j] => i = j
      BY <2>3, <2>5, <1>t DEF RequeuesExact
    <2> QED BY <2>4, <2>6 DEF RequeuesExact
  <1>3. CASE GetRequeued
    <2>1. requeues \in Seq(IoUs) /\ requeues # <<>> /\ requeues' = Tail(requeues)
      BY <1>3, <1>t DEF GetRequeued, TypeOK
    <2>2. /\ Len(requeues) \in Nat \ {0} /\ DOMAIN requeues = 1..Len(requeues)
          /\ DOMAIN requeues' = 1..Len(requeues) - 1
          /\ \A i \in DOMAIN requeues' : requeues'[i] = requeues[i + 1] /\ i + 1 \in DOMAIN requeues
          /\ Head(requeues) = requeues[1] /\ 1 \in DOMAIN requeues
      BY <2>1
    <2>3. loc' = [loc EXCEPT ![requeues[1]] = "hand"] /\ requeues[1] \in IoUs
      BY <1>3, <2>1, <2>2 DEF GetRequeued, Take
    <2>4. At("requeues")' = At("requeues") \ {requeues[1]}
      BY <2>3, <1>t DEF At, TypeOK
    <2>5. \A i \in DOMAIN requeues' : requeues'[i] # requeues[1]
      BY <2>2, <1>t DEF RequeuesExact
    <2>6. \A i \in DOMAIN requeues : i # 1 => i - 1 \in DOMAIN requeues' /\ requeues'[i - 1] = requeues[i]
      BY <2>2
    <2>7. {requeues'[i] : i \in DOMAIN requeues'} = At("requeues")'
      <3>1. ASSUME NEW i \in DOMAIN requeues' PROVE requeues'[i] \in At("requeues")'
        <4>1. requeues'[i] = requeues[i + 1] /\ i + 1 \in DOMAIN requeues
          BY <3>1, <2>2
        <4>2. requeues[i + 1] \in At("requeues")
          BY <4>1, <1>t, Zenon DEF RequeuesExact
        <4>3. requeues'[i] # requeues[1]
          BY <3>1, <2>5
        <4> QED BY <4>1, <4>2, <4>3, <2>4, Zenon
      <3>2. ASSUME NEW u \in At("requeues")' PROVE \E i \in DOMAIN requeues' : requeues'[i] = u
        <4>1. PICK i \in DOMAIN requeues : requeues[i] = u
          BY <3>2, <2>4, <1>t DEF RequeuesExact
        <4>2. i # 1
          BY <4>1, <3>2, <2>4
        <4> QED BY <4>1, <4>2, <2>6
      <3> QED BY <3>1, <3>2
    <2>8. \A i, j \in DOMAIN requeues' : requeues'[i] = requeues'[j] => i = j
      <3> SUFFICES ASSUME NEW i \in DOMAIN requeues', NEW j \in DOMAIN requeues',
                          requeues'[i] = requeues'[j]
                   PROVE  i = j
        OBVIOUS
      <3>1. i + 1 = j + 1
        BY <2>2, <1>t DEF RequeuesExact
      <3> QED BY <3>1, <2>2
    <2> QED BY <2>7, <2>8 DEF RequeuesExact
  <1>4. ASSUME NEW u \in IoUs, NEW d \in Ddirs, GetFree(u, d) PROVE RequeuesExact'
    BY <1>4, <1>m, <1>s, ZenonT(30) DEF GetFree, Take
  <1>5. ASSUME NEW u \in IoUs, GiveBack(u) PROVE RequeuesExact'
    BY <1>5, <1>m, <1>s, ZenonT(30) DEF GiveBack, put_io_u
  <1>6. ASSUME NEW u \in IoUs, NEW rest \in SUBSET IoUs, Queued(u, rest) PROVE RequeuesExact'
    BY <1>6, <1>m, <1>s, ZenonT(30) DEF Queued, InHand
  <1>7. ASSUME NEW u \in IoUs, NEW rest \in SUBSET IoUs, Busy(u, rest) PROVE RequeuesExact'
    BY <1>7, <1>q, ZenonT(30) DEF Busy, InHand
  <1>8. ASSUME NEW u \in IoUs, NEW failed \in BOOLEAN, Completed(u, failed) PROVE RequeuesExact'
    BY <1>8, <1>m, <1>s, ZenonT(30) DEF Completed, InHand, put_io_u
  <1>9. ASSUME NEW u \in IoUs, CompletedShort(u) PROVE RequeuesExact'
    BY <1>9, <1>q, ZenonT(30) DEF CompletedShort, InHand
  <1>11. ASSUME NEW S \in SUBSET IoUs, GetEvents(S) PROVE RequeuesExact'
    <2>1. \A u \in S : loc[u] = "engine"
      BY <1>11, FlagsPointwise, SMTT(30) DEF GetEvents, Delivered, Engine, FlagsOf, IInv
    <2>2. At("requeues")' = At("requeues")
      BY <1>11, <2>1 DEF GetEvents, At
    <2> QED BY <1>11, <2>2, <1>s DEF GetEvents
  <1>12. ASSUME NEW u \in IoUs, NEW failed \in BOOLEAN, IoCompleted(u, failed) PROVE RequeuesExact'
    BY <1>12, <1>m, <1>s, ZenonT(30) DEF IoCompleted, InEvents, put_io_u
  <1>13. ASSUME NEW u \in IoUs, IoCompletedShort(u) PROVE RequeuesExact'
    BY <1>13, <1>q, ZenonT(30) DEF IoCompletedShort, InEvents
  <1>19. CASE cleanup_io_u
    <2>1. At("requeues")' = {} /\ requeues' = <<>>
      BY <1>19, <1>t DEF cleanup_io_u, At, TypeOK
    <2> QED BY <2>1 DEF RequeuesExact
  <1>20. ASSUME NEW u \in IoUs, DeviceCompletes(u) PROVE RequeuesExact'
    BY <1>20, <1>s, SMTT(30) DEF DeviceCompletes, At
  <1>22. ASSUME NEW rest \in SUBSET IoUs,
                \/ LoopEnds \/ QueuedComplete(rest) \/ GetEventsFails \/ EventsDone \/ Continue
                \/ Stall(rest) \/ Quiesce \/ Drain \/ RunAgain \/ UNCHANGED vars
         PROVE  RequeuesExact'
    BY <1>22, <1>s, ZenonT(30) DEF LoopEnds, QueuedComplete, GetEventsFails, EventsDone, Continue, Stall, Quiesce, Drain, RunAgain, vars, At
  <1> QED BY <1>3, <1>4, <1>5, <1>6, <1>7, <1>8, <1>9, <1>11, <1>12, <1>13,
             <1>19, <1>20, <1>22 DEF Next, JobStep, Exited

-----------------------------------------------------------------------------
\* With an empty hand and no events, the io_us held are those in the engine.
LEMMA HeldInEngine ==
    ASSUME \A u \in IoUs : loc[u] \notin {"hand", "event"}
    PROVE  Held = At("engine")
  BY DEF Held, At

\* The job leaves the loop body for a point where nothing is in hand.
LEMMA PhaseLeave ==
    ASSUME IInv, pc' \in {"complete", "think", "loop", "drain"},
           pc' = "complete" => caller' \in {"wait", "waitnone"},
           \A v \in IoUs : loc'[v] \notin {"hand", "event"}
    PROVE  PhaseOK'
  BY SMTT(30) DEF PhaseOK

LEMMA PhaseStep ==
    ASSUME IInv, [Next]_vars
    PROVE  PhaseOK'
  <1>t. TypeOK /\ PhaseOK /\ DepthExact
    BY DEF IInv
  <1>n. cur_depth \in Nat
    BY <1>t, UintAssumption DEF TypeOK
  <1>d. pc # "exited" => (cur_depth = 0 <=> Held = {})
    <2>1. Held \in SUBSET IoUs
      BY DEF Held
    <2> QED BY <2>1, <1>t, Counts, SMTT(30) DEF DepthExact
  \* The io_u in hand is put, requeued or queued.
  <1>h. ASSUME NEW u \in IoUs, NEW place \in {"freelist", "requeues", "engine"},
               pc = "have", loc[u] = "hand", loc' = [loc EXCEPT ![u] = place]
        PROVE  \A v \in IoUs : loc'[v] \notin {"hand", "event"}
    BY <1>h, <1>t DEF PhaseOK, TypeOK
  <1>r. ASSUME NEW u \in IoUs, Release(u) PROVE cur_depth' \in Nat
    <2>1. cur_depth \in 0..UINT - 1 /\ UINT \in Nat
      BY <1>t, UintAssumption DEF TypeOK
    <2> QED BY <1>r, <2>1 DEF Release, Minus
  <1>1. CASE LoopEnds
    BY <1>1, <1>t, SMTT(30) DEF LoopEnds, PhaseOK
  <1>2. ASSUME NEW u \in IoUs, Take(u) PROVE PhaseOK'
    BY <1>2, <1>t DEF Take, PhaseOK, TypeOK
  <1>3. CASE GetRequeued
    BY <1>3, <1>2, <1>t DEF GetRequeued, TypeOK
  <1>4. ASSUME NEW u \in IoUs, NEW d \in Ddirs, GetFree(u, d) PROVE PhaseOK'
    BY <1>4, <1>2 DEF GetFree
  <1>5. ASSUME NEW u \in IoUs, GiveBack(u) PROVE PhaseOK'
    <2>1. \A v \in IoUs : loc'[v] \notin {"hand", "event"}
      BY <1>5, <1>h, ZenonT(30) DEF GiveBack, put_io_u
    <2>2. cur_depth' \in Nat
      BY <1>5, <1>r DEF GiveBack, put_io_u
    <2>3. /\ pc' \in {"complete", "think", "loop", "drain"}
          /\ pc' = "complete" => caller' \in {"wait", "waitnone"}
      BY <1>5, <2>2, <1>t, ReapTo, ZenonT(30) DEF GiveBack
    <2> QED BY <2>1, <2>3, PhaseLeave
  <1>6. ASSUME NEW u \in IoUs, NEW rest \in SUBSET IoUs, Queued(u, rest) PROVE PhaseOK'
    <2>1. \A v \in IoUs : loc'[v] \notin {"hand", "event"}
      BY <1>6, <1>h, ZenonT(30) DEF Queued, InHand
    <2>3. /\ pc' \in {"complete", "think", "loop", "drain"}
          /\ pc' = "complete" => caller' \in {"wait", "waitnone"}
      BY <1>6, <1>n, <1>t, AfterQueueTo, ZenonT(30) DEF Queued
    <2> QED BY <2>1, <2>3, PhaseLeave
  <1>7. ASSUME NEW u \in IoUs, NEW rest \in SUBSET IoUs, Busy(u, rest) PROVE PhaseOK'
    <2>1. \A v \in IoUs : loc'[v] \notin {"hand", "event"}
      BY <1>7, <1>h, ZenonT(30) DEF Busy, InHand, requeue_io_u
    <2>2. cur_depth' \in Nat
      BY <1>7, <1>r DEF Busy, requeue_io_u
    <2>3. /\ pc' \in {"complete", "think", "loop", "drain"}
          /\ pc' = "complete" => caller' \in {"wait", "waitnone"}
      BY <1>7, <2>2, <1>t, AfterQueueTo, ZenonT(30) DEF Busy
    <2> QED BY <2>1, <2>3, PhaseLeave
  <1>8. ASSUME NEW u \in IoUs, NEW failed \in BOOLEAN, Completed(u, failed) PROVE PhaseOK'
    <2>1. \A v \in IoUs : loc'[v] \notin {"hand", "event"}
      BY <1>8, <1>h, ZenonT(30) DEF Completed, InHand, put_io_u
    <2>2. cur_depth' \in Nat
      BY <1>8, <1>r DEF Completed, put_io_u
    <2>3. /\ pc' \in {"complete", "think", "loop", "drain"}
          /\ pc' = "complete" => caller' \in {"wait", "waitnone"}
      BY <1>8, <2>2, <1>t, AfterQueueTo, ZenonT(30) DEF Completed
    <2> QED BY <2>1, <2>3, PhaseLeave
  <1>9. ASSUME NEW u \in IoUs, CompletedShort(u) PROVE PhaseOK'
    <2>1. \A v \in IoUs : loc'[v] \notin {"hand", "event"}
      BY <1>9, <1>h, ZenonT(30) DEF CompletedShort, InHand, requeue_io_u
    <2>2. cur_depth' \in Nat
      BY <1>9, <1>r DEF CompletedShort, requeue_io_u
    <2>3. /\ pc' \in {"complete", "think", "loop", "drain"}
          /\ pc' = "complete" => caller' \in {"wait", "waitnone"}
      BY <1>9, <2>2, <1>t, AfterQueueTo, ZenonT(30) DEF CompletedShort
    <2> QED BY <2>1, <2>3, PhaseLeave
  \* td_io_getevents fails.
  <1>e. ASSUME pc \in {"complete", "getevents"}, GetFails,
               UNCHANGED <<loc, caller, io_u_queued, cur_depth>>
        PROVE  PhaseOK'
    <2>1. \A v \in IoUs : loc[v] \notin {"hand", "event"}
      BY <1>e, <1>t DEF PhaseOK
    <2>2. /\ caller \in {"wait", "waitnone", "quiesce", "drain"}
          /\ caller = "quiesce" => io_u_queued = 0 \/ cur_depth = 0
      BY <1>e, <1>t DEF PhaseOK, TypeOK
    <2>3. /\ caller \in {"wait", "waitnone"} => pc' = "drain"
          /\ caller = "quiesce" => pc' = "quiesce"
          /\ caller = "drain" => pc' = "done"
      BY <1>e, <2>2, AfterErrorTo DEF GetFails
    <2>4. getFailed' /\ error'
      BY <1>e DEF GetFails
    <2> QED BY <1>e, <2>1, <2>2, <2>3, <2>4 DEF PhaseOK
  <1>10. ASSUME NEW rest \in SUBSET IoUs, QueuedComplete(rest) PROVE PhaseOK'
    <2>1. min_evts' = Less(min_evts, cur_depth) /\ min_evts \in Nat
      BY <1>10, <1>t DEF QueuedComplete, TypeOK
    <2>2. min_evts' <= cur_depth /\ (min_evts = cur_depth => min_evts' = cur_depth)
      BY <2>1, <1>n, SMTT(30) DEF Less
    <2>3. CASE pc' = "getevents"
      BY <1>10, <2>2, <2>3, <1>t DEF QueuedComplete, PhaseOK, depths, At, Held
    <2>4. CASE GetFails
      BY <1>10, <2>4, <1>e DEF QueuedComplete, depths
    <2> QED BY <1>10, <2>3, <2>4, SMTT(30) DEF QueuedComplete
  <1>23. CASE GetEventsFails
    BY <1>23, <1>e, SMTT(30) DEF GetEventsFails, depths
  <1>11. ASSUME NEW S \in SUBSET IoUs, GetEvents(S) PROVE PhaseOK'
    <2>1. Held = At("engine")
      BY <1>11, <1>t, HeldInEngine, ZenonT(30) DEF GetEvents, PhaseOK
    <2>2. S \in SUBSET At("engine")
      BY <1>11, FlagsPointwise, ZenonT(30) DEF GetEvents, Delivered, Engine, FlagsOf, At, IInv
    <2>3. ASSUME caller = "drain" PROVE S = At("engine")
      <3>1. At("engine") \in SUBSET IoUs
        BY SMTT(30) DEF At
      <3>2. Cardinality(S) >= Cardinality(At("engine"))
        BY <1>11, <2>1, <2>3, <1>t DEF GetEvents, Delivered, PhaseOK, DepthExact
      <3>3. Cardinality(S) = Cardinality(At("engine"))
        BY <3>1, <3>2, <2>2, Counts, FS_Subset, SMTT(30)
      <3> QED BY <3>1, <3>3, <2>2, Counts, FS_Subset
    <2>4. caller' = "drain" => At("engine")' = {}
      BY <1>11, <2>3, ZenonT(30) DEF GetEvents, At
    <2> QED BY <1>11, <2>4, <1>t, SMTT(30) DEF GetEvents, PhaseOK, TypeOK
  <1>12. ASSUME NEW u \in IoUs, pc = "events", loc[u] = "event", Release(u),
                NEW place \in {"freelist", "requeues"}, loc' = [loc EXCEPT ![u] = place],
                UNCHANGED <<io_u_queued, control>>
         PROVE  PhaseOK'
    <2>1. cur_depth # 0
      BY <1>12, <1>d DEF Held
    <2>2. At("engine") = {} => At("engine")' = {}
      BY <1>12, <1>t, SMTT(30) DEF At, TypeOK
    <2> QED BY <1>12, <2>1, <2>2, <1>t DEF PhaseOK, TypeOK, control
  <1>13. ASSUME NEW u \in IoUs, NEW failed \in BOOLEAN,
                IoCompleted(u, failed) \/ IoCompletedShort(u)
         PROVE  PhaseOK'
    BY <1>13, <1>12, ZenonT(30) DEF IoCompleted, IoCompletedShort, InEvents, put_io_u, requeue_io_u
  <1>14. CASE EventsDone
    <2>1. \A v \in IoUs : loc[v] \notin {"hand", "event"}
      BY <1>14, <1>t, SMTT(30) DEF EventsDone, PhaseOK, At
    <2>2. caller = "drain" => Held = {}
      BY <1>14, <2>1, <1>t, HeldInEngine DEF EventsDone, PhaseOK
    <2>3. caller \in {"wait", "waitnone"} => Next_pc[caller] \in {"think", "loop"}
      BY DEF Next_pc
    <2>4. loc' = loc /\ caller' = caller /\ cur_depth' = cur_depth /\ io_u_queued' = io_u_queued
          /\ min_evts' = min_evts
      BY <1>14, SMTT(30) DEF EventsDone, depths
    <2>5. CASE caller = "drain"
      <3>1. pc' = "done"
        BY <1>14, <2>5, AfterErrorTo, SMTT(30) DEF EventsDone
      <3> QED BY <3>1, <2>1, <2>2, <2>4, <2>5, <1>t, SMTT(30) DEF PhaseOK, Held
    <2>6. CASE caller = "quiesce"
      <3>1. pc' = "quiesce"
        BY <1>14, <2>6, AfterErrorTo, SMTT(30) DEF EventsDone
      <3>2. io_u_queued = 0 \/ cur_depth = 0
        BY <1>14, <2>6, <1>t DEF EventsDone, PhaseOK
      <3> QED BY <3>1, <3>2, <2>1, <2>4, <1>t, SMTT(30) DEF PhaseOK, TypeOK
    <2>7. CASE caller \in {"wait", "waitnone"}
      <3>1. pc' \in {"drain", "complete", "think", "loop"}
        BY <1>14, <2>3, <2>7, AfterErrorTo, SMTT(30) DEF EventsDone
      <3> QED BY <3>1, <2>1, <2>4, <2>7, PhaseLeave, SMTT(30)
    <2> QED BY <2>5, <2>6, <2>7, <1>14, <1>t, ZenonT(30) DEF EventsDone, PhaseOK, TypeOK
  <1>15. CASE Continue \/ RunAgain
    BY <1>15, <1>t, SMTT(30) DEF Continue, RunAgain, PhaseOK
  <1>16. ASSUME NEW rest \in SUBSET IoUs, Stall(rest) PROVE PhaseOK'
    <2>1. io_u_queued' = 0 \/ cur_depth' = 0
      BY <1>16, SMTT(30) DEF Stall, td_io_commit
    <2> QED BY <1>16, <2>1, <1>t, SMTT(30) DEF Stall, PhaseOK
  <1>17. CASE Quiesce
    BY <1>17, <1>t, SMTT(30) DEF Quiesce, PhaseOK, depths
  <1>18. CASE Drain
    <2>1. loc' = loc /\ cur_depth' = cur_depth
      BY <1>18 DEF Drain, depths
    <2>2. pc' = "done" => Held' = {}
      BY <1>18, <2>1, <1>d DEF Drain, Held
    <2> QED BY <1>18, <2>1, <2>2, <1>t DEF Drain, PhaseOK
  <1>19. CASE cleanup_io_u
    BY <1>19, <1>t, SMTT(30) DEF cleanup_io_u, PhaseOK, TypeOK
  <1>20. ASSUME NEW u \in IoUs, DeviceCompletes(u) PROVE PhaseOK'
    BY <1>20, <1>t, ZenonT(30) DEF DeviceCompletes, PhaseOK, Held, At, depths, control, errors, hook
  <1>21. CASE UNCHANGED vars
    BY <1>21, <1>t, ZenonT(30) DEF PhaseOK, Held, At, vars, depths, control, errors, hook
  <1> QED BY <1>1, <1>3, <1>4, <1>5, <1>6, <1>7, <1>8, <1>9, <1>10, <1>11, <1>13, <1>14,
             <1>15, <1>16, <1>17, <1>18, <1>19, <1>20, <1>21, <1>23 DEF Next, JobStep, Exited

-----------------------------------------------------------------------------
LEMMA InitIInv == Init => IInv
  <1> SUFFICES ASSUME Init PROVE IInv
    OBVIOUS
  <1>1. Held = {} /\ At("engine") = {} /\ At("requeues") = {}
    BY DEF Init, Held, At
  <1>2. Cardinality({}) = 0
    BY FS_EmptySet
  <1>u. UINT \in Nat \ {0}
    <2>1. Cardinality(IoUs) \in Nat
      BY IoUsAssumption, FS_CardinalityType
    <2> QED BY <2>1, UintAssumption DEF Iodepth
  <1>3. TypeOK
    <2>1. 0 \in 0..UINT - 1
      BY <1>u
    <2>2. requeues \in Seq(IoUs)
      BY DEF Init
    <2>3. ddir \in [IoUs -> Ddirs]
      BY DEF Init, Ddirs
    <2>4. /\ loc \in [IoUs -> {"freelist", "requeues", "hand", "engine", "event", "freed"}]
          /\ flags \in [IoUs -> SUBSET {"FREE", "FLIGHT", "IN_CUR_DEPTH"}]
          /\ engine \in [IoUs -> {"none", "queued", "submitted", "done"}]
      BY DEF Init
    <2>5. /\ io_issues \in Nat /\ finished \in Nat /\ shorts \in Nat /\ late \in Nat
          /\ min_evts \in Nat /\ gets \in Nat /\ loops \in Nat /\ faults \in Nat
      BY DEF Init
    <2>6. cur_depth = 0 /\ io_u_queued = 0 /\ io_u_in_flight = 0
      BY DEF Init
    <2>7. /\ error \in BOOLEAN /\ icd_error \in BOOLEAN /\ fatal \in BOOLEAN
          /\ full \in BOOLEAN /\ getFailed \in BOOLEAN
          /\ pc = "loop" /\ caller = "none"
      BY ZenonT(30) DEF Init
    <2> QED BY <2>1, <2>2, <2>3, <2>4, <2>5, <2>6, <2>7, Zenon DEF TypeOK
  <1>4. DepthExact
    BY <1>1, <1>2 DEF Init, DepthExact
  <1>8. SumExact
    <2>1. io_u_queued = 0 /\ io_u_in_flight = 0
      BY DEF Init
    <2>2. Plus(0, 0) = 0
      BY <1>u DEF Plus
    <2> QED BY <1>1, <1>2, <2>1, <2>2, Zenon DEF SumExact
  <1>5. FlagsAgree
    BY DEF Init, FlagsAgree, Held
  <1>6. RequeuesExact
    BY <1>1 DEF Init, RequeuesExact
  <1>7. PhaseOK
    BY DEF Init, PhaseOK
  <1> QED BY <1>3, <1>4, <1>5, <1>6, <1>7, <1>8 DEF IInv

LEMMA Inductive == ASSUME IInv, [Next]_vars PROVE IInv'
  BY TypeStep, DepthStep, SumStep, FlagsStep, RequeuesStep, PhaseStep DEF IInv

LEMMA Invariance == Spec => []IInv
  BY InitIInv, Inductive, PTL DEF Spec

\* TypeOK of IoU holds of every reachable state.
THEOREM TypeCorrect == Spec => []TypeOK
  BY Invariance, PTL DEF IInv

\* td->cur_depth is the number of io_us taken by __get_io_u and not yet put or
\* requeued, whatever td_io_queue and the device answer.
THEOREM DepthExactHolds == Spec => []DepthExact
  BY Invariance, PTL DEF IInv

\* io_u_queued + io_u_in_flight, as unsigned ints, is the number of io_us in
\* the engine although td_io_getevents submits behind td_io_commit.
THEOREM SumExactHolds == Spec => []SumExact
  BY Invariance, PTL DEF IInv

\* The assertions of __get_io_u, td_io_queue and io_completed on the flags of
\* an io_u cannot fail.
THEOREM FlagsAgreeHolds == Spec => []FlagsAgree
  BY Invariance, PTL DEF IInv

\* io_u_requeues holds no io_u twice, so io_u_rpush always has room.
THEOREM RequeuesExactHolds == Spec => []RequeuesExact
  BY Invariance, PTL DEF IInv

\* td_io_getevents never asks the engine for more events than it can deliver.
THEOREM WaitsForWhatCanComeHolds == Spec => []WaitsForWhatCanCome
  <1>1. IInv => WaitsForWhatCanCome
    BY HeldInEngine DEF IInv, PhaseOK, DepthExact, WaitsForWhatCanCome
  <1> QED BY <1>1, Invariance, PTL

\* do_io returns with nothing left in the engine, on its error path as well,
\* unless the td_io_getevents of its drain failed; td->error is set then.
THEOREM DrainsAllHolds == Spec => []DrainsAll
  <1>1. IInv => DrainsAll
    BY DEF IInv, PhaseOK, DrainsAll
  <1> QED BY <1>1, Invariance, PTL

\* When io_u_quiesce returns, nothing is in the engine.
THEOREM QuiesceDrainsHolds == Spec => QuiesceDrains
  <1>1. ASSUME IInv, [Next]_vars
        PROVE  [pc = "quiesce" /\ pc' = "loop" => Held = {}]_vars
    <2> SUFFICES ASSUME pc = "quiesce", pc' = "loop", Next PROVE Held = {}
      BY <1>1
    <2>1. Quiesce
      <3>1. \A u \in IoUs : ~Take(u) /\ ~InHand(u) /\ ~InEvents(u) /\ ~GiveBack(u)
        BY DEF Take, InHand, InEvents, GiveBack
      <3>2. ~LoopEnds /\ ~EventsDone /\ ~Continue /\ ~Drain /\ ~RunAgain /\ ~cleanup_io_u
        BY SMTT(30) DEF LoopEnds, EventsDone, Continue, Drain, RunAgain, cleanup_io_u
      <3>3. /\ ~GetEventsFails /\ \A S \in SUBSET IoUs : ~GetEvents(S)
            /\ \A rest \in SUBSET IoUs : ~QueuedComplete(rest) /\ ~Stall(rest)
        BY DEF GetEventsFails, GetEvents, QueuedComplete, Stall
      <3>4. ~GetRequeued /\ \A u \in IoUs, d \in Ddirs : ~GetFree(u, d)
        <4>1. GetRequeued => pc = "loop"
          BY DEF GetRequeued, Take
        <4>2. \A u \in IoUs, d \in Ddirs : GetFree(u, d) => pc = "loop"
          BY DEF GetFree, Take
        <4> QED BY <4>1, <4>2
      <3>5. /\ \A u \in IoUs, rest \in SUBSET IoUs : ~Queued(u, rest) /\ ~Busy(u, rest)
            /\ \A u \in IoUs, failed \in BOOLEAN : ~Completed(u, failed) /\ ~IoCompleted(u, failed)
            /\ \A u \in IoUs : ~CompletedShort(u) /\ ~IoCompletedShort(u)
        BY <3>1, Zenon DEF Queued, Busy, Completed, IoCompleted, CompletedShort, IoCompletedShort
      <3>6. ~Exited /\ \A u \in IoUs : ~DeviceCompletes(u)
        BY DEF Exited, DeviceCompletes, vars, control
      <3> QED BY <3>1, <3>2, <3>3, <3>4, <3>5, <3>6, ZenonT(30) DEF Next, JobStep
    <2>2. io_u_in_flight = 0
      BY <2>1 DEF Quiesce
    <2>3. CASE cur_depth = 0
      <3>1. Held \in SUBSET IoUs
        BY DEF Held
      <3> QED BY <1>1, <2>3, <3>1, Counts DEF IInv, DepthExact
    <2>4. CASE io_u_queued = 0
      <3>1. At("engine") \in SUBSET IoUs
        BY DEF At
      <3>2. Plus(io_u_queued, io_u_in_flight) = 0
        BY <2>2, <2>4, UintAssumption, <3>1, Counts, SMTT(30) DEF Plus
      <3>3. At("engine") = {}
        BY <1>1, <3>1, <3>2, Counts DEF IInv, SumExact
      <3> QED BY <1>1, <3>3, HeldInEngine DEF IInv, PhaseOK
    <2> QED BY <1>1, <2>3, <2>4 DEF IInv, PhaseOK
  <1> QED BY <1>1, Invariance, PTL DEF Spec, QuiesceDrains
=============================================================================
