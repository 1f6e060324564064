------------------------------ MODULE WorkPool ------------------------------
(***************************************************************************)
(* What the job thread relies on when it uses a work queue (workqueue.c):  *)
(* an item it hands over is finished exactly once, by somebody, in any     *)
(* order; a flush returns only when nothing it handed over is unfinished,  *)
(* and does return; the queue is torn down only when it is empty.          *)
(***************************************************************************)
EXTENDS FiniteSets

CONSTANT Items

VARIABLES pending, caller
vars == <<pending, caller>>

Init == pending = {} /\ caller = "open"

Submit(u) == caller = "open" /\ u \notin pending /\ pending' = pending \cup {u} /\ caller' = caller
Finish(u) == u \in pending /\ pending' = pending \ {u} /\ caller' = caller
Flush     == caller = "open" /\ caller' = "flushing" /\ pending' = pending
Flushed   == caller = "flushing" /\ pending = {} /\ caller' = "open" /\ pending' = pending
Close     == caller = "open" /\ pending = {} /\ caller' = "closed" /\ pending' = pending

Next == Flush \/ Flushed \/ Close \/ \E u \in Items : Submit(u) \/ Finish(u)

Spec == Init /\ [][Next]_vars
             /\ WF_vars(Flushed)
             /\ \A u \in Items : WF_vars(Finish(u))
=============================================================================
