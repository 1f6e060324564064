----------------------------- MODULE MCOffload -----------------------------
EXTENDS Offload

CONSTANTS b1, b2
Job(async, serialize, region, ios, rounds, faults) ==
  [async |-> async, serialize_overlap |-> serialize, region |-> region,
   number_ios |-> ios, loops |-> rounds, ramp |-> FALSE, faults |-> faults]
Ramped(job) == [job EXCEPT !.ramp = TRUE]

MCFailing == {Job(TRUE, FALSE, {b1}, 2, 1, {"error"})}
MCJobs == MCFailing \cup
  {Job(FALSE, FALSE, {b1}, 3, 1, {"create", "init", "error"}), Job(TRUE, FALSE, {b1}, 3, 1, {"late"}),
   Job(TRUE, TRUE, {b1, b2}, 3, 1, {}), Job(FALSE, FALSE, {b1}, 2, 2, {"short"}),
   Job(FALSE, FALSE, {b1}, 2, 1, {"busy"}), Ramped(Job(FALSE, TRUE, {b1}, 2, 1, {}))}
\* An engine that may be busy under serialize_overlap.
MCBusy == {Job(FALSE, TRUE, {b1}, 2, 1, {"busy"})}
=============================================================================
