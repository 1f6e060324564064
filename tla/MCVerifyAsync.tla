--------------------------- MODULE MCVerifyAsync ---------------------------
EXTENDS VerifyAsync

Job(async, fatal, continue, reads, faults) ==
  [async |-> async, verify_fatal |-> fatal, continue_on_error |-> continue,
   reads |-> reads, faults |-> faults]

\* Tolerated errors with creation that may fail; an end by runtime; errors that
\* terminate the job; errors that do not; threads that cannot bind themselves;
\* an engine that may be busy.
MCJobs ==
  {Job(FALSE, FALSE, TRUE, 4, {"bad", "create"}), Job(TRUE, FALSE, FALSE, 4, {"runtime"}),
   Job(TRUE, TRUE, FALSE, 3, {"bad"}), Job(FALSE, FALSE, FALSE, 6, {"bad"}),
   Job(TRUE, FALSE, FALSE, 2, {"affinity"}), Job(TRUE, FALSE, FALSE, 4, {"bad", "busy"})}
MCFatal == {Job(FALSE, FALSE, FALSE, 2, {"bad"})}
=============================================================================
