---------------------------- MODULE MCJobControl ----------------------------
(* JobControl on job files of three jobs, one per way of using it.         *)
EXTENDS JobControl

\* Three processes in one group, nothing goes wrong.
Plain ==
    [group |-> [j \in Jobs |-> 0], stonewall |-> {}, delayed |-> {},
     wait_for |-> [j \in Jobs |-> {}], threads |-> {}, ramp |-> {}, cpuio |-> {},
     endless |-> {}, exitall |-> FALSE, exit_what |-> "group", faults |-> {}]

SecondWaits == [Plain.wait_for EXCEPT ![2] = {1}]
LastGroup == [Plain.group EXCEPT ![3] = 1]

\* The order of the job file, with jobs that fail or are killed.
Ordered == [Plain EXCEPT !.wait_for = SecondWaits, !.stonewall = {3},
                         !.faults = {"layout", "setup", "killed"}]
\* Start delays, threads beside processes, and a stonewall that waits for a job
\* whose delay has not passed.
Late == [Plain EXCEPT !.wait_for = [SecondWaits EXCEPT ![3] = {1}], !.stonewall = {3},
                      !.delayed = {1, 2}, !.threads = {2}]
\* SIGINT at any moment, exitall and an endless job.
Interrupted == [Plain EXCEPT !.stonewall = {3}, !.threads = {2}, !.cpuio = {1}, !.endless = {1},
                             !.exitall = TRUE, !.exit_what = "all", !.faults = {"interrupt"}]
\* exitall takes down a job that waits, beside a delayed job of another group.
Regrouped == [Plain EXCEPT !.group = LastGroup, !.wait_for = SecondWaits, !.delayed = {3},
                           !.exitall = TRUE]
\* Processes and a thread that hang in their I/O for good.
Stuck == [Plain EXCEPT !.stonewall = {3}, !.threads = {2}, !.faults = {"interrupt", "stuck"}]
\* A process that hangs and goes on after it was reaped by force.
Slow == [Plain EXCEPT !.wait_for = SecondWaits, !.threads = {3},
                      !.faults = {"interrupt", "stuck", "slow"}]
\* exitall up to the stonewall, with a job in its ramp time.
UpToStonewall == [Plain EXCEPT !.group = LastGroup, !.stonewall = {3}, !.ramp = {2}, !.threads = {1},
                               !.exitall = TRUE, !.exit_what = "stonewall"]
\* An endless cpuio thread beside others.
Burning == [Plain EXCEPT !.threads = Jobs, !.delayed = {3}, !.cpuio = {1}, !.endless = {1}]
\* A cpuio thread that ends before the others.
Burnt == [Burning EXCEPT !.endless = {}]
\* An endless cpuio process.
BurningProcess == [Plain EXCEPT !.threads = {2}, !.cpuio = {1}, !.endless = {1}]
\* Jobs that cannot be created, hang or fail before they are initialized, in the
\* first pass or, with a start delay, when others run already.
Failing == [Plain EXCEPT !.threads = {2, 3}, !.faults = {"create", "hang", "early"}]
FailingLate == [Failing EXCEPT !.threads = {2}, !.delayed = {2, 3}]

AllFiles == {Ordered, Late, Interrupted, Regrouped, Stuck, Slow, UpToStonewall,
             Burning, Burnt, BurningProcess, Failing, FailingLate}

\* SIGINT while a job waits for another.
FencedInterrupted == {[Plain EXCEPT !.wait_for = SecondWaits, !.faults = {"interrupt"}]}
=============================================================================
