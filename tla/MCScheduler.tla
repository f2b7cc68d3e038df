---------------------------- MODULE MCScheduler ----------------------------
(* Instances of Scheduler for TLC.                                          *)
EXTENDS Scheduler

\* The calls of test_scheduler_basic in tests/test_runner.c: two tasks are
\* added, then scheduler_tick() is called in a loop and the task functions
\* return at once.
TestInit ==
    /\ tasks = <<NewTask(1, 10), NewTask(2, 20)>>
    /\ tick_count = 0
    /\ idle_time = 0
    /\ running = FALSE
    /\ sys_time_ms = 0
    /\ stack = <<>>

TestSpec == TestInit /\ [][Tick \/ TaskReturn]_vars
=============================================================================
