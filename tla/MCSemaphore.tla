---------------------------- MODULE MCSemaphore ----------------------------
(* The instance of Semaphore for TLC: one without units, whose tasks can    *)
(* only fail to take it, one with one unit, and one that is initialised     *)
(* with more units than its maximum.  Where it has units, both tasks are    *)
(* added before the first tick, as main() does.                             *)
EXTENDS Semaphore

MCInit ==
    /\ Init /\ SemaphoreInit
    /\ <<initial, sem.max_count>> \in {<<0, 0>>, <<1, 1>>, <<2, 1>>}

MCNext ==
    /\ SemNext
    /\ initial > 0 =>
          IF Len(tasks') > Len(tasks) THEN stack = <<>> ELSE Len(tasks) = MAX_TASKS

MCSpec == MCInit /\ [][MCNext]_allVars /\ SemFairness
=============================================================================
