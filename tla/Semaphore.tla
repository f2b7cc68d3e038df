----------------------------- MODULE Semaphore -----------------------------
(***************************************************************************)
(* The semaphore of src/kernel/semaphore.c, used by the tasks of the       *)
(* scheduler.                                                              *)
(*                                                                         *)
(* semaphore_take() waits by usleep(): on this kernel nothing else runs    *)
(* meanwhile, and the sleeper then fails without another look at the       *)
(* count.  A task may call scheduler_yield() while it holds a unit, so     *)
(* that other tasks, and a second instance of its own, find the semaphore  *)
(* taken by a frame below them that cannot go on before they return.       *)
(* The tasks modelled give back what they took, and nothing else, before   *)
(* they return.                                                            *)
(***************************************************************************)
EXTENDS Scheduler, FiniteSets

CONSTANTS
    InitialCounts,  \* arguments of semaphore_init()
    MaxCounts

ASSUME SemaphoreAssumption == InitialCounts \subseteq Uint /\ MaxCounts \subseteq Uint

VARIABLES
    sem,       \* the semaphore_t
    initial,   \* history: the initial_count passed to semaphore_init()
    refused,   \* history: units that semaphore_give() did not take back
    held,      \* the frames, by depth, whose task holds a unit
    sleeping   \* the innermost task is in the usleep() of semaphore_take()

semVars == <<sem, initial, refused, held, sleeping>>

\* semaphore_init(), which compares its two arguments with nothing.
SemaphoreInit ==
    /\ initial \in InitialCounts
    /\ \E max \in MaxCounts : sem = [count |-> initial, max_count |-> max]
    /\ refused = 0
    /\ held = {}
    /\ sleeping = FALSE

\* The innermost task is about to make its next call.
Awake == InBody /\ ~sleeping

Available(s) == s.count > 0

\* semaphore_take() that succeeds; no instance of a task takes a second unit.
Take ==
    /\ Awake /\ Available(sem) /\ Len(stack) \notin held
    /\ sem' = [sem EXCEPT !.count = @ - 1]
    /\ held' = held \union {Len(stack)}
    /\ UNCHANGED <<vars, initial, refused, sleeping>>

\* semaphore_take() with a timeout, which finds nothing and sleeps; without one it
\* fails at once and nothing changes.
TakeSleeps ==
    /\ Awake /\ ~Available(sem)
    /\ sleeping' = TRUE
    /\ UNCHANGED <<vars, sem, initial, refused, held>>

\* Mutant: the count goes down although the semaphore was not taken.
TakeFails_CountsDown ==
    /\ sleeping
    /\ sleeping' = FALSE
    /\ sem' = [sem EXCEPT !.count = Elapsed(@, 1)]
    /\ UNCHANGED <<vars, initial, refused, held>>

\* Mutant: the sleeper looks at the count again, until there is a unit.
TakeFails_Retries ==
    /\ sleeping
    /\ sleeping' = ~(sem.count > 0)
    /\ UNCHANGED <<vars, sem, initial, refused, held>>

\* The end of the timeout: semaphore_take() fails.
TakeFails ==
    /\ sleeping
    /\ sleeping' = FALSE
    /\ UNCHANGED <<vars, sem, initial, refused, held>>

\* Mutant: the count stops one below the maximum.
Room_OffByOne(s) == s.count + 1 < s.max_count

Room(s) == s.count < s.max_count

\* semaphore_give() of a unit that the task took.
Give ==
    /\ Awake /\ Len(stack) \in held
    /\ held' = held \ {Len(stack)}
    /\ \/ /\ Room(sem)
          /\ sem' = [sem EXCEPT !.count = @ + 1]
          /\ UNCHANGED refused
       \/ /\ ~Room(sem)
          /\ refused' = refused + 1
          /\ UNCHANGED sem
    /\ UNCHANGED <<vars, initial, sleeping>>

\* The end of a task that has given everything back.
Return == Awake /\ Len(stack) \notin held /\ TaskReturn /\ UNCHANGED semVars

\* The calls of the scheduler.
SchedulerCall ==
    /\ ~sleeping
    /\ \/ \E priority \in Priorities, period \in Periods : AddTask(priority, period)
       \/ Tick
       \/ Yield
    /\ UNCHANGED semVars

SemNext == SchedulerCall \/ Return \/ Take \/ TakeSleeps \/ TakeFails \/ Give

allVars == <<vars, semVars>>

InstanceOf(d) == Len(stack) = d

\* The main loop goes on, task functions return, and so does usleep().  Where the
\* semaphore has units, every single instance comes to give back what it took and to
\* return: none retries or yields for ever.  Without units it is enough that the
\* innermost instance, whichever it is, returns again and again.
SemFairness ==
    /\ WF_allVars(Tick /\ UNCHANGED semVars)
    /\ SF_allVars(Return)
    /\ WF_allVars(TakeFails)
    /\ \A d \in 1 .. MaxDepth :
          /\ SF_allVars(initial > 0 /\ InstanceOf(d) /\ Return)
          /\ SF_allVars(InstanceOf(d) /\ Give)

SemSpec == Init /\ SemaphoreInit /\ [][SemNext]_allVars /\ SemFairness
-----------------------------------------------------------------------------
\* Nested ticks, re-entered tasks and failed calls neither make nor destroy a unit: each
\* is in the count, held by one unfinished instance, or was refused.  A semaphore of one
\* unit therefore excludes all other tasks while its holder yields.
UnitsAccountedFor ==
    /\ held \subseteq 1 .. Len(stack)
    /\ sem.count + Cardinality(held) + refused = initial

\* A unit that was taken can be given back: semaphore_give() refuses no more than the
\* units beyond max_count that semaphore_init() accepted.
OnlyExcessIsRefused ==
    refused <= IF initial > sem.max_count THEN initial - sem.max_count ELSE 0

\* A semaphore that is taken becomes free again, although tasks below hold it while those
\* above try to take it and fail.
UnitComesBack == initial > 0 /\ sem.max_count > 0 => (sem.count = 0 ~> sem.count > 0)
=============================================================================
