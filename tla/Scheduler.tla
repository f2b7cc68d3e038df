----------------------------- MODULE Scheduler -----------------------------
(***************************************************************************)
(* The cooperative scheduler of src/kernel/scheduler.c.                    *)
(*                                                                         *)
(* One thread runs everything.  scheduler_tick() advances the clock,       *)
(* releases tasks and CALLS the chosen task's function, so the program     *)
(* state between two API calls includes the C call stack: a task body may  *)
(* call scheduler_yield() (a nested scheduler_tick()), scheduler_delay()   *)
(* or scheduler_add_task() before it returns.  "stack" holds one frame per *)
(* scheduler_tick() that is waiting for its task_func to return.           *)
(***************************************************************************)
EXTENDS Naturals, Sequences

CONSTANTS
    MAX_TASKS,    \* capacity of scheduler.tasks
    UINT,         \* number of values of a uint32_t counter (2^32 in the code)
    Priorities,   \* priorities a caller may pass
    Periods,      \* periods a caller may pass, in ticks
    Delays,       \* arguments of scheduler_delay()
    MaxDepth      \* bound on the nesting of scheduler_tick() calls

ASSUME SchedulerAssumption ==
    /\ MAX_TASKS \in Nat \ {0}
    /\ UINT \in Nat \ {0, 1}
    /\ MaxDepth \in Nat \ {0}
    /\ Priorities \subseteq 0 .. UINT - 1
    /\ Periods \subseteq 0 .. UINT - 1
    /\ Delays \subseteq 0 .. UINT - 1

VARIABLES
    tasks,        \* scheduler.tasks[0 .. task_count - 1], in order of creation
    tick_count,   \* scheduler.tick_count
    idle_time,    \* scheduler.idle_time
    running,      \* scheduler.running
    sys_time_ms,  \* the static clock; only scheduler_tick() advances it
    stack         \* the scheduler_tick() frames whose task has not returned

vars == <<tasks, tick_count, idle_time, running, sys_time_ms, stack>>

Uint == 0 .. UINT - 1

\* task_t without function pointer, argument and name.  BLOCKED and SUSPENDED
\* belong to task_state_t, but no code assigns them.
Task == [priority : Uint, period_ms : Uint, deadline_ms : Uint,
         last_run : Uint, state : {"READY", "RUNNING", "BLOCKED", "SUSPENDED"},
         run_count : Uint, missed_deadlines : Uint]

\* A frame: the task whose function is executing, whether it is in its body or
\* in the wait loop of scheduler_delay(), and that loop's end_time.  "age" is a
\* history field the code does not have: the number of ticks since the frame's
\* dispatch, saturating at UINT - 1.
Frame == [task : 1 .. MAX_TASKS, pc : {"body", "delay"}, end_time : Uint, age : Uint]

-----------------------------------------------------------------------------
(* uint32_t arithmetic.                                                    *)

Inc(x) == IF x = UINT - 1 THEN 0 ELSE x + 1

Plus(x, y) == IF x + y >= UINT THEN x + y - UINT ELSE x + y

\* Mutant: the difference taken as a magnitude, forgetting the wrap.
Elapsed_NoWrap(now, since) == IF now >= since THEN now - since ELSE since - now

Elapsed(now, since) == IF now >= since THEN now - since ELSE now + UINT - since

Older(age) == IF age = UINT - 1 THEN age ELSE age + 1

-----------------------------------------------------------------------------
Top == stack[Len(stack)]

\* The innermost task is executing its own code (not waiting in a delay).
InBody == stack # <<>> /\ Top.pc = "body"

\* main(), or a test, is between two calls of the scheduler.
AtTopLevel == stack = <<>>

Init ==
    /\ tasks = <<>>
    /\ tick_count = 0
    /\ idle_time = 0
    /\ running = FALSE
    /\ sys_time_ms = 0
    /\ stack = <<>>

\* scheduler_init() called again, as every test of the suite does.
SchedulerInit ==
    /\ AtTopLevel /\ ~running
    /\ tasks' = <<>>
    /\ tick_count' = 0
    /\ idle_time' = 0
    /\ running' = FALSE
    /\ sys_time_ms' = 0
    /\ UNCHANGED stack

NewTask(priority, period) ==
    [priority |-> priority, period_ms |-> period, deadline_ms |-> period,
     last_run |-> 0, state |-> "READY", run_count |-> 0, missed_deadlines |-> 0]

\* Mutant: no check of MAX_TASKS.
AddTask_NoCapacityCheck(priority, period) ==
    /\ (AtTopLevel /\ ~running) \/ InBody
    /\ Len(tasks) <= MAX_TASKS
    /\ tasks' = Append(tasks, NewTask(priority, period))
    /\ UNCHANGED <<tick_count, idle_time, running, sys_time_ms, stack>>

\* scheduler_add_task(), from main() before the loop or from a task body.  A
\* full table and a failed malloc() return false and change nothing.
AddTask(priority, period) ==
    /\ (AtTopLevel /\ ~running) \/ InBody
    /\ Len(tasks) < MAX_TASKS
    /\ tasks' = Append(tasks, NewTask(priority, period))
    /\ UNCHANGED <<tick_count, idle_time, running, sys_time_ms, stack>>

\* Mutant: a task without period is treated like a periodic one.
Released_NoPeriodCheck(task, now) ==
    IF Elapsed(now, task.last_run) >= task.period_ms
    THEN [task EXCEPT !.state = "READY"]
    ELSE task

\* Mutant: the clock is compared before it advances.
Released_Early(task, now) ==
    IF task.period_ms > 0 /\ Elapsed(now, task.last_run) + 1 >= task.period_ms
    THEN [task EXCEPT !.state = "READY"]
    ELSE task

\* The release loop of scheduler_tick(): whatever its state, a periodic task
\* whose period has elapsed since its last dispatch becomes READY.
Released(task, now) ==
    IF task.period_ms > 0 /\ Elapsed(now, task.last_run) >= task.period_ms
    THEN [task EXCEPT !.state = "READY"]
    ELSE task

\* find_highest_priority_task(): the lowest priority number; the comparison is
\* strict, so the task created first wins a tie.
IsHighest(ts, i) ==
    /\ ts[i].state = "READY"
    /\ \A j \in DOMAIN ts : ts[j].state = "READY" =>
          \/ ts[i].priority < ts[j].priority
          \/ ts[i].priority = ts[j].priority /\ i <= j

\* Mutant: a late dispatch is not counted as a run.
Dispatched_LateNotCounted(task, now) ==
    [task EXCEPT !.state = "RUNNING", !.last_run = now,
                 !.run_count = IF Elapsed(now, task.last_run) > task.deadline_ms THEN @ ELSE Inc(@)]

Dispatched(task, now) ==
    [task EXCEPT !.state = "RUNNING", !.last_run = now, !.run_count = Inc(@)]

Aged(frames) == [d \in DOMAIN frames |-> [frames[d] EXCEPT !.age = Older(@)]]

\* scheduler_tick() up to the call of task_func, or to its end on an idle tick.
TickBody ==
    LET now == Inc(sys_time_ms)
        released == [i \in DOMAIN tasks |-> Released(tasks[i], now)]
    IN  /\ tick_count' = Inc(tick_count)
        /\ sys_time_ms' = now
        /\ UNCHANGED running
        /\ \/ \E i \in DOMAIN tasks :
                /\ IsHighest(released, i)
                /\ Len(stack) < MaxDepth
                /\ tasks' = [released EXCEPT ![i] = Dispatched(@, now)]
                /\ stack' = Append(Aged(stack), [task |-> i, pc |-> "body",
                                                 end_time |-> 0, age |-> 0])
                /\ UNCHANGED idle_time
           \/ /\ \A i \in DOMAIN tasks : released[i].state # "READY"
              /\ tasks' = released
              /\ stack' = Aged(stack)
              /\ idle_time' = Inc(idle_time)

\* The loop of main(), of scheduler_start() or of a test.
Tick == AtTopLevel /\ TickBody

\* scheduler_yield() from the body of a task.
Yield == InBody /\ TickBody

\* Mutant: a finished task waits for the release loop, which skips period 0.
Finished_WaitsForRelease(task) ==
    LET missed == Elapsed(sys_time_ms, task.last_run) > task.deadline_ms /\ task.deadline_ms > 0
    IN  [task EXCEPT !.state = "BLOCKED",
                     !.missed_deadlines = IF missed THEN Inc(@) ELSE @]

\* The end of task_func and the rest of the scheduler_tick() that called it.
Finished(task) ==
    LET exec_time == Elapsed(sys_time_ms, task.last_run)
        missed == exec_time > task.deadline_ms /\ task.deadline_ms > 0
    IN  [task EXCEPT !.state = "READY",
                     !.missed_deadlines = IF missed THEN Inc(@) ELSE @]

TaskReturn ==
    /\ InBody
    /\ tasks' = [tasks EXCEPT ![Top.task] = Finished(@)]
    /\ stack' = SubSeq(stack, 1, Len(stack) - 1)
    /\ UNCHANGED <<tick_count, idle_time, running, sys_time_ms>>

\* scheduler_delay() computes end_time once ...
Delay(ms) ==
    /\ InBody
    /\ stack' = [stack EXCEPT ![Len(stack)].pc = "delay",
                              ![Len(stack)].end_time = Plus(sys_time_ms, ms)]
    /\ UNCHANGED <<tasks, tick_count, idle_time, running, sys_time_ms>>

\* ... and leaves its loop only when the clock has reached it.
DelayReturn ==
    /\ stack # <<>> /\ Top.pc = "delay"
    /\ ~(sys_time_ms < Top.end_time)
    /\ stack' = [stack EXCEPT ![Len(stack)].pc = "body",
                              ![Len(stack)].end_time = 0]
    /\ UNCHANGED <<tasks, tick_count, idle_time, running, sys_time_ms>>

\* scheduler_start(): from here on its loop is the only top-level caller, and
\* nothing ever clears "running".
Start ==
    /\ AtTopLevel /\ ~running
    /\ running' = TRUE
    /\ UNCHANGED <<tasks, tick_count, idle_time, sys_time_ms, stack>>

Next ==
    \/ SchedulerInit
    \/ \E priority \in Priorities, period \in Periods : AddTask(priority, period)
    \/ Tick
    \/ Yield
    \/ TaskReturn
    \/ \E ms \in Delays : Delay(ms)
    \/ DelayReturn
    \/ Start

Spec == Init /\ [][Next]_vars

\* The loops around scheduler_tick() never pause for good, and task functions
\* return: both are what the caller of the scheduler provides.  (A function that
\* waits in scheduler_delay() need not return: no run combines the two.)
Fairness == WF_vars(Tick) /\ WF_vars(TaskReturn)

FairSpec == Spec /\ Fairness

-----------------------------------------------------------------------------
\* Every table entry and frame is well formed, no frame refers to a missing task.
TypeOK ==
    /\ tasks \in Seq(Task) /\ Len(tasks) <= MAX_TASKS
    /\ tick_count \in Uint
    /\ idle_time \in Uint
    /\ running \in BOOLEAN
    /\ sys_time_ms \in Uint
    /\ stack \in Seq(Frame) /\ Len(stack) <= MaxDepth
    /\ \A d \in DOMAIN stack : stack[d].task \in DOMAIN tasks

OnStack(i) == \E d \in DOMAIN stack : stack[d].task = i

\* No task is lost: a task none of whose instances is executing is READY, so a
\* later tick can dispatch it.  Only the end of scheduler_tick() makes a task
\* without a period READY again, so one path that missed it would drop the task.
NoTaskLost ==
    \A i \in DOMAIN tasks : ~OnStack(i) => tasks[i].state = "READY"

\* scheduler_yield() can dispatch a task that has not returned: the release
\* loop does not look at RUNNING.  It does so only for a periodic task and only
\* when a whole period has passed since EVERY unfinished instance was dispatched.
ReentryNeedsPeriod ==
    \A d, e \in DOMAIN stack :
        d < e /\ stack[d].task = stack[e].task =>
            LET period == tasks[stack[d].task].period_ms
            IN  /\ period > 0
                /\ \/ stack[d].age = UINT - 1
                   \/ stack[d].age >= stack[e].age + period

\* scheduler_tick() computes the execution time from last_run, which a re-entry
\* overwrites, and the clock wraps.  Even so, no miss is ever counted for an
\* instance that ran no longer than its deadline.
MissIsReal ==
    [][\A i \in DOMAIN tasks \intersect DOMAIN tasks' :
          tasks'[i].missed_deadlines # tasks[i].missed_deadlines
              => InBody /\ Top.task = i /\ Top.age > tasks[i].deadline_ms]_vars

\* What makes the three properties above inductive.  Measured by last_run, an
\* unfinished instance has never run longer than it really has ...
AgeBoundsElapsed ==
    \A d \in DOMAIN stack :
        Elapsed(sys_time_ms, tasks[stack[d].task].last_run) <= stack[d].age

\* ... and an unfinished task is offered for dispatch only after its period.
UnfinishedReady ==
    \A d \in DOMAIN stack :
        tasks[stack[d].task].state # "RUNNING" =>
            /\ tasks[stack[d].task].period_ms > 0
            /\ stack[d].age >= tasks[stack[d].task].period_ms

\* The inductive invariant of SchedulerProofs.
SchedulerInv ==
    TypeOK /\ NoTaskLost /\ ReentryNeedsPeriod /\ AgeBoundsElapsed /\ UnfinishedReady

\* Sum of the run counts of a table, modulo UINT.
TotalRuns(ts) ==
    LET total[i \in 0 .. Len(ts)] ==
          IF i = 0 THEN 0 ELSE Plus(total[i - 1], ts[i].run_count)
    IN  total[Len(ts)]

\* Each tick is either idle or starts exactly one instance, nested ticks
\* included; scheduler_get_cpu_usage() divides by this total.
TickAccounting == Plus(idle_time, TotalRuns(tasks)) = tick_count

\* The task that find_highest_priority_task() prefers whenever it is READY.
IsFirstChoice(i) ==
    /\ i \in DOMAIN tasks
    /\ \A j \in DOMAIN tasks :
          \/ tasks[i].priority < tasks[j].priority
          \/ tasks[i].priority = tasks[j].priority /\ i <= j

\* As long as task functions return, the first choice executes again and again,
\* whatever the other tasks yield and whenever tasks are added.
FirstChoiceKeepsRunning ==
    \A i \in 1 .. MAX_TASKS : []<>(IsFirstChoice(i) => OnStack(i))

-----------------------------------------------------------------------------
(* What the documentation and the tests say, and the code does not do.     *)

\* tests/test_runner.c: two tasks, and "Both tasks should have run" after 100 ticks.
BothTasksRan ==
    Len(tasks) = 2 /\ tick_count = 100 /\ AtTopLevel =>
        tasks[1].run_count > 0 /\ tasks[2].run_count > 0
=============================================================================
