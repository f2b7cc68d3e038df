-------------------------- MODULE SchedulerProofs --------------------------
(* Theorems about Scheduler, and about Semaphore on top of it, for every    *)
(* capacity, word size, set of priorities, periods, delays and counts, and  *)
(* every nesting bound.                                                     *)
EXTENDS Semaphore, LibraryLemmas, FiniteSetTheorems

-----------------------------------------------------------------------------
(* uint32_t arithmetic stays in range.                                      *)

\* The arithmetic of the scheduler stays inside uint32_t.
LEMMA UintClosed ==
    ASSUME NEW x \in Uint, NEW y \in Uint
    PROVE  /\ 0 \in Uint
           /\ Inc(x) \in Uint
           /\ Older(x) \in Uint
           /\ Plus(x, y) \in Uint
           /\ Elapsed(x, y) \in Uint
  BY SchedulerAssumption DEF Uint, Inc, Older, Plus, Elapsed

\* One more tick never widens a distance by more than one.
LEMMA ElapsedGrows ==
    ASSUME NEW now \in Uint, NEW since \in Uint, NEW age \in Uint,
           Elapsed(now, since) <= age
    PROVE  Elapsed(Inc(now), since) <= Older(age)
  BY SchedulerAssumption DEF Uint, Inc, Older, Elapsed

\* Types of the state that Init and scheduler_init() set up.
LEMMA ZeroState ==
    /\ 0 \in Uint /\ 0 <= MAX_TASKS /\ 0 <= MaxDepth
    /\ <<>> \in Seq(Task) /\ <<>> \in Seq(Frame)
    /\ Len(<<>>) = 0 /\ DOMAIN <<>> = {}
<1>1. 0 \in Uint /\ 0 <= MAX_TASKS /\ 0 <= MaxDepth
  BY SchedulerAssumption DEF Uint
<1>2. <<>> \in Seq(Task) /\ <<>> \in Seq(Frame) /\ Len(<<>>) = 0
  BY EmptySeq
<1>3. DOMAIN <<>> = {}
  OBVIOUS
<1> QED
  BY <1>1, <1>2, <1>3

\* No time has passed since now.
LEMMA ElapsedZero ==
    ASSUME NEW now \in Uint
    PROVE  Elapsed(now, now) = 0
  BY SchedulerAssumption DEF Uint, Elapsed

-----------------------------------------------------------------------------
(* What the helpers of the scheduler keep of a task.                        *)

\* A release changes nothing but the state of a task.
LEMMA ReleasedEffect ==
    ASSUME NEW t \in Task, NEW now \in Uint
    PROVE  /\ Released(t, now) \in Task
           /\ Released(t, now).period_ms = t.period_ms
           /\ Released(t, now).deadline_ms = t.deadline_ms
           /\ Released(t, now).last_run = t.last_run
           /\ Released(t, now).missed_deadlines = t.missed_deadlines
           /\ t.state = "READY" => Released(t, now).state = "READY"
           /\ \/ Released(t, now).state = t.state
              \/ t.period_ms > 0 /\ Elapsed(now, t.last_run) >= t.period_ms
  BY DEF Released, Task

\* A dispatch makes a task RUNNING, from the present time on.
LEMMA DispatchedEffect ==
    ASSUME NEW t \in Task, NEW now \in Uint
    PROVE  /\ Dispatched(t, now) \in Task
           /\ Dispatched(t, now).period_ms = t.period_ms
           /\ Dispatched(t, now).missed_deadlines = t.missed_deadlines
           /\ Dispatched(t, now).last_run = now
           /\ Dispatched(t, now).state = "RUNNING"
<1>1. Inc(t.run_count) \in Uint
  BY UintClosed DEF Task
<1> QED
  BY <1>1 DEF Dispatched, Task

\* A return makes the task READY and keeps what the invariants read.
LEMMA FinishedEffect ==
    ASSUME NEW t \in Task, sys_time_ms \in Uint
    PROVE  /\ Finished(t) \in Task
           /\ Finished(t).period_ms = t.period_ms
           /\ Finished(t).last_run = t.last_run
           /\ Finished(t).state = "READY"
           /\ Finished(t).missed_deadlines # t.missed_deadlines =>
                  Elapsed(sys_time_ms, t.last_run) > t.deadline_ms
<1>1. Inc(t.missed_deadlines) \in Uint
  BY UintClosed DEF Task
<1> QED
  BY <1>1 DEF Finished, Task

\* A new task is READY.
LEMMA NewTaskEffect ==
    ASSUME NEW priority \in Priorities, NEW period \in Periods
    PROVE  NewTask(priority, period) \in Task /\ NewTask(priority, period).state = "READY"
  BY SchedulerAssumption DEF NewTask, Task, Uint

-----------------------------------------------------------------------------
(* The effect of each action on the table and on the stack, element by      *)
(* element.  TypeOK makes both sequences, so their domains are 1 .. Len.    *)

\* The domains of the table and of the stack are intervals.
LEMMA Domains ==
    ASSUME TypeOK
    PROVE  /\ Len(tasks) \in Nat /\ DOMAIN tasks = 1 .. Len(tasks)
           /\ Len(stack) \in Nat /\ DOMAIN stack = 1 .. Len(stack)
           /\ \A i \in 1 .. Len(tasks) : tasks[i] \in Task
           /\ \A d \in 1 .. Len(stack) :
                 stack[d] \in Frame /\ stack[d].task \in 1 .. Len(tasks)
<1>1. tasks \in Seq(Task) /\ stack \in Seq(Frame)
  BY DEF TypeOK
<1>2. /\ Len(tasks) \in Nat /\ DOMAIN tasks = 1 .. Len(tasks)
      /\ Len(stack) \in Nat /\ DOMAIN stack = 1 .. Len(stack)
  BY <1>1, LenProperties
<1>3. \A i \in 1 .. Len(tasks) : tasks[i] \in Task
  BY <1>1, ElementOfSeq
<1>4. \A d \in 1 .. Len(stack) : stack[d] \in Frame
  BY <1>1, ElementOfSeq
<1> QED
  BY <1>2, <1>3, <1>4 DEF TypeOK

Now == Inc(sys_time_ms)

ReleasedTasks == [i \in DOMAIN tasks |-> Released(tasks[i], Now)]

\* The release loop maps the table to a table.
LEMMA ReleasedTasksEffect ==
    ASSUME TypeOK
    PROVE  /\ ReleasedTasks \in Seq(Task)
           /\ Len(ReleasedTasks) = Len(tasks)
           /\ DOMAIN ReleasedTasks = 1 .. Len(tasks)
           /\ \A i \in 1 .. Len(tasks) : ReleasedTasks[i] = Released(tasks[i], Now)
<1>1. Now \in Uint
  BY UintClosed DEF TypeOK, Now
<1>2. \A i \in 1 .. Len(tasks) : Released(tasks[i], Now) \in Task
  BY <1>1, Domains, ReleasedEffect
<1>3. ReleasedTasks \in [1 .. Len(tasks) -> Task]
  BY <1>2, Domains DEF ReleasedTasks
<1> QED
  BY <1>3, Domains, FunctionIsSeq DEF ReleasedTasks

\* A tick ages every frame and keeps the rest of it.
LEMMA AgedEffect ==
    ASSUME TypeOK
    PROVE  /\ Aged(stack) \in Seq(Frame)
           /\ Len(Aged(stack)) = Len(stack)
           /\ \A d \in 1 .. Len(stack) :
                 /\ Aged(stack)[d] \in Frame
                 /\ Aged(stack)[d].task = stack[d].task
                 /\ Aged(stack)[d].age = Older(stack[d].age)
<1>1. \A d \in 1 .. Len(stack) : Older(stack[d].age) \in Uint
  BY Domains, UintClosed DEF Frame
<1>2. \A d \in 1 .. Len(stack) :
          /\ Aged(stack)[d] = [stack[d] EXCEPT !.age = Older(stack[d].age)]
          /\ [stack[d] EXCEPT !.age = Older(stack[d].age)] \in Frame
  BY <1>1, Domains DEF Aged, Frame
<1>3. Aged(stack) \in [1 .. Len(stack) -> Frame]
  BY <1>2, Domains DEF Aged
<1>4. \A d \in 1 .. Len(stack) :
          /\ Aged(stack)[d].task = stack[d].task
          /\ Aged(stack)[d].age = Older(stack[d].age)
  BY <1>2, Domains DEF Frame
<1> QED
  BY <1>2, <1>3, <1>4, Domains, FunctionIsSeq

\* A tick that dispatches task i.
DispatchOf(i) ==
    /\ i \in DOMAIN tasks
    /\ ReleasedTasks[i].state = "READY"
    /\ Len(stack) < MaxDepth
    /\ tasks' = [ReleasedTasks EXCEPT ![i] = Dispatched(@, Now)]
    /\ stack' = Append(Aged(stack), [task |-> i, pc |-> "body",
                                     end_time |-> 0, age |-> 0])
    /\ UNCHANGED idle_time

\* A tick on which no task is READY.
IdleTick ==
    /\ tasks' = ReleasedTasks
    /\ stack' = Aged(stack)
    /\ idle_time' = Inc(idle_time)

\* A tick is one or the other.
LEMMA TickCases ==
    ASSUME TypeOK, TickBody
    PROVE  /\ sys_time_ms' = Now /\ tick_count' = Inc(tick_count)
           /\ running' = running
           /\ idle_time' \in {idle_time, Inc(idle_time)}
           /\ IdleTick \/ \E i \in DOMAIN tasks : DispatchOf(i)
<1>1. ReleasedTasks = [i \in DOMAIN tasks |-> Released(tasks[i], Inc(sys_time_ms))]
  BY DEF ReleasedTasks, Now
<1> HIDE DEF ReleasedTasks
<1> QED
  BY <1>1 DEF TickBody, IsHighest, IdleTick, DispatchOf, Now

\* A tick that finds no READY task, in terms of old and new fields.
LEMMA IdleEffect ==
    ASSUME TypeOK, IdleTick
    PROVE  /\ tasks' \in Seq(Task) /\ Len(tasks') = Len(tasks)
           /\ stack' \in Seq(Frame) /\ Len(stack') = Len(stack)
           /\ \A i \in 1 .. Len(tasks) : tasks'[i] = Released(tasks[i], Now)
           /\ \A d \in 1 .. Len(stack) :
                 /\ stack'[d].task = stack[d].task
                 /\ stack'[d].age = Older(stack[d].age)
  BY ReleasedTasksEffect, AgedEffect DEF IdleTick

\* A tick that dispatches a task, in the same terms.
LEMMA DispatchEffect ==
    ASSUME TypeOK, NEW k, DispatchOf(k)
    PROVE  /\ k \in 1 .. Len(tasks)
           /\ tasks' \in Seq(Task) /\ Len(tasks') = Len(tasks)
           /\ stack' \in Seq(Frame) /\ Len(stack') = Len(stack) + 1
           /\ Len(stack') <= MaxDepth
           /\ \A i \in 1 .. Len(tasks) :
                 tasks'[i] = IF i = k THEN Dispatched(Released(tasks[i], Now), Now)
                                      ELSE Released(tasks[i], Now)
           /\ Released(tasks[k], Now).state = "READY"
           /\ \A d \in 1 .. Len(stack) :
                 /\ stack'[d].task = stack[d].task
                 /\ stack'[d].age = Older(stack[d].age)
           /\ stack'[Len(stack) + 1].task = k
           /\ stack'[Len(stack) + 1].age = 0
<1>1. k \in 1 .. Len(tasks)
  BY Domains DEF DispatchOf
<1>2. Now \in Uint
  BY UintClosed DEF TypeOK, Now
<1>3. Released(tasks[k], Now) \in Task
  BY <1>1, <1>2, Domains, ReleasedEffect
<1>4. Dispatched(ReleasedTasks[k], Now) \in Task
  BY <1>1, <1>2, <1>3, ReleasedTasksEffect, DispatchedEffect
<1> DEFINE new == Dispatched(ReleasedTasks[k], Now)
           frame == [task |-> k, pc |-> "body", end_time |-> 0, age |-> 0]
<1>5. tasks' = [ReleasedTasks EXCEPT ![k] = new]
  BY DEF DispatchOf
<1>6. /\ tasks' \in Seq(Task) /\ Len(tasks') = Len(tasks)
      /\ \A i \in 1 .. Len(tasks) : tasks'[i] = IF i = k THEN new ELSE ReleasedTasks[i]
  <2> HIDE DEF new
  <2> QED
    BY <1>1, <1>4, <1>5, ReleasedTasksEffect, ExceptSeq DEF new
<1>7. frame \in Frame
  BY <1>1, UintClosed, SchedulerAssumption, Domains DEF TypeOK, Frame, Uint
<1>8. stack' = Append(Aged(stack), frame)
  BY DEF DispatchOf
<1>9. /\ stack' \in Seq(Frame) /\ Len(stack') = Len(stack) + 1
      /\ \A d \in 1 .. Len(stack) : stack'[d] = Aged(stack)[d]
      /\ stack'[Len(stack) + 1] = frame
  <2> HIDE DEF frame
  <2> QED
    BY <1>7, <1>8, AgedEffect, AppendEffect
<1>10. Len(stack) + 1 <= MaxDepth
  BY Domains, SchedulerAssumption DEF DispatchOf
<1>11. Released(tasks[k], Now).state = "READY"
  BY <1>1, ReleasedTasksEffect DEF DispatchOf
<1>12. \A i \in 1 .. Len(tasks) :
           tasks'[i] = IF i = k THEN Dispatched(Released(tasks[i], Now), Now)
                                ELSE Released(tasks[i], Now)
  BY <1>1, <1>6, ReleasedTasksEffect
<1> QED
  BY <1>1, <1>6, <1>9, <1>10, <1>11, <1>12, AgedEffect

\* scheduler_add_task(), in the same terms.
LEMMA AddEffect ==
    ASSUME TypeOK, NEW priority \in Priorities, NEW period \in Periods,
           AddTask(priority, period)
    PROVE  /\ tasks' \in Seq(Task) /\ Len(tasks') = Len(tasks) + 1
           /\ Len(tasks') <= MAX_TASKS
           /\ \A i \in 1 .. Len(tasks) : tasks'[i] = tasks[i]
           /\ tasks'[Len(tasks) + 1].state = "READY"
<1> DEFINE new == NewTask(priority, period)
<1>1. new \in Task /\ new.state = "READY"
  BY NewTaskEffect
<1>2. tasks' = Append(tasks, new) /\ Len(tasks) < MAX_TASKS
  BY DEF AddTask
<1>3. tasks \in Seq(Task)
  BY DEF TypeOK
<1> HIDE DEF new
<1> QED
  BY <1>1, <1>2, <1>3, AppendEffect, Domains, SchedulerAssumption

\* The return of a task function, in the same terms.
LEMMA ReturnEffect ==
    ASSUME TypeOK, TaskReturn
    PROVE  /\ Len(stack) \in 1 .. MaxDepth
           /\ Top = stack[Len(stack)]
           /\ Top.task \in 1 .. Len(tasks)
           /\ tasks' \in Seq(Task) /\ Len(tasks') = Len(tasks)
           /\ stack' \in Seq(Frame) /\ Len(stack') = Len(stack) - 1
           /\ \A i \in 1 .. Len(tasks) :
                 tasks'[i] = IF i = Top.task THEN Finished(tasks[i]) ELSE tasks[i]
           /\ \A d \in 1 .. Len(stack) - 1 : stack'[d] = stack[d]
<1>1. stack \in Seq(Frame) /\ stack # <<>> /\ tasks \in Seq(Task)
  BY DEF TypeOK, TaskReturn, InBody
<1>2. Len(stack) \in 1 .. MaxDepth
  BY <1>1, EmptySeq, SchedulerAssumption DEF TypeOK
<1>3. Top = stack[Len(stack)] /\ Top.task \in 1 .. Len(tasks)
  BY <1>2, Domains DEF Top
<1>4. Finished(tasks[Top.task]) \in Task
  BY <1>3, Domains, FinishedEffect DEF TypeOK
<1> DEFINE done == Finished(tasks[Top.task])
<1>5. tasks' = [tasks EXCEPT ![Top.task] = done]
  BY DEF TaskReturn
<1>6. /\ tasks' \in Seq(Task) /\ Len(tasks') = Len(tasks)
      /\ \A i \in 1 .. Len(tasks) : tasks'[i] = IF i = Top.task THEN done ELSE tasks[i]
  <2> HIDE DEF done
  <2> QED
    BY <1>1, <1>3, <1>4, <1>5, ExceptSeq DEF done
<1>7. stack' = SubSeq(stack, 1, Len(stack) - 1)
  BY DEF TaskReturn
<1>8. /\ stack' \in Seq(Frame) /\ Len(stack') = Len(stack) - 1
      /\ \A d \in 1 .. Len(stack) - 1 : stack'[d] = stack[d]
  BY <1>1, <1>7, PopEffect
<1>9. \A i \in 1 .. Len(tasks) :
          tasks'[i] = IF i = Top.task THEN Finished(tasks[i]) ELSE tasks[i]
  BY <1>6
<1> QED
  BY <1>2, <1>3, <1>6, <1>8, <1>9

\* A call of scheduler_delay(), or its end, touches one frame's pc and end_time.
DelayStep == DelayReturn \/ \E ms \in Delays : Delay(ms)

\* Both ends of scheduler_delay(), in the same terms.
LEMMA DelayEffect ==
    ASSUME TypeOK, DelayStep
    PROVE  /\ UNCHANGED <<tasks, tick_count, idle_time, running, sys_time_ms>>
           /\ stack' \in Seq(Frame) /\ Len(stack') = Len(stack)
           /\ \A d \in 1 .. Len(stack) :
                 stack'[d].task = stack[d].task /\ stack'[d].age = stack[d].age
<1>1. PICK pc \in {"body", "delay"}, end \in Uint :
          /\ stack # <<>>
          /\ stack' = [stack EXCEPT ![Len(stack)].pc = pc, ![Len(stack)].end_time = end]
  <2>1. CASE DelayReturn
    BY <2>1, UintClosed DEF DelayReturn, TypeOK
  <2>2. ASSUME NEW ms \in Delays, Delay(ms)
        PROVE  \E end \in Uint :
                  /\ stack # <<>>
                  /\ stack' = [stack EXCEPT ![Len(stack)].pc = "delay",
                                            ![Len(stack)].end_time = end]
    <3>1. ms \in Uint /\ sys_time_ms \in Uint
      BY SchedulerAssumption DEF Uint, TypeOK
    <3> QED
      BY <2>2, <3>1, UintClosed DEF Delay, InBody
  <2> QED
    BY <2>1, <2>2 DEF DelayStep
<1>2. stack \in Seq(Frame) /\ Len(stack) \in 1 .. Len(stack)
  BY <1>1, EmptySeq DEF TypeOK
<1> DEFINE old == stack[Len(stack)]
           new == [old EXCEPT !.pc = pc, !.end_time = end]
<1>3. new \in Frame /\ new.task = old.task /\ new.age = old.age
  BY <1>1, <1>2, Domains DEF Frame
<1>4. stack' = [stack EXCEPT ![Len(stack)] = new]
  BY <1>1, <1>2, Domains
<1>5. /\ stack' \in Seq(Frame) /\ Len(stack') = Len(stack)
      /\ \A d \in 1 .. Len(stack) :
            stack'[d] = IF d = Len(stack) THEN new ELSE stack[d]
  <2> HIDE DEF new
  <2> QED
    BY <1>2, <1>3, <1>4, ExceptSeq
<1>6. UNCHANGED <<tasks, tick_count, idle_time, running, sys_time_ms>>
  BY DEF DelayStep, Delay, DelayReturn
<1> QED
  BY <1>3, <1>5, <1>6

-----------------------------------------------------------------------------
\* A fresh scheduler is well formed.
LEMMA TypeCorrectInit == Init => TypeOK
<1> SUFFICES ASSUME Init PROVE TypeOK
  OBVIOUS
<1>1. \A d \in DOMAIN stack : stack[d].task \in DOMAIN tasks
  BY ZeroState DEF Init
<1> QED
  BY <1>1, ZeroState DEF Init, TypeOK

\* Every operation keeps it well formed.
LEMMA TypeCorrectStep == TypeOK /\ [Next]_vars => TypeOK'
<1> SUFFICES ASSUME TypeOK, [Next]_vars
             PROVE  TypeOK'
  OBVIOUS
<1>1. CASE SchedulerInit
  <2>1. tasks' = <<>> /\ stack' = <<>>
    BY <1>1 DEF SchedulerInit, AtTopLevel
  <2>2. \A d \in DOMAIN stack' : stack'[d].task \in DOMAIN tasks'
    BY <2>1, ZeroState
  <2> QED
    BY <1>1, <2>1, <2>2, ZeroState DEF SchedulerInit, TypeOK
<1>2. ASSUME NEW priority \in Priorities, NEW period \in Periods,
             AddTask(priority, period)
      PROVE  TypeOK'
  <2>1. DOMAIN tasks' = 1 .. Len(tasks) + 1
    BY <1>2, AddEffect, LenProperties
  <2> QED
    BY <1>2, <2>1, AddEffect, Domains DEF AddTask, TypeOK
<1>3. CASE TickBody
  <2>1. sys_time_ms' \in Uint /\ tick_count' \in Uint /\ idle_time' \in Uint
        /\ running' \in BOOLEAN
    BY <1>3, TickCases, UintClosed DEF TypeOK, Now
  <2>2. CASE IdleTick
    <3>1. DOMAIN tasks' = 1 .. Len(tasks) /\ DOMAIN stack' = 1 .. Len(stack)
      BY <2>2, IdleEffect, LenProperties
    <3> QED
      BY <2>1, <2>2, <3>1, IdleEffect, Domains DEF TypeOK
  <2>3. ASSUME NEW k, DispatchOf(k)
        PROVE  TypeOK'
    <3>1. DOMAIN tasks' = 1 .. Len(tasks) /\ DOMAIN stack' = 1 .. Len(stack) + 1
      BY <2>3, DispatchEffect, LenProperties
    <3>2. \A d \in DOMAIN stack' : stack'[d].task \in DOMAIN tasks'
      BY <2>3, <3>1, DispatchEffect, Domains
    <3> QED
      BY <2>1, <2>3, <3>1, <3>2, DispatchEffect DEF TypeOK
  <2> QED
    BY <1>3, <2>2, <2>3, TickCases
<1>4. CASE TaskReturn
  <2>1. DOMAIN tasks' = 1 .. Len(tasks) /\ DOMAIN stack' = 1 .. Len(stack) - 1
    BY <1>4, ReturnEffect, LenProperties
  <2>2. Len(stack') <= MaxDepth
    BY <1>4, ReturnEffect, SchedulerAssumption
  <2> QED
    BY <1>4, <2>1, <2>2, ReturnEffect, Domains DEF TaskReturn, TypeOK
<1>5. CASE DelayStep
  <2>1. DOMAIN stack' = 1 .. Len(stack)
    BY <1>5, DelayEffect, LenProperties
  <2> QED
    BY <1>5, <2>1, DelayEffect, Domains DEF TypeOK
<1>6. CASE Start
  BY <1>6 DEF Start, TypeOK
<1>7. CASE UNCHANGED vars
  BY <1>7 DEF vars, TypeOK
<1> QED
  BY <1>1, <1>2, <1>3, <1>4, <1>5, <1>6, <1>7 DEF Next, Tick, Yield, DelayStep

\* Every reachable state of the scheduler is well formed: no counter leaves its
\* word, the table and the stack keep within their bounds, and no frame refers
\* to a task that is not in the table.
THEOREM TypeCorrect == Spec => []TypeOK
  BY TypeCorrectInit, TypeCorrectStep, PTL DEF Spec

-----------------------------------------------------------------------------
(* The inductive invariant.                                                 *)

\* One conjunct of SchedulerInv at a time, in terms of 1 .. Len.
LEMMA InvFacts ==
    ASSUME SchedulerInv
    PROVE  /\ TypeOK
           /\ \A i \in 1 .. Len(tasks) :
                 (\A d \in 1 .. Len(stack) : stack[d].task # i) => tasks[i].state = "READY"
           /\ \A d, e \in 1 .. Len(stack) : d < e /\ stack[d].task = stack[e].task =>
                 /\ tasks[stack[d].task].period_ms > 0
                 /\ \/ stack[d].age = UINT - 1
                    \/ stack[d].age >= stack[e].age + tasks[stack[d].task].period_ms
           /\ \A d \in 1 .. Len(stack) :
                 Elapsed(sys_time_ms, tasks[stack[d].task].last_run) <= stack[d].age
           /\ \A d \in 1 .. Len(stack) : tasks[stack[d].task].state # "RUNNING" =>
                 /\ tasks[stack[d].task].period_ms > 0
                 /\ stack[d].age >= tasks[stack[d].task].period_ms
<1>1. TypeOK
  BY DEF SchedulerInv
<1> QED
  BY <1>1, Domains DEF SchedulerInv, NoTaskLost, OnStack, ReentryNeedsPeriod,
                       AgeBoundsElapsed, UnfinishedReady

\* The part of an idle or dispatching tick that is common to both: what the
\* release loop and the aging do to the frames that were there before.
LEMMA OldFramesAfterTick ==
    ASSUME SchedulerInv
    PROVE  \A d \in 1 .. Len(stack) :
             LET t == Released(tasks[stack[d].task], Now)
                 age == Older(stack[d].age)
             IN  /\ Elapsed(Now, t.last_run) <= age
                 /\ t.period_ms = tasks[stack[d].task].period_ms
                 /\ t.state # "RUNNING" => t.period_ms > 0 /\ age >= t.period_ms
<1> SUFFICES ASSUME NEW d \in 1 .. Len(stack)
             PROVE  LET t == Released(tasks[stack[d].task], Now)
                        age == Older(stack[d].age)
                    IN  /\ Elapsed(Now, t.last_run) <= age
                        /\ t.period_ms = tasks[stack[d].task].period_ms
                        /\ t.state # "RUNNING" => t.period_ms > 0 /\ age >= t.period_ms
  OBVIOUS
<1> DEFINE old == tasks[stack[d].task]
           t == Released(old, Now)
           age == stack[d].age
<1>1. /\ old \in Task /\ age \in Uint /\ sys_time_ms \in Uint /\ Now \in Uint
      /\ old.last_run \in Uint /\ old.period_ms \in Uint
  BY InvFacts, Domains, UintClosed DEF TypeOK, Frame, Task, Now
<1>2. Elapsed(sys_time_ms, old.last_run) <= age
  BY InvFacts
<1>3. Elapsed(Now, old.last_run) <= Older(age)
  BY <1>1, <1>2, ElapsedGrows DEF Now
<1>4. /\ t.last_run = old.last_run /\ t.period_ms = old.period_ms
      /\ t.state = old.state \/ (old.period_ms > 0 /\ Elapsed(Now, old.last_run) >= old.period_ms)
  BY <1>1, ReleasedEffect
<1>5. Older(age) >= age /\ Older(age) \in Nat /\ age \in Nat
  BY <1>1, SchedulerAssumption DEF Older, Uint
<1>6. ASSUME t.state # "RUNNING"
      PROVE  old.period_ms > 0 /\ Older(age) >= old.period_ms
  <2>1. CASE t.state = old.state
    <3>1. old.period_ms > 0 /\ age >= old.period_ms
      BY <1>6, <2>1, InvFacts
    <3> QED
      BY <1>1, <1>5, <3>1 DEF Uint
  <2>2. CASE old.period_ms > 0 /\ Elapsed(Now, old.last_run) >= old.period_ms
    <3> DEFINE run == Elapsed(Now, old.last_run)
               period == old.period_ms
    <3>1. run \in Nat /\ period \in Nat
      <4>1. run \in Uint /\ period \in Uint
        BY <1>1, UintClosed
      <4> QED
        BY <4>1, SchedulerAssumption DEF Uint
    <3>2. period > 0 /\ run >= period /\ run <= Older(age)
      BY <1>3, <2>2
    <3> HIDE DEF run, period, age
    <3>3. period > 0 /\ Older(age) >= period
      BY <1>5, <3>1, <3>2
    <3> QED
      BY <3>3 DEF period
  <2> QED
    BY <1>4, <2>1, <2>2
<1> QED
  BY <1>3, <1>4, <1>6

\* A distance between two ages does not shrink while both grow.
LEMMA OlderKeepsDistance ==
    ASSUME NEW x \in Uint, NEW y \in Uint, NEW p \in Uint, x = UINT - 1 \/ x >= y + p
    PROVE  Older(x) = UINT - 1 \/ Older(x) >= Older(y) + p
<1>1. Older(y) <= y + 1
  BY SchedulerAssumption DEF Older, Uint
<1>2. CASE x = UINT - 1
  BY <1>2 DEF Older
<1>3. CASE x # UINT - 1
  BY <1>1, <1>3, SchedulerAssumption DEF Older, Uint
<1> QED
  BY <1>2, <1>3

\* Two instances of one task stay a period apart while both age.
LEMMA OldPairsAfterTick ==
    ASSUME SchedulerInv
    PROVE  \A d, e \in 1 .. Len(stack) : d < e /\ stack[d].task = stack[e].task =>
             /\ tasks[stack[d].task].period_ms > 0
             /\ \/ Older(stack[d].age) = UINT - 1
                \/ Older(stack[d].age) >= Older(stack[e].age) + tasks[stack[d].task].period_ms
<1> SUFFICES ASSUME NEW d \in 1 .. Len(stack), NEW e \in 1 .. Len(stack),
                    d < e, stack[d].task = stack[e].task
             PROVE  /\ tasks[stack[d].task].period_ms > 0
                    /\ \/ Older(stack[d].age) = UINT - 1
                       \/ Older(stack[d].age) >= Older(stack[e].age) + tasks[stack[d].task].period_ms
  OBVIOUS
<1> DEFINE period == tasks[stack[d].task].period_ms
<1>1. stack[d].age \in Uint /\ stack[e].age \in Uint /\ period \in Uint
  BY InvFacts, Domains DEF Frame, Task
<1>2. period > 0 /\ (stack[d].age = UINT - 1 \/ stack[d].age >= stack[e].age + period)
  BY InvFacts
<1> HIDE DEF period
<1>3. Older(stack[d].age) = UINT - 1 \/ Older(stack[d].age) >= Older(stack[e].age) + period
  BY <1>1, <1>2, OlderKeepsDistance
<1> QED
  BY <1>2, <1>3 DEF period

\* A tick that dispatches a task keeps the invariant.
LEMMA DispatchKeepsInv ==
    ASSUME SchedulerInv, TypeOK', NEW k, DispatchOf(k), sys_time_ms' = Now
    PROVE  SchedulerInv'
<1> DEFINE n == Len(stack)
<1>1. TypeOK /\ Now \in Uint /\ n \in Nat
  BY UintClosed, Domains DEF SchedulerInv, TypeOK, Now
<1>2. /\ k \in 1 .. Len(tasks) /\ Len(tasks') = Len(tasks) /\ Len(stack') = n + 1
      /\ \A i \in 1 .. Len(tasks) :
            tasks'[i] = IF i = k THEN Dispatched(Released(tasks[i], Now), Now)
                                 ELSE Released(tasks[i], Now)
      /\ Released(tasks[k], Now).state = "READY"
      /\ \A d \in 1 .. n : stack'[d].task = stack[d].task
                        /\ stack'[d].age = Older(stack[d].age)
      /\ stack'[n + 1].task = k /\ stack'[n + 1].age = 0
  BY <1>1, DispatchEffect
<1>3. DOMAIN tasks' = 1 .. Len(tasks) /\ DOMAIN stack' = 1 .. n + 1
  BY <1>1, <1>2, LenProperties, DispatchEffect
<1>4. \A d \in 1 .. n + 1 : d \in 1 .. n \/ d = n + 1
  BY <1>1
<1>5. \A i \in 1 .. Len(tasks) :
          /\ Released(tasks[i], Now) \in Task
          /\ Released(tasks[i], Now).period_ms = tasks[i].period_ms
          /\ tasks[i].state = "READY" => Released(tasks[i], Now).state = "READY"
  BY <1>1, Domains, ReleasedEffect
<1>6. /\ tasks'[k].period_ms = tasks[k].period_ms
      /\ tasks'[k].last_run = Now
      /\ tasks'[k].state = "RUNNING"
  BY <1>1, <1>2, <1>5, DispatchedEffect
<1>7. \A d \in 1 .. n : stack[d].task \in 1 .. Len(tasks) /\ stack[d].age \in Uint
  BY <1>1, Domains DEF Frame
<1>8. \A i \in 1 .. Len(tasks) : i # k => tasks'[i] = Released(tasks[i], Now)
  BY <1>2
<1> HIDE DEF n
<1>9. NoTaskLost'
  <2> SUFFICES ASSUME NEW i \in 1 .. Len(tasks),
                      \A d \in 1 .. n + 1 : stack'[d].task # i
               PROVE  tasks'[i].state = "READY"
    BY <1>3 DEF NoTaskLost, OnStack
  <2>1. i # k /\ \A d \in 1 .. n : stack[d].task # i
    BY <1>1, <1>2
  <2>2. tasks[i].state = "READY"
    BY <2>1, InvFacts DEF n
  <2> QED
    BY <1>5, <1>8, <2>1, <2>2
<1>10. AgeBoundsElapsed'
  <2> SUFFICES ASSUME NEW d \in 1 .. n + 1
               PROVE  Elapsed(Now, tasks'[stack'[d].task].last_run) <= stack'[d].age
    BY <1>3 DEF AgeBoundsElapsed
  <2>1. CASE stack'[d].task = k
    <3>1. Elapsed(Now, tasks'[stack'[d].task].last_run) = 0
      BY <1>1, <1>6, <2>1, ElapsedZero
    <3>2. stack'[d].age \in Uint
      <4>1. stack' \in Seq(Frame) /\ Len(stack') = n + 1
        BY <1>1, <1>2, DispatchEffect
      <4>2. stack'[d] \in Frame
        BY <4>1, ElementOfSeq
      <4> QED
        BY <4>2 DEF Frame
    <3> QED
      BY <3>1, <3>2 DEF Uint
  <2>2. CASE stack'[d].task # k
    <3>1. d \in 1 .. n
      BY <1>2, <1>4, <2>2
    <3>2. Elapsed(Now, Released(tasks[stack[d].task], Now).last_run) <= Older(stack[d].age)
      BY <3>1, OldFramesAfterTick DEF n
    <3> QED
      BY <1>2, <1>7, <1>8, <2>2, <3>1, <3>2
  <2> QED
    BY <2>1, <2>2
<1>11. UnfinishedReady'
  <2> SUFFICES ASSUME NEW d \in 1 .. n + 1, tasks'[stack'[d].task].state # "RUNNING"
               PROVE  /\ tasks'[stack'[d].task].period_ms > 0
                      /\ stack'[d].age >= tasks'[stack'[d].task].period_ms
    BY <1>3 DEF UnfinishedReady
  <2>1. stack'[d].task # k
    BY <1>6
  <2>2. d \in 1 .. n
    BY <1>2, <1>4, <2>1
  <2>3. tasks'[stack'[d].task] = Released(tasks[stack[d].task], Now)
    BY <1>2, <1>7, <1>8, <2>1, <2>2
  <2> QED
    BY <1>2, <2>2, <2>3, OldFramesAfterTick DEF n
<1>12. ReentryNeedsPeriod'
  <2> SUFFICES ASSUME NEW d \in 1 .. n + 1, NEW e \in 1 .. n + 1,
                      d < e, stack'[d].task = stack'[e].task
               PROVE  /\ tasks'[stack'[d].task].period_ms > 0
                      /\ \/ stack'[d].age = UINT - 1
                         \/ stack'[d].age >= stack'[e].age + tasks'[stack'[d].task].period_ms
    BY <1>3 DEF ReentryNeedsPeriod
  <2>1. d \in 1 .. n
    BY <1>1
  <2>2. /\ stack'[d].task = stack[d].task /\ stack'[d].age = Older(stack[d].age)
        /\ stack[d].task \in 1 .. Len(tasks)
    BY <1>2, <1>7, <2>1
  <2>3. tasks'[stack[d].task].period_ms = tasks[stack[d].task].period_ms
    BY <1>5, <1>6, <1>8, <2>2
  <2>4. CASE e \in 1 .. n
    <3>1. stack'[e].task = stack[e].task /\ stack'[e].age = Older(stack[e].age)
      BY <1>2, <2>4
    <3>2. stack[d].task = stack[e].task
      BY <2>2, <3>1
    <3>3. /\ tasks[stack[d].task].period_ms > 0
          /\ \/ Older(stack[d].age) = UINT - 1
             \/ Older(stack[d].age) >= Older(stack[e].age) + tasks[stack[d].task].period_ms
      BY <2>1, <2>4, <3>2, OldPairsAfterTick, Zenon DEF n
    <3>4. /\ tasks'[stack'[d].task].period_ms = tasks[stack[d].task].period_ms
          /\ stack'[d].age = Older(stack[d].age)
      BY <2>2, <2>3
    <3> QED
      BY <3>1, <3>3, <3>4, Zenon
  <2>5. CASE e = n + 1
    <3>1. stack[d].task = k
      BY <1>2, <2>2, <2>5
    <3>2. Released(tasks[k], Now).state # "RUNNING"
      BY <1>2
    <3>3. /\ tasks[k].period_ms > 0 /\ Older(stack[d].age) >= tasks[k].period_ms
      BY <2>1, <3>1, <3>2, OldFramesAfterTick DEF n
    <3>4. tasks[k].period_ms \in Nat
      BY <1>1, <1>2, Domains DEF Task, Uint
    <3> QED
      BY <1>2, <2>2, <2>3, <2>5, <3>1, <3>3, <3>4
  <2> QED
    BY <1>4, <2>4, <2>5
<1> QED
  BY <1>9, <1>10, <1>11, <1>12 DEF SchedulerInv

\* A tick that dispatches nothing keeps the invariant.
LEMMA IdleKeepsInv ==
    ASSUME SchedulerInv, TypeOK', IdleTick, sys_time_ms' = Now
    PROVE  SchedulerInv'
<1> DEFINE n == Len(stack)
<1>1. TypeOK /\ Now \in Uint /\ n \in Nat
  BY UintClosed, Domains DEF SchedulerInv, TypeOK, Now
<1>2. /\ Len(tasks') = Len(tasks) /\ Len(stack') = n
      /\ \A i \in 1 .. Len(tasks) : tasks'[i] = Released(tasks[i], Now)
      /\ \A d \in 1 .. n : stack'[d].task = stack[d].task
                        /\ stack'[d].age = Older(stack[d].age)
  BY <1>1, IdleEffect
<1>3. DOMAIN tasks' = 1 .. Len(tasks) /\ DOMAIN stack' = 1 .. n
  BY <1>1, <1>2, LenProperties, IdleEffect
<1>4. \A d \in 1 .. n : stack[d].task \in 1 .. Len(tasks)
  BY <1>1, Domains
<1>5. \A d \in 1 .. n : tasks'[stack'[d].task] = Released(tasks[stack[d].task], Now)
  BY <1>2, <1>4
<1>6. \A i \in 1 .. Len(tasks) :
          tasks[i].state = "READY" => Released(tasks[i], Now).state = "READY"
  BY <1>1, Domains, ReleasedEffect
<1> HIDE DEF n
<1>7. NoTaskLost'
  <2> SUFFICES ASSUME NEW i \in 1 .. Len(tasks),
                      \A d \in 1 .. n : stack'[d].task # i
               PROVE  tasks'[i].state = "READY"
    BY <1>3 DEF NoTaskLost, OnStack
  <2>1. tasks[i].state = "READY"
    BY <1>2, InvFacts DEF n
  <2> QED
    BY <1>2, <1>6, <2>1
<1>8. AgeBoundsElapsed'
  <2> SUFFICES ASSUME NEW d \in 1 .. n
               PROVE  Elapsed(Now, tasks'[stack'[d].task].last_run) <= stack'[d].age
    BY <1>3 DEF AgeBoundsElapsed
  <2> QED
    BY <1>2, <1>5, OldFramesAfterTick DEF n
<1>9. UnfinishedReady'
  <2> SUFFICES ASSUME NEW d \in 1 .. n, tasks'[stack'[d].task].state # "RUNNING"
               PROVE  /\ tasks'[stack'[d].task].period_ms > 0
                      /\ stack'[d].age >= tasks'[stack'[d].task].period_ms
    BY <1>3 DEF UnfinishedReady
  <2> QED
    BY <1>2, <1>5, OldFramesAfterTick DEF n
<1>10. ReentryNeedsPeriod'
  <2> SUFFICES ASSUME NEW d \in 1 .. n, NEW e \in 1 .. n,
                      d < e, stack'[d].task = stack'[e].task
               PROVE  /\ tasks'[stack'[d].task].period_ms > 0
                      /\ \/ stack'[d].age = UINT - 1
                         \/ stack'[d].age >= stack'[e].age + tasks'[stack'[d].task].period_ms
    BY <1>3 DEF ReentryNeedsPeriod
  <2>1. tasks'[stack'[d].task].period_ms = tasks[stack[d].task].period_ms
    BY <1>5, OldFramesAfterTick DEF n
  <2> QED
    BY <1>2, <2>1, OldPairsAfterTick DEF n
<1> QED
  BY <1>7, <1>8, <1>9, <1>10 DEF SchedulerInv

\* The return of a task function keeps the invariant.
LEMMA ReturnKeepsInv ==
    ASSUME SchedulerInv, TypeOK', TaskReturn
    PROVE  SchedulerInv'
<1> DEFINE n == Len(stack)
           r == Top.task
<1>1. TypeOK /\ sys_time_ms \in Uint /\ sys_time_ms' = sys_time_ms
  BY DEF SchedulerInv, TypeOK, TaskReturn
<1>2. /\ n \in Nat \ {0} /\ r = stack[n].task /\ r \in 1 .. Len(tasks)
      /\ Len(tasks') = Len(tasks) /\ Len(stack') = n - 1
      /\ \A i \in 1 .. Len(tasks) :
            tasks'[i] = IF i = r THEN Finished(tasks[i]) ELSE tasks[i]
      /\ \A d \in 1 .. n - 1 : stack'[d] = stack[d]
  BY <1>1, ReturnEffect, SchedulerAssumption
<1>3. DOMAIN tasks' = 1 .. Len(tasks) /\ DOMAIN stack' = 1 .. n - 1
  BY <1>1, <1>2, LenProperties, ReturnEffect
<1>4. \A i \in 1 .. Len(tasks) :
          /\ tasks'[i].period_ms = tasks[i].period_ms
          /\ tasks'[i].last_run = tasks[i].last_run
          /\ i = r => tasks'[i].state = "READY"
          /\ i # r => tasks'[i] = tasks[i]
  BY <1>1, <1>2, Domains, FinishedEffect
<1>5. \A d \in 1 .. n - 1 : d \in 1 .. n /\ d < n
                          /\ stack[d].task \in 1 .. Len(tasks) /\ stack[d].age \in Uint
  BY <1>1, <1>2, Domains DEF Frame
<1>6. \A d \in 1 .. n : d = n \/ d \in 1 .. n - 1
  BY <1>2
<1>7. n \in 1 .. n
  BY <1>2
<1> HIDE DEF n, r
<1>8. NoTaskLost'
  <2> SUFFICES ASSUME NEW i \in 1 .. Len(tasks),
                      \A d \in 1 .. n - 1 : stack'[d].task # i
               PROVE  tasks'[i].state = "READY"
    BY <1>3 DEF NoTaskLost, OnStack
  <2>1. ASSUME i # r
        PROVE  tasks[i].state = "READY"
    <3>1. \A d \in 1 .. n : stack[d].task # i
      BY <1>2, <1>6, <2>1
    <3> QED
      BY <3>1, InvFacts DEF n
  <2> QED
    BY <1>4, <2>1
<1>9. AgeBoundsElapsed'
  <2> SUFFICES ASSUME NEW d \in 1 .. n - 1
               PROVE  Elapsed(sys_time_ms, tasks'[stack'[d].task].last_run) <= stack'[d].age
    BY <1>1, <1>3 DEF AgeBoundsElapsed
  <2>1. Elapsed(sys_time_ms, tasks[stack[d].task].last_run) <= stack[d].age
    BY <1>5, InvFacts DEF n
  <2> QED
    BY <1>2, <1>4, <1>5, <2>1
<1>10. UnfinishedReady'
  <2> SUFFICES ASSUME NEW d \in 1 .. n - 1, tasks'[stack'[d].task].state # "RUNNING"
               PROVE  /\ tasks'[stack'[d].task].period_ms > 0
                      /\ stack'[d].age >= tasks'[stack'[d].task].period_ms
    BY <1>3 DEF UnfinishedReady
  <2> DEFINE i == stack[d].task
             period == tasks[i].period_ms
  <2>1. /\ i \in 1 .. Len(tasks) /\ stack'[d] = stack[d]
        /\ tasks'[i].period_ms = period
    BY <1>2, <1>4, <1>5
  <2>2. period > 0 /\ stack[d].age >= period
    <3>1. CASE i = r
      <4>1. /\ period > 0
            /\ stack[d].age = UINT - 1 \/ stack[d].age >= stack[n].age + period
        BY <1>2, <1>5, <1>7, <3>1, InvFacts DEF n
      <4>2. period \in Uint /\ stack[n].age \in Uint /\ stack[d].age \in Uint
        BY <1>1, <1>5, <1>7, <2>1, Domains DEF Task, Frame, n
      <4> HIDE DEF period
      <4> QED
        BY <4>1, <4>2, SchedulerAssumption DEF Uint
    <3>2. CASE i # r
      <4>1. tasks[i].state # "RUNNING"
        BY <1>4, <2>1, <3>2
      <4> QED
        BY <1>5, <4>1, InvFacts DEF n
    <3> QED
      BY <3>1, <3>2
  <2> QED
    BY <2>1, <2>2
<1>11. ReentryNeedsPeriod'
  <2> SUFFICES ASSUME NEW d \in 1 .. n - 1, NEW e \in 1 .. n - 1,
                      d < e, stack'[d].task = stack'[e].task
               PROVE  /\ tasks'[stack'[d].task].period_ms > 0
                      /\ \/ stack'[d].age = UINT - 1
                         \/ stack'[d].age >= stack'[e].age + tasks'[stack'[d].task].period_ms
    BY <1>3 DEF ReentryNeedsPeriod
  <2>1. stack'[d] = stack[d] /\ stack'[e] = stack[e]
    BY <1>2
  <2>2. tasks'[stack[d].task].period_ms = tasks[stack[d].task].period_ms
    BY <1>4, <1>5
  <2> QED
    BY <1>5, <2>1, <2>2, InvFacts DEF n
<1> QED
  BY <1>8, <1>9, <1>10, <1>11 DEF SchedulerInv

\* A new task keeps the invariant.
LEMMA AddKeepsInv ==
    ASSUME SchedulerInv, TypeOK', NEW priority \in Priorities, NEW period \in Periods,
           AddTask(priority, period)
    PROVE  SchedulerInv'
<1>1. TypeOK /\ UNCHANGED <<stack, sys_time_ms>>
  BY DEF SchedulerInv, AddTask
<1>2. /\ Len(tasks') = Len(tasks) + 1
      /\ \A i \in 1 .. Len(tasks) : tasks'[i] = tasks[i]
      /\ tasks'[Len(tasks) + 1].state = "READY"
  BY <1>1, AddEffect
<1>3. DOMAIN tasks' = 1 .. Len(tasks) + 1
  BY <1>1, <1>2, AddEffect, LenProperties
<1>4. \A d \in DOMAIN stack :
          d \in 1 .. Len(stack) /\ tasks'[stack[d].task] = tasks[stack[d].task]
  BY <1>1, <1>2, Domains
<1>5. NoTaskLost'
  <2> SUFFICES ASSUME NEW i \in 1 .. Len(tasks) + 1,
                      \A d \in DOMAIN stack : stack[d].task # i
               PROVE  tasks'[i].state = "READY"
    BY <1>1, <1>3 DEF NoTaskLost, OnStack
  <2>1. CASE i \in 1 .. Len(tasks)
    BY <1>1, <1>2, <2>1, Domains, InvFacts
  <2>2. CASE i = Len(tasks) + 1
    BY <1>2, <2>2
  <2> QED
    BY <1>1, <2>1, <2>2, Domains
<1>6. ReentryNeedsPeriod' /\ AgeBoundsElapsed' /\ UnfinishedReady'
  BY <1>1, <1>4 DEF SchedulerInv, ReentryNeedsPeriod, AgeBoundsElapsed, UnfinishedReady
<1> QED
  BY <1>5, <1>6 DEF SchedulerInv

\* A delay keeps the invariant.
LEMMA DelayKeepsInv ==
    ASSUME SchedulerInv, TypeOK', DelayStep
    PROVE  SchedulerInv'
<1>1. TypeOK /\ UNCHANGED <<tasks, sys_time_ms>>
  BY DelayEffect DEF SchedulerInv
<1>2. /\ DOMAIN stack' = DOMAIN stack
      /\ \A d \in DOMAIN stack :
            stack'[d].task = stack[d].task /\ stack'[d].age = stack[d].age
  BY <1>1, DelayEffect, Domains, LenProperties
<1>3. NoTaskLost'
  BY <1>1, <1>2 DEF SchedulerInv, NoTaskLost, OnStack
<1>4. ReentryNeedsPeriod' /\ AgeBoundsElapsed' /\ UnfinishedReady'
  BY <1>1, <1>2 DEF SchedulerInv, ReentryNeedsPeriod, AgeBoundsElapsed, UnfinishedReady
<1> QED
  BY <1>3, <1>4 DEF SchedulerInv

\* The empty scheduler satisfies the invariant: there is nothing to relate.
LEMMA EmptyInv ==
    ASSUME TypeOK, tasks = <<>>, stack = <<>>
    PROVE  SchedulerInv
<1>1. DOMAIN tasks = {} /\ DOMAIN stack = {}
  BY ZeroState
<1> QED
  BY <1>1 DEF SchedulerInv, NoTaskLost, ReentryNeedsPeriod, AgeBoundsElapsed,
              UnfinishedReady

\* Every step keeps the invariant.
LEMMA InvStep == SchedulerInv /\ [Next]_vars => SchedulerInv'
<1> SUFFICES ASSUME SchedulerInv, [Next]_vars
             PROVE  SchedulerInv'
  OBVIOUS
<1>1. TypeOK /\ TypeOK'
  BY TypeCorrectStep DEF SchedulerInv
<1>2. CASE SchedulerInit
  <2>1. tasks' = <<>> /\ stack' = <<>>
    BY <1>2 DEF SchedulerInit, AtTopLevel
  <2>2. DOMAIN tasks' = {} /\ DOMAIN stack' = {}
    BY <2>1, ZeroState
  <2> QED
    BY <1>1, <2>2 DEF SchedulerInv, NoTaskLost, ReentryNeedsPeriod, AgeBoundsElapsed,
                      UnfinishedReady
<1>3. ASSUME NEW priority \in Priorities, NEW period \in Periods,
             AddTask(priority, period)
      PROVE  SchedulerInv'
  BY <1>1, <1>3, AddKeepsInv
<1>4. CASE TickBody
  <2>1. sys_time_ms' = Now /\ (IdleTick \/ \E i \in DOMAIN tasks : DispatchOf(i))
    BY <1>1, <1>4, TickCases
  <2> QED
    BY <1>1, <2>1, IdleKeepsInv, DispatchKeepsInv
<1>5. CASE TaskReturn
  BY <1>1, <1>5, ReturnKeepsInv
<1>6. CASE DelayStep
  BY <1>1, <1>6, DelayKeepsInv
<1>7. CASE UNCHANGED <<tasks, stack, sys_time_ms>>
  BY <1>1, <1>7 DEF SchedulerInv, NoTaskLost, OnStack, ReentryNeedsPeriod,
                    AgeBoundsElapsed, UnfinishedReady
<1> QED
  BY <1>2, <1>3, <1>4, <1>5, <1>6, <1>7
     DEF Next, Tick, Yield, DelayStep, Start, vars

\* SchedulerInv holds in every reachable state.
THEOREM Invariant == Spec => []SchedulerInv
<1>1. Init => SchedulerInv
  BY TypeCorrectInit, EmptyInv DEF Init
<1> QED
  BY <1>1, InvStep, PTL DEF Spec

\* No task is ever lost: whatever is yielded, delayed, re-entered or added, a
\* task that is not executing can be dispatched by the next tick.
THEOREM TasksAreNeverLost == Spec => []NoTaskLost
<1>1. SchedulerInv => NoTaskLost
  BY DEF SchedulerInv
<1> QED
  BY <1>1, Invariant, PTL

\* A task is re-entered only if it is periodic, a full period after each of its
\* unfinished instances was dispatched; a task without period never is.
THEOREM ReentryIsPeriodic == Spec => []ReentryNeedsPeriod
<1>1. SchedulerInv => ReentryNeedsPeriod
  BY DEF SchedulerInv
<1> QED
  BY <1>1, Invariant, PTL

\* A deadline miss is counted only for an instance that returns after more
\* ticks than its deadline, although last_run may belong to a later instance
\* and the clock may have wrapped in between.
THEOREM NoSpuriousMiss == Spec => MissIsReal
<1> DEFINE Step == \A i \in DOMAIN tasks \intersect DOMAIN tasks' :
                      tasks'[i].missed_deadlines # tasks[i].missed_deadlines
                          => InBody /\ Top.task = i /\ Top.age > tasks[i].deadline_ms
<1>1. SchedulerInv /\ [Next]_vars => [Step]_vars
  <2> SUFFICES ASSUME SchedulerInv, Next,
                      NEW i \in DOMAIN tasks \intersect DOMAIN tasks',
                      tasks'[i].missed_deadlines # tasks[i].missed_deadlines
               PROVE  InBody /\ Top.task = i /\ Top.age > tasks[i].deadline_ms
    OBVIOUS
  <2>1. TypeOK /\ sys_time_ms \in Uint /\ Now \in Uint /\ i \in 1 .. Len(tasks)
        /\ tasks[i] \in Task
    BY Domains, UintClosed DEF SchedulerInv, TypeOK, Now
  <2>2. ~SchedulerInit
    <3> SUFFICES ASSUME SchedulerInit PROVE FALSE
      OBVIOUS
    <3> QED
      BY ZeroState DEF SchedulerInit
  <2>3. ~TickBody
    <3> SUFFICES ASSUME TickBody PROVE FALSE
      OBVIOUS
    <3>1. Released(tasks[i], Now) \in Task
          /\ Released(tasks[i], Now).missed_deadlines = tasks[i].missed_deadlines
      BY <2>1, ReleasedEffect
    <3>2. Dispatched(Released(tasks[i], Now), Now).missed_deadlines = tasks[i].missed_deadlines
      BY <2>1, <3>1, DispatchedEffect
    <3> QED
      BY <2>1, <3>1, <3>2, TickCases, IdleEffect, DispatchEffect
  <2>4. ~\E priority \in Priorities, period \in Periods : AddTask(priority, period)
    BY <2>1, AddEffect
  <2>5. ~DelayStep /\ ~Start
    BY <2>1, DelayEffect DEF Start
  <2>6. TaskReturn
    BY <2>2, <2>3, <2>4, <2>5 DEF Next, Tick, Yield, DelayStep
  <2>7. Top.task = i /\ Finished(tasks[i]).missed_deadlines # tasks[i].missed_deadlines
    BY <2>1, <2>6, ReturnEffect
  <2>8. Elapsed(sys_time_ms, tasks[i].last_run) > tasks[i].deadline_ms
    BY <2>1, <2>7, FinishedEffect
  <2>9. Elapsed(sys_time_ms, tasks[i].last_run) <= Top.age
    BY <2>1, <2>6, <2>7, ReturnEffect, InvFacts
  <2>10. /\ Elapsed(sys_time_ms, tasks[i].last_run) \in Nat
         /\ tasks[i].deadline_ms \in Nat /\ Top.age \in Nat
    <3>1. /\ Elapsed(sys_time_ms, tasks[i].last_run) \in Uint
          /\ tasks[i].deadline_ms \in Uint
      BY <2>1, UintClosed DEF Task
    <3>2. Top.age \in Uint
      BY <2>1, <2>6, ReturnEffect, Domains DEF Frame
    <3> QED
      BY <3>1, <3>2, SchedulerAssumption DEF Uint
  <2> QED
    BY <2>6, <2>7, <2>8, <2>9, <2>10 DEF TaskReturn
<1>2. Spec => [][Step]_vars
  BY <1>1, Invariant, PTL DEF Spec
<1> QED
  BY <1>2 DEF MissIsReal

-----------------------------------------------------------------------------
(* Every tick is accounted for.  TotalRuns is recursive: IsTotal says what it *)
(* computes, TotalIsTotal that it does, and SumAfter what a change of the     *)
(* table does to it, by induction over the table.                             *)

\* f[i] is the sum of the run counts of the first i tasks of a table.
IsTotal(f, ts) ==
    /\ f \in [0 .. Len(ts) -> Uint]
    /\ f[0] = 0
    /\ \A i \in 1 .. Len(ts) : f[i] = Plus(f[i - 1], ts[i].run_count)

\* The recursion of TotalRuns computes these sums.
LEMMA TotalIsTotal ==
    ASSUME NEW ts \in Seq(Task)
    PROVE  \E f : IsTotal(f, ts) /\ TotalRuns(ts) = f[Len(ts)]
<1> DEFINE n == Len(ts)
           Rec(f) == f = [i \in 0 .. n |-> IF i = 0 THEN 0 ELSE Plus(f[i - 1], ts[i].run_count)]
           Step == [p \in (1 .. n) \X Uint |-> Plus(p[2], ts[p[1]].run_count)]
<1>1. n \in Nat /\ \A i \in 1 .. n : ts[i].run_count \in Uint
  <2>1. \A i \in 1 .. n : ts[i] \in Task  BY ElementOfSeq
  <2> QED  BY <2>1, LenProperties DEF Task
<1>2. 0 \in Uint /\ Step \in [(1 .. n) \X Uint -> Uint]
  <2>1. 0 \in Uint  BY SchedulerAssumption DEF Uint
  <2>2. \A i \in 1 .. n, x \in Uint : Plus(x, ts[i].run_count) \in Uint
    BY <1>1, UintClosed
  <2> HIDE DEF n
  <2> QED  BY <2>1, <2>2
<1>3. PICK f : IsLoop(f, Uint, n, 0, Step)
  <2> DEFINE zero == 0
  <2>1. n \in Nat /\ zero \in Uint /\ Step \in [(1 .. n) \X Uint -> Uint]
    BY <1>1, <1>2
  <2> HIDE DEF n, Step, zero
  <2>2. \E f : IsLoop(f, Uint, n, zero, Step)  BY <2>1, LoopExists, Zenon
  <2> QED  BY <2>2 DEF zero
<1>4. \A i \in 1 .. n : i - 1 \in 0 .. n /\ i # 0  BY <1>1
<1>5. \A i \in 1 .. n : f[i] = Plus(f[i - 1], ts[i].run_count)
  BY <1>3, <1>4 DEF IsLoop
<1>6. Rec(f)
  <2>1. \A i \in 0 .. n : i = 0 \/ i \in 1 .. n  BY <1>1
  <2> QED  BY <1>3, <1>5, <2>1 DEF IsLoop
<1> DEFINE total == CHOOSE g : Rec(g)
<1>7. Rec(total)  BY <1>6, Zenon
<1>8. TotalRuns(ts) = total[n]  BY Zenon DEF TotalRuns
<1> HIDE DEF total
<1>9. IsTotal(total, ts)
  <2>1. total = [i \in 0 .. n |-> IF i = 0 THEN 0 ELSE Plus(total[i - 1], ts[i].run_count)]
    BY <1>7
  <2>2. /\ DOMAIN total = 0 .. n /\ total = [i \in DOMAIN total |-> total[i]] /\ total[0] = 0
        /\ \A i \in 1 .. n : total[i] = Plus(total[i - 1], ts[i].run_count)
    BY <1>1, <1>4, <2>1
  <2>3. \A i \in 1 .. n : total[i - 1] \in Uint => total[i] = Step[<<i, total[i - 1]>>]
    BY <2>2
  <2>4. IsLoop(total, Uint, n, 0, Step)
    <3> DEFINE zero == 0
    <3>1. /\ n \in Nat /\ zero \in Uint /\ Step \in [(1 .. n) \X Uint -> Uint]
          /\ total[0] = zero
      BY <1>1, <1>2, <2>2
    <3> HIDE DEF n, Step, zero
    <3>2. IsLoop(total, Uint, n, zero, Step)  BY <2>2, <2>3, <3>1, IsTheLoop
    <3> QED  BY <3>2 DEF zero
  <2> QED  BY <2>2, <2>4 DEF IsLoop, IsTotal
<1> QED  BY <1>8, <1>9

\* Where one is added to a sum makes no difference, although both wrap.
LEMMA IncPlus ==
    ASSUME NEW x \in Uint, NEW y \in Uint
    PROVE  Plus(Inc(x), y) = Inc(Plus(x, y)) /\ Plus(x, Inc(y)) = Inc(Plus(x, y))
<1>1. UINT \in Nat /\ UINT > 1 /\ x \in 0 .. UINT - 1 /\ y \in 0 .. UINT - 1
  BY SchedulerAssumption DEF Uint
<1>2. Plus(Inc(x), y) = Inc(Plus(x, y))
  <2>1. CASE x = UINT - 1  BY <1>1, <2>1 DEF Plus, Inc
  <2>2. CASE x # UINT - 1  BY <1>1, <2>2 DEF Plus, Inc
  <2> QED  BY <2>1, <2>2
<1>3. Plus(x, Inc(y)) = Inc(Plus(x, y))
  <2>1. CASE y = UINT - 1  BY <1>1, <2>1 DEF Plus, Inc
  <2>2. CASE y # UINT - 1  BY <1>1, <2>2 DEF Plus, Inc
  <2> QED  BY <2>1, <2>2
<1> QED  BY <1>2, <1>3

\* The sums of two tables that agree on the run counts of the first n tasks, except that
\* task "more" of the second table, if it is one of them, has run once more.
LEMMA SumAfter ==
    ASSUME NEW ts \in Seq(Task), NEW us \in Seq(Task), Len(ts) <= Len(us), NEW more \in Nat,
           \A i \in 1 .. Len(ts) :
               us[i].run_count = IF i = more THEN Inc(ts[i].run_count) ELSE ts[i].run_count,
           NEW f, IsTotal(f, ts), NEW g, IsTotal(g, us)
    PROVE  g[Len(ts)] = IF more \in 1 .. Len(ts) THEN Inc(f[Len(ts)]) ELSE f[Len(ts)]
<1> DEFINE n == Len(ts)
           Sum(k) == IF more \in 1 .. k THEN Inc(f[k]) ELSE f[k]
           N == {k \in Nat : g[k] = Sum(k)}
<1>1. n \in Nat /\ Len(us) \in Nat /\ \A i \in 1 .. n : i \in 1 .. Len(us)  BY LenProperties
<1>2. \A i \in 1 .. n : ts[i].run_count \in Uint
  <2>1. \A i \in 1 .. n : ts[i] \in Task  BY ElementOfSeq
  <2> QED  BY <2>1 DEF Task
<1>3. 0 \in N
  <2>1. g[0] = 0 /\ f[0] = 0 /\ more \notin 1 .. 0  BY DEF IsTotal
  <2> QED  BY <2>1
<1>4. ASSUME NEW k \in 0 .. n - 1, k \in N PROVE k + 1 \in N
  <2> DEFINE i == k + 1
             c == ts[i].run_count
  <2>1. k \in Nat /\ i \in Nat /\ i \in 1 .. n /\ i - 1 = k /\ k \in 0 .. n  BY <1>1
  <2>2. f[k] \in Uint /\ c \in Uint  BY <1>2, <2>1 DEF IsTotal
  <2>3. f[i] = Plus(f[k], c) /\ g[i] = Plus(g[k], us[i].run_count)
    <3> HIDE DEF i
    <3> QED  BY <1>1, <2>1 DEF IsTotal
  <2>4. us[i].run_count = IF i = more THEN Inc(c) ELSE c  BY <2>1
  <2>5. g[k] = Sum(k)  BY <1>4
  <2>6. more \in 1 .. i <=> more \in 1 .. k \/ more = i  BY <2>1
  <2>7. more \in 1 .. k => more # i  BY <2>1
  <2>8. /\ Plus(Inc(f[k]), c) = Inc(Plus(f[k], c))
        /\ Plus(f[k], Inc(c)) = Inc(Plus(f[k], c))
    <3> HIDE DEF c
    <3> QED  BY <2>2, IncPlus
  <2> HIDE DEF c, i
  <2>9. g[i] = Sum(i)  BY <2>3, <2>4, <2>5, <2>6, <2>7, <2>8
  <2> QED  BY <2>1, <2>9 DEF i
<1>5. 0 .. n \subseteq N
  <2>1. N \in SUBSET Nat  OBVIOUS
  <2> HIDE DEF N, n
  <2> QED  BY <1>1, <1>3, <1>4, <2>1, InductionOn
<1> QED  BY <1>1, <1>5

\* The same of TotalRuns itself, for a table of the same length.
LEMMA RunsAfter ==
    ASSUME NEW ts \in Seq(Task), NEW us \in Seq(Task), Len(ts) = Len(us), NEW more \in Nat,
           \A i \in 1 .. Len(ts) :
               us[i].run_count = IF i = more THEN Inc(ts[i].run_count) ELSE ts[i].run_count
    PROVE  /\ TotalRuns(ts) \in Uint
           /\ TotalRuns(us) = IF more \in 1 .. Len(ts) THEN Inc(TotalRuns(ts)) ELSE TotalRuns(ts)
<1>1. PICK f : IsTotal(f, ts) /\ TotalRuns(ts) = f[Len(ts)]  BY TotalIsTotal
<1>2. PICK g : IsTotal(g, us) /\ TotalRuns(us) = g[Len(us)]  BY TotalIsTotal
<1>3. Len(ts) \in Nat /\ Len(ts) \in 0 .. Len(ts) /\ Len(ts) <= Len(us)  BY LenProperties
<1>4. g[Len(ts)] = IF more \in 1 .. Len(ts) THEN Inc(f[Len(ts)]) ELSE f[Len(ts)]
  BY <1>1, <1>2, <1>3, SumAfter
<1>5. f[Len(ts)] \in Uint  BY <1>1, <1>3 DEF IsTotal
<1> QED  BY <1>1, <1>2, <1>4, <1>5

\* A task that has not run adds nothing.
LEMMA RunsOfNewTask ==
    ASSUME NEW ts \in Seq(Task), NEW t \in Task, t.run_count = 0
    PROVE  TotalRuns(Append(ts, t)) = TotalRuns(ts)
<1> DEFINE us == Append(ts, t)
           n == Len(ts)
<1>1. /\ us \in Seq(Task) /\ Len(us) = n + 1 /\ us[n + 1] = t
      /\ \A i \in 1 .. n : us[i] = ts[i]
  BY AppendEffect
<1>2. n \in Nat /\ n <= n + 1 /\ 0 \notin 1 .. n /\ n + 1 \in 1 .. n + 1 /\ (n + 1) - 1 = n
      /\ n \in 0 .. n /\ 0 \in Nat
  BY LenProperties
<1>3. PICK f : IsTotal(f, ts) /\ TotalRuns(ts) = f[n]  BY TotalIsTotal
<1> HIDE DEF us
<1>4. PICK g : IsTotal(g, us) /\ TotalRuns(us) = g[Len(us)]  BY <1>1, TotalIsTotal
<1>5. g[n] = f[n]
  <2>1. \A i \in 1 .. n : us[i].run_count = IF i = 0 THEN Inc(ts[i].run_count) ELSE ts[i].run_count
    BY <1>1, <1>2
  <2>2. g[n] = IF 0 \in 1 .. n THEN Inc(f[n]) ELSE f[n]
    BY <1>1, <1>2, <1>3, <1>4, <2>1, SumAfter
  <2> QED  BY <1>2, <2>2
<1>6. g[n + 1] = Plus(g[n], t.run_count)
  <2>1. n + 1 \in 1 .. Len(us)  BY <1>1, <1>2
  <2> HIDE DEF n
  <2> QED  BY <1>1, <1>2, <1>4, <2>1 DEF IsTotal
<1>7. f[n] \in Uint  BY <1>2, <1>3 DEF IsTotal
<1>8. Plus(f[n], 0) = f[n]  BY <1>7, SchedulerAssumption DEF Plus, Uint
<1> QED  BY <1>1, <1>3, <1>4, <1>5, <1>6, <1>8 DEF us

\* The helpers of scheduler_tick() leave the run count alone, but for the dispatch.
LEMMA RunCounts ==
    ASSUME NEW t \in Task, NEW now
    PROVE  /\ Released(t, now).run_count = t.run_count
           /\ Dispatched(t, now).run_count = Inc(t.run_count)
           /\ Finished(t).run_count = t.run_count
  BY DEF Released, Dispatched, Finished, Task

\* A fresh scheduler has no ticks to account for.
LEMMA EmptyAccounts ==
    ASSUME tasks = <<>>, idle_time = 0, tick_count = 0
    PROVE  TickAccounting
<1>1. <<>> \in Seq(Task) /\ Len(<<>>) = 0  BY ZeroState
<1>2. PICK f : IsTotal(f, <<>>) /\ TotalRuns(<<>>) = f[Len(<<>>)]  BY <1>1, TotalIsTotal
<1>3. TotalRuns(<<>>) = 0  BY <1>1, <1>2 DEF IsTotal
<1> QED  BY <1>3, SchedulerAssumption DEF TickAccounting, Plus

\* Every step keeps the accounts.
LEMMA StepTickAccounting == TypeOK /\ TickAccounting /\ [Next]_vars => TickAccounting'
<1> SUFFICES ASSUME TypeOK, TickAccounting, [Next]_vars
             PROVE  Plus(idle_time', TotalRuns(tasks')) = tick_count'
  BY DEF TickAccounting
<1>1. Plus(idle_time, TotalRuns(tasks)) = tick_count /\ tasks \in Seq(Task) /\ idle_time \in Uint
  BY DEF TickAccounting, TypeOK
<1>2. /\ Len(tasks) \in Nat /\ 0 \in Nat /\ 0 \notin 1 .. Len(tasks)
      /\ \A i \in 1 .. Len(tasks) : tasks[i] \in Task /\ i \in Nat
  BY Domains
<1>3. TotalRuns(tasks) \in Uint
  <2>1. \A i \in 1 .. Len(tasks) :
           tasks[i].run_count = IF i = 0 THEN Inc(tasks[i].run_count) ELSE tasks[i].run_count
    BY <1>2
  <2> QED  BY <1>1, <1>2, <2>1, RunsAfter
<1>4. CASE SchedulerInit
  <2>1. tasks' = <<>> /\ idle_time' = 0 /\ tick_count' = 0  BY <1>4 DEF SchedulerInit
  <2>2. <<>> \in Seq(Task) /\ Len(<<>>) = 0  BY ZeroState
  <2>3. PICK f : IsTotal(f, <<>>) /\ TotalRuns(<<>>) = f[Len(<<>>)]  BY <2>2, TotalIsTotal
  <2>4. TotalRuns(<<>>) = 0  BY <2>2, <2>3 DEF IsTotal
  <2> QED  BY <2>1, <2>4, SchedulerAssumption DEF Plus
<1>5. ASSUME NEW priority \in Priorities, NEW period \in Periods, AddTask(priority, period)
      PROVE  Plus(idle_time', TotalRuns(tasks')) = tick_count'
  <2> DEFINE new == NewTask(priority, period)
  <2>1. new \in Task /\ new.run_count = 0  BY NewTaskEffect DEF NewTask
  <2>2. tasks' = Append(tasks, new) /\ idle_time' = idle_time /\ tick_count' = tick_count
    BY <1>5 DEF AddTask
  <2> HIDE DEF new
  <2>3. TotalRuns(tasks') = TotalRuns(tasks)  BY <1>1, <2>1, <2>2, RunsOfNewTask
  <2> QED  BY <1>1, <2>2, <2>3
<1>6. CASE TickBody
  <2>1. tick_count' = Inc(tick_count) /\ (IdleTick \/ \E k \in DOMAIN tasks : DispatchOf(k))
    BY <1>6, TickCases
  <2>2. CASE IdleTick
    <3>1. /\ tasks' \in Seq(Task) /\ Len(tasks') = Len(tasks)
          /\ \A i \in 1 .. Len(tasks) : tasks'[i] = Released(tasks[i], Now)
      BY <2>2, IdleEffect
    <3>2. \A i \in 1 .. Len(tasks) :
             tasks'[i].run_count = IF i = 0 THEN Inc(tasks[i].run_count) ELSE tasks[i].run_count
      BY <1>2, <3>1, RunCounts
    <3>3. TotalRuns(tasks') = TotalRuns(tasks)  BY <1>1, <1>2, <3>1, <3>2, RunsAfter
    <3>4. idle_time' = Inc(idle_time)  BY <2>2 DEF IdleTick
    <3> QED  BY <1>1, <1>3, <2>1, <3>3, <3>4, IncPlus
  <2>3. ASSUME NEW k, DispatchOf(k)
        PROVE  Plus(idle_time', TotalRuns(tasks')) = tick_count'
    <3>1. /\ tasks' \in Seq(Task) /\ Len(tasks') = Len(tasks) /\ k \in 1 .. Len(tasks)
          /\ \A i \in 1 .. Len(tasks) :
                 tasks'[i] = IF i = k THEN Dispatched(Released(tasks[i], Now), Now)
                                      ELSE Released(tasks[i], Now)
      BY <2>3, DispatchEffect
    <3>2. \A i \in 1 .. Len(tasks) : Released(tasks[i], Now) \in Task
      BY <1>2, ReleasedTasksEffect, ReleasedEffect, UintClosed DEF TypeOK, Now
    <3>3. \A i \in 1 .. Len(tasks) :
             tasks'[i].run_count = IF i = k THEN Inc(tasks[i].run_count) ELSE tasks[i].run_count
      BY <1>2, <3>1, <3>2, RunCounts
    <3>4. k \in Nat  BY <1>2, <3>1
    <3>5. TotalRuns(tasks') = Inc(TotalRuns(tasks))  BY <1>1, <3>1, <3>3, <3>4, RunsAfter
    <3>6. idle_time' = idle_time  BY <2>3 DEF DispatchOf
    <3> QED  BY <1>1, <1>3, <2>1, <3>5, <3>6, IncPlus
  <2> QED  BY <2>1, <2>2, <2>3
<1>7. CASE TaskReturn
  <2>1. /\ tasks' \in Seq(Task) /\ Len(tasks') = Len(tasks)
        /\ \A i \in 1 .. Len(tasks) :
               tasks'[i] = IF i = Top.task THEN Finished(tasks[i]) ELSE tasks[i]
    BY <1>7, ReturnEffect
  <2>2. \A i \in 1 .. Len(tasks) :
           tasks'[i].run_count = IF i = 0 THEN Inc(tasks[i].run_count) ELSE tasks[i].run_count
    BY <1>2, <2>1, RunCounts
  <2>3. TotalRuns(tasks') = TotalRuns(tasks)  BY <1>1, <1>2, <2>1, <2>2, RunsAfter
  <2> QED  BY <1>1, <1>7, <2>3 DEF TaskReturn
<1>8. CASE UNCHANGED <<tasks, tick_count, idle_time>>
  BY <1>1, <1>8
<1>9. DelayStep => UNCHANGED <<tasks, tick_count, idle_time>>
  BY DelayEffect
<1> QED
  BY <1>4, <1>5, <1>6, <1>7, <1>8, <1>9 DEF Next, Tick, Yield, DelayStep, Start, vars

\* Whatever is yielded, re-entered, added or wrapped, each tick was either idle or started
\* one instance.
THEOREM EveryTickIsAccountedFor == Spec => []TickAccounting
<1>1. Init => TypeOK /\ TickAccounting
  BY TypeCorrectInit, EmptyAccounts DEF Init
<1>2. TypeOK /\ TickAccounting /\ [Next]_vars => TypeOK' /\ TickAccounting'
  BY TypeCorrectStep, StepTickAccounting
<1> QED  BY <1>1, <1>2, PTL DEF Spec

-----------------------------------------------------------------------------
(* The semaphore.                                                           *)

\* Each step of tasks that use a semaphore is a step of the scheduler, or none.
LEMMA SemStepIsStep == [SemNext]_allVars => [Next]_vars
  BY DEF SemNext, SchedulerCall, Return, Take, TakeSleeps, TakeFails, Give, allVars, Next

\* The semaphore leaves the scheduler alone: all that is proved of Spec holds of the tasks
\* that use it.
THEOREM SemaphoreKeepsScheduler == SemSpec => Spec
  BY SemStepIsStep, PTL DEF SemSpec, Spec

\* The types of the semaphore's state.
SemTypeOK ==
    /\ sem \in [count : Nat, max_count : Nat]
    /\ initial \in Nat /\ refused \in Nat
    /\ IsFiniteSet(held)

\* What is inductive about the semaphore.
SemInv == SemTypeOK /\ UnitsAccountedFor /\ OnlyExcessIsRefused

\* The units after init, which accepts more of them than the maximum.
LEMMA SemInitInv == Init /\ SemaphoreInit => SemInv
<1> SUFFICES ASSUME Init, SemaphoreInit PROVE SemInv  OBVIOUS
<1>1. /\ initial \in Uint /\ refused = 0 /\ held = {}
      /\ \E max \in Uint : sem = [count |-> initial, max_count |-> max]
  BY SemaphoreAssumption DEF SemaphoreInit
<1>2. initial \in Nat /\ sem \in [count : Nat, max_count : Nat] /\ sem.count = initial
  BY <1>1 DEF Uint
<1>3. IsFiniteSet({}) /\ Cardinality({}) = 0  BY FS_EmptySet
<1>4. UnitsAccountedFor  BY <1>1, <1>2, <1>3 DEF UnitsAccountedFor
<1>5. OnlyExcessIsRefused  BY <1>1, <1>2 DEF OnlyExcessIsRefused
<1> QED  BY <1>1, <1>2, <1>3, <1>4, <1>5 DEF SemInv, SemTypeOK

\* The innermost frame, if its task is executing.
LEMMA InnermostFrame ==
    ASSUME TypeOK, InBody
    PROVE  Len(stack) \in 1 .. Len(stack)
<1>1. stack \in Seq(Frame) /\ stack # <<>>  BY DEF TypeOK, InBody
<1> QED  BY <1>1, EmptySeq, LenProperties

\* No frame goes but by a return.
LEMMA FramesStay ==
    ASSUME TypeOK, SchedulerCall
    PROVE  Len(stack) \in Nat /\ Len(stack') \in Nat /\ Len(stack) <= Len(stack')
<1>1. Len(stack) \in Nat  BY Domains
<1>2. ASSUME TickBody PROVE Len(stack') \in {Len(stack), Len(stack) + 1}
  BY <1>2, TickCases, IdleEffect, DispatchEffect
<1>3. ASSUME NEW priority \in Priorities, NEW period \in Periods, AddTask(priority, period)
      PROVE  stack' = stack
  BY <1>3 DEF AddTask
<1> QED  BY <1>1, <1>2, <1>3 DEF SchedulerCall, Tick, Yield

\* Every step keeps the units.
LEMMA SemStepInv == TypeOK /\ SemInv /\ [SemNext]_allVars => SemInv'
<1> SUFFICES ASSUME TypeOK, SemInv, [SemNext]_allVars PROVE SemInv'  OBVIOUS
<1> DEFINE d == Len(stack)
           n == Cardinality(held)
<1>1. /\ sem \in [count : Nat, max_count : Nat] /\ initial \in Nat /\ refused \in Nat
      /\ IsFiniteSet(held) /\ held \subseteq 1 .. d /\ sem.count + n + refused = initial
      /\ refused <= IF initial > sem.max_count THEN initial - sem.max_count ELSE 0
      /\ n \in Nat /\ d \in Nat
  BY FS_CardinalityType, Domains DEF SemInv, SemTypeOK, UnitsAccountedFor, OnlyExcessIsRefused
<1>2. ASSUME UNCHANGED <<sem, initial, refused, held>>, Len(stack') \in Nat, d <= Len(stack')
      PROVE  SemInv'
  <2>1. held' \subseteq 1 .. Len(stack')  BY <1>1, <1>2
  <2> QED
    BY <1>2, <2>1 DEF SemInv, SemTypeOK, UnitsAccountedFor, OnlyExcessIsRefused
<1>3. CASE SchedulerCall
  BY <1>2, <1>3, FramesStay DEF SchedulerCall, semVars
<1>4. CASE Return
  <2>1. UNCHANGED <<sem, initial, refused, held>> /\ d \notin held /\ Len(stack') = d - 1
    BY <1>4, ReturnEffect DEF Return, semVars
  <2>2. held' \subseteq 1 .. Len(stack')  BY <1>1, <2>1
  <2> QED
    BY <2>1, <2>2 DEF SemInv, SemTypeOK, UnitsAccountedFor, OnlyExcessIsRefused
<1>5. CASE Take
  <2>1. /\ sem.count > 0 /\ d \notin held /\ d \in 1 .. d
        /\ sem' = [sem EXCEPT !.count = @ - 1] /\ held' = held \union {d}
        /\ UNCHANGED <<stack, initial, refused>>
    BY <1>5, InnermostFrame DEF Take, Available, Awake, vars
  <2>2. IsFiniteSet(held') /\ Cardinality(held') = n + 1
    <3> HIDE DEF d
    <3> QED  BY <1>1, <2>1, FS_AddElement
  <2>3. /\ sem' \in [count : Nat, max_count : Nat] /\ sem'.count = sem.count - 1
        /\ sem'.max_count = sem.max_count
    BY <1>1, <2>1
  <2>4. held' \subseteq 1 .. Len(stack')  BY <1>1, <2>1
  <2>5. sem'.count + Cardinality(held') + refused' = initial'
    <3> HIDE DEF n, d
    <3> QED  BY <1>1, <2>1, <2>2, <2>3
  <2> QED
    BY <1>1, <2>1, <2>2, <2>3, <2>4, <2>5 DEF SemInv, SemTypeOK, UnitsAccountedFor, OnlyExcessIsRefused
<1>6. CASE Give
  <2>1. /\ d \in held /\ held' = held \ {d} /\ UNCHANGED <<stack, initial>>
        /\ \/ sem.count < sem.max_count /\ sem' = [sem EXCEPT !.count = @ + 1] /\ refused' = refused
           \/ ~(sem.count < sem.max_count) /\ refused' = refused + 1 /\ sem' = sem
    BY <1>6 DEF Give, Room, vars
  <2>2. IsFiniteSet(held') /\ Cardinality(held') = n - 1
    <3> HIDE DEF d
    <3> QED  BY <1>1, <2>1, FS_RemoveElement
  <2>3. n > 0
    <3>1. n # 0  BY <1>1, <2>1, FS_EmptySet
    <3> HIDE DEF n
    <3> QED  BY <1>1, <3>1
  <2>4. held' \subseteq 1 .. Len(stack')  BY <1>1, <2>1
  <2> HIDE DEF n, d
  <2>5. /\ sem' \in [count : Nat, max_count : Nat] /\ sem'.max_count = sem.max_count
        /\ refused' \in Nat /\ sem'.count + refused' = sem.count + refused + 1
    BY <1>1, <2>1
  <2>6. sem'.count \in Nat /\ sem'.count + Cardinality(held') + refused' = initial'
    BY <1>1, <2>1, <2>2, <2>5
  <2>7. refused' <= IF initial > sem.max_count THEN initial - sem.max_count ELSE 0
    BY <1>1, <2>1, <2>3
  <2> QED
    BY <1>1, <2>1, <2>2, <2>4, <2>5, <2>6, <2>7
       DEF SemInv, SemTypeOK, UnitsAccountedFor, OnlyExcessIsRefused
<1>7. CASE TakeSleeps \/ TakeFails \/ UNCHANGED allVars
  <2>1. UNCHANGED <<sem, initial, refused, held, stack>>
    BY <1>7 DEF TakeSleeps, TakeFails, allVars, semVars, vars
  <2> QED  BY <1>1, <1>2, <2>1
<1> QED  BY <1>3, <1>4, <1>5, <1>6, <1>7 DEF SemNext

\* SemInv and TypeOK hold together in every state of the tasks and their semaphore.
LEMMA SemInvariant == SemSpec => [](TypeOK /\ SemInv)
<1>1. Init /\ SemaphoreInit => TypeOK /\ SemInv
  BY TypeCorrectInit, SemInitInv
<1>2. TypeOK /\ SemInv /\ [SemNext]_allVars => (TypeOK /\ SemInv)'
  BY SemStepIsStep, TypeCorrectStep, SemStepInv
<1> QED  BY <1>1, <1>2, PTL DEF SemSpec

\* Nested ticks, re-entered tasks and failed calls neither make nor destroy a unit, and
\* every unit that is held is held by an instance that has not returned.
THEOREM UnitsAreAccountedFor == SemSpec => []UnitsAccountedFor
<1>1. SemInv => UnitsAccountedFor  BY DEF SemInv
<1> QED  BY <1>1, SemInvariant, PTL

\* semaphore_give() refuses no more units than semaphore_init() accepted in excess.
THEOREM ExcessAloneIsRefused == SemSpec => []OnlyExcessIsRefused
<1>1. SemInv => OnlyExcessIsRefused  BY DEF SemInv
<1> QED  BY <1>1, SemInvariant, PTL
=============================================================================
