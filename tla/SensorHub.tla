----------------------------- MODULE SensorHub -----------------------------
(***************************************************************************)
(* The program of main.c on top of Scheduler: main() adds the three        *)
(* application tasks and calls scheduler_tick() until "running" is cleared *)
(* by SIGINT or by a key.  The task functions of src/app never return:     *)
(* each is a loop of one round of work followed by scheduler_delay().      *)
(***************************************************************************)
EXTENDS Scheduler

VARIABLES
    main_running,  \* the volatile "running" of main.c
    shut_down,     \* main() has left its loop
    rounds         \* rounds[i]: the loop iterations of task i's function so far

hubVars == <<vars, main_running, shut_down, rounds>>

Sensor == 1
Communication == 2
Monitor == 3

\* The delay at the end of each loop: SENSOR_, COMM_ and MONITOR_TASK_PERIOD_MS.
LoopDelay == [i \in {Sensor, Communication, Monitor} |->
                 CASE i = Sensor -> 10 [] i = Communication -> 50 [] i = Monitor -> 1000]

HubInit ==
    /\ tasks = <<NewTask(1, 10), NewTask(2, 50), NewTask(3, 1000)>>
    /\ tick_count = 0
    /\ idle_time = 0
    /\ running = FALSE
    /\ sys_time_ms = 0
    /\ stack = <<>>
    /\ main_running = TRUE
    /\ shut_down = FALSE
    /\ rounds = [i \in {Sensor, Communication, Monitor} |-> 0]

\* One iteration of main()'s loop calls scheduler_tick() once.  The loop also tests
\* virt_board_is_running(), which stays true until main() has left it.
MainLoop ==
    /\ main_running
    /\ Tick
    /\ UNCHANGED <<main_running, shut_down, rounds>>

\* One round of the loop of task i's function: its work, which changes nothing that
\* the scheduler or another task reads, then scheduler_delay().  rounds stops at
\* UINT - 1; the code's sample and packet counters wrap.
Round(i) ==
    /\ InBody /\ Top.task = i
    /\ Delay(LoopDelay[i])
    /\ rounds' = [rounds EXCEPT ![i] = Older(@)]
    /\ UNCHANGED <<main_running, shut_down>>

\* sensor_task(), comm_task() and monitor_task().
SensorRound == Round(Sensor)
CommRound == Round(Communication)
MonitorRound == Round(Monitor)

DelayEnds == DelayReturn /\ UNCHANGED <<main_running, shut_down, rounds>>

\* SIGINT can arrive at any point; its handler only clears the flag.
Interrupt ==
    /\ main_running
    /\ main_running' = FALSE
    /\ UNCHANGED <<vars, shut_down, rounds>>

\* [q] and ESC are read by main() between two ticks.
QuitKey == AtTopLevel /\ Interrupt

\* main() tests the flag between two ticks only.
Shutdown ==
    /\ AtTopLevel /\ ~main_running /\ ~shut_down
    /\ shut_down' = TRUE
    /\ UNCHANGED <<vars, main_running, rounds>>

HubNext ==
    \/ MainLoop \/ SensorRound \/ CommRound \/ MonitorRound
    \/ DelayEnds \/ Interrupt \/ QuitKey \/ Shutdown

\* The processor never stops executing whatever the program can execute next.
HubSpec ==
    /\ HubInit /\ [][HubNext]_hubVars
    /\ WF_hubVars(MainLoop) /\ WF_hubVars(SensorRound) /\ WF_hubVars(CommRound) /\ WF_hubVars(MonitorRound)
    /\ WF_hubVars(DelayEnds) /\ WF_hubVars(Shutdown)

-----------------------------------------------------------------------------
(* What the documentation says, and the program does not do: the first     *)
(* tick calls sensor_task(), whose scheduler_delay() waits for a clock     *)
(* that only the suspended scheduler_tick() would advance.                 *)

\* README.md: "Priority 1, runs every 10ms" for the sensor task: unless the
\* user quits, a first sample is followed by a second one.
SensorSamplesAgain == rounds[Sensor] = 1 ~> rounds[Sensor] = 2 \/ ~main_running
=============================================================================
