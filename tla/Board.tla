------------------------------- MODULE Board -------------------------------
(***************************************************************************)
(* The virtual board of simulator/virt_board.c: power states, interrupts,  *)
(* pins and performance counters.                                          *)
(*                                                                         *)
(* A driver keeps a virt_interrupt_t or a virt_gpio_t of its own; the init *)
(* functions copy it into a table of the board, and every later call       *)
(* updates both, while virt_board_tick() and virt_board_reset() see the    *)
(* tables only.  virt_board_tick() CALLS the handlers of the interrupts    *)
(* that are due, in the order of their numbers, and looks at the table     *)
(* again after each; a handler may call any function of the board, the     *)
(* tick included.  "stack" holds the interrupt that each unfinished tick   *)
(* is serving.  Left out: the configuration, the two memories, the         *)
(* counters that advance with uptime_ms, reset_requested and call_count,   *)
(* which are never read or only printed.                                   *)
(***************************************************************************)
EXTENDS Naturals, Sequences

CONSTANTS
    IRQS,          \* interrupt numbers in use, each by one driver
    Handles,       \* the virt_gpio_t that name one pin; pins are independent
    NoHandle,      \* no virt_gpio_t
    Names,         \* names of performance counters
    LongNames,     \* those of more than 31 characters
    Truncated,     \* what strncpy() leaves of a long name, a name nobody uses
    MAX_COUNTERS,  \* size of perf_counters (16)
    UINT,          \* number of values of a uint32_t (2^32)
    MaxDepth       \* bound on the nesting of virt_board_tick() calls

ASSUME BoardAssumption ==
    /\ IRQS \subseteq Nat
    /\ NoHandle \notin Handles
    /\ LongNames \subseteq Names /\ Truncated \notin Names
    /\ MAX_COUNTERS \in Nat
    /\ UINT \in Nat \ {0, 1}
    /\ MaxDepth \in Nat \ {0}

VARIABLES
    running, sleep_mode, uptime_ms,  \* fields of "board"
    interrupts,     \* interrupts[]: enabled, pending, and whether handler is not NULL
    irq,            \* each driver's virt_interrupt_t; "ready" once it is initialised
    stack,          \* the interrupts whose handler has not returned, innermost last
    owed,           \* history: triggered outside its own handler, not served or revoked since
    asked,          \* history: triggered and not served or revoked since
    gpio_pin,       \* the pin's entry in gpio_pins[]
    gpio,           \* the virt_gpio_t; "ready" once it is initialised
    owner,          \* history: the virt_gpio_t that alone used the pin since it was set up
    perf_counters,  \* perf_counters[0 .. perf_counter_count - 1]
    measured        \* history: for each counter, the ticks that it should have measured

power == <<running, sleep_mode>>
irqVars == <<interrupts, irq, stack, owed, asked>>
pinVars == <<gpio_pin, gpio, owner>>
perfVars == <<perf_counters, measured>>
boardVars == <<power, uptime_ms, irqVars, pinVars, perfVars>>

Uint == 0 .. UINT - 1

Inc(x) == IF x = UINT - 1 THEN 0 ELSE x + 1

Plus(x, y) == IF x + y >= UINT THEN x + y - UINT ELSE x + y

\* Mutant: the difference taken as a magnitude, forgetting the wrap.
Elapsed_NoWrap(now, since) == IF now >= since THEN now - since ELSE since - now

Elapsed(now, since) == IF now >= since THEN now - since ELSE now + UINT - since

\* memset(interrupts, 0, ...).
NoInterrupts == [i \in IRQS |-> [enabled |-> FALSE, pending |-> FALSE, handler |-> FALSE]]

\* memset(gpio_pins, 0, ...).
NoPin == [value |-> FALSE, direction |-> FALSE]

\* The program before virt_board_init().
BoardInit ==
    /\ running = FALSE /\ sleep_mode = FALSE /\ uptime_ms = 0
    /\ interrupts = NoInterrupts
    /\ irq = [i \in IRQS |-> [ready |-> FALSE, enabled |-> FALSE, pending |-> FALSE]]
    /\ stack = <<>>
    /\ owed = {} /\ asked = {}
    /\ gpio_pin = NoPin
    /\ gpio = [h \in Handles |-> [ready |-> FALSE, value |-> FALSE, direction |-> FALSE]]
    /\ owner = NoHandle
    /\ perf_counters = <<>> /\ measured = <<>>

-----------------------------------------------------------------------------
(* Power.                                                                  *)

\* memset() of the two tables; the drivers' own copies keep what they hold.
TablesCleared ==
    /\ interrupts' = NoInterrupts /\ owed' = {} /\ asked' = {}
    /\ gpio_pin' = NoPin /\ owner' = NoHandle
    /\ UNCHANGED <<irq, stack, gpio>>

\* A counter that was started before uptime_ms was set back measures nonsense.
ResetBreaks(m) == [k \in DOMAIN m |-> [m[k] EXCEPT !.age = 0, !.unbroken = FALSE]]

OneTickOlder(m) ==
    [k \in DOMAIN m |-> IF m[k].unbroken THEN [m[k] EXCEPT !.age = Inc(@)] ELSE m[k]]

\* virt_board_init(), which may be called again.  When a malloc() fails it returns
\* before it has cleared the tables.
VirtBoardInit ==
    /\ running' = TRUE /\ sleep_mode' = FALSE /\ uptime_ms' = 0
    /\ \/ /\ TablesCleared
          /\ perf_counters' = <<>> /\ measured' = <<>>
       \/ /\ measured' = ResetBreaks(measured)
          /\ UNCHANGED <<irqVars, pinVars, perf_counters>>

\* virt_board_reset(), which leaves running alone.
Reset ==
    /\ sleep_mode' = FALSE /\ uptime_ms' = 0
    /\ TablesCleared
    /\ measured' = ResetBreaks(measured)
    /\ UNCHANGED <<running, perf_counters>>

\* virt_board_run(), virt_board_stop(), virt_board_deinit(), and the two functions
\* of the sleep mode.
Switch ==
    /\ \/ running' \in BOOLEAN /\ UNCHANGED sleep_mode
       \/ sleep_mode' \in BOOLEAN /\ UNCHANGED running
    /\ UNCHANGED <<uptime_ms, irqVars, pinVars, perfVars>>

-----------------------------------------------------------------------------
(* virt_board_tick().                                                      *)

\* The entries from "first" on whose handler the loop would call.
Due(table, first) ==
    {i \in IRQS : i >= first /\ table[i].enabled /\ table[i].pending /\ table[i].handler}

\* Mutant: the loop ends after one handler.
Scan_OneOnly(table, first, below) ==
    /\ interrupts' = table
    /\ \/ /\ Due(table, first) = {} \/ first > 0
          /\ stack' = below
          /\ UNCHANGED <<owed, asked>>
       \/ \E i \in Due(table, first) :
             /\ first = 0 /\ \A j \in Due(table, first) : i <= j
             /\ Len(below) < MaxDepth
             /\ stack' = Append(below, i)
             /\ owed' = owed \ {i} /\ asked' = asked \ {i}

\* The loop from entry "first" on, with "below" the other unfinished ticks: up to the
\* next call of a handler, or to the end of the tick.
Scan(table, first, below) ==
    /\ interrupts' = table
    /\ \/ /\ Due(table, first) = {}
          /\ stack' = below
          /\ UNCHANGED <<owed, asked>>
       \/ \E i \in Due(table, first) :
             /\ \A j \in Due(table, first) : i <= j
             /\ Len(below) < MaxDepth
             /\ stack' = Append(below, i)
             /\ owed' = owed \ {i} /\ asked' = asked \ {i}

\* Up to the first handler.
Tick ==
    /\ running /\ ~sleep_mode
    /\ uptime_ms' = Inc(uptime_ms)
    /\ measured' = OneTickOlder(measured)
    /\ Scan(interrupts, 0, stack)
    /\ UNCHANGED <<power, irq, pinVars, perf_counters>>

\* Called with no tick unfinished, by a program that uses the board.  The repository has
\* none: the loop of main.c:70-72 calls virt_board_update(), which is defined nowhere.
TickFromCaller == stack = <<>> /\ Tick

\* Called by a handler.
TickFromHandler == stack # <<>> /\ Tick

Top == stack[Len(stack)]

\* Mutant: pending is left as it is.
Served_StaysPending(i) == interrupts

\* Mutant: every pending flag is cleared, not only that of the entry.
Served_ClearsAll(i) == [j \in IRQS |-> [interrupts[j] EXCEPT !.pending = FALSE]]

\* After a handler returned: the flag is cleared now and not before the call.
Served(i) == [interrupts EXCEPT ![i].pending = FALSE]

HandlerReturn ==
    /\ stack # <<>>
    /\ Scan(Served(Top), Top + 1, SubSeq(stack, 1, Len(stack) - 1))
    /\ UNCHANGED <<power, uptime_ms, irq, pinVars, perfVars>>

-----------------------------------------------------------------------------
(* Interrupts; each function may be called by main code or by a handler.   *)

\* virt_interrupt_init(); the handler may be NULL.
InterruptInit(i) ==
    /\ irq' = [irq EXCEPT ![i] = [ready |-> TRUE, enabled |-> FALSE, pending |-> FALSE]]
    /\ \E handler \in BOOLEAN :
          interrupts' = [interrupts EXCEPT ![i] = [enabled |-> FALSE, pending |-> FALSE,
                                                   handler |-> handler]]
    /\ owed' = owed \ {i} /\ asked' = asked \ {i}
    /\ UNCHANGED stack

\* Mutant: only the driver's copy is told.
SetEnabled_CopyOnly(i, enabled) ==
    /\ irq[i].ready
    /\ irq' = [irq EXCEPT ![i].enabled = enabled]
    /\ interrupts' = IF enabled THEN [interrupts EXCEPT ![i].enabled = TRUE] ELSE interrupts
    /\ UNCHANGED <<stack, owed, asked>>

\* virt_interrupt_enable() and virt_interrupt_disable().
SetEnabled(i, enabled) ==
    /\ irq[i].ready
    /\ irq' = [irq EXCEPT ![i].enabled = enabled]
    /\ interrupts' = [interrupts EXCEPT ![i].enabled = enabled]
    /\ UNCHANGED <<stack, owed, asked>>

OnStack(i) == \E d \in DOMAIN stack : stack[d] = i

\* virt_interrupt_trigger() asks the driver's copy whether the interrupt is enabled.
Trigger(i) ==
    /\ irq[i].ready /\ irq[i].enabled
    /\ irq' = [irq EXCEPT ![i].pending = TRUE]
    /\ interrupts' = [interrupts EXCEPT ![i].pending = TRUE]
    /\ asked' = asked \union {i}
    /\ owed' = IF OnStack(i) THEN owed ELSE owed \union {i}
    /\ UNCHANGED stack

\* virt_interrupt_clear().
Clear(i) ==
    /\ irq[i].ready
    /\ irq' = [irq EXCEPT ![i].pending = FALSE]
    /\ interrupts' = [interrupts EXCEPT ![i].pending = FALSE]
    /\ owed' = owed \ {i} /\ asked' = asked \ {i}
    /\ UNCHANGED stack

\* virt_interrupt_is_pending() asks the copy too.
IsPending(i) == irq[i].ready /\ irq[i].pending

InterruptStep ==
    /\ \E i \in IRQS :
          \/ InterruptInit(i) \/ Trigger(i) \/ Clear(i)
          \/ \E enabled \in BOOLEAN : SetEnabled(i, enabled)
    /\ UNCHANGED <<power, uptime_ms, pinVars, perfVars>>

-----------------------------------------------------------------------------
(* Pins.                                                                   *)

\* A use of the pin by h.
UsedBy(h) == owner' = IF owner = h THEN h ELSE NoHandle

\* virt_gpio_init(): an input that reads low.
GpioInit(h) ==
    /\ gpio' = [gpio EXCEPT ![h] = [ready |-> TRUE, value |-> FALSE, direction |-> FALSE]]
    /\ gpio_pin' = NoPin
    /\ owner' = h

\* virt_gpio_set_direction(); TRUE is output.
SetDirection(h, output) ==
    /\ gpio[h].ready
    /\ gpio' = [gpio EXCEPT ![h].direction = output]
    /\ gpio_pin' = [gpio_pin EXCEPT !.direction = output]
    /\ UsedBy(h)

\* virt_gpio_write().
GpioWrite(h, value) ==
    /\ gpio[h].ready /\ gpio[h].direction
    /\ gpio' = [gpio EXCEPT ![h].value = value]
    /\ gpio_pin' = [gpio_pin EXCEPT !.value = value]
    /\ UsedBy(h)

\* Mutant: only the pin is inverted, the copy is left as it was.
Toggle_PinOnly(h) ==
    /\ gpio[h].ready /\ gpio[h].direction
    /\ gpio_pin' = [gpio_pin EXCEPT !.value = ~@]
    /\ UsedBy(h)
    /\ UNCHANGED gpio

\* virt_gpio_toggle().
Toggle(h) ==
    /\ gpio[h].ready /\ gpio[h].direction
    /\ gpio' = [gpio EXCEPT ![h].value = ~@]
    /\ gpio_pin' = [gpio_pin EXCEPT !.value = ~gpio[h].value]
    /\ UsedBy(h)

PinStep ==
    /\ \E h \in Handles :
          \/ GpioInit(h) \/ Toggle(h)
          \/ \E value \in BOOLEAN : SetDirection(h, value) \/ GpioWrite(h, value)
    /\ UNCHANGED <<power, uptime_ms, irqVars, perfVars>>

-----------------------------------------------------------------------------
(* Performance counters.                                                   *)

\* strncpy() to a field of 32 characters.
Stored(name) == IF name \in LongNames THEN Truncated ELSE name

\* The counters that strcmp() takes for the name; a truncated name is none.
Found(name) == {k \in DOMAIN perf_counters : perf_counters[k].name = name}

\* The first of them, which the loops stop at.
IsFirst(k, name) == k \in Found(name) /\ \A j \in Found(name) : k <= j

\* Mutant: no check for a full table.
StartCounter_NoCapacityCheck(name) ==
    \/ \E k \in DOMAIN perf_counters :
          /\ IsFirst(k, name)
          /\ perf_counters' = [perf_counters EXCEPT ![k].start_time = uptime_ms]
          /\ measured' = [measured EXCEPT ![k].age = 0, ![k].unbroken = TRUE]
    \/ /\ Found(name) = {}
       /\ perf_counters' = Append(perf_counters, [name |-> Stored(name), start_time |-> uptime_ms,
                                                  total_time |-> 0])
       /\ measured' = Append(measured, [age |-> 0, unbroken |-> TRUE, sum |-> 0, exact |-> TRUE])

\* virt_board_start_perf_counter(); a new counter when none is found, none when the
\* table is full.
StartCounter(name) ==
    \/ \E k \in DOMAIN perf_counters :
          /\ IsFirst(k, name)
          /\ perf_counters' = [perf_counters EXCEPT ![k].start_time = uptime_ms]
          /\ measured' = [measured EXCEPT ![k].age = 0, ![k].unbroken = TRUE]
    \/ /\ Found(name) = {} /\ Len(perf_counters) < MAX_COUNTERS
       /\ perf_counters' = Append(perf_counters, [name |-> Stored(name), start_time |-> uptime_ms,
                                                  total_time |-> 0])
       /\ measured' = Append(measured, [age |-> 0, unbroken |-> TRUE, sum |-> 0, exact |-> TRUE])

\* virt_board_stop_perf_counter(), which does not ask whether the counter was started
\* since it was stopped last.
StopCounter(name) ==
    \E k \in DOMAIN perf_counters :
        /\ IsFirst(k, name)
        /\ perf_counters' = [perf_counters EXCEPT
              ![k].total_time = Plus(@, Elapsed(uptime_ms, perf_counters[k].start_time))]
        /\ measured' = IF measured[k].exact /\ measured[k].unbroken
                       THEN [measured EXCEPT ![k].sum = Plus(@, measured[k].age)]
                       ELSE [measured EXCEPT ![k].sum = 0, ![k].exact = FALSE]

CounterStep ==
    /\ \E name \in Names : StartCounter(name) \/ StopCounter(name)
    /\ UNCHANGED <<power, uptime_ms, irqVars, pinVars>>

-----------------------------------------------------------------------------
PowerStep == VirtBoardInit \/ Reset \/ Switch \/ TickFromCaller \/ TickFromHandler \/ HandlerReturn

BoardNext == PowerStep \/ InterruptStep \/ PinStep \/ CounterStep

BoardSpec == BoardInit /\ [][BoardNext]_boardVars

\* Handlers return, the contract of a function that a tick calls.  Nothing is assumed of
\* the callers of virt_board_tick().
BoardFairness == WF_boardVars(HandlerReturn)

FairBoardSpec == BoardSpec /\ BoardFairness
-----------------------------------------------------------------------------
(* Properties.                                                             *)

PowerTypeOK == running \in BOOLEAN /\ sleep_mode \in BOOLEAN /\ uptime_ms \in Uint

IrqTypeOK ==
    /\ interrupts \in [IRQS -> [enabled : BOOLEAN, pending : BOOLEAN, handler : BOOLEAN]]
    /\ irq \in [IRQS -> [ready : BOOLEAN, enabled : BOOLEAN, pending : BOOLEAN]]
    /\ stack \in Seq(IRQS) /\ Len(stack) <= MaxDepth
    /\ owed \subseteq IRQS /\ asked \subseteq IRQS

PinTypeOK ==
    /\ gpio_pin \in [value : BOOLEAN, direction : BOOLEAN]
    /\ gpio \in [Handles -> [ready : BOOLEAN, value : BOOLEAN, direction : BOOLEAN]]
    /\ owner \in Handles \union {NoHandle}

Counter == [name : Names \union {Truncated}, start_time : Uint, total_time : Uint]
Measure == [age : Uint, unbroken : BOOLEAN, sum : Uint, exact : BOOLEAN]

PerfTypeOK ==
    /\ perf_counters \in Seq(Counter) /\ Len(perf_counters) <= MAX_COUNTERS
    /\ measured \in Seq(Measure)
    /\ Len(measured) = Len(perf_counters)

\* Type correctness; an unfinished tick serves an entry of the table, and no more
\* counters are in use than there are.
BoardTypeOK == PowerTypeOK /\ IrqTypeOK /\ PinTypeOK /\ PerfTypeOK

\* virt_board_tick() clears the flag only after the handler, so that a trigger during
\* the handler is lost.  No other one is: a trigger outside its own handler stays
\* pending until the handler is called or the trigger is revoked, whatever handlers,
\* nested ticks and other interrupts do meanwhile.
NoTriggerLost == \A i \in owed : interrupts[i].pending

\* A handler that calls virt_board_tick() finds its own flag still set and is called
\* again.  Nothing else calls a handler a second time for one trigger: what is pending
\* was triggered since its handler was called last, or that call has not returned.
NoServiceRepeated == \A i \in IRQS : interrupts[i].pending => i \in asked \/ OnStack(i)

\* The board changes its table without telling the drivers, whose copies grow stale,
\* but on the safe side: a handler is called only for an interrupt whose driver has it
\* enabled, and virt_interrupt_is_pending() misses nothing that is pending.
DriverSeesAll ==
    \A i \in IRQS : /\ interrupts[i].enabled => irq[i].ready /\ irq[i].enabled
                    /\ interrupts[i].pending => IsPending(i)

\* An output and its virt_gpio_t have one level and one direction, unless another
\* virt_gpio_t names the pin too or the board was reset since virt_gpio_init().
OwnerAgrees ==
    owner # NoHandle => /\ gpio[owner].value = gpio_pin.value
                        /\ gpio[owner].direction = gpio_pin.direction

\* A performance counter has added up the ticks between each start and the stops after
\* it, across the wrap of uptime_ms, unless uptime_ms was set back in between.
CountersAreExact ==
    \A k \in DOMAIN perf_counters : measured[k].exact => perf_counters[k].total_time = measured[k].sum

\* Only a name that strncpy() cut off takes a second counter.
OneCounterPerName ==
    \A j, k \in DOMAIN perf_counters :
        perf_counters[j].name = perf_counters[k].name /\ perf_counters[j].name # Truncated => j = k

\* What makes the properties above inductive.  A trigger during the handler's own call
\* is not owed, and the call revoked those before ...
ServedIsNotOwed == \A d \in DOMAIN stack : stack[d] \notin owed

\* ... and a running counter is as old as the clock says.
AgeIsElapsed ==
    \A k \in DOMAIN perf_counters :
        measured[k].unbroken => Elapsed(uptime_ms, perf_counters[k].start_time) = measured[k].age

\* The inductive invariants of HardwareProofs.
IrqInv == NoTriggerLost /\ NoServiceRepeated /\ ServedIsNotOwed

PerfInv == CountersAreExact /\ AgeIsElapsed

\* An entry that the loop would serve.
Serviceable(i) == interrupts[i].enabled /\ interrupts[i].handler

\* A tick serves all that is due above the entry where it is: an interrupt that is owed
\* while some unfinished tick is at a lower one is served, or revoked, without another
\* call of virt_board_tick() from outside.  Lower interrupts that handlers trigger again
\* and nested ticks serve again do not keep it waiting, nor does a handler that stops
\* the board or lets it sleep.
TickServesAll ==
    \A i \in IRQS :
        i \in owed /\ Serviceable(i) /\ (\E d \in DOMAIN stack : stack[d] < i)
            ~> i \notin owed \/ ~Serviceable(i)
=============================================================================
