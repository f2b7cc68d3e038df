--------------------------- MODULE HardwareProofs ---------------------------
(* Theorems about Board and Peripherals, for every set of interrupts,       *)
(* handles, names and arguments, every table size, word size and nesting    *)
(* bound.                                                                   *)
EXTENDS Board, Peripherals, LibraryLemmas

-----------------------------------------------------------------------------
(* Types.                                                                   *)

\* The arithmetic of the board stays inside uint32_t.
LEMMA UintClosed ==
    ASSUME NEW x \in Uint, NEW y \in Uint
    PROVE  0 \in Uint /\ Inc(x) \in Uint /\ Plus(x, y) \in Uint /\ Elapsed(x, y) \in Uint
  BY BoardAssumption DEF Uint, Inc, Plus, Elapsed

\* The tables are well formed after their memset().
LEMMA ClearedTypes ==
    /\ NoInterrupts \in [IRQS -> [enabled : BOOLEAN, pending : BOOLEAN, handler : BOOLEAN]]
    /\ NoPin \in [value : BOOLEAN, direction : BOOLEAN]
  BY DEF NoInterrupts, NoPin

\* What a scan leaves behind is well formed.
LEMMA ScanTypes ==
    ASSUME NEW table \in [IRQS -> [enabled : BOOLEAN, pending : BOOLEAN, handler : BOOLEAN]],
           NEW first, NEW below \in Seq(IRQS), Len(below) <= MaxDepth,
           owed \subseteq IRQS, asked \subseteq IRQS, irq' = irq,
           irq \in [IRQS -> [ready : BOOLEAN, enabled : BOOLEAN, pending : BOOLEAN]],
           Scan(table, first, below)
    PROVE  IrqTypeOK'
<1>1. CASE stack' = below /\ UNCHANGED <<owed, asked>>
  BY <1>1 DEF Scan, IrqTypeOK
<1>2. CASE \E i \in Due(table, first) :
             /\ Len(below) < MaxDepth /\ stack' = Append(below, i)
             /\ owed' = owed \ {i} /\ asked' = asked \ {i}
  <2>1. PICK i \in IRQS : /\ Len(below) < MaxDepth /\ stack' = Append(below, i)
                          /\ owed' = owed \ {i} /\ asked' = asked \ {i}
    BY <1>2 DEF Due
  <2>2. stack' \in Seq(IRQS) /\ Len(stack') = Len(below) + 1
    BY <2>1, AppendEffect
  <2>3. Len(below) \in Nat /\ MaxDepth \in Nat
    BY BoardAssumption, LenProperties
  <2> QED
    BY <2>1, <2>2, <2>3 DEF Scan, IrqTypeOK
<1> QED
  BY <1>1, <1>2 DEF Scan

\* The board's table after a handler is well formed, and so are the ticks that go on.
LEMMA ServedTypes ==
    ASSUME IrqTypeOK, stack # <<>>
    PROVE  /\ Top \in IRQS
           /\ Served(Top) \in [IRQS -> [enabled : BOOLEAN, pending : BOOLEAN, handler : BOOLEAN]]
           /\ SubSeq(stack, 1, Len(stack) - 1) \in Seq(IRQS)
           /\ Len(SubSeq(stack, 1, Len(stack) - 1)) <= MaxDepth
<1>1. stack \in Seq(IRQS) /\ Len(stack) \in Nat /\ Len(stack) > 0 /\ Len(stack) <= MaxDepth
  BY EmptySeq, LenProperties DEF IrqTypeOK
<1>2. Top \in IRQS
  BY <1>1, ElementOfSeq DEF Top
<1>3. Served(Top) \in [IRQS -> [enabled : BOOLEAN, pending : BOOLEAN, handler : BOOLEAN]]
  BY <1>2 DEF Served, IrqTypeOK
<1>4. /\ SubSeq(stack, 1, Len(stack) - 1) \in Seq(IRQS)
      /\ Len(SubSeq(stack, 1, Len(stack) - 1)) = Len(stack) - 1
  BY <1>1, PopEffect
<1> QED
  BY <1>1, <1>2, <1>3, <1>4, BoardAssumption

\* A flag of one entry may change.
LEMMA PendingChanged ==
    ASSUME NEW i \in IRQS, NEW pending \in BOOLEAN
    PROVE  /\ \A table \in [IRQS -> [enabled : BOOLEAN, pending : BOOLEAN, handler : BOOLEAN]] :
                 [table EXCEPT ![i].pending = pending] \in
                     [IRQS -> [enabled : BOOLEAN, pending : BOOLEAN, handler : BOOLEAN]]
           /\ \A table \in [IRQS -> [ready : BOOLEAN, enabled : BOOLEAN, pending : BOOLEAN]] :
                 [table EXCEPT ![i].pending = pending] \in
                     [IRQS -> [ready : BOOLEAN, enabled : BOOLEAN, pending : BOOLEAN]]
  OBVIOUS

\* The calls that concern one interrupt keep the types.
LEMMA InterruptStepTypes ==
    ASSUME IrqTypeOK, InterruptStep
    PROVE  IrqTypeOK'
<1>1. PICK i \in IRQS : \/ InterruptInit(i) \/ Trigger(i) \/ Clear(i)
                        \/ \E enabled \in BOOLEAN : SetEnabled(i, enabled)
  BY DEF InterruptStep
<1>2. CASE InterruptInit(i)
  BY <1>2 DEF InterruptInit, IrqTypeOK
<1>3. CASE Trigger(i)
  <2>1. interrupts' \in [IRQS -> [enabled : BOOLEAN, pending : BOOLEAN, handler : BOOLEAN]]
    BY <1>3, PendingChanged DEF Trigger, IrqTypeOK
  <2>2. irq' \in [IRQS -> [ready : BOOLEAN, enabled : BOOLEAN, pending : BOOLEAN]]
    BY <1>3, PendingChanged DEF Trigger, IrqTypeOK
  <2>3. stack' = stack /\ owed' \subseteq IRQS /\ asked' \subseteq IRQS
    BY <1>3 DEF Trigger, IrqTypeOK
  <2> QED
    BY <2>1, <2>2, <2>3 DEF IrqTypeOK
<1>4. CASE Clear(i)
  <2>1. interrupts' \in [IRQS -> [enabled : BOOLEAN, pending : BOOLEAN, handler : BOOLEAN]]
    BY <1>4, PendingChanged DEF Clear, IrqTypeOK
  <2>2. irq' \in [IRQS -> [ready : BOOLEAN, enabled : BOOLEAN, pending : BOOLEAN]]
    BY <1>4, PendingChanged DEF Clear, IrqTypeOK
  <2>3. stack' = stack /\ owed' \subseteq IRQS /\ asked' \subseteq IRQS
    BY <1>4 DEF Clear, IrqTypeOK
  <2> QED
    BY <2>1, <2>2, <2>3 DEF IrqTypeOK
<1>5. CASE \E enabled \in BOOLEAN : SetEnabled(i, enabled)
  BY <1>5 DEF SetEnabled, IrqTypeOK
<1> QED
  BY <1>1, <1>2, <1>3, <1>4, <1>5

\* The calls that concern the pin keep the types.
LEMMA PinStepTypes ==
    ASSUME PinTypeOK, PinStep
    PROVE  PinTypeOK'
<1>1. PICK h \in Handles : \/ GpioInit(h) \/ Toggle(h)
                           \/ \E value \in BOOLEAN : SetDirection(h, value) \/ GpioWrite(h, value)
  BY DEF PinStep
<1>2. CASE GpioInit(h)
  BY <1>2, ClearedTypes DEF GpioInit, PinTypeOK
<1>3. CASE Toggle(h)
  BY <1>3 DEF Toggle, UsedBy, PinTypeOK
<1>4. CASE \E value \in BOOLEAN : SetDirection(h, value)
  BY <1>4 DEF SetDirection, UsedBy, PinTypeOK
<1>5. CASE \E value \in BOOLEAN : GpioWrite(h, value)
  BY <1>5 DEF GpioWrite, UsedBy, PinTypeOK
<1> QED
  BY <1>1, <1>2, <1>3, <1>4, <1>5

\* The counters are numbered alike.
LEMMA PerfDomains ==
    ASSUME PerfTypeOK
    PROVE  /\ DOMAIN perf_counters = 1 .. Len(perf_counters)
           /\ DOMAIN measured = 1 .. Len(perf_counters)
           /\ Len(perf_counters) \in Nat
           /\ perf_counters \in [1 .. Len(perf_counters) -> Counter]
           /\ measured \in [1 .. Len(perf_counters) -> Measure]
  BY LenProperties DEF PerfTypeOK

\* Sequences that keep the number of counters keep the types.
LEMMA PerfStays ==
    ASSUME PerfTypeOK,
           perf_counters' \in [1 .. Len(perf_counters) -> Counter],
           measured' \in [1 .. Len(perf_counters) -> Measure]
    PROVE  PerfTypeOK'
<1>1. Len(perf_counters) \in Nat
  BY PerfDomains
<1>2. perf_counters' \in Seq(Counter) /\ Len(perf_counters') = Len(perf_counters)
  BY <1>1, FunctionIsSeq
<1>3. measured' \in Seq(Measure) /\ Len(measured') = Len(perf_counters)
  BY <1>1, FunctionIsSeq
<1> QED
  BY <1>2, <1>3 DEF PerfTypeOK

\* Setting the clock back, and one more tick, keep what is recorded of a counter.
LEMMA MeasureTypes ==
    ASSUME PerfTypeOK
    PROVE  /\ ResetBreaks(measured) \in [1 .. Len(perf_counters) -> Measure]
           /\ OneTickOlder(measured) \in [1 .. Len(perf_counters) -> Measure]
<1>1. 0 \in Uint /\ \A x \in Uint : Inc(x) \in Uint
  BY UintClosed, BoardAssumption DEF Uint
<1> QED
  BY <1>1, PerfDomains DEF ResetBreaks, OneTickOlder, Measure

\* The calls that concern a counter keep the types.
LEMMA CounterStepTypes ==
    ASSUME PerfTypeOK, uptime_ms \in Uint, CounterStep
    PROVE  PerfTypeOK'
<1> DEFINE n == Len(perf_counters)
<1>1. PICK name \in Names : StartCounter(name) \/ StopCounter(name)
  BY DEF CounterStep
<1>2. 0 \in Uint
  BY BoardAssumption DEF Uint
<1>3. CASE \E k \in DOMAIN perf_counters :
             /\ perf_counters' = [perf_counters EXCEPT ![k].start_time = uptime_ms]
             /\ measured' = [measured EXCEPT ![k].age = 0, ![k].unbroken = TRUE]
  <2>1. PICK k \in DOMAIN perf_counters :
          /\ perf_counters' = [perf_counters EXCEPT ![k].start_time = uptime_ms]
          /\ measured' = [measured EXCEPT ![k].age = 0, ![k].unbroken = TRUE]
    BY <1>3
  <2>2. perf_counters[k] \in Counter /\ measured[k] \in Measure
    BY PerfDomains
  <2>3. perf_counters' \in [1 .. n -> Counter]
    BY <2>1, <2>2, PerfDomains DEF Counter
  <2>4. measured' \in [1 .. n -> Measure]
    BY <1>2, <2>1, <2>2, PerfDomains DEF Measure
  <2> QED
    BY <2>3, <2>4, PerfStays
<1>4. CASE /\ Len(perf_counters) < MAX_COUNTERS
           /\ perf_counters' = Append(perf_counters, [name |-> Stored(name), start_time |-> uptime_ms,
                                                      total_time |-> 0])
           /\ measured' = Append(measured, [age |-> 0, unbroken |-> TRUE, sum |-> 0, exact |-> TRUE])
  <2>1. [name |-> Stored(name), start_time |-> uptime_ms, total_time |-> 0] \in Counter
    BY <1>2 DEF Counter, Stored
  <2>2. [age |-> 0, unbroken |-> TRUE, sum |-> 0, exact |-> TRUE] \in Measure
    BY <1>2 DEF Measure
  <2>3. perf_counters' \in Seq(Counter) /\ Len(perf_counters') = n + 1
    BY <1>4, <2>1, AppendEffect DEF PerfTypeOK
  <2>4. measured' \in Seq(Measure) /\ Len(measured') = n + 1
    BY <1>4, <2>2, AppendEffect DEF PerfTypeOK
  <2>5. n \in Nat
    BY PerfDomains
  <2> QED
    BY <1>4, <2>3, <2>4, <2>5, BoardAssumption DEF PerfTypeOK
<1>5. CASE StopCounter(name)
  <2>1. PICK k \in DOMAIN perf_counters :
          /\ perf_counters' = [perf_counters EXCEPT
                ![k].total_time = Plus(@, Elapsed(uptime_ms, perf_counters[k].start_time))]
          /\ measured' = IF measured[k].exact /\ measured[k].unbroken
                         THEN [measured EXCEPT ![k].sum = Plus(@, measured[k].age)]
                         ELSE [measured EXCEPT ![k].sum = 0, ![k].exact = FALSE]
    BY <1>5 DEF StopCounter
  <2>2. perf_counters[k] \in Counter /\ measured[k] \in Measure
    BY PerfDomains
  <2>3. Elapsed(uptime_ms, perf_counters[k].start_time) \in Uint
    BY <2>2, UintClosed DEF Counter
  <2>4. /\ Plus(perf_counters[k].total_time, Elapsed(uptime_ms, perf_counters[k].start_time)) \in Uint
        /\ Plus(measured[k].sum, measured[k].age) \in Uint
    BY <2>2, <2>3, UintClosed DEF Counter, Measure
  <2>5. perf_counters' \in [1 .. n -> Counter]
    BY <2>1, <2>2, <2>4, PerfDomains DEF Counter
  <2>6. measured' \in [1 .. n -> Measure]
    BY <1>2, <2>1, <2>2, <2>4, PerfDomains DEF Measure
  <2> QED
    BY <2>5, <2>6, PerfStays
<1> QED
  BY <1>1, <1>3, <1>4, <1>5 DEF StartCounter

\* A call of the power functions, or a tick up to the next call of a handler.
LEMMA PowerStepTypes ==
    ASSUME BoardTypeOK, PowerStep
    PROVE  BoardTypeOK'
<1> USE DEF BoardTypeOK
<1>1. 0 \in Uint /\ Inc(uptime_ms) \in Uint
  BY UintClosed DEF PowerTypeOK
<1>2. ASSUME TablesCleared PROVE IrqTypeOK' /\ PinTypeOK'
  BY <1>2, ClearedTypes DEF TablesCleared, IrqTypeOK, PinTypeOK
<1>3. ASSUME perf_counters' = perf_counters, measured' = ResetBreaks(measured) PROVE PerfTypeOK'
  BY <1>3, PerfDomains, MeasureTypes, PerfStays
<1>4. CASE VirtBoardInit
  <2>1. PowerTypeOK'
    BY <1>1, <1>4 DEF VirtBoardInit, PowerTypeOK
  <2>2. CASE TablesCleared /\ perf_counters' = <<>> /\ measured' = <<>>
    <3>1. PerfTypeOK'
      BY <2>2, EmptySeq, BoardAssumption DEF PerfTypeOK
    <3> QED
      BY <1>2, <2>1, <2>2, <3>1
  <2>3. CASE measured' = ResetBreaks(measured) /\ UNCHANGED <<irqVars, pinVars, perf_counters>>
    BY <1>3, <2>1, <2>3 DEF irqVars, pinVars, IrqTypeOK, PinTypeOK
  <2> QED
    BY <1>4, <2>2, <2>3 DEF VirtBoardInit
<1>5. CASE Reset
  <2>1. PowerTypeOK'
    BY <1>1, <1>5 DEF Reset, PowerTypeOK
  <2> QED
    BY <1>2, <1>3, <1>5, <2>1 DEF Reset
<1>6. CASE Switch
  BY <1>6 DEF Switch, irqVars, pinVars, perfVars, PowerTypeOK, IrqTypeOK, PinTypeOK, PerfTypeOK
<1>7. CASE Tick
  <2>1. PowerTypeOK' /\ PinTypeOK'
    BY <1>1, <1>7 DEF Tick, power, pinVars, PowerTypeOK, PinTypeOK
  <2>2. IrqTypeOK'
    BY <1>7, ScanTypes DEF Tick, IrqTypeOK
  <2>3. PerfTypeOK'
    BY <1>7, PerfDomains, MeasureTypes, PerfStays DEF Tick
  <2> QED
    BY <2>1, <2>2, <2>3
<1>8. CASE HandlerReturn
  <2>1. PowerTypeOK' /\ PinTypeOK' /\ PerfTypeOK'
    BY <1>8 DEF HandlerReturn, power, pinVars, perfVars, PowerTypeOK, PinTypeOK, PerfTypeOK
  <2>2. IrqTypeOK'
    BY <1>8, ServedTypes, ScanTypes DEF HandlerReturn, IrqTypeOK
  <2> QED
    BY <2>1, <2>2
<1> QED
  BY <1>4, <1>5, <1>6, <1>7, <1>8 DEF PowerStep, TickFromCaller, TickFromHandler

\* Type correctness: no unfinished tick serves an interrupt outside the table, and no
\* more than MAX_COUNTERS performance counters are in use.
THEOREM BoardTypesHold == BoardSpec => []BoardTypeOK
<1>1. BoardInit => BoardTypeOK
  <2> SUFFICES ASSUME BoardInit PROVE BoardTypeOK
    OBVIOUS
  <2>1. PowerTypeOK
    <3>1. 0 \in Uint
      BY BoardAssumption DEF Uint
    <3> QED
      BY <3>1 DEF BoardInit, PowerTypeOK
  <2>2. <<>> \in Seq(IRQS) /\ Len(<<>>) = 0 /\ 0 <= MaxDepth /\ 0 <= MAX_COUNTERS
    BY EmptySeq, BoardAssumption
  <2>3. IrqTypeOK /\ PinTypeOK
    BY <2>2, ClearedTypes DEF BoardInit, IrqTypeOK, PinTypeOK
  <2>4. PerfTypeOK
    BY <2>2, EmptySeq DEF BoardInit, PerfTypeOK
  <2> QED
    BY <2>1, <2>3, <2>4 DEF BoardTypeOK
<1>2. BoardTypeOK /\ [BoardNext]_boardVars => BoardTypeOK'
  <2> SUFFICES ASSUME BoardTypeOK, [BoardNext]_boardVars PROVE BoardTypeOK'
    OBVIOUS
  <2>1. CASE PowerStep
    BY <2>1, PowerStepTypes
  <2>2. CASE InterruptStep
    BY <2>2, InterruptStepTypes DEF InterruptStep, BoardTypeOK, power, pinVars, perfVars,
                                    PowerTypeOK, PinTypeOK, PerfTypeOK
  <2>3. CASE PinStep
    BY <2>3, PinStepTypes DEF PinStep, BoardTypeOK, power, irqVars, perfVars,
                              PowerTypeOK, IrqTypeOK, PerfTypeOK
  <2>4. CASE CounterStep
    BY <2>4, CounterStepTypes DEF CounterStep, BoardTypeOK, power, irqVars, pinVars,
                                  PowerTypeOK, IrqTypeOK, PinTypeOK
  <2>5. CASE UNCHANGED boardVars
    BY <2>5 DEF boardVars, power, irqVars, pinVars, perfVars, BoardTypeOK,
                PowerTypeOK, IrqTypeOK, PinTypeOK, PerfTypeOK
  <2> QED
    BY <2>1, <2>2, <2>3, <2>4, <2>5 DEF BoardNext
<1> QED
  BY <1>1, <1>2, PTL DEF BoardSpec

-----------------------------------------------------------------------------
(* Interrupts.                                                              *)

\* A scan that starts from a table and unfinished ticks with the invariant keeps it.
LEMMA ScanKeepsInv ==
    ASSUME NEW table \in [IRQS -> [enabled : BOOLEAN, pending : BOOLEAN, handler : BOOLEAN]],
           NEW first, NEW below \in Seq(IRQS), owed \subseteq IRQS, asked \subseteq IRQS,
           \A i \in owed : table[i].pending,
           \A i \in IRQS : table[i].pending => i \in asked \/ \E d \in 1 .. Len(below) : below[d] = i,
           \A d \in 1 .. Len(below) : below[d] \notin owed,
           Scan(table, first, below)
    PROVE  IrqInv'
<1>1. interrupts' = table
  BY DEF Scan
<1>2. CASE stack' = below /\ UNCHANGED <<owed, asked>>
  <2>1. DOMAIN stack' = 1 .. Len(below)
    BY <1>2, LenProperties
  <2> QED
    BY <1>1, <1>2, <2>1 DEF IrqInv, NoTriggerLost, NoServiceRepeated, ServedIsNotOwed, OnStack
<1>3. CASE \E i \in Due(table, first) : /\ stack' = Append(below, i)
                                        /\ owed' = owed \ {i} /\ asked' = asked \ {i}
  <2>1. PICK i \in IRQS : /\ stack' = Append(below, i)
                          /\ owed' = owed \ {i} /\ asked' = asked \ {i}
    BY <1>3 DEF Due
  <2>2. Len(below) \in Nat
    BY LenProperties
  <2>3. /\ DOMAIN stack' = 1 .. Len(below) + 1
        /\ \A d \in 1 .. Len(below) : stack'[d] = below[d]
        /\ stack'[Len(below) + 1] = i
    BY <2>1, AppendEffect, LenProperties
  <2>4. 1 .. Len(below) \subseteq DOMAIN stack' /\ Len(below) + 1 \in DOMAIN stack'
    BY <2>2, <2>3
  <2>5. \A d \in DOMAIN stack' : d \in 1 .. Len(below) \/ d = Len(below) + 1
    BY <2>2, <2>3
  <2>6. NoTriggerLost'
    BY <1>1, <2>1 DEF NoTriggerLost
  <2>7. NoServiceRepeated'
    BY <1>1, <2>1, <2>3, <2>4, SMTT(30) DEF NoServiceRepeated, OnStack
  <2>8. ServedIsNotOwed'
    BY <2>1, <2>3, <2>5 DEF ServedIsNotOwed
  <2> QED
    BY <2>6, <2>7, <2>8 DEF IrqInv
<1> QED
  BY <1>2, <1>3 DEF Scan

\* The first half of a tick keeps the invariant.
LEMMA TickKeepsInv ==
    ASSUME BoardTypeOK, IrqInv, Tick
    PROVE  IrqInv'
<1>1. DOMAIN stack = 1 .. Len(stack) /\ stack \in Seq(IRQS)
  BY LenProperties DEF BoardTypeOK, IrqTypeOK
<1>2. /\ \A i \in owed : interrupts[i].pending
      /\ \A i \in IRQS : interrupts[i].pending => i \in asked \/ \E d \in 1 .. Len(stack) : stack[d] = i
      /\ \A d \in 1 .. Len(stack) : stack[d] \notin owed
  BY <1>1 DEF IrqInv, NoTriggerLost, NoServiceRepeated, ServedIsNotOwed, OnStack
<1> QED
  BY <1>1, <1>2, ScanKeepsInv DEF Tick, BoardTypeOK, IrqTypeOK

\* The flag that is cleared after a handler belongs to a trigger from before its call, or
\* to one during the call: neither is owed.
LEMMA HandlerReturnKeepsInv ==
    ASSUME BoardTypeOK, IrqInv, HandlerReturn
    PROVE  IrqInv'
<1> DEFINE n == Len(stack)
           below == SubSeq(stack, 1, n - 1)
<1>1. /\ stack \in Seq(IRQS) /\ DOMAIN stack = 1 .. n /\ n \in Nat /\ n > 0
      /\ interrupts \in [IRQS -> [enabled : BOOLEAN, pending : BOOLEAN, handler : BOOLEAN]]
      /\ owed \subseteq IRQS /\ asked \subseteq IRQS
  BY EmptySeq, LenProperties DEF HandlerReturn, BoardTypeOK, IrqTypeOK
<1>2. below \in Seq(IRQS) /\ Len(below) = n - 1 /\ \A d \in 1 .. n - 1 : below[d] = stack[d]
  BY <1>1, PopEffect, EmptySeq DEF HandlerReturn
<1>3. n \in DOMAIN stack /\ Top = stack[n] /\ Top \in IRQS
  BY <1>1, ElementOfSeq DEF Top
<1>4. 1 .. Len(below) \subseteq DOMAIN stack
  BY <1>1, <1>2
<1>5. \A d \in DOMAIN stack : d \in 1 .. Len(below) \/ d = n
  BY <1>1, <1>2
<1>6. Scan(Served(Top), Top + 1, below)
  BY DEF HandlerReturn
<1> HIDE DEF below, n
<1>7. /\ Served(Top) \in [IRQS -> [enabled : BOOLEAN, pending : BOOLEAN, handler : BOOLEAN]]
      /\ ~Served(Top)[Top].pending
      /\ \A i \in IRQS : i # Top => Served(Top)[i] = interrupts[i]
  BY <1>1, <1>3 DEF Served
<1>8. \A i \in owed : Served(Top)[i].pending
  BY <1>1, <1>3, <1>7 DEF IrqInv, NoTriggerLost, ServedIsNotOwed
<1>9. \A i \in IRQS : Served(Top)[i].pending =>
                         i \in asked \/ \E d \in 1 .. Len(below) : below[d] = i
  <2> SUFFICES ASSUME NEW i \in IRQS, Served(Top)[i].pending, i \notin asked
               PROVE  \E d \in 1 .. Len(below) : below[d] = i
    OBVIOUS
  <2>1. i # Top /\ interrupts[i].pending
    BY <1>7
  <2>2. PICK d \in DOMAIN stack : stack[d] = i
    BY <2>1 DEF IrqInv, NoServiceRepeated, OnStack
  <2>3. d \in 1 .. Len(below)
    BY <1>3, <1>5, <2>1, <2>2
  <2> QED
    BY <1>2, <2>2, <2>3
<1>10. \A d \in 1 .. Len(below) : below[d] \notin owed
  BY <1>2, <1>4 DEF IrqInv, ServedIsNotOwed
<1>11. below \in Seq(IRQS) /\ owed \subseteq IRQS /\ asked \subseteq IRQS
  BY <1>1, <1>2
<1>12. Served(Top) \in [IRQS -> [enabled : BOOLEAN, pending : BOOLEAN, handler : BOOLEAN]]
  BY <1>7
<1> QED
  BY <1>6, <1>8, <1>9, <1>10, <1>11, <1>12, ScanKeepsInv, Zenon

\* The calls that concern one interrupt keep the invariant.
LEMMA InterruptStepKeepsInv ==
    ASSUME BoardTypeOK, IrqInv, InterruptStep
    PROVE  IrqInv'
<1>1. PICK i \in IRQS : \/ InterruptInit(i) \/ Trigger(i) \/ Clear(i)
                        \/ \E enabled \in BOOLEAN : SetEnabled(i, enabled)
  BY DEF InterruptStep
<1>2. stack' = stack
  BY <1>1 DEF InterruptInit, Trigger, Clear, SetEnabled
<1>3. interrupts \in [IRQS -> [enabled : BOOLEAN, pending : BOOLEAN, handler : BOOLEAN]]
  BY DEF BoardTypeOK, IrqTypeOK
<1>4. CASE InterruptInit(i) \/ Clear(i)
  <2>1. /\ owed' = owed \ {i} /\ asked' = asked \ {i} /\ ~interrupts'[i].pending
        /\ \A j \in IRQS : j # i => interrupts'[j] = interrupts[j]
    BY <1>3, <1>4 DEF InterruptInit, Clear
  <2>2. owed \subseteq IRQS
    BY DEF BoardTypeOK, IrqTypeOK
  <2> QED
    BY <1>2, <2>1, <2>2 DEF IrqInv, NoTriggerLost, NoServiceRepeated, ServedIsNotOwed, OnStack
<1>5. CASE Trigger(i)
  <2>1. /\ asked' = asked \union {i} /\ owed' = IF OnStack(i) THEN owed ELSE owed \union {i}
        /\ interrupts'[i].pending
        /\ \A j \in IRQS : j # i => interrupts'[j] = interrupts[j]
    BY <1>3, <1>5 DEF Trigger
  <2>2. owed \subseteq IRQS
    BY DEF BoardTypeOK, IrqTypeOK
  <2> QED
    BY <1>2, <2>1, <2>2 DEF IrqInv, NoTriggerLost, NoServiceRepeated, ServedIsNotOwed, OnStack
<1>6. CASE \E enabled \in BOOLEAN : SetEnabled(i, enabled)
  <2>1. /\ owed' = owed /\ asked' = asked
        /\ \A j \in IRQS : interrupts'[j].pending = interrupts[j].pending
    BY <1>3, <1>6 DEF SetEnabled
  <2>2. owed \subseteq IRQS
    BY DEF BoardTypeOK, IrqTypeOK
  <2> QED
    BY <1>2, <2>1, <2>2 DEF IrqInv, NoTriggerLost, NoServiceRepeated, ServedIsNotOwed, OnStack
<1> QED
  BY <1>1, <1>4, <1>5, <1>6

\* Clearing the table keeps the invariant, with handlers of the old table unfinished.
LEMMA ClearedKeepsInv ==
    ASSUME TablesCleared
    PROVE  IrqInv'
  BY DEF TablesCleared, NoInterrupts, IrqInv, NoTriggerLost, NoServiceRepeated, ServedIsNotOwed

\* The invariant of the interrupts is inductive.
LEMMA IrqInvInductive ==
    ASSUME BoardTypeOK, IrqInv, [BoardNext]_boardVars
    PROVE  IrqInv'
<1>1. CASE UNCHANGED irqVars
  BY <1>1 DEF irqVars, IrqInv, NoTriggerLost, NoServiceRepeated, ServedIsNotOwed, OnStack
<1>2. CASE VirtBoardInit \/ Reset
  BY <1>1, <1>2, ClearedKeepsInv DEF VirtBoardInit, Reset
<1>3. CASE Switch \/ PinStep \/ CounterStep \/ UNCHANGED boardVars
  BY <1>1, <1>3 DEF Switch, PinStep, CounterStep, boardVars
<1>4. CASE Tick \/ HandlerReturn \/ InterruptStep
  BY <1>4, TickKeepsInv, HandlerReturnKeepsInv, InterruptStepKeepsInv
<1> QED
  BY <1>2, <1>3, <1>4 DEF BoardNext, PowerStep, TickFromCaller, TickFromHandler

\* What is inductive about the interrupts.
LEMMA IrqInvariant == BoardSpec => []IrqInv
<1>1. BoardInit => IrqInv
  BY EmptySeq DEF BoardInit, NoInterrupts, IrqInv, NoTriggerLost, NoServiceRepeated, ServedIsNotOwed
<1>2. BoardTypeOK /\ IrqInv /\ [BoardNext]_boardVars => IrqInv'
  BY IrqInvInductive
<1> QED
  BY <1>1, <1>2, BoardTypesHold, PTL DEF BoardSpec

\* No trigger is lost, however ticks are nested, handlers trigger, clear and disable
\* interrupts, and the board is initialised and reset.
THEOREM TriggersHold == BoardSpec => []NoTriggerLost
<1>1. IrqInv => NoTriggerLost
  BY DEF IrqInv
<1> QED
  BY <1>1, IrqInvariant, PTL

\* No handler is called twice for one trigger but by the ticks that it makes itself, while
\* the tick that called it still has its flag to clear.
THEOREM ServicesHold == BoardSpec => []NoServiceRepeated
<1>1. IrqInv => NoServiceRepeated
  BY DEF IrqInv
<1> QED
  BY <1>1, IrqInvariant, PTL

\* What the table allows and remembers, the drivers' copies allow and remember.
THEOREM DriversSee == BoardSpec => []DriverSeesAll
<1>1. BoardInit => DriverSeesAll
  <2>1. BoardInit => interrupts = NoInterrupts
    BY DEF BoardInit
  <2>2. \A i \in IRQS : ~NoInterrupts[i].enabled /\ ~NoInterrupts[i].pending
    BY DEF NoInterrupts
  <2> QED
    BY <2>1, <2>2 DEF DriverSeesAll
<1>2. BoardTypeOK /\ DriverSeesAll /\ [BoardNext]_boardVars => DriverSeesAll'
  <2> SUFFICES ASSUME BoardTypeOK, DriverSeesAll, [BoardNext]_boardVars PROVE DriverSeesAll'
    OBVIOUS
  <2>1. /\ interrupts \in [IRQS -> [enabled : BOOLEAN, pending : BOOLEAN, handler : BOOLEAN]]
        /\ irq \in [IRQS -> [ready : BOOLEAN, enabled : BOOLEAN, pending : BOOLEAN]]
    BY DEF BoardTypeOK, IrqTypeOK
  <2>2. CASE UNCHANGED <<interrupts, irq>>
    BY <2>2 DEF DriverSeesAll, IsPending
  <2>3. CASE VirtBoardInit \/ Reset
    BY <2>2, <2>3 DEF VirtBoardInit, Reset, TablesCleared, NoInterrupts, DriverSeesAll, irqVars
  <2>4. CASE Switch \/ PinStep \/ CounterStep \/ UNCHANGED boardVars
    BY <2>2, <2>4 DEF Switch, PinStep, CounterStep, boardVars, irqVars
  <2>5. CASE Tick
    BY <2>2, <2>5 DEF Tick, Scan
  <2>6. CASE HandlerReturn
    <3>1. Top \in IRQS /\ interrupts' = [interrupts EXCEPT ![Top].pending = FALSE] /\ irq' = irq
      BY <2>6, ServedTypes DEF HandlerReturn, Scan, Served, BoardTypeOK
    <3> QED
      BY <2>1, <3>1 DEF DriverSeesAll, IsPending
  <2>7. CASE InterruptStep
    <3>1. PICK i \in IRQS : \/ InterruptInit(i) \/ Trigger(i) \/ Clear(i)
                            \/ \E enabled \in BOOLEAN : SetEnabled(i, enabled)
      BY <2>7 DEF InterruptStep
    <3>2. CASE InterruptInit(i)
      BY <2>1, <3>2 DEF InterruptInit, DriverSeesAll, IsPending
    <3>3. CASE Trigger(i)
      BY <2>1, <3>3 DEF Trigger, DriverSeesAll, IsPending
    <3>4. CASE Clear(i)
      BY <2>1, <3>4 DEF Clear, DriverSeesAll, IsPending
    <3>5. CASE \E enabled \in BOOLEAN : SetEnabled(i, enabled)
      BY <2>1, <3>5 DEF SetEnabled, DriverSeesAll, IsPending
    <3> QED
      BY <3>1, <3>2, <3>3, <3>4, <3>5
  <2> QED
    BY <2>3, <2>4, <2>5, <2>6, <2>7 DEF BoardNext, PowerStep, TickFromCaller, TickFromHandler
<1> QED
  BY <1>1, <1>2, BoardTypesHold, PTL DEF BoardSpec

-----------------------------------------------------------------------------
(* Pins.                                                                    *)

\* One virt_gpio_t and its pin have one level and one direction.
THEOREM PinsAgree == BoardSpec => []OwnerAgrees
<1>1. BoardInit => OwnerAgrees
  BY DEF BoardInit, OwnerAgrees
<1>2. BoardTypeOK /\ OwnerAgrees /\ [BoardNext]_boardVars => OwnerAgrees'
  <2> SUFFICES ASSUME BoardTypeOK, OwnerAgrees, [BoardNext]_boardVars PROVE OwnerAgrees'
    OBVIOUS
  <2>1. /\ gpio_pin \in [value : BOOLEAN, direction : BOOLEAN]
        /\ gpio \in [Handles -> [ready : BOOLEAN, value : BOOLEAN, direction : BOOLEAN]]
        /\ owner \in Handles \union {NoHandle} /\ NoHandle \notin Handles
    BY BoardAssumption DEF BoardTypeOK, PinTypeOK
  <2>2. CASE UNCHANGED pinVars
    BY <2>2 DEF pinVars, OwnerAgrees
  <2>3. CASE VirtBoardInit \/ Reset
    BY <2>2, <2>3 DEF VirtBoardInit, Reset, TablesCleared, OwnerAgrees
  <2>4. CASE Switch \/ Tick \/ HandlerReturn \/ InterruptStep \/ CounterStep \/ UNCHANGED boardVars
    BY <2>2, <2>4 DEF Switch, Tick, HandlerReturn, InterruptStep, CounterStep, boardVars
  <2>5. CASE PinStep
    <3>1. PICK h \in Handles : \/ GpioInit(h) \/ Toggle(h)
                               \/ \E value \in BOOLEAN : SetDirection(h, value) \/ GpioWrite(h, value)
      BY <2>5 DEF PinStep
    <3>2. CASE GpioInit(h)
      BY <2>1, <3>2 DEF GpioInit, NoPin, OwnerAgrees
    <3>3. CASE Toggle(h)
      BY <2>1, <3>3 DEF Toggle, UsedBy, OwnerAgrees
    <3>4. CASE \E value \in BOOLEAN : SetDirection(h, value)
      BY <2>1, <3>4 DEF SetDirection, UsedBy, OwnerAgrees
    <3>5. CASE \E value \in BOOLEAN : GpioWrite(h, value)
      BY <2>1, <3>5 DEF GpioWrite, UsedBy, OwnerAgrees
    <3> QED
      BY <3>1, <3>2, <3>3, <3>4, <3>5
  <2> QED
    BY <2>3, <2>4, <2>5 DEF BoardNext, PowerStep, TickFromCaller, TickFromHandler
<1> QED
  BY <1>1, <1>2, BoardTypesHold, PTL DEF BoardSpec

-----------------------------------------------------------------------------
(* Performance counters.                                                    *)

\* One more tick makes every distance longer by one, also where the clock wraps.
LEMMA ElapsedOfInc ==
    ASSUME NEW now \in Uint, NEW since \in Uint
    PROVE  Elapsed(Inc(now), since) = Inc(Elapsed(now, since))
  BY BoardAssumption DEF Uint, Inc, Elapsed

\* The effects of the two helpers on one record.
LEMMA MeasureEffects ==
    ASSUME PerfTypeOK, NEW k \in 1 .. Len(perf_counters)
    PROVE  /\ ~ResetBreaks(measured)[k].unbroken
           /\ ResetBreaks(measured)[k].exact = measured[k].exact
           /\ ResetBreaks(measured)[k].sum = measured[k].sum
           /\ OneTickOlder(measured)[k].unbroken = measured[k].unbroken
           /\ measured[k].unbroken => OneTickOlder(measured)[k].age = Inc(measured[k].age)
           /\ OneTickOlder(measured)[k].exact = measured[k].exact
           /\ OneTickOlder(measured)[k].sum = measured[k].sum
<1>1. k \in DOMAIN measured /\ measured[k] \in Measure
  BY PerfDomains
<1> QED
  BY <1>1 DEF ResetBreaks, OneTickOlder, Measure

\* Setting the clock back breaks every count that is under way.
LEMMA ClockSetBackKeepsInv ==
    ASSUME PerfTypeOK, PerfInv, perf_counters' = perf_counters, measured' = ResetBreaks(measured)
    PROVE  PerfInv'
<1>1. \A k \in 1 .. Len(perf_counters) :
         /\ ~measured'[k].unbroken /\ measured'[k].exact = measured[k].exact
         /\ measured'[k].sum = measured[k].sum
  BY MeasureEffects
<1> QED
  BY <1>1, PerfDomains DEF PerfInv, CountersAreExact, AgeIsElapsed

\* A tick makes the counters that are unbroken older by one.
LEMMA TickKeepsPerfInv ==
    ASSUME BoardTypeOK, PerfInv, Tick
    PROVE  PerfInv'
<1>1. PerfTypeOK /\ uptime_ms \in Uint
  BY DEF BoardTypeOK, PowerTypeOK
<1>2. /\ perf_counters' = perf_counters /\ measured' = OneTickOlder(measured)
      /\ uptime_ms' = Inc(uptime_ms)
  BY DEF Tick
<1>3. ASSUME NEW k \in 1 .. Len(perf_counters)
      PROVE  /\ measured'[k].unbroken = measured[k].unbroken
             /\ measured'[k].exact = measured[k].exact /\ measured'[k].sum = measured[k].sum
             /\ measured[k].unbroken =>
                   Elapsed(uptime_ms', perf_counters[k].start_time) = measured'[k].age
  <2>1. perf_counters[k].start_time \in Uint
    BY <1>1, PerfDomains DEF Counter
  <2>2. Elapsed(uptime_ms', perf_counters[k].start_time) = Inc(Elapsed(uptime_ms, perf_counters[k].start_time))
    BY <1>1, <1>2, <2>1, ElapsedOfInc
  <2>3. measured[k].unbroken => Elapsed(uptime_ms, perf_counters[k].start_time) = measured[k].age
    BY <1>1, PerfDomains DEF PerfInv, AgeIsElapsed
  <2> QED
    BY <1>1, <1>2, <2>2, <2>3, MeasureEffects
<1> QED
  BY <1>1, <1>2, <1>3, PerfDomains DEF PerfInv, CountersAreExact, AgeIsElapsed

\* A start begins a distance of 0, and a stop adds the distance to both sums.
LEMMA CounterStepKeepsInv ==
    ASSUME BoardTypeOK, PerfInv, CounterStep
    PROVE  PerfInv'
<1> DEFINE n == Len(perf_counters)
<1>1. PerfTypeOK /\ uptime_ms \in Uint /\ uptime_ms' = uptime_ms
  BY DEF BoardTypeOK, PowerTypeOK, CounterStep
<1>2. Elapsed(uptime_ms, uptime_ms) = 0
  BY <1>1, BoardAssumption DEF Elapsed, Uint
<1>3. PICK name \in Names : StartCounter(name) \/ StopCounter(name)
  BY DEF CounterStep
<1>4. CASE \E k \in DOMAIN perf_counters :
             /\ perf_counters' = [perf_counters EXCEPT ![k].start_time = uptime_ms]
             /\ measured' = [measured EXCEPT ![k].age = 0, ![k].unbroken = TRUE]
  <2>1. PICK k \in 1 .. n :
          /\ perf_counters' = [perf_counters EXCEPT ![k].start_time = uptime_ms]
          /\ measured' = [measured EXCEPT ![k].age = 0, ![k].unbroken = TRUE]
    BY <1>1, <1>4, PerfDomains
  <2>2. perf_counters[k] \in Counter /\ measured[k] \in Measure
    BY <1>1, PerfDomains
  <2>3. /\ DOMAIN perf_counters' = 1 .. n
        /\ perf_counters'[k].start_time = uptime_ms
        /\ perf_counters'[k].total_time = perf_counters[k].total_time
        /\ measured'[k].age = 0
        /\ measured'[k].exact = measured[k].exact /\ measured'[k].sum = measured[k].sum
        /\ \A j \in 1 .. n : j # k => perf_counters'[j] = perf_counters[j] /\ measured'[j] = measured[j]
    BY <1>1, <2>1, <2>2, PerfDomains DEF Counter, Measure
  <2> QED
    BY <1>1, <1>2, <2>3, PerfDomains DEF PerfInv, CountersAreExact, AgeIsElapsed
<1>5. CASE /\ perf_counters' = Append(perf_counters, [name |-> Stored(name), start_time |-> uptime_ms,
                                                      total_time |-> 0])
           /\ measured' = Append(measured, [age |-> 0, unbroken |-> TRUE, sum |-> 0, exact |-> TRUE])
  <2>1. n \in Nat /\ 0 \in Uint
    BY <1>1, PerfDomains, BoardAssumption DEF Uint
  <2>2. [name |-> Stored(name), start_time |-> uptime_ms, total_time |-> 0] \in Counter
    BY <1>1, <2>1 DEF Counter, Stored
  <2>3. [age |-> 0, unbroken |-> TRUE, sum |-> 0, exact |-> TRUE] \in Measure
    BY <2>1 DEF Measure
  <2>4. /\ DOMAIN perf_counters' = 1 .. n + 1
        /\ \A j \in 1 .. n : perf_counters'[j] = perf_counters[j]
        /\ perf_counters'[n + 1] = [name |-> Stored(name), start_time |-> uptime_ms, total_time |-> 0]
    BY <1>1, <1>5, <2>2, AppendEffect, LenProperties DEF PerfTypeOK
  <2>5. /\ \A j \in 1 .. n : measured'[j] = measured[j]
        /\ measured'[n + 1] = [age |-> 0, unbroken |-> TRUE, sum |-> 0, exact |-> TRUE]
    BY <1>1, <1>5, <2>3, AppendEffect, LenProperties DEF PerfTypeOK
  <2>6. \A j \in 1 .. n + 1 : j \in 1 .. n \/ j = n + 1
    BY <2>1
  <2> QED
    BY <1>1, <1>2, <2>4, <2>5, <2>6, PerfDomains, SMTT(30) DEF PerfInv, CountersAreExact, AgeIsElapsed
<1>6. CASE StopCounter(name)
  <2>1. PICK k \in 1 .. n :
          /\ perf_counters' = [perf_counters EXCEPT
                ![k].total_time = Plus(@, Elapsed(uptime_ms, perf_counters[k].start_time))]
          /\ measured' = IF measured[k].exact /\ measured[k].unbroken
                         THEN [measured EXCEPT ![k].sum = Plus(@, measured[k].age)]
                         ELSE [measured EXCEPT ![k].sum = 0, ![k].exact = FALSE]
    BY <1>1, <1>6, PerfDomains DEF StopCounter
  <2>2. perf_counters[k] \in Counter /\ measured[k] \in Measure
    BY <1>1, PerfDomains
  <2>3. /\ DOMAIN perf_counters' = 1 .. n
        /\ perf_counters'[k].start_time = perf_counters[k].start_time
        /\ perf_counters'[k].total_time =
              Plus(perf_counters[k].total_time, Elapsed(uptime_ms, perf_counters[k].start_time))
        /\ \A j \in 1 .. n : j # k => perf_counters'[j] = perf_counters[j]
    BY <1>1, <2>1, <2>2, PerfDomains DEF Counter
  <2>4. /\ measured'[k].age = measured[k].age /\ measured'[k].unbroken = measured[k].unbroken
        /\ measured'[k].exact => /\ measured[k].exact /\ measured[k].unbroken
                                 /\ measured'[k].sum = Plus(measured[k].sum, measured[k].age)
        /\ \A j \in 1 .. n : j # k => measured'[j] = measured[j]
    BY <1>1, <2>1, <2>2, PerfDomains DEF Measure
  <2>5. /\ measured[k].unbroken => Elapsed(uptime_ms, perf_counters[k].start_time) = measured[k].age
        /\ measured[k].exact => perf_counters[k].total_time = measured[k].sum
    BY <1>1, PerfDomains DEF PerfInv, CountersAreExact, AgeIsElapsed
  <2> QED
    BY <1>1, <2>3, <2>4, <2>5, PerfDomains DEF PerfInv, CountersAreExact, AgeIsElapsed
<1> QED
  BY <1>3, <1>4, <1>5, <1>6 DEF StartCounter

\* What a counter has added up is the time between its starts and stops, across the wrap
\* of the clock and any number of other counters, ticks and interrupts.
THEOREM CountersHold == BoardSpec => []CountersAreExact
<1>1. BoardInit => PerfInv
  BY DEF BoardInit, PerfInv, CountersAreExact, AgeIsElapsed
<1>2. BoardTypeOK /\ PerfInv /\ [BoardNext]_boardVars => PerfInv'
  <2> SUFFICES ASSUME BoardTypeOK, PerfInv, [BoardNext]_boardVars PROVE PerfInv'
    OBVIOUS
  <2>1. PerfTypeOK
    BY DEF BoardTypeOK
  <2>2. CASE UNCHANGED <<uptime_ms, perfVars>>
    BY <2>2 DEF perfVars, PerfInv, CountersAreExact, AgeIsElapsed
  <2>3. CASE VirtBoardInit
    <3>1. CASE perf_counters' = <<>>
      BY <3>1 DEF PerfInv, CountersAreExact, AgeIsElapsed
    <3>2. CASE perf_counters' = perf_counters /\ measured' = ResetBreaks(measured)
      BY <2>1, <3>2, ClockSetBackKeepsInv
    <3> QED
      BY <2>3, <3>1, <3>2 DEF VirtBoardInit
  <2>4. CASE Reset
    BY <2>1, <2>4, ClockSetBackKeepsInv DEF Reset
  <2>5. CASE Switch \/ HandlerReturn \/ InterruptStep \/ PinStep \/ UNCHANGED boardVars
    BY <2>2, <2>5 DEF Switch, HandlerReturn, InterruptStep, PinStep, boardVars
  <2>6. CASE Tick
    BY <2>6, TickKeepsPerfInv
  <2>7. CASE CounterStep
    BY <2>7, CounterStepKeepsInv
  <2> QED
    BY <2>3, <2>4, <2>5, <2>6, <2>7 DEF BoardNext, PowerStep, TickFromCaller, TickFromHandler
<1>3. PerfInv => CountersAreExact
  BY DEF PerfInv
<1> QED
  BY <1>1, <1>2, <1>3, BoardTypesHold, PTL DEF BoardSpec

\* Two counters have one name only when strncpy() cut it off.
THEOREM NamesAreUnique == BoardSpec => []OneCounterPerName
<1>1. BoardInit => OneCounterPerName
  BY DEF BoardInit, OneCounterPerName
<1>2. BoardTypeOK /\ OneCounterPerName /\ [BoardNext]_boardVars => OneCounterPerName'
  <2> SUFFICES ASSUME BoardTypeOK, OneCounterPerName, [BoardNext]_boardVars
               PROVE  OneCounterPerName'
    OBVIOUS
  <2> DEFINE n == Len(perf_counters)
  <2>1. PerfTypeOK /\ uptime_ms \in Uint
    BY DEF BoardTypeOK, PowerTypeOK
  <2>2. CASE \/ perf_counters' = perf_counters \/ perf_counters' = <<>>
    BY <2>2 DEF OneCounterPerName
  <2>3. ASSUME DOMAIN perf_counters' = 1 .. n,
               \A k \in 1 .. n : perf_counters'[k].name = perf_counters[k].name
        PROVE  OneCounterPerName'
    BY <2>1, <2>3, PerfDomains DEF OneCounterPerName
  <2>4. CASE CounterStep
    <3>1. PICK name \in Names : StartCounter(name) \/ StopCounter(name)
      BY <2>4 DEF CounterStep
    <3>2. CASE \E k \in DOMAIN perf_counters :
                 \/ perf_counters' = [perf_counters EXCEPT ![k].start_time = uptime_ms]
                 \/ perf_counters' = [perf_counters EXCEPT
                       ![k].total_time = Plus(@, Elapsed(uptime_ms, perf_counters[k].start_time))]
      <4>1. PICK k \in 1 .. n :
              \/ perf_counters' = [perf_counters EXCEPT ![k].start_time = uptime_ms]
              \/ perf_counters' = [perf_counters EXCEPT
                    ![k].total_time = Plus(@, Elapsed(uptime_ms, perf_counters[k].start_time))]
        BY <2>1, <3>2, PerfDomains
      <4>2. perf_counters[k] \in Counter
        BY <2>1, PerfDomains
      <4>3. perf_counters'[k].name = perf_counters[k].name
        BY <2>1, <4>1, <4>2, PerfDomains DEF Counter
      <4>4. /\ DOMAIN perf_counters' = 1 .. n
            /\ \A j \in 1 .. n : j # k => perf_counters'[j] = perf_counters[j]
        BY <2>1, <4>1, PerfDomains
      <4> QED
        BY <2>3, <4>3, <4>4
    <3>3. CASE /\ Found(name) = {}
               /\ perf_counters' = Append(perf_counters, [name |-> Stored(name), start_time |-> uptime_ms,
                                                          total_time |-> 0])
      <4>1. n \in Nat /\ 0 \in Uint
        BY <2>1, PerfDomains, BoardAssumption DEF Uint
      <4>2. [name |-> Stored(name), start_time |-> uptime_ms, total_time |-> 0] \in Counter
        BY <2>1, <4>1 DEF Counter, Stored
      <4>3. /\ DOMAIN perf_counters' = 1 .. n + 1
            /\ \A k \in 1 .. n : perf_counters'[k] = perf_counters[k]
            /\ perf_counters'[n + 1].name = Stored(name)
        BY <2>1, <3>3, <4>2, AppendEffect, LenProperties DEF PerfTypeOK
      <4>4. \A k \in 1 .. n + 1 : k \in 1 .. n \/ k = n + 1
        BY <4>1
      <4>5. Stored(name) = Truncated \/ \A k \in 1 .. n : perf_counters[k].name # Stored(name)
        BY <2>1, <3>3, PerfDomains DEF Found, Stored
      <4> HIDE DEF n
      <4> QED
        BY <2>1, <4>3, <4>4, <4>5, PerfDomains DEF OneCounterPerName, n
    <3> QED
      BY <3>1, <3>2, <3>3 DEF StartCounter, StopCounter
  <2> QED
    BY <2>2, <2>4 DEF BoardNext, PowerStep, TickFromCaller, TickFromHandler, VirtBoardInit, Reset, Switch,
                      Tick, HandlerReturn, InterruptStep, PinStep, perfVars, boardVars
<1> QED
  BY <1>1, <1>2, BoardTypesHold, PTL DEF BoardSpec

-----------------------------------------------------------------------------
(* Binary coded decimals.                                                   *)

\* The two digits of a number give the number back, and the masks of the clock's
\* registers are wide enough for the tens that can occur.
LEMMA Digits ==
    ASSUME NEW n \in 0 .. 99
    PROVE  /\ (n \div 10) * 10 + (n % 10) = n
           /\ n <= 79 => (n \div 10) % 8 = n \div 10
           /\ n <= 39 => (n \div 10) % 4 = n \div 10
           /\ n <= 19 => (n \div 10) % 2 = n \div 10
  OBVIOUS

\* virt_rtc_get_time() undoes virt_rtc_set_time().
LEMMA TimeRoundTrip ==
    ASSUME NEW t \in Time
    PROVE  TimeIn(TimeRegister(t)) = t
<1>1. t.hour \in 0 .. 23 /\ t.minute \in 0 .. 59 /\ t.second \in 0 .. 59
  BY DEF Time
<1>2. /\ ((t.hour \div 10) % 4) * 10 + (t.hour % 10) = t.hour
      /\ ((t.minute \div 10) % 8) * 10 + (t.minute % 10) = t.minute
      /\ ((t.second \div 10) % 8) * 10 + (t.second % 10) = t.second
  BY <1>1, Digits
<1>3. TimeIn(TimeRegister(t)) = [hour |-> t.hour, minute |-> t.minute, second |-> t.second]
  BY <1>2 DEF TimeIn, TimeRegister, Bcd
<1> QED
  BY <1>3 DEF Time

\* virt_rtc_get_date() undoes virt_rtc_set_date().
LEMMA DateRoundTrip ==
    ASSUME NEW d \in Date
    PROVE  DateIn(DateRegister(d)) = d
<1>1. d.year \in 0 .. 99 /\ d.month \in 1 .. 12 /\ d.day \in 1 .. 31
  BY DEF Date
<1>2. /\ (d.year \div 10) * 10 + (d.year % 10) = d.year
      /\ ((d.month \div 10) % 2) * 10 + (d.month % 10) = d.month
      /\ ((d.day \div 10) % 4) * 10 + (d.day % 10) = d.day
  BY <1>1, Digits
<1>3. DateIn(DateRegister(d)) = [year |-> d.year, month |-> d.month, day |-> d.day]
  BY <1>2 DEF DateIn, DateRegister, Bcd
<1> QED
  BY <1>3 DEF Date

-----------------------------------------------------------------------------
(* The clock.                                                               *)

\* An initialised clock holds the registers of the moment it was last set to.
ClockInv ==
    /\ rtc = [initialized |-> rtc.initialized, TR |-> rtc.TR, DR |-> rtc.DR]
    /\ moment = [time |-> moment.time, date |-> moment.date]
    /\ rtc.initialized => /\ moment.time \in Time /\ rtc.TR = TimeRegister(moment.time)
                          /\ moment.date \in Date /\ rtc.DR = DateRegister(moment.date)

\* What the checks of virt_rtc_set_time() let pass is a time of day.
LEMMA AcceptedTime ==
    ASSUME NEW t \in Times, t.hour <= 23, t.minute <= 59, t.second <= 59
    PROVE  t \in Time
<1>1. Hours \subseteq 0 .. 255 /\ Minutes \subseteq 0 .. 255 /\ Seconds \subseteq 0 .. 255
  BY PeripheralsAssumption
<1>2. t.hour \in 0 .. 255 /\ t.minute \in 0 .. 255 /\ t.second \in 0 .. 255
  BY <1>1 DEF Times
<1>3. t.hour \in 0 .. 23 /\ t.minute \in 0 .. 59 /\ t.second \in 0 .. 59
  BY <1>2
<1> QED
  BY <1>3 DEF Times, Time

\* What the checks of virt_rtc_set_date() let pass is a date.
LEMMA AcceptedDate ==
    ASSUME NEW d \in Dates, d.year <= 99, d.month <= 12, d.month >= 1, d.day <= 31, d.day >= 1
    PROVE  d \in Date
<1>1. Years \subseteq 0 .. 255 /\ Months \subseteq 0 .. 255 /\ Days \subseteq 0 .. 255
  BY PeripheralsAssumption
<1>2. d.year \in 0 .. 255 /\ d.month \in 0 .. 255 /\ d.day \in 0 .. 255
  BY <1>1 DEF Dates
<1>3. d.year \in 0 .. 99 /\ d.month \in 1 .. 12 /\ d.day \in 1 .. 31
  BY <1>2
<1> QED
  BY <1>3 DEF Dates, Date

\* The calls that concern the clock keep its invariant.
LEMMA RtcStepKeepsInv ==
    ASSUME ClockInv, RtcStep
    PROVE  ClockInv'
<1>1. CASE RtcInit
  BY <1>1 DEF RtcInit, ClockInv
<1>2. CASE RtcDeinit
  BY <1>2 DEF RtcDeinit, ClockInv
<1>3. CASE \E t \in Times : SetTime(t)
  <2>1. PICK t \in Times : SetTime(t)
    BY <1>3
  <2>2. t \in Time
    BY <2>1, AcceptedTime DEF SetTime
  <2> QED
    BY <2>1, <2>2 DEF SetTime, ClockInv
<1>4. CASE \E d \in Dates : SetDate(d)
  <2>1. PICK d \in Dates : SetDate(d)
    BY <1>4
  <2>2. d \in Date
    BY <2>1, AcceptedDate DEF SetDate
  <2> QED
    BY <2>1, <2>2 DEF SetDate, ClockInv
<1> QED
  BY <1>1, <1>2, <1>3, <1>4 DEF RtcStep

\* An initialised clock reports what it was last set to, for every argument that the
\* checks accept.
THEOREM ClockIsRight == PeriphSpec => []ClockReportsWhatWasSet
<1>1. PeriphInit => ClockInv
  BY DEF PeriphInit, ClockInv
<1>2. ClockInv /\ [PeriphNext]_periphVars => ClockInv'
  <2> SUFFICES ASSUME ClockInv, [PeriphNext]_periphVars PROVE ClockInv'
    OBVIOUS
  <2>1. CASE RtcStep
    BY <2>1, RtcStepKeepsInv
  <2>2. CASE UNCHANGED rtcVars
    BY <2>2 DEF rtcVars, ClockInv
  <2> QED
    BY <2>1, <2>2 DEF PeriphNext, periphVars
<1>3. ClockInv => ClockReportsWhatWasSet
  BY TimeRoundTrip, DateRoundTrip DEF ClockInv, ClockReportsWhatWasSet
<1> QED
  BY <1>1, <1>2, <1>3, PTL DEF PeriphSpec

-----------------------------------------------------------------------------
(* DMA.                                                                     *)

\* The flags of ISR are those of the channels that were started.
DmaInv ==
    /\ dma = [initialized |-> dma.initialized, ISR |-> dma.ISR, CCR |-> dma.CCR, CNDTR |-> dma.CNDTR]
    /\ completed \subseteq Channels
    /\ dma.ISR = {CompletionBit(c) : c \in completed}

\* No two channels share a bit of ISR.
LEMMA BitsAreDistinct ==
    ASSUME NEW c \in Channels, NEW d \in Channels, CompletionBit(c) = CompletionBit(d)
    PROVE  c = d
  BY PeripheralsAssumption DEF CompletionBit

\* A flag of ISR is set if and only if its own channel was started.
THEOREM FlagsAreRight == PeriphSpec => []FlagIsOfItsChannel
<1>1. PeriphInit => DmaInv
  BY DEF PeriphInit, DmaInv
<1>2. DmaInv /\ [PeriphNext]_periphVars => DmaInv'
  <2> SUFFICES ASSUME DmaInv, [PeriphNext]_periphVars PROVE DmaInv'
    OBVIOUS
  <2>1. CASE DmaInit
    BY <2>1 DEF DmaInit, DmaInv
  <2>2. CASE DmaDeinit
    BY <2>2 DEF DmaDeinit, DmaInv
  <2>3. CASE \E c \in Channels : DmaStart(c)
    <3>1. PICK c \in Channels : DmaStart(c)
      BY <2>3
    <3>2. completed' = completed \union {c} /\ dma'.ISR = dma.ISR \union {CompletionBit(c)}
      BY <3>1 DEF DmaStart, DmaInv
    <3>3. dma' = [initialized |-> dma'.initialized, ISR |-> dma'.ISR, CCR |-> dma'.CCR, CNDTR |-> dma'.CNDTR]
      BY <3>1 DEF DmaStart, DmaInv
    <3> QED
      BY <3>2, <3>3 DEF DmaInv
  <2>4. CASE \E c \in Channels : DmaStop(c)
    BY <2>4 DEF DmaStop, DmaInv
  <2>5. CASE \E c \in Channels, size \in Sizes, enable \in BOOLEAN : DmaConfig(c, size, enable)
    BY <2>5 DEF DmaConfig, DmaInv
  <2>6. CASE UNCHANGED dmaVars
    BY <2>6 DEF dmaVars, DmaInv
  <2> QED
    BY <2>1, <2>2, <2>3, <2>4, <2>5, <2>6 DEF PeriphNext, periphVars, DmaStep
<1>3. DmaInv => FlagIsOfItsChannel
  BY BitsAreDistinct DEF DmaInv, FlagIsOfItsChannel
<1> QED
  BY <1>1, <1>2, <1>3, PTL DEF PeriphSpec

-----------------------------------------------------------------------------
(* Timer.                                                                   *)

\* The counter is the number of reads modulo one more than the period.
TimerInv ==
    /\ timer \in [period : 0 .. WORD - 1, counter : 0 .. WORD - 1, running : BOOLEAN]
    /\ reads \in Nat
    /\ TimerCountsModuloPeriod

\* Quotient q and remainder s of n by m.
Divides(n, m, q, s) == q \in Nat /\ s \in 0 .. m - 1 /\ n = q * m + s

\* A quotient and a remainder are unique.
LEMMA Remainder ==
    ASSUME NEW m \in Nat \ {0}, NEW n \in Nat, NEW q, NEW s, Divides(n, m, q, s)
    PROVE  n % m = s
<1> USE DEF Divides
<1> DEFINE d == n \div m
           r == n % m
<1>1. d \in Nat /\ r \in 0 .. m - 1 /\ n = d * m + r
  <2>1. r \in 0 .. m - 1  BY ONLY n \in Nat, m \in Nat \ {0}
  <2>2. n = d * m + r  BY ONLY n \in Nat, m \in Nat \ {0}
  <2>3. d \in Nat  BY ONLY n \in Nat, m \in Nat \ {0}
  <2> QED  BY <2>1, <2>2, <2>3
<1> HIDE DEF d, r
<1>2. \A x, y \in Nat : x < y => x * m + m <= y * m
  <2> SUFFICES ASSUME NEW x \in Nat, NEW y \in Nat, x < y PROVE x * m + m <= y * m  OBVIOUS
  <2>1. PICK z \in Nat : y = x + 1 + z
    <3>1. y - x - 1 \in Nat /\ y = x + 1 + (y - x - 1)  OBVIOUS
    <3> QED  BY <3>1
  <2>2. y * m = x * m + m + z * m  BY ONLY <2>1, x \in Nat, z \in Nat, m \in Nat
  <2>3. z * m \in Nat /\ x * m \in Nat  OBVIOUS
  <2> HIDE DEF r
  <2> QED  BY <2>2, <2>3
<1>3. d = q
  <2>1. d * m \in Nat /\ q * m \in Nat  BY <1>1
  <2>2. ~(d < q)
    <3>1. d < q => d * m + m <= q * m  BY <1>1, <1>2
    <3> QED  BY <1>1, <2>1, <3>1
  <2>3. ~(q < d)
    <3>1. q < d => q * m + m <= d * m  BY <1>1, <1>2
    <3> QED  BY <1>1, <2>1, <3>1
  <2> QED  BY <1>1, <2>2, <2>3
<1>4. q * m \in Nat  OBVIOUS
<1>5. r = s  BY <1>1, <1>3, <1>4
<1> QED  BY <1>5 DEF r

\* Counting once more, modulo m.
LEMMA NextRemainder ==
    ASSUME NEW n \in Nat, NEW m \in Nat \ {0}
    PROVE  /\ n % m \in 0 .. m - 1
           /\ (n + 1) % m = IF (n % m) + 1 = m THEN 0 ELSE (n % m) + 1
<1> DEFINE q == n \div m
           r == n % m
<1>1. q \in Nat /\ r \in 0 .. m - 1 /\ n = q * m + r
  <2>1. r \in 0 .. m - 1  BY ONLY n \in Nat, m \in Nat \ {0}
  <2>2. n = q * m + r  BY ONLY n \in Nat, m \in Nat \ {0}
  <2>3. q \in Nat  BY ONLY n \in Nat, m \in Nat \ {0}
  <2> QED  BY <2>1, <2>2, <2>3
<1> HIDE DEF q, r
<1>2. CASE r + 1 # m
  <2>1. Divides(n + 1, m, q, r + 1)  BY <1>1, <1>2 DEF Divides
  <2>2. n + 1 \in Nat  OBVIOUS
  <2>3. (n + 1) % m = r + 1  BY <2>1, <2>2, Remainder
  <2> QED  BY <1>1, <1>2, <2>3 DEF r
<1>3. CASE r + 1 = m
  <2>1. q * m \in Nat /\ (q + 1) * m = q * m + m  BY <1>1
  <2>2. Divides(n + 1, m, q + 1, 0)  BY <1>1, <1>3, <2>1 DEF Divides
  <2>3. n + 1 \in Nat  OBVIOUS
  <2>4. (n + 1) % m = 0  BY <2>2, <2>3, Remainder
  <2> QED  BY <1>1, <1>3, <2>4 DEF r
<1> QED  BY <1>2, <1>3

\* No number of reads is 0 modulo anything.
LEMMA NoRemainder ==
    ASSUME NEW m \in Nat \ {0}
    PROVE  0 % m = 0
  OBVIOUS

\* Where the increment of the counter wraps the period ends as well.
LEMMA CountedEffect ==
    ASSUME NEW t \in [period : 0 .. WORD - 1, counter : 0 .. WORD - 1, running : BOOLEAN],
           t.counter <= t.period
    PROVE  Counted(t) = IF t.counter + 1 = t.period + 1 THEN 0 ELSE t.counter + 1
<1> DEFINE c == t.counter
           p == t.period
           w == WORD
<1>1. c \in 0 .. w - 1 /\ p \in 0 .. w - 1 /\ c <= p /\ w \in Nat \ {0}
  BY PeripheralsAssumption
<1>2. Counted(t) = IF (c + 1) % w > p THEN 0 ELSE (c + 1) % w
  BY DEF Counted
<1> HIDE DEF c, p, w
<1>3. c + 1 = w \/ c + 1 \in 0 .. w - 1  BY <1>1
<1>4. (c + 1) % w = IF c + 1 = w THEN 0 ELSE c + 1  BY ONLY <1>1, <1>3
<1>5. Counted(t) = IF c + 1 = p + 1 THEN 0 ELSE c + 1
  <2> DEFINE r == (c + 1) % w
  <2>1. Counted(t) = (IF r > p THEN 0 ELSE r) /\ r = (IF c + 1 = w THEN 0 ELSE c + 1)
    BY <1>2, <1>4
  <2> HIDE DEF r
  <2> QED  BY <1>1, <2>1
<1> QED  BY <1>5 DEF c, p

\* The counter counts modulo period + 1, with period 0 and where the increment wraps.
THEOREM TimerIsRight == PeriphSpec => []TimerCountsModuloPeriod
<1>1. PeriphInit => TimerInv
  <2> SUFFICES ASSUME PeriphInit PROVE TimerInv  OBVIOUS
  <2>1. timer = [period |-> 0, counter |-> 0, running |-> FALSE] /\ reads = 0
    BY DEF PeriphInit
  <2>2. 0 \in 0 .. WORD - 1  BY PeripheralsAssumption
  <2>3. 0 % (0 + 1) = 0  BY NoRemainder
  <2> QED  BY <2>1, <2>2, <2>3 DEF TimerInv, TimerCountsModuloPeriod
<1>2. TimerInv /\ [PeriphNext]_periphVars => TimerInv'
  <2> SUFFICES ASSUME TimerInv, [PeriphNext]_periphVars PROVE TimerInv'
    OBVIOUS
  <2> DEFINE Timers == [period : 0 .. WORD - 1, counter : 0 .. WORD - 1, running : BOOLEAN]
  <2>1. timer \in Timers /\ reads \in Nat /\ timer.counter = reads % (timer.period + 1)
    BY DEF TimerInv, TimerCountsModuloPeriod
  <2>2. timer.period + 1 \in Nat \ {0} /\ timer.period \in Nat /\ 0 \in 0 .. WORD - 1
    BY <2>1, PeripheralsAssumption
  <2>3. ASSUME timer' \in Timers, timer'.counter = 0, reads' = 0 PROVE TimerInv'
    <3>1. timer'.period + 1 \in Nat \ {0}  BY <2>3, PeripheralsAssumption
    <3>2. 0 % (timer'.period + 1) = 0  BY <3>1, NoRemainder
    <3> QED  BY <2>3, <3>2 DEF TimerInv, TimerCountsModuloPeriod
  <2>4. CASE \E period \in TimerPeriods : TimerInit(period)
    <3>1. PICK period \in TimerPeriods :
             timer' = [period |-> period, counter |-> 0, running |-> FALSE] /\ reads' = 0
      BY <2>4 DEF TimerInit
    <3>2. period \in 0 .. WORD - 1  BY PeripheralsAssumption
    <3> QED  BY <2>2, <2>3, <3>1, <3>2
  <2>5. CASE TimerStart
    BY <2>1, <2>2, <2>3, <2>5 DEF TimerStart
  <2>6. CASE TimerStop
    BY <2>1, <2>6 DEF TimerStop, TimerInv, TimerCountsModuloPeriod
  <2>7. CASE TimerReset
    BY <2>1, <2>2, <2>3, <2>7 DEF TimerReset
  <2>8. CASE TimerGetCount
    <3> DEFINE c == timer.counter
               m == timer.period + 1
               x == Counted(timer)
    <3>1. timer' = [timer EXCEPT !.counter = x] /\ reads' = reads + 1
      BY <2>8 DEF TimerGetCount
    <3>2. c \in 0 .. m - 1 /\ (reads + 1) % m = IF c + 1 = m THEN 0 ELSE c + 1
      <4>1. c = reads % m /\ m \in Nat \ {0}  BY <2>1, <2>2
      <4> HIDE DEF c, m
      <4> QED  BY <2>1, <4>1, NextRemainder
    <3>3. c <= timer.period  BY <2>2, <3>2
    <3>4. x = IF c + 1 = m THEN 0 ELSE c + 1  BY <2>1, <3>3, CountedEffect
    <3>5. x \in 0 .. WORD - 1  BY <2>1, <2>2, <3>2, <3>4, PeripheralsAssumption
    <3>6. x = (reads + 1) % m  BY <3>2, <3>4
    <3>7. timer' \in Timers /\ timer'.counter = x /\ timer'.period = timer.period
      <4> HIDE DEF x
      <4> QED  BY <2>1, <3>1, <3>5
    <3>8. reads' \in Nat  BY <2>1, <3>1
    <3> HIDE DEF x
    <3> QED  BY <3>1, <3>6, <3>7, <3>8 DEF TimerInv, TimerCountsModuloPeriod
  <2>9. CASE UNCHANGED timerVars
    BY <2>9 DEF timerVars, TimerInv, TimerCountsModuloPeriod
  <2> QED
    BY <2>4, <2>5, <2>6, <2>7, <2>8, <2>9 DEF PeriphNext, periphVars, TimerStep
<1>3. TimerInv => TimerCountsModuloPeriod
  BY DEF TimerInv
<1> QED
  BY <1>1, <1>2, <1>3, PTL DEF PeriphSpec
=============================================================================
