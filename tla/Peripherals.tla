---------------------------- MODULE Peripherals ----------------------------
(***************************************************************************)
(* Three devices of src/hal: the DMA controller and the real-time clock of *)
(* virt_periph.c, and the timer of hal.c.  Each is a record of registers   *)
(* that only its own functions change; they share no state.  A 32-bit      *)
(* register is kept as what the code does with it: ISR as the set of its   *)
(* bit numbers, TR and DR of the clock as six hexadecimal digits, the      *)
(* least significant first.  Left out: addresses and the prescaler, which  *)
(* are stored and never used, and the printing.                            *)
(***************************************************************************)
EXTENDS Naturals, Sequences

CONSTANTS
    Channels,      \* DMA channels in use
    Sizes,         \* numbers of bytes to transfer
    Hours, Minutes, Seconds, Years, Months, Days,
                   \* arguments passed to the clock, valid or not
    TimerPeriods,  \* periods passed to hal_timer_init()
    WORD,          \* number of values of a uint32_t register (2^32)
    MaxReads       \* bound on the reads of the timer since it was zero

ASSUME PeripheralsAssumption ==
    /\ Channels \subseteq 0 .. 7 /\ Sizes \subseteq Nat
    /\ WORD \in Nat \ {0} /\ TimerPeriods \subseteq 0 .. WORD - 1
    /\ MaxReads \in Nat
    /\ UNION {Hours, Minutes, Seconds, Years, Months, Days} \subseteq 0 .. 255

VARIABLES
    dma,        \* the virt_dma_t: initialized, ISR, and of each channel CCR (its enable bit) and CNDTR
    completed,  \* history: the channels started since virt_dma_init()
    rtc,        \* the virt_rtc_t: initialized, TR, DR
    moment,     \* history: the time and the date that the clock was last set to
    timer,      \* the timer_t: period, counter, running
    reads       \* history: the reads that counted since the counter was set to 0

dmaVars == <<dma, completed>>
rtcVars == <<rtc, moment>>
timerVars == <<timer, reads>>
periphVars == <<dmaVars, rtcVars, timerVars>>

-----------------------------------------------------------------------------
(* DMA.                                                                    *)

\* virt_dma_init().
DmaInit ==
    /\ dma' = [initialized |-> TRUE, ISR |-> {},
               CCR |-> [c \in Channels |-> FALSE], CNDTR |-> [c \in Channels |-> 0]]
    /\ completed' = {}

\* virt_dma_deinit() leaves the registers as they are.
DmaDeinit ==
    /\ dma.initialized
    /\ dma' = [dma EXCEPT !.initialized = FALSE]
    /\ UNCHANGED completed

\* virt_dma_config_channel(); the caller's configuration may hold the enable bit.
DmaConfig(c, size, enable) ==
    /\ dma.initialized
    /\ dma' = [dma EXCEPT !.CCR[c] = enable, !.CNDTR[c] = size]
    /\ UNCHANGED completed

\* The bit of ISR that tells of a channel.
CompletionBit(c) == c * 4

\* virt_dma_start() returns when the transfer is complete; the channel stays enabled.
DmaStart(c) ==
    /\ dma.initialized
    /\ dma' = [dma EXCEPT !.CCR[c] = TRUE, !.CNDTR[c] = 0,
                          !.ISR = @ \union {CompletionBit(c)}]
    /\ completed' = completed \union {c}

\* virt_dma_stop().
DmaStop(c) ==
    /\ dma.initialized
    /\ dma' = [dma EXCEPT !.CCR[c] = FALSE]
    /\ UNCHANGED completed

DmaStep ==
    \/ DmaInit \/ DmaDeinit
    \/ \E c \in Channels :
          \/ DmaStart(c) \/ DmaStop(c)
          \/ \E size \in Sizes, enable \in BOOLEAN : DmaConfig(c, size, enable)

-----------------------------------------------------------------------------
(* Real-time clock.                                                        *)

Time == [hour : 0 .. 23, minute : 0 .. 59, second : 0 .. 59]
Date == [year : 0 .. 99, month : 1 .. 12, day : 1 .. 31]

\* The two decimal digits of a number below 100, one in each hexadecimal digit.
Bcd(low, middle, high) ==
    <<low % 10, low \div 10, middle % 10, middle \div 10, high % 10, high \div 10>>

\* Mutant: one bit for the tens of the hour.
TimeIn_ShortHour(TR) ==
    [hour |-> (TR[6] % 2) * 10 + TR[5], minute |-> (TR[4] % 8) * 10 + TR[3],
     second |-> (TR[2] % 8) * 10 + TR[1]]

\* virt_rtc_get_time(): the masks keep 2, 3 and 3 bits of the tens.
TimeIn(TR) ==
    [hour |-> (TR[6] % 4) * 10 + TR[5], minute |-> (TR[4] % 8) * 10 + TR[3],
     second |-> (TR[2] % 8) * 10 + TR[1]]

\* virt_rtc_get_date(): the masks keep 4, 1 and 2 bits of the tens.
DateIn(DR) ==
    [year |-> DR[6] * 10 + DR[5], month |-> (DR[4] % 2) * 10 + DR[3],
     day |-> (DR[2] % 4) * 10 + DR[1]]

TimeRegister(t) == Bcd(t.second, t.minute, t.hour)
DateRegister(d) == Bcd(d.day, d.month, d.year)

Times == [hour : Hours, minute : Minutes, second : Seconds]
Dates == [year : Years, month : Months, day : Days]

\* virt_rtc_init(): the clock starts with the local time, between 2000 and 2099.
RtcInit ==
    \E t \in Times \intersect Time, d \in Dates \intersect Date :
        /\ rtc' = [initialized |-> TRUE, TR |-> TimeRegister(t), DR |-> DateRegister(d)]
        /\ moment' = [time |-> t, date |-> d]

\* virt_rtc_deinit().
RtcDeinit ==
    /\ rtc.initialized
    /\ rtc' = [rtc EXCEPT !.initialized = FALSE]
    /\ UNCHANGED moment

\* virt_rtc_set_time() refuses what is no time of day.
SetTime(t) ==
    /\ rtc.initialized
    /\ t.hour <= 23 /\ t.minute <= 59 /\ t.second <= 59
    /\ rtc' = [rtc EXCEPT !.TR = TimeRegister(t)]
    /\ moment' = [moment EXCEPT !.time = t]

\* virt_rtc_set_date() checks each number alone, and the weekday, which it drops.
SetDate(d) ==
    /\ rtc.initialized
    /\ d.year <= 99 /\ d.month <= 12 /\ d.month >= 1 /\ d.day <= 31 /\ d.day >= 1
    /\ rtc' = [rtc EXCEPT !.DR = DateRegister(d)]
    /\ moment' = [moment EXCEPT !.date = d]

RtcStep ==
    \/ RtcInit \/ RtcDeinit
    \/ \E t \in Times : SetTime(t)
    \/ \E d \in Dates : SetDate(d)

-----------------------------------------------------------------------------
(* Timer.                                                                  *)

\* hal_timer_init().
TimerInit(period) ==
    /\ timer' = [period |-> period, counter |-> 0, running |-> FALSE]
    /\ reads' = 0

\* hal_timer_start(), which sets the counter back even when the timer runs.
TimerStart ==
    /\ timer' = [timer EXCEPT !.counter = 0, !.running = TRUE]
    /\ reads' = 0

\* hal_timer_stop().
TimerStop ==
    /\ timer' = [timer EXCEPT !.running = FALSE]
    /\ UNCHANGED reads

\* hal_timer_reset().
TimerReset ==
    /\ timer' = [timer EXCEPT !.counter = 0]
    /\ reads' = 0

\* Mutant: the last value of the period is left out.
Counted_PeriodTooShort(t) ==
    IF (t.counter + 1) % WORD >= t.period THEN 0 ELSE (t.counter + 1) % WORD

\* The counter wraps at the period, or at 2^32 when the period is the largest number.
Counted(t) ==
    IF (t.counter + 1) % WORD > t.period THEN 0 ELSE (t.counter + 1) % WORD

\* hal_timer_get_count(): it is the reading that makes the timer count.
TimerGetCount ==
    /\ timer.running
    /\ reads < MaxReads
    /\ timer' = [timer EXCEPT !.counter = Counted(timer)]
    /\ reads' = reads + 1

TimerStep ==
    \/ \E period \in TimerPeriods : TimerInit(period)
    \/ TimerStart \/ TimerStop \/ TimerReset \/ TimerGetCount

-----------------------------------------------------------------------------
\* Static records, all zero; nothing has been initialised.
PeriphInit ==
    /\ dma = [initialized |-> FALSE, ISR |-> {},
              CCR |-> [c \in Channels |-> FALSE], CNDTR |-> [c \in Channels |-> 0]]
    /\ completed = {}
    /\ rtc = [initialized |-> FALSE, TR |-> Bcd(0, 0, 0), DR |-> Bcd(0, 0, 0)]
    /\ moment = [time |-> [hour |-> 0, minute |-> 0, second |-> 0],
                 date |-> [year |-> 0, month |-> 0, day |-> 0]]
    /\ timer = [period |-> 0, counter |-> 0, running |-> FALSE]
    /\ reads = 0

PeriphNext ==
    \/ DmaStep /\ UNCHANGED <<rtcVars, timerVars>>
    \/ RtcStep /\ UNCHANGED <<dmaVars, timerVars>>
    \/ TimerStep /\ UNCHANGED <<dmaVars, rtcVars>>

PeriphSpec == PeriphInit /\ [][PeriphNext]_periphVars

-----------------------------------------------------------------------------
(* Properties.                                                             *)

\* The channels share the 32 bits of ISR, and no flag is ever taken back: the flag of a
\* channel is set if and only if that channel, and not a neighbour, was started since
\* virt_dma_init(), whatever is configured, stopped and started in between.
FlagIsOfItsChannel == \A c \in Channels : CompletionBit(c) \in dma.ISR <=> c \in completed

\* The masks of the two get functions undo the shifts of the three set functions: an
\* initialised clock reports the last time and the last date that were accepted, at
\* every boundary of the fields, and keeps them when it refuses others.
ClockReportsWhatWasSet ==
    rtc.initialized => TimeIn(rtc.TR) = moment.time /\ DateIn(rtc.DR) = moment.date

\* After any number of reads the counter is that number modulo period + 1, with period 0
\* and with the period at which the increment itself wraps.
TimerCountsModuloPeriod == timer.counter = reads % (timer.period + 1)
=============================================================================
