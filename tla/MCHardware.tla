----------------------------- MODULE MCHardware -----------------------------
(* The instance of Board and Peripherals for TLC.  Interrupts, pins and     *)
(* counters meet only in the board's power states and clock, and the       *)
(* devices not at all: each behaviour uses one of these parts, with the    *)
(* power states where the part depends on them, so that the state graph is *)
(* the sum and not the product of theirs.                                  *)
EXTENDS Board, Peripherals

VARIABLE part  \* the part that this behaviour uses

allVars == <<boardVars, periphVars, part>>

MCInit ==
    /\ BoardInit /\ PeriphInit
    /\ part \in {"interrupts", "pins", "counters", "dma", "rtc", "timer"}

MCNext ==
    /\ UNCHANGED part
    /\ \/ /\ \/ part \in {"interrupts", "pins", "counters"} /\ PowerStep
             \/ part = "interrupts" /\ InterruptStep
             \/ part = "pins" /\ PinStep
             \/ part = "counters" /\ CounterStep
          /\ UNCHANGED periphVars
       \/ /\ \/ part = "dma" /\ DmaStep /\ UNCHANGED <<rtcVars, timerVars>>
             \/ part = "rtc" /\ RtcStep /\ UNCHANGED <<dmaVars, timerVars>>
             \/ part = "timer" /\ TimerStep /\ UNCHANGED <<dmaVars, rtcVars>>
          /\ UNCHANGED boardVars

MCSpec == MCInit /\ [][MCNext]_allVars /\ BoardFairness
=============================================================================
