---------------------------- MODULE LossyChannel ----------------------------
(***************************************************************************)
(* What the framing and the CRC of src/src/protocols/comm_protocol.c        *)
(* promise to the receiver of one direction of a line: packets arrive as    *)
(* they were sent, in the order in which they were sent, each at most once; *)
(* any of them may be missing.                                              *)
(***************************************************************************)
EXTENDS Naturals, Sequences

VARIABLES
    sent,      \* the packets created, in order
    got        \* the packets parsed, in order

vars == <<sent, got>>

Init == sent = <<>> /\ got = <<>>

\* The sender appends a packet, numbered by its position.
Send ==
    /\ Len(sent') = Len(sent) + 1 /\ SubSeq(sent', 1, Len(sent)) = sent
    /\ sent'[Len(sent')].number = Len(sent')
    /\ UNCHANGED got

\* The line delivers a packet behind the last one it delivered.
Deliver ==
    /\ \E k \in DOMAIN sent :
          /\ \A i \in DOMAIN got : got[i].number < k
          /\ got' = Append(got, sent[k])
    /\ UNCHANGED sent

Spec == Init /\ [][Send \/ Deliver]_vars
=============================================================================
