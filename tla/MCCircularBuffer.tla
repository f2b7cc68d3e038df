-------------------------- MODULE MCCircularBuffer --------------------------
(* Instances of CircularBuffer for TLC.                                     *)
EXTENDS CircularBuffer, TLC

CONSTANTS a, b

\* Writes of one to four bytes: within the capacity, up to it and beyond it.
MCData == {<<a>>, <<b>>, <<a, b>>, <<b, a, a>>, <<a, b, b, a>>}

\* Both layouts of two bytes in a source of two: in one block, and around the end.
MCSources ==
    {[buffer |-> (0 :> a @@ 1 :> b), capacity |-> 2, head |-> h, tail |-> h, count |-> 2,
      overwrite |-> FALSE] : h \in {0, 1}}
=============================================================================
