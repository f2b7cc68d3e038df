-------------------------------- MODULE Fifo --------------------------------
(***************************************************************************)
(* What a bounded queue of the kernel promises to the tasks that share it: *)
(* elements leave in the order in which they entered, none is lost, made   *)
(* up or delivered twice, and a call that returns false changes nothing.   *)
(***************************************************************************)
EXTENDS Naturals, Sequences

CONSTANTS Elements, Capacities, NoValue

VARIABLES
    created,  \* there is a queue
    room,     \* its capacity
    items,    \* the elements in it, oldest first
    ret       \* what the last call returned

vars == <<created, room, items, ret>>

Result(call, ok, value) == [call |-> call, ok |-> ok, value |-> value]

Refusal(call) == Result(call, FALSE, NoValue)

Init ==
    /\ created = FALSE /\ room = 0 /\ items = <<>>
    /\ ret = Refusal("create")

Create(capacity) ==
    /\ ~created
    /\ created' = TRUE /\ room' = capacity /\ items' = <<>>
    /\ ret' = Result("create", TRUE, NoValue)

Destroy ==
    /\ created
    /\ created' = FALSE /\ room' = 0 /\ items' = <<>>
    /\ UNCHANGED ret

Put(e) ==
    /\ created /\ Len(items) < room
    /\ items' = Append(items, e)
    /\ ret' = Result("enqueue", TRUE, NoValue)
    /\ UNCHANGED <<created, room>>

Get ==
    /\ created /\ items # <<>>
    /\ items' = Tail(items)
    /\ ret' = Result("dequeue", TRUE, Head(items))
    /\ UNCHANGED <<created, room>>

Look ==
    /\ created /\ items # <<>>
    /\ ret' = Result("peek", TRUE, Head(items))
    /\ UNCHANGED <<created, room, items>>

Clear ==
    /\ created
    /\ items' = <<>>
    /\ UNCHANGED <<created, room, ret>>

\* A call that fails has a reason: a queue cannot be created, there is none to use,
\* or no room in it, or nothing to deliver.
Refuse ==
    /\ \/ ~created /\ ret' \in {Refusal(call) : call \in {"create", "enqueue", "dequeue", "peek"}}
       \/ Len(items) = room /\ ret' = Refusal("enqueue")
       \/ items = <<>> /\ ret' \in {Refusal("dequeue"), Refusal("peek")}
    /\ UNCHANGED <<created, room, items>>

Next ==
    \/ \E capacity \in Capacities : Create(capacity)
    \/ \E e \in Elements : Put(e)
    \/ Get \/ Look \/ Clear \/ Destroy \/ Refuse

Spec == Init /\ [][Next]_vars
=============================================================================
