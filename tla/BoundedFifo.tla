---------------------------- MODULE BoundedFifo ----------------------------
(***************************************************************************)
(* What a heart-beat ring promises: a first-in first-out queue of at most  *)
(* Capacity beats.  A beat that arrives while the queue is full is refused *)
(* and nothing else is; a beat that was taken in comes out once, whole,    *)
(* and after every beat that was taken in before it.                       *)
(***************************************************************************)
EXTENDS Naturals, Sequences

CONSTANTS
    Capacity,   \* how many beats the queue holds
    Beat(_)     \* the n-th beat the producer offers

VARIABLES
    q,          \* beats taken in and not yet taken out
    out,        \* beats taken out, in the order they were taken out
    refused,    \* numbers of the beats that met a full queue
    next        \* number of the beat the producer offers next

vars == <<q, out, refused, next>>

Init ==
    /\ q = <<>>
    /\ out = <<>>
    /\ refused = {}
    /\ next = 1

Put ==
    /\ Len(q) < Capacity
    /\ q' = Append(q, Beat(next))
    /\ next' = next + 1
    /\ UNCHANGED <<out, refused>>

Refuse ==
    /\ Len(q) = Capacity
    /\ refused' = refused \cup {next}
    /\ next' = next + 1
    /\ UNCHANGED <<q, out>>

Take ==
    /\ q # <<>>
    /\ out' = Append(out, Head(q))
    /\ q' = Tail(q)
    /\ UNCHANGED <<refused, next>>

Next == Put \/ Refuse \/ Take

Spec == Init /\ [][Next]_vars
=============================================================================
