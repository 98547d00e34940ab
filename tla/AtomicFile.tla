------------------------------ MODULE AtomicFile ------------------------------
(***************************************************************************)
(* What "atomically" promises of a published file: a writer has one value  *)
(* in hand, at some instant before it returns the file becomes that value, *)
(* and a reader never finds anything but absence or one whole value.       *)
(***************************************************************************)
CONSTANTS Writers, Values, Nothing

VARIABLES
    content,    \* what a reader finds, Nothing before the first write
    hand        \* the value each writer is about to publish, or Nothing

Init == content = Nothing /\ hand = [w \in Writers |-> Nothing]

Begin(w) ==
    /\ hand[w] = Nothing
    /\ \E v \in Values : hand' = [hand EXCEPT ![w] = v]
    /\ UNCHANGED content

Publish(w) ==
    /\ hand[w] # Nothing
    /\ content' = hand[w]
    /\ hand' = [hand EXCEPT ![w] = Nothing]

\* A writer dies: what it had in hand is lost, what is published stays.
Fail(w) ==
    /\ hand' = [hand EXCEPT ![w] = Nothing]
    /\ UNCHANGED content

\* The host loses power: nobody publishes, what is published stays.
FailAll ==
    /\ hand' = [w \in Writers |-> Nothing]
    /\ UNCHANGED content

Next == FailAll \/ \E w \in Writers : Begin(w) \/ Publish(w) \/ Fail(w)

Spec == Init /\ [][Next]_<<content, hand>>
===============================================================================
