--------------------------- MODULE ConfigPromise ---------------------------
(***************************************************************************)
(* What the distribution of configurations promises: a history of          *)
(* published configurations that only grows, and gates that follow it,     *)
(* never going back to a version older than one they have taken while the  *)
(* control plane's publishes come one after the other.                     *)
(***************************************************************************)
EXTENDS Naturals, Sequences

CONSTANTS Gates, Contents

VARIABLES published, taken, orderly

vars == <<published, taken, orderly>>

Init ==
    /\ published = <<>>
    /\ taken = [g \in Gates |-> 0]
    /\ orderly = TRUE

Publish(c) ==
    /\ published' = Append(published, c)
    /\ orderly' \in {orderly, FALSE}
    /\ UNCHANGED taken

Disorder == orderly' = FALSE /\ UNCHANGED <<published, taken>>

Take(g, v) ==
    /\ orderly => v >= taken[g]
    /\ taken' = [taken EXCEPT ![g] = v]
    /\ UNCHANGED <<published, orderly>>

Next ==
    \/ \E c \in Contents : Publish(c)
    \/ Disorder
    \/ \E g \in Gates : \E v \in 1..Len(published) : Take(g, v)

Spec == Init /\ [][Next]_vars
============================================================================
