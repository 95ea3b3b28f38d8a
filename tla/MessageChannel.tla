---------------------------- MODULE MessageChannel ----------------------------
(***************************************************************************)
(* What one direction of a connection promises: what is given is taken in  *)
(* its order, whole and once.  A connection that is lost takes what it     *)
(* holds with it; it may leave the channel broken, but only while          *)
(* something was under way.                                                *)
(***************************************************************************)
EXTENDS Integers, Sequences, Functions

VARIABLES
    given,  \* messages given to this connection
    taken,  \* messages taken from it
    broken  \* part of a message is taken for the beginning of another

vars == <<given, taken, broken>>

Init == given = <<>> /\ taken = <<>> /\ broken = FALSE

Give ==
    /\ \E message \in Range(given') : given' = Append(given, message)
    /\ UNCHANGED <<taken, broken>>

Take ==
    /\ ~broken
    /\ Len(taken) < Len(given)
    /\ taken' = Append(taken, given[Len(taken) + 1])
    /\ UNCHANGED <<given, broken>>

\* From a broken channel anything is taken.
TakeBroken == broken /\ UNCHANGED <<given, broken>>

Renew ==
    /\ given' = <<>> /\ taken' = <<>>
    /\ broken' \in {broken, broken \/ taken # given}

Next == Give \/ Take \/ TakeBroken \/ Renew

Spec == Init /\ [][Next]_vars
=============================================================================
