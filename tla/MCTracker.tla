------------------------------ MODULE MCTracker ------------------------------
(* The instances of Tracker that TLC checks. *)
EXTENDS Tracker, TLC

\* No action and no property tells one client from another.
Symmetry == Permutations(Client)
=============================================================================
