------------------------------ MODULE MCQuotes ------------------------------
(* Instances of Quotes for TLC. *)
EXTENDS Quotes, TLC

\* 1.003 km: the fares are not whole cents before rounding.
Trip == [r \in Riders |-> 1003]

Symmetries == Permutations(Drivers) \cup Permutations(Tasks)
=============================================================================
