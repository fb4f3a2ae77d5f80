----------------------------- MODULE MCDispatch -----------------------------
(* Instances of Dispatch for TLC. *)
EXTENDS Dispatch, TLC

\* ride-completed and ride-cancelled change nothing in Dispatch.
DispatchTopics == {Requested, Accepted}
AllTopics == Topics

DriverSymmetry == Permutations(Drivers)
=============================================================================
