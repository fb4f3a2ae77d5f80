---------------------------- MODULE MCRideService ----------------------------
(* Instances of RideService for TLC. *)
EXTENDS RideService, TLC

AllOps == Endpoints

\* Tasks and rides are interchangeable in every safety property.
TaskAndRideSymmetry == Permutations(Tasks) \cup Permutations(Rides)
=============================================================================
