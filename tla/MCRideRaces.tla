---------------------------- MODULE MCRideRaces -----------------------------
(* Instances of RideRaces for TLC. *)
EXTENDS RideRaces, TLC

AllOps == Endpoints

\* Tasks and drivers are interchangeable in every safety property.
TaskAndDriverSymmetry == Permutations(Tasks) \cup Permutations(Drivers)
=============================================================================
