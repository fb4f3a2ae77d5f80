--------------------------- MODULE RideAssignment ---------------------------
(***************************************************************************)
(* What RideService.accept_ride promises about a ride, whatever else the   *)
(* server is doing at the time: a ride is opened once, is given to at most *)
(* one driver, and once it has left REQUESTED it is never on offer again.  *)
(*                                                                         *)
(* RideService.tla, the await-level model of the handlers, implements this *)
(* specification (RideService!AssignmentSpec).                             *)
(***************************************************************************)
CONSTANTS Rides,   \* ride ids
          Drivers  \* users with a driver profile

VARIABLES phase,    \* "none": no row yet, "open": REQUESTED, "closed": any later status
          assigned  \* the drivers whose accept has been committed

vars == <<phase, assigned>>

Init ==
    /\ phase = [r \in Rides |-> "none"]
    /\ assigned = [r \in Rides |-> {}]

\* request_ride commits the new row.
Open(r) ==
    /\ phase[r] = "none"
    /\ phase' = [phase EXCEPT ![r] = "open"]
    /\ UNCHANGED assigned

\* The ride leaves REQUESTED without a driver: it is cancelled.
Close(r) ==
    /\ phase[r] = "open"
    /\ phase' = [phase EXCEPT ![r] = "closed"]
    /\ UNCHANGED assigned

\* The one accept that wins.  The ride may have been cancelled since that accept
\* looked at it, so "closed" is allowed; a second winner is not.
Assign(r, d) ==
    /\ phase[r] # "none"
    /\ assigned[r] = {}
    /\ assigned' = [assigned EXCEPT ![r] = {d}]
    /\ phase' = [phase EXCEPT ![r] = "closed"]

Next == \E r \in Rides : Open(r) \/ Close(r) \/ \E d \in Drivers : Assign(r, d)

Spec == Init /\ [][Next]_vars
=============================================================================
