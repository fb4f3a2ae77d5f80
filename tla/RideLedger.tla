----------------------------- MODULE RideLedger -----------------------------
(***************************************************************************)
(* What services/ride.py promises clients that keep requests about one     *)
(* ride, and requests by one user, apart: every request looks as if it had *)
(* happened at once, in its commit, and an event tells the status that the *)
(* ride has when the event is published.                                   *)
(*                                                                         *)
(* RideService.tla, the await-level model of the handlers, implements this *)
(* specification for such clients, whatever fails (RideService!LedgerSpec).*)
(***************************************************************************)
CONSTANTS Riders,   \* users who request rides
          Drivers,  \* users with a driver profile
          Rides,    \* ride ids
          None      \* no driver

VARIABLES rides,    \* the row of each ride: rider, driver, status and whether a fare is set
          events    \* the <<topic, ride>> pairs published

vars == <<rides, events>>

NoRow == [rider |-> None, driver |-> None, status |-> "NONE", fare |-> FALSE]

Active == {"REQUESTED", "MATCHED", "IN_PROGRESS"}

Init == rides = [r \in Rides |-> NoRow] /\ events = {}

\* A rider without an active ride requests one.
Request(r, u) ==
    /\ rides[r] = NoRow
    /\ \A s \in Rides : rides[s].rider = u => rides[s].status \notin Active
    /\ rides' = [rides EXCEPT ![r] = [rider |-> u, driver |-> None,
                                      status |-> "REQUESTED", fare |-> FALSE]]
    /\ UNCHANGED events

Accept(r, d) ==
    /\ rides[r].status = "REQUESTED"
    /\ rides' = [rides EXCEPT ![r] = [@ EXCEPT !.driver = d, !.status = "MATCHED"]]
    /\ UNCHANGED events

\* A ride that was accepted is started, and completed, once; only then it has a fare.
Start(r) ==
    /\ rides[r].status = "MATCHED"
    /\ rides' = [rides EXCEPT ![r] = [@ EXCEPT !.status = "IN_PROGRESS"]]
    /\ UNCHANGED events

Complete(r) ==
    /\ rides[r].status = "IN_PROGRESS"
    /\ rides' = [rides EXCEPT ![r] = [@ EXCEPT !.status = "COMPLETED", !.fare = TRUE]]
    /\ UNCHANGED events

\* A ride that has not been started is cancelled; it keeps its driver, if it has one.
Cancel(r) ==
    /\ rides[r].status \in {"REQUESTED", "MATCHED"}
    /\ rides' = [rides EXCEPT ![r] = [@ EXCEPT !.status = "CANCELLED"]]
    /\ UNCHANGED events

\* The topic that tells of each status; nothing tells that a ride was started.
Tells == {<<"REQUESTED", "ride-requested">>, <<"MATCHED", "ride-accepted">>,
          <<"COMPLETED", "ride-completed">>, <<"CANCELLED", "ride-cancelled">>}

Announce(r, topic) ==
    /\ <<rides[r].status, topic>> \in Tells
    /\ events' = events \cup {<<topic, r>>}
    /\ UNCHANGED rides

Topics == {"ride-requested", "ride-accepted", "ride-completed", "ride-cancelled"}

Next ==
    \E r \in Rides :
        \/ \E u \in Riders : Request(r, u)
        \/ \E d \in Drivers : Accept(r, d)
        \/ Start(r) \/ Complete(r) \/ Cancel(r)
        \/ \E topic \in Topics : Announce(r, topic)

Spec == Init /\ [][Next]_vars
=============================================================================
