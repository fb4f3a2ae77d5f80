------------------------------ MODULE RideRaces ------------------------------
(***************************************************************************)
(* RideService, watched: what clients that do overlap their requests may   *)
(* run into, and that nothing but the race itself brings it about.  The    *)
(* steps are those of RideService; two history variables, which no step    *)
(* reads, remember what happened behind a request's back between a read    *)
(* and the write that relies on it.                                        *)
(***************************************************************************)
EXTENDS RideService

VARIABLES appeared,  \* per task, since its exists query: the rides of its rider that became active
          undone     \* the requests whose change of a driver somebody else has undone since

varsWithHistory == <<vars, appeared, undone>>

\* The rider's rides that his next request would be refused for.
ActiveRidesOf(u) ==
    {r \in Rides : rides[r].rider = u /\ rides[r].status \in {"REQUESTED", "MATCHED", "IN_PROGRESS"}}

\* The driver's row is saved (or was found so); what the request does about the ride is not.
Marked(t) ==
    \/ call[t].op \in {"accept", "cancel"} /\ pc[t] \in {"redis", "select", "commit"} /\ Subject(t) # None
    \/ call[t].op = "complete" /\ pc[t] \in {"redis", "publish"}

\* Somebody else's save, SADD or SREM undoes what t has done to its driver.
Undone(t) ==
    LET d == Subject(t)
        free == Freed(call[t].op)
    IN  \/ available[d] = free /\ available'[d] # free
        \/ pc[t] # "redis" /\ (d \in redisAvailable) = free /\ (d \in redisAvailable') # free

Watch ==
    /\ appeared' = [t \in Tasks |->
          IF pc[t] = "insert" /\ pc'[t] = "insert"
          THEN appeared[t] \cup (ActiveRidesOf(call[t].user)' \ ActiveRidesOf(call[t].user))
          ELSE {}]
    /\ undone' = {t \in Tasks : Marked(t) /\ Marked(t)' /\ (t \in undone \/ Undone(t))}

WatchedInit ==
    /\ Init
    /\ appeared = [t \in Tasks |-> {}]
    /\ undone = {}

WatchedSpec == WatchedInit /\ [][Next /\ Watch]_varsWithHistory

WatchedLiveSpec == WatchedSpec /\ Fairness

-----------------------------------------------------------------------------
(* Properties                                                              *)

\* t's INSERT of r when the exists query, awaits earlier, could not see s yet.
InsertBehind(t, r, s) ==
    /\ pc[t] = "insert" /\ pc'[t] = "publish"
    /\ call[t].ride = r /\ s \in appeared[t]

\* t's save of r brings a ride back that ended after t had read it.
Revives(t, r) ==
    /\ StaleSave(t, r)
    /\ call[t].op \in {"accept", "start"}
    /\ rides[r].status \in {"COMPLETED", "CANCELLED"}

Both(r, s) ==
    \E u \in Riders : {r, s} \subseteq ActiveRidesOf(u)

\* The 409 of request_ride ("rider cannot have two active rides", tests/test_rides.py:51)
\* fails to overlapping requests in two ways only.  Whoever comes to have a second active
\* ride has one inserted that was not there yet when the exists query of the other ran, or
\* an accept or start saves a ride back to life that was cancelled or completed since it
\* was read, when the rider had been let through with the next one.
SecondRideOnlyByRace ==
    [][\A r, s \in Rides :
          r # s /\ Both(r, s)' /\ ~Both(r, s)
             => \E t \in Tasks : \/ InsertBehind(t, r, s) \/ InsertBehind(t, s, r)
                                 \/ Revives(t, r) \/ Revives(t, s)]_varsWithHistory

\* accept_ride books its driver before the ride is his: when the row with his id is
\* committed he is neither available in Postgres nor found by a search in Redis, so that no
\* second accept of his passes and no further offer is made, unless a request of his own, or
\* the cancel or the end of another ride of his, has freed him since.
DriverIsBookedFirst ==
    [][\A t \in Tasks :
          pc[t] = "commit" /\ call[t].op = "accept" /\ pc'[t] = "publish" /\ t \notin undone
             => ~available[call[t].user] /\ call[t].user \notin redisAvailable]_varsWithHistory

\* The cancelled row is committed, or ride-completed due.
Ends(t) ==
    \/ call[t].op = "cancel" /\ pc[t] = "commit" /\ pc'[t] = "publish"
    \/ call[t].op = "complete" /\ pc[t] = "publish" /\ pc'[t] # "publish"

\* cancel_ride and complete_ride let the driver go ("cancelling a matched ride frees the
\* driver", tests/test_rides.py:220): when the ride ends, the driver whose id is in its row
\* is available in both stores, unless another request has marked him since; or unless he
\* came into the row after the cancel had read it, for then nobody frees him.
EndFreesTheDriver ==
    [][\A t \in Tasks :
          Ends(t) /\ t \notin undone /\ rides[call[t].ride].driver = mem[t].driver
             => LET d == rides'[call[t].ride].driver IN
                d # None => available[d] /\ d \in redisAvailable]_varsWithHistory
=============================================================================
