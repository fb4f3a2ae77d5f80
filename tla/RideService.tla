----------------------------- MODULE RideService -----------------------------
(***************************************************************************)
(* The ride and driver services of src/ride_service, at the granularity of *)
(* the awaits: every HTTP request is a task on the one asyncio loop, and    *)
(* between two database, Redis or Kafka calls of one task any other task    *)
(* may run.                                                                *)
(*                                                                         *)
(* Saving a row is session.merge() followed by commit(): merge SELECTs the  *)
(* row, and the UPDATE sends only the columns in which the object to be     *)
(* saved differs from the row that SELECT returned.  Both halves are steps. *)
(*                                                                         *)
(* Left out as data no guard reads: coordinates, estimated_fare (always set *)
(* before the INSERT), completed_at (set with fare) and version (a          *)
(* write-only counter).  A crash of the process is Fail of every task.      *)
(***************************************************************************)
EXTENDS FiniteSets

CONSTANTS Riders,     \* users who request rides
          Drivers,    \* users with a driver profile (both sets may hold one user)
          Rides,      \* bound on the ride ids (uuid4) the database ever holds
          Tasks,      \* bound on the requests in flight at the same time
          None,       \* Python's None
          Ops,        \* the endpoints clients call in this instance
          Isolated,   \* whether clients keep requests about one ride, or by one user, apart
          MayFail     \* whether a database, Redis or Kafka call may raise

Users == Riders \cup Drivers

Endpoints == {"request", "accept", "start", "complete", "cancel", "online", "offline"}

ASSUME NoneAssumption == None \notin Users \cup Rides \cup Tasks
ASSUME OpsAssumption == Ops \subseteq Endpoints
ASSUME FlagAssumption == {Isolated, MayFail} \subseteq BOOLEAN

VARIABLES rides,           \* Postgres: the rides table
          available,       \* Postgres: drivers.is_available
          redisAvailable,  \* Redis: the drivers:available set
          events,          \* Kafka: the <<topic, ride id>> pairs ever published
          lock,            \* RideService._accept_lock: its holder, or None
          pc,              \* per task: the await it is about to perform
          call,            \* per task: endpoint, path ride id and current user
          mem,             \* per task: the Ride object get_ride() returned
          seen,            \* per task: the row merge()'s SELECT returned
          winners          \* history: the drivers whose accept was committed

vars == <<rides, available, redisAvailable, events, lock, pc, call, mem, seen, winners>>

stores == <<rides, available, redisAvailable, events, winners>>

-----------------------------------------------------------------------------
(* Rows, requests and topics                                               *)

RideStatus == {"REQUESTED", "MATCHED", "IN_PROGRESS", "COMPLETED", "CANCELLED"}

\* fare: whether the fare column is set.
RideRow == [rider : Riders, driver : Drivers \cup {None},
            status : RideStatus, fare : BOOLEAN]

\* find_by_id() found nothing.
NoRow == [rider |-> None, driver |-> None, status |-> "NONE", fare |-> FALSE]

ActiveRideStatuses_Short == {"REQUESTED", "MATCHED"}
ActiveRideStatuses == {"REQUESTED", "MATCHED", "IN_PROGRESS"}

NoCall == [op |-> "none", ride |-> None, user |-> None]

Call == [op : Endpoints, ride : Rides \cup {None}, user : Users]

\* The topic each endpoint publishes on; the others publish nothing.
Topic(op) == CASE op = "request"  -> "ride-requested"
               [] op = "accept"   -> "ride-accepted"
               [] op = "complete" -> "ride-completed"
               [] op = "cancel"   -> "ride-cancelled"
               [] OTHER           -> "none"

Topics == {"ride-requested", "ride-accepted", "ride-completed", "ride-cancelled"}

Labels == {"idle", "check", "insert", "lock", "accept", "driver", "start", "complete",
           "cancel", "avail", "update", "redis", "select", "commit", "publish"}

Init ==
    /\ rides = [r \in Rides |-> NoRow]
    /\ available = [d \in Drivers |-> FALSE]
    /\ redisAvailable = {}
    /\ events = {}
    /\ lock = None
    /\ pc = [t \in Tasks |-> "idle"]
    /\ call = [t \in Tasks |-> NoCall]
    /\ mem = [t \in Tasks |-> NoRow]
    /\ seen = [t \in Tasks |-> NoRow]
    /\ winners = [r \in Rides |-> {}]

-----------------------------------------------------------------------------
(* A request arrives                                                       *)

\* The first await of each handler.  get_profile and set_location/clear_location
\* of go_online and go_offline change none of this module's state.
Entry(op) == CASE op = "request" -> "check"
               [] op = "accept"  -> "lock"
               [] op \in {"online", "offline"} -> "avail"
               [] OTHER -> op

\* Isolated clients keep requests about one ride, and requests by one user, apart.
MayStart(c) ==
    Isolated => \A u \in Tasks : pc[u] # "idle" => call[u].ride # c.ride /\ call[u].user # c.user

\* The id request_ride draws is new: no row has it and no other request drew it.
Fresh(r) ==
    /\ rides[r] = NoRow
    /\ \A u \in Tasks : ~(call[u].op = "request" /\ call[u].ride = r)

\* The calls the routers let through: accept, start, complete and the mode
\* endpoints need driver mode, which only users with a profile can be in.
Routed(c) ==
    \/ c.op = "request" /\ c.user \in Riders /\ c.ride \in Rides /\ Fresh(c.ride)
    \/ c.op \in {"accept", "start", "complete"} /\ c.user \in Drivers /\ c.ride \in Rides
    \/ c.op = "cancel" /\ c.ride \in Rides
    \/ c.op \in {"online", "offline"} /\ c.user \in Drivers /\ c.ride = None

Begin(t) ==
    /\ pc[t] = "idle"
    /\ \E op \in Ops, r \in Rides \cup {None}, u \in Users :
        LET c == [op |-> op, ride |-> r, user |-> u] IN
        /\ Routed(c)
        /\ MayStart(c)
        /\ call' = [call EXCEPT ![t] = c]
        /\ pc' = [pc EXCEPT ![t] = Entry(op)]
    /\ UNCHANGED <<stores, lock, mem, seen>>

Released_Never(t) == lock
Released(t) == IF lock = t THEN None ELSE lock

\* The handler returns or raises; `async with` releases the lock either way.
Return(t) ==
    /\ pc' = [pc EXCEPT ![t] = "idle"]
    /\ call' = [call EXCEPT ![t] = NoCall]
    /\ mem' = [mem EXCEPT ![t] = NoRow]
    /\ seen' = [seen EXCEPT ![t] = NoRow]
    /\ lock' = Released(t)

\* The handler goes on to the await labelled l.
Goto(t, l) ==
    /\ pc' = [pc EXCEPT ![t] = l]
    /\ UNCHANGED <<lock, call>>

\* get_ride() gave the handler the row it keeps working on.
Keep(t, l) ==
    /\ Goto(t, l)
    /\ mem' = [mem EXCEPT ![t] = rides[call[t].ride]]
    /\ UNCHANGED seen

-----------------------------------------------------------------------------
(* request_ride                                                            *)

\* The exists query: 409 when the rider has an active ride.
RequestCheck(t) ==
    /\ pc[t] = "check"
    /\ IF \E r \in Rides : /\ rides[r].rider = call[t].user
                           /\ rides[r].status \in ActiveRideStatuses
       THEN Return(t)
       ELSE Goto(t, "insert") /\ UNCHANGED <<mem, seen>>
    /\ UNCHANGED stores

\* The fare is quoted and the new row committed.
RequestInsert(t) ==
    /\ pc[t] = "insert"
    /\ rides' = [rides EXCEPT ![call[t].ride] =
                    [rider |-> call[t].user, driver |-> None,
                     status |-> "REQUESTED", fare |-> FALSE]]
    /\ Goto(t, "publish")
    /\ UNCHANGED <<available, redisAvailable, events, winners, mem, seen>>

-----------------------------------------------------------------------------
(* accept_ride                                                             *)

Unlocked_Ignored == TRUE
Unlocked == lock = None

AcquireLock(t) ==
    /\ pc[t] = "lock"
    /\ Unlocked
    /\ lock' = t
    /\ pc' = [pc EXCEPT ![t] = "accept"]
    /\ UNCHANGED <<stores, call, mem, seen>>

Acceptable_Always(ride) == ride # NoRow
Acceptable(ride) == ride.status = "REQUESTED"

\* 404 without a row, 409 unless it is REQUESTED.
AcceptRead(t) ==
    /\ pc[t] = "accept"
    /\ IF Acceptable(rides[call[t].ride]) THEN Keep(t, "driver") ELSE Return(t)
    /\ UNCHANGED stores

\* 409 unless the driver's row says available.
AcceptCheckDriver(t) ==
    /\ pc[t] = "driver"
    /\ IF available[call[t].user] THEN Goto(t, "avail") /\ UNCHANGED <<mem, seen>>
                                  ELSE Return(t)
    /\ UNCHANGED stores

-----------------------------------------------------------------------------
(* start_ride, complete_ride, cancel_ride: the read and its guards         *)

Startable_AnyDriver(ride, user) == ride.status \in {"REQUESTED", "MATCHED"}
Startable(ride, user) == ride.status = "MATCHED" /\ ride.driver = user

StartRead(t) ==
    /\ pc[t] = "start"
    /\ IF Startable(rides[call[t].ride], call[t].user) THEN Keep(t, "select") ELSE Return(t)
    /\ UNCHANGED stores

CompleteRead(t) ==
    /\ pc[t] = "complete"
    /\ IF /\ rides[call[t].ride].status = "IN_PROGRESS"
          /\ rides[call[t].ride].driver = call[t].user
       THEN Keep(t, "select") ELSE Return(t)
    /\ UNCHANGED stores

\* Any status but these may be cancelled, CANCELLED included.
Uncancellable_Late == {"COMPLETED"}
Uncancellable == {"IN_PROGRESS", "COMPLETED"}

\* The driver, if this read shows one, is freed before the ride is saved.
CancelRead(t) ==
    /\ pc[t] = "cancel"
    /\ LET ride == rides[call[t].ride] IN
       IF /\ ride # NoRow /\ ride.status \notin Uncancellable
          /\ call[t].user \in {ride.rider, ride.driver}
       THEN Keep(t, IF ride.driver # None THEN "avail" ELSE "select")
       ELSE Return(t)
    /\ UNCHANGED stores

-----------------------------------------------------------------------------
(* DriverRepository.save: the row, then the Redis set                      *)

\* The driver whose availability the handler changes, and to what.
Subject(t) == IF call[t].op = "cancel" THEN mem[t].driver ELSE call[t].user
Freed_ByAccept(op) == op # "offline"
Freed_NotByCancel(op) == op \in {"complete", "online"}
Freed(op) == op \in {"complete", "cancel", "online"}

\* merge()'s SELECT; with nothing to change there is no UPDATE.
SelectDriver(t) ==
    /\ pc[t] = "avail"
    /\ Goto(t, IF available[Subject(t)] = Freed(call[t].op) THEN "redis" ELSE "update")
    /\ UNCHANGED <<stores, mem, seen>>

SetAvailable(t) ==
    /\ pc[t] = "update"
    /\ available' = [available EXCEPT ![Subject(t)] = Freed(call[t].op)]
    /\ Goto(t, "redis")
    /\ UNCHANGED <<rides, redisAvailable, events, winners, mem, seen>>

AfterRedis_Early(op) == IF op \in {"accept", "complete"} THEN "publish" ELSE "select"

\* accept and cancel go on to save the ride, complete has saved it already.
AfterRedis(op) == IF op = "complete" THEN "publish" ELSE "select"

SetRedis(t) ==
    /\ pc[t] = "redis"
    /\ redisAvailable' = IF Freed(call[t].op) THEN redisAvailable \cup {Subject(t)}
                                              ELSE redisAvailable \ {Subject(t)}
    /\ IF call[t].op \in {"online", "offline"}
       THEN Return(t)
       ELSE Goto(t, AfterRedis(call[t].op)) /\ UNCHANGED <<mem, seen>>
    /\ UNCHANGED <<rides, available, events, winners>>

-----------------------------------------------------------------------------
(* RideRepository.save: merge and commit                                   *)

Completing_Unpaid(ride) == [ride EXCEPT !.status = "COMPLETED"]
Completing(ride) == [ride EXCEPT !.status = "COMPLETED", !.fare = TRUE]

Cancelling_EndedBy(ride, user) == [ride EXCEPT !.status = "CANCELLED", !.driver = user]
Cancelling(ride, user) == [ride EXCEPT !.status = "CANCELLED"]

\* replace(ride, ...): the object each handler saves.
Target(t) ==
    CASE call[t].op = "accept"   -> [mem[t] EXCEPT !.driver = call[t].user, !.status = "MATCHED"]
      [] call[t].op = "start"    -> [mem[t] EXCEPT !.status = "IN_PROGRESS"]
      [] call[t].op = "complete" -> Completing(mem[t])
      [] OTHER                   -> Cancelling(mem[t], call[t].user)

\* UPDATE sets the columns in which new differs from the SELECTed old.
Merge(row, old, new) ==
    [rider  |-> row.rider,
     driver |-> IF new.driver # old.driver THEN new.driver ELSE row.driver,
     status |-> IF new.status # old.status THEN new.status ELSE row.status,
     fare   |-> IF new.fare # old.fare THEN new.fare ELSE row.fare]

MergeSelect(t) ==
    /\ pc[t] = "select"
    /\ seen' = [seen EXCEPT ![t] = rides[call[t].ride]]
    /\ Goto(t, "commit")
    /\ UNCHANGED <<stores, mem>>

\* The save of start_ride is its last step; complete_ride then frees its driver.
MergeCommit(t) ==
    /\ pc[t] = "commit"
    /\ rides' = [rides EXCEPT ![call[t].ride] = Merge(@, seen[t], Target(t))]
    /\ winners' = IF call[t].op = "accept"
                  THEN [winners EXCEPT ![call[t].ride] = @ \cup {call[t].user}]
                  ELSE winners
    /\ IF call[t].op = "start"
       THEN Return(t)
       ELSE /\ Goto(t, IF call[t].op = "complete" THEN "avail" ELSE "publish")
            /\ UNCHANGED <<mem, seen>>
    /\ UNCHANGED <<available, redisAvailable, events>>

Publish(t) ==
    /\ pc[t] = "publish"
    /\ events' = events \cup {<<Topic(call[t].op), call[t].ride>>}
    /\ Return(t)
    /\ UNCHANGED <<rides, available, redisAvailable, winners>>

-----------------------------------------------------------------------------
(* The awaited call raises: the request ends with what it has done so far  *)

Fail(t) ==
    /\ MayFail
    /\ pc[t] # "idle"
    /\ Return(t)
    /\ UNCHANGED stores

Step(t) ==
    \/ RequestCheck(t) \/ RequestInsert(t)
    \/ AcceptRead(t) \/ AcceptCheckDriver(t)
    \/ StartRead(t) \/ CompleteRead(t) \/ CancelRead(t)
    \/ SelectDriver(t) \/ SetAvailable(t) \/ SetRedis(t)
    \/ MergeSelect(t) \/ MergeCommit(t) \/ Publish(t)

Next == \E t \in Tasks : Begin(t) \/ AcquireLock(t) \/ Step(t) \/ Fail(t)

Spec == Init /\ [][Next]_vars

\* Every awaited call returns or raises, so a task goes on; asyncio.Lock wakes its
\* waiters first come, first served, so a waiter that the lock passes by again and
\* again gets it.
Fairness == \A t \in Tasks : WF_vars(Step(t)) /\ SF_vars(AcquireLock(t))

-----------------------------------------------------------------------------
(* Properties                                                              *)

\* Types of the tables, the Redis set, the topics and the tasks' local variables.
TypeOK ==
    /\ rides \in [Rides -> RideRow \cup {NoRow}]
    /\ available \in [Drivers -> BOOLEAN]
    /\ redisAvailable \in SUBSET Drivers
    /\ events \in SUBSET (Topics \X Rides)
    /\ lock \in Tasks \cup {None}
    /\ pc \in [Tasks -> Labels]
    /\ call \in [Tasks -> Call \cup {NoCall}]
    /\ mem \in [Tasks -> RideRow \cup {NoRow}]
    /\ seen \in [Tasks -> RideRow \cup {NoRow}]
    /\ winners \in [Rides -> SUBSET Drivers]

\* The guarantee the comment on _accept_lock claims (services/ride.py:34-37): however
\* requests interleave and fail, at most one accept_ride of a ride is ever committed.
AcceptOnce == \A r \in Rides : \A d, e \in winners[r] : d = e

\* A ride is carried and charged only on behalf of the driver who won it: a status
\* past REQUESTED, other than CANCELLED, and a fare need a winner, and the driver_id
\* column, whatever stale object was merged into the row, never names anyone else.
OnlyTheWinner ==
    \A r \in Rides :
        /\ rides[r].driver # None => rides[r].driver \in winners[r]
        /\ rides[r].status \in {"MATCHED", "IN_PROGRESS", "COMPLETED"} => winners[r] # {}
        /\ rides[r].fare => winners[r] # {}

\* An event is published only after the row it is about is committed, and no later
\* save undoes that: whoever consumes ride-accepted, -completed or -cancelled never
\* finds the ride REQUESTED (or missing) again.
NoEventBeforeCommit ==
    \A r \in Rides :
        /\ <<"ride-requested", r>> \in events => rides[r] # NoRow
        /\ \A topic \in Topics \ {"ride-requested"} :
              <<topic, r>> \in events => rides[r].status \notin {"NONE", "REQUESTED"}

\* _accept_lock is never orphaned: whatever an accept fails on inside its `async with`,
\* the task that holds the lock is an accept_ride that is still between its two ends, so
\* that those who wait for the lock wait for somebody who runs.
LockIsNeverLeaked ==
    lock # None => /\ call[lock].op = "accept"
                   /\ pc[lock] \in Labels \ {"idle", "lock"}

\* The promise of RideAssignment: opened once, assigned at most once, never reopened.
Phase(status) == CASE status = "NONE" -> "none"
                   [] status = "REQUESTED" -> "open"
                   [] OTHER -> "closed"

Assignment == INSTANCE RideAssignment
                WITH phase <- [r \in Rides |-> Phase(rides[r].status)],
                     assigned <- winners

AssignmentSpec == Assignment!Spec

\* Every request, whoever holds the accept lock and whatever it fails on, comes to
\* an end: no handler waits for the lock forever.
RequestsTerminate == \A t \in Tasks : pc[t] # "idle" ~> pc[t] = "idle"

Edges == {<<"NONE", "REQUESTED">>, <<"REQUESTED", "MATCHED">>, <<"MATCHED", "IN_PROGRESS">>,
          <<"IN_PROGRESS", "COMPLETED">>, <<"REQUESTED", "CANCELLED">>, <<"MATCHED", "CANCELLED">>}

\* However requests overlap and fail, a ride is taken off its edges only by a request that
\* saves what it read before somebody else's commit changed the status.
StaleSave(t, r) == /\ pc[t] = "commit" /\ pc'[t] # "commit"
                   /\ call[t].ride = r /\ mem[t].status # rides[r].status

OnEdges(r) == \/ rides'[r].status = rides[r].status
              \/ <<rides[r].status, rides'[r].status>> \in Edges

OffEdgesOnlyWhenStale == [][\A r \in Rides : OnEdges(r) \/ \E t \in Tasks : StaleSave(t, r)]_vars

\* The ride state machine, for clients that do not overlap requests about one ride:
\* failures half way through a handler never take a ride off its edges.
StateMachine == [][\A r \in Rides : OnEdges(r)]_vars

\* The promise of RideLedger to the same clients: every request takes effect at once, in
\* its commit, and what is published of a ride is true when it is published.
Ledger == INSTANCE RideLedger

LedgerSpec == Ledger!Spec

\* Under the same discipline, status, driver_id and fare agree in every committed row.
RowConsistent ==
    \A r \in Rides :
        /\ rides[r].status \in {"MATCHED", "IN_PROGRESS", "COMPLETED"} => rides[r].driver # None
        /\ rides[r].status = "REQUESTED" => rides[r].driver = None
        /\ rides[r].fare <=> rides[r].status = "COMPLETED"

\* tests/test_rides.py:196: "cancel rejected once in progress".  A ride that is in progress
\* or completed is never cancelled (409 of cancel_ride).
NoCancelOnceInProgress ==
    [][\A r \in Rides : rides[r].status \in {"IN_PROGRESS", "COMPLETED"}
                            => rides'[r].status # "CANCELLED"]_vars
=============================================================================
