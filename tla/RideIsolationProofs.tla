------------------------- MODULE RideIsolationProofs -------------------------
(***************************************************************************)
(* What RideService promises to clients that keep requests about one ride, *)
(* and requests by one user, apart, for any number of them and whatever    *)
(* fails: the state machine of a ride, rows whose columns agree, and every *)
(* request as one step of RideLedger.  None of it holds without that       *)
(* discipline; the last section has what does, of the state machine.       *)
(*                                                                         *)
(* Isolation makes a stale object impossible: between the read of a ride   *)
(* and the save (Holding) the object is the row, so that merge() saves     *)
(* what the handler meant to.                                              *)
(***************************************************************************)
EXTENDS RideServiceProofs

\* No two requests in flight are about one ride or by one user.
Apart ==
    \A t, u \in Tasks :
        t # u /\ pc[t] # "idle" /\ pc[u] # "idle"
            => call[t].ride # call[u].ride /\ call[t].user # call[u].user

\* A handler is between its read of the ride and the commit that saves it.
Holding(t) ==
    \/ /\ call[t].op \in {"accept", "cancel"}
       /\ pc[t] \in {"driver", "avail", "update", "redis", "select", "commit"}
    \/ /\ call[t].op \in {"start", "complete"}
       /\ pc[t] \in {"select", "commit"}

\* The statuses from which each endpoint goes on.
From(op) == CASE op = "accept"   -> {"REQUESTED"}
              [] op = "start"    -> {"MATCHED"}
              [] op = "complete" -> {"IN_PROGRESS"}
              [] OTHER           -> {"REQUESTED", "MATCHED", "CANCELLED"}

\* A handler has committed its save and has its event still to publish.
Committed(t) ==
    \/ pc[t] = "publish"
    \/ call[t].op = "complete" /\ pc[t] \in {"avail", "update", "redis"}

\* What a handler read, or saved, is still so.
Current(t) ==
    /\ Holding(t) => /\ mem[t] = rides[call[t].ride]
                     /\ mem[t].status \in From(call[t].op)
    /\ pc[t] = "commit" => seen[t] = rides[call[t].ride]
    /\ Committed(t) => <<rides[call[t].ride].status, Topic(call[t].op)>> \in Ledger!Tells
    /\ pc[t] = "insert" => \A r \in Rides : rides[r].rider = call[t].user
                                               => rides[r].status \notin ActiveRideStatuses

\* The 409 of request_ride, which holds as long as no two requests of a rider overlap.
OneActiveRide ==
    \A r, s \in Rides :
        /\ rides[r].status \in ActiveRideStatuses /\ rides[s].status \in ActiveRideStatuses
        /\ rides[r].rider = rides[s].rider
        => r = s

RowsOK == RowConsistent /\ OneActiveRide

IsoInv ==
    /\ Apart
    /\ \A t \in Tasks : Current(t)
    /\ RowsOK

-----------------------------------------------------------------------------
(* The tasks                                                               *)

\* Steps that leave the rides table alone leave the rows consistent.
LEMMA RowsSame == ASSUME RowsOK, UNCHANGED rides PROVE RowsOK'
  BY DEF RowsOK, RowConsistent, OneActiveRide

\* A step of t that leaves the calls and the other tasks alone keeps requests apart.
LEMMA StillApart ==
    ASSUME NEW t \in Tasks, Apart, pc[t] # "idle", UNCHANGED call,
           \A u \in Tasks \ {t} : pc'[u] = pc[u]
    PROVE  Apart'
  BY DEF Apart

\* What a step may do to the table without making another task's read stale.
Harmless(t) ==
    \A u \in Tasks \ {t} :
        /\ Holding(u) \/ pc[u] = "commit" \/ Committed(u)
              => rides'[call[u].ride] = rides[call[u].ride]
        /\ pc[u] = "insert" => \A r \in Rides : rides'[r].rider = call[u].user
                                                  => rides'[r].status \notin ActiveRideStatuses

LEMMA OtherCurrent ==
    ASSUME NEW t \in Tasks, NEW u \in Tasks \ {t}, Current(u), Harmless(t),
           pc'[u] = pc[u], call'[u] = call[u], mem'[u] = mem[u], seen'[u] = seen[u]
    PROVE  Current(u)'
  BY DEF Current, Holding, Committed, Harmless

LEMMA QuietIsHarmless ==
    ASSUME IsoInv, UNCHANGED rides, NEW t \in Tasks PROVE Harmless(t)
  BY DEF IsoInv, Current, Harmless

\* The request ends, whatever it has written.
LEMMA ReturnIso ==
    ASSUME IInv, IsoInv, NEW t \in Tasks, Return(t), Harmless(t), RowsOK'
    PROVE  IsoInv'
  <1>1. /\ pc'[t] = "idle" /\ call'[t] = NoCall
        /\ \A u \in Tasks \ {t} : /\ pc'[u] = pc[u] /\ call'[u] = call[u]
                                  /\ mem'[u] = mem[u] /\ seen'[u] = seen[u]
    BY DEF IInv, TasksInv, LocalTypeOK, Return
  <1>2. Apart'
    BY <1>1 DEF IsoInv, Apart
  <1>3. Current(t)'
    BY <1>1 DEF Current, Holding, Committed, NoCall
  <1>4. \A u \in Tasks \ {t} : Current(u)'
    BY <1>1, OtherCurrent DEF IsoInv
  <1> QED
    BY <1>2, <1>3, <1>4 DEF IsoInv

\* The request goes on; that its own read is current remains to show.
LEMMA GotoIso ==
    ASSUME IInv, IsoInv, NEW t \in Tasks, NEW l \in Labels, pc[t] # "idle", Goto(t, l),
           \A u \in Tasks \ {t} : mem'[u] = mem[u] /\ seen'[u] = seen[u],
           Harmless(t), Current(t)', RowsOK'
    PROVE  IsoInv'
  <1>1. UNCHANGED call /\ \A u \in Tasks \ {t} : pc'[u] = pc[u]
    BY DEF IInv, TasksInv, LocalTypeOK, Goto
  <1>2. Apart'
    BY <1>1, StillApart DEF IsoInv
  <1>3. \A u \in Tasks \ {t} : Current(u)'
    BY <1>1, OtherCurrent DEF IsoInv
  <1> QED
    BY <1>2, <1>3 DEF IsoInv

\* A request that goes on holding what it holds, the table unchanged.
LEMMA CarryOn ==
    ASSUME IInv, IsoInv, NEW t \in Tasks, NEW l \in Labels \ {"commit", "insert"},
           pc[t] # "idle", Goto(t, l), UNCHANGED <<rides, mem, seen>>,
           Holding(t)' => Holding(t), Committed(t)' => Committed(t)
    PROVE  IsoInv'
  <1>1. UNCHANGED call /\ pc'[t] = l
    BY DEF IInv, TasksInv, LocalTypeOK, Goto
  <1>2. Current(t)'
    BY <1>1 DEF IsoInv, Current
  <1> QED
    BY <1>2, GotoIso, RowsSame, QuietIsHarmless DEF IsoInv

\* A request that returns without having touched the table.
LEMMA Leave ==
    ASSUME IInv, IsoInv, NEW t \in Tasks, Return(t), UNCHANGED rides
    PROVE  IsoInv'
  BY ReturnIso, RowsSame, QuietIsHarmless DEF IsoInv

\* A read that goes on: the object is the row, in a status the endpoint goes on from.
LEMMA KeepIso ==
    ASSUME IInv, IsoInv, NEW t \in Tasks, NEW l \in Labels \ {"commit", "insert"},
           pc[t] # "idle", Keep(t, l), UNCHANGED rides,
           rides[call[t].ride].status \in From(call[t].op), ~Committed(t)'
    PROVE  IsoInv'
  <1>1. /\ Goto(t, l) /\ UNCHANGED <<call, seen>> /\ pc'[t] = l
        /\ mem'[t] = rides[call[t].ride]
        /\ \A u \in Tasks \ {t} : mem'[u] = mem[u] /\ seen'[u] = seen[u]
    BY DEF IInv, TasksInv, LocalTypeOK, Goto, Keep
  <1>2. Current(t)'
    BY <1>1 DEF Current
  <1> QED
    BY <1>1, <1>2, GotoIso, RowsSame, QuietIsHarmless DEF IsoInv

-----------------------------------------------------------------------------
(* The steps that leave the table alone                                    *)

LEMMA BeginIso ==
    ASSUME Isolated, IInv, IsoInv, NEW t \in Tasks, Begin(t)
    PROVE  IsoInv'
  <1>1. PICK op \in Ops, r \in Rides \cup {None}, u \in Users :
           LET c == [op |-> op, ride |-> r, user |-> u]
           IN  /\ MayStart(c)
               /\ call' = [call EXCEPT ![t] = c]
               /\ pc' = [pc EXCEPT ![t] = Entry(op)]
    BY DEF Begin
  <1> DEFINE c == [op |-> op, ride |-> r, user |-> u]
  <1>2. UNCHANGED <<rides, mem, seen>>
    BY DEF Begin, stores
  <1>3. /\ pc'[t] = Entry(op) /\ call'[t] = c
        /\ \A v \in Tasks \ {t} : pc'[v] = pc[v] /\ call'[v] = call[v]
    BY <1>1 DEF IInv, TasksInv, LocalTypeOK
  <1>4. \A v \in Tasks : pc[v] # "idle" => call[v].ride # c.ride /\ call[v].user # c.user
    BY <1>1 DEF MayStart
  <1>5. Apart'
    BY <1>3, <1>4 DEF IsoInv, Apart
  <1>6. op \in Endpoints
    BY OpsAssumption
  <1>7. Current(t)'
    <2>1. Entry(op) \notin {"commit", "insert"}
      BY <1>6 DEF Entry, Endpoints
    <2>2. ~Holding(t)' /\ ~Committed(t)'
      BY <1>3, <1>6 DEF Holding, Committed, Entry, Endpoints
    <2> QED
      BY <1>3, <2>1, <2>2 DEF Current
  <1>8. \A v \in Tasks \ {t} : Current(v)'
    BY <1>2, <1>3, OtherCurrent, QuietIsHarmless DEF IsoInv
  <1> QED
    BY <1>2, <1>5, <1>7, <1>8, RowsSame DEF IsoInv

LEMMA AcquireLockIso ==
    ASSUME IInv, IsoInv, NEW t \in Tasks, AcquireLock(t)
    PROVE  IsoInv'
  <1>1. /\ pc[t] = "lock" /\ pc'[t] = "accept"
        /\ UNCHANGED <<rides, call, mem, seen>>
        /\ \A u \in Tasks \ {t} : pc'[u] = pc[u]
    BY DEF AcquireLock, IInv, TasksInv, LocalTypeOK, stores
  <1>2. Apart'
    BY <1>1, StillApart DEF IsoInv
  <1>3. Current(t)'
    BY <1>1 DEF Current, Holding, Committed
  <1>4. \A u \in Tasks \ {t} : Current(u)'
    BY <1>1, OtherCurrent, QuietIsHarmless DEF IsoInv
  <1> QED
    BY <1>1, <1>2, <1>3, <1>4, RowsSame DEF IsoInv

LEMMA RequestCheckIso ==
    ASSUME IInv, IsoInv, NEW t \in Tasks, RequestCheck(t)
    PROVE  IsoInv'
  <1>1. pc[t] = "check" /\ UNCHANGED rides
    BY DEF RequestCheck, stores
  <1>2. CASE Return(t)
    BY <1>1, <1>2, Leave
  <1>3. CASE /\ ~\E r \in Rides : /\ rides[r].rider = call[t].user
                                  /\ rides[r].status \in ActiveRideStatuses
             /\ Goto(t, "insert") /\ UNCHANGED <<mem, seen>>
    <2>1. UNCHANGED call /\ pc'[t] = "insert" /\ "insert" \in Labels
      BY <1>3 DEF IInv, TasksInv, LocalTypeOK, Goto, Labels
    <2>2. Current(t)'
      BY <1>1, <1>3, <2>1 DEF Current, Holding, Committed
    <2> QED
      BY <1>1, <1>3, <2>1, <2>2, GotoIso, RowsSame, QuietIsHarmless DEF IsoInv
  <1> QED
    BY <1>2, <1>3 DEF RequestCheck

\* The four reads: a handler goes on with a row in a status its endpoint goes on from.
LEMMA ReadsFrom ==
    ASSUME IInv, NEW t \in Tasks, AcceptRead(t) \/ StartRead(t) \/ CompleteRead(t) \/ CancelRead(t)
    PROVE  /\ UNCHANGED rides /\ pc[t] # "idle"
           /\ \/ Return(t)
              \/ \E l \in {"driver", "avail", "select"} :
                    /\ Keep(t, l)
                    /\ l = "avail" => call[t].op = "cancel"
                    /\ rides[call[t].ride].status \in From(call[t].op)
  <1> DEFINE ride == rides[call[t].ride]
  <1>1. UNCHANGED rides /\ pc[t] \in {"accept", "start", "complete", "cancel"}
    BY DEF AcceptRead, StartRead, CompleteRead, CancelRead, stores
  <1>2. call[t].op = pc[t] /\ call[t].ride \in Rides
    BY <1>1 DEF IInv, TasksInv, TaskInv, CallShape, LabelsOf, NoCall, Savers
  <1>3. ride # NoRow => ride.status \in RideStatus
    BY <1>2 DEF IInv, StoreInv, StoreTypeOK, RideRow
  <1>4. CASE AcceptRead(t)
    BY <1>1, <1>2, <1>4 DEF AcceptRead, Acceptable, From
  <1>5. CASE StartRead(t)
    BY <1>1, <1>2, <1>5 DEF StartRead, Startable, From
  <1>6. CASE CompleteRead(t)
    BY <1>1, <1>2, <1>6 DEF CompleteRead, From
  <1>7. CASE CancelRead(t)
    <2>1. pc[t] = "cancel" /\ From(call[t].op) = {"REQUESTED", "MATCHED", "CANCELLED"}
      BY <1>2, <1>7 DEF CancelRead, From
    <2>2. CASE /\ ride # NoRow /\ ride.status \notin Uncancellable
               /\ Keep(t, IF ride.driver # None THEN "avail" ELSE "select")
      <3>1. ride.status \in From(call[t].op)
        BY <1>3, <2>1, <2>2 DEF Uncancellable, RideStatus
      <3> QED
        BY <1>1, <1>2, <2>1, <2>2, <3>1
    <2> QED
      BY <1>1, <1>7, <2>2 DEF CancelRead
  <1> QED
    BY <1>1, <1>4, <1>5, <1>6, <1>7

LEMMA ReadIso ==
    ASSUME IInv, IsoInv, NEW t \in Tasks,
           AcceptRead(t) \/ StartRead(t) \/ CompleteRead(t) \/ CancelRead(t)
    PROVE  IsoInv'
  <1>1. CASE Return(t)
    BY <1>1, ReadsFrom, Leave
  <1>2. ASSUME NEW l \in {"driver", "avail", "select"}, Keep(t, l),
               l = "avail" => call[t].op = "cancel",
               rides[call[t].ride].status \in From(call[t].op)
        PROVE  IsoInv'
    <2>1. UNCHANGED call /\ pc'[t] = l
      BY <1>2 DEF Keep, Goto, IInv, TasksInv, LocalTypeOK, Labels
    <2>2. ~Committed(t)'
      BY <1>2, <2>1 DEF Committed
    <2> QED
      BY <1>2, <2>2, ReadsFrom, KeepIso DEF Labels
  <1> QED
    BY <1>1, <1>2, ReadsFrom

\* The steps on the driver's row and the Redis set.
LEMMA DriverIso ==
    ASSUME IInv, IsoInv, NEW t \in Tasks,
           AcceptCheckDriver(t) \/ SelectDriver(t) \/ SetAvailable(t) \/ SetRedis(t)
    PROVE  IsoInv'
  <1>1. UNCHANGED rides /\ pc[t] \in {"driver", "avail", "update", "redis"}
    BY DEF AcceptCheckDriver, SelectDriver, SetAvailable, SetRedis, stores
  <1>2. CASE Return(t)
    BY <1>1, <1>2, Leave
  <1>3. pc[t] = "driver" => call[t].op = "accept"
    BY DEF IInv, TasksInv, TaskInv, CallShape, LabelsOf
  <1>4. ASSUME NEW l \in {"avail", "update", "redis"}, Goto(t, l), UNCHANGED <<mem, seen>>
        PROVE  IsoInv'
    <2>1. UNCHANGED call /\ pc'[t] = l /\ l \in Labels \ {"commit", "insert"}
      BY <1>4 DEF IInv, TasksInv, LocalTypeOK, Goto, Labels
    <2>2. (Holding(t)' => Holding(t)) /\ (Committed(t)' => Committed(t))
      BY <1>1, <2>1, <1>3 DEF Holding, Committed
    <2> QED
      BY <1>1, <1>4, <2>1, <2>2, CarryOn
  <1>5. CASE AcceptCheckDriver(t)
    BY <1>2, <1>4, <1>5 DEF AcceptCheckDriver
  <1>6. CASE SelectDriver(t) \/ SetAvailable(t)
    BY <1>4, <1>6 DEF SelectDriver, SetAvailable
  <1>7. CASE SetRedis(t)
    <2>1. ASSUME Goto(t, AfterRedis(call[t].op)), UNCHANGED <<mem, seen>> PROVE IsoInv'
      <3> DEFINE l == AfterRedis(call[t].op)
      <3>1. UNCHANGED call /\ pc'[t] = l /\ l \in Labels \ {"commit", "insert"}
        BY <2>1 DEF IInv, TasksInv, LocalTypeOK, Goto, Labels, AfterRedis
      <3>2. (Holding(t)' => Holding(t)) /\ (Committed(t)' => Committed(t))
        <4>1. call[t].op # "start" /\ pc[t] = "redis"
          BY <1>1, <1>7 DEF IInv, TasksInv, TaskInv, CallShape, LabelsOf, SetRedis
        <4> QED
          BY <3>1, <4>1 DEF Holding, Committed, AfterRedis
      <3> QED
        BY <1>1, <2>1, <3>1, <3>2, CarryOn
    <2> QED
      BY <1>2, <1>7, <2>1 DEF SetRedis
  <1> QED
    BY <1>5, <1>6, <1>7

\* merge()'s SELECT returns the row the handler holds.
LEMMA MergeSelectIso ==
    ASSUME IInv, IsoInv, NEW t \in Tasks, MergeSelect(t)
    PROVE  IsoInv'
  <1>1. /\ pc[t] = "select" /\ pc'[t] = "commit" /\ UNCHANGED <<rides, call, mem>>
        /\ Goto(t, "commit") /\ seen'[t] = rides[call[t].ride]
        /\ \A u \in Tasks \ {t} : seen'[u] = seen[u]
    BY DEF MergeSelect, Goto, IInv, TasksInv, LocalTypeOK, stores
  <1>2. (Holding(t)' => Holding(t)) /\ ~Committed(t)'
    BY <1>1 DEF Holding, Committed
  <1>3. Current(t)'
    BY <1>1, <1>2 DEF IsoInv, Current
  <1> QED
    BY <1>1, <1>3, GotoIso, RowsSame, QuietIsHarmless DEF IsoInv, Labels

-----------------------------------------------------------------------------
(* The steps that write a row                                              *)

\* The INSERT: the rider had no active ride and still has none but this one.
LEMMA RequestInsertIso ==
    ASSUME IInv, IsoInv, NEW t \in Tasks, RequestInsert(t)
    PROVE  IsoInv'
  <1> DEFINE ride == call[t].ride
             new == [rider |-> call[t].user, driver |-> None,
                     status |-> "REQUESTED", fare |-> FALSE]
  <1>1. /\ pc[t] = "insert" /\ Goto(t, "publish") /\ UNCHANGED <<mem, seen>>
        /\ rides' = [rides EXCEPT ![ride] = new]
    BY DEF RequestInsert
  <1>2. ride \in Rides /\ rides[ride] = NoRow
    BY <1>1 DEF IInv, TasksInv, TaskInv, CallShape, Claim, LabelsOf, NoCall
  <1>3. rides'[ride] = new /\ \A r \in Rides \ {ride} : rides'[r] = rides[r]
    BY <1>1, <1>2 DEF IInv, StoreInv, StoreTypeOK
  <1>4. \A r \in Rides : rides[r].rider = call[t].user => rides[r].status \notin ActiveRideStatuses
    BY <1>1 DEF IsoInv, Current
  <1>5. RowConsistent'
    BY <1>3 DEF IsoInv, RowsOK, RowConsistent
  <1>6. OneActiveRide'
    BY <1>3, <1>4 DEF IsoInv, RowsOK, OneActiveRide, ActiveRideStatuses
  <1>7. Harmless(t)
    <2>1. ASSUME NEW u \in Tasks \ {t}, pc[u] # "idle"
          PROVE  call[u].ride # ride /\ call[u].user # call[t].user
      BY <1>1, <2>1 DEF IsoInv, Apart
    <2>2. ASSUME NEW u \in Tasks \ {t}, Holding(u) \/ pc[u] = "commit" \/ Committed(u)
          PROVE  rides'[call[u].ride] = rides[call[u].ride]
      <3>1. pc[u] # "idle" /\ call[u].ride \in Rides
        BY <2>2 DEF Holding, Committed, IInv, TasksInv, TaskInv, CallShape, LabelsOf, NoCall, Savers
      <3> QED
        BY <1>3, <2>1, <3>1
    <2>3. ASSUME NEW u \in Tasks \ {t}, pc[u] = "insert",
                 NEW r \in Rides, rides'[r].rider = call[u].user
          PROVE  rides'[r].status \notin ActiveRideStatuses
      <3>1. r # ride
        BY <1>3, <2>1, <2>3
      <3> QED
        BY <1>3, <2>3, <3>1 DEF IsoInv, Current
    <2> QED
      BY <2>2, <2>3 DEF Harmless
  <1>8. Current(t)'
    <2>1. UNCHANGED call /\ pc'[t] = "publish" /\ call[t].op = "request"
      BY <1>1 DEF Goto, IInv, TasksInv, LocalTypeOK, TaskInv, CallShape, LabelsOf
    <2>2. <<rides'[ride].status, Topic(call[t].op)>> \in Ledger!Tells
      BY <1>3, <2>1 DEF Topic, Ledger!Tells
    <2> QED
      BY <2>1, <2>2 DEF Current, Holding
  <1> QED
    BY <1>1, <1>5, <1>6, <1>7, <1>8, GotoIso DEF Labels, RowsOK

\* Merging an object into the row it was read from saves just what the handler changed.
LEMMA CommitExact ==
    ASSUME IInv, IsoInv, NEW t \in Tasks, MergeCommit(t)
    PROVE  LET ride == call[t].ride
               old == rides[ride]
               new == rides'[ride]
           IN  /\ ride \in Rides /\ old \in RideRow
               /\ \A r \in Rides \ {ride} : rides'[r] = rides[r]
               /\ old.status \in From(call[t].op)
               /\ new.rider = old.rider
               /\ CASE call[t].op = "accept"   -> /\ new.driver \in Drivers
                                                  /\ new.status = "MATCHED" /\ new.fare = old.fare
                    [] call[t].op = "start"    -> /\ new.driver = old.driver
                                                  /\ new.status = "IN_PROGRESS" /\ new.fare = old.fare
                    [] call[t].op = "complete" -> /\ new.driver = old.driver
                                                  /\ new.status = "COMPLETED" /\ new.fare = TRUE
                    [] OTHER                   -> /\ new.driver = old.driver
                                                  /\ new.status = "CANCELLED" /\ new.fare = old.fare
  <1> DEFINE ride == call[t].ride
             old == rides[ride]
             new == rides'[ride]
  <1>1. /\ pc[t] = "commit" /\ call[t].op \in Savers /\ ride \in Rides /\ old \in RideRow
        /\ new = Merge(old, seen[t], Target(t))
        /\ \A r \in Rides \ {ride} : rides'[r] = rides[r]
        /\ call[t].op = "accept" => call[t].user \in Drivers
    BY CommitFact
  <1>2. Holding(t)
    BY <1>1 DEF Holding, Savers
  <1>3. mem[t] = old /\ seen[t] = old /\ old.status \in From(call[t].op)
    BY <1>1, <1>2 DEF IsoInv, Current
  <1>4. /\ new.rider = old.rider /\ new.driver = Target(t).driver
        /\ new.status = Target(t).status /\ new.fare = Target(t).fare
    BY <1>1, <1>3 DEF Merge
  <1>5. CASE call[t].op = "accept"
    <2>1. Target(t) = [old EXCEPT !.driver = call[t].user, !.status = "MATCHED"]
      BY <1>3, <1>5 DEF Target
    <2> QED
      BY <1>1, <1>3, <1>4, <1>5, <2>1 DEF RideRow
  <1>6. CASE call[t].op = "start"
    <2>1. Target(t) = [old EXCEPT !.status = "IN_PROGRESS"]
      BY <1>3, <1>6 DEF Target
    <2> QED
      BY <1>1, <1>3, <1>4, <1>6, <2>1 DEF RideRow
  <1>7. CASE call[t].op = "complete"
    <2>1. Target(t) = [old EXCEPT !.status = "COMPLETED", !.fare = TRUE]
      BY <1>3, <1>7 DEF Target, Completing
    <2> QED
      BY <1>1, <1>3, <1>4, <1>7, <2>1 DEF RideRow
  <1>8. CASE call[t].op = "cancel"
    <2>1. Target(t) = [old EXCEPT !.status = "CANCELLED"]
      BY <1>3, <1>8 DEF Target, Cancelling
    <2> QED
      BY <1>1, <1>3, <1>4, <1>8, <2>1 DEF RideRow
  <1> QED
    BY <1>1, <1>5, <1>6, <1>7, <1>8 DEF Savers

\* The row goes along an edge of the state machine or keeps its status, and a ride that
\* was not active does not become so.
LEMMA CommitEdge ==
    ASSUME IInv, IsoInv, NEW t \in Tasks, MergeCommit(t), NEW r \in Rides
    PROVE  /\ OnEdges(r)
           /\ rides'[r].rider = rides[r].rider
           /\ rides'[r].status \in ActiveRideStatuses => rides[r].status \in ActiveRideStatuses
  <1> DEFINE ride == call[t].ride
  <1>1. CASE r # ride
    BY <1>1, CommitExact DEF OnEdges
  <1>2. CASE r = ride
    <2>1. call[t].op \in Savers
      BY CommitFact
    <2>2. /\ rides'[r].rider = rides[r].rider
          /\ rides[r].status \in From(call[t].op)
          /\ rides'[r].status = CASE call[t].op = "accept"   -> "MATCHED"
                                  [] call[t].op = "start"    -> "IN_PROGRESS"
                                  [] call[t].op = "complete" -> "COMPLETED"
                                  [] OTHER                   -> "CANCELLED"
      BY <1>2, <2>1, CommitExact DEF Savers
    <2> QED
      BY <2>1, <2>2 DEF Savers, From, Edges, OnEdges, ActiveRideStatuses
  <1> QED
    BY <1>1, <1>2

LEMMA MergeCommitIso ==
    ASSUME IInv, IsoInv, NEW t \in Tasks, MergeCommit(t)
    PROVE  IsoInv'
  <1> DEFINE ride == call[t].ride
             old == rides[ride]
             new == rides'[ride]
  <1>1. /\ ride \in Rides /\ old \in RideRow /\ \A r \in Rides \ {ride} : rides'[r] = rides[r]
        /\ pc[t] = "commit" /\ call[t].op \in Savers
    BY CommitFact
  <1>2. RowConsistent'
    <2>1. /\ old.status \in {"MATCHED", "IN_PROGRESS", "COMPLETED"} => old.driver # None
          /\ old.fare <=> old.status = "COMPLETED"
      BY <1>1 DEF IsoInv, RowsOK, RowConsistent
    <2>2. old.fare \in BOOLEAN /\ None \notin Drivers
      BY <1>1, NoneAssumption DEF RideRow, Users
    <2>3. /\ new.status \in {"MATCHED", "IN_PROGRESS", "COMPLETED"} => new.driver # None
          /\ new.status = "REQUESTED" => new.driver = None
          /\ new.fare <=> new.status = "COMPLETED"
      <3>1. old.status \in From(call[t].op)
        BY CommitExact
      <3>2. CASE call[t].op = "accept"
        <4>1. new.driver \in Drivers /\ new.status = "MATCHED" /\ new.fare = old.fare
          BY <3>2, CommitExact
        <4> QED
          BY <2>1, <2>2, <3>1, <3>2, <4>1 DEF From
      <3>3. CASE call[t].op = "start"
        <4>1. new.driver = old.driver /\ new.status = "IN_PROGRESS" /\ new.fare = old.fare
          BY <3>3, CommitExact
        <4> QED
          BY <2>1, <2>2, <3>1, <3>3, <4>1 DEF From
      <3>4. CASE call[t].op = "complete"
        <4>1. new.driver = old.driver /\ new.status = "COMPLETED" /\ new.fare = TRUE
          BY <3>4, CommitExact
        <4> QED
          BY <2>1, <2>2, <3>1, <3>4, <4>1 DEF From
      <3>5. CASE call[t].op = "cancel"
        <4>1. new.driver = old.driver /\ new.status = "CANCELLED" /\ new.fare = old.fare
          BY <3>5, CommitExact
        <4> QED
          BY <2>1, <2>2, <3>1, <3>5, <4>1 DEF From
      <3> QED
        BY <1>1, <3>2, <3>3, <3>4, <3>5 DEF Savers
    <2> QED
      BY <1>1, <2>3 DEF IsoInv, RowsOK, RowConsistent
  <1>3. OneActiveRide'
    BY CommitEdge DEF IsoInv, RowsOK, OneActiveRide, ActiveRideStatuses
  <1>4. Harmless(t)
    <2>1. ASSUME NEW u \in Tasks \ {t}, Holding(u) \/ pc[u] = "commit" \/ Committed(u)
          PROVE  rides'[call[u].ride] = rides[call[u].ride]
      <3>1. pc[u] # "idle" /\ call[u].ride \in Rides
        BY <2>1 DEF Holding, Committed, IInv, TasksInv, TaskInv, CallShape, LabelsOf, NoCall, Savers
      <3>2. call[u].ride # ride
        BY <1>1, <3>1 DEF IsoInv, Apart
      <3> QED
        BY <1>1, <3>1, <3>2
    <2>2. ASSUME NEW u \in Tasks \ {t}, pc[u] = "insert",
                 NEW r \in Rides, rides'[r].rider = call[u].user
          PROVE  rides'[r].status \notin ActiveRideStatuses
      BY <2>2, CommitEdge DEF IsoInv, Current
    <2> QED
      BY <2>1, <2>2 DEF Harmless
  <1>5. CASE Return(t)
    BY <1>2, <1>3, <1>4, <1>5, ReturnIso DEF RowsOK
  <1>6. CASE /\ call[t].op # "start"
             /\ Goto(t, IF call[t].op = "complete" THEN "avail" ELSE "publish")
             /\ UNCHANGED <<mem, seen>>
    <2> DEFINE l == IF call[t].op = "complete" THEN "avail" ELSE "publish"
    <2>1. UNCHANGED call /\ pc'[t] = l /\ l \in Labels
      BY <1>6 DEF IInv, TasksInv, LocalTypeOK, Goto, Labels
    <2>2. <<new.status, Topic(call[t].op)>> \in Ledger!Tells
      BY <1>1, <1>6, CommitExact DEF Savers, Topic, Ledger!Tells
    <2>3. Current(t)'
      BY <1>1, <2>1, <2>2 DEF Current, Holding
    <2> QED
      BY <1>1, <1>2, <1>3, <1>4, <1>6, <2>1, <2>3, GotoIso DEF RowsOK
  <1> QED
    BY <1>5, <1>6 DEF MergeCommit

-----------------------------------------------------------------------------
(* The invariant                                                           *)

LEMMA InitIso == ASSUME Init PROVE IsoInv
  <1>1. Apart /\ \A t \in Tasks : Current(t)
    BY DEF Init, Apart, Current, Holding, Committed
  <1>2. RowsOK
    BY DEF Init, RowsOK, RowConsistent, OneActiveRide, NoRow, ActiveRideStatuses
  <1> QED
    BY <1>1, <1>2 DEF IsoInv

LEMMA NextIso == ASSUME Isolated, IInv, IsoInv, [Next]_vars PROVE IsoInv'
  <1>1. CASE UNCHANGED vars
    <2>1. Apart' /\ RowsOK'
      BY <1>1, RowsSame DEF IsoInv, Apart, vars
    <2>2. \A t \in Tasks : Current(t)'
      BY <1>1 DEF IsoInv, Current, Holding, Committed, vars
    <2> QED
      BY <2>1, <2>2 DEF IsoInv
  <1>2. ASSUME NEW t \in Tasks, Begin(t) PROVE IsoInv'
    BY <1>2, BeginIso
  <1>3. ASSUME NEW t \in Tasks, AcquireLock(t) PROVE IsoInv'
    BY <1>3, AcquireLockIso
  <1>4. ASSUME NEW t \in Tasks, Step(t) PROVE IsoInv'
    <2>1. ASSUME Publish(t) PROVE IsoInv'
      BY <2>1, Leave DEF Publish
    <2> QED
      BY <1>4, <2>1, RequestCheckIso, RequestInsertIso, ReadIso, DriverIso, MergeSelectIso,
         MergeCommitIso DEF Step
  <1>5. ASSUME NEW t \in Tasks, Fail(t) PROVE IsoInv'
    BY <1>5, Leave DEF Fail, stores
  <1> QED
    BY <1>1, <1>2, <1>3, <1>4, <1>5 DEF Next

\* Between its read and its commit, a handler of isolated clients holds the row itself.
THEOREM IsolatedInvariance == ASSUME Isolated PROVE Spec => []IsoInv
  <1>1. Init => IsoInv
    BY InitIso
  <1>2. IInv /\ IsoInv /\ [Next]_vars => IsoInv'
    BY NextIso
  <1> QED
    BY <1>1, <1>2, Invariance, PTL DEF Spec

\* Of every committed row status, driver_id and fare agree: no failure half way through
\* a handler saves one without the others.
THEOREM IsolatedRowsAgree == ASSUME Isolated PROVE Spec => []RowConsistent
  <1>1. IsoInv => RowConsistent
    BY DEF IsoInv, RowsOK
  <1> QED
    BY <1>1, IsolatedInvariance, PTL

\* Steps other than the two commits leave the table alone.
LEMMA OnlyCommitsWrite ==
    ASSUME NEW t \in Tasks, Begin(t) \/ AcquireLock(t) \/ Step(t) \/ Fail(t),
           ~RequestInsert(t), ~MergeCommit(t)
    PROVE  UNCHANGED rides
  BY DEF Begin, AcquireLock, Step, Fail, RequestCheck, AcceptRead, AcceptCheckDriver,
         StartRead, CompleteRead, CancelRead, SelectDriver, SetAvailable, SetRedis,
         MergeSelect, Publish, stores

\* The INSERT is the first edge.
LEMMA InsertEdge ==
    ASSUME IInv, NEW t \in Tasks, RequestInsert(t), NEW r \in Rides PROVE OnEdges(r)
  <1>1. pc[t] = "insert"
    BY DEF RequestInsert
  <1>2. call[t].ride \in Rides /\ rides[call[t].ride].status = "NONE"
    BY <1>1 DEF IInv, TasksInv, TaskInv, CallShape, Claim, LabelsOf, NoCall, NoRow
  <1>3. IF r = call[t].ride THEN rides'[r].status = "REQUESTED" ELSE rides'[r] = rides[r]
    BY <1>2 DEF RequestInsert, IInv, StoreInv, StoreTypeOK
  <1> QED
    BY <1>2, <1>3 DEF Edges, OnEdges

\* Every step takes a ride along an edge of its state machine or leaves its status.
LEMMA StepEdge ==
    ASSUME IInv, IsoInv, [Next]_vars, NEW r \in Rides PROVE OnEdges(r)
  <1>1. CASE UNCHANGED rides
    BY <1>1 DEF OnEdges
  <1>2. ASSUME NEW t \in Tasks, RequestInsert(t) PROVE OnEdges(r)
    BY <1>2, InsertEdge
  <1>3. ASSUME NEW t \in Tasks, MergeCommit(t) PROVE OnEdges(r)
    BY <1>3, CommitEdge
  <1> QED
    BY <1>1, <1>2, <1>3, OnlyCommitsWrite DEF Next, vars

\* The ride state machine: failures half way through a handler never take a ride off it.
THEOREM IsolatedStateMachine == ASSUME Isolated PROVE Spec => StateMachine
  <1>1. IInv /\ IsoInv /\ [Next]_vars => [\A r \in Rides : OnEdges(r)]_vars
    BY StepEdge
  <1> QED
    BY <1>1, Invariance, IsolatedInvariance, PTL DEF Spec, StateMachine

\* What tests/test_rides.py:196 says, and a late cancel breaks, is true of isolated
\* clients: a ride in progress, or completed, is never cancelled.
THEOREM IsolatedCancels == ASSUME Isolated PROVE Spec => NoCancelOnceInProgress
  <1>1. IInv /\ IsoInv /\ [Next]_vars
            => [\A r \in Rides : rides[r].status \in {"IN_PROGRESS", "COMPLETED"}
                                     => rides'[r].status # "CANCELLED"]_vars
    BY StepEdge DEF Edges, OnEdges
  <1> QED
    BY <1>1, Invariance, IsolatedInvariance, PTL DEF Spec, NoCancelOnceInProgress

-----------------------------------------------------------------------------
(* The ledger                                                              *)

\* The INSERT is the ledger's Request, of a rider who has no active ride.
LEMMA InsertIsRequest ==
    ASSUME IInv, IsoInv, NEW t \in Tasks, RequestInsert(t)
    PROVE  Ledger!Next
  <1>1. /\ pc[t] = "insert" /\ UNCHANGED events
        /\ rides' = [rides EXCEPT ![call[t].ride] =
                        [rider |-> call[t].user, driver |-> None,
                         status |-> "REQUESTED", fare |-> FALSE]]
    BY DEF RequestInsert
  <1>2. /\ call[t].ride \in Rides /\ rides[call[t].ride] = NoRow
        /\ call[t].user \in Riders
    BY <1>1 DEF IInv, TasksInv, TaskInv, CallShape, Claim, LabelsOf, NoCall
  <1>3. \A r \in Rides : rides[r].rider = call[t].user => rides[r].status \notin ActiveRideStatuses
    BY <1>1 DEF IsoInv, Current
  <1>4. Ledger!Request(call[t].ride, call[t].user)
    BY <1>1, <1>2, <1>3 DEF Ledger!Request, Ledger!NoRow, Ledger!Active, NoRow, ActiveRideStatuses
  <1> QED
    BY <1>2, <1>4 DEF Ledger!Next

\* The commit of a save is the ledger's step of the endpoint; cancelling a ride that is
\* CANCELLED already saves nothing.
LEMMA CommitIsOneStep ==
    ASSUME IInv, IsoInv, NEW t \in Tasks, MergeCommit(t)
    PROVE  [Ledger!Next]_(Ledger!vars)
  <1> DEFINE ride == call[t].ride
             old == rides[ride]
  <1>1. /\ ride \in Rides /\ old \in RideRow /\ call[t].op \in Savers
        /\ rides' = [rides EXCEPT ![ride] = Target(t)]
        /\ mem[t] = old /\ old.status \in From(call[t].op)
        /\ UNCHANGED events
    <2>1. /\ pc[t] = "commit" /\ call[t].op \in Savers /\ ride \in Rides /\ old \in RideRow
      BY CommitFact
    <2>2. Holding(t)
      BY <2>1 DEF Holding, Savers
    <2>3. mem[t] = old /\ seen[t] = old /\ old.status \in From(call[t].op)
      BY <2>1, <2>2 DEF IsoInv, Current
    <2>4. rides' = [rides EXCEPT ![ride] = Merge(old, seen[t], Target(t))] /\ UNCHANGED events
      BY DEF MergeCommit
    <2>5. Target(t) \in RideRow /\ Target(t).rider = old.rider
      <3>1. call[t].op = "accept" => call[t].user \in Drivers
        BY CommitFact
      <3>2. Target(t) \in {[old EXCEPT !.driver = call[t].user, !.status = "MATCHED"],
                          [old EXCEPT !.status = "IN_PROGRESS"],
                          [old EXCEPT !.status = "COMPLETED", !.fare = TRUE],
                          [old EXCEPT !.status = "CANCELLED"]}
            /\ (call[t].op # "accept" => Target(t).driver = old.driver)
        BY <2>1, <2>3 DEF Target, Completing, Cancelling, Savers, RideRow
      <3> QED
        BY <2>1, <3>1, <3>2 DEF RideRow, RideStatus
    <2>6. Merge(old, seen[t], Target(t)) = Target(t)
      BY <2>1, <2>3, <2>5 DEF Merge, RideRow
    <2> QED
      BY <2>1, <2>3, <2>4, <2>6
  <1>2. CASE call[t].op = "accept"
    <2>1. call[t].user \in Drivers
      BY <1>2, CommitFact
    <2>2. Ledger!Accept(ride, call[t].user)
      BY <1>1, <1>2 DEF Ledger!Accept, Target, From
    <2> QED
      BY <1>1, <2>1, <2>2 DEF Ledger!Next
  <1>3. CASE call[t].op = "start"
    <2>1. Ledger!Start(ride)
      BY <1>1, <1>3 DEF Ledger!Start, Target, From
    <2> QED
      BY <1>1, <2>1 DEF Ledger!Next
  <1>4. CASE call[t].op = "complete"
    <2>1. Ledger!Complete(ride)
      BY <1>1, <1>4 DEF Ledger!Complete, Target, Completing, From
    <2> QED
      BY <1>1, <2>1 DEF Ledger!Next
  <1>5. CASE call[t].op = "cancel"
    <2>1. Target(t) = [old EXCEPT !.status = "CANCELLED"]
      BY <1>1, <1>5 DEF Target, Cancelling
    <2>2. old.status \in {"REQUESTED", "MATCHED", "CANCELLED"}
      BY <1>1, <1>5 DEF From
    <2>3. CASE old.status = "CANCELLED"
      <3>1. Target(t) = old
        BY <1>1, <2>1, <2>3 DEF RideRow
      <3>2. UNCHANGED rides
        BY <1>1, <3>1 DEF IInv, StoreInv, StoreTypeOK
      <3> QED
        BY <1>1, <3>2 DEF Ledger!vars
    <2>4. CASE old.status \in {"REQUESTED", "MATCHED"}
      <3>1. Ledger!Cancel(ride)
        BY <1>1, <2>1, <2>4 DEF Ledger!Cancel
      <3> QED
        BY <1>1, <3>1 DEF Ledger!Next
    <2> QED
      BY <2>2, <2>3, <2>4
  <1> QED
    BY <1>1, <1>2, <1>3, <1>4, <1>5 DEF Savers

\* What is published is so when it is published.
LEMMA PublishIsTrue ==
    ASSUME IInv, IsoInv, NEW t \in Tasks, Publish(t)
    PROVE  Ledger!Next
  <1>1. /\ pc[t] = "publish" /\ UNCHANGED rides
        /\ events' = events \cup {<<Topic(call[t].op), call[t].ride>>}
    BY DEF Publish
  <1>2. call[t].ride \in Rides /\ call[t].op \in {"request", "accept", "complete", "cancel"}
    BY <1>1 DEF IInv, TasksInv, TaskInv, CallShape, LabelsOf, NoCall, Savers
  <1>3. Topic(call[t].op) \in Ledger!Topics
    BY <1>2 DEF Topic, Ledger!Topics
  <1>4. <<rides[call[t].ride].status, Topic(call[t].op)>> \in Ledger!Tells
    BY <1>1 DEF IsoInv, Current, Committed
  <1>5. Ledger!Announce(call[t].ride, Topic(call[t].op))
    BY <1>1, <1>4 DEF Ledger!Announce
  <1> QED
    BY <1>2, <1>3, <1>5 DEF Ledger!Next

\* The other steps touch neither the table nor the topics.
LEMMA OtherStepsAreSilent ==
    ASSUME NEW t \in Tasks, Begin(t) \/ AcquireLock(t) \/ Step(t) \/ Fail(t),
           ~RequestInsert(t), ~MergeCommit(t), ~Publish(t)
    PROVE  UNCHANGED Ledger!vars
  BY DEF Begin, AcquireLock, Step, Fail, RequestCheck, AcceptRead, AcceptCheckDriver,
         StartRead, CompleteRead, CancelRead, SelectDriver, SetAvailable, SetRedis,
         MergeSelect, stores, Ledger!vars

\* To isolated clients every request of RideService takes effect at once, in its commit,
\* or not at all, whatever fails, and each event is true when it is published.
THEOREM IsolatedImplementsLedger == ASSUME Isolated PROVE Spec => LedgerSpec
  <1>1. Init => Ledger!Init
    BY DEF Init, Ledger!Init, NoRow, Ledger!NoRow
  <1>2. IInv /\ IsoInv /\ [Next]_vars => [Ledger!Next]_(Ledger!vars)
    <2> SUFFICES ASSUME IInv, IsoInv, [Next]_vars PROVE [Ledger!Next]_(Ledger!vars)
      OBVIOUS
    <2>1. CASE UNCHANGED vars
      BY <2>1 DEF vars, Ledger!vars
    <2>2. ASSUME NEW t \in Tasks, Begin(t) \/ AcquireLock(t) \/ Step(t) \/ Fail(t)
          PROVE  [Ledger!Next]_(Ledger!vars)
      BY <2>2, InsertIsRequest, CommitIsOneStep, PublishIsTrue, OtherStepsAreSilent
    <2> QED
      BY <2>1, <2>2 DEF Next
  <1> QED
    BY <1>1, <1>2, Invariance, IsolatedInvariance, PTL DEF Spec, LedgerSpec, Ledger!Spec

-----------------------------------------------------------------------------
(* Clients that overlap their requests                                     *)

\* What a handler read was in a status its endpoint goes on from.
ReadFrom == \A t \in Tasks : PastRead(t) => mem[t].status \in From(call[t].op)

LEMMA ReadFromStays ==
    ASSUME IInv, ReadFrom, [Next]_vars PROVE ReadFrom'
  <1>l. /\ pc \in [Tasks -> Labels] /\ call \in [Tasks -> Call \cup {NoCall}]
        /\ mem \in [Tasks -> RideRow \cup {NoRow}]
    BY DEF IInv, TasksInv, LocalTypeOK
  <1>1. CASE UNCHANGED <<pc, call, mem>>
    BY <1>1 DEF ReadFrom, PastRead
  <1>2. ASSUME NEW t \in Tasks,
               \A u \in Tasks \ {t} : pc'[u] = pc[u] /\ call'[u] = call[u] /\ mem'[u] = mem[u],
               PastRead(t)' => mem'[t].status \in From(call'[t].op)
        PROVE  ReadFrom'
    BY <1>2 DEF ReadFrom, PastRead
  <1>3. ASSUME NEW t \in Tasks, Return(t) PROVE ReadFrom'
    <2>1. call'[t] = NoCall
          /\ \A u \in Tasks \ {t} : pc'[u] = pc[u] /\ call'[u] = call[u] /\ mem'[u] = mem[u]
      BY <1>3, <1>l DEF Return
    <2> QED
      BY <1>2, <2>1 DEF PastRead, NoCall, Savers
  <1>4. ASSUME NEW t \in Tasks, NEW l, Goto(t, l), UNCHANGED mem, PastRead(t) \/ call[t].op = "request"
        PROVE  ReadFrom'
    <2>1. UNCHANGED call /\ \A u \in Tasks \ {t} : pc'[u] = pc[u]
      BY <1>4, <1>l DEF Goto
    <2>2. PastRead(t)' => PastRead(t)
      BY <1>4, <2>1 DEF PastRead, Savers
    <2> QED
      BY <1>2, <1>4, <2>1, <2>2 DEF ReadFrom
  <1>5. ASSUME NEW t \in Tasks, Begin(t) PROVE ReadFrom'
    <2>1. PICK op \in Ops, r \in Rides \cup {None}, u \in Users :
             /\ call' = [call EXCEPT ![t] = [op |-> op, ride |-> r, user |-> u]]
             /\ pc' = [pc EXCEPT ![t] = Entry(op)]
      BY <1>5 DEF Begin
    <2>2. /\ pc'[t] = Entry(op) /\ call'[t].op = op /\ op \in Endpoints /\ UNCHANGED mem
          /\ \A v \in Tasks \ {t} : pc'[v] = pc[v] /\ call'[v] = call[v]
      BY <1>5, <1>l, <2>1, OpsAssumption DEF Begin
    <2>3. ~PastRead(t)'
      BY <2>2 DEF PastRead, Entry, Endpoints, Savers
    <2> QED
      BY <1>2, <2>2, <2>3
  <1>6. ASSUME NEW t \in Tasks, AcquireLock(t) PROVE ReadFrom'
    <2>1. /\ pc'[t] = "accept" /\ UNCHANGED <<call, mem>>
          /\ \A u \in Tasks \ {t} : pc'[u] = pc[u]
      BY <1>6, <1>l DEF AcquireLock
    <2> QED
      BY <1>2, <2>1 DEF PastRead
  <1>7. ASSUME NEW t \in Tasks, AcceptRead(t) \/ StartRead(t) \/ CompleteRead(t) \/ CancelRead(t)
        PROVE  ReadFrom'
    <2>1. ASSUME NEW l, Keep(t, l), rides[call[t].ride].status \in From(call[t].op) PROVE ReadFrom'
      <3>1. /\ UNCHANGED call /\ mem'[t] = rides[call[t].ride]
            /\ \A u \in Tasks \ {t} : pc'[u] = pc[u] /\ mem'[u] = mem[u]
        BY <2>1, <1>l DEF Keep, Goto
      <3> QED
        BY <1>2, <2>1, <3>1
    <2> QED
      BY <1>3, <1>7, <2>1, ReadsFrom
  <1>8. ASSUME NEW t \in Tasks, RequestCheck(t) \/ RequestInsert(t) PROVE ReadFrom'
    <2>1. call[t].op = "request"
      BY <1>8 DEF RequestCheck, RequestInsert, IInv, TasksInv, TaskInv, CallShape, LabelsOf
    <2> QED
      BY <1>3, <1>4, <1>8, <2>1 DEF RequestCheck, RequestInsert
  <1>9. ASSUME NEW t \in Tasks, SelectDriver(t) \/ SetAvailable(t) \/ SetRedis(t) \/ AcceptCheckDriver(t)
                                \/ MergeSelect(t) \/ MergeCommit(t) \/ Publish(t)
        PROVE  ReadFrom'
    <2>1. pc[t] \in {"driver", "avail", "update", "redis", "select", "commit", "publish"}
      BY <1>9 DEF SelectDriver, SetAvailable, SetRedis, AcceptCheckDriver, MergeSelect, MergeCommit, Publish
    <2>2. CASE call[t].op \in Savers \cup {"request"}
      <3>1. PastRead(t) \/ call[t].op = "request"
        BY <2>1, <2>2 DEF PastRead
      <3> QED
        BY <1>3, <1>4, <1>9, <3>1
        DEF SelectDriver, SetAvailable, SetRedis, AcceptCheckDriver, MergeSelect, MergeCommit, Publish
    <2>3. CASE call[t].op \notin Savers \cup {"request"}
      <3>1. \/ UNCHANGED <<call, mem>> /\ (\A u \in Tasks \ {t} : pc'[u] = pc[u])
            \/ Return(t)
        BY <1>9, <1>l DEF SelectDriver, SetAvailable, SetRedis, AcceptCheckDriver, MergeSelect,
                         MergeCommit, Publish, Goto
      <3> QED
        BY <1>2, <1>3, <2>3, <3>1 DEF PastRead
    <2> QED
      BY <2>2, <2>3
  <1> QED
    BY <1>1, <1>3, <1>5, <1>6, <1>7, <1>8, <1>9 DEF Next, Step, Fail, vars

\* The save of an object in the row's own status goes along an edge.
LEMMA FreshCommit ==
    ASSUME IInv, ReadFrom, NEW t \in Tasks, MergeCommit(t), NEW r \in Rides, ~StaleSave(t, r)
    PROVE  OnEdges(r)
  <1>1. /\ pc[t] = "commit" /\ call[t].op \in Savers /\ call[t].ride \in Rides
        /\ rides[call[t].ride] \in RideRow
        /\ rides'[call[t].ride] = Merge(rides[call[t].ride], seen[t], Target(t))
        /\ \A s \in Rides \ {call[t].ride} : rides'[s] = rides[s]
    BY CommitFact
  <1>2. CASE r # call[t].ride
    BY <1>1, <1>2 DEF OnEdges
  <1>3. CASE r = call[t].ride
    <2>0. pc'[t] # "commit"
      BY <1>1 DEF MergeCommit, Return, Goto, IInv, TasksInv, LocalTypeOK
    <2>1. mem[t].status = rides[r].status
      BY <1>1, <1>3, <2>0 DEF StaleSave
    <2>2. mem[t].status \in From(call[t].op)
      BY <1>1 DEF ReadFrom, PastRead
    <2>3. rides'[r].status = rides[r].status \/ rides'[r].status = Target(t).status
      BY <1>1, <1>3 DEF Merge
    <2>4. mem[t] \in RideRow
      BY <1>1 DEF IInv, TasksInv, LocalTypeOK, TaskInv, MemoryOK, PastRead
    <2>5. Target(t).status = CASE call[t].op = "accept"   -> "MATCHED"
                               [] call[t].op = "start"    -> "IN_PROGRESS"
                               [] call[t].op = "complete" -> "COMPLETED"
                               [] OTHER                   -> "CANCELLED"
      BY <1>1, <2>4 DEF Target, Completing, Cancelling, RideRow, Savers
    <2> QED
      BY <1>1, <2>1, <2>2, <2>3, <2>5 DEF Savers, From, Edges, OnEdges
  <1> QED
    BY <1>2, <1>3

\* What breaks the state machine, of clients that do overlap their requests, is always one
\* thing: a request that saves an object in a status its row no longer has.
THEOREM OnlyStaleSavesLeaveEdges == Spec => OffEdgesOnlyWhenStale
  <1>1. Init => ReadFrom
    BY DEF Init, ReadFrom, PastRead
  <1>2. IInv /\ ReadFrom /\ [Next]_vars => ReadFrom'
    BY ReadFromStays
  <1>3. IInv /\ ReadFrom /\ [Next]_vars
            => [\A r \in Rides : OnEdges(r) \/ \E t \in Tasks : StaleSave(t, r)]_vars
    <2> SUFFICES ASSUME IInv, ReadFrom, Next, NEW r \in Rides, \A t \in Tasks : ~StaleSave(t, r)
                 PROVE  OnEdges(r)
      OBVIOUS
    <2>1. CASE UNCHANGED rides
      BY <2>1 DEF OnEdges
    <2> QED
      BY <2>1, InsertEdge, FreshCommit, OnlyCommitsWrite DEF Next
  <1> QED
    BY <1>1, <1>2, <1>3, Invariance, PTL DEF Spec, OffEdgesOnlyWhenStale
=============================================================================
