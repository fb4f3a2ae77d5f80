-------------------------- MODULE RideServiceProofs --------------------------
(***************************************************************************)
(* Proofs about RideService for any number of riders, drivers, rides and   *)
(* overlapping requests, whatever the endpoints called, the isolation of   *)
(* the clients and the failures.                                           *)
(*                                                                         *)
(* IInv has a part about the stores (StoreInv) and a part about the tasks  *)
(* (TasksInv).  The tasks' part is what makes the invariants inductive: it *)
(* says what a request that is half way through still may rely on although *)
(* the row it read is stale.                                               *)
(***************************************************************************)
EXTENDS RideService, TLAPS

\* A status that is past REQUESTED: the ride is no longer on offer.
Left(row) == row.status \notin {"NONE", "REQUESTED"}

StoreTypeOK ==
    /\ rides \in [Rides -> RideRow \cup {NoRow}]
    /\ available \in [Drivers -> BOOLEAN]
    /\ redisAvailable \in SUBSET Drivers
    /\ events \in SUBSET (Topics \X Rides)
    /\ winners \in [Rides -> SUBSET Drivers]

LocalTypeOK ==
    /\ lock \in Tasks \cup {None}
    /\ pc \in [Tasks -> Labels]
    /\ call \in [Tasks -> Call \cup {NoCall}]
    /\ mem \in [Tasks -> RideRow \cup {NoRow}]
    /\ seen \in [Tasks -> RideRow \cup {NoRow}]

\* A ride somebody has won is off offer for good.
WonMeansLeft == \A r \in Rides : winners[r] # {} => Left(rides[r])

StoreInv ==
    /\ StoreTypeOK
    /\ AcceptOnce
    /\ OnlyTheWinner
    /\ NoEventBeforeCommit
    /\ WonMeansLeft

\* The awaits of each endpoint.
LabelsOf(op) ==
    CASE op = "request"  -> {"check", "insert", "publish"}
      [] op = "accept"   -> {"lock", "accept", "driver", "avail", "update", "redis", "select", "commit", "publish"}
      [] op = "start"    -> {"start", "select", "commit"}
      [] op = "complete" -> {"complete", "select", "commit", "avail", "update", "redis", "publish"}
      [] op = "cancel"   -> {"cancel", "avail", "update", "redis", "select", "commit", "publish"}
      [] OTHER           -> {"avail", "update", "redis"}

\* The endpoints that read a ride and save it later, and the awaits after the read.
Savers == {"accept", "start", "complete", "cancel"}
PastRead(t) == /\ call[t].op \in Savers
               /\ pc[t] \in {"driver", "avail", "update", "redis", "select", "commit", "publish"}

CallShape(t) ==
    /\ call[t] = NoCall <=> pc[t] = "idle"
    /\ pc[t] # "idle" => pc[t] \in LabelsOf(call[t].op)
    /\ call[t].op \in Savers \cup {"request"} => call[t].ride \in Rides
    /\ call[t].op = "request" => call[t].user \in Riders
    /\ call[t].op \in {"accept", "start", "complete", "online", "offline"} => call[t].user \in Drivers

\* Whoever is inside `async with self._accept_lock` holds the lock.
LockHeld(t) == call[t].op = "accept" /\ pc[t] # "lock" => lock = t

\* The id a request has drawn names no row until the request inserts it.
Claim(t) ==
    /\ pc[t] \in {"check", "insert"} => rides[call[t].ride] = NoRow
    /\ call[t].op = "request" /\ pc[t] = "publish" => rides[call[t].ride] # NoRow

\* What the Ride object in a handler's hands still guarantees, however stale.
MemoryOK(t) ==
    PastRead(t) =>
        /\ rides[call[t].ride] # NoRow
        /\ mem[t] # NoRow
        /\ mem[t].driver # None => mem[t].driver \in winners[call[t].ride]
        /\ mem[t].status \in {"MATCHED", "IN_PROGRESS", "COMPLETED"} => winners[call[t].ride] # {}
        /\ mem[t].fare => winners[call[t].ride] # {}
        /\ call[t].op \in {"start", "complete"} => winners[call[t].ride] # {}
        /\ call[t].op = "cancel" /\ pc[t] \in {"avail", "update", "redis"} => mem[t].driver \in Drivers

\* The accept that holds the lock will be the first to win its ride.
NotYetWon(t) ==
    call[t].op = "accept" /\ pc[t] \in {"driver", "avail", "update", "redis", "select", "commit"}
        => winners[call[t].ride] = {}

\* merge() never computes its differences from a row that is past a REQUESTED one.
SelectOK(t) == pc[t] = "commit" /\ Left(seen[t]) => Left(rides[call[t].ride])

\* The handlers about to publish have committed their save.
Saved(t) ==
    \/ pc[t] = "publish" /\ call[t].op # "request"
    \/ pc[t] \in {"avail", "update", "redis"} /\ call[t].op = "complete"
    => Left(rides[call[t].ride])

TaskInv(t) ==
    /\ CallShape(t)
    /\ LockHeld(t)
    /\ Claim(t)
    /\ MemoryOK(t)
    /\ NotYetWon(t)
    /\ SelectOK(t)
    /\ Saved(t)

\* uuid4: no two requests in flight have drawn the same id.
UniqueClaims ==
    \A t, u \in Tasks :
        call[t].op = "request" /\ call[u].op = "request" /\ call[t].ride = call[u].ride => t = u

TasksInv ==
    /\ LocalTypeOK
    /\ UniqueClaims
    /\ \A t \in Tasks : TaskInv(t)

IInv == StoreInv /\ TasksInv

-----------------------------------------------------------------------------
(* Facts about rows                                                        *)

\* NoRow is no row of the table: a row has a rider and a status.
LEMMA NoRowFact ==
    /\ NoRow \notin RideRow
    /\ ~Left(NoRow)
    /\ \A row \in RideRow : row.status # "NONE" /\ row.status \in RideStatus
    /\ \A row \in RideRow \cup {NoRow} : Left(row) => row # NoRow /\ row \in RideRow
  BY NoneAssumption DEF NoRow, RideRow, RideStatus, Left, Users

\* What a step may do to the stores without disturbing the tasks it does not run.
Benign(t) ==
    /\ \A r \in Rides : rides[r] # NoRow => rides'[r] # NoRow
    /\ \A r \in Rides : Left(rides[r]) => Left(rides'[r])
    /\ \A r \in Rides : winners[r] \subseteq winners'[r]
    /\ \A u \in Tasks \ {t} :
        /\ call[u].op = "request" /\ pc[u] \in {"check", "insert"}
              => rides'[call[u].ride] = rides[call[u].ride]
        /\ call[u].op = "accept" /\ pc[u] # "lock"
              => winners' = winners /\ (lock = u => lock' = u)

\* A task that does not move keeps what it relies on.
LEMMA OtherTasks ==
    ASSUME NEW t \in Tasks, NEW u \in Tasks \ {t}, TasksInv, Benign(t),
           pc'[u] = pc[u], call'[u] = call[u], mem'[u] = mem[u], seen'[u] = seen[u]
    PROVE  TaskInv(u)'
  <1>1. TaskInv(u)
    BY DEF TasksInv
  <1>2. CallShape(u)'
    BY <1>1 DEF TaskInv, CallShape
  <1>3. LockHeld(u)'
    BY <1>1 DEF TaskInv, LockHeld, Benign
  <1>r. call[u].op \in Savers \cup {"request"} => call[u].ride \in Rides
    BY <1>1 DEF TaskInv, CallShape
  <1>q. pc[u] \in {"check", "insert"} => call[u].op = "request"
    BY <1>1 DEF TaskInv, CallShape, LabelsOf, NoCall
  <1>4. Claim(u)'
    BY <1>1, <1>r, <1>q DEF TaskInv, Claim, Benign
  <1>5. MemoryOK(u)'
    BY <1>1, <1>r DEF TaskInv, MemoryOK, PastRead, Benign
  <1>6. NotYetWon(u)'
    BY <1>1, <1>r DEF TaskInv, NotYetWon, Benign
  <1>c. pc[u] = "commit" => call[u].op \in Savers
    BY <1>1 DEF TaskInv, CallShape, LabelsOf, NoCall, Savers
  <1>7. SelectOK(u)'
    BY <1>1, <1>r, <1>c DEF TaskInv, SelectOK, Benign
  <1>p. pc[u] = "publish" => call[u].op \in Savers \cup {"request"}
    BY <1>1 DEF TaskInv, CallShape, LabelsOf, NoCall, Savers
  <1>8. Saved(u)'
    BY <1>1, <1>r, <1>p DEF TaskInv, Saved, Benign, Savers
  <1>9. QED
    BY <1>2, <1>3, <1>4, <1>5, <1>6, <1>7, <1>8 DEF TaskInv

\* Two tasks are never both inside the accept lock.
LEMMA OneAccept ==
    ASSUME TasksInv, NEW t \in Tasks, NEW u \in Tasks \ {t},
           call[t].op = "accept", pc[t] # "lock",
           call[u].op = "accept", pc[u] # "lock"
    PROVE  FALSE
  BY DEF TasksInv, TaskInv, LockHeld

\* A handler that returns leaves the tasks consistent, whatever it had written.
LEMMA ReturnTasks ==
    ASSUME NEW t \in Tasks, TasksInv, Return(t), Benign(t)
    PROVE  TasksInv'
  <1>1. LocalTypeOK'
    BY DEF TasksInv, LocalTypeOK, Return, Released, Labels
  <1>2. /\ pc'[t] = "idle" /\ call'[t] = NoCall
        /\ \A u \in Tasks \ {t} : /\ pc'[u] = pc[u] /\ call'[u] = call[u]
                                  /\ mem'[u] = mem[u] /\ seen'[u] = seen[u]
    BY DEF TasksInv, LocalTypeOK, Return, Released
  <1>3. UniqueClaims'
    BY <1>2 DEF TasksInv, UniqueClaims, NoCall
  <1>4. TaskInv(t)'
    BY <1>2 DEF TaskInv, CallShape, LockHeld, Claim, MemoryOK, PastRead, NotYetWon,
                SelectOK, Saved, NoCall, Savers
  <1>5. \A u \in Tasks \ {t} : TaskInv(u)'
    BY <1>2, OtherTasks
  <1>6. QED
    BY <1>1, <1>3, <1>4, <1>5 DEF TasksInv

\* A handler that goes on keeps the others consistent; its own part remains to show.
LEMMA GotoTasks ==
    ASSUME NEW t \in Tasks, NEW l \in Labels, TasksInv, Goto(t, l), Benign(t),
           mem' \in [Tasks -> RideRow \cup {NoRow}],
           seen' \in [Tasks -> RideRow \cup {NoRow}],
           \A u \in Tasks \ {t} : mem'[u] = mem[u] /\ seen'[u] = seen[u],
           TaskInv(t)'
    PROVE  TasksInv'
  <1>1. LocalTypeOK'
    BY DEF TasksInv, LocalTypeOK, Goto
  <1>2. \A u \in Tasks \ {t} : pc'[u] = pc[u] /\ call'[u] = call[u]
    BY DEF TasksInv, LocalTypeOK, Goto
  <1>3. UniqueClaims'
    BY DEF TasksInv, UniqueClaims, Goto
  <1>4. \A u \in Tasks \ {t} : TaskInv(u)'
    BY <1>2, OtherTasks
  <1>5. QED
    BY <1>1, <1>3, <1>4 DEF TasksInv

\* Steps that leave the rides table and the winners alone are benign.
LEMMA QuietStores ==
    ASSUME NEW t \in Tasks, TasksInv, UNCHANGED <<rides, winners>>,
           \A u \in Tasks \ {t} : lock = u => lock' = u
    PROVE  Benign(t)
  BY DEF Benign

\* A task that is not idle runs an endpoint.
LEMMA ActiveOp ==
    ASSUME TasksInv, NEW t \in Tasks, pc[t] # "idle"
    PROVE  call[t].op \in Endpoints
  BY DEF TasksInv, LocalTypeOK, TaskInv, CallShape, Call

-----------------------------------------------------------------------------
(* One lemma per action                                                    *)

\* Nothing in StoreInv changes when the stores do not.
LEMMA StoresSame == ASSUME StoreInv, UNCHANGED stores PROVE StoreInv'
  BY DEF StoreInv, StoreTypeOK, AcceptOnce, OnlyTheWinner, NoEventBeforeCommit,
         WonMeansLeft, stores, Left

LEMMA BeginStep ==
    ASSUME IInv, NEW t \in Tasks, Begin(t)
    PROVE  IInv'
  <1>1. PICK op \in Ops, r \in Rides \cup {None}, u \in Users :
           LET c == [op |-> op, ride |-> r, user |-> u]
           IN  /\ Routed(c)
               /\ call' = [call EXCEPT ![t] = c]
               /\ pc' = [pc EXCEPT ![t] = Entry(op)]
    BY DEF Begin
  <1> DEFINE c == [op |-> op, ride |-> r, user |-> u]
  <1>2. UNCHANGED stores /\ UNCHANGED <<lock, mem, seen>> /\ pc[t] = "idle"
    BY DEF Begin
  <1>3. op \in Endpoints
    BY OpsAssumption
  <1>4. Entry(op) \in Labels /\ Entry(op) \in LabelsOf(op)
    BY <1>3 DEF Entry, Labels, LabelsOf, Endpoints
  <1>5. LocalTypeOK'
    BY <1>1, <1>2, <1>3, <1>4 DEF IInv, TasksInv, LocalTypeOK, Call
  <1>6. /\ pc'[t] = Entry(op) /\ call'[t] = c /\ mem'[t] = mem[t] /\ seen'[t] = seen[t]
        /\ \A v \in Tasks \ {t} : /\ pc'[v] = pc[v] /\ call'[v] = call[v]
                                  /\ mem'[v] = mem[v] /\ seen'[v] = seen[v]
    BY <1>1, <1>2 DEF IInv, TasksInv, LocalTypeOK
  <1>7. op = "request" => Fresh(r) /\ r \in Rides /\ u \in Riders
    BY <1>1 DEF Routed
  <1>8. UniqueClaims'
    BY <1>6, <1>7 DEF IInv, TasksInv, UniqueClaims, Fresh
  <1>9. op # "request" => Entry(op) \notin {"check", "insert"}
    BY <1>3 DEF Entry, Endpoints
  <1>10. Entry(op) # "idle" /\ Entry(op) \notin {"driver", "select", "commit", "publish"}
    BY <1>3 DEF Entry, Endpoints
  <1>11. op \in Savers => Entry(op) \notin {"avail", "update", "redis"}
    BY DEF Entry, Savers
  <1>12. op = "accept" => Entry(op) = "lock"
    BY DEF Entry
  <1>13. CallShape(t)'
    <2>1. c # NoCall
      BY <1>3 DEF NoCall, Endpoints
    <2>2. op \in Savers => r \in Rides
      BY <1>1 DEF Routed, Savers
    <2>3. op \in {"accept", "start", "complete", "online", "offline"} => u \in Drivers
      BY <1>1 DEF Routed
    <2>4. QED
      BY <1>4, <1>6, <1>7, <1>10, <2>1, <2>2, <2>3 DEF CallShape
  <1>14. LockHeld(t)' /\ MemoryOK(t)' /\ NotYetWon(t)' /\ SelectOK(t)' /\ Saved(t)'
    BY <1>6, <1>10, <1>11, <1>12
       DEF LockHeld, MemoryOK, PastRead, NotYetWon, SelectOK, Saved, Savers
  <1>15. Claim(t)'
    BY <1>2, <1>6, <1>7, <1>9, <1>10 DEF Claim, Fresh, stores
  <1>16. Benign(t)
    BY <1>2, QuietStores DEF IInv, stores
  <1>17. \A v \in Tasks \ {t} : TaskInv(v)'
    BY <1>6, <1>16, OtherTasks DEF IInv
  <1>18. TasksInv'
    BY <1>5, <1>8, <1>13, <1>14, <1>15, <1>17 DEF TasksInv, TaskInv
  <1>19. QED
    BY <1>2, <1>18, StoresSame DEF IInv

\* Every early return and every failing call.
LEMMA ReturnStep ==
    ASSUME IInv, NEW t \in Tasks, Return(t), UNCHANGED stores
    PROVE  IInv'
  <1>1. Benign(t)
    BY QuietStores DEF IInv, stores, Return, Released
  <1>2. QED
    BY <1>1, ReturnTasks, StoresSame DEF IInv

\* A read after which the handler goes on.
LEMMA GotoStep ==
    ASSUME IInv, NEW t \in Tasks, NEW l \in Labels, Goto(t, l), UNCHANGED stores,
           mem' \in [Tasks -> RideRow \cup {NoRow}],
           seen' \in [Tasks -> RideRow \cup {NoRow}],
           \A u \in Tasks \ {t} : mem'[u] = mem[u] /\ seen'[u] = seen[u],
           TaskInv(t)'
    PROVE  IInv'
  <1>1. Benign(t)
    BY QuietStores DEF IInv, stores, Goto
  <1>2. QED
    BY <1>1, GotoTasks, StoresSame DEF IInv

LEMMA RequestCheckStep ==
    ASSUME IInv, NEW t \in Tasks, RequestCheck(t)
    PROVE  IInv'
  <1>1. CASE Return(t)
    BY <1>1, ReturnStep DEF RequestCheck
  <1>2. CASE Goto(t, "insert") /\ UNCHANGED <<mem, seen>>
    <2>1. TaskInv(t) /\ pc[t] = "check" /\ pc'[t] = "insert" /\ UNCHANGED <<call, lock, rides>>
      BY <1>2 DEF RequestCheck, Goto, IInv, TasksInv, LocalTypeOK, stores
    <2>2. call[t].op = "request"
      BY <2>1 DEF TaskInv, CallShape, LabelsOf, NoCall
    <2>3. CallShape(t)'
      BY <2>1, <2>2 DEF TaskInv, CallShape, LabelsOf
    <2>4. TaskInv(t)'
      BY <2>1, <2>2, <2>3 DEF TaskInv, LockHeld, Claim, MemoryOK, PastRead, NotYetWon,
                              SelectOK, Saved, Savers
    <2>5. QED
      BY <1>2, <2>4, GotoStep DEF RequestCheck, Labels, IInv, TasksInv, LocalTypeOK
  <1>3. QED
    BY <1>1, <1>2 DEF RequestCheck

LEMMA AcquireLockStep ==
    ASSUME IInv, NEW t \in Tasks, AcquireLock(t)
    PROVE  IInv'
  <1>1. /\ TaskInv(t) /\ pc[t] = "lock" /\ pc'[t] = "accept" /\ lock = None /\ lock' = t
        /\ UNCHANGED <<call, mem, seen>> /\ UNCHANGED stores
        /\ \A u \in Tasks \ {t} : pc'[u] = pc[u]
    BY DEF AcquireLock, Unlocked, IInv, TasksInv, LocalTypeOK
  <1>2. call[t].op = "accept"
    BY <1>1 DEF TaskInv, CallShape, LabelsOf, NoCall
  <1>3. LocalTypeOK'
    BY DEF AcquireLock, Unlocked, IInv, TasksInv, LocalTypeOK, Labels
  <1>4. CallShape(t)'
    BY <1>1, <1>2 DEF TaskInv, CallShape, LabelsOf
  <1>5. TaskInv(t)'
    BY <1>1, <1>2, <1>4 DEF TaskInv, LockHeld, Claim, MemoryOK, PastRead, NotYetWon,
                            SelectOK, Saved, stores
  <1>6. \A u \in Tasks \ {t} : lock # u
    BY <1>1, NoneAssumption
  <1>7. Benign(t)
    BY <1>1, <1>6, QuietStores DEF IInv, stores
  <1>8. \A u \in Tasks \ {t} : TaskInv(u)'
    BY <1>1, <1>7, OtherTasks DEF IInv
  <1>9. UniqueClaims'
    BY <1>1 DEF IInv, TasksInv, UniqueClaims
  <1>10. QED
    BY <1>1, <1>3, <1>5, <1>8, <1>9, StoresSame DEF IInv, TasksInv

\* The read of accept: what get_ride() returned is REQUESTED, so nobody has won it.
LEMMA AcceptReadStep ==
    ASSUME IInv, NEW t \in Tasks, AcceptRead(t)
    PROVE  IInv'
  <1>1. CASE Return(t)
    BY <1>1, ReturnStep DEF AcceptRead, Acceptable
  <1>2. CASE rides[call[t].ride].status = "REQUESTED" /\ Keep(t, "driver")
    <2>1. /\ TaskInv(t) /\ pc[t] = "accept" /\ pc'[t] = "driver"
          /\ mem'[t] = rides[call[t].ride] /\ UNCHANGED <<call, lock, seen, stores>>
      BY <1>2 DEF AcceptRead, Acceptable, Keep, Goto, IInv, TasksInv, LocalTypeOK
    <2>2. call[t].op = "accept" /\ call[t].ride \in Rides
      BY <2>1 DEF TaskInv, CallShape, LabelsOf, NoCall, Savers
    <2>3. winners[call[t].ride] = {}
      BY <1>2, <2>2 DEF IInv, StoreInv, WonMeansLeft, Left
    <2>4. CallShape(t)'
      BY <2>1, <2>2 DEF TaskInv, CallShape, LabelsOf
    <2>5. MemoryOK(t)'
      BY <1>2, <2>1, <2>2 DEF MemoryOK, PastRead, stores, IInv, StoreInv, OnlyTheWinner, NoRow
    <2>6. TaskInv(t)'
      BY <2>1, <2>2, <2>3, <2>4, <2>5
         DEF TaskInv, LockHeld, Claim, NotYetWon, SelectOK, Saved, stores
    <2>7. mem' \in [Tasks -> RideRow \cup {NoRow}] /\ (\A u \in Tasks \ {t} : mem'[u] = mem[u])
      BY <1>2, <2>2 DEF Keep, IInv, StoreInv, StoreTypeOK, TasksInv, LocalTypeOK
    <2>8. QED
      BY <1>2, <2>1, <2>6, <2>7, GotoStep DEF Keep, Labels, IInv, TasksInv, LocalTypeOK
  <1>3. QED
    BY <1>1, <1>2 DEF AcceptRead, Acceptable

LEMMA AcceptCheckDriverStep ==
    ASSUME IInv, NEW t \in Tasks, AcceptCheckDriver(t)
    PROVE  IInv'
  <1>1. CASE Return(t)
    BY <1>1, ReturnStep DEF AcceptCheckDriver
  <1>2. CASE Goto(t, "avail") /\ UNCHANGED <<mem, seen>>
    <2>1. /\ TaskInv(t) /\ pc[t] = "driver" /\ pc'[t] = "avail"
          /\ UNCHANGED <<call, lock, mem, seen, stores>>
      BY <1>2 DEF AcceptCheckDriver, Goto, IInv, TasksInv, LocalTypeOK
    <2>2. call[t].op = "accept"
      BY <2>1 DEF TaskInv, CallShape, LabelsOf, NoCall
    <2>3. CallShape(t)'
      BY <2>1, <2>2 DEF TaskInv, CallShape, LabelsOf
    <2>4. MemoryOK(t)'
      BY <2>1, <2>2 DEF TaskInv, MemoryOK, PastRead, stores
    <2>5. TaskInv(t)'
      BY <2>1, <2>2, <2>3, <2>4 DEF TaskInv, LockHeld, Claim, NotYetWon, SelectOK, Saved, stores
    <2>6. QED
      BY <1>2, <2>1, <2>5, GotoStep DEF Labels, IInv, TasksInv, LocalTypeOK
  <1>3. QED
    BY <1>1, <1>2 DEF AcceptCheckDriver

\* start and complete keep a row their driver has won; cancel one it may cancel.
LEMMA ReadStep ==
    ASSUME IInv, NEW t \in Tasks, NEW l \in {"select", "avail"}, Keep(t, l), UNCHANGED stores,
           pc[t] \in {"start", "complete", "cancel"},
           rides[call[t].ride] # NoRow,
           pc[t] # "cancel" => /\ l = "select"
                               /\ rides[call[t].ride].status \in {"MATCHED", "IN_PROGRESS"},
           l = "avail" => rides[call[t].ride].driver # None
    PROVE  IInv'
  <1>1. /\ TaskInv(t) /\ pc'[t] = l
        /\ mem'[t] = rides[call[t].ride] /\ UNCHANGED <<call, lock, seen, stores>>
    BY DEF Keep, Goto, IInv, TasksInv, LocalTypeOK
  <1>2. call[t].op = pc[t] /\ call[t].ride \in Rides /\ call[t].op \in {"start", "complete", "cancel"}
    BY <1>1 DEF TaskInv, CallShape, LabelsOf, NoCall, Savers
  <1>3. call[t].op # "cancel" => winners[call[t].ride] # {}
    BY <1>2 DEF IInv, StoreInv, OnlyTheWinner
  <1>4. CallShape(t)'
    BY <1>1, <1>2 DEF TaskInv, CallShape, LabelsOf
  <1>5. rides[call[t].ride] \in RideRow
    BY <1>2 DEF IInv, StoreInv, StoreTypeOK
  <1>6. MemoryOK(t)'
    <2>1. rides[call[t].ride].driver # None => rides[call[t].ride].driver \in Drivers
      BY <1>5 DEF RideRow
    <2>2. QED
      BY <1>1, <1>2, <1>3, <2>1 DEF MemoryOK, PastRead, stores, IInv, StoreInv, OnlyTheWinner
  <1>7. TaskInv(t)'
    BY <1>1, <1>2, <1>4, <1>6 DEF TaskInv, LockHeld, Claim, NotYetWon, SelectOK, Saved, stores
  <1>8. mem' \in [Tasks -> RideRow \cup {NoRow}] /\ (\A u \in Tasks \ {t} : mem'[u] = mem[u])
    BY <1>5 DEF Keep, IInv, TasksInv, LocalTypeOK
  <1>9. QED
    BY <1>1, <1>7, <1>8, GotoStep DEF Keep, Labels, IInv, TasksInv, LocalTypeOK

LEMMA StartReadStep ==
    ASSUME IInv, NEW t \in Tasks, StartRead(t)
    PROVE  IInv'
  <1>1. CASE Return(t)
    BY <1>1, ReturnStep DEF StartRead, Startable
  <1>2. CASE rides[call[t].ride].status = "MATCHED" /\ Keep(t, "select")
    BY <1>2, ReadStep DEF StartRead, Startable, NoRow
  <1>3. QED
    BY <1>1, <1>2 DEF StartRead, Startable

LEMMA CompleteReadStep ==
    ASSUME IInv, NEW t \in Tasks, CompleteRead(t)
    PROVE  IInv'
  <1>1. CASE Return(t)
    BY <1>1, ReturnStep DEF CompleteRead
  <1>2. CASE rides[call[t].ride].status = "IN_PROGRESS" /\ Keep(t, "select")
    BY <1>2, ReadStep DEF CompleteRead, NoRow
  <1>3. QED
    BY <1>1, <1>2 DEF CompleteRead

LEMMA CancelReadStep ==
    ASSUME IInv, NEW t \in Tasks, CancelRead(t)
    PROVE  IInv'
  <1>1. CASE Return(t)
    BY <1>1, ReturnStep DEF CancelRead, Uncancellable
  <1>2. CASE /\ rides[call[t].ride] # NoRow
             /\ Keep(t, IF rides[call[t].ride].driver # None THEN "avail" ELSE "select")
    BY <1>2, ReadStep DEF CancelRead, Uncancellable
  <1>3. QED
    BY <1>1, <1>2 DEF CancelRead, Uncancellable

LEMMA MergeSelectStep ==
    ASSUME IInv, NEW t \in Tasks, MergeSelect(t)
    PROVE  IInv'
  <1>1. /\ TaskInv(t) /\ pc[t] = "select" /\ pc'[t] = "commit"
        /\ UNCHANGED <<call, lock, mem, stores>> /\ Goto(t, "commit")
        /\ seen' = [seen EXCEPT ![t] = rides[call[t].ride]]
    BY DEF MergeSelect, Goto, IInv, TasksInv, LocalTypeOK
  <1>2. call[t].op \in Savers /\ call[t].ride \in Rides
    BY <1>1 DEF TaskInv, CallShape, LabelsOf, NoCall, Savers
  <1>3. /\ seen'[t] = rides[call[t].ride]
        /\ seen' \in [Tasks -> RideRow \cup {NoRow}]
        /\ \A u \in Tasks \ {t} : seen'[u] = seen[u]
    BY <1>1, <1>2 DEF IInv, StoreInv, StoreTypeOK, TasksInv, LocalTypeOK
  <1>4. CallShape(t)'
    BY <1>1, <1>2 DEF TaskInv, CallShape, LabelsOf, Savers
  <1>5. MemoryOK(t)'
    BY <1>1, <1>2 DEF TaskInv, MemoryOK, PastRead, stores
  <1>6. SelectOK(t)'
    BY <1>1, <1>3 DEF SelectOK, Left, stores
  <1>7. TaskInv(t)'
    BY <1>1, <1>2, <1>4, <1>5, <1>6 DEF TaskInv, LockHeld, Claim, NotYetWon, Saved, stores
  <1>8. QED
    BY <1>1, <1>3, <1>7, GotoStep DEF Labels, IInv, TasksInv, LocalTypeOK

\* The driver a handler marks is one: the caller, or the one the cancelled ride shows.
LEMMA SubjectType ==
    ASSUME TasksInv, NEW t \in Tasks, pc[t] \in {"avail", "update", "redis"}
    PROVE  Subject(t) \in Drivers
  BY DEF TasksInv, TaskInv, CallShape, MemoryOK, PastRead, LabelsOf, NoCall, Savers, Subject,
         LocalTypeOK, Call, Endpoints

LEMMA SelectDriverStep ==
    ASSUME IInv, NEW t \in Tasks, SelectDriver(t)
    PROVE  IInv'
  <1> DEFINE l == IF available[Subject(t)] = Freed(call[t].op) THEN "redis" ELSE "update"
  <1>1. /\ TaskInv(t) /\ pc[t] = "avail" /\ pc'[t] = l /\ Goto(t, l)
        /\ UNCHANGED <<call, lock, mem, seen, stores>>
    BY DEF SelectDriver, Goto, IInv, TasksInv, LocalTypeOK
  <1>2. l \in {"redis", "update"}
    OBVIOUS
  <1> HIDE DEF l
  <1>3. call[t].op \in {"accept", "complete", "cancel", "online", "offline"}
    BY <1>1, ActiveOp DEF IInv, TaskInv, CallShape, LabelsOf, Endpoints
  <1>4. CallShape(t)'
    BY <1>1, <1>2, <1>3 DEF TaskInv, CallShape, LabelsOf
  <1>5. MemoryOK(t)' /\ NotYetWon(t)' /\ Saved(t)'
    BY <1>1, <1>2 DEF TaskInv, MemoryOK, PastRead, NotYetWon, Saved, stores
  <1>6. TaskInv(t)'
    BY <1>1, <1>2, <1>4, <1>5 DEF TaskInv, LockHeld, Claim, SelectOK, stores
  <1>7. QED
    BY <1>1, <1>2, <1>6, GotoStep DEF Labels, IInv, TasksInv, LocalTypeOK

LEMMA SetAvailableStep ==
    ASSUME IInv, NEW t \in Tasks, SetAvailable(t)
    PROVE  IInv'
  <1>1. /\ TaskInv(t) /\ pc[t] = "update" /\ pc'[t] = "redis" /\ Goto(t, "redis")
        /\ UNCHANGED <<call, lock, mem, seen, rides, winners, events, redisAvailable>>
    BY DEF SetAvailable, Goto, IInv, TasksInv, LocalTypeOK
  <1>2. Freed(call[t].op) \in BOOLEAN
    BY DEF Freed
  <1>3. StoreInv'
    BY <1>1, <1>2 DEF SetAvailable, IInv, StoreInv, StoreTypeOK, AcceptOnce, OnlyTheWinner,
                      NoEventBeforeCommit, WonMeansLeft, Left
  <1>4. CallShape(t)'
    <2>1. call[t].op \in {"accept", "complete", "cancel", "online", "offline"}
      BY <1>1, ActiveOp DEF IInv, TaskInv, CallShape, LabelsOf, Endpoints
    <2>2. QED
      BY <1>1, <2>1 DEF TaskInv, CallShape, LabelsOf
  <1>5. MemoryOK(t)' /\ NotYetWon(t)' /\ Saved(t)'
    BY <1>1 DEF TaskInv, MemoryOK, PastRead, NotYetWon, Saved
  <1>6. TaskInv(t)'
    BY <1>1, <1>4, <1>5 DEF TaskInv, LockHeld, Claim, SelectOK
  <1>7. Benign(t)
    BY <1>1, QuietStores DEF IInv
  <1>8. QED
    BY <1>1, <1>3, <1>6, <1>7, GotoTasks DEF Labels, IInv, TasksInv, LocalTypeOK

LEMMA SetRedisStep ==
    ASSUME IInv, NEW t \in Tasks, SetRedis(t)
    PROVE  IInv'
  <1>1. /\ TaskInv(t) /\ pc[t] = "redis" /\ UNCHANGED <<rides, winners, events, available>>
    BY DEF SetRedis, IInv, TasksInv
  <1>2. redisAvailable' \in SUBSET Drivers
    BY <1>1, SubjectType DEF SetRedis, IInv, StoreInv, StoreTypeOK
  <1>3. StoreInv'
    BY <1>1, <1>2 DEF IInv, StoreInv, StoreTypeOK, AcceptOnce, OnlyTheWinner,
                      NoEventBeforeCommit, WonMeansLeft, Left
  <1>4. CASE Return(t)
    <2>1. Benign(t)
      BY <1>1, <1>4, QuietStores DEF IInv, Return, Released
    <2>2. QED
      BY <1>3, <1>4, <2>1, ReturnTasks DEF IInv
  <1>5. CASE /\ call[t].op \notin {"online", "offline"}
             /\ Goto(t, AfterRedis(call[t].op)) /\ UNCHANGED <<mem, seen>>
    <2>1. /\ pc'[t] = AfterRedis(call[t].op) /\ UNCHANGED <<call, lock, mem, seen>>
      BY <1>5 DEF Goto, IInv, TasksInv, LocalTypeOK
    <2>2. call[t].op \in {"accept", "complete", "cancel"}
      <3>1. call[t].op \in Endpoints
        BY <1>1, ActiveOp DEF IInv
      <3>2. QED
        BY <1>1, <1>5, <3>1 DEF TaskInv, CallShape, LabelsOf, Endpoints
    <2>3. CallShape(t)'
      BY <1>1, <2>1, <2>2 DEF TaskInv, CallShape, LabelsOf, AfterRedis
    <2>4. MemoryOK(t)' /\ NotYetWon(t)' /\ Saved(t)'
      BY <1>1, <2>1, <2>2 DEF TaskInv, MemoryOK, PastRead, NotYetWon, Saved, AfterRedis, Savers
    <2>5. TaskInv(t)'
      BY <1>1, <2>1, <2>2, <2>3, <2>4
         DEF TaskInv, LockHeld, Claim, SelectOK, AfterRedis
    <2>6. Benign(t)
      BY <1>1, <2>1, QuietStores DEF IInv
    <2>7. AfterRedis(call[t].op) \in Labels
      BY DEF AfterRedis, Labels
    <2>8. QED
      BY <1>3, <1>5, <2>5, <2>6, <2>7, GotoTasks DEF IInv, TasksInv, LocalTypeOK
  <1>6. QED
    BY <1>4, <1>5 DEF SetRedis

\* The INSERT: the id was this request's own, so no other task knew it.
LEMMA RequestInsertStep ==
    ASSUME IInv, NEW t \in Tasks, RequestInsert(t)
    PROVE  IInv'
  <1> DEFINE ride == call[t].ride
             new == [rider |-> call[t].user, driver |-> None,
                     status |-> "REQUESTED", fare |-> FALSE]
  <1>1. /\ TaskInv(t) /\ pc[t] = "insert" /\ pc'[t] = "publish" /\ Goto(t, "publish")
        /\ UNCHANGED <<available, redisAvailable, events, winners, mem, seen, call, lock>>
        /\ rides' = [rides EXCEPT ![ride] = new]
    BY DEF RequestInsert, Goto, IInv, TasksInv, LocalTypeOK
  <1>2. call[t].op = "request"
    BY <1>1 DEF TaskInv, CallShape, LabelsOf, NoCall
  <1>3. ride \in Rides /\ call[t].user \in Riders /\ rides[ride] = NoRow
    BY <1>1, <1>2 DEF TaskInv, CallShape, Claim
  <1>4. new \in RideRow /\ new # NoRow
    BY <1>3 DEF RideRow, RideStatus, NoRow
  <1>5. rides'[ride] = new /\ \A r \in Rides \ {ride} : rides'[r] = rides[r]
    BY <1>1, <1>3 DEF IInv, StoreInv, StoreTypeOK
  <1>6. winners[ride] = {}
    BY <1>3 DEF IInv, StoreInv, WonMeansLeft, Left, NoRow
  <1>7. StoreInv'
    <2>1. StoreTypeOK'
      BY <1>1, <1>4 DEF IInv, StoreInv, StoreTypeOK
    <2>2. AcceptOnce' /\ OnlyTheWinner'
      BY <1>1, <1>5 DEF IInv, StoreInv, AcceptOnce, OnlyTheWinner
    <2>3. WonMeansLeft'
      BY <1>1, <1>5, <1>6 DEF IInv, StoreInv, WonMeansLeft, Left
    <2>4. NoEventBeforeCommit'
      <3>1. \A topic \in Topics : <<topic, ride>> \notin events
        <4>1. rides[ride].status = "NONE"
          BY <1>3 DEF NoRow
        <4>2. /\ <<"ride-requested", ride>> \notin events
              /\ \A topic \in Topics \ {"ride-requested"} : <<topic, ride>> \notin events
          BY <1>3, <4>1 DEF IInv, StoreInv, NoEventBeforeCommit
        <4>3. QED
          BY <4>2
      <3>2. ASSUME NEW r \in Rides \ {ride}
            PROVE  /\ <<"ride-requested", r>> \in events' => rides'[r] # NoRow
                   /\ \A topic \in Topics \ {"ride-requested"} :
                         <<topic, r>> \in events' => rides'[r].status \notin {"NONE", "REQUESTED"}
        BY <1>1, <1>5 DEF IInv, StoreInv, NoEventBeforeCommit
      <3>3. \A topic \in Topics : <<topic, ride>> \notin events'
        BY <1>1, <3>1
      <3>4. QED
        BY <3>2, <3>3 DEF NoEventBeforeCommit, Topics
    <2>5. QED
      BY <2>1, <2>2, <2>3, <2>4 DEF StoreInv
  <1>8. Benign(t)
    <2>1. \A r \in Rides : Left(rides[r]) => Left(rides'[r])
      BY <1>3, <1>5 DEF Left, NoRow
    <2>2. \A u \in Tasks \ {t} : call[u].op = "request" => call[u].ride # ride
      BY <1>2 DEF IInv, TasksInv, UniqueClaims
    <2>3. \A u \in Tasks : call[u].op = "request" => call[u].ride \in Rides
      BY DEF IInv, TasksInv, TaskInv, CallShape
    <2>4. QED
      BY <1>1, <1>4, <1>5, <2>1, <2>2, <2>3 DEF Benign
  <1>9. CallShape(t)'
    BY <1>1, <1>2 DEF TaskInv, CallShape, LabelsOf
  <1>10. TaskInv(t)'
    BY <1>1, <1>2, <1>4, <1>5, <1>9 DEF TaskInv, LockHeld, Claim, MemoryOK, PastRead, NotYetWon,
                                        SelectOK, Saved, Savers
  <1>11. QED
    BY <1>1, <1>7, <1>8, <1>10, GotoTasks DEF Labels, IInv, TasksInv, LocalTypeOK

\* A publisher has committed what its event announces.
LEMMA PublishStep ==
    ASSUME IInv, NEW t \in Tasks, Publish(t)
    PROVE  IInv'
  <1>1. /\ TaskInv(t) /\ pc[t] = "publish" /\ Return(t)
        /\ UNCHANGED <<rides, available, redisAvailable, winners>>
        /\ events' = events \cup {<<Topic(call[t].op), call[t].ride>>}
    BY DEF Publish, IInv, TasksInv
  <1>2. call[t].op \in {"request", "accept", "complete", "cancel"} /\ call[t].ride \in Rides
    <2>1. call[t].op \in Endpoints
      BY <1>1, ActiveOp DEF IInv
    <2>2. QED
      BY <1>1, <2>1 DEF TaskInv, CallShape, LabelsOf, Endpoints, Savers
  <1>3. /\ Topic(call[t].op) \in Topics
        /\ Topic(call[t].op) = "ride-requested" <=> call[t].op = "request"
    BY <1>2 DEF Topic, Topics
  <1>4. StoreTypeOK' /\ AcceptOnce' /\ OnlyTheWinner' /\ WonMeansLeft'
    BY <1>1, <1>2, <1>3 DEF IInv, StoreInv, StoreTypeOK, AcceptOnce, OnlyTheWinner, WonMeansLeft, Left
  <1>5. NoEventBeforeCommit'
    <2>1. call[t].op = "request" => rides[call[t].ride] # NoRow
      BY <1>1 DEF TaskInv, Claim
    <2>2. call[t].op # "request" => rides[call[t].ride].status \notin {"NONE", "REQUESTED"}
      BY <1>1 DEF TaskInv, Saved, Left
    <2>3. QED
      BY <1>1, <1>3, <2>1, <2>2 DEF IInv, StoreInv, NoEventBeforeCommit
  <1>6. Benign(t)
    BY <1>1, QuietStores DEF IInv, Return, Released
  <1>7. QED
    BY <1>1, <1>4, <1>5, <1>6, ReturnTasks DEF IInv, StoreInv

\* The object a handler saves: never REQUESTED, and its driver has won the ride.
LEMMA TargetFact ==
    ASSUME NEW t \in Tasks, TasksInv, pc[t] = "commit"
    PROVE  /\ Left(Target(t))
           /\ Target(t).status \in RideStatus
           /\ Target(t).fare \in BOOLEAN
           /\ Target(t).driver \in Drivers \cup {None}
           /\ Target(t).driver # None =>
                 Target(t).driver \in winners[call[t].ride] \/
                 (call[t].op = "accept" /\ Target(t).driver = call[t].user)
           /\ call[t].op # "accept" =>
                 /\ Target(t).status \in {"MATCHED", "IN_PROGRESS", "COMPLETED"}
                       => winners[call[t].ride] # {}
                 /\ Target(t).fare => winners[call[t].ride] # {}
  <1>1. call[t].op \in Savers /\ TaskInv(t)
    BY DEF TasksInv, TaskInv, CallShape, LabelsOf, NoCall, Savers
  <1>2. mem[t] \in RideRow
    BY <1>1 DEF TasksInv, LocalTypeOK, TaskInv, MemoryOK, PastRead
  <1>3. MemoryOK(t) /\ PastRead(t)
    BY <1>1 DEF TaskInv, PastRead
  <1>4. CASE call[t].op = "accept"
    <2>1. Target(t) = [mem[t] EXCEPT !.driver = call[t].user, !.status = "MATCHED"]
      BY <1>4 DEF Target, Completing, Cancelling
    <2>2. call[t].user \in Drivers
      BY <1>1, <1>4 DEF TaskInv, CallShape
    <2>3. QED
      BY <1>2, <1>4, <2>1, <2>2 DEF RideRow, RideStatus, Left
  <1>5. CASE call[t].op = "start"
    <2>1. Target(t) = [mem[t] EXCEPT !.status = "IN_PROGRESS"]
      BY <1>5 DEF Target, Completing, Cancelling
    <2>2. QED
      BY <1>2, <1>3, <1>5, <2>1 DEF RideRow, RideStatus, Left, MemoryOK
  <1>6. CASE call[t].op = "complete"
    <2>1. Target(t) = [mem[t] EXCEPT !.status = "COMPLETED", !.fare = TRUE]
      BY <1>6 DEF Target, Completing, Cancelling
    <2>2. QED
      BY <1>2, <1>3, <1>6, <2>1 DEF RideRow, RideStatus, Left, MemoryOK
  <1>7. CASE call[t].op = "cancel"
    <2>1. Target(t) = [mem[t] EXCEPT !.status = "CANCELLED"]
      BY <1>7 DEF Target, Completing, Cancelling
    <2>2. QED
      BY <1>2, <1>3, <1>7, <2>1 DEF RideRow, RideStatus, Left, MemoryOK
  <1>8. QED
    BY <1>1, <1>4, <1>5, <1>6, <1>7 DEF Savers

\* What a commit does to its row, however stale the object it merges.
LEMMA CommitFact ==
    ASSUME NEW t \in Tasks, IInv, MergeCommit(t)
    PROVE  /\ TaskInv(t) /\ pc[t] = "commit" /\ call[t].op \in Savers /\ call[t].ride \in Rides
           /\ rides[call[t].ride] \in RideRow
           /\ rides'[call[t].ride] = Merge(rides[call[t].ride], seen[t], Target(t))
           /\ rides'[call[t].ride] \in RideRow
           /\ Left(rides'[call[t].ride])
           /\ \A r \in Rides \ {call[t].ride} : rides'[r] = rides[r] /\ winners'[r] = winners[r]
           /\ winners'[call[t].ride] = IF call[t].op = "accept" THEN {call[t].user}
                                                                ELSE winners[call[t].ride]
           /\ call[t].op = "accept" => winners[call[t].ride] = {} /\ call[t].user \in Drivers
           /\ call[t].op # "accept" => winners' = winners
  <1>1. /\ TaskInv(t) /\ pc[t] = "commit"
        /\ rides' = [rides EXCEPT ![call[t].ride] = Merge(@, seen[t], Target(t))]
    BY DEF MergeCommit, IInv, TasksInv
  <1>2. call[t].op \in Savers /\ call[t].ride \in Rides
    BY <1>1 DEF TaskInv, CallShape, LabelsOf, NoCall, Savers
  <1>3. rides[call[t].ride] \in RideRow
    BY <1>1, <1>2 DEF IInv, StoreInv, StoreTypeOK, TaskInv, MemoryOK, PastRead
  <1>4. /\ rides'[call[t].ride] = Merge(rides[call[t].ride], seen[t], Target(t))
        /\ \A r \in Rides \ {call[t].ride} : rides'[r] = rides[r]
    BY <1>1, <1>2 DEF IInv, StoreInv, StoreTypeOK
  <1>5. rides'[call[t].ride] \in RideRow
    BY <1>1, <1>3, <1>4, TargetFact DEF IInv, Merge, RideRow
  <1>6. Left(rides'[call[t].ride])
    <2>1. CASE Target(t).status # seen[t].status
      BY <1>1, <1>4, <2>1, TargetFact DEF IInv, Merge, Left
    <2>2. CASE Target(t).status = seen[t].status
      <3>1. Left(rides[call[t].ride])
        BY <1>1, <2>2, TargetFact DEF IInv, TaskInv, SelectOK, Left
      <3>2. QED
        BY <1>4, <2>2, <3>1 DEF Merge, Left
    <2>3. QED
      BY <2>1, <2>2
  <1>7. call[t].op = "accept" => winners[call[t].ride] = {} /\ call[t].user \in Drivers
    BY <1>1 DEF TaskInv, NotYetWon, CallShape
  <1>8. /\ \A r \in Rides \ {call[t].ride} : winners'[r] = winners[r]
        /\ winners'[call[t].ride] = IF call[t].op = "accept" THEN {call[t].user}
                                                             ELSE winners[call[t].ride]
        /\ call[t].op # "accept" => winners' = winners
    BY <1>2, <1>7 DEF MergeCommit, IInv, StoreInv, StoreTypeOK
  <1>9. QED
    BY <1>1, <1>2, <1>3, <1>4, <1>5, <1>6, <1>7, <1>8

\* The driver_id, the status and the fare of the row after a commit have a winner.
LEMMA CommitBacked ==
    ASSUME NEW t \in Tasks, IInv, MergeCommit(t)
    PROVE  OnlyTheWinner'
  <1> DEFINE ride == call[t].ride
  <1>1. pc[t] = "commit" /\ TasksInv
    BY CommitFact DEF IInv
  <1>2. winners[ride] \subseteq winners'[ride]
    BY CommitFact
  <1>3. call[t].op = "accept" => winners'[ride] = {call[t].user}
    BY CommitFact
  <1>f. /\ rides'[ride].driver \in {Target(t).driver, rides[ride].driver}
        /\ rides'[ride].status \in {Target(t).status, rides[ride].status}
        /\ rides'[ride].fare \in {Target(t).fare, rides[ride].fare}
    <2>1. rides'[ride] = Merge(rides[ride], seen[t], Target(t))
      BY CommitFact
    <2>2. QED
      BY <2>1 DEF Merge
  <1>o. /\ ride \in Rides
        /\ rides[ride].driver # None => rides[ride].driver \in winners[ride]
        /\ rides[ride].status \in {"MATCHED", "IN_PROGRESS", "COMPLETED"} => winners[ride] # {}
        /\ rides[ride].fare => winners[ride] # {}
    BY CommitFact DEF IInv, StoreInv, OnlyTheWinner
  <1>4. rides'[ride].driver # None => rides'[ride].driver \in winners'[ride]
    BY <1>1, <1>2, <1>3, <1>f, <1>o, TargetFact
  <1>5. rides'[ride].status \in {"MATCHED", "IN_PROGRESS", "COMPLETED"} => winners'[ride] # {}
    BY <1>1, <1>2, <1>3, <1>f, <1>o, TargetFact
  <1>6. rides'[ride].fare => winners'[ride] # {}
    BY <1>1, <1>2, <1>3, <1>f, <1>o, TargetFact
  <1>7. \A r \in Rides \ {ride} : rides'[r] = rides[r] /\ winners'[r] = winners[r]
    BY CommitFact
  <1>8. QED
    BY <1>4, <1>5, <1>6, <1>7 DEF IInv, StoreInv, OnlyTheWinner

LEMMA MergeCommitStep ==
    ASSUME IInv, NEW t \in Tasks, MergeCommit(t)
    PROVE  IInv'
  <1> DEFINE ride == call[t].ride
  <1>1. UNCHANGED <<available, redisAvailable, events>>
    BY DEF MergeCommit
  <1>w. /\ \A r \in Rides \ {ride} : rides'[r] = rides[r] /\ winners'[r] = winners[r]
        /\ winners'[ride] = {call[t].user} \/ winners'[ride] = winners[ride]
        /\ call[t].op # "accept" => winners' = winners
    BY CommitFact
  <1>2. StoreInv'
    <2>1. rides' \in [Rides -> RideRow \cup {NoRow}] /\ winners' \in [Rides -> SUBSET Drivers]
      <3>1. rides' = [rides EXCEPT ![ride] = rides'[ride]] /\ rides'[ride] \in RideRow
        BY CommitFact DEF MergeCommit, IInv, StoreInv, StoreTypeOK
      <3>2. rides' \in [Rides -> RideRow \cup {NoRow}]
        BY <3>1 DEF IInv, StoreInv, StoreTypeOK
      <3>3. winners' \in [Rides -> SUBSET Drivers]
        <4>1. winners \in [Rides -> SUBSET Drivers] /\ ride \in Rides
          BY CommitFact DEF IInv, StoreInv, StoreTypeOK
        <4>2. CASE call[t].op = "accept"
          <5>1. call[t].user \in Drivers
            BY <4>2, CommitFact
          <5>2. winners' = [winners EXCEPT ![ride] = @ \cup {call[t].user}]
            BY <4>2 DEF MergeCommit
          <5>3. QED
            BY <4>1, <5>1, <5>2
        <4>3. CASE call[t].op # "accept"
          BY <4>1, <4>3, <1>w
        <4>4. QED
          BY <4>2, <4>3
      <3>4. QED
        BY <3>2, <3>3
    <2>2. StoreTypeOK'
      BY <1>1, <2>1 DEF IInv, StoreInv, StoreTypeOK
    <2>3. AcceptOnce'
      <3>1. AcceptOnce
        BY DEF IInv, StoreInv
      <3>2. QED
        BY <1>w, <3>1 DEF AcceptOnce
    <2>4. WonMeansLeft'
      BY CommitFact DEF IInv, StoreInv, WonMeansLeft, Left
    <2>5. NoEventBeforeCommit'
      <3>1. rides'[ride] # NoRow
        BY CommitFact, NoRowFact
      <3>2. QED
        BY <1>1, <3>1, CommitFact DEF IInv, StoreInv, NoEventBeforeCommit, Left
    <2>6. QED
      BY <2>2, <2>3, <2>4, <2>5, CommitBacked DEF StoreInv
  <1>3. UNCHANGED lock \/ Return(t)
    BY DEF MergeCommit, Goto
  <1>4. Benign(t)
    <2>1. \A r \in Rides : /\ rides[r] # NoRow => rides'[r] # NoRow
                           /\ Left(rides[r]) => Left(rides'[r])
                           /\ winners[r] \subseteq winners'[r]
      BY CommitFact, NoRowFact DEF Left
    <2>2. \A u \in Tasks \ {t} :
             call[u].op = "request" /\ pc[u] \in {"check", "insert"} => call[u].ride # ride
      <3>1. rides[ride] # NoRow
        BY CommitFact, NoRowFact
      <3>2. QED
        BY <3>1 DEF IInv, TasksInv, TaskInv, Claim
    <2>3. \A u \in Tasks \ {t} :
             call[u].op = "request" /\ pc[u] \in {"check", "insert"}
                => rides'[call[u].ride] = rides[call[u].ride]
      BY <2>2, CommitFact DEF IInv, TasksInv, TaskInv, CallShape
    <2>4. \A u \in Tasks \ {t} : call[u].op = "accept" /\ pc[u] # "lock" => winners' = winners
      BY CommitFact, OneAccept DEF IInv
    <2>5. \A u \in Tasks \ {t} : lock = u => lock' = u
      BY <1>3 DEF Return, Released
    <2>6. QED
      BY <2>1, <2>3, <2>4, <2>5 DEF Benign
  <1>5. CASE Return(t)
    BY <1>2, <1>4, <1>5, ReturnTasks DEF IInv
  <1>6. CASE /\ call[t].op # "start"
             /\ Goto(t, IF call[t].op = "complete" THEN "avail" ELSE "publish")
             /\ UNCHANGED <<mem, seen>>
    <2> DEFINE l == IF call[t].op = "complete" THEN "avail" ELSE "publish"
    <2>1. pc'[t] = l /\ UNCHANGED <<call, lock, mem, seen>> /\ l \in Labels
      BY <1>6 DEF Goto, IInv, TasksInv, LocalTypeOK, Labels
    <2>2. CallShape(t)'
      BY <1>6, <2>1, CommitFact DEF TaskInv, CallShape, LabelsOf, Savers
    <2>3. MemoryOK(t)'
      BY <1>6, <2>1, CommitFact, NoRowFact DEF TaskInv, MemoryOK, PastRead, Savers
    <2>4. Saved(t)'
      BY <2>1, CommitFact DEF Saved
    <2>5. LockHeld(t)' /\ Claim(t)' /\ NotYetWon(t)' /\ SelectOK(t)'
      BY <1>6, <2>1, CommitFact DEF TaskInv, LockHeld, Claim, NotYetWon, SelectOK, Savers
    <2>6. QED
      BY <1>2, <1>4, <1>6, <2>1, <2>2, <2>3, <2>4, <2>5, GotoTasks
         DEF TaskInv, IInv, TasksInv, LocalTypeOK
  <1>7. QED
    BY <1>5, <1>6 DEF MergeCommit

-----------------------------------------------------------------------------
(* The invariant                                                           *)

LEMMA InitIInv == ASSUME Init PROVE IInv
  <1>1. StoreInv
    BY DEF Init, StoreInv, StoreTypeOK, AcceptOnce, OnlyTheWinner, NoEventBeforeCommit,
           WonMeansLeft, NoRow
  <1>2. LocalTypeOK /\ UniqueClaims
    BY DEF Init, LocalTypeOK, UniqueClaims, Labels, NoCall
  <1>3. \A t \in Tasks : TaskInv(t)
    BY DEF Init, TaskInv, CallShape, LockHeld, Claim, MemoryOK, PastRead, NotYetWon,
           SelectOK, Saved, NoCall, Savers
  <1>4. QED
    BY <1>1, <1>2, <1>3 DEF IInv, TasksInv

LEMMA NextIInv == ASSUME IInv, [Next]_vars PROVE IInv'
  <1>1. CASE UNCHANGED vars
    <2>1. StoreInv'
      BY <1>1 DEF IInv, StoreInv, StoreTypeOK, AcceptOnce, OnlyTheWinner, NoEventBeforeCommit,
                  WonMeansLeft, Left, vars
    <2>2. LocalTypeOK' /\ UniqueClaims'
      BY <1>1 DEF IInv, TasksInv, LocalTypeOK, UniqueClaims, vars
    <2>3. ASSUME NEW t \in Tasks PROVE TaskInv(t)'
      <3>1. TaskInv(t)
        BY DEF IInv, TasksInv
      <3>2. CallShape(t)' /\ LockHeld(t)' /\ Claim(t)' /\ SelectOK(t)' /\ Saved(t)'
        BY <1>1, <3>1 DEF TaskInv, CallShape, LockHeld, Claim, SelectOK, Saved, Left, vars
      <3>3. MemoryOK(t)' /\ NotYetWon(t)'
        BY <1>1, <3>1 DEF TaskInv, MemoryOK, PastRead, NotYetWon, vars
      <3>4. QED
        BY <3>2, <3>3 DEF TaskInv
    <2>4. QED
      BY <2>1, <2>2, <2>3 DEF IInv, TasksInv
  <1>2. ASSUME NEW t \in Tasks, Begin(t) PROVE IInv'
    BY <1>2, BeginStep
  <1>3. ASSUME NEW t \in Tasks, AcquireLock(t) PROVE IInv'
    BY <1>3, AcquireLockStep
  <1>4. ASSUME NEW t \in Tasks, Step(t) PROVE IInv'
    BY <1>4, RequestCheckStep, RequestInsertStep, AcceptReadStep, AcceptCheckDriverStep,
       StartReadStep, CompleteReadStep, CancelReadStep, SelectDriverStep, SetAvailableStep,
       SetRedisStep, MergeSelectStep, MergeCommitStep, PublishStep DEF Step
  <1>5. ASSUME NEW t \in Tasks, Fail(t) PROVE IInv'
    BY <1>5, ReturnStep DEF Fail
  <1>6. QED
    BY <1>1, <1>2, <1>3, <1>4, <1>5 DEF Next

\* IInv is an invariant of every execution.
THEOREM Invariance == Spec => []IInv
  <1>1. Init => IInv
    BY InitIInv
  <1>2. IInv /\ [Next]_vars => IInv'
    BY NextIInv
  <1>3. QED
    BY <1>1, <1>2, PTL DEF Spec

\* Every table, set, topic and local variable keeps its type: in particular only rows
\* are ever saved and only drivers ever enter the Redis set.
THEOREM TypeCorrect == Spec => []TypeOK
  <1>1. IInv => TypeOK
    BY DEF IInv, StoreInv, StoreTypeOK, TasksInv, LocalTypeOK, TypeOK
  <1>2. QED
    BY <1>1, Invariance, PTL

\* However many accepts of one ride overlap each other and everything else, fail or
\* merge stale rows, at most one of them is committed (services/ride.py:34-37).
THEOREM AcceptedOnce == Spec => []AcceptOnce
  <1>1. IInv => AcceptOnce
    BY DEF IInv, StoreInv
  <1>2. QED
    BY <1>1, Invariance, PTL

\* A ride is carried, completed and charged only for a driver who won it, although
\* start, complete and cancel save rows they read any time before.
THEOREM DriverIsTheWinner == Spec => []OnlyTheWinner
  <1>1. IInv => OnlyTheWinner
    BY DEF IInv, StoreInv
  <1>2. QED
    BY <1>1, Invariance, PTL

\* A consumer of ride-accepted, -completed or -cancelled never finds the ride
\* REQUESTED again, whenever it looks.
THEOREM CommitThenPublish == Spec => []NoEventBeforeCommit
  <1>1. IInv => NoEventBeforeCommit
    BY DEF IInv, StoreInv
  <1>2. QED
    BY <1>1, Invariance, PTL

-----------------------------------------------------------------------------
(* The lock                                                                *)

\* A step takes the lock to be inside, and gives it back to leave.
LEMMA LockStep ==
    ASSUME IInv, LockIsNeverLeaked, [Next]_vars PROVE LockIsNeverLeaked'
  <1>l. /\ lock \in Tasks \cup {None} /\ None \notin Tasks
        /\ pc \in [Tasks -> Labels] /\ call \in [Tasks -> Call \cup {NoCall}]
    BY NoneAssumption DEF IInv, TasksInv, LocalTypeOK
  <1>1. CASE UNCHANGED vars
    BY <1>1 DEF LockIsNeverLeaked, vars
  <1>2. ASSUME NEW t \in Tasks, Begin(t) PROVE LockIsNeverLeaked'
    <2>1. /\ pc[t] = "idle" /\ UNCHANGED lock
          /\ \A u \in Tasks \ {t} : pc'[u] = pc[u] /\ call'[u] = call[u]
      BY <1>2, <1>l DEF Begin
    <2> QED
      BY <1>l, <2>1 DEF LockIsNeverLeaked
  <1>3. ASSUME NEW t \in Tasks, AcquireLock(t) PROVE LockIsNeverLeaked'
    <2>1. pc[t] = "lock" /\ lock' = t /\ pc'[t] = "accept" /\ UNCHANGED call
      BY <1>3, <1>l DEF AcquireLock
    <2>2. call[t].op = "accept"
      BY <2>1 DEF IInv, TasksInv, TaskInv, CallShape, LabelsOf
    <2> QED
      BY <2>1, <2>2 DEF LockIsNeverLeaked, Labels
  <1>4. ASSUME NEW t \in Tasks, Return(t) PROVE LockIsNeverLeaked'
    <2>1. /\ lock' = (IF lock = t THEN None ELSE lock)
          /\ \A u \in Tasks \ {t} : pc'[u] = pc[u] /\ call'[u] = call[u]
      BY <1>4, <1>l DEF Return, Released
    <2> QED
      BY <1>l, <2>1 DEF LockIsNeverLeaked
  <1>5. ASSUME NEW t \in Tasks, NEW l \in Labels \ {"idle", "lock"}, Goto(t, l)
        PROVE  LockIsNeverLeaked'
    <2>1. /\ UNCHANGED <<lock, call>> /\ pc'[t] = l
          /\ \A u \in Tasks \ {t} : pc'[u] = pc[u]
      BY <1>5, <1>l DEF Goto
    <2> QED
      BY <1>5, <1>l, <2>1 DEF LockIsNeverLeaked
  <1>6. ASSUME NEW t \in Tasks, Step(t) PROVE LockIsNeverLeaked'
    <2>1. Return(t) \/ \E l \in Labels \ {"idle", "lock"} : Goto(t, l)
      BY <1>6 DEF Step, RequestCheck, RequestInsert, AcceptRead, AcceptCheckDriver, StartRead,
                  CompleteRead, CancelRead, SelectDriver, SetAvailable, SetRedis, AfterRedis,
                  MergeSelect, MergeCommit, Publish, Keep, Labels
    <2> QED
      BY <1>4, <1>5, <2>1
  <1>7. ASSUME NEW t \in Tasks, Fail(t) PROVE LockIsNeverLeaked'
    BY <1>4, <1>7 DEF Fail
  <1> QED
    BY <1>1, <1>2, <1>3, <1>6, <1>7 DEF Next

\* The safety half of RequestsTerminate: whoever waits for the accept lock waits for a
\* request that is running, whatever has failed before.
THEOREM LockHasARunningHolder == Spec => []LockIsNeverLeaked
  <1>1. Init => LockIsNeverLeaked
    BY DEF Init, LockIsNeverLeaked
  <1>2. IInv /\ LockIsNeverLeaked /\ [Next]_vars => LockIsNeverLeaked'
    BY LockStep
  <1>3. QED
    BY <1>1, <1>2, Invariance, PTL DEF Spec

-----------------------------------------------------------------------------
(* RideService implements RideAssignment                                   *)

LEMMA PhaseFact ==
    \A row : /\ Phase(row.status) = "closed" <=> Left(row)
             /\ row.status = "NONE" => Phase(row.status) = "none"
             /\ row.status = "REQUESTED" => Phase(row.status) = "open"
  BY DEF Phase, Left

\* The INSERT opens the ride.
LEMMA InsertOpens ==
    ASSUME IInv, NEW t \in Tasks, RequestInsert(t)
    PROVE  Assignment!Open(call[t].ride) /\ call[t].ride \in Rides
  <1> DEFINE ride == call[t].ride
  <1>1. pc[t] = "insert" /\ TaskInv(t)
    BY DEF RequestInsert, IInv, TasksInv
  <1>2. rides[ride] = NoRow /\ ride \in Rides
    BY <1>1 DEF TaskInv, Claim, CallShape, LabelsOf, NoCall
  <1>3. [r \in Rides |-> Phase(rides'[r].status)]
           = [[r \in Rides |-> Phase(rides[r].status)] EXCEPT ![ride] = "open"]
    <2>1. /\ rides'[ride].status = "REQUESTED"
          /\ \A r \in Rides \ {ride} : rides'[r] = rides[r]
      BY <1>2 DEF RequestInsert, IInv, StoreInv, StoreTypeOK
    <2>2. QED
      BY <2>1, PhaseFact
  <1>4. rides[ride].status = "NONE"
    BY <1>2 DEF NoRow
  <1>5. UNCHANGED winners
    BY DEF RequestInsert
  <1>6. QED
    BY <1>2, <1>3, <1>4, <1>5, PhaseFact DEF Assignment!Open

\* A commit assigns the ride, closes it or leaves both phase and winners alone.
LEMMA CommitAssigns ==
    ASSUME IInv, NEW t \in Tasks, MergeCommit(t)
    PROVE  [Assignment!Next]_(Assignment!vars)
  <1> DEFINE ride == call[t].ride
             phase == [r \in Rides |-> Phase(rides[r].status)]
             phase2 == [r \in Rides |-> Phase(rides'[r].status)]
  <1>1. ride \in Rides /\ Left(rides'[ride]) /\ rides[ride] \in RideRow
    BY CommitFact
  <1>2. phase2 = [phase EXCEPT ![ride] = "closed"]
    <2>1. \A r \in Rides \ {ride} : rides'[r] = rides[r]
      BY CommitFact
    <2>2. QED
      BY <1>1, <2>1, PhaseFact
  <1>3. phase[ride] \in {"open", "closed"}
    BY <1>1, PhaseFact DEF RideRow, RideStatus, Phase
  <1>4. CASE call[t].op = "accept"
    <2>1. winners[ride] = {} /\ call[t].user \in Drivers /\ winners'[ride] = {call[t].user}
      BY <1>4, CommitFact
    <2>2. winners' = [winners EXCEPT ![ride] = {call[t].user}]
      BY <1>1, <1>4, <2>1 DEF MergeCommit, IInv, StoreInv, StoreTypeOK
    <2>3. Assignment!Assign(ride, call[t].user)
      BY <1>2, <1>3, <2>1, <2>2 DEF Assignment!Assign
    <2>4. QED
      BY <1>1, <2>1, <2>3 DEF Assignment!Next
  <1>5. CASE call[t].op # "accept" /\ phase[ride] = "open"
    <2>1. Assignment!Close(ride)
      BY <1>2, <1>5, CommitFact DEF Assignment!Close
    <2>2. QED
      BY <1>1, <2>1 DEF Assignment!Next
  <1>6. CASE call[t].op # "accept" /\ phase[ride] = "closed"
    <2>1. phase2 = phase
      <3>1. \A r \in Rides : phase2[r] = phase[r]
        BY <1>1, <1>2, <1>6
      <3>2. QED
        BY <3>1
    <2>2. winners' = winners
      BY <1>6, CommitFact
    <2>3. QED
      BY <2>1, <2>2 DEF Assignment!vars
  <1>7. QED
    BY <1>3, <1>4, <1>5, <1>6

\* Steps that touch neither the table nor the winners are stutters of RideAssignment.
LEMMA OtherStutters ==
    ASSUME UNCHANGED <<rides, winners>> PROVE UNCHANGED Assignment!vars
  BY DEF Assignment!vars

\* The handlers of services/ride.py, interleaved at every await and failing anywhere,
\* implement the promise: opened once, assigned at most once, never reopened.
THEOREM ImplementsAssignment == Spec => AssignmentSpec
  <1>1. Init => Assignment!Init
    <2>1. NoRow.status = "NONE"
      BY DEF NoRow
    <2>2. QED
      BY <2>1, PhaseFact DEF Init, Assignment!Init
  <1>2. IInv /\ [Next]_vars => [Assignment!Next]_(Assignment!vars)
    <2> SUFFICES ASSUME IInv, [Next]_vars
                 PROVE  [Assignment!Next]_(Assignment!vars)
      OBVIOUS
    <2>1. CASE UNCHANGED vars
      BY <2>1, OtherStutters DEF vars
    <2>2. ASSUME NEW t \in Tasks, RequestInsert(t)
          PROVE  [Assignment!Next]_(Assignment!vars)
      BY <2>2, InsertOpens DEF Assignment!Next
    <2>3. ASSUME NEW t \in Tasks, MergeCommit(t)
          PROVE  [Assignment!Next]_(Assignment!vars)
      BY <2>3, CommitAssigns
    <2>4. ASSUME NEW t \in Tasks, Begin(t) \/ AcquireLock(t) \/ Step(t) \/ Fail(t),
                 ~RequestInsert(t), ~MergeCommit(t)
          PROVE  UNCHANGED <<rides, winners>>
      BY <2>4 DEF Begin, AcquireLock, Unlocked, Step, Fail, RequestCheck, AcceptRead, Acceptable, AcceptCheckDriver,
                  StartRead, Startable, CompleteRead, CancelRead, Uncancellable, SelectDriver, SetAvailable, SetRedis, MergeSelect,
                  Publish, stores
    <2>5. QED
      BY <2>1, <2>2, <2>3, <2>4, OtherStutters DEF Next
  <1>3. QED
    BY <1>1, <1>2, Invariance, PTL DEF Spec, AssignmentSpec, Assignment!Spec
=============================================================================
