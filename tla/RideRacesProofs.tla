--------------------------- MODULE RideRacesProofs ---------------------------
(***************************************************************************)
(* Proofs about clients that overlap their requests, for any number of     *)
(* riders, drivers, rides and requests in flight, whatever the endpoints   *)
(* called and the failures.                                                *)
(*                                                                         *)
(* Watching RideService does not change it, so IInv and ReadFrom hold of   *)
(* WatchedSpec as well.  What is added relates the history to the stores:  *)
(* whatever the exists query of a request would see now and did not see    *)
(* then has appeared since (MissedAppeared), and a driver is as the last   *)
(* request has marked him, or somebody has undone it (MarkedOrUndone).     *)
(***************************************************************************)
EXTENDS RideRaces, RideIsolationProofs

MissedAppeared ==
    \A t \in Tasks : pc[t] = "insert" => ActiveRidesOf(call[t].user) \subseteq appeared[t]

AsMarked(t) ==
    /\ available[Subject(t)] = Freed(call[t].op)
    /\ pc[t] # "redis" => (Subject(t) \in redisAvailable) = Freed(call[t].op)

MarkedOrUndone == \A t \in Tasks : Marked(t) /\ t \notin undone => AsMarked(t)

CompletesOwn ==
    \A t \in Tasks : PastRead(t) /\ call[t].op = "complete" => mem[t].driver = call[t].user

LEMMA WatchedIsSpec == WatchedSpec => Spec
  <1>1. WatchedInit => Init
    BY DEF WatchedInit
  <1>2. [Next /\ Watch]_varsWithHistory => [Next]_vars
    BY DEF varsWithHistory
  <1> QED
    BY <1>1, <1>2, PTL DEF WatchedSpec, Spec

\* ReadFrom, which OnlyStaleSavesLeaveEdges rests on, as an invariant.
LEMMA ObjectsAreFromTheirReads == Spec => []ReadFrom
  <1>1. Init => ReadFrom
    BY DEF Init, ReadFrom, PastRead
  <1>2. IInv /\ ReadFrom /\ [Next]_vars => ReadFrom'
    BY ReadFromStays
  <1> QED
    BY <1>1, <1>2, Invariance, PTL DEF Spec

\* Only the task that moves changes its place and its call.
LEMMA OthersStand ==
    ASSUME IInv, NEW t \in Tasks, Begin(t) \/ AcquireLock(t) \/ Step(t) \/ Fail(t),
           NEW u \in Tasks \ {t}
    PROVE  pc'[u] = pc[u] /\ call'[u] = call[u]
  <1>l. pc \in [Tasks -> Labels] /\ call \in [Tasks -> Call \cup {NoCall}]
    BY DEF IInv, TasksInv, LocalTypeOK
  <1>1. ASSUME Return(t) PROVE pc'[u] = pc[u] /\ call'[u] = call[u]
    BY <1>1, <1>l DEF Return
  <1>2. ASSUME NEW l, Goto(t, l) PROVE pc'[u] = pc[u] /\ call'[u] = call[u]
    BY <1>2, <1>l DEF Goto
  <1>3. CASE Begin(t)
    BY <1>3, <1>l DEF Begin
  <1>4. CASE AcquireLock(t)
    BY <1>4, <1>l DEF AcquireLock
  <1>5. CASE Step(t)
    <2>1. Return(t) \/ \E l \in Labels : Goto(t, l)
      BY <1>5 DEF Step, RequestCheck, RequestInsert, AcceptRead, AcceptCheckDriver, StartRead,
                  CompleteRead, CancelRead, SelectDriver, SetAvailable, SetRedis, AfterRedis,
                  MergeSelect, MergeCommit, Publish, Keep, Labels
    <2> QED
      BY <1>1, <1>2, <2>1
  <1>6. CASE Fail(t)
    BY <1>1, <1>6 DEF Fail
  <1> QED
    BY <1>3, <1>4, <1>5, <1>6

LEMMA OthersKeepMem ==
    ASSUME IInv, NEW t \in Tasks, Begin(t) \/ AcquireLock(t) \/ Step(t) \/ Fail(t),
           NEW u \in Tasks \ {t}
    PROVE  mem'[u] = mem[u]
  <1>1. mem \in [Tasks -> RideRow \cup {NoRow}]
    BY DEF IInv, TasksInv, LocalTypeOK
  <1> QED
    BY <1>1 DEF Begin, AcquireLock, Step, Fail, RequestCheck, RequestInsert, AcceptRead,
                AcceptCheckDriver, StartRead, CompleteRead, CancelRead, SelectDriver, SetRedis,
                SetAvailable, MergeSelect, MergeCommit, Publish, Keep, Return

-----------------------------------------------------------------------------
(* Two active rides                                                        *)

\* Only a passed exists query leads to an INSERT, and it has seen no active ride.
LEMMA EnterInsert ==
    ASSUME IInv, NEW t \in Tasks, Begin(t) \/ AcquireLock(t) \/ Step(t) \/ Fail(t),
           pc'[t] = "insert"
    PROVE  ActiveRidesOf(call[t].user)' = {}
  <1>l. pc \in [Tasks -> Labels] /\ call \in [Tasks -> Call \cup {NoCall}]
    BY DEF IInv, TasksInv, LocalTypeOK
  <1>1. ~Return(t)
    BY <1>l DEF Return
  <1>2. \A l : Goto(t, l) => l = "insert"
    BY <1>l DEF Goto
  <1>3. ~Begin(t)
    <2> SUFFICES ASSUME Begin(t) PROVE FALSE
      OBVIOUS
    <2>1. PICK op \in Ops : pc' = [pc EXCEPT ![t] = Entry(op)]
      BY DEF Begin
    <2> QED
      BY <1>l, <2>1, OpsAssumption DEF Entry, Endpoints
  <1>4. ~AcquireLock(t)
    BY <1>l DEF AcquireLock
  <1>5. ~Fail(t)
    BY <1>1 DEF Fail
  <1>6. RequestCheck(t)
    BY <1>1, <1>2, <1>3, <1>4, <1>5
       DEF Step, RequestInsert, AcceptRead, AcceptCheckDriver, StartRead, CompleteRead, CancelRead,
           SelectDriver, SetAvailable, SetRedis, AfterRedis, MergeSelect, MergeCommit, Publish, Keep
  <1>7. /\ UNCHANGED <<rides, call>>
        /\ ~\E r \in Rides : rides[r].rider = call[t].user /\ rides[r].status \in ActiveRideStatuses
    BY <1>1, <1>6 DEF RequestCheck, Goto, stores
  <1> QED
    BY <1>7 DEF ActiveRidesOf, ActiveRideStatuses

LEMMA MissedAppearedStays ==
    ASSUME IInv, MissedAppeared, [Next /\ Watch]_varsWithHistory
    PROVE  MissedAppeared'
  <1>1. CASE UNCHANGED varsWithHistory
    BY <1>1 DEF varsWithHistory, vars, MissedAppeared, ActiveRidesOf
  <1>2. CASE Next /\ Watch
    <2> SUFFICES ASSUME NEW u \in Tasks, pc'[u] = "insert"
                 PROVE  ActiveRidesOf(call[u].user)' \subseteq appeared'[u]
      BY DEF MissedAppeared
    <2>1. CASE pc[u] = "insert"
      <3>1. ActiveRidesOf(call[u].user) \subseteq appeared[u]
        BY <2>1 DEF MissedAppeared
      <3>2. appeared'[u] = appeared[u] \cup (ActiveRidesOf(call[u].user)' \ ActiveRidesOf(call[u].user))
        BY <1>2, <2>1 DEF Watch
      <3> QED
        BY <3>1, <3>2
    <2>2. CASE pc[u] # "insert"
      <3>1. PICK t \in Tasks : Begin(t) \/ AcquireLock(t) \/ Step(t) \/ Fail(t)
        BY <1>2 DEF Next
      <3>2. t = u
        BY <2>2, <3>1, OthersStand
      <3> QED
        BY <3>1, <3>2, EnterInsert
    <2> QED
      BY <2>1, <2>2
  <1> QED
    BY <1>1, <1>2

\* A save that makes a ride active again brings it back from its end.
LEMMA ActivatingCommit ==
    ASSUME IInv, ReadFrom, NEW t \in Tasks, MergeCommit(t), NEW r \in Rides,
           rides'[r].status \in ActiveRideStatuses, rides[r].status \notin ActiveRideStatuses
    PROVE  Revives(t, r)
  <1>1. /\ pc[t] = "commit" /\ call[t].op \in Savers /\ call[t].ride \in Rides
        /\ rides[call[t].ride] \in RideRow
        /\ rides'[call[t].ride] = Merge(rides[call[t].ride], seen[t], Target(t))
        /\ \A s \in Rides \ {call[t].ride} : rides'[s] = rides[s]
    BY CommitFact
  <1>2. r = call[t].ride
    BY <1>1
  <1>3. rides[r].status \in {"COMPLETED", "CANCELLED"}
    BY <1>1, <1>2 DEF RideRow, RideStatus, ActiveRideStatuses
  <1>4. StaleSave(t, r)
    BY <1>3, FreshCommit DEF OnEdges, Edges, ActiveRideStatuses
  <1>5. rides'[r].status = Target(t).status
    BY <1>1, <1>2 DEF Merge
  <1>6. mem[t] \in RideRow
    BY <1>1 DEF IInv, TasksInv, LocalTypeOK, TaskInv, MemoryOK, PastRead
  <1>7. call[t].op \in {"accept", "start"}
    BY <1>1, <1>5, <1>6 DEF Savers, Target, Completing, Cancelling, RideRow, ActiveRideStatuses
  <1> QED
    BY <1>3, <1>4, <1>7 DEF Revives

\* One of the two rides of u was active before the step, the other becomes so in it.
LEMMA SecondBecomesActive ==
    ASSUME IInv, ReadFrom, MissedAppeared, NEW t \in Tasks,
           Begin(t) \/ AcquireLock(t) \/ Step(t) \/ Fail(t), NEW u \in Riders,
           NEW r \in Rides, NEW s \in Rides, r # s, ~Both(r, s),
           {r, s} \subseteq ActiveRidesOf(u)'
    PROVE  \/ InsertBehind(t, r, s) \/ InsertBehind(t, s, r)
           \/ Revives(t, r) \/ Revives(t, s)
  <1>1. /\ rides'[r].rider = u /\ rides'[r].status \in ActiveRideStatuses
        /\ rides'[s].rider = u /\ rides'[s].status \in ActiveRideStatuses
    BY DEF ActiveRidesOf, ActiveRideStatuses
  <1>2. \/ rides[r].rider # u \/ rides[r].status \notin ActiveRideStatuses
        \/ rides[s].rider # u \/ rides[s].status \notin ActiveRideStatuses
    BY DEF Both, ActiveRidesOf, ActiveRideStatuses
  <1>3. RequestInsert(t) \/ MergeCommit(t)
    BY <1>1, <1>2, OnlyCommitsWrite
  <1>4. CASE MergeCommit(t)
    <2>1. \A x \in Rides : rides'[x].rider = rides[x].rider
      <3>1. /\ call[t].ride \in Rides
            /\ rides'[call[t].ride] = Merge(rides[call[t].ride], seen[t], Target(t))
            /\ \A x \in Rides \ {call[t].ride} : rides'[x] = rides[x]
        BY <1>4, CommitFact
      <3>2. rides'[call[t].ride].rider = rides[call[t].ride].rider
        BY <3>1 DEF Merge
      <3> QED
        BY <3>1, <3>2
    <2> QED
      BY <1>1, <1>2, <1>4, <2>1, ActivatingCommit
  <1>5. CASE RequestInsert(t)
    <2>1. pc[t] = "insert" /\ pc'[t] = "publish"
      BY <1>5 DEF RequestInsert, Goto, IInv, TasksInv, LocalTypeOK
    <2>2. call[t].ride \in Rides
      BY <2>1 DEF IInv, TasksInv, TaskInv, CallShape, LabelsOf, NoCall
    <2>3. /\ rides'[call[t].ride].rider = call[t].user
          /\ \A x \in Rides \ {call[t].ride} : rides'[x] = rides[x]
      BY <1>5, <2>2 DEF RequestInsert, IInv, StoreInv, StoreTypeOK
    <2>4. ASSUME NEW x \in {r, s}, NEW y \in {r, s}, x # y, call[t].ride = x
          PROVE  InsertBehind(t, x, y)
      <3>1. rides[y] = rides'[y] /\ call[t].user = u
        BY <1>1, <2>3, <2>4
      <3>2. y \in ActiveRidesOf(call[t].user)
        BY <1>1, <3>1 DEF ActiveRidesOf, ActiveRideStatuses
      <3> QED
        BY <2>1, <2>4, <3>2 DEF MissedAppeared, InsertBehind
    <2>5. call[t].ride \in {r, s}
      BY <1>1, <1>2, <2>3
    <2> QED
      BY <2>4, <2>5
  <1> QED
    BY <1>3, <1>4, <1>5

\* However requests overlap and fail, a rider comes to have two active rides by nothing but
\* the two races: an INSERT behind another that the exists query could not see, and a stale
\* accept or start that brings a finished ride back.
THEOREM TwoActiveRidesTakeARace == WatchedSpec => SecondRideOnlyByRace
  <1>1. WatchedInit => MissedAppeared
    BY DEF WatchedInit, Init, MissedAppeared
  <1>2. IInv /\ MissedAppeared /\ [Next /\ Watch]_varsWithHistory => MissedAppeared'
    BY MissedAppearedStays
  <1>3. ASSUME IInv, ReadFrom, MissedAppeared, Next, NEW r \in Rides, NEW s \in Rides,
               r # s, Both(r, s)', ~Both(r, s)
        PROVE  \E t \in Tasks : \/ InsertBehind(t, r, s) \/ InsertBehind(t, s, r)
                                \/ Revives(t, r) \/ Revives(t, s)
    <2>1. PICK t \in Tasks : Begin(t) \/ AcquireLock(t) \/ Step(t) \/ Fail(t)
      BY <1>3 DEF Next
    <2>2. PICK u \in Riders : {r, s} \subseteq ActiveRidesOf(u)'
      BY <1>3 DEF Both
    <2> QED
      BY <1>3, <2>1, <2>2, SecondBecomesActive
  <1>4. IInv /\ ReadFrom /\ MissedAppeared /\ [Next /\ Watch]_varsWithHistory
            => [\A r, s \in Rides :
                   r # s /\ Both(r, s)' /\ ~Both(r, s)
                      => \E t \in Tasks : \/ InsertBehind(t, r, s) \/ InsertBehind(t, s, r)
                                          \/ Revives(t, r) \/ Revives(t, s)]_varsWithHistory
    BY <1>3
  <1> QED
    BY <1>1, <1>2, <1>4, WatchedIsSpec, Invariance, ObjectsAreFromTheirReads, PTL
       DEF WatchedSpec, SecondRideOnlyByRace

-----------------------------------------------------------------------------
(* The drivers of accepts, cancels and completes                           *)

\* A step that keeps a driver marked keeps the call and the object that name him.
LEMMA MarkedKeepsSubject ==
    ASSUME IInv, NEW t \in Tasks, Begin(t) \/ AcquireLock(t) \/ Step(t) \/ Fail(t),
           NEW u \in Tasks, Marked(u), Marked(u)'
    PROVE  UNCHANGED <<call[u], mem[u], Subject(u)>>
  <1>1. CASE u # t
    BY <1>1, OthersStand, OthersKeepMem DEF Subject
  <1>2. CASE u = t
    <2>1. ~Return(t)
      BY <1>2 DEF Return, Marked, IInv, TasksInv, LocalTypeOK
    <2>2. pc[t] \notin {"idle", "accept", "start", "complete", "cancel"}
      BY <1>2 DEF Marked
    <2>3. UNCHANGED <<call, mem>>
      BY <1>2, <2>1, <2>2
         DEF Begin, AcquireLock, Step, Fail, RequestCheck, RequestInsert, AcceptRead,
             AcceptCheckDriver, StartRead, CompleteRead, CancelRead, SelectDriver, SetRedis,
             SetAvailable, MergeSelect, MergeCommit, Publish, Keep, Goto
    <2> QED
      BY <1>2, <2>3 DEF Subject
  <1> QED
    BY <1>1, <1>2

\* A driver comes to be marked when his row is found, or made, as the request wants it.
LEMMA EnterMarked ==
    ASSUME IInv, NEW t \in Tasks, Begin(t) \/ AcquireLock(t) \/ Step(t) \/ Fail(t),
           ~Marked(t), Marked(t)'
    PROVE  available'[Subject(t)'] = Freed(call'[t].op) /\ pc'[t] = "redis"
  <1>l. /\ pc \in [Tasks -> Labels] /\ call \in [Tasks -> Call \cup {NoCall}]
        /\ mem \in [Tasks -> RideRow \cup {NoRow}]
        /\ available \in [Drivers -> BOOLEAN]
    BY DEF IInv, TasksInv, LocalTypeOK, StoreInv, StoreTypeOK
  <1>0. /\ call'[t].op \in {"accept", "cancel", "complete"}
        /\ pc'[t] \in {"redis", "select", "commit", "publish"}
        /\ call'[t].op # "complete" => pc'[t] # "publish" /\ Subject(t)' # None
        /\ call'[t].op = "complete" => pc'[t] \in {"redis", "publish"}
    BY DEF Marked
  <1>1. ~Return(t)
    BY <1>l, <1>0 DEF Return
  <1>2. ~Begin(t)
    <2> SUFFICES ASSUME Begin(t) PROVE FALSE
      OBVIOUS
    <2>1. PICK op \in Ops, r \in Rides \cup {None}, u \in Users :
             /\ call' = [call EXCEPT ![t] = [op |-> op, ride |-> r, user |-> u]]
             /\ pc' = [pc EXCEPT ![t] = Entry(op)]
      BY DEF Begin
    <2>2. call'[t].op = op /\ pc'[t] = Entry(op)
      BY <1>l, <2>1
    <2> QED
      BY <1>0, <2>2 DEF Entry
  <1>3. ~AcquireLock(t)
    BY <1>l, <1>0 DEF AcquireLock
  <1>4. ~Fail(t)
    BY <1>1 DEF Fail
  <1>5. \A l : Goto(t, l) => l = pc'[t] /\ UNCHANGED call
    BY <1>l DEF Goto
  <1>6. /\ pc[t] \in {"start", "complete", "cancel"} => pc[t] = call[t].op
        /\ pc[t] = "accept" => call[t].op = "accept"
        /\ pc[t] = "insert" => call[t].op = "request"
    BY DEF IInv, TasksInv, TaskInv, CallShape, LabelsOf, NoCall
  <1>7. ~CancelRead(t)
    <2> SUFFICES ASSUME CancelRead(t) PROVE FALSE
      OBVIOUS
    <2>1. /\ pc[t] = "cancel" /\ call'[t].op = "cancel"
          /\ mem'[t] = rides[call[t].ride]
          /\ pc'[t] = IF mem'[t].driver # None THEN "avail" ELSE "select"
      BY <1>1, <1>5, <1>6, <1>l DEF CancelRead, Keep, Goto
    <2> QED
      BY <1>0, <2>1 DEF Subject
  <1>8. ~MergeSelect(t) /\ ~SetRedis(t)
    <2>1. ASSUME MergeSelect(t) \/ SetRedis(t) PROVE UNCHANGED <<call, mem>>
      BY <1>1, <1>5, <2>1 DEF MergeSelect, SetRedis, stores
    <2>2. ASSUME MergeSelect(t) \/ SetRedis(t) PROVE Subject(t)' = Subject(t)
      BY <2>1, <2>2 DEF Subject
    <2>3. ~MergeSelect(t)
      <3> SUFFICES ASSUME MergeSelect(t) PROVE FALSE
        OBVIOUS
      <3>1. pc[t] = "select" /\ pc'[t] = "commit"
        BY <1>5 DEF MergeSelect
      <3> QED
        BY <1>0, <2>1, <2>2, <3>1 DEF Marked
    <2>4. ~SetRedis(t)
      <3> SUFFICES ASSUME SetRedis(t) PROVE FALSE
        OBVIOUS
      <3>1. pc[t] = "redis"
        BY DEF SetRedis
      <3>2. Subject(t) # None
        BY <3>1, SubjectType, NoneAssumption DEF IInv, Users
      <3> QED
        BY <1>0, <2>1, <3>1, <3>2 DEF Marked
    <2> QED
      BY <2>3, <2>4
  <1>9. ~MergeCommit(t)
    <2> SUFFICES ASSUME MergeCommit(t) PROVE FALSE
      OBVIOUS
    <2>1. /\ UNCHANGED call
          /\ pc'[t] = IF call[t].op = "complete" THEN "avail" ELSE "publish"
      BY <1>1, <1>5 DEF MergeCommit
    <2> QED
      BY <1>0, <2>1
  <1>10. SelectDriver(t) \/ SetAvailable(t)
    BY <1>0, <1>1, <1>2, <1>3, <1>4, <1>5, <1>6, <1>7, <1>8, <1>9
       DEF Step, RequestCheck, RequestInsert, AcceptRead, AcceptCheckDriver, StartRead, CompleteRead,
           Publish, Keep
  <1>11. /\ UNCHANGED <<call, mem>> /\ Subject(t)' = Subject(t) /\ Subject(t) \in Drivers
    <2>1. UNCHANGED <<call, mem>>
      BY <1>5, <1>10 DEF SelectDriver, SetAvailable
    <2> QED
      BY <1>10, <2>1, SubjectType DEF Subject, SelectDriver, SetAvailable, IInv
  <1>12. CASE SetAvailable(t)
    BY <1>5, <1>11, <1>12, <1>l DEF SetAvailable
  <1>13. CASE SelectDriver(t)
    <2>1. available[Subject(t)] = Freed(call[t].op) /\ pc'[t] = "redis"
      BY <1>0, <1>5, <1>13 DEF SelectDriver
    <2> QED
      BY <1>11, <1>13, <2>1 DEF SelectDriver, stores
  <1> QED
    BY <1>10, <1>12, <1>13

\* The SADD or SREM leaves its driver in the set, or out of it.
LEMMA LeaveRedis ==
    ASSUME IInv, NEW t \in Tasks, Begin(t) \/ AcquireLock(t) \/ Step(t) \/ Fail(t),
           Marked(t), Marked(t)', pc[t] = "redis", pc'[t] # "redis"
    PROVE  (Subject(t) \in redisAvailable') = Freed(call[t].op)
  <1>1. SetRedis(t)
    <2>1. ~Return(t)
      BY DEF Return, Marked, IInv, TasksInv, LocalTypeOK
    <2> QED
      BY <2>1 DEF Begin, AcquireLock, Step, Fail, RequestCheck, RequestInsert, AcceptRead,
                  AcceptCheckDriver, StartRead, CompleteRead, CancelRead, SelectDriver,
                  SetAvailable, MergeSelect, MergeCommit, Publish
  <1>2. Freed(call[t].op) \in BOOLEAN
    BY DEF Freed
  <1> QED
    BY <1>1, <1>2 DEF SetRedis

LEMMA MarkedOrUndoneStays ==
    ASSUME IInv, MarkedOrUndone, [Next /\ Watch]_varsWithHistory
    PROVE  MarkedOrUndone'
  <1>1. CASE UNCHANGED varsWithHistory
    BY <1>1 DEF varsWithHistory, vars, MarkedOrUndone, Marked, AsMarked, Subject
  <1>2. CASE Next /\ Watch
    <2> SUFFICES ASSUME NEW u \in Tasks, Marked(u)', u \notin undone'
                 PROVE  AsMarked(u)'
      BY DEF MarkedOrUndone
    <2>1. PICK t \in Tasks : Begin(t) \/ AcquireLock(t) \/ Step(t) \/ Fail(t)
      BY <1>2 DEF Next
    <2>2. CASE ~Marked(u)
      <3>1. t = u
        BY <2>1, <2>2, OthersStand, OthersKeepMem DEF Marked, Subject
      <3> QED
        BY <2>1, <2>2, <3>1, EnterMarked DEF AsMarked
    <2>3. CASE Marked(u)
      <3>1. u \notin undone /\ ~Undone(u)
        BY <1>2, <2>3 DEF Watch
      <3>2. AsMarked(u)
        BY <2>3, <3>1 DEF MarkedOrUndone
      <3>3. UNCHANGED <<call[u], Subject(u)>>
        BY <2>1, <2>3, MarkedKeepsSubject
      <3>4. available'[Subject(u)] = Freed(call[u].op)
        BY <3>1, <3>2 DEF Undone, AsMarked
      <3>5. CASE pc[u] # "redis"
        <4>1. (Subject(u) \in redisAvailable') = Freed(call[u].op)
          BY <3>1, <3>2, <3>5 DEF Undone, AsMarked
        <4> QED
          BY <3>3, <3>4, <4>1 DEF AsMarked
      <3>6. CASE pc[u] = "redis" /\ pc'[u] # "redis"
        <4>1. t = u
          BY <2>1, <3>6, OthersStand
        <4>2. (Subject(u) \in redisAvailable') = Freed(call[u].op)
          BY <2>1, <2>3, <3>6, <4>1, LeaveRedis
        <4> QED
          BY <3>3, <3>4, <4>2 DEF AsMarked
      <3>7. CASE pc'[u] = "redis"
        BY <3>3, <3>4, <3>7 DEF AsMarked
      <3> QED
        BY <3>5, <3>6, <3>7
    <2> QED
      BY <2>2, <2>3
  <1> QED
    BY <1>1, <1>2

LEMMA MarksLast == WatchedSpec => []MarkedOrUndone
  <1>1. WatchedInit => MarkedOrUndone
    BY DEF WatchedInit, Init, MarkedOrUndone, Marked
  <1>2. IInv /\ MarkedOrUndone /\ [Next /\ Watch]_varsWithHistory => MarkedOrUndone'
    BY MarkedOrUndoneStays
  <1> QED
    BY <1>1, <1>2, WatchedIsSpec, Invariance, PTL DEF WatchedSpec

\* Whatever overlaps an accept and whatever fails, its driver is out of both stores when
\* the ride becomes his, unless another request has put him back in between.
THEOREM BookedBeforeMatched == WatchedSpec => DriverIsBookedFirst
  <1>1. ASSUME IInv, MarkedOrUndone, NEW t \in Tasks,
               pc[t] = "commit", call[t].op = "accept", t \notin undone
        PROVE  ~available[call[t].user] /\ call[t].user \notin redisAvailable
    <2>1. call[t].user \in Drivers
      BY <1>1 DEF IInv, TasksInv, TaskInv, CallShape
    <2>2. Marked(t) /\ Subject(t) = call[t].user /\ ~Freed(call[t].op)
      BY <1>1, <2>1, NoneAssumption DEF Marked, Subject, Freed, Users
    <2>3. AsMarked(t)
      BY <1>1, <2>2 DEF MarkedOrUndone
    <2> QED
      BY <1>1, <2>2, <2>3 DEF AsMarked
  <1>2. IInv /\ MarkedOrUndone => \A t \in Tasks :
            pc[t] = "commit" /\ call[t].op = "accept" /\ pc'[t] = "publish" /\ t \notin undone
               => ~available[call[t].user] /\ call[t].user \notin redisAvailable
    BY <1>1
  <1> QED
    BY <1>2, MarksLast, WatchedIsSpec, Invariance, PTL DEF WatchedSpec, DriverIsBookedFirst

\* A complete holds the row of a ride whose driver it is.
LEMMA CompletesOwnStays ==
    ASSUME IInv, CompletesOwn, [Next]_vars PROVE CompletesOwn'
  <1>l. /\ pc \in [Tasks -> Labels] /\ call \in [Tasks -> Call \cup {NoCall}]
        /\ mem \in [Tasks -> RideRow \cup {NoRow}]
    BY DEF IInv, TasksInv, LocalTypeOK
  <1>1. CASE UNCHANGED vars
    BY <1>1 DEF vars, CompletesOwn, PastRead
  <1>2. CASE Next
    <2> SUFFICES ASSUME NEW u \in Tasks, PastRead(u)', call'[u].op = "complete"
                 PROVE  mem'[u].driver = call'[u].user
      BY DEF CompletesOwn
    <2>1. PICK t \in Tasks : Begin(t) \/ AcquireLock(t) \/ Step(t) \/ Fail(t)
      BY <1>2 DEF Next
    <2>2. CASE UNCHANGED <<call[u], mem[u]>> /\ PastRead(u)
      BY <2>2 DEF CompletesOwn
    <2>3. CASE u # t
      <3>1. mem'[u] = mem[u]
        BY <2>1, <2>3, OthersKeepMem
      <3> QED
        BY <2>1, <2>2, <2>3, <3>1, OthersStand DEF PastRead
    <2>4. CASE u = t
      <3>0. pc'[t] \in {"driver", "avail", "update", "redis", "select", "commit", "publish"}
        BY <2>4 DEF PastRead
      <3>1. ~Return(t)
        BY <3>0, <1>l DEF Return
      <3>2. ~Begin(t)
        <4> SUFFICES ASSUME Begin(t) PROVE FALSE
          OBVIOUS
        <4>1. PICK op \in Ops, r \in Rides \cup {None}, v \in Users :
                 /\ call' = [call EXCEPT ![t] = [op |-> op, ride |-> r, user |-> v]]
                 /\ pc' = [pc EXCEPT ![t] = Entry(op)]
          BY DEF Begin
        <4>2. call'[t].op = op /\ pc'[t] = Entry(op)
          BY <1>l, <4>1
        <4> QED
          BY <2>4, <3>0, <4>2 DEF Entry
      <3>3. ~AcquireLock(t) /\ ~Fail(t)
        BY <3>0, <3>1, <1>l DEF AcquireLock, Fail
      <3>4. Step(t) /\ UNCHANGED call
        <4>1. Step(t)
          BY <2>1, <3>2, <3>3
        <4> QED
          BY <3>1, <4>1 DEF Step, RequestCheck, RequestInsert, AcceptRead, AcceptCheckDriver, StartRead,
                  CompleteRead, CancelRead, SelectDriver, SetRedis, SetAvailable, MergeSelect,
                  MergeCommit, Publish, Keep, Goto
      <3>5. pc[t] \in LabelsOf("complete")
        BY <2>4, <3>4, <1>l DEF IInv, TasksInv, TaskInv, CallShape, NoCall
      <3>6. CASE pc[t] = "complete"
        <4>1. CompleteRead(t)
          BY <3>4, <3>6 DEF Step, RequestCheck, RequestInsert, AcceptRead, AcceptCheckDriver, StartRead,
                  CancelRead, SelectDriver, SetRedis, SetAvailable, MergeSelect, MergeCommit, Publish
        <4> QED
          BY <2>4, <3>1, <3>4, <4>1, <1>l DEF CompleteRead, Keep
      <3>7. CASE pc[t] # "complete"
        <4>1. PastRead(t)
          BY <2>4, <3>4, <3>5, <3>7 DEF PastRead, LabelsOf, Savers
        <4>2. UNCHANGED mem
          BY <3>1, <3>4, <3>5, <3>7 DEF Step, RequestCheck, RequestInsert, AcceptRead, AcceptCheckDriver,
                  StartRead, CompleteRead, CancelRead, SelectDriver, SetRedis, SetAvailable,
                  MergeSelect, MergeCommit, Publish, LabelsOf
        <4> QED
          BY <2>2, <2>4, <3>4, <4>1, <4>2
      <3> QED
        BY <3>6, <3>7
    <2> QED
      BY <2>3, <2>4
  <1> QED
    BY <1>1, <1>2

\* A cancel whose ride has the driver it read saves that driver; a complete that publishes
\* saves nothing more, and the row still has the driver of its object.
LEMMA EndKeepsTheDriver ==
    ASSUME IInv, NEW t \in Tasks, Begin(t) \/ AcquireLock(t) \/ Step(t) \/ Fail(t),
           Ends(t), rides[call[t].ride].driver = mem[t].driver
    PROVE  rides'[call[t].ride].driver = mem[t].driver
  <1>1. CASE UNCHANGED rides
    BY <1>1
  <1>2. CASE MergeCommit(t)
    <2>1. /\ pc[t] = "commit" /\ rides'[call[t].ride] = Merge(rides[call[t].ride], seen[t], Target(t))
      BY <1>2, CommitFact
    <2>2. call[t].op = "cancel"
      BY <2>1 DEF Ends
    <2>3. mem[t] \in RideRow
      BY <2>1, <2>2 DEF IInv, TasksInv, LocalTypeOK, TaskInv, MemoryOK, PastRead, Savers
    <2>4. Target(t).driver = mem[t].driver
      BY <2>2, <2>3 DEF Target, Cancelling, RideRow
    <2> QED
      BY <2>1, <2>4 DEF Merge
  <1>3. ~RequestInsert(t)
    BY DEF Ends, RequestInsert
  <1> QED
    BY <1>1, <1>2, <1>3
       DEF Begin, AcquireLock, Step, Fail, RequestCheck, AcceptRead, AcceptCheckDriver, StartRead,
           CompleteRead, CancelRead, SelectDriver, SetAvailable, SetRedis, MergeSelect, Publish, stores

\* Whatever overlaps a cancel or a complete and whatever fails, the driver it read is
\* available in both stores when the ride has ended, unless another request has marked him
\* in between.
THEOREM FreedByTheEnd == WatchedSpec => EndFreesTheDriver
  <1>1. Spec => []CompletesOwn
    <2>1. Init => CompletesOwn
      BY DEF Init, CompletesOwn, PastRead
    <2>2. IInv /\ CompletesOwn /\ [Next]_vars => CompletesOwn'
      BY CompletesOwnStays
    <2> QED
      BY <2>1, <2>2, Invariance, PTL DEF Spec
  <1>2. ASSUME IInv, MarkedOrUndone, CompletesOwn, NEW s \in Tasks,
               Begin(s) \/ AcquireLock(s) \/ Step(s) \/ Fail(s),
               NEW t \in Tasks, Ends(t), t \notin undone,
               rides[call[t].ride].driver = mem[t].driver,
               rides'[call[t].ride].driver # None
        PROVE  LET d == rides'[call[t].ride].driver IN available[d] /\ d \in redisAvailable
    <2>1. s = t
      BY <1>2, OthersStand DEF Ends
    <2>2. rides'[call[t].ride].driver = mem[t].driver
      BY <1>2, <2>1, EndKeepsTheDriver
    <2>3. Subject(t) = mem[t].driver
      BY <1>2 DEF Subject, Ends, CompletesOwn, PastRead, Savers
    <2>4. Marked(t) /\ Freed(call[t].op) /\ pc[t] # "redis"
      BY <1>2, <2>2, <2>3 DEF Ends, Marked, Freed
    <2>5. AsMarked(t)
      BY <1>2, <2>4 DEF MarkedOrUndone
    <2> QED
      BY <2>2, <2>3, <2>4, <2>5 DEF AsMarked
  <1>3. IInv /\ MarkedOrUndone /\ CompletesOwn /\ [Next /\ Watch]_varsWithHistory
            => [\A t \in Tasks :
                   Ends(t) /\ t \notin undone /\ rides[call[t].ride].driver = mem[t].driver
                      => LET d == rides'[call[t].ride].driver IN
                         d # None => available[d] /\ d \in redisAvailable]_varsWithHistory
    BY <1>2 DEF Next
  <1> QED
    BY <1>1, <1>3, MarksLast, WatchedIsSpec, Invariance, PTL DEF WatchedSpec, EndFreesTheDriver
=============================================================================
