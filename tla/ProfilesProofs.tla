--------------------------- MODULE ProfilesProofs ---------------------------
(***************************************************************************)
(* Proofs about Profiles.tla: the types of the tables, the five            *)
(* invariants of their rows and which saves can take a role or a mark, for *)
(* any number of users, rides, requests in flight and failures.  What makes *)
(* them inductive is in TaskOK: what a request half way through still      *)
(* knows about the tables it read.                                         *)
(***************************************************************************)
EXTENDS Profiles, TLAPS, FiniteSetTheorems

-----------------------------------------------------------------------------
(* The inductive invariant                                                 *)

\* Where a rate() has inserted its rating but has not yet credited it to the drivers row,
\* and to the users row.
ToDrivers == {"driver", "selectDriver", "commitDriver"}
ToUsers == ToDrivers \cup {"redis", "user", "selectUser", "commitUser"}

Holds(t, p, L) == call[t].op = "rate" /\ Rating(t) = p /\ pc[t] \in L

\* The ratings about u that no request has yet to credit: the most a count may be.
Credited(u, L) == {p \in About(u) : \A t \in Tasks : ~Holds(t, p, L)}
Credits(u, L) == Cardinality(Credited(u, L))

HoldOnce ==
    \A p \in Pairs : \A s, t \in Tasks : Holds(s, p, ToUsers) /\ Holds(t, p, ToUsers) => s = t

Stages(op) ==
    CASE op = "rate" -> {"exists", "insert"} \cup ToUsers
      [] op = "mark" -> ToDrivers \cup {"redis"}
      [] op = "register" -> {"profile", "selectDriver", "commitDriver", "redis", "selectUser", "commitUser"}
      [] op = "signup" -> {"name", "selectUser", "commitUser"}
      [] OTHER -> {"idle"}

StageOK(t) ==
    /\ call[t].op \in {"rate", "mark", "register", "signup", "none"}
    /\ pc[t] \in Stages(call[t].op)
    /\ pc[t] # "idle" => Subject(t) \in Users
    /\ call[t].op = "mark" => call[t].value \in BOOLEAN
    /\ call[t].op = "rate" => /\ Rating(t) \in Pairs
                              /\ pc[t] \in ToUsers => ratings[Rating(t)] > 0

\* A copy of a drivers row is no newer than the row.
HasDriver(t) == call[t].op \in {"rate", "mark"} /\ pc[t] \in {"selectDriver", "commitDriver", "redis"}
DriverCopyOK(t) ==
    HasDriver(t) => /\ mem[t] \in DriverRows
                    /\ drivers[Subject(t)] # NoRow
                    /\ mem[t].count <= Credits(Subject(t), ToDrivers)

\* Nor is a copy of a users row.
HasUser(t) == \/ call[t].op = "register"
              \/ call[t].op = "rate" /\ pc[t] \in {"selectUser", "commitUser"}
UserCopyOK(t) ==
    HasUser(t) => /\ mem[t] \in UserRows
                  /\ users[Subject(t)] # NoRow
                  /\ mem[t].count <= Credits(Subject(t), ToUsers)
                  /\ mem[t].role = "DRIVER" => drivers[Subject(t)] # NoRow

\* A registration that is past its profile.
ProfileOK(t) ==
    call[t].op = "register" /\ pc[t] \in {"redis", "selectUser", "commitUser"} => drivers[Subject(t)] # NoRow

\* What a SELECT saw.
SeenOK(t) ==
    /\ pc[t] = "commitDriver" => /\ seen[t] # NoRow => drivers[Subject(t)] # NoRow
                                 /\ call[t].op \in {"rate", "mark"} => seen[t] # NoRow
    /\ pc[t] = "commitUser" => /\ seen[t] # NoRow => users[Subject(t)] # NoRow
                               /\ call[t].op \in {"rate", "register"} => seen[t] # NoRow

TaskOK(t) == StageOK(t) /\ DriverCopyOK(t) /\ UserCopyOK(t) /\ ProfileOK(t) /\ SeenOK(t)

CountsOK ==
    \A u \in Users : /\ users[u] # NoRow => users[u].count <= Credits(u, ToUsers)
                     /\ drivers[u] # NoRow => drivers[u].count <= Credits(u, ToDrivers)

Shapes ==
    /\ DOMAIN pc = Tasks /\ DOMAIN call = Tasks /\ DOMAIN mem = Tasks /\ DOMAIN seen = Tasks
    /\ pc = [t \in Tasks |-> pc[t]] /\ call = [t \in Tasks |-> call[t]]
    /\ mem = [t \in Tasks |-> mem[t]] /\ seen = [t \in Tasks |-> seen[t]]

Tables == RatedOnce /\ RoleMeansProfile /\ DriverModeMeansProfile /\ OneAccountPerName

IInv == TypeOK /\ Shapes /\ Tables /\ CountsOK /\ HoldOnce /\ \A t \in Tasks : TaskOK(t)

-----------------------------------------------------------------------------
(* Rows, calls and cardinalities                                           *)

\* No row of either table is the model's "no row".
LEMMA NoRowIsNone ==
    NoRow \notin DriverRows /\ NoRow \notin UserRows
  <1>1. DOMAIN NoRow = {"none"}
    BY DEF NoRow
  <1>2. \A r \in DriverRows : DOMAIN r = {"available", "count"}
    BY DEF DriverRows
  <1>3. \A r \in UserRows : DOMAIN r = {"role", "count"}
    BY DEF UserRows
  <1> HIDE DEF NoRow
  <1>4. {"none"} # {"available", "count"} /\ {"none"} # {"role", "count"}
    OBVIOUS
  <1> QED
    BY <1>1, <1>2, <1>3, <1>4

\* What a call carries.
LEMMA CallsHaveOps ==
    ASSUME CallAssumption, NEW c \in Calls
    PROVE  /\ c.op \in {"rate", "mark", "register", "signup", "login"}
           /\ c.user \in Users
           /\ c.op = "rate" => c.ride \in Rides
           /\ c.op = "mark" => c.value \in BOOLEAN
  <1> DEFINE A == {[op |-> "rate", user |-> u, ride |-> r, value |-> FALSE] : r \in Rides, u \in Users}
             B == {[op |-> "mark", user |-> u, ride |-> None, value |-> v] : u \in Users, v \in BOOLEAN}
             C == [op : {"register", "signup", "login"}, user : Users, ride : {None}, value : {FALSE}]
  <1>0. AllCalls = A \cup B \cup C
    BY DEF AllCalls
  <1> HIDE DEF A, B, C
  <1>1. c \in A \/ c \in B \/ c \in C
    BY <1>0 DEF CallAssumption
  <1>2. CASE c \in A
    <2>1. PICK r \in Rides, u \in Users : c = [op |-> "rate", user |-> u, ride |-> r, value |-> FALSE]
      BY <1>2 DEF A
    <2> QED
      BY <2>1
  <1>3. CASE c \in B
    <2>1. PICK u \in Users, v \in BOOLEAN : c = [op |-> "mark", user |-> u, ride |-> None, value |-> v]
      BY <1>3 DEF B
    <2> QED
      BY <2>1
  <1>4. CASE c \in C
    <2>1. c.op \in {"register", "signup", "login"} /\ c.user \in Users
      BY <1>4 DEF C
    <2> QED
      BY <2>1
  <1> QED
    BY <1>1, <1>2, <1>3, <1>4

\* Sets of ratings are finite, and a larger one has no fewer.
LEMMA RatingsAreFinite ==
    ASSUME UserAssumption, RideAssumption, NEW S \in SUBSET Pairs
    PROVE  /\ IsFiniteSet(S) /\ Cardinality(S) \in Nat
           /\ \A T \in SUBSET S : Cardinality(T) \in Nat /\ Cardinality(T) <= Cardinality(S)
           /\ \A T \in SUBSET S : \A p \in S : p \notin T => Cardinality(T) + 1 <= Cardinality(S)
  <1>1. IsFiniteSet(Rides \X Users)
    BY FS_Product DEF UserAssumption, RideAssumption
  <1>2. S \subseteq Rides \X Users
    BY DEF Pairs
  <1>3. IsFiniteSet(S)
    BY <1>1, <1>2, FS_Subset
  <1>4. \A T \in SUBSET S : IsFiniteSet(T) /\ Cardinality(T) \in Nat /\ Cardinality(T) <= Cardinality(S)
    BY <1>3, FS_Subset, FS_CardinalityType
  <1>5. ASSUME NEW T \in SUBSET S, NEW p \in S, p \notin T
        PROVE  Cardinality(T) + 1 <= Cardinality(S)
    <2>1. T \cup {p} \in SUBSET S
      BY <1>5
    <2>2. Cardinality(T \cup {p}) = Cardinality(T) + 1
      BY <1>4, <1>5, FS_AddElement
    <2> QED
      BY <2>1, <2>2, <1>4
  <1> QED
    BY <1>3, <1>4, <1>5, FS_CardinalityType

\* Who is rated has an account id.
LEMMA OtherIsAUser ==
    ASSUME RideAssumption, NEW p \in Pairs
    PROVE  Other(p[1], p[2]) \in Users
  BY DEF RideAssumption, Pairs, Rateable, Other

-----------------------------------------------------------------------------
(* What no step of any request does                                        *)

Framed(t) == \A s \in Tasks \ {t} : /\ pc'[s] = pc[s] /\ call'[s] = call[s]
                                    /\ mem'[s] = mem[s] /\ seen'[s] = seen[s]

\* A rating becomes one to credit only when it is inserted.
KeepsHold(t) ==
    \A p \in Pairs : /\ Holds(t, p, ToDrivers)' => Holds(t, p, ToDrivers) \/ ratings[p] = 0
                     /\ Holds(t, p, ToUsers)' => Holds(t, p, ToUsers) \/ ratings[p] = 0

RowsStay ==
    /\ \A u \in Users : /\ users[u] # NoRow => users'[u] # NoRow
                        /\ drivers[u] # NoRow => drivers'[u] # NoRow
    /\ \A p \in Pairs : ratings[p] > 0 => ratings'[p] > 0

CreditsGrow ==
    \A u \in Users : /\ Credits(u, ToDrivers) \in Nat /\ Credits(u, ToUsers) \in Nat
                     /\ Credits(u, ToDrivers)' \in Nat /\ Credits(u, ToUsers)' \in Nat
                     /\ Credits(u, ToDrivers) <= Credits(u, ToDrivers)'
                     /\ Credits(u, ToUsers) <= Credits(u, ToUsers)'

LEMMA CreditsNeverShrink ==
    ASSUME UserAssumption, RideAssumption, IInv, NEW t \in Tasks, Framed(t), KeepsHold(t), RowsStay
    PROVE  CreditsGrow
  <1> SUFFICES ASSUME NEW u \in Users, NEW L \in {ToDrivers, ToUsers}
               PROVE  /\ Credits(u, L) \in Nat /\ Credits(u, L)' \in Nat
                      /\ Credits(u, L) <= Credits(u, L)'
    BY DEF CreditsGrow
  <1>1. Credited(u, L) \in SUBSET Pairs /\ Credited(u, L)' \in SUBSET Pairs
    BY DEF Credited, About
  <1>2. ASSUME NEW p \in Credited(u, L)
        PROVE  p \in Credited(u, L)'
    <2>1. p \in Pairs /\ ratings[p] > 0 /\ Other(p[1], p[2]) = u
      BY DEF Credited, About
    <2>2. p \in About(u)'
      BY <2>1 DEF About, RowsStay
    <2>3. \A s \in Tasks : ~Holds(s, p, L)
      BY DEF Credited
    <2>4. ~Holds(t, p, L)'
      BY <2>1, <2>3 DEF KeepsHold
    <2>5. \A s \in Tasks \ {t} : ~Holds(s, p, L)'
      BY <2>3 DEF Holds, Framed, Rating
    <2> QED
      BY <2>2, <2>4, <2>5 DEF Credited
  <1>3. Credited(u, L) \in SUBSET (Credited(u, L)')
    BY <1>2
  <1> QED
    BY <1>1, <1>3, RatingsAreFinite DEF Credits

\* A request that is done with a rating has one more to its credit.
LEMMA CreditsGain ==
    ASSUME UserAssumption, RideAssumption, IInv, NEW t \in Tasks, Framed(t), KeepsHold(t), RowsStay,
           NEW L \in {ToDrivers, ToUsers}, call[t].op = "rate", pc[t] \in L, pc'[t] \notin L,
           NEW u, u = Subject(t)
    PROVE  /\ Credits(u, L) \in Nat /\ Credits(u, L)' \in Nat
           /\ Credits(u, L) + 1 <= Credits(u, L)'
  <1>1. L \subseteq ToUsers
    BY DEF ToUsers
  <1>2. PICK p \in Pairs :
            p = Rating(t) /\ ratings[p] > 0 /\ u = Other(p[1], p[2])
    <2>1. StageOK(t) /\ pc[t] \in ToUsers
      BY <1>1 DEF IInv, TaskOK
    <2>2. pc[t] # "idle"
      BY <2>1 DEF ToUsers, ToDrivers
    <2> QED
      BY <2>1, <2>2 DEF StageOK, Rating, Subject, Ratee
  <1>3. Credited(u, L) \in SUBSET Pairs /\ Credited(u, L)' \in SUBSET Pairs
    BY DEF Credited, About
  <1>4. Holds(t, p, L) /\ Holds(t, p, ToUsers) /\ ~Holds(t, p, L)'
    BY <1>1, <1>2 DEF Holds
  <1>5. p \notin Credited(u, L)
    BY <1>4 DEF Credited
  <1>6. p \in Credited(u, L)'
    <2>1. p \in About(u)'
      BY <1>2 DEF About, RowsStay
    <2>2. \A s \in Tasks \ {t} : ~Holds(s, p, L)
      BY <1>1, <1>2, <1>4 DEF IInv, HoldOnce, Holds
    <2>3. \A s \in Tasks \ {t} : ~Holds(s, p, L)'
      BY <2>2 DEF Holds, Framed, Rating
    <2> QED
      BY <1>4, <2>1, <2>3 DEF Credited
  <1>7. ASSUME NEW q \in Credited(u, L)
        PROVE  q \in Credited(u, L)'
    <2>1. q \in Pairs /\ ratings[q] > 0 /\ Other(q[1], q[2]) = u
      BY DEF Credited, About
    <2>2. q \in About(u)'
      BY <2>1 DEF About, RowsStay
    <2>3. \A s \in Tasks : ~Holds(s, q, L)
      BY DEF Credited
    <2>4. ~Holds(t, q, L)'
      BY <2>1, <2>3 DEF KeepsHold
    <2>5. \A s \in Tasks \ {t} : ~Holds(s, q, L)'
      BY <2>3 DEF Holds, Framed, Rating
    <2> QED
      BY <2>2, <2>4, <2>5 DEF Credited
  <1>8. Credited(u, L) \in SUBSET (Credited(u, L)')
    BY <1>7
  <1> QED
    BY <1>3, <1>5, <1>6, <1>8, RatingsAreFinite DEF Credits

\* A step of one request leaves the others right, and no rating credited by two.
LEMMA OthersStayRight ==
    ASSUME UserAssumption, RideAssumption, IInv, NEW t \in Tasks, Framed(t), KeepsHold(t), RowsStay
    PROVE  HoldOnce' /\ \A s \in Tasks \ {t} : TaskOK(s)'
  <1>0. CreditsGrow
    BY CreditsNeverShrink
  <1>1. HoldOnce'
    <2> SUFFICES ASSUME NEW p \in Pairs, NEW r \in Tasks, NEW s \in Tasks,
                        Holds(r, p, ToUsers)', Holds(s, p, ToUsers)', r # s
                 PROVE  FALSE
      BY DEF HoldOnce
    <2>1. ASSUME NEW q \in Tasks \ {t}, Holds(q, p, ToUsers)'
          PROVE  Holds(q, p, ToUsers) /\ ratings[p] > 0
      <3>1. Holds(q, p, ToUsers)
        BY <2>1 DEF Holds, Framed, Rating
      <3> QED
        BY <3>1 DEF IInv, TaskOK, StageOK, Holds
    <2>2. TypeOK
      BY DEF IInv
    <2>3. ASSUME NEW q \in Tasks, Holds(q, p, ToUsers)'
          PROVE  Holds(q, p, ToUsers) \/ (q = t /\ ratings[p] = 0)
      BY <2>1, <2>3 DEF KeepsHold
    <2>4. Holds(r, p, ToUsers) /\ Holds(s, p, ToUsers)
      BY <2>1, <2>3
    <2> QED
      BY <2>4 DEF IInv, HoldOnce
  <1>2. ASSUME NEW s \in Tasks \ {t}
        PROVE  TaskOK(s)'
    <2>1. TaskOK(s)
      BY DEF IInv
    <2>2. /\ pc'[s] = pc[s] /\ call'[s] = call[s] /\ mem'[s] = mem[s] /\ seen'[s] = seen[s]
          /\ Subject(s)' = Subject(s) /\ Rating(s)' = Rating(s)
      BY DEF Framed, Subject, Ratee, Rating
    <2>3. StageOK(s)'
      BY <2>1, <2>2 DEF TaskOK, StageOK, RowsStay
    <2>4. pc[s] # "idle" => Subject(s) \in Users
      BY <2>1 DEF TaskOK, StageOK
    <2>5. DriverCopyOK(s)'
      <3> SUFFICES ASSUME HasDriver(s)
                   PROVE  DriverCopyOK(s)'
        BY <2>2 DEF DriverCopyOK, HasDriver
      <3>1. Subject(s) \in Users /\ mem[s] \in DriverRows /\ mem[s].count \in Nat
        BY <2>1, <2>4 DEF HasDriver, TaskOK, DriverCopyOK, DriverRows
      <3> QED
        BY <1>0, <2>1, <2>2, <3>1 DEF CreditsGrow, RowsStay, TaskOK, DriverCopyOK, Credits
    <2>6. UserCopyOK(s)'
      <3> SUFFICES ASSUME HasUser(s)
                   PROVE  UserCopyOK(s)'
        BY <2>2 DEF UserCopyOK, HasUser
      <3>1. pc[s] # "idle"
        BY <2>1 DEF HasUser, TaskOK, StageOK, Stages
      <3>2. Subject(s) \in Users /\ mem[s] \in UserRows /\ mem[s].count \in Nat
        BY <2>1, <2>4, <3>1 DEF TaskOK, UserCopyOK, UserRows
      <3> QED
        BY <1>0, <2>1, <2>2, <3>2 DEF CreditsGrow, RowsStay, TaskOK, UserCopyOK, Credits
    <2>7. ProfileOK(s)' /\ SeenOK(s)'
      BY <2>1, <2>2, <2>4 DEF TaskOK, ProfileOK, SeenOK, RowsStay
    <2> QED
      BY <2>3, <2>5, <2>6, <2>7 DEF TaskOK
  <1> QED
    BY <1>1, <1>2

-----------------------------------------------------------------------------
(* The shape of a step                                                     *)

\* A request that returns or fails owes nothing more.
LEMMA ReturnFrames ==
    ASSUME IInv, NEW t \in Tasks, Return(t)
    PROVE  Framed(t) /\ KeepsHold(t) /\ Shapes' /\ TaskOK(t)'
  <1>1. pc'[t] = "idle" /\ call'[t] = NoCall
    BY DEF Return, IInv, Shapes
  <1>2. call'[t].op = "none"
    BY <1>1 DEF NoCall
  <1>3. Framed(t)
    BY DEF Framed, Return, IInv, Shapes
  <1>4. KeepsHold(t)
    BY <1>2 DEF KeepsHold, Holds
  <1>5. Shapes'
    BY DEF Return, IInv, Shapes
  <1>6. TaskOK(t)'
    BY <1>1, <1>2 DEF TaskOK, StageOK, Stages, DriverCopyOK, HasDriver, UserCopyOK, HasUser, ProfileOK, SeenOK
  <1> QED
    BY <1>3, <1>4, <1>5, <1>6

\* A request that goes on, with a copy of a row in its hands or not.
LEMMA GotoFrames ==
    ASSUME IInv, NEW t \in Tasks, NEW l, Goto(t, l),
           UNCHANGED mem \/ \E row : mem' = [mem EXCEPT ![t] = row],
           UNCHANGED seen \/ \E row : seen' = [seen EXCEPT ![t] = row]
    PROVE  /\ Framed(t) /\ Shapes'
           /\ pc'[t] = l /\ call' = call /\ Subject(t)' = Subject(t) /\ Rating(t)' = Rating(t)
           /\ (l \in ToUsers => pc[t] \in ToUsers \/ (call[t].op = "rate" => ratings[Rating(t)] = 0))
              /\ (l \in ToDrivers => pc[t] \in ToDrivers \/ (call[t].op = "rate" => ratings[Rating(t)] = 0))
                  => KeepsHold(t)
  <1>1. call' = call /\ pc' = [pc EXCEPT ![t] = l]
    BY DEF Goto
  <1>2. pc'[t] = l /\ Subject(t)' = Subject(t) /\ Rating(t)' = Rating(t)
    BY <1>1 DEF IInv, Shapes, Subject, Ratee, Rating
  <1>3. Shapes'
    BY <1>1 DEF IInv, Shapes
  <1>4. Framed(t)
    BY <1>1 DEF IInv, Shapes, Framed
  <1>5. ASSUME l \in ToUsers => pc[t] \in ToUsers \/ (call[t].op = "rate" => ratings[Rating(t)] = 0),
               l \in ToDrivers => pc[t] \in ToDrivers \/ (call[t].op = "rate" => ratings[Rating(t)] = 0)
        PROVE  KeepsHold(t)
    BY <1>1, <1>2, <1>5 DEF KeepsHold, Holds
  <1> QED
    BY <1>1, <1>2, <1>3, <1>4, <1>5

\* A step that leaves the tables alone.
LEMMA QuietStep ==
    ASSUME UserAssumption, RideAssumption, IInv, NEW t \in Tasks, Framed(t), KeepsHold(t),
           UNCHANGED <<users, drivers, ratings, driverMode>>, redisAvailable' \subseteq Users,
           Shapes', TaskOK(t)'
    PROVE  IInv'
  <1>1. RowsStay
    BY DEF RowsStay
  <1>2. CreditsGrow /\ HoldOnce' /\ \A s \in Tasks \ {t} : TaskOK(s)'
    BY <1>1, CreditsNeverShrink, OthersStayRight
  <1>3. TypeOK' /\ Tables'
    BY DEF IInv, TypeOK, Tables, RatedOnce, RoleMeansProfile, MayDrive, DriverModeMeansProfile,
           OneAccountPerName
  <1>4. CountsOK'
    <2>1. \A u \in Users : /\ users[u] # NoRow => users[u].count \in Nat
                           /\ drivers[u] # NoRow => drivers[u].count \in Nat
      BY DEF IInv, TypeOK, UserRows, DriverRows
    <2> QED
      BY <1>2, <2>1 DEF IInv, CountsOK, CreditsGrow
  <1> QED
    BY <1>2, <1>3, <1>4 DEF IInv

-----------------------------------------------------------------------------
(* The steps that leave the tables alone                                   *)

LEMMA BeginKeeps ==
    ASSUME UserAssumption, RideAssumption, CallAssumption, IInv, NEW t \in Tasks, Begin(t)
    PROVE  IInv'
  <1>1. PICK c \in Calls :
            /\ c.op # "login" /\ Admitted(c)
            /\ call' = [call EXCEPT ![t] = c]
            /\ pc' = [pc EXCEPT ![t] = Entry(c.op)]
            /\ mem' = [mem EXCEPT ![t] = IF c.op = "register" THEN users[c.user] ELSE NoRow]
    BY DEF Begin
  <1>2. /\ c.op \in {"rate", "mark", "register", "signup"} /\ c.user \in Users
        /\ c.op = "rate" => c.ride \in Rides
        /\ c.op = "mark" => c.value \in BOOLEAN
    BY <1>1, CallsHaveOps
  <1>3. UNCHANGED <<users, drivers, redisAvailable, ratings, driverMode, seen>>
    BY DEF Begin, stores
  <1>4. call'[t] = c /\ pc'[t] = Entry(c.op)
        /\ (c.op = "register" => mem'[t] = users[c.user])
    BY <1>1 DEF IInv, Shapes
  <1>5. Shapes' /\ Framed(t)
    BY <1>1, <1>3 DEF IInv, Shapes, Framed
  <1>6. c.op = "rate" => Entry(c.op) = "exists" /\ <<c.ride, c.user>> \in Pairs
    BY <1>1, <1>2 DEF Entry, Admitted, Pairs
  <1>7. KeepsHold(t)
    BY <1>4, <1>6 DEF KeepsHold, Holds, ToUsers, ToDrivers
  <1>8. StageOK(t)'
    <2>1. Subject(t)' \in Users
      BY <1>2, <1>4, <1>6, OtherIsAUser DEF Subject, Ratee
    <2>2. Entry(c.op) \in Stages(c.op) /\ Entry(c.op) # "idle"
      BY <1>2 DEF Entry, Stages, ToUsers, ToDrivers
    <2>3. c.op = "rate" => Entry(c.op) \notin ToUsers
      BY <1>6 DEF ToUsers, ToDrivers
    <2> QED
      BY <1>2, <1>4, <1>6, <2>1, <2>2, <2>3 DEF StageOK, Rating
  <1>9. DriverCopyOK(t)' /\ ProfileOK(t)' /\ SeenOK(t)'
    BY <1>2, <1>4 DEF DriverCopyOK, HasDriver, ProfileOK, SeenOK, Entry
  <1>10. UserCopyOK(t)'
    <2> SUFFICES ASSUME c.op = "register"
                 PROVE  UserCopyOK(t)'
      BY <1>4, <1>6 DEF UserCopyOK, HasUser
    <2>1. RowsStay
      BY <1>3 DEF RowsStay
    <2>2. CreditsGrow
      BY <1>5, <1>7, <2>1, CreditsNeverShrink
    <2>3. Subject(t)' = c.user /\ users[c.user] # NoRow /\ users[c.user] \in UserRows
      BY <1>1, <1>2, <1>4 DEF Subject, Admitted, IInv, TypeOK
    <2>4. users[c.user].count <= Credits(c.user, ToUsers)' /\ users[c.user].count \in Nat
      BY <1>2, <2>2, <2>3 DEF IInv, CountsOK, CreditsGrow, UserRows
    <2>5. users[c.user].role = "DRIVER" => drivers[c.user] # NoRow
      BY <1>2, <2>3 DEF IInv, Tables, RoleMeansProfile, MayDrive
    <2> QED
      BY <1>3, <1>4, <2>3, <2>4, <2>5 DEF UserCopyOK, Credits
  <1> QED
    <2>1. TaskOK(t)'
      BY <1>8, <1>9, <1>10 DEF TaskOK
    <2> QED
      BY <1>3, <1>5, <1>7, <2>1, QuietStep DEF IInv, TypeOK

\* A step that goes on, with the tables as they were: what is left to see is that the
\* task is right where it arrives.
LEMMA QuietGoto ==
    ASSUME UserAssumption, RideAssumption, IInv, NEW t \in Tasks, NEW l, Goto(t, l),
           UNCHANGED mem \/ \E row : mem' = [mem EXCEPT ![t] = row],
           UNCHANGED seen \/ \E row : seen' = [seen EXCEPT ![t] = row],
           UNCHANGED <<users, drivers, ratings>>,
           l \in ToUsers => pc[t] \in ToUsers \/ call[t].op # "rate",
           l \in ToDrivers => pc[t] \in ToDrivers \/ call[t].op # "rate"
    PROVE  /\ Framed(t) /\ Shapes' /\ KeepsHold(t) /\ CreditsGrow
           /\ call' = call /\ Subject(t)' = Subject(t) /\ pc'[t] = l
           /\ pc[t] # "idle" /\ l \in Stages(call[t].op) \ {"idle"} => StageOK(t)'
           /\ pc[t] # "idle" => Subject(t) \in Users
           /\ UNCHANGED mem /\ (HasDriver(t)' => HasDriver(t)) => DriverCopyOK(t)'
           /\ UNCHANGED mem /\ (HasUser(t)' => HasUser(t)) => UserCopyOK(t)'
  <1>1. /\ Framed(t) /\ Shapes' /\ KeepsHold(t)
        /\ pc'[t] = l /\ call' = call /\ Subject(t)' = Subject(t) /\ Rating(t)' = Rating(t)
    BY GotoFrames
  <1>2. RowsStay
    BY DEF RowsStay
  <1>3. CreditsGrow
    BY <1>1, <1>2, CreditsNeverShrink
  <1>4. StageOK(t) /\ DriverCopyOK(t) /\ UserCopyOK(t)
    BY DEF IInv, TaskOK
  <1>5. pc[t] # "idle" => Subject(t) \in Users
    BY <1>4 DEF StageOK
  <1>6. pc[t] # "idle" /\ l \in Stages(call[t].op) \ {"idle"} => StageOK(t)'
    BY <1>1, <1>4 DEF StageOK
  <1>7. ASSUME UNCHANGED mem, HasDriver(t)' => HasDriver(t)
        PROVE  DriverCopyOK(t)'
    <2> SUFFICES ASSUME HasDriver(t)
                 PROVE  DriverCopyOK(t)'
      BY <1>7 DEF DriverCopyOK
    <2>1. mem[t].count \in Nat /\ Subject(t) \in Users
      BY <1>4, <1>5 DEF DriverCopyOK, DriverRows, HasDriver
    <2> QED
      BY <1>1, <1>3, <1>4, <1>7, <2>1 DEF DriverCopyOK, CreditsGrow, Credits
  <1>8. ASSUME UNCHANGED mem, HasUser(t)' => HasUser(t)
        PROVE  UserCopyOK(t)'
    <2> SUFFICES ASSUME HasUser(t)
                 PROVE  UserCopyOK(t)'
      BY <1>8 DEF UserCopyOK
    <2>1. pc[t] # "idle"
      BY <1>4 DEF HasUser, StageOK, Stages
    <2>2. mem[t].count \in Nat /\ Subject(t) \in Users
      BY <1>4, <1>5, <2>1 DEF UserCopyOK, UserRows
    <2> QED
      BY <1>1, <1>3, <1>4, <1>8, <2>2 DEF UserCopyOK, CreditsGrow, Credits
  <1> QED
    BY <1>1, <1>3, <1>5, <1>6, <1>7, <1>8

LEMMA RatingExistsKeeps ==
    ASSUME UserAssumption, RideAssumption, IInv, NEW t \in Tasks, RatingExists(t)
    PROVE  IInv'
  <1>0. /\ UNCHANGED <<users, drivers, redisAvailable, ratings, driverMode>> /\ redisAvailable \subseteq Users
        /\ pc[t] = "exists" /\ call[t].op = "rate"
    BY DEF RatingExists, stores, IInv, TypeOK, TaskOK, StageOK, Stages, ToUsers, ToDrivers
  <1>1. CASE Return(t)
    BY <1>0, <1>1, ReturnFrames, QuietStep
  <1>2. CASE Goto(t, "insert") /\ Local(t)
    <2>1. "insert" \notin ToUsers /\ "insert" \notin ToDrivers /\ "insert" \in Stages("rate") \ {"idle"}
      BY DEF ToUsers, ToDrivers, Stages
    <2>2. UNCHANGED mem /\ UNCHANGED seen
      BY <1>2 DEF Local
    <2>3. /\ Framed(t) /\ Shapes' /\ KeepsHold(t)
          /\ call' = call /\ pc'[t] = "insert" /\ StageOK(t)'
          /\ ((HasDriver(t)' => HasDriver(t)) => DriverCopyOK(t)')
          /\ ((HasUser(t)' => HasUser(t)) => UserCopyOK(t)')
      BY <1>0, <1>2, <2>1, <2>2, QuietGoto
    <2>4. TaskOK(t)'
      BY <1>0, <2>3 DEF TaskOK, HasDriver, HasUser, ProfileOK, SeenOK
    <2> QED
      BY <1>0, <2>3, <2>4, QuietStep
  <1> QED
    BY <1>1, <1>2 DEF RatingExists

LEMMA ReadDriverKeeps ==
    ASSUME UserAssumption, RideAssumption, IInv, NEW t \in Tasks, ReadDriver(t)
    PROVE  IInv'
  <1>0. /\ UNCHANGED <<users, drivers, redisAvailable, ratings, driverMode>> /\ redisAvailable \subseteq Users
        /\ pc[t] = "driver" /\ call[t].op \in {"rate", "mark"}
    BY DEF ReadDriver, stores, IInv, TypeOK, TaskOK, StageOK, Stages
  <1>1. CASE Return(t)
    BY <1>0, <1>1, ReturnFrames, QuietStep
  <1>2. CASE call[t].op = "rate" /\ Goto(t, "user") /\ Local(t)
    <2>1. "user" \in ToUsers /\ "user" \notin ToDrivers /\ "user" \in Stages("rate") \ {"idle"}
          /\ "driver" \in ToUsers
      BY DEF ToUsers, ToDrivers, Stages
    <2>2. UNCHANGED mem /\ UNCHANGED seen
      BY <1>2 DEF Local
    <2>3. /\ Framed(t) /\ Shapes' /\ KeepsHold(t)
          /\ call' = call /\ pc'[t] = "user" /\ StageOK(t)'
          /\ ((HasDriver(t)' => HasDriver(t)) => DriverCopyOK(t)')
          /\ ((HasUser(t)' => HasUser(t)) => UserCopyOK(t)')
      BY <1>0, <1>2, <2>1, <2>2, QuietGoto
    <2>4. TaskOK(t)'
      BY <1>0, <2>3 DEF TaskOK, HasDriver, HasUser, ProfileOK, SeenOK
    <2> QED
      BY <1>0, <2>3, <2>4, QuietStep
  <1>3. CASE /\ drivers[Subject(t)] # NoRow
             /\ Goto(t, "selectDriver") /\ mem' = [mem EXCEPT ![t] = drivers[Subject(t)]] /\ UNCHANGED seen
    <2>0. /\ Goto(t, "selectDriver")
          /\ UNCHANGED mem \/ \E row : mem' = [mem EXCEPT ![t] = row]
          /\ UNCHANGED seen \/ \E row : seen' = [seen EXCEPT ![t] = row]
          /\ UNCHANGED <<users, drivers, ratings>>
      BY <1>0, <1>3
    <2>1. /\ "selectDriver" \in Stages(call[t].op) \ {"idle"} /\ pc[t] # "idle"
          /\ pc[t] \in ToUsers /\ pc[t] \in ToDrivers
      BY <1>0 DEF ToUsers, ToDrivers, Stages
    <2>2. /\ Framed(t) /\ Shapes' /\ KeepsHold(t) /\ CreditsGrow /\ Subject(t) \in Users
          /\ call' = call /\ Subject(t)' = Subject(t) /\ pc'[t] = "selectDriver" /\ StageOK(t)'
      BY <1>0, <2>0, <2>1, QuietGoto
    <2>3. mem'[t] = drivers[Subject(t)] /\ drivers[Subject(t)] \in DriverRows
      BY <1>3, <2>2 DEF IInv, Shapes, TypeOK
    <2>4. drivers[Subject(t)].count <= Credits(Subject(t), ToDrivers)'
      BY <1>3, <2>2, <2>3 DEF IInv, CountsOK, CreditsGrow, DriverRows
    <2>5. DriverCopyOK(t)'
      BY <1>0, <1>3, <2>2, <2>3, <2>4 DEF DriverCopyOK, Credits
    <2>6. TaskOK(t)'
      BY <1>0, <2>2, <2>5 DEF TaskOK, UserCopyOK, HasUser, ProfileOK, SeenOK
    <2> QED
      BY <1>0, <2>2, <2>6, QuietStep
  <1> QED
    BY <1>0, <1>1, <1>2, <1>3 DEF ReadDriver

LEMMA CheckProfileKeeps ==
    ASSUME UserAssumption, RideAssumption, IInv, NEW t \in Tasks, CheckProfile(t)
    PROVE  IInv'
  <1>0. /\ UNCHANGED <<users, drivers, redisAvailable, ratings, driverMode>> /\ redisAvailable \subseteq Users
        /\ pc[t] = "profile" /\ call[t].op = "register"
    BY DEF CheckProfile, stores, IInv, TypeOK, TaskOK, StageOK, Stages, ToUsers, ToDrivers
  <1>1. CASE Return(t)
    BY <1>0, <1>1, ReturnFrames, QuietStep
  <1>2. CASE Goto(t, "selectDriver") /\ Local(t)
    <2>1. "selectDriver" \in Stages("register") \ {"idle"}
      BY DEF Stages
    <2>2. UNCHANGED mem /\ UNCHANGED seen
      BY <1>2 DEF Local
    <2>3. /\ Framed(t) /\ Shapes' /\ KeepsHold(t)
          /\ call' = call /\ pc'[t] = "selectDriver" /\ StageOK(t)'
          /\ ((HasDriver(t)' => HasDriver(t)) => DriverCopyOK(t)')
          /\ ((HasUser(t)' => HasUser(t)) => UserCopyOK(t)')
      BY <1>0, <1>2, <2>1, <2>2, QuietGoto
    <2>4. TaskOK(t)'
      BY <1>0, <2>3 DEF TaskOK, HasDriver, HasUser, ProfileOK, SeenOK
    <2> QED
      BY <1>0, <2>3, <2>4, QuietStep
  <1> QED
    BY <1>1, <1>2 DEF CheckProfile, AfterCheck

LEMMA SelectDriverKeeps ==
    ASSUME UserAssumption, RideAssumption, IInv, NEW t \in Tasks, SelectDriver(t)
    PROVE  IInv'
  <1>0. /\ UNCHANGED <<users, drivers, redisAvailable, ratings, driverMode>> /\ redisAvailable \subseteq Users
        /\ pc[t] = "selectDriver" /\ call[t].op \in {"rate", "mark", "register"}
        /\ Goto(t, "commitDriver") /\ UNCHANGED mem
        /\ seen' = [seen EXCEPT ![t] = drivers[Subject(t)]]
    BY DEF SelectDriver, stores, IInv, TypeOK, TaskOK, StageOK, Stages
  <1>1. /\ "commitDriver" \in Stages(call[t].op) \ {"idle"}
        /\ "selectDriver" \in ToUsers /\ "selectDriver" \in ToDrivers
    BY <1>0 DEF ToUsers, ToDrivers, Stages
  <1>6. \E row : seen' = [seen EXCEPT ![t] = row]
    BY <1>0
  <1>2. /\ Framed(t) /\ Shapes' /\ KeepsHold(t)
        /\ call' = call /\ Subject(t)' = Subject(t) /\ pc'[t] = "commitDriver" /\ StageOK(t)'
        /\ ((HasDriver(t)' => HasDriver(t)) => DriverCopyOK(t)')
        /\ ((HasUser(t)' => HasUser(t)) => UserCopyOK(t)')
    BY <1>0, <1>1, <1>6, QuietGoto
  <1>3. DriverCopyOK(t)' /\ UserCopyOK(t)' /\ ProfileOK(t)'
    BY <1>0, <1>2 DEF HasDriver, HasUser, ProfileOK
  <1>4. call[t].op \in {"rate", "mark"} => drivers[Subject(t)] # NoRow
    BY <1>0 DEF IInv, TaskOK, DriverCopyOK, HasDriver
  <1>5. SeenOK(t)'
    <2>1. seen'[t] = drivers[Subject(t)]
      BY <1>0 DEF IInv, Shapes
    <2> QED
      BY <1>0, <1>2, <1>4, <2>1 DEF SeenOK
  <1> QED
    BY <1>0, <1>2, <1>3, <1>5, QuietStep DEF TaskOK

LEMMA SetRedisKeeps ==
    ASSUME UserAssumption, RideAssumption, IInv, NEW t \in Tasks, SetRedis(t)
    PROVE  IInv'
  <1>0. /\ UNCHANGED <<users, drivers, ratings, driverMode>>
        /\ pc[t] = "redis" /\ call[t].op \in {"rate", "mark", "register"} /\ Subject(t) \in Users
    BY DEF SetRedis, IInv, TaskOK, StageOK, Stages
  <1>1. redisAvailable' \subseteq Users
    BY <1>0 DEF SetRedis, IInv, TypeOK
  <1>2. CASE Return(t)
    BY <1>0, <1>1, <1>2, ReturnFrames, QuietStep
  <1>3. CASE call[t].op = "rate" /\ Goto(t, "user") /\ mem' = [mem EXCEPT ![t] = NoRow] /\ UNCHANGED seen
    <2>0. /\ Goto(t, "user")
          /\ UNCHANGED mem \/ \E row : mem' = [mem EXCEPT ![t] = row]
          /\ UNCHANGED seen \/ \E row : seen' = [seen EXCEPT ![t] = row]
          /\ UNCHANGED <<users, drivers, ratings>>
      BY <1>0, <1>3
    <2>1. /\ "user" \notin ToDrivers /\ "user" \in Stages(call[t].op) \ {"idle"}
          /\ pc[t] \in ToUsers /\ pc[t] # "idle"
      BY <1>0, <1>3 DEF ToUsers, ToDrivers, Stages
    <2>2. /\ Framed(t) /\ Shapes' /\ KeepsHold(t)
          /\ call' = call /\ pc'[t] = "user" /\ StageOK(t)'
      BY <1>0, <2>0, <2>1, QuietGoto
    <2>3. TaskOK(t)'
      BY <1>3, <2>2 DEF TaskOK, DriverCopyOK, HasDriver, UserCopyOK, HasUser, ProfileOK, SeenOK
    <2> QED
      BY <1>0, <1>1, <2>2, <2>3, QuietStep
  <1>4. CASE call[t].op = "register" /\ Goto(t, "selectUser") /\ Local(t)
    <2>1. "selectUser" \in Stages("register") \ {"idle"}
      BY DEF Stages
    <2>2. UNCHANGED mem /\ UNCHANGED seen
      BY <1>4 DEF Local
    <2>3. /\ Framed(t) /\ Shapes' /\ KeepsHold(t)
          /\ call' = call /\ Subject(t)' = Subject(t) /\ pc'[t] = "selectUser" /\ StageOK(t)'
          /\ ((HasDriver(t)' => HasDriver(t)) => DriverCopyOK(t)')
          /\ ((HasUser(t)' => HasUser(t)) => UserCopyOK(t)')
      BY <1>0, <1>4, <2>1, <2>2, QuietGoto
    <2>4. ProfileOK(t)
      BY DEF IInv, TaskOK
    <2>5. TaskOK(t)'
      BY <1>0, <1>4, <2>3, <2>4 DEF TaskOK, HasDriver, HasUser, ProfileOK, SeenOK
    <2> QED
      BY <1>0, <1>1, <2>3, <2>5, QuietStep
  <1> QED
    BY <1>0, <1>2, <1>3, <1>4 DEF SetRedis

LEMMA CheckNameKeeps ==
    ASSUME UserAssumption, RideAssumption, IInv, NEW t \in Tasks, CheckName(t)
    PROVE  IInv'
  <1>0. /\ UNCHANGED <<users, drivers, redisAvailable, ratings, driverMode>> /\ redisAvailable \subseteq Users
        /\ pc[t] = "name" /\ call[t].op = "signup"
    BY DEF CheckName, stores, IInv, TypeOK, TaskOK, StageOK, Stages, ToUsers, ToDrivers
  <1>1. CASE Return(t)
    BY <1>0, <1>1, ReturnFrames, QuietStep
  <1>2. CASE Goto(t, "selectUser") /\ Local(t)
    <2>1. "selectUser" \in Stages("signup") \ {"idle"}
      BY DEF Stages
    <2>2. UNCHANGED mem /\ UNCHANGED seen
      BY <1>2 DEF Local
    <2>3. /\ Framed(t) /\ Shapes' /\ KeepsHold(t)
          /\ call' = call /\ pc'[t] = "selectUser" /\ StageOK(t)'
      BY <1>0, <1>2, <2>1, <2>2, QuietGoto
    <2>4. TaskOK(t)'
      BY <1>0, <2>3 DEF TaskOK, DriverCopyOK, HasDriver, UserCopyOK, HasUser, ProfileOK, SeenOK
    <2> QED
      BY <1>0, <2>3, <2>4, QuietStep
  <1> QED
    BY <1>1, <1>2 DEF CheckName

LEMMA ReadUserKeeps ==
    ASSUME UserAssumption, RideAssumption, IInv, NEW t \in Tasks, ReadUser(t)
    PROVE  IInv'
  <1>0. /\ UNCHANGED <<users, drivers, redisAvailable, ratings, driverMode>> /\ redisAvailable \subseteq Users
        /\ pc[t] = "user" /\ call[t].op = "rate"
    BY DEF ReadUser, stores, IInv, TypeOK, TaskOK, StageOK, Stages, ToDrivers
  <1>1. CASE Return(t)
    BY <1>0, <1>1, ReturnFrames, QuietStep
  <1>2. CASE /\ users[Subject(t)] # NoRow
             /\ Goto(t, "selectUser") /\ mem' = [mem EXCEPT ![t] = users[Subject(t)]] /\ UNCHANGED seen
    <2>1. /\ "selectUser" \notin ToDrivers /\ "selectUser" \in Stages(call[t].op) \ {"idle"}
          /\ pc[t] \in ToUsers /\ pc[t] # "idle"
      BY <1>0 DEF ToUsers, ToDrivers, Stages
    <2>2. /\ Goto(t, "selectUser")
          /\ UNCHANGED mem \/ \E row : mem' = [mem EXCEPT ![t] = row]
          /\ UNCHANGED seen \/ \E row : seen' = [seen EXCEPT ![t] = row]
          /\ UNCHANGED <<users, drivers, ratings>>
      BY <1>0, <1>2
    <2>3. /\ Framed(t) /\ Shapes' /\ KeepsHold(t) /\ CreditsGrow /\ Subject(t) \in Users
          /\ call' = call /\ Subject(t)' = Subject(t) /\ pc'[t] = "selectUser" /\ StageOK(t)'
      BY <1>0, <2>1, <2>2, QuietGoto
    <2>4. mem'[t] = users[Subject(t)] /\ users[Subject(t)] \in UserRows
      BY <1>2, <2>3 DEF IInv, Shapes, TypeOK
    <2>5. users[Subject(t)].count <= Credits(Subject(t), ToUsers)'
      BY <1>2, <2>3, <2>4 DEF IInv, CountsOK, CreditsGrow, UserRows
    <2>6. users[Subject(t)].role = "DRIVER" => drivers[Subject(t)] # NoRow
      BY <1>2, <2>3 DEF IInv, Tables, RoleMeansProfile, MayDrive
    <2>7. UserCopyOK(t)'
      BY <1>0, <1>2, <2>3, <2>4, <2>5, <2>6 DEF UserCopyOK, Credits
    <2>8. TaskOK(t)'
      BY <1>0, <2>3, <2>7 DEF TaskOK, DriverCopyOK, HasDriver, ProfileOK, SeenOK
    <2> QED
      BY <1>0, <2>3, <2>8, QuietStep
  <1> QED
    BY <1>0, <1>1, <1>2 DEF ReadUser

LEMMA SelectUserKeeps ==
    ASSUME UserAssumption, RideAssumption, IInv, NEW t \in Tasks, SelectUser(t)
    PROVE  IInv'
  <1>0. /\ UNCHANGED <<users, drivers, redisAvailable, ratings, driverMode>> /\ redisAvailable \subseteq Users
        /\ pc[t] = "selectUser" /\ call[t].op \in {"rate", "register", "signup"}
        /\ Goto(t, "commitUser") /\ UNCHANGED mem
        /\ seen' = [seen EXCEPT ![t] = users[Subject(t)]]
    BY DEF SelectUser, stores, IInv, TypeOK, TaskOK, StageOK, Stages, ToDrivers
  <1>1. /\ "commitUser" \in Stages(call[t].op) \ {"idle"} /\ "commitUser" \notin ToDrivers
        /\ pc[t] \in ToUsers
    BY <1>0 DEF ToUsers, ToDrivers, Stages
  <1>2. \E row : seen' = [seen EXCEPT ![t] = row]
    BY <1>0
  <1>3. /\ Framed(t) /\ Shapes' /\ KeepsHold(t)
        /\ call' = call /\ Subject(t)' = Subject(t) /\ pc'[t] = "commitUser" /\ StageOK(t)'
        /\ ((HasDriver(t)' => HasDriver(t)) => DriverCopyOK(t)')
        /\ ((HasUser(t)' => HasUser(t)) => UserCopyOK(t)')
    BY <1>0, <1>1, <1>2, QuietGoto
  <1>4. DriverCopyOK(t)' /\ UserCopyOK(t)'
    BY <1>0, <1>3 DEF HasDriver, HasUser
  <1>5. ProfileOK(t)'
    <2>1. ProfileOK(t)
      BY DEF IInv, TaskOK
    <2> QED
      BY <1>0, <1>3, <2>1 DEF ProfileOK
  <1>6. call[t].op \in {"rate", "register"} => users[Subject(t)] # NoRow
    BY <1>0 DEF IInv, TaskOK, UserCopyOK, HasUser
  <1>7. SeenOK(t)'
    <2>1. seen'[t] = users[Subject(t)]
      BY <1>0 DEF IInv, Shapes
    <2> QED
      BY <1>0, <1>3, <1>6, <2>1 DEF SeenOK
  <1> QED
    BY <1>0, <1>3, <1>4, <1>5, <1>7, QuietStep DEF TaskOK

LEMMA FailKeeps ==
    ASSUME UserAssumption, RideAssumption, IInv, NEW t \in Tasks, Fail(t)
    PROVE  IInv'
  <1>1. UNCHANGED <<users, drivers, redisAvailable, ratings, driverMode>> /\ redisAvailable \subseteq Users
    BY DEF Fail, stores, IInv, TypeOK
  <1> QED
    BY <1>1, ReturnFrames, QuietStep DEF Fail

-----------------------------------------------------------------------------
(* The steps that write the tables                                         *)

LEMMA InsertRatingKeeps ==
    ASSUME UserAssumption, RideAssumption, IInv, NEW t \in Tasks, InsertRating(t)
    PROVE  IInv'
  <1>0. /\ UNCHANGED <<users, drivers, redisAvailable, driverMode>> /\ redisAvailable \subseteq Users
        /\ pc[t] = "insert" /\ call[t].op = "rate" /\ Rating(t) \in Pairs
    BY DEF InsertRating, IInv, TypeOK, TaskOK, StageOK, Stages, ToUsers, ToDrivers
  <1>1. CASE Return(t) /\ UNCHANGED ratings
    BY <1>0, <1>1, ReturnFrames, QuietStep
  <1>2. CASE /\ ~(ratings[Rating(t)] > 0)
             /\ ratings' = [ratings EXCEPT ![Rating(t)] = @ + 1]
             /\ Goto(t, "driver") /\ Local(t)
    <2>1. ratings \in [Pairs -> Nat] /\ ratings[Rating(t)] = 0 /\ ratings'[Rating(t)] = 1
      BY <1>0, <1>2 DEF IInv, TypeOK
    <2>2. RowsStay
      BY <1>0, <1>2, <2>1 DEF RowsStay
    <2>3. /\ Framed(t) /\ Shapes' /\ KeepsHold(t)
          /\ pc'[t] = "driver" /\ call' = call /\ Subject(t)' = Subject(t) /\ Rating(t)' = Rating(t)
      BY <1>2, <2>1, GotoFrames DEF Local
    <2>4. CreditsGrow /\ HoldOnce' /\ \A s \in Tasks \ {t} : TaskOK(s)'
      BY <2>2, <2>3, CreditsNeverShrink, OthersStayRight
    <2>5. Subject(t) \in Users
      BY <1>0 DEF IInv, TaskOK, StageOK
    <2>6. StageOK(t)'
      BY <1>0, <2>1, <2>3, <2>5 DEF StageOK, Stages, ToUsers, ToDrivers
    <2>7. TaskOK(t)'
      BY <1>0, <2>3, <2>6 DEF TaskOK, DriverCopyOK, HasDriver, UserCopyOK, HasUser, ProfileOK, SeenOK
    <2>8. TypeOK'
      BY <1>0, <1>2, <2>1 DEF IInv, TypeOK
    <2>9. RatedOnce'
      BY <1>0, <1>2, <2>1 DEF IInv, Tables, RatedOnce
    <2>10. RoleMeansProfile' /\ DriverModeMeansProfile' /\ OneAccountPerName'
      BY <1>0 DEF IInv, Tables, RoleMeansProfile, MayDrive, DriverModeMeansProfile, OneAccountPerName
    <2>11. CountsOK'
      BY <1>0, <2>4 DEF IInv, CountsOK, CreditsGrow, TypeOK, UserRows, DriverRows
    <2> QED
      BY <2>3, <2>4, <2>7, <2>8, <2>9, <2>10, <2>11 DEF IInv, Tables
  <1> QED
    BY <1>0, <1>1, <1>2 DEF InsertRating, Duplicate

LEMMA CommitDriverKeeps ==
    ASSUME UserAssumption, RideAssumption, IInv, NEW t \in Tasks, CommitDriver(t)
    PROVE  IInv'
  <1> DEFINE old == seen[t]
             new == NewDriverRow(t)
  <1>0. /\ UNCHANGED <<users, redisAvailable, ratings, driverMode>> /\ redisAvailable \subseteq Users
        /\ pc[t] = "commitDriver" /\ call[t].op \in {"rate", "mark", "register"} /\ Subject(t) \in Users
    BY DEF CommitDriver, IInv, TypeOK, TaskOK, StageOK, Stages
  <1>d. PICK d \in Users : d = Subject(t)
    BY <1>0
  <1>1. CASE Return(t) /\ UNCHANGED drivers
    BY <1>0, <1>1, ReturnFrames, QuietStep
  <1>2. CASE /\ ~(old = NoRow /\ drivers[d] # NoRow)
             /\ drivers' = [drivers EXCEPT ![d] =
                    IF old = NoRow THEN new
                    ELSE [available |-> IF new.available # old.available THEN new.available ELSE @.available,
                          count     |-> IF new.count # old.count THEN new.count ELSE @.count]]
             /\ Goto(t, "redis") /\ UNCHANGED mem
             /\ seen' = [seen EXCEPT ![t] = NoRow]
    <2>1. /\ DriverCopyOK(t) /\ SeenOK(t) /\ StageOK(t) /\ drivers \in [Users -> DriverRows \cup {NoRow}]
      BY DEF IInv, TaskOK, TypeOK
    <2>2. call[t].op \in {"rate", "mark"} =>
              mem[t] \in DriverRows /\ old # NoRow /\ mem[t].count <= Credits(d, ToDrivers)
      BY <1>0, <1>d, <2>1 DEF DriverCopyOK, HasDriver, SeenOK
    <2>3. new \in DriverRows
      <3>1. CASE call[t].op = "rate"
        BY <2>2, <3>1 DEF NewDriverRow, Credit, DriverRows
      <3>2. CASE call[t].op = "mark"
        BY <2>1, <2>2, <3>2 DEF NewDriverRow, StageOK, DriverRows
      <3>3. CASE call[t].op = "register"
        BY <3>3 DEF NewDriverRow, NewDriver, DriverRows
      <3> QED
        BY <1>0, <3>1, <3>2, <3>3
    <2>4. old # NoRow => drivers[d] \in DriverRows
      BY <1>0, <1>d, <2>1 DEF SeenOK
    <2> HIDE DEF new, old
    <2>5. /\ \A u \in Users \ {d} : drivers'[u] = drivers[u]
          /\ drivers'[d] \in DriverRows
          /\ drivers'[d].count = new.count \/ (drivers[d] \in DriverRows /\ drivers'[d].count = drivers[d].count)
          /\ drivers' \in [Users -> DriverRows \cup {NoRow}]
      <3>1. CASE old = NoRow
        BY <1>0, <1>2, <2>1, <2>3, <3>1
      <3>2. CASE old # NoRow
        <4> DEFINE row == [available |-> IF new.available # old.available THEN new.available
                                                                          ELSE drivers[d].available,
                           count     |-> IF new.count # old.count THEN new.count ELSE drivers[d].count]
        <4>1. drivers' = [drivers EXCEPT ![d] = row]
          BY <1>2, <3>2
        <4>2. row \in DriverRows /\ (row.count = new.count \/ row.count = drivers[d].count)
          BY <2>3, <2>4, <3>2 DEF DriverRows
        <4> HIDE DEF row
        <4> QED
          BY <1>0, <2>1, <2>4, <3>2, <4>1, <4>2
      <3> QED
        BY <3>1, <3>2
    <2>6. \A u \in Users : drivers[u] # NoRow => drivers'[u] # NoRow
      BY <2>5, NoRowIsNone
    <2>7. RowsStay
      BY <1>0, <2>6 DEF RowsStay
    <2>8. \E row : seen' = [seen EXCEPT ![t] = row]
      BY <1>2
    <2>9. /\ Framed(t) /\ Shapes' /\ KeepsHold(t)
          /\ pc'[t] = "redis" /\ call' = call /\ Subject(t)' = Subject(t) /\ Rating(t)' = Rating(t)
      BY <1>0, <1>2, <2>8, GotoFrames DEF ToUsers, ToDrivers
    <2>10. CreditsGrow /\ HoldOnce' /\ \A s \in Tasks \ {t} : TaskOK(s)'
      BY <2>7, <2>9, CreditsNeverShrink, OthersStayRight
    <2>11. new.count <= Credits(d, ToDrivers)'
      <3>1. CASE call[t].op = "rate"
        <4>1. pc[t] \in ToDrivers /\ pc'[t] \notin ToDrivers
          BY <1>0, <2>9 DEF ToDrivers
        <4>2. /\ Credits(d, ToDrivers) \in Nat /\ Credits(d, ToDrivers)' \in Nat
              /\ Credits(d, ToDrivers) + 1 <= Credits(d, ToDrivers)'
          BY <2>7, <2>9, <3>1, <4>1, <1>d, CreditsGain
        <4>3. new.count = mem[t].count + 1 /\ mem[t].count \in Nat
          BY <2>2, <3>1 DEF new, NewDriverRow, Credit, DriverRows
        <4> QED
          BY <2>2, <3>1, <4>2, <4>3
      <3>2. CASE call[t].op = "mark"
        <4>1. new.count = mem[t].count /\ mem[t].count \in Nat
          BY <2>2, <3>2 DEF new, NewDriverRow, DriverRows
        <4> QED
          BY <1>0, <2>2, <2>10, <3>2, <4>1 DEF CreditsGrow
      <3>3. CASE call[t].op = "register"
        <4>1. new.count = 0
          BY <3>3 DEF new, NewDriverRow, NewDriver
        <4> QED
          BY <1>0, <2>10, <4>1 DEF CreditsGrow
      <3> QED
        BY <1>0, <3>1, <3>2, <3>3
    <2>12. CountsOK'
      <3>1. ASSUME NEW u \in Users, users[u] # NoRow
            PROVE  users[u].count <= Credits(u, ToUsers)'
        <4>1. users[u].count \in Nat /\ users[u].count <= Credits(u, ToUsers)
          BY <3>1 DEF IInv, CountsOK, TypeOK, UserRows
        <4> QED
          BY <2>10, <4>1 DEF CreditsGrow
      <3>2. ASSUME NEW u \in Users, drivers[u] # NoRow
            PROVE  drivers[u].count <= Credits(u, ToDrivers)'
        <4>1. drivers[u].count \in Nat /\ drivers[u].count <= Credits(u, ToDrivers)
          BY <2>1, <3>2 DEF IInv, CountsOK, DriverRows
        <4> QED
          BY <2>10, <4>1 DEF CreditsGrow
      <3>3. ASSUME NEW u \in Users, drivers'[u] # NoRow
            PROVE  drivers'[u].count <= Credits(u, ToDrivers)'
        <4>1. CASE u = d
          BY <1>0, <2>5, <2>11, <3>2, <4>1, NoRowIsNone
        <4>2. CASE u # d
          BY <2>5, <3>2, <3>3, <4>2
        <4> QED
          BY <4>1, <4>2
      <3> QED
        BY <1>0, <3>1, <3>3 DEF CountsOK, Credits
    <2>13. TypeOK'
      BY <1>0, <2>5 DEF IInv, TypeOK
    <2>14. Tables'
      BY <1>0, <2>6 DEF IInv, TypeOK, Tables, RatedOnce, RoleMeansProfile, MayDrive, DriverModeMeansProfile,
             OneAccountPerName
    <2>15. StageOK(t)'
      BY <1>0, <2>1, <2>9 DEF StageOK, Stages, ToUsers, ToDrivers
    <2>16. drivers'[d] # NoRow
      BY <2>5, NoRowIsNone
    <2>17. DriverCopyOK(t)'
      <3> SUFFICES ASSUME call[t].op \in {"rate", "mark"}
                   PROVE  DriverCopyOK(t)'
        BY <2>9 DEF DriverCopyOK, HasDriver
      <3>1. mem[t].count \in Nat /\ mem[t].count <= Credits(d, ToDrivers)
        BY <2>2 DEF DriverRows
      <3>2. mem[t].count <= Credits(d, ToDrivers)'
        BY <1>0, <2>10, <3>1 DEF CreditsGrow
      <3> QED
        BY <1>2, <1>d, <2>2, <2>9, <2>16, <3>2 DEF DriverCopyOK, Credits
    <2>18. UserCopyOK(t)'
      <3> SUFFICES ASSUME call[t].op = "register"
                   PROVE  UserCopyOK(t)'
        BY <2>9 DEF UserCopyOK, HasUser
      <3>1. /\ mem[t] \in UserRows /\ users[d] # NoRow /\ mem[t].count <= Credits(d, ToUsers)
            /\ mem[t].count \in Nat
        BY <1>d DEF IInv, TaskOK, UserCopyOK, HasUser, UserRows
      <3>2. mem[t].count <= Credits(d, ToUsers)'
        BY <1>0, <2>10, <3>1 DEF CreditsGrow
      <3> QED
        BY <1>0, <1>2, <1>d, <2>9, <2>16, <3>1, <3>2 DEF UserCopyOK, Credits
    <2>19. ProfileOK(t)' /\ SeenOK(t)'
      BY <1>d, <2>9, <2>16 DEF ProfileOK, SeenOK
    <2> QED
      BY <2>9, <2>10, <2>12, <2>13, <2>14, <2>15, <2>17, <2>18, <2>19 DEF IInv, TaskOK
  <1> QED
    BY <1>1, <1>2, <1>d DEF CommitDriver

LEMMA CommitUserKeeps ==
    ASSUME UserAssumption, RideAssumption, IInv, NEW t \in Tasks, CommitUser(t)
    PROVE  IInv'
  <1> DEFINE old == seen[t]
             new == NewUserRow(t)
  <1>0. /\ UNCHANGED <<drivers, redisAvailable, ratings>> /\ redisAvailable \subseteq Users
        /\ pc[t] = "commitUser" /\ call[t].op \in {"rate", "register", "signup"} /\ Subject(t) \in Users
        /\ Return(t)
    BY DEF CommitUser, IInv, TypeOK, TaskOK, StageOK, Stages, ToDrivers
  <1>u. PICK u \in Users : u = Subject(t)
    BY <1>0
  <1>f. Framed(t) /\ KeepsHold(t) /\ Shapes' /\ TaskOK(t)'
    BY <1>0, ReturnFrames
  <1>1. CASE UNCHANGED <<users, driverMode>>
    BY <1>0, <1>1, <1>f, QuietStep
  <1>2. CASE /\ ~(old = NoRow /\ ~UniqueName(u))
             /\ users' = [users EXCEPT ![u] =
                    IF old = NoRow THEN new
                    ELSE [role  |-> IF new.role # old.role THEN new.role ELSE @.role,
                          count |-> IF new.count # old.count THEN new.count ELSE @.count]]
             /\ driverMode' = IF call[t].op = "register" THEN driverMode \cup {u} ELSE driverMode
    <2>1. /\ UserCopyOK(t) /\ SeenOK(t) /\ ProfileOK(t) /\ users \in [Users -> UserRows \cup {NoRow}]
      BY DEF IInv, TaskOK, TypeOK
    <2>2. call[t].op \in {"rate", "register"} =>
              /\ mem[t] \in UserRows /\ old # NoRow /\ mem[t].count <= Credits(u, ToUsers)
              /\ mem[t].role = "DRIVER" => drivers[u] # NoRow
      BY <1>0, <1>u, <2>1 DEF UserCopyOK, HasUser, SeenOK
    <2>3. new \in UserRows /\ (new.role = "DRIVER" => drivers[u] # NoRow)
      <3>1. CASE call[t].op = "rate"
        BY <2>2, <3>1 DEF NewUserRow, Credit, UserRows, Roles
      <3>2. CASE call[t].op = "register"
        <4>1. drivers[u] # NoRow
          BY <1>0, <1>u, <2>1, <3>2 DEF ProfileOK
        <4> QED
          BY <2>2, <3>2, <4>1 DEF NewUserRow, UserRows, Roles
      <3>3. CASE call[t].op = "signup"
        BY <3>3 DEF NewUserRow, NewUser, UserRows, Roles
      <3> QED
        BY <1>0, <3>1, <3>2, <3>3
    <2>4. old # NoRow => users[u] \in UserRows
      BY <1>0, <1>u, <2>1 DEF SeenOK
    <2>5. users[u] \in UserRows /\ users[u].role = "DRIVER" => drivers[u] # NoRow
      BY NoRowIsNone DEF IInv, Tables, RoleMeansProfile, MayDrive
    <2> HIDE DEF new, old
    <2>6. /\ \A v \in Users \ {u} : users'[v] = users[v]
          /\ users'[u] \in UserRows
          /\ users'[u].role = "DRIVER" => drivers[u] # NoRow
          /\ users'[u].count = new.count \/ (users[u] \in UserRows /\ users'[u].count = users[u].count)
          /\ users' \in [Users -> UserRows \cup {NoRow}]
      <3>1. CASE old = NoRow
        BY <1>2, <2>1, <2>3, <3>1
      <3>2. CASE old # NoRow
        <4> DEFINE row == [role  |-> IF new.role # old.role THEN new.role ELSE users[u].role,
                           count |-> IF new.count # old.count THEN new.count ELSE users[u].count]
        <4>1. users' = [users EXCEPT ![u] = row]
          BY <1>2, <3>2
        <4>2. /\ row \in UserRows /\ (row.count = new.count \/ row.count = users[u].count)
              /\ row.role = "DRIVER" => drivers[u] # NoRow
          BY <2>3, <2>4, <2>5, <3>2 DEF UserRows
        <4> HIDE DEF row
        <4> QED
          BY <2>1, <2>4, <3>2, <4>1, <4>2
      <3> QED
        BY <3>1, <3>2
    <2>7. \A v \in Users : users[v] # NoRow => users'[v] # NoRow
      BY <2>6, NoRowIsNone
    <2>8. RowsStay
      BY <1>0, <2>7 DEF RowsStay
    <2>9. CreditsGrow /\ HoldOnce' /\ \A s \in Tasks \ {t} : TaskOK(s)'
      BY <1>f, <2>8, CreditsNeverShrink, OthersStayRight
    <2>10. new.count <= Credits(u, ToUsers)'
      <3>1. CASE call[t].op = "rate"
        <4>1. pc[t] \in ToUsers /\ pc'[t] \notin ToUsers
          BY <1>0 DEF ToUsers, ToDrivers, Return, IInv, Shapes
        <4>2. /\ Credits(u, ToUsers) \in Nat /\ Credits(u, ToUsers)' \in Nat
              /\ Credits(u, ToUsers) + 1 <= Credits(u, ToUsers)'
          BY <1>f, <1>u, <2>8, <3>1, <4>1, CreditsGain
        <4>3. new.count = mem[t].count + 1 /\ mem[t].count \in Nat
          BY <2>2, <3>1 DEF new, NewUserRow, Credit, UserRows
        <4> QED
          BY <2>2, <3>1, <4>2, <4>3
      <3>2. CASE call[t].op = "register"
        <4>1. new.count = mem[t].count /\ mem[t].count \in Nat
          BY <2>2, <3>2 DEF new, NewUserRow, UserRows
        <4> QED
          BY <2>2, <2>9, <3>2, <4>1 DEF CreditsGrow
      <3>3. CASE call[t].op = "signup"
        <4>1. new.count = 0
          BY <3>3 DEF new, NewUserRow, NewUser
        <4> QED
          BY <2>9, <4>1 DEF CreditsGrow
      <3> QED
        BY <1>0, <3>1, <3>2, <3>3
    <2>11. CountsOK'
      <3>1. ASSUME NEW v \in Users, drivers[v] # NoRow
            PROVE  drivers[v].count <= Credits(v, ToDrivers)'
        <4>1. drivers[v].count \in Nat /\ drivers[v].count <= Credits(v, ToDrivers)
          BY <3>1 DEF IInv, CountsOK, TypeOK, DriverRows
        <4> QED
          BY <2>9, <4>1 DEF CreditsGrow
      <3>2. ASSUME NEW v \in Users, users[v] # NoRow
            PROVE  users[v].count <= Credits(v, ToUsers)'
        <4>1. users[v].count \in Nat /\ users[v].count <= Credits(v, ToUsers)
          BY <2>1, <3>2 DEF IInv, CountsOK, UserRows
        <4> QED
          BY <2>9, <4>1 DEF CreditsGrow
      <3>3. ASSUME NEW v \in Users, users'[v] # NoRow
            PROVE  users'[v].count <= Credits(v, ToUsers)'
        <4>1. CASE v = u
          BY <2>6, <2>10, <3>2, <4>1, NoRowIsNone
        <4>2. CASE v # u
          BY <2>6, <3>2, <3>3, <4>2
        <4> QED
          BY <4>1, <4>2
      <3> QED
        BY <1>0, <3>1, <3>3 DEF CountsOK, Credits
    <2>12. TypeOK'
      BY <1>0, <1>2, <2>6 DEF IInv, TypeOK
    <2>13. RatedOnce'
      BY <1>0 DEF IInv, Tables, RatedOnce
    <2>14. RoleMeansProfile'
      BY <1>0, <2>6 DEF IInv, Tables, RoleMeansProfile, MayDrive
    <2>15. DriverModeMeansProfile'
      <3>1. call[t].op = "register" => drivers[u] # NoRow
        BY <1>0, <1>u, <2>1 DEF ProfileOK
      <3> QED
        BY <1>0, <1>2, <3>1 DEF IInv, Tables, DriverModeMeansProfile
    <2>16. OneAccountPerName'
      <3>1. CASE old = NoRow
        <4>1. \A v \in Users \ {u} : users[v] # NoRow => Name[v] # Name[u]
          BY <1>2, <3>1 DEF UniqueName, NameTaken
        <4> QED
          BY <2>6, <4>1 DEF IInv, Tables, OneAccountPerName
      <3>2. CASE old # NoRow
        <4>1. users[u] # NoRow
          BY <2>4, <3>2, NoRowIsNone
        <4> QED
          BY <2>6, <4>1 DEF IInv, Tables, OneAccountPerName
      <3> QED
        BY <3>1, <3>2
    <2> QED
      BY <1>f, <2>9, <2>11, <2>12, <2>13, <2>14, <2>15, <2>16 DEF IInv, Tables
  <1> QED
    BY <1>0, <1>1, <1>2, <1>u DEF CommitUser

\* Logins, expiring tokens and stutters move no request.
LEMMA UnmovedKeeps ==
    ASSUME IInv, UNCHANGED <<users, drivers, redisAvailable, ratings, pc, call, mem, seen>>,
           driverMode' \subseteq Users, DriverModeMeansProfile'
    PROVE  IInv'
  <1>1. \A u \in Users : /\ Credits(u, ToUsers)' = Credits(u, ToUsers)
                         /\ Credits(u, ToDrivers)' = Credits(u, ToDrivers)
    BY DEF Credits, Credited, About, Holds, Rating
  <1>2. TypeOK' /\ Shapes' /\ Tables' /\ HoldOnce'
    BY DEF IInv, TypeOK, Shapes, Tables, RatedOnce, RoleMeansProfile, MayDrive, OneAccountPerName, HoldOnce,
           Holds, Rating
  <1>3. CountsOK'
    BY <1>1 DEF IInv, CountsOK
  <1>4. ASSUME NEW t \in Tasks
        PROVE  TaskOK(t)'
    <2>1. TaskOK(t) /\ Subject(t)' = Subject(t) /\ Rating(t)' = Rating(t)
      BY DEF IInv, Subject, Ratee, Rating
    <2>2. StageOK(t)' /\ ProfileOK(t)' /\ SeenOK(t)'
      BY <2>1 DEF TaskOK, StageOK, ProfileOK, SeenOK
    <2>3. Credits(Subject(t), ToUsers)' = Credits(Subject(t), ToUsers)
          /\ Credits(Subject(t), ToDrivers)' = Credits(Subject(t), ToDrivers)
      BY <2>1 DEF Credits, Credited, About, Holds, Rating
    <2>4. DriverCopyOK(t)' /\ UserCopyOK(t)'
      BY <2>1, <2>3 DEF TaskOK, DriverCopyOK, HasDriver, UserCopyOK, HasUser
    <2> QED
      BY <2>2, <2>4 DEF TaskOK
  <1> QED
    BY <1>2, <1>3, <1>4 DEF IInv

-----------------------------------------------------------------------------
(* The theorems                                                            *)

LEMMA InitInv ==
    ASSUME UserAssumption, RideAssumption, Init
    PROVE  IInv
  <1>1. TypeOK
    <2>1. NewUser \in UserRows /\ [role |-> "DRIVER", count |-> 0] \in UserRows /\ NewDriver \in DriverRows
      BY DEF NewUser, UserRows, NewDriver, DriverRows, Roles
    <2> QED
      BY <2>1 DEF Init, TypeOK
  <1>2. Shapes
    BY DEF Init, Shapes
  <1>3. \A t \in Tasks : pc[t] = "idle" /\ call[t] = NoCall /\ call[t].op = "none"
    BY DEF Init, NoCall
  <1>4. HoldOnce
    BY <1>3 DEF HoldOnce, Holds, ToUsers, ToDrivers
  <1>5. \A t \in Tasks : TaskOK(t)
    BY <1>3 DEF TaskOK, StageOK, Stages, DriverCopyOK, HasDriver, UserCopyOK, HasUser, ProfileOK, SeenOK
  <1>6. CountsOK
    <2>1. \A u \in Users : /\ users[u] # NoRow => users[u].count = 0
                           /\ drivers[u] # NoRow => drivers[u].count = 0
      BY DEF Init, NewUser, NewDriver
    <2>2. \A u \in Users : Credited(u, ToUsers) \in SUBSET Pairs /\ Credited(u, ToDrivers) \in SUBSET Pairs
      BY DEF Credited, About
    <2>3. \A u \in Users : Credits(u, ToUsers) \in Nat /\ Credits(u, ToDrivers) \in Nat
      BY <2>2, RatingsAreFinite DEF Credits
    <2> QED
      BY <2>1, <2>3 DEF CountsOK
  <1>7. RatedOnce /\ DriverModeMeansProfile
    BY DEF Init, RatedOnce, DriverModeMeansProfile
  <1>8. RoleMeansProfile
    <2>1. NewDriver # NoRow
      <3>1. NewDriver \in DriverRows
        BY DEF NewDriver, DriverRows
      <3> QED
        BY <3>1, NoRowIsNone
    <2>2. \A u \in Users : MayDrive(u) => u \in Registered
      BY DEF Init, MayDrive, NewUser
    <2> QED
      BY <2>1, <2>2 DEF Init, RoleMeansProfile
  <1>9. OneAccountPerName
    <2>1. \A u \in Users : users[u] # NoRow => u \in Members
      BY DEF Init, UserAssumption
    <2> QED
      BY <2>1 DEF OneAccountPerName, UserAssumption
  <1> QED
    BY <1>1, <1>2, <1>4, <1>5, <1>6, <1>7, <1>8, <1>9 DEF IInv, Tables

LEMMA StepInv ==
    ASSUME UserAssumption, RideAssumption, CallAssumption, IInv, [Next]_vars
    PROVE  IInv'
  <1>1. CASE Login
    <2>1. PICK u \in Users : MayDrive(u) /\ driverMode' = driverMode \cup {u}
      BY <1>1, CallsHaveOps DEF Login
    <2>2. drivers[u] # NoRow
      BY <2>1 DEF IInv, Tables, RoleMeansProfile
    <2>3. DriverModeMeansProfile' /\ driverMode' \subseteq Users
      BY <1>1, <2>1, <2>2 DEF Login, IInv, Tables, DriverModeMeansProfile, TypeOK
    <2> QED
      BY <1>1, <2>3, UnmovedKeeps DEF Login
  <1>2. CASE Expire
    BY <1>2, UnmovedKeeps DEF Expire, IInv, Tables, DriverModeMeansProfile, TypeOK
  <1>3. CASE UNCHANGED vars
    BY <1>3, UnmovedKeeps DEF vars, stores, IInv, Tables, DriverModeMeansProfile, TypeOK
  <1>4. ASSUME NEW t \in Tasks,
               \/ Begin(t) \/ RatingExists(t) \/ InsertRating(t)
               \/ ReadDriver(t) \/ CheckProfile(t) \/ SelectDriver(t) \/ CommitDriver(t) \/ SetRedis(t)
               \/ CheckName(t) \/ ReadUser(t) \/ SelectUser(t) \/ CommitUser(t) \/ Fail(t)
        PROVE  IInv'
    BY <1>4, BeginKeeps, RatingExistsKeeps, InsertRatingKeeps, ReadDriverKeeps, CheckProfileKeeps,
       SelectDriverKeeps, CommitDriverKeeps, SetRedisKeeps, CheckNameKeeps, ReadUserKeeps, SelectUserKeeps,
       CommitUserKeeps, FailKeeps
  <1> QED
    BY <1>1, <1>2, <1>3, <1>4 DEF Next

\* IInv: what the rows, the tasks that have read them and the ratings yet to be credited
\* are to each other in every execution of the requests of Profiles.
THEOREM InvariantHolds == Spec => []IInv
  <1>1. Init => IInv
    BY InitInv, UserAssumption, RideAssumption
  <1>2. IInv /\ [Next]_vars => IInv'
    BY StepInv, UserAssumption, RideAssumption, CallAssumption
  <1> QED
    BY <1>1, <1>2, PTL DEF Spec

\* The tables keep their types under any overlap and failure of their writers.
THEOREM TypeCorrect == Spec => []TypeOK
  <1>1. IInv => TypeOK
    BY DEF IInv
  <1> QED
    BY <1>1, InvariantHolds, PTL

\* A ride is rated once by each of its participants.
THEOREM OneRatingEach == Spec => []RatedOnce
  <1>1. IInv => RatedOnce
    BY DEF IInv, Tables
  <1> QED
    BY <1>1, InvariantHolds, PTL

\* No stale save credits a rating that is not there, or one rating twice.
THEOREM CountsAreEarned == Spec => []CountsNeverExceed
  <1>1. ASSUME IInv PROVE CountsNeverExceed
    <2>1. ASSUME NEW u \in Users, NEW L \in {ToUsers, ToDrivers}
          PROVE  Credits(u, L) \in Nat /\ Received(u) \in Nat /\ Credits(u, L) <= Received(u)
      <3>1. About(u) \in SUBSET Pairs /\ Credited(u, L) \in SUBSET About(u)
        BY DEF About, Credited
      <3> QED
        BY <3>1, RatingsAreFinite, UserAssumption, RideAssumption DEF Credits, Received
    <2> QED
      BY <1>1, <2>1 DEF IInv, CountsOK, CountsNeverExceed, TypeOK, UserRows, DriverRows
  <1> QED
    BY <1>1, InvariantHolds, PTL

\* The DRIVER role is never without the profile it stands for.
THEOREM DriversHaveProfiles == Spec => []RoleMeansProfile
  <1>1. IInv => RoleMeansProfile
    BY DEF IInv, Tables
  <1> QED
    BY <1>1, InvariantHolds, PTL

\* Nor is a driver-mode token.
THEOREM TokensHaveProfiles == Spec => []DriverModeMeansProfile
  <1>1. IInv => DriverModeMeansProfile
    BY DEF IInv, Tables
  <1> QED
    BY <1>1, InvariantHolds, PTL

\* A username names one account.
THEOREM NamesAreUnique == Spec => []OneAccountPerName
  <1>1. IInv => OneAccountPerName
    BY DEF IInv, Tables
  <1> QED
    BY <1>1, InvariantHolds, PTL

-----------------------------------------------------------------------------
(* Who takes a role                                                        *)

\* The uuid of a sign-up is nobody else's, and names no row before its INSERT.
FreshIds ==
    \A t \in Tasks : call[t].op = "signup" =>
        /\ users[call[t].user] = NoRow
        /\ \A s \in Tasks \ {t} : call[s].user # call[t].user

\* A step that starts no request, and saves no users row that was not there.
LEMMA FreshIdsStay ==
    ASSUME IInv, FreshIds, UserAssumption,
           \A t \in Tasks : call'[t] \in {call[t], NoCall},
           \A u \in Users : users[u] = NoRow =>
               \/ users'[u] = NoRow
               \/ \A t \in Tasks : call[t].op = "signup" /\ call[t].user = u => call'[t] = NoCall
    PROVE  FreshIds'
  <1> SUFFICES ASSUME NEW t \in Tasks, call'[t].op = "signup"
               PROVE  /\ users'[call'[t].user] = NoRow
                      /\ \A s \in Tasks \ {t} : call'[s].user # call'[t].user
    BY DEF FreshIds
  <1>1. call'[t] = call[t] /\ call'[t] # NoCall /\ call[t].op = "signup"
    BY DEF NoCall
  <1>2. call[t].user \in Users /\ None \notin Users
    BY <1>1, UserAssumption DEF IInv, TaskOK, StageOK, Subject, Stages
  <1>3. users'[call[t].user] = NoRow
    BY <1>1, <1>2 DEF FreshIds
  <1>4. \A s \in Tasks \ {t} : call'[s].user # call[t].user
    BY <1>1, <1>2 DEF FreshIds, NoCall
  <1> QED
    BY <1>1, <1>3, <1>4

LEMMA BeginFresh ==
    ASSUME IInv, FreshIds, UserAssumption, CallAssumption, NEW t \in Tasks, Begin(t)
    PROVE  FreshIds'
  <1>1. PICK c \in Calls : Admitted(c) /\ call' = [call EXCEPT ![t] = c]
    BY DEF Begin
  <1>2. UNCHANGED users
    BY DEF Begin, stores
  <1>3. call'[t] = c /\ \A s \in Tasks \ {t} : call'[s] = call[s]
    BY <1>1 DEF IInv, Shapes
  <1>4. c.op \in {"rate", "mark", "register", "signup", "login"}
    BY CallsHaveOps
  <1>5. CASE c.op = "signup"
    <2>1. users[c.user] = NoRow /\ \A s \in Tasks : call[s].user # c.user
      BY <1>1, <1>5 DEF Admitted
    <2> QED
      BY <1>2, <1>3, <2>1 DEF FreshIds
  <1>6. CASE c.op # "signup"
    <2>1. users[c.user] # NoRow
      BY <1>1, <1>4, <1>6 DEF Admitted
    <2> QED
      BY <1>2, <1>3, <1>6, <2>1 DEF FreshIds
  <1> QED
    BY <1>5, <1>6

\* The one row a CommitUser writes was there, unless the task signs it up.
LEMMA CommitUserWrites ==
    ASSUME IInv, FreshIds, NEW t \in Tasks, CommitUser(t)
    PROVE  /\ call[t].op \in {"rate", "register", "signup"} /\ Subject(t) \in Users
           /\ pc[t] = "commitUser"
           /\ \A u \in Users \ {Subject(t)} : users'[u] = users[u]
           /\ call[t].op \in {"rate", "register"} =>
                 seen[t] # NoRow /\ users[Subject(t)] # NoRow /\ mem[t] \in UserRows
           /\ call[t].op = "signup" => users[Subject(t)] = NoRow /\ seen[t] = NoRow
           /\ call' = [call EXCEPT ![t] = NoCall]
  <1>1. /\ pc[t] = "commitUser" /\ call' = [call EXCEPT ![t] = NoCall]
        /\ \E row : users' \in {users, [users EXCEPT ![Subject(t)] = row]}
    BY DEF CommitUser, Return
  <1>2. call[t].op \in {"rate", "register", "signup"} /\ Subject(t) \in Users
    BY <1>1 DEF IInv, TaskOK, StageOK, Stages, ToUsers, ToDrivers
  <1>3. \A u \in Users \ {Subject(t)} : users'[u] = users[u]
    BY <1>1, <1>2 DEF IInv, TypeOK
  <1>4. call[t].op \in {"rate", "register"} =>
            seen[t] # NoRow /\ users[Subject(t)] # NoRow /\ mem[t] \in UserRows
    BY <1>1 DEF IInv, TaskOK, UserCopyOK, HasUser, SeenOK
  <1>5. call[t].op = "signup" => users[Subject(t)] = NoRow /\ seen[t] = NoRow
    BY <1>1 DEF IInv, TaskOK, SeenOK, FreshIds, Subject
  <1> QED
    BY <1>1, <1>2, <1>3, <1>4, <1>5

LEMMA StepFresh ==
    ASSUME UserAssumption, CallAssumption, IInv, FreshIds, [Next]_vars PROVE FreshIds'
  <1>1. CASE UNCHANGED <<users, call>>
    BY <1>1, FreshIdsStay
  <1>2. ASSUME NEW t \in Tasks, Begin(t) PROVE FreshIds'
    BY <1>2, BeginFresh
  <1>3. ASSUME NEW t \in Tasks, CommitUser(t) PROVE FreshIds'
    <2>1. \A s \in Tasks : call'[s] = IF s = t THEN NoCall ELSE call[s]
      BY <1>3, CommitUserWrites DEF IInv, Shapes
    <2>2. ASSUME NEW u \in Users, users[u] = NoRow, users'[u] # NoRow,
                 NEW s \in Tasks, call[s].op = "signup", call[s].user = u
          PROVE  s = t
      <3>1. u = Subject(t) /\ call[t].op = "signup"
        BY <1>3, <2>2, CommitUserWrites
      <3> QED
        BY <2>2, <3>1 DEF Subject, FreshIds
    <2> QED
      BY <2>1, <2>2, FreshIdsStay
  <1>4. ASSUME NEW t \in Tasks, UNCHANGED users, call' = call \/ Return(t) PROVE FreshIds'
    <2>1. \A s \in Tasks : call'[s] \in {call[s], NoCall}
      BY <1>4 DEF Return, IInv, Shapes
    <2> QED
      BY <1>4, <2>1, FreshIdsStay
  <1>5. ASSUME NEW t \in Tasks,
               \/ RatingExists(t) \/ InsertRating(t) \/ ReadDriver(t) \/ CheckProfile(t)
               \/ SelectDriver(t) \/ CommitDriver(t) \/ SetRedis(t) \/ CheckName(t)
               \/ ReadUser(t) \/ SelectUser(t) \/ Fail(t)
        PROVE  UNCHANGED users /\ (call' = call \/ Return(t))
    BY <1>5 DEF RatingExists, InsertRating, ReadDriver, CheckProfile, SelectDriver, CommitDriver,
                SetRedis, CheckName, ReadUser, SelectUser, Fail, Goto, stores
  <1>6. Login \/ Expire \/ UNCHANGED vars => UNCHANGED <<users, call>>
    BY DEF Login, Expire, vars, stores
  <1> QED
    BY <1>1, <1>2, <1>3, <1>4, <1>5, <1>6 DEF Next

\* The save that takes a role is that of a rating whose copy of the row has none.
LEMMA CommitTakes ==
    ASSUME IInv, FreshIds, NEW t \in Tasks, CommitUser(t), NEW u \in Users, MayDrive(u),
           users'[u].role # "DRIVER"
    PROVE  StaleRating(t, u)
  <1> DEFINE old == seen[t]
             new == NewUserRow(t)
  <1>1. users[u] # NoRow /\ users[u].role = "DRIVER"
    BY DEF MayDrive
  <1>2. u = Subject(t) /\ call[t].op \in {"rate", "register"} /\ pc[t] = "commitUser"
        /\ old # NoRow /\ mem[t] \in UserRows
    BY <1>1, CommitUserWrites
  <1>3. users'[u] = [role  |-> IF new.role # old.role THEN new.role ELSE users[u].role,
                     count |-> IF new.count # old.count THEN new.count ELSE users[u].count]
    BY <1>1, <1>2 DEF CommitUser, IInv, TypeOK
  <1>4. new.role # "DRIVER"
    BY <1>1, <1>3
  <1>5. CASE call[t].op = "register"
    <2>1. new = [mem[t] EXCEPT !.role = "DRIVER"]
      BY <1>5 DEF NewUserRow
    <2> QED
      BY <1>2, <1>4, <2>1 DEF UserRows
  <1>6. CASE call[t].op = "rate"
    <2>1. new = [mem[t] EXCEPT !.count = @ + 1]
      BY <1>6 DEF NewUserRow, Credit
    <2>2. mem[t].role = "RIDER" /\ new.role = "RIDER"
      BY <1>2, <1>4, <2>1 DEF UserRows, Roles
    <2>3. old.role # "RIDER"
      BY <1>1, <1>3, <1>4, <2>2
    <2>4. pc'[t] # "commitUser"
      BY <1>2 DEF CommitUser, Return, IInv, Shapes
    <2> QED
      BY <1>2, <1>6, <2>2, <2>3, <2>4 DEF StaleRating, Subject
  <1> QED
    BY <1>2, <1>5, <1>6

\* README.md:57 calls the role permanent.  One kind of request can take it, a rating that
\* read the row before its user became a driver, and nothing else ever does.
THEOREM OnlyStaleRatingsTakeRoles == Spec => RoleLostOnlyToRatings
  <1>1. Init => FreshIds
    BY DEF Init, FreshIds, NoCall
  <1>2. IInv /\ FreshIds /\ [Next]_vars => FreshIds'
    BY StepFresh, UserAssumption, CallAssumption
  <1>3. IInv /\ FreshIds /\ [Next]_vars => [KeepsRoles]_vars
    <2> SUFFICES ASSUME IInv, FreshIds, Next, NEW u \in Users, MayDrive(u),
                        users'[u].role # "DRIVER"
                 PROVE  \E t \in Tasks : StaleRating(t, u)
      BY DEF KeepsRoles, KeepsRole
    <2>1. ~UNCHANGED users
      BY DEF MayDrive
    <2>2. \E t \in Tasks : CommitUser(t)
      BY <2>1 DEF Next, Login, Expire, Begin, RatingExists, InsertRating, ReadDriver, CheckProfile,
                  SelectDriver, CommitDriver, SetRedis, CheckName, ReadUser, SelectUser, Fail, stores
    <2> QED
      BY <2>2, CommitTakes
  <1> QED
    BY <1>1, <1>2, <1>3, InvariantHolds, PTL DEF Spec, RoleLostOnlyToRatings

\* The save that changes an availability is a mark's, or that of a stale copy.
LEMMA CommitMarks ==
    ASSUME IInv, NEW t \in Tasks, CommitDriver(t), NEW u \in Users, drivers[u] # NoRow,
           drivers'[u].available # drivers[u].available
    PROVE  \/ SavesDriver(t, u) /\ call[t].op = "mark" /\ drivers'[u].available = call[t].value
           \/ StaleProfile(t, u)
  <1> DEFINE old == seen[t]
             new == NewDriverRow(t)
             d == Subject(t)
  <1>0. /\ pc[t] = "commitDriver" /\ call[t].op \in {"rate", "mark", "register"} /\ d \in Users
        /\ drivers \in [Users -> DriverRows \cup {NoRow}]
    BY DEF CommitDriver, IInv, TypeOK, TaskOK, StageOK, Stages
  <1>1. /\ ~(old = NoRow /\ drivers[d] # NoRow)
        /\ drivers' = [drivers EXCEPT ![d] =
               IF old = NoRow THEN new
               ELSE [available |-> IF new.available # old.available THEN new.available ELSE @.available,
                     count     |-> IF new.count # old.count THEN new.count ELSE @.count]]
        /\ Goto(t, "redis")
    BY DEF CommitDriver
  <1>2. u = d /\ old # NoRow
    <2> HIDE DEF old, new, d
    <2> QED
      BY <1>0, <1>1
  <1>3. drivers'[u].available = new.available /\ new.available # old.available
    <2> HIDE DEF old, new, d
    <2>1. drivers'[u] = [available |-> IF new.available # old.available THEN new.available
                                                                         ELSE drivers[u].available,
                         count     |-> IF new.count # old.count THEN new.count ELSE drivers[u].count]
      BY <1>0, <1>1, <1>2
    <2> QED
      BY <2>1
  <1>4. SavesDriver(t, u)
    <2>1. pc'[t] = "redis"
      BY <1>1 DEF Goto, IInv, Shapes
    <2> QED
      BY <1>0, <1>2, <2>1 DEF SavesDriver
  <1>5. call[t].op \in {"rate", "mark"} => mem[t] \in DriverRows
    BY <1>0 DEF IInv, TaskOK, DriverCopyOK, HasDriver
  <1>6. CASE call[t].op = "mark"
    <2>1. new = [mem[t] EXCEPT !.available = call[t].value]
      BY <1>6 DEF NewDriverRow
    <2> QED
      BY <1>3, <1>4, <1>5, <1>6, <2>1 DEF DriverRows
  <1>7. CASE call[t].op = "rate"
    <2>1. new = [mem[t] EXCEPT !.count = @ + 1]
      BY <1>7 DEF NewDriverRow, Credit
    <2>2. new.available = mem[t].available
      BY <1>5, <1>7, <2>1 DEF DriverRows
    <2> QED
      BY <1>3, <1>4, <1>7, <2>2 DEF StaleProfile
  <1>8. CASE call[t].op = "register"
    BY <1>2, <1>4, <1>8 DEF StaleProfile
  <1> QED
    BY <1>0, <1>6, <1>7, <1>8

\* Whoever shares a row with whom, a driver's availability is what the last mark made it
\* until the save of a stale copy of the row undoes that mark.
THEOREM OnlyStaleSavesUnmark == Spec => MarkLostOnlyToStaleSaves
  <1>1. IInv /\ [Next]_vars => [KeepsMarks]_vars
    <2> SUFFICES ASSUME IInv, Next, NEW u \in Users, drivers[u] # NoRow,
                        drivers'[u].available # drivers[u].available
                 PROVE  KeepsMark(u)
      BY DEF KeepsMarks, KeepsMark
    <2>1. \E t \in Tasks : CommitDriver(t)
      BY DEF Next, Login, Expire, Begin, RatingExists, InsertRating, ReadDriver, CheckProfile,
             SelectDriver, SetRedis, CheckName, ReadUser, SelectUser, CommitUser, Fail, stores
    <2> QED
      BY <2>1, CommitMarks DEF KeepsMark
  <1> QED
    BY <1>1, InvariantHolds, PTL DEF Spec, MarkLostOnlyToStaleSaves
=============================================================================
