------------------------------ MODULE Profiles ------------------------------
(***************************************************************************)
(* The users and drivers tables under all their writers: sign-up           *)
(* (routers/auth.py), driver registration (routers/driver.py), a            *)
(* participant of a completed ride rating the other (services/rating.py),   *)
(* and the availability writes of mark_available_by_id and                  *)
(* mark_unavailable_by_id (services/driver.py); and the driver-mode tokens  *)
(* handed out on what those tables say.  A writer reads a whole row,        *)
(* changes some columns of the copy and saves the whole copy: merge() then  *)
(* updates every column in which that copy differs from the row it SELECTs, *)
(* those a task only read included.                                        *)
(*                                                                         *)
(* Left out: avg_rating, which goes with rating_count in every save, the    *)
(* other columns nobody changes after the row is inserted, and passwords:   *)
(* the calls enumerated are those of a user who knows theirs.               *)
(***************************************************************************)
EXTENDS Naturals, FiniteSets

CONSTANTS Users,      \* user ids: of the rows there are, and the uuids new rows may get
          Name,       \* the username of each
          Members,    \* those with a users row to begin with
          Registered, \* those of them with a driver profile
          Rides,      \* the rides table, as [id, rider, driver, status] records
          Tasks,      \* bound on the requests in flight at the same time
          Calls,      \* the calls that arrive, some of AllCalls
          None,       \* Python's None
          MayFail     \* whether a database or Redis call may raise

\* A ride is rated, a driver is marked available or not, a member becomes a driver, a
\* newcomer signs up, a member logs in or switches to driver mode.
AllCalls ==
    {[op |-> "rate", user |-> u, ride |-> r, value |-> FALSE] : r \in Rides, u \in Users} \cup
    {[op |-> "mark", user |-> u, ride |-> None, value |-> v] : u \in Users, v \in BOOLEAN} \cup
    [op : {"register", "signup", "login"}, user : Users, ride : {None}, value : {FALSE}]

ASSUME CallAssumption == Calls \subseteq AllCalls
ASSUME UserAssumption ==
    /\ IsFiniteSet(Users) /\ None \notin Users
    /\ Registered \subseteq Members /\ Members \subseteq Users
    /\ \A u, v \in Members : Name[u] = Name[v] => u = v
ASSUME RideAssumption ==
    /\ IsFiniteSet(Rides) /\ None \notin Rides
    /\ \A r \in Rides : r.rider \in Users /\ r.driver \in Users \cup {None}
ASSUME FlagAssumption == MayFail \in BOOLEAN

VARIABLES users,          \* Postgres: the role and rating_count of users, or NoRow
          drivers,        \* Postgres: is_available and rating_count of drivers, or NoRow
          redisAvailable, \* Redis: the drivers:available set
          ratings,        \* Postgres: how many ratings rows each <<ride, rater>> has
          driverMode,     \* those who hold an unexpired token whose role claim is DRIVER
          pc,             \* per task: the await it is about to perform
          call,           \* per task: the operation and its arguments
          mem,            \* per task: the Driver or User object it will change and save
          seen            \* per task: the row merge()'s SELECT returned

stores == <<users, drivers, redisAvailable, ratings, driverMode>>
vars == <<stores, pc, call, mem, seen>>

Roles == {"RIDER", "DRIVER"}
\* The guards of rate(): a participant of a completed ride, and somebody to rate.
Rateable(ride, user) ==
    /\ ride.status = "COMPLETED"
    /\ user \in {ride.rider, ride.driver}
    /\ user = ride.rider => ride.driver # None

\* to_user_id.
Other(ride, user) == IF user = ride.rider THEN ride.driver ELSE ride.rider

\* Who may rate what.
Pairs == {p \in Rides \X Users : Rateable(p[1], p[2])}

NoRow == [none |-> None]
NoCall == [op |-> "none", user |-> None, ride |-> None, value |-> FALSE]

NewDriver_NoCount == [available |-> FALSE, count |-> None]

\* A Driver object as register_driver constructs it.
NewDriver == [available |-> FALSE, count |-> 0]

\* A User object as the sign-up constructs it.
NewUser == [role |-> "RIDER", count |-> 0]

Init ==
    /\ users = [u \in Users |-> CASE u \in Registered -> [role |-> "DRIVER", count |-> 0]
                                  [] u \in Members \ Registered -> NewUser
                                  [] OTHER -> NoRow]
    /\ drivers = [u \in Users |-> IF u \in Registered THEN NewDriver ELSE NoRow]
    /\ redisAvailable = {}
    /\ ratings = [p \in Pairs |-> 0]
    /\ driverMode = {}
    /\ pc = [t \in Tasks |-> "idle"]
    /\ call = [t \in Tasks |-> NoCall]
    /\ mem = [t \in Tasks |-> NoRow]
    /\ seen = [t \in Tasks |-> NoRow]

-----------------------------------------------------------------------------
(* Requests                                                                *)

\* What the call finds before its first write: a token of a user with a row, in driver
\* mode or not, except for a sign-up, whose uuid is fresh.
Admitted(c) ==
    CASE c.op = "signup" -> users[c.user] = NoRow /\ \A t \in Tasks : call[t].user # c.user
      [] c.op = "rate" -> users[c.user] # NoRow /\ Rateable(c.ride, c.user)
      [] OTHER -> users[c.user] # NoRow

Entry(op) == CASE op = "rate" -> "exists" [] op = "mark" -> "driver"
               [] op = "register" -> "profile" [] op = "signup" -> "name"

\* resolve_current_user has read the caller's row when the handler starts; registration
\* is the operation that uses it, at its end.
Begin(t) ==
    /\ pc[t] = "idle"
    /\ \E c \in Calls :
        /\ c.op # "login" /\ Admitted(c)
        /\ call' = [call EXCEPT ![t] = c]
        /\ pc' = [pc EXCEPT ![t] = Entry(c.op)]
        /\ mem' = [mem EXCEPT ![t] = IF c.op = "register" THEN users[c.user] ELSE NoRow]
    /\ UNCHANGED <<stores, seen>>

Return(t) ==
    /\ pc' = [pc EXCEPT ![t] = "idle"]
    /\ call' = [call EXCEPT ![t] = NoCall]
    /\ mem' = [mem EXCEPT ![t] = NoRow]
    /\ seen' = [seen EXCEPT ![t] = NoRow]

Goto(t, l) ==
    /\ pc' = [pc EXCEPT ![t] = l]
    /\ UNCHANGED call

Local(t) == UNCHANGED <<mem, seen>>

\* Whose rows the task works on.
Ratee(t) == Other(call[t].ride, call[t].user)
Subject(t) == IF call[t].op = "rate" THEN Ratee(t) ELSE call[t].user

-----------------------------------------------------------------------------
(* Driver mode                                                             *)

MayDrive_Any(u) == users[u] # NoRow

\* What the role claim of a new token goes by: at a login the users row's role, which a
\* switch into driver mode asks for too.
MayDrive(u) == users[u] # NoRow /\ users[u].role = "DRIVER"

\* Login, or switch-mode into driver mode.  A rider-mode token changes nothing here, and
\* switching back leaves the older token valid until it expires.
Login ==
    /\ \E c \in Calls : c.op = "login" /\ MayDrive(c.user) /\ driverMode' = driverMode \cup {c.user}
    /\ UNCHANGED <<users, drivers, redisAvailable, ratings, pc, call, mem, seen>>

Expire ==
    /\ \E u \in driverMode : driverMode' = driverMode \ {u}
    /\ UNCHANGED <<users, drivers, redisAvailable, ratings, pc, call, mem, seen>>

-----------------------------------------------------------------------------
(* rate(): the rating row                                                  *)

Rating(t) == <<call[t].ride, call[t].user>>

RatingExists(t) ==
    /\ pc[t] = "exists"
    /\ IF ratings[Rating(t)] > 0 THEN Return(t) ELSE Goto(t, "insert") /\ Local(t)
    /\ UNCHANGED stores

Duplicate_Allowed(t) == FALSE

\* uq_ratings_ride_from.
Duplicate(t) == ratings[Rating(t)] > 0

\* The INSERT of a second rating raises.
InsertRating(t) ==
    /\ pc[t] = "insert"
    /\ IF Duplicate(t)
       THEN Return(t) /\ UNCHANGED ratings
       ELSE /\ ratings' = [ratings EXCEPT ![Rating(t)] = @ + 1]
            /\ Goto(t, "driver") /\ Local(t)
    /\ UNCHANGED <<users, drivers, redisAvailable, driverMode>>

-----------------------------------------------------------------------------
(* Reads, and saves of a drivers row                                       *)

\* find_by_id; a rating of a user without a profile goes on to the users row, a mark
\* answers 404.
ReadDriver(t) ==
    /\ pc[t] = "driver"
    /\ CASE drivers[Subject(t)] # NoRow ->
              Goto(t, "selectDriver") /\ mem' = [mem EXCEPT ![t] = drivers[Subject(t)]] /\ UNCHANGED seen
         [] drivers[Subject(t)] = NoRow /\ call[t].op = "rate" -> Goto(t, "user") /\ Local(t)
         [] OTHER -> Return(t)
    /\ UNCHANGED stores

AfterCheck_RoleFirst == "selectUser"

\* The profile is saved before the role.
AfterCheck == "selectDriver"

\* register_driver's exists_by_id: 409 for a second profile.
CheckProfile(t) ==
    /\ pc[t] = "profile"
    /\ IF drivers[call[t].user] # NoRow THEN Return(t) ELSE Goto(t, AfterCheck) /\ Local(t)
    /\ UNCHANGED stores

Credit_DefaultRole(row) ==
    IF "role" \in DOMAIN row THEN [row EXCEPT !.count = @ + 1, !.role = "RIDER"] ELSE [row EXCEPT !.count = @ + 1]

Credit_Unmarked(row) ==
    IF "available" \in DOMAIN row THEN [row EXCEPT !.count = @ + 1, !.available = FALSE] ELSE [row EXCEPT !.count = @ + 1]

Credit_Twice(row) == [row EXCEPT !.count = @ + 2]

\* rate()'s replace(..., rating_count=rating_count + 1).
Credit(row) == [row EXCEPT !.count = @ + 1]

\* The Driver object handed to save().
NewDriverRow(t) ==
    CASE call[t].op = "rate" -> Credit(mem[t])
      [] call[t].op = "mark" -> [mem[t] EXCEPT !.available = call[t].value]
      [] OTHER -> NewDriver

SelectDriver(t) ==
    /\ pc[t] = "selectDriver"
    /\ seen' = [seen EXCEPT ![t] = drivers[Subject(t)]]
    /\ Goto(t, "commitDriver")
    /\ UNCHANGED <<stores, mem>>

\* UPDATE sets the columns in which the saved object differs from the SELECTed row; with
\* no row SELECTed it is an INSERT, which raises if the row is there by now.
CommitDriver(t) ==
    /\ pc[t] = "commitDriver"
    /\ LET d == Subject(t)
           new == NewDriverRow(t)
           old == seen[t]
       IN  IF old = NoRow /\ drivers[d] # NoRow
           THEN Return(t) /\ UNCHANGED drivers
           ELSE /\ drivers' = [drivers EXCEPT ![d] =
                      IF old = NoRow THEN new
                      ELSE [available |-> IF new.available # old.available THEN new.available ELSE @.available,
                            count     |-> IF new.count # old.count THEN new.count ELSE @.count]]
                /\ Goto(t, "redis")
                /\ seen' = [seen EXCEPT ![t] = NoRow]
                /\ UNCHANGED mem
    /\ UNCHANGED <<users, redisAvailable, ratings, driverMode>>

\* SADD or SREM by the is_available of the object saved, whatever the save was for.
SetRedis(t) ==
    /\ pc[t] = "redis"
    /\ redisAvailable' = IF NewDriverRow(t).available THEN redisAvailable \cup {Subject(t)}
                                                      ELSE redisAvailable \ {Subject(t)}
    /\ CASE call[t].op = "rate" -> /\ Goto(t, "user")
                                   /\ mem' = [mem EXCEPT ![t] = NoRow]
                                   /\ UNCHANGED seen
         [] call[t].op = "mark" -> Return(t)
         [] OTHER -> Goto(t, "selectUser") /\ Local(t)
    /\ UNCHANGED <<users, drivers, ratings, driverMode>>

-----------------------------------------------------------------------------
(* Saves of a users row                                                    *)

ReadUser(t) ==
    /\ pc[t] = "user"
    /\ IF users[Subject(t)] = NoRow THEN Return(t)
       ELSE Goto(t, "selectUser") /\ mem' = [mem EXCEPT ![t] = users[Subject(t)]] /\ UNCHANGED seen
    /\ UNCHANGED stores

NameTaken(u) == \E v \in Users \ {u} : users[v] # NoRow /\ Name[v] = Name[u]

\* The sign-up's exists_by_username: 409 for a name somebody has.
CheckName(t) ==
    /\ pc[t] = "name"
    /\ IF NameTaken(call[t].user) THEN Return(t) ELSE Goto(t, "selectUser") /\ Local(t)
    /\ UNCHANGED stores

\* The User object handed to save().
NewUserRow(t) ==
    CASE call[t].op = "rate" -> Credit(mem[t])
      [] call[t].op = "register" -> [mem[t] EXCEPT !.role = "DRIVER"]
      [] OTHER -> NewUser

SelectUser(t) ==
    /\ pc[t] = "selectUser"
    /\ seen' = [seen EXCEPT ![t] = users[Subject(t)]]
    /\ Goto(t, "commitUser")
    /\ UNCHANGED <<stores, mem>>

UniqueName_Dropped(u) == TRUE

\* The unique constraint of users.username.
UniqueName(u) == ~NameTaken(u)

\* As CommitDriver; the INSERT raises if the name is taken by now.  A registration ends
\* with a driver-mode token.
CommitUser(t) ==
    /\ pc[t] = "commitUser"
    /\ LET u == Subject(t)
           new == NewUserRow(t)
           old == seen[t]
       IN  IF old = NoRow /\ ~UniqueName(u)
           THEN UNCHANGED <<users, driverMode>>
           ELSE /\ users' = [users EXCEPT ![u] =
                      IF old = NoRow THEN new
                      ELSE [role  |-> IF new.role # old.role THEN new.role ELSE @.role,
                            count |-> IF new.count # old.count THEN new.count ELSE @.count]]
                /\ driverMode' = IF call[t].op = "register" THEN driverMode \cup {u} ELSE driverMode
    /\ Return(t)
    /\ UNCHANGED <<drivers, redisAvailable, ratings>>

\* The awaited call raises: what has been committed stays.
Fail(t) ==
    /\ MayFail
    /\ pc[t] # "idle"
    /\ Return(t)
    /\ UNCHANGED stores

Next ==
    \/ Login \/ Expire
    \/ \E t \in Tasks :
        \/ Begin(t)
        \/ RatingExists(t) \/ InsertRating(t)
        \/ ReadDriver(t) \/ CheckProfile(t) \/ SelectDriver(t) \/ CommitDriver(t) \/ SetRedis(t)
        \/ CheckName(t) \/ ReadUser(t) \/ SelectUser(t) \/ CommitUser(t)
        \/ Fail(t)

Spec == Init /\ [][Next]_vars

-----------------------------------------------------------------------------
(* Properties                                                              *)

UserRows == [role : Roles, count : Nat]
DriverRows == [available : BOOLEAN, count : Nat]

\* Types of the tables.
TypeOK ==
    /\ users \in [Users -> UserRows \cup {NoRow}]
    /\ drivers \in [Users -> DriverRows \cup {NoRow}]
    /\ redisAvailable \subseteq Users /\ driverMode \subseteq Users
    /\ ratings \in [Pairs -> Nat]

\* The ratings rows about u.
About(u) == {p \in Pairs : ratings[p] > 0 /\ Other(p[1], p[2]) = u}
Received(u) == Cardinality(About(u))

\* A participant's double click, overlapping itself, leaves one rating of the ride: the
\* constraint stops what the exists check lets through (409 "Already rated this ride").
RatedOnce == \A p \in Pairs : ratings[p] <= 1

\* However requests overlap and fail, nobody is credited with more ratings than there are:
\* a stale save may lose a rating from a count, it never invents one.
CountsNeverExceed ==
    \A u \in Users : /\ users[u] # NoRow => users[u].count <= Received(u)
                     /\ drivers[u] # NoRow => drivers[u].count <= Received(u)

\* Whoever holds the DRIVER role, and so may switch to driver mode, has a profile, even
\* while and after a registration that fails or races another: profile first, then role.
RoleMeansProfile == \A u \in Users : MayDrive(u) => drivers[u] # NoRow

\* Whoever passes require_role(DRIVER) has a profile, so that none of the calls behind it
\* (go online, accept, start, complete) is refused for want of one: also when the role
\* was lost again after the token was issued.
DriverModeMeansProfile == \A u \in driverMode : drivers[u] # NoRow

\* However two sign-ups for one name overlap, one account has it: find_by_username, which
\* every authenticated request starts with, raises on a second row.
OneAccountPerName ==
    \A u, v \in Users : users[u] # NoRow /\ users[v] # NoRow /\ Name[u] = Name[v] => u = v

\* README.md:57: "DB role = permanent capability": a user who has become a DRIVER stays one.
RoleIsPermanent ==
    [][\A u \in Users : MayDrive(u) => users'[u].role = "DRIVER"]_vars

\* A rating of u commits the row that it read before u became a DRIVER, and that it
\* compared with the row SELECTed after.
StaleRating(t, u) ==
    /\ pc[t] = "commitUser" /\ pc'[t] # "commitUser" /\ call[t].op = "rate" /\ Ratee(t) = u
    /\ mem[t].role = "RIDER" /\ seen[t].role # "RIDER"

\* Nothing else takes the role: not a second registration with its older copy of the
\* row, nor a sign-up, a failure or a save of the drivers row.
KeepsRole(u) == users'[u].role = "DRIVER" \/ \E t \in Tasks : StaleRating(t, u)
KeepsRoles == \A u \in Users : MayDrive(u) => KeepsRole(u)

RoleLostOnlyToRatings == [][KeepsRoles]_vars

SavesDriver(t, u) == pc[t] = "commitDriver" /\ pc'[t] # "commitDriver" /\ Subject(t) = u

\* The save of a profile whose copy went stale: a rating's, with the availability from
\* before a mark, or that of a registration which another has overtaken.
StaleProfile(t, u) ==
    /\ SavesDriver(t, u)
    /\ \/ call[t].op = "rate" /\ mem[t].available # seen[t].available
       \/ call[t].op = "register" /\ seen[t] # NoRow

\* A driver goes on and off line, as mark_available_by_id and mark_unavailable_by_id say,
\* and nothing but a stale save says otherwise: neither a rating whose copy is still
\* right, nor one that read or compared a row half-way through a mark.
KeepsMark(u) ==
    \/ drivers'[u].available = drivers[u].available
    \/ \E t \in Tasks : SavesDriver(t, u) /\ call[t].op = "mark" /\ drivers'[u].available = call[t].value
    \/ \E t \in Tasks : StaleProfile(t, u)
KeepsMarks == \A u \in Users : drivers[u] # NoRow => KeepsMark(u)

MarkLostOnlyToStaleSaves == [][KeepsMarks]_vars
=============================================================================
