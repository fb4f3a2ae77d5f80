# Verification of ride_service

TLA+ models of `src/ride_service`, the FastAPI backend of a ride-hailing service: what its
requests and background loops do when they overlap, fail or arrive out of order. TLC checks
the models on small instances; TLAPS proves the safety properties of the passing runs for any
number of riders, drivers, rides, connections and overlapping requests.

All paths below are relative to `src/ride_service` in the repository.

## The system

One process, one asyncio loop, no threads. Every HTTP request is a task; a task runs
undisturbed up to an `await` of Postgres, Redis or Kafka, and there any other task may run.
So the grain of every model is the await.

| part | state | operations | talks to |
|---|---|---|---|
| ride service (`services/ride.py`, `routers/rides.py`) | `rides` table, `_accept_lock` | request, accept, start, complete, cancel | driver service (frees and occupies drivers), pricing, Kafka |
| driver service (`services/driver.py`, `repositories/driver.py`) | `drivers` table, Redis `drivers:available` and `drivers:locations` | register, go online / offline, mark (un)available, update location, search | event streams |
| ratings (`services/rating.py`) | `ratings` table, `rating_count` and `avg_rating` in `users` and `drivers` | rate | all three tables |
| dispatch (`kafka_producer.py`, `kafka_consumer.py`, `dispatch.py`, `stale_ride_retry.py`, `ride_offer_listener.py`) | four topics, consumer offsets, Redis `dispatched:{ride}` with a TTL, `ride_offers:*` pub/sub | handlers of the four topics, fan-out, retry every 60 s, listener | rides table, event streams |
| event streams (`sse.py`) | `_emitters`: key → queue | register, unregister, emit, complete, stream | the endpoints that open streams; everybody above |
| accounts (`routers/auth.py`, `auth/`) | `users` table, JWT role claim | sign up, log in, switch mode | rate limiting |
| pricing (`pricing.py`, `geo.py`) | Redis `surge:*`, 30 s TTL | quote | counts of pending rides and nearby drivers |
| rate limiting (`rate_limit.py`) | fixed windows in Redis | allow | `limits` package |

What is hard here:

* **Stale objects.** A handler reads a row into an object, awaits other things, and saves the
  whole object with `session.merge()`. `merge` SELECTs the row again and UPDATEs every column
  in which the old object differs from it, including those the handler only read.
* **Check, then act.** `exists…` queries are followed by an INSERT several awaits later.
* **Dual writes.** Availability is written to Postgres, then to Redis; a ride is committed,
  then published. Either second half may fail.
* **Five asynchronous paths** between a request and a driver's screen, with no order between
  two topics, or between pub/sub and direct emits.
* **Connections** that drop and come back, while a `finally` of the old one is pending.

What makes each part correct: a ride is won once, follows its state machine and belongs to
its winner; a driver is available exactly when free; an event follows its commit; an offer
that is out can be taken back, and a waiting ride reaches a waiting driver; a stream belongs
to the connection that asked for it and ends when its ride does; counts are the ratings there
are; a role is never lost; a name has one account; a fare goes by fresh counts, correctly
rounded; a burst of requests is bounded. `PROJECT.json` lists the hazards line by line, with the property
that covers each.

## Modules

| module | models | extends or instantiates |
|---|---|---|
| `RideAssignment` | abstract: a ride is opened once, assigned at most once, never reopened | |
| `RideLedger` | abstract: what isolated clients see, every request at once and every event true | |
| `RideService` | `services/ride.py`, the marks of `services/driver.py`, `RideRepository.save`, `DriverRepository.save` | implements `RideAssignment` and, for isolated clients, `RideLedger` |
| `RideRaces` | `RideService` with two history variables: what overlapping clients may run into | `RideService` |
| `Dispatch` | the dispatch pipeline behind the rides table | steps of `RideAssignment` |
| `SseRegistry` | `sse.py` and its callers | |
| `Profiles` | the `users`, `drivers` and `ratings` tables under sign-up, registration, ratings and marks; driver-mode tokens | |
| `Pricing` | the arithmetic of `pricing.py` | |
| `Quotes` | `POST /rides` from the rate limiter to the row with its fare | `Pricing` |
| `RideServiceProofs`, `DispatchProofs`, `SseRegistryProofs`, `ProfilesProofs`, `PricingProofs`, `QuotesProofs` | theorems about each | the module, `TLAPS` |
| `RideIsolationProofs` | theorems about `RideService` for isolated clients | `RideServiceProofs` |
| `RideRacesProofs` | theorems about `RideRaces` | `RideRaces`, `RideIsolationProofs` |
| `MC…` | the instances of each for TLC | |

`RideService` and `Dispatch` meet in `RideAssignment`: the first is proved to implement it,
whatever its requests overlap with and fail on, and the requests of the second are its steps.
What is shown of the pipeline so holds for rows that the handlers of `services/ride.py`
really write, late cancels and stale saves included, and not only for requests that happen
to be atomic. `RideLedger` is the stronger promise to a client that keeps its requests
apart: the whole row, its state machine and the truth of the events, as one atomic step per
request. `RideRaces` is about the clients that do not, and says how far things may go wrong
for them. The other modules are joined by what they leave to each other: `Quotes` is the
part of a ride request that `RideService!RequestInsert` takes as one step, `SseRegistry` the
end of the pipeline's `shown`, `Profiles` where driver mode, which `RideService!Routed`
presupposes, comes from.

### RideService

A task has a program counter `pc` (the await it is about to perform), its `call`, the Ride
object in its hands (`mem`) and the row `merge()` SELECTed (`seen`). One action per await:

| action | code |
|---|---|
| `RequestCheck`, `RequestInsert` | `request_ride`: the exists query; the INSERT (the quote before it changes no state here) |
| `AcquireLock`, `AcceptRead`, `AcceptCheckDriver` | `accept_ride` up to its writes |
| `StartRead`, `CompleteRead`, `CancelRead` | `get_ride()` and the guards of the other three |
| `SelectDriver`, `SetAvailable`, `SetRedis` | `DriverRepository.save`: merge, UPDATE if something differs, then SADD or SREM |
| `MergeSelect`, `MergeCommit` | `RideRepository.save`; `Target` is the `replace(...)` of each handler, `Merge` the UPDATE |
| `Publish` | `kafka_producer.publish_ride_*` |
| `Fail` | any of these calls raises; `async with` releases the lock |

`winners` is a history variable: whose accept was committed. Columns no guard reads are left
out (coordinates, estimated fare, timestamps, `version`); the driver row is its
`is_available`. `Isolated` states that clients keep requests about one ride, and requests by
one user, apart, so that the same module serves the properties that hold however requests
overlap and those that need more.

### RideRaces

The steps of `RideService` and two history variables that no step reads. `appeared[t]` is what a
request's exists query can no longer have seen: the rides of its rider that became active
between the query and the INSERT. `undone` has the requests whose change of a driver somebody
else has reversed since they made it, in Postgres or in Redis (`Marked` is from when to when a
request relies on it). With these, `SecondRideOnlyByRace` names the only ways a rider comes to
have two active rides, `DriverIsBookedFirst` says that an accept has its driver out of both
stores when the ride becomes his, and `EndFreesTheDriver` that a cancel or a complete has him
back in both, all three whatever overlaps and fails. A cancel that read the ride before its
accept frees nobody; that exception is part of `EndFreesTheDriver`.

### Dispatch

A request is a step of `RideAssignment` (`Rows!Open`, `Rows!Assign`, `Rows!Close`), after
which it owes a topic an event (`unsent`). `queue` and `fetched` are a partition's unread
messages and those read since the last background commit of offsets: a `Crash` puts the
latter back. A `Stop` is the graceful case: `lifespan` cancels the loops where they are and
`consumer.stop()` commits, so that the message in hand is neither finished nor redelivered.
`handler` is the one message `_consume_loop` is working on; a ride-requested goes `read`,
`search`, `sadd`, `expire`, `offer` (per driver), a ride-accepted `read`, `members`,
`delete`. `main.py` starts the consumer before the listener has subscribed (`listening`,
`Subscribe`), and pub/sub forgets an offer that is published before that. `channel` is pub/sub, `shown` the offers on a driver's screen. `free` is the set of
drivers a search would find; the search itself is in `Quotes`, and as drivers come and go
between any two steps of `Dispatch`, its one step finds whatever the two may find. A publish
is not reordered within a topic; brokers that duplicate are not modelled, the retry loop and
redelivery after a crash produce the same duplicates.

### SseRegistry

Each connection is named with its queue. `Accept` is the endpoint (guards, then return),
`Start` the moment `stream()` registers, `Get` one turn of its loop, `Disconnect` its
`finally` after a dropped connection. `HandleEnd` and `GoOffline` are the callers of
`complete()`. `Advance` is a committed save of a ride, the stale ones that `RideService` shows
included, which may take a ride that has ended back to MATCHED or IN_PROGRESS; the event it owes
may be lost, and an event may be handled again. `HandleEnd` closes a ride's stream on
ride-cancelled, and on ride-completed if the row confirms it, as the consumer does. After a
restart no connection is left, which is the case of `Disconnect` for all of them. `newest` (history) is the connection that started last.

### Profiles

Each of `rate()`, the marks, `/driver/register` and `/auth/register` builds or reads a row,
changes its copy and saves it whole; SELECT and UPDATE (or INSERT) are steps as in
`RideService`. A users row is its role and count, a drivers row its availability and count;
`avg_rating` is saved together with the count and left out. `Rateable` has the guards of
`rate()`, `Duplicate` and `UniqueName` are the two unique constraints. `driverMode` is who
holds an unexpired token with a DRIVER claim: `Login` covers log-in and switch-mode, a
registration ends with such a token, `Expire` takes one away; nothing revokes them.

### Quotes and Pricing

`Pricing` counts a multiplier in hundredths and a fare in cents; `RoundHalfUp` is
`quantize(…, ROUND_HALF_UP)`. `Quotes` follows a request of a rider: `Request` (the limiter's
INCR and EXPIRE), `CountPending`, `GeoSearch`, `FilterFree`, `GetSurge`, `SetSurge`,
`InsertRide`. `Tick` is time: it counts every TTL down and ages what was read. `place` is
where a driver is to Redis: not in the geo index near the pickup, in it but not in
`drivers:available`, or in both. The limiter (`Hit`, `NewTtl`) is the `limits` package, as
`rate_limit.py` uses it. One grid cell is modelled; cells share nothing but the rider's
window. History: `admitted` (the ages of the last `2 * Capacity` requests a rider was let
through with), `age` of counts, `near` (what GEOSEARCH returned) and `steady` (drivers free
ever since the search).

## Runs

Runs that pass:

| run | instance | shows |
|---|---|---|
| `rides_overlap` | 1 rider, 2 drivers, 1 ride, 2 requests at once, failures | one winner, the row is the winner's, events follow commits, a held lock has a running holder, only a stale save leaves the state machine, a driver is booked before the ride is his and free when it has ended, `RideAssignment` is implemented |
| `rides_races` | 2 rides of 1 rider, 1 driver, 2 requests at once (no cancel, no complete), failures, fairness | a second active ride takes an INSERT that the exists query did not see; every request ends |
| `rides_isolated` | 2 rides, 1 rider, 1 driver, failures; no two overlapping requests on one ride or by one user | state machine, consistent rows, `RideLedger` is implemented |
| `dispatch_offers` | 2 drivers, 1 ride, queues of 2, failures everywhere, 1 crash or stop | offers are retractable, nothing is dispatched after the acceptance was handled |
| `dispatch_live` | 1 driver, 1 ride, failures, expiry, 1 crash or stop, fairness | a waiting driver is shown the offer in the end: the retry loop makes up for whatever was lost |
| `sse_streams` | 3 connections, a ride's key and a driver's key, fairness | live queues only, close is last, a stream that was closed ends |
| `profiles_overlap` | 2 members, 2 newcomers who want one name, 3 rides, 2 requests at once, failures | one rating per participant, counts never too high, no role and no driver-mode token without a profile, one account per name, only a stale save takes a role or a mark of availability away |
| `quotes` | 1 rider with 2 requests at once, 2 drivers of whom a search returns 1, a capacity of 2 in windows of 2 ticks, a TTL of 1 tick | fares follow one request's counts, these are fresh, bursts are bounded, a free driver is missed only when the search is full of others |

Runs in which TLC finds a violation of what a document, a comment or a test says;
`PROJECT.json` ("findings") quotes each:

| run | what happens |
|---|---|
| `rides_late_cancel` | a cancel overtakes `start_ride` and cancels a ride in progress |
| `dispatch_retry_dies` | one exception ends the retry loop |
| `sse_reconnect` | the old connection's `finally` unregisters the new one |
| `profiles_lost_role` | a rating writes the old role over a registration |

Theorems say that nothing else is at fault in these, whatever overlaps and fails: a row leaves the state machine only
by the save of a request that read an older row (`OnlyStaleSavesLeaveEdges`), and for clients
that keep their requests apart a late cancel cannot happen at all (`IsolatedCancels`); a role is
lost only to the save of a rating that read the user before the registration
(`OnlyStaleRatingsTakeRoles`), an availability to the save of a stale profile
(`OnlyStaleSavesUnmark`); and a client with one connection at a time under its key keeps
its stream registered (`LoneStreamsAreRegistered`).

The models also show these, which are listed as hazards and have no run of their own. Two
overlapping requests of one rider pass the exists check of `request_ride` and are both inserted,
although tests/test_rides.py:51 says that a rider cannot have two active rides: `rides_races`
goes through such states, and `SecondRideOnlyByRace` says how they come about. A cancel that read
the ride before its accept cancels it without freeing the driver (the exception in
`EndFreesTheDriver`). Going online mid-ride makes a busy driver available. SADD without EXPIRE
leaves a key that never expires. A cancellation overtakes its offer, which then stays on the
loser's screen. A stream that starts after its ride has ended never ends. Two overlapping ratings
count as one. A registration whose second save raises leaves a profile without the role, and
cannot be repeated.

A further divergence needs no run: README.md:115-119 of the repository calls the handlers of
ride-completed and ride-cancelled nearly empty and their SSE lines commented out; the code
closes the stream in both.

### Bounds

* Ride service: every race is between two requests about one ride or by one rider; more of them only add to
  who waits for the lock. Two rides are needed for anything about a rider's rides, two
  drivers for a loser. `rides_races` leaves out cancel, complete and offline, so that liveness can
  be checked on what remains: no ride ends in it, and the second disjunct of
  `SecondRideOnlyByRace` (a stale accept or start that revives a ride) is covered by the proof
  alone. The proofs remove the bounds for the safety properties of all three runs.
* `Dispatch`: one ride is enough because no step of the pipeline relates two rides but the
  order of their messages; `MaxQueue` 2 lets a retry or a redelivery stand behind the original
  in its queue while a third is being handled. After a crash or a stop everything in memory is
  as at the start, and what the stores remember is again something the first run leaves
  behind: one restart covers that, and the proofs are for any number.
* `MaxChannel` and `SseRegistry!MaxPending` bound queues that are unbounded in the code: the
  sender waits where the code would not. The proofs are for any bound.
* `CHECK_DEADLOCK FALSE` is set in the `sse_` runs, whose connections are used up in the end:
  three of them are a stream, its replacement and a rival under the other key, two are enough
  for a reconnect.
* `Profiles`: two requests at once on the same row are the race; a second ride lets bob's
  count be two. `Calls` keeps one representative of each kind of call on each row; bob is marked
  available only, which a stale rating undoes, and the proof is for any calls.
* `Quotes`: `MaxDelay`, the longest a request takes, is an assumption about the environment:
  without it no bound on the age of a quote exists. Two ticks are the shortest window
  in which a request may come in the middle. With a TTL of one tick a key is set with counts a
  tick old, served, overwritten by an overlapping request and gone, and the bound of
  `QuotesAreFresh` is met exactly. `MaxPending` 2 and two drivers give the ratios 0, 1, 2 and no
  driver, and a search that one busy driver fills; all other ratios, the halves that are rounded up and
  every distance are the subject of `PricingProofs`.

### Fairness

* `RideService`: a task takes its next step (weak: every awaited call returns or raises); a
  task that waits for the lock gets it when it is free again and again (strong:
  `asyncio.Lock` wakes its waiters in order). Clients owe nothing, and `Fail` is never forced.
* `Dispatch`: the loops run and time passes (weak). The steps that an exception may preempt
  every time are strongly fair: a call that is repeated without end succeeds now and then,
  without which no retry could help. `dispatch_live` assumes that no call of the retry loop
  raises; `dispatch_retry_dies` is the case in which one does. The listener subscribes in the end
  (weak).
* `SseRegistry`: a stream that can read its queue does (weak: its client goes on reading).
  Nothing else is assumed, not even that a ride's end is ever handled.
* `Profiles` and `Quotes` state no liveness and no fairness.

## Proofs

Each proof is for all values of the constants that satisfy the module's named assumptions
(`None` is no id, switches have their values, bounds are naturals, finite sets where something
is counted), of which TLC evaluates the instances. What else a theorem assumes, it states:

* `OffersStayRetractable` assumes that the TTL does not pass (`~MayExpire`): after it the
  dispatched set is gone by design.
* The `Isolated…` theorems assume `Isolated`: clients keep requests about one ride, and
  requests by one user, apart. They say nothing of other clients, and `rides_late_cancel`
  shows that nothing could be said.
* `LoneStreamsAreRegistered` assumes `AtOnce = 1`: a client opens no second connection under
  its key while it has one. `sse_reconnect` is the case in which it does.

### RideServiceProofs

`RideServiceProofs` proves, for all values of the constants (any `Ops`, `Isolated`,
`MayFail`): `TypeCorrect`, `AcceptedOnce`, `DriverIsTheWinner`, `CommitThenPublish`,
`LockHasARunningHolder` and `ImplementsAssignment`, all from `Invariance == Spec => []IInv`.

`AcceptOnce` is not inductive, for it says nothing about a handler that is half way through
with a stale object. `IInv` adds what such a handler may still rely on:

* `LockHeld`: an accept past the lock holds it; so there is one at a time.
* `NotYetWon`: until it commits, its ride has no winner. This is why the check of the status,
  made many awaits earlier, still counts.
* `WonMeansLeft`: a ride that was won is past REQUESTED for good, so a later accept, which
  reads the row under the lock, sees it.
* `MemoryOK`: a stale object names no driver who has not won, and its status past REQUESTED or
  fare means there is a winner: merging it cannot do harm.
* `SelectOK`: the row `merge` compared with was not past REQUESTED unless the row still is,
  so an UPDATE that leaves the status alone never leaves the row behind.
* `Claim`, `UniqueClaims`: a uuid4 drawn by a request is its own until it is inserted.
* `Saved`: whoever is about to publish has committed.

`Benign` says what a step must leave alone for the other tasks' parts to survive, so that each
action has one lemma about the task that moves. `ImplementsAssignment` maps a status to
`none`, `open` or `closed` and `winners` to `assigned`: `RequestInsert` is `Open`, the
`MergeCommit` of an accept is `Assign`, any other commit is `Close` or a stutter, and every
other step is a stutter.

`LockHasARunningHolder` is the safety half of `RequestsTerminate`: with one lemma, `LockStep`,
about who has the lock after a step, it follows that a lock is held by a task between its
`AcquireLock` and its return, whatever raises in between; so that waiting for the lock is
waiting for a request that still takes steps.

### RideIsolationProofs

Without overlap a stale object is impossible, and `IsoInv` says so on top of `IInv`: requests in
flight are about different rides and by different users (`Apart`); between its read and its
commit a handler holds the row as it is, in a status from which its endpoint goes on (`Current`,
`Holding`, `From`); from the commit to the publish the status is the one the topic tells of
(`Committed`); and a request past its exists query still has a rider without an active ride
(so that `OneActiveRide` holds, which `RideLedger!Request` needs; without isolation it does not).
That must survive failures, which leave a request half done, and a driver row that a failed
request never put back; the rows do not depend on it.

From `IsoInv` come `IsolatedRowsAgree`, `IsolatedStateMachine` and
`IsolatedCancels`, and the refinement `IsolatedImplementsLedger`, one lemma per kind of step:
an INSERT is `Request` (`InsertIsRequest`); a commit is the one step of its endpoint, or a
stutter when a ride that was cancelled is cancelled again (`CommitIsOneStep`); a publish is
`Announce` (`PublishIsTrue`); everything else stutters (`OtherStepsAreSilent`).

`OnlyStaleSavesLeaveEdges` needs no isolation. `ReadFrom` (a handler's object is in a status its
endpoint goes on from) is inductive, and a save whose object agrees in status with the row it
meets (`FreshCommit`) is then an edge of the state machine.

### RideRacesProofs

No isolation here either. Watching does not change `RideService` (`WatchedIsSpec`), so `IInv` and
`ReadFrom` hold, and two invariants tie the history to the stores. `MissedAppeared`: every active
ride of the rider of a request about to INSERT is in its `appeared`, because the exists query
saw none. `MarkedOrUndone`: between its save of the driver and its own end, a request finds him
as it has marked him, or is in `undone`. `TwoActiveRidesTakeARace` then looks at the step after
which two rides are active: an INSERT, whose rider's other ride must have appeared, or a save
that takes a ride from its end back to life, which only a stale accept or start does
(`ActivatingCommit`, from `FreshCommit`). `BookedBeforeMatched` is `MarkedOrUndone` at the commit
of an accept; `FreedByTheEnd` is the same at the end of a cancel or complete, once it is known that
the driver in the row is the one marked (`EndKeepsTheDriver`, `CompletesOwn`).

### DispatchProofs

`NothingAfterAccepted` needs to know that a ride-accepted is about a ride that is closed for
good wherever the message is: owed, queued, fetched or in hand (`AcceptedIsClosed`), and that
the handler's step fits its topic (`HandlerOK`). `RideAssignment` gives the one fact about
rows: a closed ride stays closed. `OffersCanBeRetracted` then needs `TargetsAreDispatched`: a
fan-out past its SADD has all the drivers it has yet to tell in the set, so that stopping it
anywhere leaves nobody out.

### SseRegistryProofs

`RegisteredIsLive` and `CloseIsLast` are inductive together with `NotStarted`: a connection
whose `stream()` has not begun has an empty queue. `Register` replaces, so the old queue is
out of the registry and nothing can be put behind its sentinel.

`LoneStreamsAreRegistered` needs `LoneInv`: no two connections under one key are busy
(`OneAtATime`), and every open stream that has not been closed is the one registered
(`Receives`). The guard of `Accept` with `AtOnce = 1` gives the first by a fact about
cardinality; the second survives a `finally`, because what it takes out of the registry is its
own queue.

### ProfilesProofs

`CountsNeverExceed` is the hard one: a count is a copy read earlier, plus one. `Credits(u, L)`
is the number of ratings about `u` that no request between its INSERT and its save (the stages
`L`) has yet to credit, and every count, in a row or in a copy, is at most that (`CountsOK`,
`DriverCopyOK`, `UserCopyOK`). A request holds its own rating back until its commit, which is
what pays for the `+ 1`; `HoldOnce` says that no two requests hold the same rating, which is
what the unique constraint is needed for. Credits never shrink (`CreditsNeverShrink`), so
that stale copies stay below. `ProfileOK` and `SeenOK` say what a half-finished registration or
save may rely on; `RoleMeansProfile`, `DriverModeMeansProfile` and `OneAccountPerName` follow.
One lemma per action shows that it keeps `IInv`.

`OnlyStaleRatingsTakeRoles` is about every commit of a users row that had the DRIVER role: a
registration writes that role, a rating writes the role of its copy, and a sign-up inserts a row
that was not there. The last needs `FreshIds`: a sign-up's uuid is its own and names no row, up
to its INSERT. `OnlyStaleSavesUnmark` is the same question of a drivers row: a mark writes what it
was called with, a first registration inserts, and a rating that read or SELECTed the row
half-way through a mark still saves the availability it found, unless its copy is stale.

### PricingProofs and QuotesProofs

`RoundsToNearest`, `SurgeIsClamped`, `SurgeGrowsWithDemand` and `FareIsAtLeastTheBase` are about
the operators of `Pricing`, for all naturals. `QuotesProofs` uses them for `PricedByCounts`.
`QuotesAreFresh` rests on `CacheOK`: the age of the counts behind a key plus the TTL it has left
never exceeds the TTL and one request's delay. `MissedOnlyWhenCrowded` rests on
`SteadyAreFree` (between the two calls of a search, `steady` only loses drivers) and `Crowded`
(GEOSEARCH leaves a located driver out only when it returns as many as it may).
`BurstsStayBounded` rests on how the ages in `admitted` relate to the counter: a request beyond
those counted in the current window was let through before that window began, and one beyond
those and the capacity of the window before it at least a whole window ago. So nothing has to be
summed over a window, and no induction is needed.

### Only model-checked

* Liveness (`RequestsTerminate`, `WaitingRideIsOffered`, `CompletedStreamsEnd`): fairness and
  ENABLED are beyond the proof system.

Every safety and action property of a passing run is a theorem.

## Not modelled

* Floating point: the Haversine distance, the ETA, and the running average of a rating with its
  rounding. `Quotes` takes distances as given; an average is saved in the same UPDATE as its
  count, which is modelled.
* The text of the surge key (`-0.00` and `0.00` are two keys of one cell: a second cache, which
  costs a second computation and nothing else).
* Passwords, cookies and the encoding of tokens, of which only the role claim and the expiry
  matter to another request; the limiter in front of sign-up and log-in is the one of `Quotes`
  with other numbers and the client's address as its key.
* Request and response schemas, the history and profile endpoints: they only read.
* `main.py`, `state.py` and the client factories per event loop: no state a request changes.
  Stopping and starting again is `Dispatch!Stop` and `Dispatch!Crash`.
* Failures of the library's iterators (`async for` over Kafka and pub/sub): what they raise and
  when is not in this code.
