------------------------------- MODULE Quotes -------------------------------
(***************************************************************************)
(* What a ride request costs and who may make one: POST /rides from the    *)
(* rate limiter (rate_limit.py) over the two counts (repositories/ride.py, *)
(* dispatch.py) and the surge cache (pricing.py) to the row with its fare, *)
(* each await a step.  What becomes of the row is RideService.tla's.       *)
(*                                                                         *)
(* One grid cell: its pickups share the cached multiplier, and the rides   *)
(* and drivers near them.  Time is counted in ticks, and a key's TTL in    *)
(* the ticks it has left.                                                  *)
(***************************************************************************)
EXTENDS Pricing, FiniteSets, FiniteSetsExt

CONSTANTS Riders,     \* user ids
          Distance,   \* how far each of them wants to go, in metres
          Drivers,    \* users with a driver profile
          Tasks,      \* bound on the requests in flight at the same time
          None,       \* Python's None
          Capacity,   \* the limiter's capacity
          Window,     \* its window_seconds
          SurgeTtl,   \* SURGE_TTL_SECONDS
          MaxResults, \* the most drivers GEOSEARCH returns
          MaxDelay,   \* bound on the ticks a request takes
          MaxPending  \* bound on the REQUESTED rides near the pickup

ASSUME SetAssumption == IsFiniteSet(Drivers) /\ None \notin Riders
ASSUME DistanceAssumption == Distance \in [Riders -> Nat]
ASSUME BoundAssumption ==
    /\ {Capacity, Window, SurgeTtl, MaxResults} \subseteq Nat \ {0}
    /\ MaxDelay \in Nat /\ MaxPending \in Nat

VARIABLES window,   \* Redis: per rider, the limiter's counter and its TTL, 0 for no key
          cache,    \* Redis: the surge:{cell} key
          pending,  \* Postgres: the REQUESTED rides near the pickup
          place,    \* Redis: drivers out of range, in range and busy, in range and free
          pc,       \* per task: the await it is about to perform
          quote,    \* per task: what it has worked out so far
          admitted  \* history: per rider, the ticks since the last, the one before the last...
                    \* of 2 * Capacity requests was let through (Window: that long, or never)

requests == <<pc, quote>>
limiter == <<window, admitted>>
vars == <<limiter, cache, pending, place, requests>>

\* The counts a multiplier comes from, and how long ago they were read.
NoCounts == [pending |-> 0, drivers |-> 0, age |-> 0]
NoKey == [surge |-> 0, ttl |-> 0, counts |-> NoCounts]

\* surge and fare are 0 until they are known.  Two fields are history, up to the answer of
\* the search: near, whom GEOSEARCH returned, and steady, who was free in range at that
\* moment and has been ever since.
NoQuote == [rider |-> None, age |-> 0, near |-> {}, found |-> {}, steady |-> {},
            counts |-> NoCounts, surge |-> 0, fare |-> 0]

Init ==
    /\ window = [r \in Riders |-> [hits |-> 0, ttl |-> 0]]
    /\ cache = NoKey
    /\ pending \in 0..MaxPending
    /\ place \in [Drivers -> {"away", "busy", "free"}]
    /\ pc = [t \in Tasks |-> "idle"]
    /\ quote = [t \in Tasks |-> NoQuote]
    /\ admitted = [r \in Riders |-> [k \in 1..2 * Capacity |-> Window]]

Located == {d \in Drivers : place[d] # "away"}
Free == {d \in Drivers : place[d] = "free"}

-----------------------------------------------------------------------------
(* The request                                                             *)

Goto(t, l, q) ==
    /\ pc' = [pc EXCEPT ![t] = l]
    /\ quote' = [quote EXCEPT ![t] = q]

Return(t) == Goto(t, "idle", NoQuote)

NewTtl_Short(w) == IF w.ttl = 0 THEN Window - 1 ELSE w.ttl
NewTtl_Extended(w) == w.ttl + Window

\* The window starts with its first hit.
NewTtl(w) == IF w.ttl = 0 THEN Window ELSE w.ttl

\* FixedWindowRateLimiter.hit: INCR, and EXPIRE of a counter that is new.  Beyond
\* Capacity + 1 the counter's value makes no difference.
Hit(w) == [hits |-> IF w.ttl = 0 THEN 1 ELSE Min({w.hits, Capacity}) + 1, ttl |-> NewTtl(w)]

\* One more request is let through: the last one becomes the one before the last.
LetThrough(ages) == [k \in 1..2 * Capacity |-> IF k = 1 THEN 0 ELSE ages[k - 1]]

\* The rider's request arrives: 429, or on to request_ride.
Request(t) ==
    /\ pc[t] = "idle"
    /\ \E r \in Riders :
        LET hit == Hit(window[r]) IN
        /\ window' = [window EXCEPT ![r] = hit]
        /\ IF hit.hits <= Capacity
           THEN /\ Goto(t, "count", [NoQuote EXCEPT !.rider = r])
                /\ admitted' = [admitted EXCEPT ![r] = LetThrough(@)]
           ELSE UNCHANGED <<requests, admitted>>
    /\ UNCHANGED <<cache, pending, place>>

\* count_pending_near.
CountPending(t) ==
    /\ pc[t] = "count"
    /\ Goto(t, "search", [quote[t] EXCEPT !.counts = [NoCounts EXCEPT !.pending = pending]])
    /\ UNCHANGED <<limiter, cache, pending, place>>

Reach_Short == MaxResults - 1
Reach == MaxResults

\* GEOSEARCH ... COUNT: the nearest of those in range, whether they are free or not.
GeoSearch(t) ==
    /\ pc[t] = "search"
    /\ \E near \in SUBSET Located :
        /\ Cardinality(near) = Min({Reach, Cardinality(Located)})
        /\ Goto(t, IF near = {} THEN "cache" ELSE "filter",
                [quote[t] EXCEPT !.near = near, !.found = near, !.steady = Free])
    /\ UNCHANGED <<limiter, cache, pending, place>>

\* SMISMEMBER drivers:available.
FilterFree(t) ==
    /\ pc[t] = "filter"
    /\ LET found == quote[t].found \cap Free
       IN  Goto(t, "cache", [quote[t] EXCEPT !.found = found, !.counts.drivers = Cardinality(found)])
    /\ UNCHANGED <<limiter, cache, pending, place>>

\* get_fare_quote, once the multiplier is known.
Priced(q, surge, counts) ==
    [rider |-> q.rider, age |-> q.age, near |-> {}, found |-> {}, steady |-> {},
     counts |-> counts, surge |-> surge, fare |-> Fare(Distance[q.rider], surge)]

\* get_surge_multiplier: the cached one, or that of the counts.
GetSurge(t) ==
    /\ pc[t] = "cache"
    /\ LET q == quote[t] IN
        IF cache.ttl > 0
        THEN Goto(t, "insert", Priced(q, cache.surge, cache.counts))
        ELSE Goto(t, "set", Priced(q, SurgeMultiplier(q.counts.pending, q.counts.drivers), q.counts))
    /\ UNCHANGED <<limiter, cache, pending, place>>

KeyTtl_Doubled == 2 * SurgeTtl
KeyTtl == SurgeTtl

\* SET ... EX.
SetSurge(t) ==
    /\ pc[t] = "set"
    /\ cache' = [surge |-> quote[t].surge, ttl |-> KeyTtl, counts |-> quote[t].counts]
    /\ Goto(t, "insert", quote[t])
    /\ UNCHANGED <<limiter, pending, place>>

\* The row, REQUESTED, is one of those the next request counts.
InsertRide(t) ==
    /\ pc[t] = "insert"
    /\ pending < MaxPending
    /\ pending' = pending + 1
    /\ Return(t)
    /\ UNCHANGED <<limiter, cache, place>>

\* The rider has an active ride already, or an awaited call raises.
Fail(t) ==
    /\ pc[t] # "idle"
    /\ Return(t)
    /\ UNCHANGED <<limiter, cache, pending, place>>

-----------------------------------------------------------------------------
(* Everybody else, and time                                                *)

\* A ride is accepted or cancelled, or requested by way of another cell.
OtherRides ==
    /\ pending' \in {pending + 1, pending - 1} \cap (0..MaxPending)
    /\ UNCHANGED <<limiter, cache, place, requests>>

\* A driver comes, goes, or becomes busy or free.
Move(d) ==
    /\ \E p \in {"away", "busy", "free"} \ {place[d]} : place' = [place EXCEPT ![d] = p]
    /\ quote' = [t \in Tasks |-> [quote[t] EXCEPT !.steady = @ \ {d}]]
    /\ UNCHANGED <<limiter, cache, pending, pc>>

Down(ttl) == IF ttl = 0 THEN 0 ELSE ttl - 1

Older(counts) == [counts EXCEPT !.age = @ + 1]

\* A second passes.
Tick ==
    /\ \A t \in Tasks : quote[t].age < MaxDelay \/ pc[t] = "idle"
    /\ window' = [r \in Riders |-> IF window[r].ttl = 1 THEN [hits |-> 0, ttl |-> 0]
                                   ELSE [window[r] EXCEPT !.ttl = Down(@)]]
    /\ cache' = IF cache.ttl <= 1 THEN NoKey
                ELSE [cache EXCEPT !.ttl = @ - 1, !.counts = Older(@)]
    /\ quote' = [t \in Tasks |-> IF pc[t] = "idle" THEN NoQuote
                                 ELSE [quote[t] EXCEPT !.age = @ + 1, !.counts = Older(@)]]
    /\ admitted' = [r \in Riders |->
                      [k \in 1..2 * Capacity |-> Min({admitted[r][k] + 1, Window})]]
    /\ UNCHANGED <<pending, place, pc>>

Next ==
    \/ \E t \in Tasks :
        \/ Request(t) \/ CountPending(t) \/ GeoSearch(t) \/ FilterFree(t)
        \/ GetSurge(t) \/ SetSurge(t) \/ InsertRide(t) \/ Fail(t)
    \/ OtherRides
    \/ \E d \in Drivers : Move(d)
    \/ Tick

Spec == Init /\ [][Next]_vars

-----------------------------------------------------------------------------
(* Properties                                                              *)

Counts == [pending : Nat, drivers : Nat, age : Nat]

\* Types of the stores and requests.
TypeOK ==
    /\ window \in [Riders -> [hits : 0..Capacity + 1, ttl : 0..Window]]
    /\ cache \in [surge : Nat, ttl : Nat, counts : Counts]
    /\ pending \in 0..MaxPending
    /\ place \in [Drivers -> {"away", "busy", "free"}]
    /\ pc \in [Tasks -> {"idle", "count", "search", "filter", "cache", "set", "insert"}]
    /\ quote \in [Tasks -> [rider : Riders \cup {None}, age : 0..MaxDelay,
                            near : SUBSET Drivers, found : SUBSET Drivers, steady : SUBSET Drivers,
                            counts : Counts, surge : Nat, fare : Nat]]
    /\ admitted \in [Riders -> [1..2 * Capacity -> 0..Window]]

\* The multiplier is the nearest hundredth, a half going up, to pending over available
\* drivers, kept between 1.00 and 3.00; without any driver it is 3.00.
NearestTo(surge, counts) ==
    /\ surge \in SurgeMin..SurgeMax
    /\ counts.drivers = 0 => surge = SurgeMax
    /\ counts.drivers > 0 =>
        /\ surge > SurgeMin => (2 * surge - 1) * counts.drivers <= 200 * counts.pending
        /\ surge < SurgeMax => 200 * counts.pending < (2 * surge + 1) * counts.drivers

\* Whatever other requests put into the cell's cache meanwhile, a multiplier, cached or
\* about to be paid, is that of one request's counts, and the fare of a row is the base
\* fare of its distance times that multiplier, to the nearest cent.
PricedByCounts ==
    /\ cache.ttl > 0 => NearestTo(cache.surge, cache.counts)
    /\ \A t \in Tasks : pc[t] \in {"set", "insert"} =>
        LET q == quote[t]
            exact == BaseFare(Distance[q.rider]) * q.surge
        IN  /\ NearestTo(q.surge, q.counts)
            /\ exact < 100000 * q.fare + 50000 /\ 100000 * q.fare <= exact + 50000

\* However requests that miss the cache overwrite each other's key, no fare goes by
\* counts older than the TTL and the time two requests take.
QuotesAreFresh ==
    \A t \in Tasks : pc[t] = "insert" => quote[t].counts.age < SurgeTtl + 2 * MaxDelay

\* A fixed window lets a burst through at its end and another after it, and no more: in
\* any stretch of the window's length fewer than twice the capacity, for the last request
\* but 2 * Capacity - 1 was let through before the stretch.
BurstsAreBounded == \A r \in Riders : admitted[r][2 * Capacity] = Window

\* Whoever is free in range from GEOSEARCH to the answer is found and counted, while others
\* come, go and turn busy in between, unless GEOSEARCH returned as many others as it
\* returns at most: they may all be busy, and hide the free one.
MissedOnlyWhenCrowded ==
    \A t \in Tasks : pc[t] = "cache" =>
        LET q == quote[t] IN
        \A d \in q.steady \ q.found : d \notin q.near /\ Cardinality(q.near) >= MaxResults
=============================================================================
