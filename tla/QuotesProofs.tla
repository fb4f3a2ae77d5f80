---------------------------- MODULE QuotesProofs ----------------------------
(***************************************************************************)
(* Theorems about Quotes, for every set of riders and drivers, every       *)
(* number of overlapping requests and every bound.                         *)
(***************************************************************************)
EXTENDS Quotes, PricingProofs, FiniteSetTheorems

Labels == {"idle", "count", "search", "filter", "cache", "set", "insert"}
QuoteType == [rider : Riders \cup {None}, age : 0..MaxDelay,
              near : SUBSET Drivers, found : SUBSET Drivers, steady : SUBSET Drivers,
              counts : Counts, surge : Nat, fare : Nat]

\* The fare is the base fare of the distance times the multiplier, to the nearest cent.
PaidFor(q) ==
    LET exact == BaseFare(Distance[q.rider]) * q.surge
    IN  exact < 100000 * q.fare + 50000 /\ 100000 * q.fare <= exact + 50000

\* Whom the search misses.
Crowded(q) == \A d \in q.steady \ q.found : d \notin q.near /\ Cardinality(q.near) >= MaxResults

\* What a request knows when it gets to an await.
Good(q, l) ==
    /\ l # "idle" => q.rider \in Riders
    /\ l \in {"search", "filter", "cache", "set"} => q.counts.age <= q.age
    /\ l = "insert" => q.counts.age < SurgeTtl + MaxDelay + q.age
    /\ l \in {"set", "insert"} => NearestTo(q.surge, q.counts) /\ PaidFor(q)
    /\ l = "filter" => q.found = q.near
    /\ l \in {"filter", "cache"} => Crowded(q)

\* A key was set by a request whose counts were no older than the request.
CacheOK ==
    cache.ttl > 0 => /\ NearestTo(cache.surge, cache.counts)
                     /\ cache.counts.age + cache.ttl <= SurgeTtl + MaxDelay

SteadyAreFree == \A t \in Tasks : pc[t] = "filter" => quote[t].steady \subseteq Free

IInv ==
    /\ TypeOK
    /\ CacheOK
    /\ \A t \in Tasks : Good(quote[t], pc[t])
    /\ SteadyAreFree

-----------------------------------------------------------------------------
(* Lemmas                                                                  *)

LEMMA MinOfTwo ==
    ASSUME NEW a \in Nat, NEW b \in Nat
    PROVE  Min({a, b}) = IF a <= b THEN a ELSE b
  <1> DEFINE m == IF a <= b THEN a ELSE b
  <1>1. m \in {a, b} /\ \A y \in {a, b} : m <= y
    OBVIOUS
  <1>2. \A x \in {a, b} : (\A y \in {a, b} : x <= y) => x = m
    OBVIOUS
  <1> QED
    BY <1>1, <1>2 DEF Min

\* A tick makes every age one older, up to Window.
Ages == [1..2 * Capacity -> 0..Window]
Later(ages) == [k \in 1..2 * Capacity |-> Min({ages[k] + 1, Window})]

\* One more request moves the ages up by one, a tick makes each one older.
LEMMA AgesFact ==
    ASSUME BoundAssumption, NEW ages \in Ages
    PROVE  /\ LetThrough(ages) \in Ages /\ Later(ages) \in Ages
           /\ LetThrough(ages)[1] = 0
           /\ \A k \in 2..2 * Capacity : LetThrough(ages)[k] = ages[k - 1]
           /\ \A k \in 1..2 * Capacity :
                 Later(ages)[k] = IF ages[k] < Window THEN ages[k] + 1 ELSE Window
  <1>b. Capacity \in Nat \ {0} /\ Window \in Nat \ {0}
    BY DEF BoundAssumption
  <1>1. ASSUME NEW k \in 1..2 * Capacity
        PROVE  /\ k = 1 => LetThrough(ages)[k] = 0
               /\ k # 1 => LetThrough(ages)[k] = ages[k - 1] /\ k - 1 \in 1..2 * Capacity
    BY <1>b DEF LetThrough
  <1>2. LetThrough(ages) \in Ages
    BY <1>b, <1>1 DEF LetThrough, Ages
  <1>3. ASSUME NEW k \in 1..2 * Capacity
        PROVE  Later(ages)[k] = IF ages[k] < Window THEN ages[k] + 1 ELSE Window
    <2>1. ages[k] \in 0..Window
      BY DEF Ages
    <2>2. Min({ages[k] + 1, Window}) = IF ages[k] + 1 <= Window THEN ages[k] + 1 ELSE Window
      BY <1>b, <2>1, MinOfTwo
    <2> QED
      BY <1>b, <2>1, <2>2 DEF Later
  <1>4. Later(ages) \in Ages
    <2>1. \A k \in 1..2 * Capacity : Later(ages)[k] \in 0..Window
      BY <1>b, <1>3 DEF Ages
    <2> QED
      BY <2>1 DEF Later, Ages
  <1> QED
    BY <1>b, <1>1, <1>2, <1>3, <1>4

\* What compute_surge_multiplier returns is the nearest to its counts.
LEMMA SurgeIsNearest ==
    ASSUME NEW c \in Counts
    PROVE  NearestTo(SurgeMultiplier(c.pending, c.drivers), c)
  <1> DEFINE p == c.pending
             a == c.drivers
             s == SurgeMultiplier(p, a)
  <1>1. p \in Nat /\ a \in Nat
    BY DEF Counts
  <1>2. s \in SurgeMin..SurgeMax
    BY <1>1, SurgeIsClamped
  <1>3. a = 0 => s = SurgeMax
    BY DEF SurgeMultiplier
  <1>4. ASSUME a > 0
        PROVE  /\ s > SurgeMin => (2 * s - 1) * a <= 200 * p
               /\ s < SurgeMax => 200 * p < (2 * s + 1) * a
    <2>1. CASE p >= 3 * a
      <3>1. s = 300
        BY <1>1, <1>4, <2>1 DEF SurgeMultiplier, SurgeMax
      <3> HIDE DEF s, p, a
      <3> QED
        BY <1>1, <1>4, <2>1, <3>1 DEF SurgeMin, SurgeMax
    <2>2. CASE p <= a
      <3>1. s = 100
        BY <1>1, <1>4, <2>2 DEF SurgeMultiplier, SurgeMin
      <3> HIDE DEF s, p, a
      <3> QED
        BY <1>1, <1>4, <2>2, <3>1 DEF SurgeMin, SurgeMax
    <2>3. CASE a < p /\ p < 3 * a
      <3>1. s = RoundHalfUp(100 * p, a)
        BY <1>1, <1>4, <2>3 DEF SurgeMultiplier
      <3> HIDE DEF s, p, a
      <3>2. 100 * p \in Nat /\ a \in Nat \ {0}
        BY <1>1, <1>4
      <3>3. (2 * RoundHalfUp(100 * p, a) - 1) * a <= 2 * (100 * p)
            /\ 2 * (100 * p) < (2 * RoundHalfUp(100 * p, a) + 1) * a
        BY <3>2, RoundsToNearest
      <3>4. 2 * (100 * p) = 200 * p
        BY <1>1
      <3> QED
        BY <3>1, <3>3, <3>4
    <2> QED
      BY <1>1, <2>1, <2>2, <2>3
  <1> QED
    BY <1>2, <1>3, <1>4 DEF NearestTo

\* get_fare_quote's second half.
LEMMA PricedPays ==
    ASSUME DistanceAssumption, NEW q \in QuoteType, q.rider \in Riders,
           NEW surge \in SurgeMin..SurgeMax, NEW counts \in Counts
    PROVE  /\ Priced(q, surge, counts) \in QuoteType
           /\ PaidFor(Priced(q, surge, counts))
           /\ Priced(q, surge, counts).rider = q.rider
           /\ Priced(q, surge, counts).age = q.age
           /\ Priced(q, surge, counts).surge = surge
           /\ Priced(q, surge, counts).counts = counts
  <1> DEFINE p == Priced(q, surge, counts)
             metres == Distance[q.rider]
             b == BaseFare(metres)
  <1>1. metres \in Nat
    BY DEF DistanceAssumption
  <1>2. b \in Nat /\ surge \in Nat
    BY <1>1 DEF BaseFare, SurgeMin, SurgeMax
  <1>3. b * surge \in Nat
    BY <1>2, Z3
  <1>4. /\ Fare(metres, surge) \in Nat
        /\ (2 * Fare(metres, surge) - 1) * 100000 <= 2 * (b * surge)
        /\ 2 * (b * surge) < (2 * Fare(metres, surge) + 1) * 100000
    BY <1>3, RoundsToNearest DEF Fare
  <1>5. p = [rider |-> q.rider, age |-> q.age, near |-> {}, found |-> {}, steady |-> {},
             counts |-> counts, surge |-> surge, fare |-> Fare(metres, surge)]
    BY DEF Priced
  <1>6. p \in QuoteType
    BY <1>2, <1>4, <1>5 DEF QuoteType
  <1>7. PaidFor(p)
    <2>1. p.rider = q.rider /\ p.surge = surge /\ p.fare = Fare(metres, surge)
      BY <1>5
    <2>2. b * surge < 100000 * Fare(metres, surge) + 50000
          /\ 100000 * Fare(metres, surge) <= b * surge + 50000
      BY <1>3, <1>4
    <2> QED
      BY <2>1, <2>2 DEF PaidFor
  <1> QED
    BY <1>5, <1>6, <1>7

\* A task that goes on with a good quote leaves all of them good.
LEMMA GotoKeepsGood ==
    ASSUME IInv, NEW t \in Tasks, NEW l \in Labels, NEW q \in QuoteType,
           Goto(t, l, q), Good(q, l), l = "filter" => q.steady \subseteq Free'
    PROVE  /\ pc' \in [Tasks -> Labels] /\ quote' \in [Tasks -> QuoteType]
           /\ \A s \in Tasks : Good(quote[s], pc[s])'
           /\ place' = place => SteadyAreFree'
  <1>1. pc \in [Tasks -> Labels] /\ quote \in [Tasks -> QuoteType]
    BY DEF IInv, TypeOK, Labels, QuoteType
  <1>2. pc' = [pc EXCEPT ![t] = l] /\ quote' = [quote EXCEPT ![t] = q]
    BY DEF Goto
  <1>3. ASSUME NEW s \in Tasks PROVE Good(quote'[s], pc'[s])
    BY <1>1, <1>2 DEF IInv
  <1>4. \A s \in Tasks : Good(quote[s], pc[s])'
    BY <1>3 DEF Good, Crowded, NearestTo, PaidFor
  <1>5. ASSUME place' = place, NEW s \in Tasks, pc'[s] = "filter"
        PROVE  quote'[s].steady \subseteq Free'
    BY <1>1, <1>2, <1>5 DEF IInv, SteadyAreFree, Free
  <1> QED
    BY <1>1, <1>2, <1>4, <1>5 DEF SteadyAreFree

-----------------------------------------------------------------------------
(* The steps                                                               *)

LEMMA InitInv == SetAssumption /\ BoundAssumption /\ Init => IInv
  <1> SUFFICES ASSUME SetAssumption, BoundAssumption, Init PROVE IInv
    OBVIOUS
  <1>1. NoCounts \in Counts /\ NoQuote \in QuoteType /\ NoKey \in [surge : Nat, ttl : Nat, counts : Counts]
    BY DEF NoCounts, NoQuote, NoKey, QuoteType, Counts, BoundAssumption
  <1>2. Good(NoQuote, "idle")
    BY DEF Good
  <1>3. TypeOK
    BY <1>1 DEF Init, TypeOK, QuoteType, BoundAssumption
  <1>4. CacheOK
    BY DEF Init, CacheOK, NoKey
  <1> QED
    BY <1>2, <1>3, <1>4 DEF IInv, Init, SteadyAreFree

LEMMA StepInv ==
    SetAssumption /\ DistanceAssumption /\ BoundAssumption /\ IInv /\ [Next]_vars => IInv'
  <1> SUFFICES ASSUME SetAssumption, DistanceAssumption, BoundAssumption, IInv, [Next]_vars
               PROVE  IInv'
    OBVIOUS
  <1> USE DEF QuoteType, Labels
  <1>t. TypeOK /\ CacheOK /\ SteadyAreFree /\ \A t \in Tasks : Good(quote[t], pc[t])
    BY DEF IInv
  <1>q. /\ pc \in [Tasks -> Labels] /\ quote \in [Tasks -> QuoteType]
        /\ cache \in [surge : Nat, ttl : Nat, counts : Counts]
        /\ place \in [Drivers -> {"away", "busy", "free"}]
    BY <1>t DEF TypeOK
  <1>n. NoCounts \in Counts /\ NoQuote \in QuoteType /\ Good(NoQuote, "idle")
    BY DEF NoCounts, NoQuote, Counts, Good, BoundAssumption
  <1>g. ASSUME UNCHANGED cache PROVE CacheOK'
    BY <1>t, <1>g DEF CacheOK, NearestTo
  <1>1. ASSUME NEW t \in Tasks, Request(t) PROVE IInv'
    <2> PICK r \in Riders :
          /\ window' = [window EXCEPT ![r] = Hit(window[r])]
          /\ IF Hit(window[r]).hits <= Capacity
             THEN /\ Goto(t, "count", [NoQuote EXCEPT !.rider = r])
                  /\ admitted' = [admitted EXCEPT ![r] = LetThrough(@)]
             ELSE UNCHANGED <<requests, admitted>>
      BY <1>1 DEF Request
    <2> DEFINE q == [NoQuote EXCEPT !.rider = r]
    <2>1. q \in QuoteType /\ Good(q, "count")
      BY <1>n DEF Good, NoQuote, Counts, NoCounts
    <2>2. window' \in [Riders -> [hits : 0..Capacity + 1, ttl : 0..Window]]
      <3>1. Hit(window[r]) \in [hits : 0..Capacity + 1, ttl : 0..Window]
        <4>1. window[r].hits \in 0..Capacity + 1 /\ window[r].ttl \in 0..Window
          BY <1>t DEF TypeOK
        <4>2. Min({window[r].hits, Capacity}) \in 0..Capacity
          BY <4>1, MinOfTwo DEF BoundAssumption
        <4> QED
          BY <4>1, <4>2 DEF Hit, NewTtl, BoundAssumption
      <3> QED
        BY <1>t, <3>1 DEF TypeOK
    <2>3. CASE Hit(window[r]).hits <= Capacity
      <3>1. Goto(t, "count", q)
        BY <2>3
      <3>2. /\ pc' \in [Tasks -> Labels] /\ quote' \in [Tasks -> QuoteType]
            /\ \A s \in Tasks : Good(quote[s], pc[s])' /\ SteadyAreFree'
        BY <1>1, <2>1, <3>1, GotoKeepsGood DEF Request
      <3>3. admitted' \in [Riders -> Ages]
        <4>1. LetThrough(admitted[r]) \in Ages
          BY <1>t, AgesFact DEF TypeOK, Ages
        <4>2. admitted' = [admitted EXCEPT ![r] = LetThrough(admitted[r])]
          BY <2>3
        <4> QED
          BY <1>t, <4>1, <4>2 DEF TypeOK, Ages
      <3>4. TypeOK'
        BY <1>1, <1>t, <2>2, <3>2, <3>3 DEF TypeOK, Request, Ages
      <3> QED
        BY <1>1, <1>g, <3>2, <3>4 DEF IInv, Request
    <2>4. CASE ~(Hit(window[r]).hits <= Capacity)
      <3>1. UNCHANGED <<pc, quote, admitted, place, cache, pending>>
        BY <1>1, <2>4 DEF requests, Request
      <3>2. TypeOK'
        BY <1>t, <2>2, <3>1 DEF TypeOK
      <3>3. SteadyAreFree' /\ \A s \in Tasks : Good(quote[s], pc[s])'
        BY <1>t, <3>1 DEF SteadyAreFree, Good, Crowded, NearestTo, PaidFor, Free
      <3> QED
        BY <1>g, <3>1, <3>2, <3>3 DEF IInv
    <2> QED
      BY <2>3, <2>4
  <1>2. ASSUME NEW t \in Tasks, CountPending(t) PROVE IInv'
    <2> DEFINE c == [NoCounts EXCEPT !.pending = pending]
               q == [quote[t] EXCEPT !.counts = c]
    <2>1. c \in Counts /\ c.age = 0
      <3>1. c = [pending |-> pending, drivers |-> 0, age |-> 0]
        BY DEF NoCounts
      <3>2. pending \in Nat
        BY <1>t DEF TypeOK, BoundAssumption
      <3> QED
        BY <3>1, <3>2 DEF Counts
    <2> HIDE DEF c
    <2>2. q \in QuoteType /\ Good(q, "search")
      <3>1. quote[t] \in QuoteType /\ Good(quote[t], "count")
        BY <1>2, <1>q, <1>t DEF CountPending
      <3>2. q \in QuoteType /\ q.counts = c /\ q.age = quote[t].age /\ q.rider = quote[t].rider
        BY <2>1, <3>1
      <3>3. q.counts.age <= q.age
        BY <2>1, <3>1, <3>2 DEF BoundAssumption
      <3> QED
        BY <3>1, <3>2, <3>3 DEF Good
    <2>3. /\ pc' \in [Tasks -> Labels] /\ quote' \in [Tasks -> QuoteType]
          /\ \A s \in Tasks : Good(quote[s], pc[s])' /\ SteadyAreFree'
      BY <1>2, <2>2, GotoKeepsGood DEF CountPending, c
    <2>4. TypeOK'
      BY <1>2, <1>t, <2>3 DEF TypeOK, CountPending, limiter
    <2> QED
      BY <1>2, <1>g, <2>3, <2>4 DEF IInv, CountPending
  <1>3. ASSUME NEW t \in Tasks, GeoSearch(t) PROVE IInv'
    <2> DEFINE l(near) == IF near = {} THEN "cache" ELSE "filter"
               q(near) == [quote[t] EXCEPT !.near = near, !.found = near, !.steady = Free]
    <2> PICK near \in SUBSET Located :
          /\ Cardinality(near) = Min({Reach, Cardinality(Located)})
          /\ Goto(t, l(near), q(near))
      BY <1>3 DEF GeoSearch
    <2>1. IsFiniteSet(Located) /\ IsFiniteSet(near)
      BY FS_Subset DEF Located, SetAssumption
    <2>2. ASSUME NEW d \in Free \ near PROVE Cardinality(near) >= MaxResults
      <3>1. Cardinality(Located) \in Nat /\ MaxResults \in Nat
        BY <2>1, FS_CardinalityType DEF BoundAssumption
      <3>2. near # Located
        BY <2>2 DEF Free, Located
      <3>3. Cardinality(near) # Cardinality(Located)
        BY <2>1, <3>2, FS_Subset
      <3> QED
        BY <3>1, <3>3, MinOfTwo DEF Reach
    <2>3. Free \subseteq Drivers /\ near \subseteq Drivers
      BY DEF Free, Located
    <2>4. q(near) \in QuoteType /\ q(near).steady = Free /\ q(near).found = near /\ q(near).near = near
          /\ q(near).counts = quote[t].counts /\ q(near).age = quote[t].age /\ q(near).rider = quote[t].rider
      <3> DEFINE o == quote[t]
                 free == Free
      <3>1. o \in QuoteType /\ free \subseteq Drivers
        BY <1>q, <2>3
      <3> DEFINE e == [[[o EXCEPT !.near = near] EXCEPT !.found = near] EXCEPT !.steady = free]
      <3> HIDE DEF o, free
      <3>2. e \in QuoteType /\ e.steady = free /\ e.found = near /\ e.near = near
            /\ e.counts = o.counts /\ e.age = o.age /\ e.rider = o.rider
        BY <2>3, <3>1
      <3>3. q(near) = e
        BY DEF o, free
      <3> QED
        BY <3>2, <3>3 DEF o, free
    <2>5. Good(quote[t], "search")
      BY <1>t, <1>3 DEF GeoSearch
    <2>6. l(near) \in {"cache", "filter"} /\ Good(q(near), l(near))
      BY <2>2, <2>4, <2>5 DEF Good, Crowded
    <2>7. Free' = Free /\ place' = place
      BY <1>3 DEF GeoSearch, Free
    <2> HIDE DEF q, l
    <2>8. /\ pc' \in [Tasks -> Labels] /\ quote' \in [Tasks -> QuoteType]
          /\ \A s \in Tasks : Good(quote[s], pc[s])' /\ SteadyAreFree'
      BY <2>3, <2>4, <2>6, <2>7, GotoKeepsGood
    <2>9. TypeOK'
      BY <1>3, <1>t, <2>8 DEF TypeOK, GeoSearch, limiter
    <2> QED
      BY <1>3, <1>g, <2>8, <2>9 DEF IInv, GeoSearch
  <1>4. ASSUME NEW t \in Tasks, FilterFree(t) PROVE IInv'
    <2> DEFINE found == quote[t].found \cap Free
               q == [quote[t] EXCEPT !.found = found, !.counts.drivers = Cardinality(found)]
    <2>1. Goto(t, "cache", q) /\ pc[t] = "filter" /\ place' = place
      BY <1>4 DEF FilterFree
    <2>2. Cardinality(found) \in Nat
      BY <1>q, FS_Subset, FS_CardinalityType DEF SetAssumption
    <2>3. ASSUME NEW d \in quote[t].steady \ found
          PROVE  d \notin quote[t].near /\ Cardinality(quote[t].near) >= MaxResults
      <3>1. d \in Free
        BY <1>t, <2>1 DEF SteadyAreFree
      <3>2. d \notin quote[t].found
        BY <3>1
      <3> QED
        BY <1>t, <2>1, <3>2 DEF Good, Crowded
    <2>4. q \in QuoteType /\ q.found = found /\ q.steady = quote[t].steady /\ q.near = quote[t].near
          /\ q.counts.age = quote[t].counts.age /\ q.age = quote[t].age /\ q.rider = quote[t].rider
      <3> DEFINE o == quote[t]
                 n == Cardinality(found)
      <3>1. o \in QuoteType /\ o.counts \in Counts
        BY <1>q
      <3>2. found \subseteq Drivers
        BY <3>1 DEF o
      <3> HIDE DEF o, n, found
      <3>3. [o.counts EXCEPT !.drivers = n] = [pending |-> o.counts.pending, drivers |-> n, age |-> o.counts.age]
        BY <3>1 DEF Counts
      <3> DEFINE k == [o.counts EXCEPT !.drivers = n]
                 e == [[o EXCEPT !.found = found] EXCEPT !.counts = k]
      <3>5. n \in Nat
        BY <2>2 DEF n
      <3>6. k \in Counts /\ k.age = o.counts.age
        BY <3>1, <3>3, <3>5 DEF Counts
      <3>7. q = e
        BY <3>1 DEF o, n, found
      <3> HIDE DEF k
      <3>8. e \in QuoteType /\ e.found = found /\ e.steady = o.steady /\ e.near = o.near
            /\ e.counts = k /\ e.age = o.age /\ e.rider = o.rider
        BY <3>1, <3>2, <3>6
      <3> QED
        BY <3>6, <3>7, <3>8 DEF o
    <2>5. Good(q, "cache")
      BY <1>t, <2>1, <2>3, <2>4 DEF Good, Crowded
    <2> HIDE DEF q
    <2>6. /\ pc' \in [Tasks -> Labels] /\ quote' \in [Tasks -> QuoteType]
          /\ \A s \in Tasks : Good(quote[s], pc[s])' /\ SteadyAreFree'
      BY <2>1, <2>4, <2>5, GotoKeepsGood
    <2>7. TypeOK'
      BY <1>4, <1>t, <2>6 DEF TypeOK, FilterFree, limiter
    <2> QED
      BY <1>4, <1>g, <2>6, <2>7 DEF IInv, FilterFree
  <1>5. ASSUME NEW t \in Tasks, GetSurge(t) PROVE IInv'
    <2>1. pc[t] = "cache" /\ quote[t] \in QuoteType /\ quote[t].rider \in Riders
          /\ quote[t].counts.age <= quote[t].age /\ quote[t].counts \in Counts /\ quote[t].age \in Nat
      BY <1>5, <1>q, <1>t DEF GetSurge, Good, BoundAssumption
    <2>2. UNCHANGED <<cache, place, pending, window, admitted>>
      BY <1>5 DEF GetSurge, limiter
    <2>3. CASE cache.ttl > 0
      <3> DEFINE q == Priced(quote[t], cache.surge, cache.counts)
      <3>1. Goto(t, "insert", q)
        BY <1>5, <2>3 DEF GetSurge
      <3>2. NearestTo(cache.surge, cache.counts) /\ cache.surge \in SurgeMin..SurgeMax
            /\ cache.counts.age + cache.ttl <= SurgeTtl + MaxDelay
        BY <1>t, <2>3 DEF CacheOK, NearestTo
      <3>3. q \in QuoteType /\ PaidFor(q) /\ q.rider = quote[t].rider /\ q.age = quote[t].age
            /\ q.surge = cache.surge /\ q.counts = cache.counts
        BY <1>q, <2>1, <3>2, PricedPays
      <3> HIDE DEF q
      <3>4. q.counts.age < SurgeTtl + MaxDelay + q.age
        BY <1>q, <2>1, <2>3, <3>2, <3>3 DEF BoundAssumption, Counts
      <3>5. Good(q, "insert")
        BY <2>1, <3>2, <3>3, <3>4 DEF Good
      <3>6. /\ pc' \in [Tasks -> Labels] /\ quote' \in [Tasks -> QuoteType]
            /\ \A s \in Tasks : Good(quote[s], pc[s])' /\ SteadyAreFree'
        BY <2>2, <3>1, <3>3, <3>5, GotoKeepsGood
      <3> QED
        BY <1>g, <1>t, <2>2, <3>6 DEF IInv, TypeOK
    <2>4. CASE ~(cache.ttl > 0)
      <3> DEFINE c == quote[t].counts
                 surge == SurgeMultiplier(c.pending, c.drivers)
                 q == Priced(quote[t], surge, c)
      <3>1. Goto(t, "set", q)
        BY <1>5, <2>4 DEF GetSurge
      <3>2. surge \in SurgeMin..SurgeMax /\ NearestTo(surge, c)
        BY <2>1, SurgeIsClamped, SurgeIsNearest DEF Counts
      <3>3. q \in QuoteType /\ PaidFor(q) /\ q.rider = quote[t].rider /\ q.age = quote[t].age
            /\ q.surge = surge /\ q.counts = c
        BY <2>1, <3>2, PricedPays
      <3> HIDE DEF q, surge
      <3>4. Good(q, "set")
        BY <2>1, <3>2, <3>3 DEF Good
      <3>5. /\ pc' \in [Tasks -> Labels] /\ quote' \in [Tasks -> QuoteType]
            /\ \A s \in Tasks : Good(quote[s], pc[s])' /\ SteadyAreFree'
        BY <2>2, <3>1, <3>3, <3>4, GotoKeepsGood
      <3> QED
        BY <1>g, <1>t, <2>2, <3>5 DEF IInv, TypeOK
    <2> QED
      BY <2>3, <2>4
  <1>6. ASSUME NEW t \in Tasks, SetSurge(t) PROVE IInv'
    <2> DEFINE q == quote[t]
    <2>1. /\ cache' = [surge |-> q.surge, ttl |-> SurgeTtl, counts |-> q.counts]
          /\ Goto(t, "insert", q) /\ UNCHANGED <<window, admitted, pending, place>>
      BY <1>6 DEF SetSurge, KeyTtl, limiter
    <2>2. Good(q, "set") /\ q \in QuoteType
      BY <1>6, <1>q, <1>t DEF SetSurge
    <2>3. q.counts.age <= q.age /\ q.age <= MaxDelay /\ q.counts.age \in Nat /\ q.age \in Nat
          /\ NearestTo(q.surge, q.counts) /\ SurgeTtl \in Nat \ {0} /\ MaxDelay \in Nat
      BY <2>2 DEF Good, Counts, BoundAssumption
    <2>4. Good(q, "insert")
      BY <2>2, <2>3 DEF Good
    <2> HIDE DEF q
    <2>5. cache' \in [surge : Nat, ttl : Nat, counts : Counts] /\ CacheOK'
      <3>1. cache'.ttl = SurgeTtl /\ cache'.surge = q.surge /\ cache'.counts = q.counts
        BY <2>1
      <3>2. CacheOK'
        BY <2>3, <3>1 DEF CacheOK, NearestTo
      <3> QED
        BY <2>1, <2>2, <2>3, <3>2
    <2>6. /\ pc' \in [Tasks -> Labels] /\ quote' \in [Tasks -> QuoteType]
          /\ \A s \in Tasks : Good(quote[s], pc[s])' /\ SteadyAreFree'
      BY <2>1, <2>2, <2>4, GotoKeepsGood
    <2> QED
      BY <1>t, <2>1, <2>5, <2>6 DEF IInv, TypeOK
  <1>7. ASSUME NEW t \in Tasks, InsertRide(t) \/ Fail(t) PROVE IInv'
    <2>1. Goto(t, "idle", NoQuote) /\ UNCHANGED <<window, admitted, cache, place>>
          /\ pending' \in 0..MaxPending
      BY <1>7, <1>t DEF InsertRide, Fail, Return, limiter, TypeOK, BoundAssumption
    <2>2. /\ pc' \in [Tasks -> Labels] /\ quote' \in [Tasks -> QuoteType]
          /\ \A s \in Tasks : Good(quote[s], pc[s])' /\ SteadyAreFree'
      BY <1>n, <2>1, GotoKeepsGood
    <2> QED
      BY <1>g, <1>t, <2>1, <2>2 DEF IInv, TypeOK
  <1>8. ASSUME OtherRides PROVE IInv'
    <2>1. UNCHANGED <<window, admitted, cache, place, pc, quote>> /\ pending' \in 0..MaxPending
      BY <1>8 DEF OtherRides, limiter, requests
    <2>2. SteadyAreFree' /\ \A s \in Tasks : Good(quote[s], pc[s])'
      BY <1>t, <2>1 DEF SteadyAreFree, Good, Crowded, NearestTo, PaidFor, Free
    <2> QED
      BY <1>g, <1>t, <2>1, <2>2 DEF IInv, TypeOK
  <1>9. ASSUME NEW d \in Drivers, Move(d) PROVE IInv'
    <2>1. /\ \E p \in {"away", "busy", "free"} : place' = [place EXCEPT ![d] = p]
          /\ quote' = [t \in Tasks |-> [quote[t] EXCEPT !.steady = @ \ {d}]]
          /\ UNCHANGED <<window, admitted, cache, pending, pc>>
      BY <1>9 DEF Move, limiter
    <2>2. place' \in [Drivers -> {"away", "busy", "free"}] /\ \A e \in Drivers \ {d} : place'[e] = place[e]
      BY <1>q, <2>1
    <2>3. ASSUME NEW t \in Tasks
          PROVE  /\ quote'[t] = [quote[t] EXCEPT !.steady = @ \ {d}]
                 /\ quote'[t] \in QuoteType /\ quote'[t].steady = quote[t].steady \ {d}
                 /\ quote'[t].found = quote[t].found /\ quote'[t].counts = quote[t].counts
                 /\ quote'[t].near = quote[t].near
                 /\ quote'[t].age = quote[t].age /\ quote'[t].rider = quote[t].rider
                 /\ quote'[t].surge = quote[t].surge /\ quote'[t].fare = quote[t].fare
      BY <1>q, <2>1
    <2>4. quote' \in [Tasks -> QuoteType]
      BY <2>1, <2>3
    <2>5. ASSUME NEW t \in Tasks PROVE Good(quote[t], pc[t])'
      <3>1. Good(quote[t], pc[t])
        BY <1>t
      <3> DEFINE q == quote[t]
                 p == quote'[t]
      <3>2. /\ p.steady \subseteq q.steady /\ p.near = q.near /\ p.found = q.found /\ p.counts = q.counts
            /\ p.age = q.age /\ p.rider = q.rider /\ p.surge = q.surge /\ p.fare = q.fare /\ pc'[t] = pc[t]
        BY <2>1, <2>3
      <3> HIDE DEF p, q
      <3>3. Crowded(q) => Crowded(p)
        BY <3>2 DEF Crowded
      <3>4. PaidFor(q) => PaidFor(p)
        BY <3>2 DEF PaidFor
      <3>5. Good(p, pc'[t])
        BY <3>1, <3>2, <3>3, <3>4 DEF Good, q
      <3> QED
        BY <3>5 DEF p, Good, Crowded, PaidFor, NearestTo
    <2>6. SteadyAreFree'
      <3>1. SUFFICES ASSUME NEW t \in Tasks, pc[t] = "filter", NEW e \in quote[t].steady \ {d}
                     PROVE  e \in Free'
        BY <2>1, <2>3 DEF SteadyAreFree
      <3>2. e \in Free
        BY <1>t, <3>1 DEF SteadyAreFree
      <3> QED
        BY <2>2, <3>1, <3>2 DEF Free
    <2> QED
      BY <1>g, <1>t, <2>1, <2>2, <2>4, <2>5, <2>6 DEF IInv, TypeOK
  <1>10. ASSUME Tick PROVE IInv'
    <2>1. window' \in [Riders -> [hits : 0..Capacity + 1, ttl : 0..Window]]
      <3>1. SUFFICES ASSUME NEW r \in Riders
                     PROVE  window'[r] \in [hits : 0..Capacity + 1, ttl : 0..Window]
        BY <1>10 DEF Tick
      <3>2. window'[r] = IF window[r].ttl = 1 THEN [hits |-> 0, ttl |-> 0]
                         ELSE [window[r] EXCEPT !.ttl = Down(@)]
        BY <1>10 DEF Tick
      <3>3. window[r] \in [hits : 0..Capacity + 1, ttl : 0..Window]
        BY <1>t DEF TypeOK
      <3>4. Down(window[r].ttl) \in 0..Window
        BY <3>3 DEF Down, BoundAssumption
      <3> QED
        BY <3>2, <3>3, <3>4 DEF BoundAssumption
    <2>2. admitted' \in [Riders -> Ages]
      <3>1. \A r \in Riders : Later(admitted[r]) \in Ages
        BY <1>t, AgesFact DEF TypeOK, Ages
      <3>2. admitted' = [r \in Riders |-> Later(admitted[r])]
        BY <1>10 DEF Tick, Later
      <3> QED
        BY <3>1, <3>2
    <2>3. cache' \in [surge : Nat, ttl : Nat, counts : Counts] /\ CacheOK'
      <3>1. CASE cache.ttl <= 1
        <4>1. cache' = NoKey
          BY <1>10, <3>1 DEF Tick
        <4> QED
          BY <1>n, <4>1 DEF NoKey, CacheOK
      <3>2. CASE ~(cache.ttl <= 1)
        <4>1. cache' = [cache EXCEPT !.ttl = @ - 1, !.counts = Older(@)]
          BY <1>10, <3>2 DEF Tick
        <4>2. cache'.ttl = cache.ttl - 1 /\ cache'.surge = cache.surge /\ cache'.counts = Older(cache.counts)
          BY <1>q, <4>1
        <4>3. cache.ttl \in Nat /\ cache.counts \in Counts
          BY <1>q
        <4>4. Older(cache.counts) \in Counts /\ Older(cache.counts).age = cache.counts.age + 1
              /\ Older(cache.counts).pending = cache.counts.pending
              /\ Older(cache.counts).drivers = cache.counts.drivers
          BY <4>3 DEF Older, Counts
        <4>5. cache' \in [surge : Nat, ttl : Nat, counts : Counts]
          <5>1. cache' = [surge |-> cache.surge, ttl |-> cache.ttl - 1, counts |-> Older(cache.counts)]
            BY <1>q, <4>1
          <5>2. cache.ttl - 1 \in Nat /\ cache.surge \in Nat
            BY <1>q, <3>2, <4>3
          <5> QED
            BY <4>4, <5>1, <5>2
        <4>6. NearestTo(cache.surge, cache.counts) /\ cache.counts.age + cache.ttl <= SurgeTtl + MaxDelay
          BY <1>t, <3>2, <4>3 DEF CacheOK
        <4>7. NearestTo(cache'.surge, cache'.counts)
          BY <4>2, <4>4, <4>6 DEF NearestTo
        <4>8. cache'.counts.age + cache'.ttl <= SurgeTtl + MaxDelay
          BY <4>2, <4>3, <4>4, <4>6 DEF Counts, BoundAssumption
        <4> QED
          BY <4>5, <4>7, <4>8 DEF CacheOK, NearestTo
      <3> QED
        BY <3>1, <3>2
    <2>4. pc' = pc /\ place' = place /\ pending' = pending
      BY <1>10 DEF Tick
    <2>5. ASSUME NEW t \in Tasks, pc[t] # "idle"
          PROVE  LET q == quote[t] p == quote'[t] IN
                 /\ p \in QuoteType /\ p.age = q.age + 1 /\ p.counts = Older(q.counts)
                 /\ p.rider = q.rider /\ p.near = q.near /\ p.found = q.found /\ p.steady = q.steady
                 /\ p.surge = q.surge /\ p.fare = q.fare
      <3> DEFINE q == quote[t]
      <3>1. quote'[t] = [q EXCEPT !.age = @ + 1, !.counts = Older(@)]
        BY <1>10, <2>5 DEF Tick
      <3>2. q \in QuoteType /\ q.age < MaxDelay
        BY <1>10, <1>q, <2>5 DEF Tick
      <3>3. q.age + 1 \in 0..MaxDelay
        BY <3>2 DEF BoundAssumption
      <3>4. Older(q.counts) \in Counts
        BY <3>2 DEF Older, Counts
      <3> HIDE DEF q
      <3>5. quote'[t] = [rider |-> q.rider, age |-> q.age + 1, near |-> q.near, found |-> q.found,
                         steady |-> q.steady, counts |-> Older(q.counts), surge |-> q.surge, fare |-> q.fare]
        BY <3>1, <3>2
      <3> QED
        BY <3>2, <3>3, <3>4, <3>5 DEF q
    <2>6. quote' \in [Tasks -> QuoteType]
      <3>1. ASSUME NEW t \in Tasks PROVE quote'[t] \in QuoteType
        <4>1. pc[t] = "idle" => quote'[t] = NoQuote
          BY <1>10 DEF Tick
        <4> QED
          BY <1>n, <2>5, <4>1
      <3>2. quote' = [t \in Tasks |-> IF pc[t] = "idle" THEN NoQuote
                                      ELSE [quote[t] EXCEPT !.age = @ + 1, !.counts = Older(@)]]
        BY <1>10 DEF Tick
      <3> QED
        BY <3>1, <3>2
    <2>7. ASSUME NEW t \in Tasks PROVE Good(quote[t], pc[t])'
      <3>1. CASE pc[t] = "idle"
        BY <2>4, <3>1 DEF Good
      <3>2. CASE pc[t] # "idle"
        <4> DEFINE q == quote[t]
                   p == quote'[t]
        <4>1. /\ p.age = q.age + 1 /\ p.counts = Older(q.counts)
              /\ p.rider = q.rider /\ p.near = q.near /\ p.found = q.found /\ p.steady = q.steady
              /\ p.surge = q.surge /\ p.fare = q.fare
          BY <2>5, <3>2
        <4>2. q.counts \in Counts /\ q.age \in Nat /\ SurgeTtl \in Nat /\ MaxDelay \in Nat
          BY <1>q DEF BoundAssumption
        <4>3. p.counts.age = q.counts.age + 1 /\ p.counts.pending = q.counts.pending
              /\ p.counts.drivers = q.counts.drivers /\ q.counts.age \in Nat
          BY <4>1, <4>2 DEF Older, Counts
        <4>4. Good(q, pc[t])
          BY <1>t
        <4> HIDE DEF p, q
        <4>5. pc[t] \in {"search", "filter", "cache", "set"} => p.counts.age <= p.age
          BY <4>1, <4>2, <4>3, <4>4 DEF Good
        <4>6. pc[t] = "insert" => p.counts.age < SurgeTtl + MaxDelay + p.age
          BY <4>1, <4>2, <4>3, <4>4 DEF Good
        <4>7. pc[t] \in {"set", "insert"} => NearestTo(p.surge, p.counts) /\ PaidFor(p)
          BY <4>1, <4>3, <4>4 DEF Good, Crowded, NearestTo, PaidFor
        <4>8. Good(p, pc[t])
          BY <4>1, <4>4, <4>5, <4>6, <4>7 DEF Good, Crowded
        <4> QED
          BY <2>4, <4>8 DEF p, Good, Crowded, NearestTo, PaidFor
      <3> QED
        BY <3>1, <3>2
    <2>8. SteadyAreFree'
      <3>1. SUFFICES ASSUME NEW t \in Tasks, pc[t] = "filter"
                     PROVE  quote'[t].steady \subseteq Free
        BY <2>4 DEF SteadyAreFree, Free
      <3>2. quote'[t].steady = quote[t].steady
        BY <2>5, <3>1
      <3> QED
        BY <1>t, <3>1, <3>2 DEF SteadyAreFree
    <2> QED
      BY <1>t, <2>1, <2>2, <2>3, <2>4, <2>6, <2>7, <2>8 DEF IInv, TypeOK, Ages
  <1>11. CASE UNCHANGED vars
    <2>1. UNCHANGED <<window, admitted, cache, pending, place, pc, quote>>
      BY <1>11 DEF vars, limiter, requests
    <2>2. SteadyAreFree' /\ \A s \in Tasks : Good(quote[s], pc[s])'
      BY <1>t, <2>1 DEF SteadyAreFree, Good, Crowded, NearestTo, PaidFor, Free
    <2> QED
      BY <1>g, <1>t, <2>1, <2>2 DEF IInv, TypeOK
  <1> QED
    BY <1>1, <1>2, <1>3, <1>4, <1>5, <1>6, <1>7, <1>8, <1>9, <1>10, <1>11 DEF Next

-----------------------------------------------------------------------------
(* The limiter                                                             *)

\* The open window, w, let the last w.hits requests through (Capacity, once it refuses
\* some) and the first of them opened it; the window before it let at most Capacity
\* through, all since at least Window ticks before w opened.
BurstOK(w, ages) ==
    /\ w.ttl > 0 => w.hits > 0
    /\ \A k \in 1..2 * Capacity :
        /\ w.ttl = 0 /\ k >= Capacity => ages[k] = Window
        /\ w.ttl > 0 /\ (k >= w.hits \/ k >= Capacity) => ages[k] >= Window - w.ttl
        /\ w.ttl > 0 /\ (k >= w.hits + Capacity \/ k = 2 * Capacity) => ages[k] = Window

Bursts == \A r \in Riders : BurstOK(window[r], admitted[r])

WindowType == [hits : 0..Capacity + 1, ttl : 0..Window]

\* A hit of the limiter, let through or refused.
LEMMA HitKeepsBurst ==
    ASSUME BoundAssumption, NEW w \in WindowType, NEW ages \in Ages, BurstOK(w, ages)
    PROVE  /\ Hit(w).hits <= Capacity => BurstOK(Hit(w), LetThrough(ages))
           /\ ~(Hit(w).hits <= Capacity) => BurstOK(Hit(w), ages)
  <1> DEFINE C == Capacity
             h == Hit(w)
             new == LetThrough(ages)
  <1>b. C \in Nat \ {0} /\ Window \in Nat \ {0}
    BY DEF BoundAssumption
  <1>w. w.hits \in 0..C + 1 /\ w.ttl \in 0..Window /\ \A k \in 1..2 * C : ages[k] \in 0..Window
    BY DEF WindowType, Ages
  <1>h. /\ h.hits = IF w.ttl = 0 THEN 1 ELSE (IF w.hits <= C THEN w.hits ELSE C) + 1
        /\ h.ttl = IF w.ttl = 0 THEN Window ELSE w.ttl
    BY <1>b, <1>w, MinOfTwo DEF Hit, NewTtl
  <1>a. new[1] = 0 /\ \A k \in 2..2 * C : new[k] = ages[k - 1] /\ k - 1 \in 1..2 * C
    BY <1>b, AgesFact
  <1>o. /\ w.ttl > 0 => w.hits > 0
        /\ \A k \in 1..2 * C :
            /\ w.ttl = 0 /\ k >= C => ages[k] = Window
            /\ w.ttl > 0 /\ (k >= w.hits \/ k >= C) => ages[k] >= Window - w.ttl
            /\ w.ttl > 0 /\ (k >= w.hits + C \/ k = 2 * C) => ages[k] = Window
    BY DEF BurstOK
  <1> HIDE DEF C, h, new
  <1>1. ASSUME h.hits <= C, NEW k \in 1..2 * C
        PROVE  /\ (k >= h.hits \/ k >= C) => new[k] >= Window - h.ttl
               /\ (k >= h.hits + C \/ k = 2 * C) => new[k] = Window
    <2>1. CASE w.ttl = 0
      <3>1. new[k] \in 0..Window
        BY <1>b, <1>w, <1>a
      <3>2. k >= 1 + C => new[k] = Window
        BY <1>b, <1>a, <1>o, <2>1
      <3> QED
        BY <1>b, <1>h, <2>1, <3>1, <3>2
    <2>2. CASE w.ttl > 0
      <3>1. h.hits = w.hits + 1 /\ h.ttl = w.ttl /\ w.hits > 0 /\ w.hits <= C
        BY <1>b, <1>w, <1>h, <1>1, <1>o, <2>2
      <3>2. k >= w.hits + 1 => new[k] >= Window - w.ttl
        BY <1>b, <1>w, <1>a, <1>o, <2>2, <3>1
      <3>3. k >= w.hits + 1 + C => new[k] = Window
        BY <1>b, <1>w, <1>a, <1>o, <2>2, <3>1
      <3> QED
        BY <1>b, <1>w, <1>1, <3>1, <3>2, <3>3
    <2> QED
      BY <1>w, <2>1, <2>2
  <1>2. h.ttl > 0 /\ h.hits > 0
    BY <1>b, <1>w, <1>h
  <1>3. h.hits <= C => BurstOK(h, new)
    BY <1>1, <1>2 DEF BurstOK, C
  <1>4. ASSUME ~(h.hits <= C) PROVE BurstOK(h, ages)
    <2>1. w.ttl > 0 /\ h.ttl = w.ttl /\ w.hits >= C /\ h.hits = C + 1
      BY <1>b, <1>w, <1>h, <1>4
    <2> QED
      BY <1>b, <1>w, <1>o, <2>1 DEF BurstOK, C
  <1> QED
    BY <1>3, <1>4 DEF C, h, new

\* A tick: the window may run out, and then the request that opened it is Window old.
LEMMA TickKeepsBurst ==
    ASSUME BoundAssumption, NEW w \in WindowType, NEW ages \in Ages, BurstOK(w, ages)
    PROVE  BurstOK(IF w.ttl = 1 THEN [hits |-> 0, ttl |-> 0] ELSE [w EXCEPT !.ttl = Down(@)],
                   Later(ages))
  <1> DEFINE C == Capacity
             v == IF w.ttl = 1 THEN [hits |-> 0, ttl |-> 0] ELSE [w EXCEPT !.ttl = Down(@)]
             old == Later(ages)
  <1>b. C \in Nat \ {0} /\ Window \in Nat \ {0}
    BY DEF BoundAssumption
  <1>w. w.hits \in 0..C + 1 /\ w.ttl \in 0..Window /\ \A k \in 1..2 * C : ages[k] \in 0..Window
    BY DEF WindowType, Ages
  <1>v. /\ w.ttl <= 1 => v.ttl = 0
        /\ w.ttl > 1 => v.ttl = w.ttl - 1 /\ v.hits = w.hits
    BY <1>w DEF WindowType, Down
  <1>a. \A k \in 1..2 * C : old[k] = IF ages[k] < Window THEN ages[k] + 1 ELSE Window
    BY <1>b, AgesFact
  <1>o. /\ w.ttl > 0 => w.hits > 0
        /\ \A k \in 1..2 * C :
            /\ w.ttl = 0 /\ k >= C => ages[k] = Window
            /\ w.ttl > 0 /\ (k >= w.hits \/ k >= C) => ages[k] >= Window - w.ttl
            /\ w.ttl > 0 /\ (k >= w.hits + C \/ k = 2 * C) => ages[k] = Window
    BY DEF BurstOK
  <1> HIDE DEF C, v, old
  <1>1. ASSUME w.ttl = 0 PROVE BurstOK(v, old)
    BY <1>b, <1>w, <1>v, <1>a, <1>o, <1>1 DEF BurstOK, C
  <1>2. ASSUME w.ttl = 1 PROVE BurstOK(v, old)
    <2>1. \A k \in 1..2 * C : k >= C => old[k] = Window
      BY <1>b, <1>w, <1>a, <1>o, <1>2
    <2> QED
      BY <1>v, <1>2, <2>1 DEF BurstOK, C
  <1>3. ASSUME w.ttl > 1 PROVE BurstOK(v, old)
    <2>1. v.ttl = w.ttl - 1 /\ v.hits = w.hits /\ v.ttl > 0 /\ v.hits > 0
      BY <1>w, <1>v, <1>o, <1>3
    <2>2. ASSUME NEW k \in 1..2 * C
          PROVE  /\ (k >= w.hits \/ k >= C) => old[k] >= Window - (w.ttl - 1)
                 /\ (k >= w.hits + C \/ k = 2 * C) => old[k] = Window
      BY <1>b, <1>w, <1>a, <1>o, <1>3
    <2> QED
      BY <2>1, <2>2 DEF BurstOK, C
  <1> QED
    BY <1>w, <1>1, <1>2, <1>3 DEF C, v, old

LEMMA InitBursts == BoundAssumption /\ Init => Bursts
  BY DEF BoundAssumption, Init, Bursts, BurstOK

LEMMA StepBursts == BoundAssumption /\ TypeOK /\ Bursts /\ [Next]_vars => Bursts'
  <1> SUFFICES ASSUME BoundAssumption, TypeOK, Bursts, [Next]_vars
               PROVE  Bursts'
    OBVIOUS
  <1>t. window \in [Riders -> WindowType] /\ admitted \in [Riders -> Ages]
    BY DEF TypeOK, WindowType, Ages
  <1>1. ASSUME UNCHANGED limiter PROVE Bursts'
    BY <1>1 DEF limiter, Bursts, BurstOK
  <1>2. ASSUME NEW t \in Tasks, Request(t) PROVE Bursts'
    <2>1. PICK r \in Riders :
            /\ window' = [window EXCEPT ![r] = Hit(window[r])]
            /\ IF Hit(window[r]).hits <= Capacity
               THEN admitted' = [admitted EXCEPT ![r] = LetThrough(admitted[r])]
               ELSE admitted' = admitted
      BY <1>2 DEF Request
    <2>2. /\ window'[r] = Hit(window[r])
          /\ admitted'[r] = IF Hit(window[r]).hits <= Capacity THEN LetThrough(admitted[r])
                                                              ELSE admitted[r]
          /\ \A s \in Riders \ {r} : window'[s] = window[s] /\ admitted'[s] = admitted[s]
      BY <1>t, <2>1
    <2>3. BurstOK(window'[r], admitted'[r])
      BY <1>t, <2>2, HitKeepsBurst DEF Bursts
    <2>4. \A s \in Riders : BurstOK(window'[s], admitted'[s])
      BY <2>2, <2>3 DEF Bursts
    <2> QED
      BY <2>4 DEF Bursts, BurstOK
  <1>3. ASSUME Tick PROVE Bursts'
    <2>1. ASSUME NEW r \in Riders PROVE BurstOK(window'[r], admitted'[r])
      <3>1. /\ window'[r] = IF window[r].ttl = 1 THEN [hits |-> 0, ttl |-> 0]
                            ELSE [window[r] EXCEPT !.ttl = Down(@)]
            /\ admitted'[r] = Later(admitted[r])
        BY <1>3 DEF Tick, Later
      <3> QED
        BY <1>t, <3>1, TickKeepsBurst DEF Bursts
    <2> QED
      BY <2>1 DEF Bursts, BurstOK
  <1> QED
    BY <1>1, <1>2, <1>3 DEF Next, vars, CountPending, GeoSearch, FilterFree, GetSurge, SetSurge,
                            InsertRide, Fail, OtherRides, Move

-----------------------------------------------------------------------------
(* The theorems                                                            *)

LEMMA InvariantHolds == Spec => []IInv
  <1>1. SetAssumption /\ DistanceAssumption /\ BoundAssumption
    BY SetAssumption, DistanceAssumption, BoundAssumption
  <1>2. Init => IInv
    BY <1>1, InitInv
  <1>3. IInv /\ [Next]_vars => IInv'
    BY <1>1, StepInv
  <1> QED
    BY <1>2, <1>3, PTL DEF Spec

\* The stores and requests keep their types: no counter of the limiter passes its window.
THEOREM TypeCorrect == Spec => []TypeOK
  <1>1. IInv => TypeOK
    BY DEF IInv
  <1> QED
    BY <1>1, InvariantHolds, PTL

\* Every multiplier, cached or about to be paid, is the nearest to one request's counts,
\* and every fare the base fare times it, however many requests share the cell.
THEOREM PricesComeFromCounts == Spec => []PricedByCounts
  <1>1. IInv => PricedByCounts
    BY DEF IInv, CacheOK, Good, PaidFor, PricedByCounts
  <1> QED
    BY <1>1, InvariantHolds, PTL

\* No fare goes by counts older than the TTL and the time two requests take.
THEOREM QuotesStayFresh == Spec => []QuotesAreFresh
  <1>1. IInv => QuotesAreFresh
    <2> SUFFICES ASSUME IInv, NEW t \in Tasks, pc[t] = "insert"
                 PROVE  quote[t].counts.age < SurgeTtl + 2 * MaxDelay
      BY DEF QuotesAreFresh
    <2>1. quote[t] \in QuoteType /\ Good(quote[t], "insert")
      BY DEF IInv, TypeOK, QuoteType
    <2>2. /\ quote[t].counts.age < SurgeTtl + MaxDelay + quote[t].age
          /\ quote[t].age \in 0..MaxDelay /\ quote[t].counts.age \in Nat
      BY <2>1 DEF Good, QuoteType, Counts
    <2> QED
      BY <2>2, BoundAssumption DEF BoundAssumption
  <1> QED
    BY <1>1, InvariantHolds, PTL

\* A search misses somebody who is free in range all along only when GEOSEARCH returned its
\* fill of others.
THEOREM SearchMissesInCrowds == Spec => []MissedOnlyWhenCrowded
  <1>1. IInv => MissedOnlyWhenCrowded
    BY DEF IInv, Good, Crowded, MissedOnlyWhenCrowded
  <1> QED
    BY <1>1, InvariantHolds, PTL

\* Whatever the capacity and the window, fewer than twice the capacity of a rider's
\* requests are let through in any stretch as long as the window.
THEOREM BurstsStayBounded == Spec => []BurstsAreBounded
  <1>1. BoundAssumption
    BY BoundAssumption
  <1>2. Init => Bursts
    BY <1>1, InitBursts
  <1>3. TypeOK /\ Bursts /\ [Next]_vars => Bursts'
    BY <1>1, StepBursts
  <1>4. TypeOK /\ Bursts => BurstsAreBounded
    <2> SUFFICES ASSUME TypeOK, Bursts, NEW r \in Riders
                 PROVE  admitted[r][2 * Capacity] = Window
      BY DEF BurstsAreBounded
    <2>1. window[r].ttl \in 0..Window /\ BurstOK(window[r], admitted[r])
      BY DEF TypeOK, Bursts
    <2>2. 2 * Capacity \in 1..2 * Capacity /\ 2 * Capacity >= Capacity /\ Window \in Nat
      BY <1>1 DEF BoundAssumption
    <2> QED
      BY <2>1, <2>2 DEF BurstOK
  <1> QED
    BY <1>2, <1>3, <1>4, TypeCorrect, PTL DEF Spec
=============================================================================
