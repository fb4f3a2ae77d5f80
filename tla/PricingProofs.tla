---------------------------- MODULE PricingProofs ----------------------------
(***************************************************************************)
(* Theorems about the arithmetic of Pricing, for every count, distance and *)
(* multiplier.                                                             *)
(***************************************************************************)
EXTENDS Pricing, Integers, TLAPS

\* Python's // of naturals.
LEMMA Division ==
    ASSUME NEW a \in Nat, NEW b \in Nat \ {0}
    PROVE  a \div b \in Nat /\ b * (a \div b) <= a /\ a < b * (a \div b) + b
  BY Z3

\* quantize() returns the nearest hundredth, a half going up: at most half a hundredth
\* above the fraction, less than half a hundredth below it.
THEOREM RoundsToNearest ==
    ASSUME NEW n \in Nat, NEW m \in Nat \ {0}
    PROVE  /\ RoundHalfUp(n, m) \in Nat
           /\ (2 * RoundHalfUp(n, m) - 1) * m <= 2 * n
           /\ 2 * n < (2 * RoundHalfUp(n, m) + 1) * m
  <1> DEFINE r == (2 * n + m) \div (2 * m)
  <1>1. 2 * n + m \in Nat /\ 2 * m \in Nat \ {0}
    OBVIOUS
  <1>2. r \in Nat /\ (2 * m) * r <= 2 * n + m /\ 2 * n + m < (2 * m) * r + 2 * m
    BY <1>1, Division
  <1> HIDE DEF r
  <1>3. (2 * m) * r = 2 * (m * r) /\ (2 * r - 1) * m = 2 * (m * r) - m
                                  /\ (2 * r + 1) * m = 2 * (m * r) + m
    BY <1>2, Z3
  <1>4. m * r \in Nat
    BY <1>2, Z3
  <1>5. (2 * r - 1) * m <= 2 * n /\ 2 * n < (2 * r + 1) * m
    BY <1>2, <1>3, <1>4
  <1>6. RoundHalfUp(n, m) = r
    BY DEF RoundHalfUp, r
  <1> QED
    BY <1>2, <1>5, <1>6

\* A whole number of hundredths below the fraction stays below what it is rounded to, and
\* one above it stays above.
LEMMA RoundingIsMonotone ==
    ASSUME NEW n \in Nat, NEW m \in Nat \ {0}, NEW k \in Nat
    PROVE  /\ k * m <= n => k <= RoundHalfUp(n, m)
           /\ n <= k * m => RoundHalfUp(n, m) <= k
  <1> DEFINE r == RoundHalfUp(n, m)
  <1>1. r \in Nat /\ (2 * r - 1) * m <= 2 * n /\ 2 * n < (2 * r + 1) * m
    BY RoundsToNearest
  <1> HIDE DEF r
  <1>2. ASSUME k * m <= n, r < k PROVE FALSE
    <2>1. (2 * r + 1) * m <= (2 * k - 1) * m
      BY <1>1, <1>2, Z3
    <2>2. (2 * k - 1) * m = 2 * (k * m) - m /\ k * m \in Nat
      BY Z3
    <2> QED
      BY <1>1, <1>2, <2>1, <2>2, Z3
  <1>3. ASSUME n <= k * m, k < r PROVE FALSE
    <2>1. (2 * k + 1) * m <= (2 * r - 1) * m
      BY <1>1, <1>3, Z3
    <2>2. (2 * k + 1) * m = 2 * (k * m) + m /\ k * m \in Nat
      BY Z3
    <2> QED
      BY <1>1, <1>3, <2>1, <2>2, Z3
  <1>4. (k * m <= n => k <= r) /\ (n <= k * m => r <= k)
    BY <1>1, <1>2, <1>3
  <1> QED
    BY <1>4 DEF r

\* compute_surge_multiplier never leaves 1.00 to 3.00.
THEOREM SurgeIsClamped ==
    ASSUME NEW p \in Nat, NEW a \in Nat
    PROVE  SurgeMultiplier(p, a) \in SurgeMin..SurgeMax
  <1>1. CASE a = 0 \/ p >= 3 * a \/ p <= a
    BY <1>1 DEF SurgeMultiplier, SurgeMin, SurgeMax
  <1>2. CASE a # 0 /\ a < p /\ p < 3 * a
    <2>1. SurgeMultiplier(p, a) = RoundHalfUp(100 * p, a)
      BY <1>2 DEF SurgeMultiplier
    <2>2. 100 * p \in Nat /\ a \in Nat \ {0}
      BY <1>2
    <2>3. RoundHalfUp(100 * p, a) \in Nat
      BY <2>2, RoundsToNearest
    <2>4. 100 <= RoundHalfUp(100 * p, a)
      <3>1. 100 * a <= 100 * p
        BY <1>2
      <3> QED
        BY <2>2, <3>1, RoundingIsMonotone
    <2>5. RoundHalfUp(100 * p, a) <= 300
      <3>1. 100 * p <= 300 * a
        BY <1>2
      <3> QED
        BY <2>2, <3>1, RoundingIsMonotone
    <2> QED
      BY <2>1, <2>3, <2>4, <2>5 DEF SurgeMin, SurgeMax
  <1> QED
    BY <1>1, <1>2

\* Nobody pays less for one more ride waiting: the multiplier grows with the demand.
THEOREM SurgeGrowsWithDemand ==
    ASSUME NEW p \in Nat, NEW q \in Nat, NEW a \in Nat, p <= q
    PROVE  SurgeMultiplier(p, a) <= SurgeMultiplier(q, a)
  <1>1. SurgeMultiplier(p, a) \in SurgeMin..SurgeMax /\ SurgeMultiplier(q, a) \in SurgeMin..SurgeMax
    BY SurgeIsClamped
  <1>2. CASE a = 0 \/ q >= 3 * a \/ p <= a
    BY <1>1, <1>2 DEF SurgeMultiplier, SurgeMin, SurgeMax
  <1>3. CASE a # 0 /\ a < p /\ q < 3 * a
    <2>1. /\ SurgeMultiplier(p, a) = RoundHalfUp(100 * p, a)
          /\ SurgeMultiplier(q, a) = RoundHalfUp(100 * q, a)
      BY <1>3 DEF SurgeMultiplier
    <2>2. 100 * p \in Nat /\ 100 * q \in Nat /\ a \in Nat \ {0}
      BY <1>3
    <2> DEFINE r == RoundHalfUp(100 * p, a)
               s == RoundHalfUp(100 * q, a)
    <2>3. /\ r \in Nat /\ (2 * r - 1) * a <= 2 * (100 * p)
          /\ s \in Nat /\ 2 * (100 * q) < (2 * s + 1) * a
      BY <2>2, RoundsToNearest
    <2> HIDE DEF r, s
    <2>4. ASSUME s < r PROVE FALSE
      <3>1. (2 * s + 1) * a <= (2 * r - 1) * a
        BY <2>3, <2>4, Z3
      <3>2. (2 * s + 1) * a \in Int /\ (2 * r - 1) * a \in Int
        BY <2>3, Z3
      <3> QED
        BY <2>3, <3>1, <3>2
    <2>5. r <= s
      BY <2>3, <2>4
    <2> QED
      BY <2>1, <2>5 DEF r, s
  <1> QED
    BY <1>2, <1>3

\* With any multiplier the code computes, a fare is at least the $2.00 of a trip of no
\* length, whatever is rounded.
THEOREM FareIsAtLeastTheBase ==
    ASSUME NEW metres \in Nat, NEW surge \in SurgeMin..SurgeMax
    PROVE  200 <= Fare(metres, surge)
  <1> DEFINE b == BaseFare(metres)
  <1>1. b \in Nat /\ 200000 <= b
    BY DEF BaseFare
  <1>2. surge \in Nat /\ 100 <= surge
    BY DEF SurgeMin, SurgeMax
  <1> HIDE DEF b
  <1>3. b * surge \in Nat /\ 200 * 100000 <= b * surge
    BY <1>1, <1>2, Z3
  <1>4. 200 <= RoundHalfUp(b * surge, 100000)
    BY <1>3, RoundingIsMonotone
  <1> QED
    BY <1>4 DEF Fare, b
=============================================================================
