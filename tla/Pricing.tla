------------------------------- MODULE Pricing -------------------------------
(***************************************************************************)
(* The arithmetic of pricing.py.  Its Decimals have two places after the   *)
(* point: a multiplier is counted in hundredths and a fare in cents.       *)
(* Distances, the Haversine of pickup and dropoff, are in metres.          *)
(***************************************************************************)
EXTENDS Naturals

SurgeMin == 100
SurgeMax == 300

RoundHalfUp_Down(n, m) == n \div m

\* quantize(TWO_PLACES, rounding=ROUND_HALF_UP) of the fraction n/m.
RoundHalfUp(n, m) == (2 * n + m) \div (2 * m)

\* compute_surge_multiplier: pending/available, clamped and then rounded.
SurgeMultiplier(pending, available) ==
    CASE available = 0 -> SurgeMax
      [] available # 0 /\ pending >= 3 * available -> SurgeMax
      [] available # 0 /\ pending <= available -> SurgeMin
      [] OTHER -> RoundHalfUp(100 * pending, available)

\* calculate_base_fare, in thousandths of a cent: $2.00 and $1.50 a kilometre.
BaseFare(metres) == 200000 + 150 * metres

\* calculate_fare.
Fare(metres, surge) == RoundHalfUp(BaseFare(metres) * surge, 100000)
=============================================================================
