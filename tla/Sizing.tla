-------------------------------- MODULE Sizing --------------------------------
(***************************************************************************)
(* What an analysis recommends: the side, the edge and the stake computed  *)
(* by Calculator.analyze_market, the edge it demands of a market that is   *)
(* about to close (utils/probability.py), and the two Kelly formulas, the  *)
(* one of the calculator and the one of utils/kelly.py with its floor and  *)
(* its cap.                                                                *)
(*                                                                         *)
(* Prices and probabilities are whole percents, money is whole cents, and  *)
(* divisions round down, where the code rounds amounts to cents.           *)
(***************************************************************************)
EXTENDS Integers

CONSTANTS
  KellyPct,    \* kelly_fraction of the strategy, in percent
  MaxBetPct,   \* MAX_BET_PCT
  ExposurePct, \* TOTAL_EXPOSURE_PCT
  MinBet,      \* MIN_BET_SIZE
  MaxStake,    \* max_bet_amount
  MinEdge,     \* min_edge
  EdgeRamp,    \* edge_escalation_multiplier
  MinSources,  \* min_sources
  MaxDaysAhead \* max_days_ahead

ASSUME SizingAssumption ==
  /\ {KellyPct, MaxBetPct, ExposurePct} \subseteq 0 .. 100
  /\ {MinBet, MaxStake, MinEdge, MinSources, MaxDaysAhead} \subseteq Nat
  /\ EdgeRamp \in Nat \ {0}

One == 100
Percent == 0 .. One
Quote == [yes : Percent, no : Percent]

Lesser(a, b)  == IF a < b THEN a ELSE b
Greater(a, b) == IF a > b THEN a ELSE b
Magnitude(a)  == IF a < 0 THEN -a ELSE a
-----------------------------------------------------------------------------
(* Kelly: f* = (b p - q) / b with b = 1/price - 1, that is (p - price) over *)
(* (1 - price), and 0 where the odds make no sense.                         *)

Sensible(prob, price) == prob \in 1 .. One - 1 /\ price \in 1 .. One - 1

\* The stake for a bankroll: kelly_criterion with its fraction applied.
Kelly(bankroll, prob, price) ==
  IF Sensible(prob, price) /\ prob > price
    THEN (bankroll * KellyPct * (prob - price)) \div (One * (One - price)) ELSE 0

\* kelly_bet_amount: never below the floor, unless the cap is.
KellyBet(portfolio, prob, price) ==
  IF portfolio <= 0 \/ ~ Sensible(prob, price) \/ prob <= price THEN 0
  ELSE Lesser(Greater(Kelly(portfolio, prob, price), MinBet),
              (portfolio * MaxBetPct) \div One)

\* calculate_position_size_with_risk: what the exposure cap has left, and
\* the floor applied once more, last.
PositionSize(portfolio, exposure, prob, price) ==
  IF prob <= 0 \/ price <= 0 THEN 0
  ELSE LET left == Greater(0, (portfolio * ExposurePct) \div One - exposure)
       IN  Greater(Lesser(KellyBet(portfolio, prob, price), left), MinBet)
-----------------------------------------------------------------------------
(* The advice.                                                              *)

YesEdge(prob, quote) == prob - quote.yes
NoEdge(prob, quote)  == (One - prob) - quote.no

Side(prob, quote) ==
  IF YesEdge(prob, quote) > 0 THEN "YES"
  ELSE IF NoEdge(prob, quote) > 0 THEN "NO" ELSE "none"

Edge(prob, quote) ==
  IF Side(prob, quote) = "NO" THEN NoEdge(prob, quote) ELSE YesEdge(prob, quote)

\* A mistake: NO is staked at the complement of the YES price, as open bets
\* are valued.
AmountByComplement(prob, quote, bankroll) ==
  LET kelly == CASE Side(prob, quote) = "YES" -> Kelly(bankroll, prob, quote.yes)
                 [] Side(prob, quote) = "NO"  -> Kelly(bankroll, One - prob, One - quote.yes)
                 [] OTHER -> 0
  IN  Lesser(kelly, MaxStake)

RecommendedAmount(prob, quote, bankroll) ==
  LET kelly == CASE Side(prob, quote) = "YES" -> Kelly(bankroll, prob, quote.yes)
                 [] Side(prob, quote) = "NO"  -> Kelly(bankroll, One - prob, quote.no)
                 [] OTHER -> 0
  IN  Lesser(kelly, MaxStake)

\* compute_effective_min_edge: doubled where the models disagree, and raised
\* towards EdgeRamp times as much in the last hours; hours says how many of
\* the ramp's are left, out of span.
EffectiveMinEdge(wide, hours, span) ==
  LET base == IF wide THEN 2 * MinEdge ELSE MinEdge
  IN  IF hours >= span THEN base
      ELSE IF hours <= 0 THEN base * EdgeRamp
      ELSE base + (base * (EdgeRamp - 1) * (span - hours)) \div span

\* A market without liquidity is not refused: min_liquidity is 0.
ShouldBet(prob, quote, bankroll, minEdge, sources, daysAhead) ==
  /\ Magnitude(Edge(prob, quote)) >= minEdge
  /\ sources >= MinSources
  /\ daysAhead \in 0 .. MaxDaysAhead
  /\ RecommendedAmount(prob, quote, bankroll) > One
=============================================================================
