------------------------------ MODULE ScanProofs ------------------------------
(***************************************************************************)
(* What the scan loop decides, for every set of markets and queries, every *)
(* offer, forecast and limit, and any number of scans: no stored advice is *)
(* unsound, no bet is made out of time, and no analysis is bet on twice.   *)
(* First what the operators of Sizing return, for every probability, quote *)
(* and bankroll; then an inductive invariant about advice and days, which  *)
(* does not need the types of the other tables, because what is read from  *)
(* them is checked on the way; then the types and the ids.                 *)
(***************************************************************************)
EXTENDS Scan, SumProofs
-----------------------------------------------------------------------------
(* Sizing.                                                                  *)

LEMMA Division ==
  ASSUME NEW n \in Nat, NEW d \in Nat \ {0}
  PROVE  n \div d \in Nat /\ (n \div d) * d <= n
  OBVIOUS

\* The stake of kelly_criterion is nothing, or Kelly's share of the bankroll
\* rounded down.
LEMMA KellyBound ==
  ASSUME NEW bankroll \in Nat, NEW prob \in Percent, NEW price \in Percent
  PROVE  /\ Kelly(bankroll, prob, price) \in Nat
         /\ Kelly(bankroll, prob, price) # 0 => prob > price /\ price < One
         /\ Kelly(bankroll, prob, price) # 0 =>
              Kelly(bankroll, prob, price) * (One * (One - price))
                <= bankroll * KellyPct * (prob - price)
<1>1. CASE Sensible(prob, price) /\ prob > price
  <2> DEFINE n == bankroll * KellyPct * (prob - price)
             d == One * (One - price)
  <2>1. bankroll * KellyPct \in Nat
    BY SizingAssumption
  <2>2. prob - price \in Nat
    BY <1>1 DEF Percent, One
  <2>3. n \in Nat
    BY <2>1, <2>2
  <2>4. d \in Nat \ {0} /\ price < One
    BY <1>1 DEF Sensible, One
  <2>5. Kelly(bankroll, prob, price) = n \div d
    BY <1>1 DEF Kelly
  <2> HIDE DEF n, d
  <2>6. n \div d \in Nat /\ (n \div d) * d <= n
    BY <2>3, <2>4, Division
  <2> QED
    BY <1>1, <2>4, <2>5, <2>6 DEF n, d
<1>2. CASE ~ (Sensible(prob, price) /\ prob > price)
  BY <1>2 DEF Kelly
<1> QED
  BY <1>1, <1>2

\* The demanded edge is never below min_edge, wherever in the ramp the market
\* is.
LEMMA DemandAtLeastMinEdge ==
  ASSUME NEW wide \in BOOLEAN, NEW hours \in Int, NEW span \in Nat \ {0}
  PROVE  EffectiveMinEdge(wide, hours, span) \in Nat
         /\ EffectiveMinEdge(wide, hours, span) >= MinEdge
<1> DEFINE base == IF wide THEN 2 * MinEdge ELSE MinEdge
<1>1. base \in Nat /\ base >= MinEdge /\ MinEdge \in Nat
  BY SizingAssumption
<1>2. EdgeRamp - 1 \in Nat /\ EdgeRamp \in Nat
  BY SizingAssumption
<1> HIDE DEF base
<1>3. base * (EdgeRamp - 1) \in Nat
  BY <1>1, <1>2
<1>4. base * EdgeRamp = base + base * (EdgeRamp - 1)
  BY <1>1, <1>2
<1>5. CASE hours >= span
  BY <1>1, <1>5 DEF EffectiveMinEdge, base
<1>6. CASE hours < span /\ hours <= 0
  <2>1. EffectiveMinEdge(wide, hours, span) = base * EdgeRamp
    BY <1>6 DEF EffectiveMinEdge, base
  <2> QED
    BY <1>1, <1>3, <1>4, <2>1
<1>7. CASE hours < span /\ hours > 0
  <2>1. span - hours \in Nat
    BY <1>7
  <2>2. base * (EdgeRamp - 1) * (span - hours) \in Nat
    BY <1>3, <2>1
  <2>3. (base * (EdgeRamp - 1) * (span - hours)) \div span \in Nat
    BY <2>2, Division
  <2>4. EffectiveMinEdge(wide, hours, span)
          = base + (base * (EdgeRamp - 1) * (span - hours)) \div span
    BY <1>7 DEF EffectiveMinEdge, base
  <2> QED
    BY <1>1, <2>3, <2>4
<1> QED
  BY <1>5, <1>6, <1>7

\* The price and the probability of the recommended side.
PriceOf(side, quote) == IF side = "YES" THEN quote.yes ELSE quote.no
ChanceOf(side, prob) == IF side = "YES" THEN prob ELSE One - prob

\* An analysis that says should_bet recommends a side; on that side it has
\* the edge it demands, and the stake is within Kelly's share of the bankroll
\* and within max_bet_amount: for any limits, and also where the two prices
\* do not add up to one.
THEOREM AdviceIsSound ==
  ASSUME NEW prob \in Percent, NEW quote,
         quote.yes \in 1 .. One - 1, quote.no \in 1 .. One - 1,
         NEW bankroll \in Nat, NEW minEdge \in Nat, NEW sources, NEW daysAhead,
         ShouldBet(prob, quote, bankroll, minEdge, sources, daysAhead)
  PROVE  LET side   == Side(prob, quote)
             edge   == ChanceOf(side, prob) - PriceOf(side, quote)
             amount == RecommendedAmount(prob, quote, bankroll)
         IN  /\ side # "none"
             /\ edge >= minEdge
             /\ amount * One * (One - PriceOf(side, quote)) <= bankroll * KellyPct * edge
             /\ amount <= MaxStake
<1> DEFINE side   == Side(prob, quote)
           chance == ChanceOf(side, prob)
           price  == PriceOf(side, quote)
           kelly  == Kelly(bankroll, chance, price)
           amount == RecommendedAmount(prob, quote, bankroll)
<1>1. chance \in Percent /\ price \in 1 .. One - 1
  BY DEF Percent, One, ChanceOf, PriceOf
<1>2. side # "none" /\ amount = Lesser(kelly, MaxStake) /\ amount > One
  <2>1. amount > One
    BY DEF ShouldBet
  <2>2. CASE side = "YES"
    <3>1. chance = prob /\ price = quote.yes
      BY <2>2 DEF ChanceOf, PriceOf
    <3> QED
      BY <2>1, <2>2, <3>1 DEF RecommendedAmount
  <2>3. CASE side = "NO"
    <3>1. chance = One - prob /\ price = quote.no
      BY <2>3 DEF ChanceOf, PriceOf
    <3> QED
      BY <2>1, <2>3, <3>1 DEF RecommendedAmount
  <2>4. CASE side = "none"
    <3>1. amount = Lesser(0, MaxStake)
      BY <2>4 DEF RecommendedAmount
    <3> QED
      BY <2>1, <3>1, SizingAssumption DEF Lesser, One
  <2> QED
    BY <2>2, <2>3, <2>4 DEF Side
<1>3. chance - price >= minEdge
  BY <1>1, <1>2 DEF ShouldBet, Edge, Side, YesEdge, NoEdge, Magnitude, ChanceOf, PriceOf, Percent, One
<1>4. kelly \in Nat /\ kelly * (One * (One - price)) <= bankroll * KellyPct * (chance - price)
  <2>1. price \in Percent
    BY <1>1 DEF Percent, One
  <2>2. kelly \in Nat /\ kelly # 0
    BY <1>1, <1>2, <2>1, KellyBound, SizingAssumption DEF Lesser, One
  <2> QED
    BY <1>1, <2>1, <2>2, KellyBound
<1>5. amount \in Nat /\ amount <= kelly /\ amount <= MaxStake
  BY <1>2, <1>4, SizingAssumption DEF Lesser
<1>6. amount * One * (One - price) <= kelly * (One * (One - price))
  <2>1. One * (One - price) \in Nat
    BY <1>1 DEF One
  <2>2. amount * (One * (One - price)) <= kelly * (One * (One - price))
    BY <1>4, <1>5, <2>1
  <2>3. amount * One * (One - price) = amount * (One * (One - price))
    BY <1>1, <1>5 DEF One
  <2> QED
    BY <2>2, <2>3
<1>7. bankroll * KellyPct * (chance - price) \in Int
  <2>1. bankroll * KellyPct \in Int
    BY SizingAssumption
  <2>2. chance - price \in Int
    BY <1>1 DEF Percent, One
  <2> HIDE DEF chance, price
  <2> QED
    BY <2>1, <2>2
<1>8. amount * One * (One - price) <= bankroll * KellyPct * (chance - price)
  <2>1. amount * One * (One - price) \in Int /\ kelly * (One * (One - price)) \in Int
    BY <1>1, <1>4, <1>5 DEF One
  <2> QED
    BY <1>4, <1>6, <1>7, <2>1
<1> QED
  BY <1>2, <1>3, <1>5, <1>8

\* kelly_bet_amount never exceeds max_bet_pct of the portfolio, not even by
\* its floor.
THEOREM KellyBetWithinCap ==
  ASSUME NEW portfolio \in Nat, NEW prob \in Percent, NEW price \in Percent
  PROVE  /\ KellyBet(portfolio, prob, price) \in Nat
         /\ KellyBet(portfolio, prob, price) * One <= portfolio * MaxBetPct
<1>1. portfolio * MaxBetPct \in Nat
  BY SizingAssumption
<1>2. /\ (portfolio * MaxBetPct) \div One \in Nat
      /\ ((portfolio * MaxBetPct) \div One) * One <= portfolio * MaxBetPct
  BY <1>1, Division DEF One
<1>3. Kelly(portfolio, prob, price) \in Nat
  BY KellyBound
<1>4. Greater(Kelly(portfolio, prob, price), MinBet) \in Nat
  BY <1>3, SizingAssumption DEF Greater
<1> QED
  BY <1>1, <1>2, <1>4 DEF KellyBet, Lesser, One

\* calculate_position_size_with_risk does exceed its caps: the floor is
\* applied last, so it never returns less than MIN_BET_SIZE for a probability
\* and a price above 0, whatever Kelly says and however little is left.
THEOREM FloorComesLast ==
  ASSUME NEW portfolio \in Nat, NEW exposure \in Nat,
         NEW prob \in 1 .. One, NEW price \in 1 .. One
  PROVE  PositionSize(portfolio, exposure, prob, price) >= MinBet
<1>1. prob \in Percent /\ price \in Percent
  BY DEF Percent, One
<1>2. KellyBet(portfolio, prob, price) \in Nat
  BY <1>1, KellyBetWithinCap
<1>3. (portfolio * ExposurePct) \div One \in Nat
  <2>1. portfolio * ExposurePct \in Nat
    BY SizingAssumption
  <2> QED
    BY <2>1, Division DEF One
<1> DEFINE left == Greater(0, (portfolio * ExposurePct) \div One - exposure)
<1>4. left \in Nat
  BY <1>3 DEF Greater
<1>5. PositionSize(portfolio, exposure, prob, price)
        = Greater(Lesser(KellyBet(portfolio, prob, price), left), MinBet)
  BY DEF PositionSize, One
<1> QED
  BY <1>2, <1>4, <1>5, SizingAssumption DEF Greater, Lesser
-----------------------------------------------------------------------------
(* Advice and days.                                                         *)

\* What SoundAdvice says of one analysis.
SoundSignal(s) ==
  s.should_bet =>
    LET prob == IF s.side = "YES" THEN s.prob ELSE One - s.prob
        price == SidePrice(s.quote, s.side)
    IN  /\ s.side # "none"
        /\ prob - price >= MinEdge
        /\ s.amount * One * (One - price) <= Bankroll * KellyPct * (prob - price)
        /\ s.amount <= MaxStake

\* An analysis to bet on was made at most MaxDaysAhead before its market.
TimelySignal(s) ==
  /\ s.market \in Market /\ s.day \in Nat /\ s.day <= day
  /\ s.should_bet => Day[s.market] - s.day \in 0 .. MaxDaysAhead

TimelyBet(b) ==
  /\ {"market", "day", "open"} \subseteq DOMAIN b
  /\ Day[b.market] \in b.day .. b.day + MaxDaysAhead

Believable == day \in Nat /\ forecast \in [Market -> Beliefs \cup {Absent}]
GoodSignals == \A s \in signals : SoundSignal(s) /\ TimelySignal(s)
GoodBets ==
  /\ \E S : bets \in Seq(S)
  /\ \A i \in DOMAIN bets : TimelyBet(bets[i])

ScanInv == Believable /\ GoodSignals /\ GoodBets
-----------------------------------------------------------------------------
LEMMA InitScan == Init => ScanInv
<1> SUFFICES ASSUME Init PROVE ScanInv
  OBVIOUS
<1>1. Believable /\ GoodSignals
  BY DEF Init, Believable, GoodSignals
<1>2. bets \in Seq({}) /\ DOMAIN bets = {}
  BY DEF Init
<1> QED
  BY <1>1, <1>2 DEF ScanInv, GoodBets

\* A market that is analyzed has a forecast, or even chances, and a quote in
\* the range the advice is about.
LEMMA AnalyzedFacts ==
  ASSUME Believable, NEW m \in Market, Analyzed(m)
  PROVE  /\ Belief(m).prob \in Percent /\ Belief(m).wide \in BOOLEAN
         /\ row[m].quote.yes \in 1 .. One - 1 /\ row[m].quote.no \in 1 .. One - 1
<1>1. CASE forecast[m] = Absent
  BY <1>1 DEF Belief, Percent, One, Analyzed, ValidQuote
<1>2. CASE forecast[m] # Absent
  <2>1. forecast[m] \in [prob : Percent, wide : BOOLEAN]
    BY <1>2, ScanAssumption DEF Believable
  <2> QED
    BY <1>2, <2>1 DEF Belief, Analyzed, ValidQuote
<1> QED
  BY <1>1, <1>2

\* One analysis.
LEMMA SignalIsGood ==
  ASSUME Believable, NEW m \in Market, Analyzed(m), NEW id, NEW half \in 0 .. 2
  PROVE  SoundSignal(Signal(m, id, half)) /\ TimelySignal(Signal(m, id, half))
<1> DEFINE b == Belief(m)
           quote == row[m].quote
           hours == IF Day[m] > day THEN 2 ELSE half
           demanded == EffectiveMinEdge(b.wide, hours, 2)
           ahead == Day[m] - day
           s == Signal(m, id, half)
<1>1. /\ b.prob \in Percent /\ b.wide \in BOOLEAN
      /\ quote.yes \in 1 .. One - 1 /\ quote.no \in 1 .. One - 1
  BY AnalyzedFacts
<1>2. demanded \in Nat /\ demanded >= MinEdge
  <2>1. hours \in Int /\ 2 \in Nat \ {0}
    OBVIOUS
  <2> HIDE DEF hours, b
  <2> QED
    BY <1>1, <2>1, DemandAtLeastMinEdge
<1>3. /\ s.market = m /\ s.day = day /\ s.prob = b.prob /\ s.quote = quote
      /\ s.side = Side(b.prob, quote)
      /\ s.amount = RecommendedAmount(b.prob, quote, Bankroll)
      /\ s.should_bet = ShouldBet(b.prob, quote, Bankroll, demanded, Sources(m), ahead)
  BY DEF Signal
<1> HIDE DEF b, quote, demanded, ahead, s
<1>4. SoundSignal(s)
  <2> SUFFICES ASSUME s.should_bet
               PROVE  LET prob == IF s.side = "YES" THEN s.prob ELSE One - s.prob
                          price == SidePrice(s.quote, s.side)
                      IN  /\ s.side # "none"
                          /\ prob - price >= MinEdge
                          /\ s.amount * One * (One - price)
                               <= Bankroll * KellyPct * (prob - price)
                          /\ s.amount <= MaxStake
    BY DEF SoundSignal
  <2>1. ShouldBet(b.prob, quote, Bankroll, demanded, Sources(m), ahead)
    BY <1>3
  <2> DEFINE side == Side(b.prob, quote)
             price == PriceOf(side, quote)
             edge == ChanceOf(side, b.prob) - price
             amount == RecommendedAmount(b.prob, quote, Bankroll)
  <2>2. /\ side # "none" /\ edge >= demanded
        /\ amount * One * (One - price) <= Bankroll * KellyPct * edge
        /\ amount <= MaxStake
    BY <1>1, <1>2, <2>1, ScanAssumption, AdviceIsSound
  <2>3. edge \in Int
    <3>1. price \in Int
      BY <1>1 DEF PriceOf, One
    <3>2. ChanceOf(side, b.prob) \in Int
      BY <1>1 DEF ChanceOf, Percent, One
    <3> HIDE DEF price, side
    <3> QED
      BY <3>1, <3>2
  <2>4. edge >= MinEdge
    <3> HIDE DEF edge
    <3>1. MinEdge \in Nat
      BY SizingAssumption
    <3> QED
      BY <1>2, <2>2, <2>3, <3>1
  <2>5. /\ (IF s.side = "YES" THEN s.prob ELSE One - s.prob) = ChanceOf(side, b.prob)
        /\ SidePrice(s.quote, s.side) = price
    BY <1>3 DEF ChanceOf, PriceOf, SidePrice
  <2>6. s.side = side /\ s.amount = amount
    BY <1>3
  <2> HIDE DEF side, price, amount
  <2> QED
    BY <2>2, <2>4, <2>5, <2>6
<1>5. TimelySignal(s)
  BY <1>3 DEF TimelySignal, Believable, ShouldBet, ahead
<1> QED
  BY <1>4, <1>5 DEF s
-----------------------------------------------------------------------------
\* Steps that write neither the day, the forecasts, the analyses nor the bets.
LEMMA OtherTables ==
  ASSUME ScanInv, UNCHANGED <<day, forecast, signals, bets>>
  PROVE  ScanInv'
  BY DEF ScanInv, Believable, GoodSignals, GoodBets, SoundSignal, TimelySignal, TimelyBet

LEMMA AnalyzeStep == ScanInv /\ Analyze => ScanInv'
<1> SUFFICES ASSUME ScanInv, Analyze PROVE ScanInv'
  OBVIOUS
<1>1. UNCHANGED <<day, forecast, bets>>
  BY DEF Analyze, world
<1>2. PICK half \in 0 .. 2 :
        signals' = signals \cup
          {Signal(Markets[i], NextId + Before(i), half) :
             i \in {j \in DOMAIN Markets : Analyzed(Markets[j])}}
  BY DEF Analyze
<1>3. ASSUME NEW s \in signals' PROVE SoundSignal(s) /\ TimelySignal(s)
  <2>1. CASE s \in signals
    BY <2>1 DEF ScanInv, GoodSignals
  <2>2. CASE s \notin signals
    <3>1. PICK i \in DOMAIN Markets : /\ Analyzed(Markets[i])
                                      /\ s = Signal(Markets[i], NextId + Before(i), half)
      BY <1>2, <1>3, <2>2
    <3>2. Markets[i] \in Market
      BY DEF Market
    <3> QED
      BY <3>1, <3>2, SignalIsGood DEF ScanInv
  <2> QED
    BY <2>1, <2>2
<1>4. GoodSignals'
  BY <1>1, <1>3 DEF GoodSignals, SoundSignal, TimelySignal
<1> QED
  BY <1>1, <1>4 DEF ScanInv, Believable, GoodBets, TimelyBet

\* place_bet past its early returns: a row is added, open or refused.
Recorded(s, b, status) ==
  /\ b \in {NewBet(s), Closed(NewBet(s))}
  /\ status \in {row[s.market].status, "bet_placed"}
  /\ bets' = Append(bets, b)
  /\ row' = [row EXCEPT ![s.market].status = status]

LEMMA PlaceRecords ==
  ASSUME PlaceBet \/ PlaceRefuse
  PROVE  /\ queue # <<>> /\ queue' = Tail(queue) /\ Tradable(Head(queue))
         /\ phase = "placing"
         /\ UNCHANGED <<offered, day, cache, forecast, signals, phase, scans>>
         /\ \E b, status : Recorded(Head(queue), b, status)
<1>1. CASE PlaceBet
  <2>1. Recorded(Head(queue), NewBet(Head(queue)), "bet_placed")
    BY <1>1 DEF PlaceBet, Recorded
  <2> QED
    BY <1>1, <2>1 DEF PlaceBet, world
<1>2. CASE PlaceRefuse
  <2>1. PICK status \in {row[Head(queue).market].status, "bet_placed"} :
          row' = [row EXCEPT ![Head(queue).market].status = status]
    BY <1>2 DEF PlaceRefuse
  <2>2. Recorded(Head(queue), Closed(NewBet(Head(queue))), status)
    BY <1>2, <2>1 DEF PlaceRefuse, Recorded
  <2> QED
    BY <1>2, <2>2 DEF PlaceRefuse, world
<1> QED
  BY <1>1, <1>2

LEMMA PlaceBetStep == ScanInv /\ (PlaceBet \/ PlaceRefuse) => ScanInv'
<1> SUFFICES ASSUME ScanInv, PlaceBet \/ PlaceRefuse PROVE ScanInv'
  OBVIOUS
<1> DEFINE s == Head(queue)
<1>0. PICK b, status : Recorded(s, b, status)
  BY PlaceRecords
<1>1. UNCHANGED <<day, forecast, signals>> /\ bets' = Append(bets, b) /\ Tradable(s)
  BY <1>0, PlaceRecords DEF Recorded
<1>2. TimelyBet(b)
  <2>1. s \in signals /\ s.should_bet /\ Day[s.market] >= day
    BY <1>1 DEF Tradable
  <2>2. /\ s.market \in Market /\ s.day \in Nat /\ s.day <= day /\ day \in Nat
        /\ Day[s.market] - s.day \in 0 .. MaxDaysAhead
    BY <2>1 DEF ScanInv, GoodSignals, TimelySignal, Believable
  <2>3. Day[s.market] \in Int /\ MaxDaysAhead \in Nat
    <3>1. Day \in [Market -> 1 .. 31]
      BY ScanAssumption
    <3> QED
      BY <2>2, <3>1, SizingAssumption
  <2>4. Day[s.market] \in day .. day + MaxDaysAhead
    BY <2>1, <2>2, <2>3
  <2>5. b.market = s.market /\ b.day = day /\ {"market", "day", "open"} \subseteq DOMAIN b
    BY <1>0 DEF NewBet, Closed, Recorded
  <2> QED
    BY <2>4, <2>5 DEF TimelyBet
<1>3. PICK S : bets \in Seq(S)
  BY DEF ScanInv, GoodBets
<1>4. bets' \in Seq(S \cup {b})
  BY <1>1, <1>3
<1>5. ASSUME NEW i \in DOMAIN bets' PROVE TimelyBet(bets'[i])
  <2>1. bets'[i] = b \/ (i \in DOMAIN bets /\ bets'[i] = bets[i])
    BY <1>1, <1>3, <1>5
  <2> QED
    BY <1>2, <2>1 DEF ScanInv, GoodBets
<1>6. GoodBets'
  BY <1>4, <1>5 DEF GoodBets, TimelyBet
<1> QED
  BY <1>1, <1>6 DEF ScanInv, Believable, GoodSignals, SoundSignal, TimelySignal

\* Closing any bets keeps what they say of their day.
LEMMA CloseStep ==
  ASSUME ScanInv, NEW exits,
         bets' = [i \in DOMAIN bets |-> IF i \in exits THEN Closed(bets[i]) ELSE bets[i]]
  PROVE  GoodBets'
<1>1. PICK S : bets \in Seq(S)
  BY DEF ScanInv, GoodBets
<1>2. PICK n \in Nat : DOMAIN bets = 1 .. n
  BY <1>1
<1>3. bets' \in Seq({bets'[i] : i \in 1 .. n})
  BY <1>2
<1>4. ASSUME NEW i \in DOMAIN bets' PROVE TimelyBet(bets'[i])
  <2>1. i \in DOMAIN bets /\ TimelyBet(bets[i])
    BY <1>4 DEF ScanInv, GoodBets
  <2>2. TimelyBet(Closed(bets[i]))
    BY <2>1 DEF TimelyBet, Closed
  <2> QED
    BY <2>1, <2>2
<1> QED
  BY <1>3, <1>4 DEF GoodBets, TimelyBet

LEMMA NextScanInv == ScanInv /\ [Next]_vars => ScanInv'
<1> SUFFICES ASSUME ScanInv, [Next]_vars PROVE ScanInv'
  OBVIOUS
<1>1. CASE \/ NextScan \/ Fetch \/ Raise \/ Restart
           \/ PlaceBegin \/ PlaceSkip \/ PlaceFail \/ PlaceEnd
  BY <1>1, OtherTables
     DEF NextScan, Fetch, PlaceBegin, PlaceSkip, PlaceFail, PlaceEnd, Raise, Restart, world, tables
<1>2. CASE FetchWeather
  <2>1. UNCHANGED <<day, signals, bets>>
    BY <1>2 DEF FetchWeather, world
  <2>2. PICK stored \in SUBSET Market : \E says \in [stored -> Beliefs] :
          forecast' = [m \in Market |-> IF m \in stored THEN says[m] ELSE forecast[m]]
    BY <1>2 DEF FetchWeather
  <2>3. forecast' \in [Market -> Beliefs \cup {Absent}]
    BY <2>2 DEF ScanInv, Believable
  <2> QED
    BY <2>1, <2>3
       DEF ScanInv, Believable, GoodSignals, GoodBets, SoundSignal, TimelySignal, TimelyBet
<1>3. CASE Analyze
  BY <1>3, AnalyzeStep
<1>4. CASE PlaceBet \/ PlaceRefuse
  BY <1>4, PlaceBetStep
<1>5. CASE ManageRisk
  <2>1. UNCHANGED <<day, forecast, signals>>
    BY <1>5 DEF ManageRisk, world
  <2>2. GoodBets'
    BY <1>5, CloseStep DEF ManageRisk
  <2> QED
    BY <2>1, <2>2 DEF ScanInv, Believable, GoodSignals, SoundSignal, TimelySignal
<1>6. CASE Cleanup
  <2>1. UNCHANGED <<day, forecast>> /\ signals' \subseteq signals
    BY <1>6 DEF Cleanup, world
  <2>2. GoodBets'
    <3> DEFINE exits == {i \in DOMAIN bets : bets[i].day < day}
    <3>1. bets' = [i \in DOMAIN bets |-> IF i \in exits THEN Closed(bets[i]) ELSE bets[i]]
      BY <1>6 DEF Cleanup
    <3> QED
      BY <3>1, CloseStep
  <2> QED
    BY <2>1, <2>2 DEF ScanInv, Believable, GoodSignals, SoundSignal, TimelySignal
<1>7. CASE ResetCli
  <2>1. UNCHANGED <<day, forecast>> /\ signals' = {}
    BY <1>7 DEF ResetCli, world
  <2>2. bets' = [i \in DOMAIN bets |-> IF i \in DOMAIN bets THEN Closed(bets[i]) ELSE bets[i]]
    BY <1>7 DEF ResetCli
  <2>3. GoodBets'
    BY <2>2, CloseStep
  <2> QED
    BY <2>1, <2>3 DEF ScanInv, Believable, GoodSignals
<1>8. CASE ResetApi
  <2>1. UNCHANGED <<day, forecast>> /\ signals' = {} /\ bets' = <<>>
    BY <1>8 DEF ResetApi, world
  <2>2. bets' \in Seq({}) /\ DOMAIN bets' = {}
    BY <2>1
  <2> QED
    BY <2>1, <2>2 DEF ScanInv, Believable, GoodSignals, GoodBets
<1>9. CASE MarketMoves
  BY <1>9, OtherTables DEF MarketMoves, tables
<1>10. CASE Tomorrow
  <2>1. day' = day + 1 /\ UNCHANGED <<forecast, signals, bets>>
    BY <1>10 DEF Tomorrow, tables
  <2>2. ASSUME NEW s \in signals PROVE TimelySignal(s)'
    BY <2>1 DEF ScanInv, GoodSignals, TimelySignal, Believable
  <2> QED
    BY <2>1, <2>2 DEF ScanInv, Believable, GoodSignals, GoodBets, SoundSignal, TimelyBet
<1>11. CASE UNCHANGED vars
  BY <1>11, OtherTables DEF vars, world, tables
<1> QED
  BY <1>1, <1>2, <1>3, <1>4, <1>5, <1>6, <1>7, <1>8, <1>9, <1>10, <1>11 DEF Next

LEMMA ScanInvariant == Spec => []ScanInv
  BY InitScan, NextScanInv, PTL DEF Spec

\* No stored analysis recommends a bet without the demanded edge on its own
\* side, or a stake above Kelly's share or the limit: for every market, quote,
\* forecast, bankroll and strategy.
THEOREM StoredAdviceIsSound == Spec => []SoundAdvice
<1>1. ScanInv => SoundAdvice
  BY DEF ScanInv, GoodSignals, SoundSignal, SoundAdvice
<1> QED
  BY <1>1, ScanInvariant, PTL

\* No bet is made after the day of its market or more than MaxDaysAhead before
\* it, however old the analysis it is made from, through restarts, cleanups
\* and resets.
THEOREM EveryBetInTime == Spec => []BetsInTime
<1>1. ScanInv => BetsInTime
  BY DEF ScanInv, GoodBets, TimelyBet, BetsInTime
<1> QED
  BY <1>1, ScanInvariant, PTL
-----------------------------------------------------------------------------
(* Types and ids.                                                           *)

Size == Len(Markets)

\* The scans whose analyses may be there already.
Done == IF phase \in {"fetch", "weather", "analyze"} THEN scans - 1 ELSE scans

Phases ==
  /\ day \in 1 .. MaxDay
  /\ phase \in {"sleep", "fetch", "weather", "analyze", "place", "placing", "risk"}
  /\ scans \in 0 .. MaxScans
  /\ phase # "sleep" => scans # 0
  /\ queue # <<>> => phase = "placing"

World ==
  /\ offered \in [Market -> Offers]
  /\ cache \in [Query -> Answer]
  /\ row \in [Market -> Row \cup {Absent}]

\* A scan gives every market one id at most, so they stay within those of the
\* scans so far.  A market that was analyzed keeps its row.
Analyses ==
  /\ IsFiniteSet(signals)
  /\ \A s \in signals : s \in Signals /\ s.id <= Done * Size /\ row[s.market] \in Row
  /\ \A r, s \in signals : r.id = s.id => r = s

\* No id is in two bets, in a bet and in the queue, or in the queue twice.
BetOnce ==
  /\ bets \in Seq(Bets)
  /\ \A i, j \in DOMAIN bets : bets[i].analysis = bets[j].analysis => i = j

Waiting ==
  /\ queue \in Seq(Signals)
  /\ \A i, j \in DOMAIN queue : queue[i].id = queue[j].id => i = j
  /\ \A i \in DOMAIN queue : \A j \in DOMAIN bets : bets[j].analysis # queue[i].id

TableInv == ScanInv /\ Phases /\ World /\ Analyses /\ BetOnce /\ Waiting

LEMMA TableTypes == TableInv => TypeOK /\ SignalOnce
<1> SUFFICES ASSUME TableInv PROVE TypeOK /\ SignalOnce
  OBVIOUS
<1>1. \A i \in DOMAIN bets : bets[i] \in Bets
  BY DEF TableInv, BetOnce
<1>2. \A i \in DOMAIN queue : queue[i] \in Signals
  BY DEF TableInv, Waiting
<1>3. TypeOK
  BY <1>1, <1>2 DEF TableInv, ScanInv, Believable, Phases, World, Analyses, TypeOK
<1>4. SignalOnce
  BY DEF TableInv, BetOnce, SignalOnce
<1> QED
  BY <1>3, <1>4

LEMMA MarketsCount ==
  /\ Size \in Nat /\ DOMAIN Markets = 1 .. Size
  /\ \A i \in DOMAIN Markets : Markets[i] \in Market
  /\ IsFiniteSet(Market) /\ Cardinality(Market) = Size
  /\ MaxScans \in Nat /\ MaxDay \in 1 .. 31 /\ Day \in [Market -> 1 .. 31]
  /\ Offers \subseteq Quote /\ Bankroll \in Nat
<1>1. Markets \in Seq(Market)
  BY ScanAssumption
<1>2. Size \in Nat /\ DOMAIN Markets = 1 .. Size /\ Markets \in [1 .. Size -> Market]
  BY <1>1 DEF Size
<1>3. Markets \in Bijection(1 .. Size, Market)
  <2>1. \A i, j \in 1 .. Size : Markets[i] = Markets[j] => i = j
    BY <1>2, ScanAssumption
  <2>2. \A m \in Market : \E i \in 1 .. Size : Markets[i] = m
    BY <1>2 DEF Market
  <2> QED
    BY <1>2, <2>1, <2>2 DEF Bijection, Injection, Surjection, IsInjective
<1>4. IsFiniteSet(1 .. Size) /\ Cardinality(1 .. Size) = Size
  BY <1>2, FS_Interval
<1>5. IsFiniteSet(Market) /\ Cardinality(Market) = Size
  <2>1. ExistsBijection(1 .. Size, Market)
    BY <1>3 DEF ExistsBijection
  <2> QED
    BY <1>4, <2>1, FS_Bijection
<1>6. MaxScans \in Nat /\ MaxDay \in 1 .. 31 /\ Day \in [Market -> 1 .. 31]
      /\ Offers \subseteq Quote /\ Bankroll \in Nat
  BY ScanAssumption
<1> QED
  BY <1>2, <1>5, <1>6

LEMMA InitTable == Init => TableInv
<1> SUFFICES ASSUME Init PROVE TableInv
  OBVIOUS
<1>1. Phases
  BY MarketsCount DEF Init, Phases
<1>2. World
  BY DEF Init, World, Answer
<1>3. Analyses
  BY FS_EmptySet DEF Init, Analyses
<1>4. bets = <<>> /\ queue = <<>>
  BY DEF Init
<1>5. BetOnce /\ Waiting
  BY <1>4 DEF BetOnce, Waiting
<1> QED
  BY <1>1, <1>2, <1>3, <1>5, InitScan DEF TableInv

\* Among the queries that list a market there is a first.
LEMMA FirstQuery ==
  ASSUME NEW answers, NEW m, \E q \in Query : Lists(answers[q], m)
  PROVE  \E i \in DOMAIN Queries :
           /\ Lists(answers[Queries[i]], m)
           /\ \A j \in 1 .. i - 1 : ~ Lists(answers[Queries[j]], m)
<1> DEFINE D == {i \in DOMAIN Queries : Lists(answers[Queries[i]], m)}
           key == [i \in D |-> - i]
<1>1. DOMAIN Queries = 1 .. Len(Queries) /\ Len(Queries) \in Nat
  BY ScanAssumption
<1>2. D # {}
  BY DEF Query
<1>3. IsFiniteSet(D)
  <2>1. IsFiniteSet(1 .. Len(Queries)) /\ D \in SUBSET (1 .. Len(Queries))
    BY <1>1, FS_Interval
  <2> HIDE DEF D
  <2> QED
    BY <2>1, FS_Subset
<1>4. \A i \in D : key[i] \in Int
  BY <1>1
<1>5. PICK i \in D : \A j \in D : key[j] <= key[i]
  <2> HIDE DEF D, key
  <2> QED
    BY <1>2, <1>3, <1>4, Highest
<1>6. i \in 1 .. Len(Queries) /\ \A j \in D : i <= j
  BY <1>1, <1>5
<1>7. \A j \in 1 .. i - 1 : j \in 1 .. Len(Queries) /\ ~ i <= j
  BY <1>1, <1>6
<1> QED
  BY <1>1, <1>5, <1>6, <1>7

LEMMA QuoteOffered ==
  ASSUME NEW answers \in [Query -> Answer],
         NEW m \in Found(answers),
         \A q \in Query : Lists(answers[q], m) => answers[q][m] \in Offers
  PROVE  QuoteIn(answers, m) \in Offers
<1> DEFINE P(i) == /\ Lists(answers[Queries[i]], m)
                   /\ \A j \in 1 .. i - 1 : ~ Lists(answers[Queries[j]], m)
           first == CHOOSE i \in DOMAIN Queries : P(i)
<1>1. \E i \in DOMAIN Queries : P(i)
  BY FirstQuery DEF Found
<1>2. first \in DOMAIN Queries /\ P(first)
  <2> HIDE DEF P
  <2> QED
    BY <1>1, Zenon
<1>3. Queries[first] \in Query
  BY <1>2 DEF Query
<1>4. QuoteIn(answers, m) = answers[Queries[first]][m]
  BY DEF QuoteIn
<1> HIDE DEF first
<1> QED
  BY <1>2, <1>3, <1>4

LEMMA FetchTypes ==
  ASSUME World, Fetch
  PROVE  World' /\ \A m \in Market : row[m] \in Row => row'[m] \in Row
<1> DEFINE Good == {NoAnswer} \cup UNION {[S -> Offers] : S \in SUBSET Market}
<1>1. PICK answer \in [Query -> {NoAnswer} \cup {[m \in S |-> offered[m]] : S \in SUBSET Market}] :
        /\ cache' = Answered(answer)
        /\ row' = Upserted(Answered(answer))
  BY DEF Fetch
<1>2. UNCHANGED offered
  BY DEF Fetch, world
<1>3. ASSUME NEW q \in Query PROVE answer[q] \in Good
  <2>1. CASE answer[q] = NoAnswer
    BY <2>1
  <2>2. CASE answer[q] # NoAnswer
    <3>1. PICK S \in SUBSET Market : answer[q] = [m \in S |-> offered[m]]
      BY <2>2
    <3>2. answer[q] \in [S -> Offers]
      BY <3>1 DEF World
    <3> QED
      BY <3>2
  <2> QED
    BY <2>1, <2>2
<1> DEFINE a == Answered(answer)
<1>4. ASSUME NEW q \in Query PROVE a[q] \in Good
  <2>1. CASE cache[q] # Absent
    <3>1. a[q] = cache[q]
      BY <2>1 DEF Answered
    <3> QED
      BY <2>1, <3>1 DEF World, Answer
  <2>2. CASE cache[q] = Absent
    BY <1>3, <2>2 DEF Answered
  <2> QED
    BY <2>1, <2>2
<1>5. a \in [Query -> Answer]
  <2>1. a = [q \in Query |-> a[q]]
    BY DEF Answered
  <2>2. \A q \in Query : a[q] \in Answer
    BY <1>4 DEF Answer
  <2> HIDE DEF a
  <2> QED
    BY <2>1, <2>2
<1> HIDE DEF a
<1>6. ASSUME NEW m \in Market, NEW q \in Query, Lists(a[q], m) PROVE a[q][m] \in Offers
  <2>1. PICK S \in SUBSET Market : a[q] \in [S -> Offers]
    BY <1>4, <1>6 DEF Lists
  <2> QED
    BY <1>6, <2>1 DEF Lists
<1>7. ASSUME NEW m \in Market
      PROVE  /\ row'[m] \in Row \cup {Absent}
             /\ row[m] \in Row => row'[m] \in Row
  <2>1. CASE m \in Found(a) /\ Savable(m)
    <3>1. QuoteIn(a, m) \in Offers
      BY <1>5, <1>6, <2>1, QuoteOffered
    <3>2. row'[m] = [quote |-> QuoteIn(a, m),
                     status |-> IF Shape[m] = "no_coords" THEN "no_coords" ELSE "open"]
      BY <1>1, <2>1 DEF Upserted, a
    <3> QED
      BY <3>1, <3>2 DEF Row
  <2>2. CASE ~ (m \in Found(a) /\ Savable(m))
    <3>1. row'[m] = row[m]
      BY <1>1, <2>2 DEF Upserted, a
    <3> QED
      BY <3>1 DEF World
  <2> QED
    BY <2>1, <2>2
<1>8. row' \in [Market -> Row \cup {Absent}]
  <2>1. row' = [m \in Market |-> row'[m]]
    BY <1>1 DEF Upserted
  <2> QED
    BY <1>7, <2>1
<1> QED
  BY <1>1, <1>2, <1>5, <1>7, <1>8 DEF World, a

\* The highest id there is, or 0 where there is none.
LEMMA NextIdIsNew ==
  ASSUME IsFiniteSet(signals), NEW n \in Nat, \A s \in signals : s.id \in 1 .. n
  PROVE  NextId \in 1 .. n + 1 /\ \A s \in signals : s.id < NextId
<1> DEFINE ids == {s.id : s \in signals} \cup {0}
           key == [i \in ids |-> i]
           P(i) == \A j \in ids : j <= i
<1>1. \A i \in ids : i \in 0 .. n
  OBVIOUS
<1>2. IsFiniteSet(ids)
  <2>1. ids \in SUBSET (0 .. n) /\ IsFiniteSet(0 .. n)
    BY <1>1, FS_Interval
  <2> HIDE DEF ids
  <2> QED
    BY <2>1, FS_Subset
<1>3. \E i \in ids : P(i)
  <2>1. ids # {}
    OBVIOUS
  <2>2. \A i \in ids : key[i] \in Int
    BY <1>1
  <2>3. \E i \in ids : \A j \in ids : key[j] <= key[i]
    <3> HIDE DEF ids, key
    <3> QED
      BY <1>2, <2>1, <2>2, Highest
  <2> HIDE DEF ids
  <2> QED
    BY <2>3
<1> DEFINE top == CHOOSE i \in ids : P(i)
<1>4. top \in ids /\ P(top)
  <2> HIDE DEF ids, P
  <2> QED
    BY <1>3, Zenon
<1>5. NextId = 1 + top
  BY DEF NextId
<1> HIDE DEF top
<1>6. top \in 0 .. n
  BY <1>1, <1>4
<1>7. ASSUME NEW s \in signals PROVE s.id <= top /\ s.id \in Int
  BY <1>4, <1>7
<1> QED
  BY <1>5, <1>6, <1>7

\* A market that is analyzed counts for those after it.
LEMMA BeforeGrows ==
  /\ \A i \in DOMAIN Markets : Before(i) \in 0 .. Size - 1
  /\ \A i, j \in DOMAIN Markets :
       Analyzed(Markets[i]) /\ Analyzed(Markets[j]) /\ Before(i) = Before(j) => i = j
<1> DEFINE B(i) == {j \in 1 .. i - 1 : Analyzed(Markets[j])}
<1>0. Size \in Nat /\ \A i \in DOMAIN Markets : i \in 1 .. Size
  BY MarketsCount
<1>1. ASSUME NEW i \in DOMAIN Markets
      PROVE  /\ i \in 1 .. Size /\ Size \in Nat
             /\ IsFiniteSet(B(i)) /\ Before(i) = Cardinality(B(i)) /\ Before(i) \in 0 .. Size - 1
  <2>1. i \in 1 .. Size /\ Size \in Nat
    BY MarketsCount
  <2>2. IsFiniteSet(1 .. i - 1) /\ Cardinality(1 .. i - 1) = i - 1
    BY <2>1, FS_Interval
  <2>3. B(i) \in SUBSET (1 .. i - 1)
    OBVIOUS
  <2>4. Before(i) = Cardinality(B(i))
    BY DEF Before
  <2> HIDE DEF B
  <2>5. IsFiniteSet(B(i)) /\ Cardinality(B(i)) <= i - 1 /\ Cardinality(B(i)) \in Nat
    BY <2>2, <2>3, FS_Subset, FS_CardinalityType
  <2> QED
    BY <2>1, <2>4, <2>5
<1>2. ASSUME NEW i \in DOMAIN Markets, NEW j \in DOMAIN Markets, i < j, Analyzed(Markets[i])
      PROVE  Before(i) # Before(j)
  <2>1. i \in B(j) /\ i \notin B(i) /\ B(i) \in SUBSET B(j)
    <3>1. i \in 1 .. Size /\ j \in 1 .. Size
      BY <1>0
    <3> QED
      BY <1>0, <1>2, <3>1
  <2>2. Cardinality(B(i)) # Cardinality(B(j))
    <3> HIDE DEF B
    <3> QED
      BY <1>1, <2>1, FS_Subset
  <2> QED
    BY <1>1, <2>2
<1>3. \A i, j \in DOMAIN Markets : i \in Int /\ j \in Int
  BY <1>0
<1>4. \A i \in DOMAIN Markets : Before(i) \in 0 .. Size - 1
  BY <1>1
<1>5. ASSUME NEW i \in DOMAIN Markets, NEW j \in DOMAIN Markets,
             Analyzed(Markets[i]), Analyzed(Markets[j]), Before(i) = Before(j)
      PROVE  i = j
  <2>1. ~ i < j /\ ~ j < i
    BY <1>2, <1>5
  <2> QED
    BY <1>3, <2>1
<1> QED
  BY <1>4, <1>5

LEMMA AmountInRange ==
  ASSUME NEW prob \in Percent, NEW quote, NEW bankroll \in Nat,
         quote.yes \in 1 .. One - 1, quote.no \in 1 .. One - 1
  PROVE  RecommendedAmount(prob, quote, bankroll) \in 0 .. MaxStake
<1>1. quote.yes \in Percent /\ quote.no \in Percent /\ One - prob \in Percent
  BY DEF Percent, One
<1>2. Kelly(bankroll, prob, quote.yes) \in Nat /\ Kelly(bankroll, One - prob, quote.no) \in Nat
  BY <1>1, KellyBound
<1>3. MaxStake \in Nat
  BY SizingAssumption
<1>4. \A k \in Nat : Lesser(k, MaxStake) \in 0 .. MaxStake
  BY <1>3 DEF Lesser
<1>5. CASE Side(prob, quote) = "YES"
  BY <1>2, <1>4, <1>5 DEF RecommendedAmount
<1>6. CASE Side(prob, quote) = "NO"
  BY <1>2, <1>4, <1>6 DEF RecommendedAmount
<1>7. CASE Side(prob, quote) = "none"
  BY <1>4, <1>7 DEF RecommendedAmount
<1> QED
  BY <1>5, <1>6, <1>7 DEF Side

LEMMA SignalTypes ==
  ASSUME Believable, Phases, World, phase = "analyze", NEW m \in Market, Analyzed(m),
         NEW id \in Id, NEW half \in 0 .. 2
  PROVE  Signal(m, id, half) \in Signals /\ row[m] \in Row
<1>1. /\ Belief(m).prob \in Percent
      /\ row[m].quote.yes \in 1 .. One - 1 /\ row[m].quote.no \in 1 .. One - 1
  BY AnalyzedFacts
<1>2. row[m] \in Row /\ row[m].quote \in Offers
  BY DEF World, Analyzed, Row
<1>3. scans \in 1 .. MaxScans /\ day \in 1 .. MaxDay
  BY MarketsCount DEF Phases
<1>4. Side(Belief(m).prob, row[m].quote) \in {"YES", "NO", "none"}
  BY DEF Side
<1>5. RecommendedAmount(Belief(m).prob, row[m].quote, Bankroll) \in 0 .. MaxStake
  BY <1>1, MarketsCount, AmountInRange
<1> DEFINE advised == ShouldBet(Belief(m).prob, row[m].quote, Bankroll,
                        EffectiveMinEdge(Belief(m).wide, IF Day[m] > day THEN 2 ELSE half, 2),
                        Sources(m), Day[m] - day)
<1>6. advised \in BOOLEAN
  BY DEF ShouldBet
<1>7. Signal(m, id, half)
        = [id |-> id, at |-> scans, day |-> day, market |-> m, prob |-> Belief(m).prob,
           quote |-> row[m].quote, side |-> Side(Belief(m).prob, row[m].quote),
           amount |-> RecommendedAmount(Belief(m).prob, row[m].quote, Bankroll),
           should_bet |-> advised]
  BY DEF Signal
<1> HIDE DEF advised
<1> QED
  BY <1>1, <1>2, <1>3, <1>4, <1>5, <1>6, <1>7 DEF Signals

LEMMA AnalyzeTypes ==
  ASSUME TableInv, Analyze
  PROVE  Analyses'
<1> DEFINE D == {j \in DOMAIN Markets : Analyzed(Markets[j])}
<1>1. PICK half \in 0 .. 2 :
        signals' = signals \cup {Signal(Markets[i], NextId + Before(i), half) : i \in D}
  BY DEF Analyze
<1>2. phase = "analyze" /\ phase' = "place" /\ UNCHANGED <<row, scans>>
  BY DEF Analyze
<1>3. /\ Believable /\ Phases /\ World /\ Analyses
  BY DEF TableInv, ScanInv
<1>4. /\ Size \in Nat /\ MaxScans \in Nat /\ scans \in 1 .. MaxScans
      /\ Done = scans - 1 /\ Done' = scans /\ (scans - 1) * Size \in Nat
  <2>1. Size \in Nat /\ MaxScans \in Nat /\ scans \in 1 .. MaxScans
    BY <1>2, <1>3, MarketsCount DEF Phases
  <2>2. Done = scans - 1 /\ Done' = scans
    BY <1>2 DEF Done
  <2> QED
    BY <2>1, <2>2
<1> DEFINE n == (scans - 1) * Size
<1>5. n + Size = scans * Size /\ scans * Size <= MaxScans * Size
  <2>1. n + Size = scans * Size
    BY <1>4
  <2>2. MaxScans - scans \in Nat /\ (MaxScans - scans) * Size \in Nat
    BY <1>4
  <2>3. MaxScans * Size = scans * Size + (MaxScans - scans) * Size
    BY <1>4
  <2>4. scans * Size \in Nat
    BY <1>4
  <2> QED
    BY <2>1, <2>2, <2>3, <2>4
<1>6. Cardinality(Market) = Size /\ Id = 1 .. MaxScans * Size
  BY MarketsCount DEF Id
<1>7. \A s \in signals : s.id \in 1 .. n
  <2>1. \A s \in signals : s.id \in 1 .. MaxScans * Size /\ s.id <= n
    BY <1>3, <1>4, <1>6 DEF Analyses, Signals
  <2> QED
    BY <1>4, <2>1
<1>8. NextId \in 1 .. n + 1 /\ \A s \in signals : s.id < NextId
  <2>1. n \in Nat
    BY <1>4
  <2> HIDE DEF n
  <2> QED
    BY <1>3, <1>7, <2>1, NextIdIsNew DEF Analyses
<1> HIDE DEF n
<1> DEFINE f == [i \in D |-> Signal(Markets[i], NextId + Before(i), half)]
           New == {Signal(Markets[i], NextId + Before(i), half) : i \in D}
<1>9. ASSUME NEW i \in D
      PROVE  /\ Markets[i] \in Market /\ Analyzed(Markets[i])
             /\ Before(i) \in 0 .. Size - 1 /\ NextId + Before(i) \in Id
             /\ NextId + Before(i) <= scans * Size
             /\ f[i] = Signal(Markets[i], NextId + Before(i), half)
             /\ f[i].id = NextId + Before(i) /\ f[i].market = Markets[i]
             /\ f[i] \in Signals /\ row[Markets[i]] \in Row
  <2>1. Markets[i] \in Market /\ Analyzed(Markets[i])
    BY MarketsCount
  <2>2. Before(i) \in 0 .. Size - 1
    BY BeforeGrows
  <2>3. n \in Nat /\ MaxScans * Size \in Nat /\ scans * Size \in Nat
    BY <1>4 DEF n
  <2>4. NextId + Before(i) \in Id /\ NextId + Before(i) <= scans * Size
    BY <1>4, <1>5, <1>6, <1>8, <2>2, <2>3
  <2>5. f[i] = Signal(Markets[i], NextId + Before(i), half)
    OBVIOUS
  <2>6. f[i] \in Signals /\ row[Markets[i]] \in Row
    BY <1>2, <1>3, <2>1, <2>4, <2>5, SignalTypes
  <2>7. f[i].id = NextId + Before(i) /\ f[i].market = Markets[i]
    BY <2>5 DEF Signal
  <2> QED
    BY <2>1, <2>2, <2>4, <2>5, <2>6, <2>7
<1>10. IsFiniteSet(New)
  <2>1. DOMAIN Markets = 1 .. Size /\ IsFiniteSet(1 .. Size)
    BY <1>4, MarketsCount, FS_Interval
  <2>2. D \in SUBSET (1 .. Size)
    BY <2>1
  <2>3. IsFiniteSet(D)
    <3> HIDE DEF D
    <3> QED
      BY <2>1, <2>2, FS_Subset
  <2>4. f \in Surjection(D, New)
    <3> HIDE DEF D
    <3> QED
      BY DEF Surjection
  <2> HIDE DEF D, f, New
  <2> QED
    BY <2>3, <2>4, FS_Surjection
<1>11. ASSUME NEW s \in New PROVE \E i \in D : s = f[i]
  BY <1>11
<1>12. signals' = signals \cup New
  BY <1>1
<1> HIDE DEF D, f, New
<1>13. ASSUME NEW s \in signals'
       PROVE  s \in Signals /\ s.id <= scans * Size /\ row'[s.market] \in Row
  <2>1. CASE s \in signals
    <3>1. s \in Signals /\ row[s.market] \in Row /\ s.id \in 1 .. n
      BY <1>3, <1>7, <2>1 DEF Analyses
    <3>2. n \in Nat
      BY <1>4 DEF n
    <3> QED
      BY <1>2, <1>4, <1>5, <3>1, <3>2
  <2>2. CASE s \in New
    BY <1>2, <1>9, <1>11, <2>2
  <2> QED
    BY <1>12, <2>1, <2>2
<1>14. ASSUME NEW r \in signals', NEW s \in signals', r.id = s.id PROVE r = s
  <2>1. \A x \in New : \A y \in signals : x.id # y.id
    <3> SUFFICES ASSUME NEW x \in New, NEW y \in signals PROVE x.id # y.id
      OBVIOUS
    <3>1. PICK i \in D : x = f[i]
      BY <1>11
    <3>2. x.id = NextId + Before(i) /\ Before(i) \in 0 .. Size - 1 /\ y.id < NextId
      BY <1>8, <1>9, <3>1
    <3>3. y.id \in 1 .. n /\ NextId \in 1 .. n + 1
      BY <1>7, <1>8
    <3>4. n \in Nat
      BY <1>4 DEF n
    <3> QED
      BY <1>4, <3>2, <3>3, <3>4
  <2>2. ASSUME r \in New, s \in New PROVE r = s
    <3>1. PICK i \in D : r = f[i]
      BY <1>11, <2>2
    <3>2. PICK j \in D : s = f[j]
      BY <1>11, <2>2
    <3>3. NextId + Before(i) = NextId + Before(j)
      BY <1>9, <1>14, <3>1, <3>2
    <3>4. Before(i) \in Int /\ Before(j) \in Int /\ NextId \in Int
      BY <1>8, <1>9
    <3>5. Before(i) = Before(j)
      <4>1. \A a, b, c \in Int : a + b = a + c => b = c
        OBVIOUS
      <4> QED
        BY <3>3, <3>4, <4>1, Zenon
    <3>6. i \in DOMAIN Markets /\ j \in DOMAIN Markets
      BY DEF D
    <3>7. i = j
      BY <1>9, <3>5, <3>6, BeforeGrows
    <3> QED
      BY <3>1, <3>2, <3>7
  <2>3. CASE r \in signals /\ s \in signals
    BY <1>3, <1>14, <2>3 DEF Analyses
  <2> QED
    BY <1>12, <1>14, <2>1, <2>2, <2>3
<1>15. IsFiniteSet(signals')
  BY <1>3, <1>10, <1>12, FS_Union DEF Analyses
<1> QED
  BY <1>4, <1>13, <1>14, <1>15 DEF Analyses

\* The oldest first: every analysis there is, once.
LEMMA OrderedOnce ==
  ASSUME NEW S, IsFiniteSet(S), \A s \in S : s \in Signals,
         \A r, s \in S : r.id = s.id => r = s, NEW q, q = Ordered(S)
  PROVE  /\ q \in Seq(Signals)
         /\ \A i \in DOMAIN q : q[i] \in S
         /\ \A i, j \in DOMAIN q : q[i].id = q[j].id => i = j
<1> DEFINE key == [s \in S |-> s.id]
           P(s, i) == Cardinality({r \in S : r.id <= s.id}) = i
           At(i) == CHOOSE s \in S : P(s, i)
<1>1. Cardinality(S) \in Nat
  BY FS_CardinalityType
<1>2. q = [i \in 1 .. Cardinality(S) |-> At(i)]
  BY DEF Ordered
<1>3. ASSUME NEW s \in S PROVE P(s, Rank(S, key, s))
  <2>1. {r \in S : key[r] <= key[s]} = {r \in S : r.id <= s.id}
    OBVIOUS
  <2> QED
    BY <2>1 DEF Rank
<1>4. \A s \in S : key[s] \in Int
  <2>1. \A s \in S : s.id \in 1 .. MaxScans * Cardinality(Market)
    BY DEF Signals, Id
  <2> QED
    BY <2>1
<1>5. \A r, s \in S : key[r] = key[s] => r = s
  OBVIOUS
<1>6. ASSUME NEW i \in 1 .. Cardinality(S) PROVE At(i) \in S /\ P(At(i), i)
  <2>1. \E s \in S : Rank(S, key, s) = i
    <3> HIDE DEF key
    <3> QED
      BY <1>4, <1>5, RankTaken
  <2>2. \E s \in S : P(s, i)
    <3> HIDE DEF P
    <3> QED
      BY <1>3, <2>1
  <2> HIDE DEF P
  <2> QED
    BY <2>2, Zenon
<1> HIDE DEF At
<1>7. DOMAIN q = 1 .. Cardinality(S) /\ \A i \in DOMAIN q : q[i] = At(i)
  BY <1>2
<1>8. q \in Seq(Signals)
  <2>1. q \in [1 .. Cardinality(S) -> Signals]
    BY <1>2, <1>6
  <2> QED
    BY <1>1, <2>1
<1>9. ASSUME NEW i \in DOMAIN q, NEW j \in DOMAIN q, q[i].id = q[j].id PROVE i = j
  <2>1. At(i) = At(j)
    BY <1>6, <1>7, <1>9
  <2>2. P(At(i), i) /\ P(At(j), j)
    BY <1>6, <1>7
  <2> QED
    BY <2>1, <2>2, Zenon
<1> QED
  BY <1>6, <1>7, <1>8, <1>9

LEMMA PlaceBeginTypes ==
  ASSUME TableInv, PlaceBegin
  PROVE  Phases' /\ Waiting'
<1> DEFINE S == {s \in signals : s.should_bet /\ ~ Processed(s.id)}
<1>1. /\ phase = "place" /\ queue' = Ordered(S) /\ phase' = "placing"
      /\ UNCHANGED <<day, bets, scans>>
  BY DEF PlaceBegin, world, tables
<1>2. /\ IsFiniteSet(signals) /\ \A s \in signals : s \in Signals
      /\ \A r, s \in signals : r.id = s.id => r = s
  BY DEF TableInv, Analyses
<1>3. IsFiniteSet(S) /\ \A s \in S : s \in signals /\ ~ Processed(s.id)
  <2>1. S \in SUBSET signals /\ \A s \in S : s \in signals /\ ~ Processed(s.id)
    OBVIOUS
  <2> HIDE DEF S
  <2> QED
    BY <1>2, <2>1, FS_Subset
<1> HIDE DEF S
<1>4. /\ queue' \in Seq(Signals)
      /\ \A i \in DOMAIN queue' : queue'[i] \in S
      /\ \A i, j \in DOMAIN queue' : queue'[i].id = queue'[j].id => i = j
  BY <1>1, <1>2, <1>3, OrderedOnce
<1>5. \A i \in DOMAIN queue' : \A j \in DOMAIN bets : bets[j].analysis # queue'[i].id
  BY <1>3, <1>4 DEF Processed
<1>6. Waiting'
  BY <1>1, <1>4, <1>5 DEF Waiting
<1> QED
  BY <1>1, <1>6 DEF TableInv, Phases

\* What is left when the first is taken from the queue.
LEMMA TailWaits ==
  ASSUME Waiting, queue # <<>>, queue' = Tail(queue)
  PROVE  /\ Head(queue) \in Signals
         /\ queue' \in Seq(Signals)
         /\ \A i, j \in DOMAIN queue' : queue'[i].id = queue'[j].id => i = j
         /\ \A i \in DOMAIN queue' : /\ queue'[i].id # Head(queue).id
                                     /\ \A j \in DOMAIN bets : bets[j].analysis # queue'[i].id
         /\ \A j \in DOMAIN bets : bets[j].analysis # Head(queue).id
<1>1. queue \in Seq(Signals)
  BY DEF Waiting
<1>2. /\ 1 \in DOMAIN queue /\ Head(queue) = queue[1] /\ Head(queue) \in Signals
      /\ queue' \in Seq(Signals)
      /\ \A i \in DOMAIN queue' :
           i \in Int /\ i + 1 \in DOMAIN queue /\ i + 1 # 1 /\ queue'[i] = queue[i + 1]
  BY <1>1
<1>3. ASSUME NEW i \in DOMAIN queue', NEW j \in DOMAIN queue', queue'[i].id = queue'[j].id
      PROVE  i = j
  <2>1. i + 1 = j + 1
    BY <1>2, <1>3 DEF Waiting
  <2> QED
    BY <1>2, <2>1
<1>4. ASSUME NEW i \in DOMAIN queue'
      PROVE  /\ queue'[i].id # Head(queue).id
             /\ \A j \in DOMAIN bets : bets[j].analysis # queue'[i].id
  BY <1>2 DEF Waiting
<1> QED
  BY <1>2, <1>3, <1>4 DEF Waiting

LEMMA PlaceBetTypes ==
  ASSUME TableInv, PlaceBet \/ PlaceRefuse
  PROVE  World' /\ Analyses' /\ BetOnce' /\ Waiting'
<1> DEFINE s == Head(queue)
<1>0. PICK b, status : Recorded(s, b, status)
  BY PlaceRecords
<1>1. /\ queue # <<>> /\ queue' = Tail(queue) /\ Tradable(s)
      /\ bets' = Append(bets, b)
      /\ row' = [row EXCEPT ![s.market].status = status]
      /\ UNCHANGED <<offered, day, cache, signals, phase, scans>>
  BY <1>0, PlaceRecords DEF Recorded
<1>2. Phases /\ World /\ Analyses /\ BetOnce /\ Waiting /\ GoodSignals
  BY DEF TableInv, ScanInv
<1>3. s \in Signals /\ s \in signals /\ s.should_bet /\ row[s.market] \in Row
      /\ ValidQuote(row[s.market].quote)
  BY <1>1, <1>2 DEF Tradable, Analyses
<1>4. World' /\ \A m \in Market : row[m] \in Row => row'[m] \in Row
  <2>1. s.market \in Market
    BY <1>3 DEF Signals
  <2>2. row \in [Market -> Row \cup {Absent}]
    BY <1>2 DEF World
  <2>3. [row[s.market] EXCEPT !.status = status] \in Row
    BY <1>0, <1>3 DEF Row, Recorded
  <2> DEFINE r == [row[s.market] EXCEPT !.status = status]
  <2>4. row' = [row EXCEPT ![s.market] = r]
    BY <1>1
  <2> HIDE DEF r
  <2>5. r \in Row
    BY <2>3 DEF r
  <2>6. row' \in [Market -> Row \cup {Absent}]
    BY <2>1, <2>2, <2>4, <2>5
  <2>7. \A m \in Market : row[m] \in Row => row'[m] \in Row
    BY <2>1, <2>2, <2>4, <2>5
  <2>8. World'
    BY <1>1, <1>2, <2>6 DEF World
  <2> QED
    BY <2>7, <2>8
<1>5. Analyses'
  <2>1. Done' = Done
    BY <1>1 DEF Done
  <2>2. \A x \in signals : x.market \in Market /\ row[x.market] \in Row
    BY <1>2 DEF Analyses, Signals
  <2> QED
    BY <1>1, <1>2, <1>4, <2>1, <2>2 DEF Analyses
<1>6. b \in Bets
  <2>1. s.side \in {"YES", "NO"}
    <3>1. s.side \in {"YES", "NO", "none"}
      BY <1>3 DEF Signals
    <3>2. s.side # "none"
      BY <1>2, <1>3 DEF GoodSignals, SoundSignal
    <3> QED
      BY <3>1, <3>2
  <2>2. SidePrice(row[s.market].quote, s.side) \in Percent
    BY <1>3 DEF SidePrice, ValidQuote, Percent, One
  <2>3. day \in 1 .. MaxDay
    BY <1>2 DEF Phases
  <2>4. s.id \in Id /\ s.at \in 1 .. MaxScans /\ s.market \in Market
    BY <1>3 DEF Signals
  <2> HIDE DEF s
  <2>5. NewBet(s) \in Bets
    BY <2>1, <2>2, <2>3, <2>4 DEF NewBet, Bets
  <2>6. Closed(NewBet(s)) \in Bets
    BY <2>5 DEF Closed, Bets
  <2> QED
    BY <1>0, <2>5, <2>6 DEF Recorded
<1>7. /\ queue' \in Seq(Signals)
      /\ \A i, j \in DOMAIN queue' : queue'[i].id = queue'[j].id => i = j
      /\ \A i \in DOMAIN queue' : /\ queue'[i].id # s.id
                                  /\ \A j \in DOMAIN bets : bets[j].analysis # queue'[i].id
      /\ \A j \in DOMAIN bets : bets[j].analysis # s.id
  BY <1>1, <1>2, TailWaits
<1>8. bets \in Seq(Bets) /\ b.analysis = s.id
  BY <1>0, <1>2 DEF BetOnce, NewBet, Closed, Recorded
<1> HIDE DEF s
<1>9. /\ bets' \in Seq(Bets)
      /\ \A i \in DOMAIN bets' : (i \in DOMAIN bets /\ bets'[i] = bets[i])
                                 \/ (i = Len(bets) + 1 /\ bets'[i] = b)
  BY <1>1, <1>6, <1>8
<1>10. BetOnce'
  <2>1. ASSUME NEW i \in DOMAIN bets', NEW j \in DOMAIN bets',
               bets'[i].analysis = bets'[j].analysis
        PROVE  i = j
    <3>1. CASE i \in DOMAIN bets /\ bets'[i] = bets[i] /\ j \in DOMAIN bets /\ bets'[j] = bets[j]
      BY <1>2, <2>1, <3>1 DEF BetOnce
    <3>2. CASE i \in DOMAIN bets /\ bets'[i] = bets[i] /\ bets'[j] = b
      BY <1>7, <1>8, <2>1, <3>2
    <3>3. CASE bets'[i] = b /\ j \in DOMAIN bets /\ bets'[j] = bets[j]
      BY <1>7, <1>8, <2>1, <3>3
    <3>4. CASE i = Len(bets) + 1 /\ j = Len(bets) + 1
      BY <3>4
    <3> QED
      BY <1>9, <3>1, <3>2, <3>3, <3>4
  <2> QED
    BY <1>9, <2>1 DEF BetOnce
<1>11. Waiting'
  <2>1. \A i \in DOMAIN queue' : \A j \in DOMAIN bets' : bets'[j].analysis # queue'[i].id
    BY <1>7, <1>8, <1>9
  <2> QED
    BY <1>7, <2>1 DEF Waiting
<1> QED
  BY <1>4, <1>5, <1>10, <1>11

\* Closing any bets keeps what they were made from.
LEMMA CloseTypes ==
  ASSUME BetOnce, NEW exits,
         bets' = [i \in DOMAIN bets |-> IF i \in exits THEN Closed(bets[i]) ELSE bets[i]]
  PROVE  /\ BetOnce'
         /\ DOMAIN bets' = DOMAIN bets
         /\ \A i \in DOMAIN bets : bets'[i].analysis = bets[i].analysis
<1>1. bets \in Seq(Bets)
  BY DEF BetOnce
<1>2. ASSUME NEW i \in DOMAIN bets
      PROVE  bets'[i] \in Bets /\ bets'[i].analysis = bets[i].analysis
  <2>1. bets[i] \in Bets
    BY <1>1
  <2>2. Closed(bets[i]) \in Bets /\ Closed(bets[i]).analysis = bets[i].analysis
    BY <2>1 DEF Closed, Bets
  <2> QED
    BY <2>1, <2>2
<1>3. DOMAIN bets' = DOMAIN bets /\ bets' \in Seq(Bets)
  <2>1. DOMAIN bets = 1 .. Len(bets) /\ Len(bets) \in Nat
    BY <1>1
  <2>2. bets' \in [1 .. Len(bets) -> Bets]
    BY <1>2, <2>1
  <2> QED
    BY <2>1, <2>2
<1> QED
  BY <1>2, <1>3 DEF BetOnce

\* Analyses are only taken away, no market loses its row, and the scans go on.
LEMMA AnalysesKept ==
  ASSUME Analyses, Phases, signals' \in SUBSET signals, Done' \in Int, Done <= Done',
         \A m \in Market : row[m] \in Row => row'[m] \in Row
  PROVE  Analyses'
<1>1. Size \in Nat /\ Done \in Int
  BY MarketsCount DEF Phases, Done
<1>2. Done * Size <= Done' * Size
  <2>1. (Done' - Done) * Size \in Nat
    <3>1. Done' - Done \in Nat
      <4>1. \A a, b \in Int : a <= b => b - a \in Nat
        OBVIOUS
      <4> QED
        BY <1>1, <4>1, Zenon
    <3>2. \A a, b \in Nat : a * b \in Nat
      OBVIOUS
    <3> QED
      BY <1>1, <3>1, <3>2, Zenon
  <2>2. Done' * Size = Done * Size + (Done' - Done) * Size
    BY <1>1
  <2>3. Done * Size \in Int
    BY <1>1
  <2> QED
    BY <2>1, <2>2, <2>3
<1>3. IsFiniteSet(signals')
  BY FS_Subset DEF Analyses
<1>4. ASSUME NEW s \in signals'
      PROVE  s \in Signals /\ s.id <= Done' * Size /\ row'[s.market] \in Row
  <2>1. s \in Signals /\ s.id <= Done * Size /\ row[s.market] \in Row
    BY <1>4 DEF Analyses
  <2>2. s.market \in Market /\ s.id \in 1 .. MaxScans * Cardinality(Market)
    BY <2>1 DEF Signals, Id
  <2>3. s.id \in Int /\ Done * Size \in Int /\ Done' * Size \in Int
    BY <1>1, <2>2
  <2> QED
    BY <1>2, <2>1, <2>2, <2>3
<1>5. \A r, s \in signals' : r.id = s.id => r = s
  BY DEF Analyses
<1>6. Size' = Size
  BY DEF Size
<1> QED
  BY <1>3, <1>4, <1>5, <1>6 DEF Analyses

LEMMA DoneTypes == Phases => Done \in Int /\ scans \in Int
  BY MarketsCount DEF Phases, Done

LEMMA NextTable == TableInv /\ [Next]_vars => TableInv'
<1> SUFFICES ASSUME TableInv, [Next]_vars PROVE TableInv'
  OBVIOUS
<1>1. /\ ScanInv' /\ Phases /\ World /\ Analyses /\ BetOnce /\ Waiting
      /\ Done \in Int /\ scans \in Int
  BY NextScanInv, DoneTypes DEF TableInv
<1>2. ASSUME UNCHANGED <<day, phase, scans, queue>> PROVE Phases'
  BY <1>1, <1>2 DEF Phases
<1>3. ASSUME UNCHANGED <<offered, cache, row>> PROVE World'
  BY <1>1, <1>3 DEF World
<1>4. ASSUME UNCHANGED <<signals, row>>, Done' \in Int, Done <= Done' PROVE Analyses'
  BY <1>1, <1>4, AnalysesKept
<1>5. ASSUME UNCHANGED bets PROVE BetOnce'
  BY <1>1, <1>5 DEF BetOnce
<1>6. ASSUME UNCHANGED <<bets, queue>> PROVE Waiting'
  BY <1>1, <1>6 DEF Waiting
<1>7. ASSUME UNCHANGED <<phase, scans>> PROVE Done' = Done /\ Done' \in Int /\ Done <= Done'
  BY <1>1, <1>7 DEF Done
<1>8. CASE NextScan
  <2>1. /\ phase = "sleep" /\ scans < MaxScans /\ phase' = "fetch" /\ scans' = scans + 1
        /\ UNCHANGED <<offered, day, cache, row, signals, bets, queue>>
    BY <1>8 DEF NextScan, world, tables
  <2>2. Done = scans /\ Done' = scans
    BY <1>1, <2>1 DEF Done
  <2>3. Phases'
    BY <1>1, <2>1, MarketsCount DEF Phases
  <2> QED
    BY <1>1, <1>3, <1>4, <1>5, <1>6, <2>1, <2>2, <2>3 DEF TableInv
<1>9. CASE Fetch
  <2>1. /\ phase = "fetch" /\ phase' = "weather"
        /\ UNCHANGED <<day, signals, bets, queue, scans>>
    BY <1>9 DEF Fetch, world
  <2>2. Done' = Done
    BY <2>1 DEF Done
  <2>3. World' /\ \A m \in Market : row[m] \in Row => row'[m] \in Row
    BY <1>1, <1>9, FetchTypes
  <2>4. Analyses'
    BY <1>1, <2>1, <2>2, <2>3, AnalysesKept
  <2>5. Phases'
    BY <1>1, <2>1 DEF Phases
  <2> QED
    BY <1>1, <1>5, <1>6, <2>1, <2>3, <2>4, <2>5 DEF TableInv
<1>10. CASE FetchWeather
  <2>1. /\ phase = "weather" /\ phase' = "analyze"
        /\ UNCHANGED <<offered, day, cache, row, signals, bets, queue, scans>>
    BY <1>10 DEF FetchWeather, world
  <2>2. Done' = Done
    BY <2>1 DEF Done
  <2>3. Phases'
    BY <1>1, <2>1 DEF Phases
  <2> QED
    BY <1>1, <1>3, <1>4, <1>5, <1>6, <2>1, <2>2, <2>3 DEF TableInv
<1>11. CASE Analyze
  <2>1. /\ phase = "analyze" /\ phase' = "place"
        /\ UNCHANGED <<offered, day, cache, row, bets, queue, scans>>
    BY <1>11 DEF Analyze, world
  <2>2. Phases'
    BY <1>1, <2>1 DEF Phases
  <2> QED
    BY <1>1, <1>3, <1>5, <1>6, <1>11, <2>1, <2>2, AnalyzeTypes DEF TableInv
<1>12. CASE PlaceBegin
  <2>1. /\ phase = "place" /\ phase' = "placing"
        /\ UNCHANGED <<offered, cache, row, signals, bets, scans>>
    BY <1>12 DEF PlaceBegin, world, tables
  <2>2. Done' = Done
    BY <2>1 DEF Done
  <2> QED
    BY <1>1, <1>3, <1>4, <1>5, <1>12, <2>1, <2>2, PlaceBeginTypes DEF TableInv
<1>13. CASE PlaceBet \/ PlaceRefuse
  <2>1. phase = "placing" /\ UNCHANGED <<day, phase, scans>>
    BY <1>13, PlaceRecords
  <2>2. Phases'
    BY <1>1, <2>1 DEF Phases
  <2> QED
    BY <1>1, <1>13, <2>2, PlaceBetTypes DEF TableInv
<1>14. CASE PlaceSkip \/ PlaceFail
  <2>1. /\ phase = "placing" /\ queue # <<>> /\ queue' = Tail(queue)
        /\ UNCHANGED <<offered, day, cache, row, signals, bets, phase, scans>>
    BY <1>14 DEF PlaceSkip, PlaceFail, world, tables
  <2>2. Phases'
    BY <1>1, <2>1 DEF Phases
  <2>3. Waiting'
    <3>1. /\ queue' \in Seq(Signals)
          /\ \A i, j \in DOMAIN queue' : queue'[i].id = queue'[j].id => i = j
          /\ \A i \in DOMAIN queue' : \A j \in DOMAIN bets : bets[j].analysis # queue'[i].id
      BY <1>1, <2>1, TailWaits
    <3> QED
      BY <2>1, <3>1 DEF Waiting
  <2> QED
    BY <1>1, <1>3, <1>4, <1>5, <1>7, <2>1, <2>2, <2>3 DEF TableInv
<1>15. CASE PlaceEnd
  <2>1. /\ phase = "placing" /\ phase' = "risk" /\ queue = <<>>
        /\ UNCHANGED <<offered, day, cache, row, signals, bets, queue, scans>>
    BY <1>15 DEF PlaceEnd, world, tables
  <2>2. Done' = Done
    BY <2>1 DEF Done
  <2>3. Phases'
    BY <1>1, <2>1 DEF Phases
  <2> QED
    BY <1>1, <1>3, <1>4, <1>5, <1>6, <2>1, <2>2, <2>3 DEF TableInv
<1>16. CASE ManageRisk
  <2>1. /\ phase = "risk" /\ phase' = "sleep"
        /\ UNCHANGED <<offered, day, cache, row, signals, queue, scans>>
    BY <1>16 DEF ManageRisk, world
  <2>2. Done' = Done
    BY <2>1 DEF Done
  <2>3. Phases'
    BY <1>1, <2>1 DEF Phases
  <2>4. /\ BetOnce' /\ DOMAIN bets' = DOMAIN bets
        /\ \A i \in DOMAIN bets : bets'[i].analysis = bets[i].analysis
    BY <1>1, <1>16, CloseTypes DEF ManageRisk
  <2>5. Waiting'
    BY <1>1, <2>1, <2>4 DEF Waiting
  <2> QED
    BY <1>1, <1>3, <1>4, <2>1, <2>2, <2>3, <2>4, <2>5 DEF TableInv
<1>17. CASE Raise
  <2>1. /\ phase # "placing" /\ phase' = "sleep"
        /\ UNCHANGED <<offered, day, cache, row, signals, bets, queue, scans>>
    BY <1>17 DEF Raise, world, tables
  <2>2. Done' = scans /\ Done <= scans
    BY <1>1, <2>1 DEF Done
  <2>3. Phases'
    BY <1>1, <2>1 DEF Phases
  <2> QED
    BY <1>1, <1>3, <1>4, <1>5, <1>6, <2>1, <2>2, <2>3 DEF TableInv
<1>18. CASE Restart
  <2>1. /\ phase' = "sleep" /\ queue' = <<>> /\ cache' = [q \in Query |-> Absent]
        /\ UNCHANGED <<offered, day, row, signals, bets, scans>>
    BY <1>18 DEF Restart, world, tables
  <2>2. Done' = scans /\ Done <= scans
    BY <1>1, <2>1 DEF Done
  <2>3. Phases'
    BY <1>1, <2>1 DEF Phases
  <2>4. World'
    BY <1>1, <2>1 DEF World, Answer
  <2>5. Waiting'
    BY <2>1 DEF Waiting
  <2> QED
    BY <1>1, <1>4, <1>5, <2>1, <2>2, <2>3, <2>4, <2>5 DEF TableInv
<1>19. CASE Cleanup \/ ResetCli
  <2>1. /\ signals' \in SUBSET signals
        /\ UNCHANGED <<offered, day, cache, row, phase, queue, scans>>
    BY <1>19 DEF Cleanup, ResetCli, world
  <2>2. Analyses'
    BY <1>1, <1>7, <2>1, AnalysesKept
  <2>3. \E exits : bets' = [i \in DOMAIN bets |-> IF i \in exits THEN Closed(bets[i]) ELSE bets[i]]
    <3>1. CASE Cleanup
      <4> DEFINE exits == {i \in DOMAIN bets : bets[i].day < day}
      <4>1. bets' = [i \in DOMAIN bets |-> IF i \in exits THEN Closed(bets[i]) ELSE bets[i]]
        BY <3>1 DEF Cleanup
      <4> QED
        BY <4>1
    <3>2. CASE ResetCli
      <4>1. bets' = [i \in DOMAIN bets |-> IF i \in DOMAIN bets THEN Closed(bets[i]) ELSE bets[i]]
        BY <3>2 DEF ResetCli
      <4> QED
        BY <4>1
    <3> QED
      BY <1>19, <3>1, <3>2
  <2>4. /\ BetOnce' /\ DOMAIN bets' = DOMAIN bets
        /\ \A i \in DOMAIN bets : bets'[i].analysis = bets[i].analysis
    BY <1>1, <2>3, CloseTypes
  <2>5. Waiting'
    BY <1>1, <2>1, <2>4 DEF Waiting
  <2> QED
    BY <1>1, <1>2, <1>3, <2>1, <2>2, <2>4, <2>5 DEF TableInv
<1>20. CASE ResetApi
  <2>1. /\ signals' = {} /\ bets' = <<>>
        /\ UNCHANGED <<offered, day, cache, row, phase, queue, scans>>
    BY <1>20 DEF ResetApi, world
  <2>2. Analyses'
    BY <2>1, FS_EmptySet DEF Analyses
  <2>3. BetOnce'
    BY <2>1 DEF BetOnce
  <2>4. Waiting'
    BY <1>1, <2>1 DEF Waiting
  <2> QED
    BY <1>1, <1>2, <1>3, <2>1, <2>2, <2>3, <2>4 DEF TableInv
<1>21. CASE MarketMoves
  <2>1. UNCHANGED <<day, cache, row, signals, bets, phase, queue, scans>>
    BY <1>21 DEF MarketMoves, tables
  <2>2. World'
    BY <1>1, <1>21, <2>1 DEF World, MarketMoves
  <2> QED
    BY <1>1, <1>2, <1>4, <1>5, <1>6, <1>7, <2>1, <2>2 DEF TableInv
<1>22. CASE Tomorrow
  <2>1. /\ day < MaxDay /\ day' = day + 1
        /\ UNCHANGED <<offered, cache, row, signals, bets, phase, queue, scans>>
    BY <1>22 DEF Tomorrow, tables
  <2>2. Phases'
    BY <1>1, <2>1, MarketsCount DEF Phases
  <2> QED
    BY <1>1, <1>3, <1>4, <1>5, <1>6, <1>7, <2>1, <2>2 DEF TableInv
<1>23. CASE UNCHANGED vars
  <2>1. UNCHANGED <<offered, day, cache, row, signals, bets, phase, queue, scans>>
    BY <1>23 DEF vars, world, tables
  <2> QED
    BY <1>1, <1>2, <1>3, <1>4, <1>5, <1>6, <1>7, <2>1 DEF TableInv
<1> QED
  BY <1>8, <1>9, <1>10, <1>11, <1>12, <1>13, <1>14, <1>15, <1>16, <1>17, <1>18, <1>19,
     <1>20, <1>21, <1>22, <1>23 DEF Next

LEMMA TableInvariant == Spec => []TableInv
  BY InitTable, NextTable, PTL DEF Spec

\* Every table keeps its types, the ids of analyses never coincide although
\* those of deleted rows are given again, and the bound on ids is kept.
THEOREM ScanTypesHold == Spec => []TypeOK
  BY TableInvariant, TableTypes, PTL

\* One analysis has one row of bets, however often it comes up again: for any
\* markets and any number of scans, through restarts, cleanups and resets.
THEOREM EverySignalOnce == Spec => []SignalOnce
  BY TableInvariant, TableTypes, PTL
=============================================================================
