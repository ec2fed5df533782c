--------------------------------- MODULE Scan ---------------------------------
(***************************************************************************)
(* The scan loop of main.py as a pipeline over the tables it reads and     *)
(* writes: the answers of the Gamma API through the cache of               *)
(* scrapers/async_client.py, the market rows of fetch_and_save, the        *)
(* forecasts, the analyses, and the bets place_all_pending opens from      *)
(* them.  What a bet does to the cash, and jobs that overlap, are the      *)
(* subject of Ledger; this module is about what is decided on, and how old *)
(* it is: the cache lives as long as the process, analyses and bets live   *)
(* in the database, and the ids of analyses are used again.                *)
(***************************************************************************)
EXTENDS Sizing, Sequences, FiniteSets

CONSTANTS
  Queries,   \* the queries of _fetch_raw_markets, in their order
  Markets,   \* the markets Gamma may offer, in the order of their rows
  Day,       \* Day[m]: the day of the month in the title of m
  Shape,     \* Shape[m]: what fetch_and_save makes of m, see Savable
  Offers,    \* the quotes Gamma may show
  Beliefs,   \* the forecasts: probability, whether the models disagree
  Bankroll,  \* total_value of the portfolio
  MaxDay,    \* the last day of the model
  MaxScans,  \* a bound on the scans of the model
  Absent,    \* not asked yet; no row; no forecast
  NoAnswer   \* None: what a query that failed is answered with

Market == {Markets[i] : i \in DOMAIN Markets}
Query  == {Queries[i] : i \in DOMAIN Queries}

ASSUME ScanAssumption ==
  /\ Queries \in Seq(Query) /\ Markets \in Seq(Market)
  /\ \A i, j \in DOMAIN Markets : Markets[i] = Markets[j] => i = j
  /\ Day \in [Market -> 1 .. 31] /\ MaxDay \in 1 .. 31 /\ MaxScans \in Nat
  /\ Shape \in [Market -> {"good", "other", "no_threshold", "no_coords"}]
  /\ Offers \subseteq Quote
  /\ Beliefs \subseteq [prob : Percent, wide : BOOLEAN]
  /\ Bankroll \in Nat

VARIABLES
  offered,  \* offered[m]: the quote Gamma shows for m at present
  day,      \* today
  cache,    \* _CACHE: what each query was answered with
  row,      \* row[m]: quote and status in weather_markets
  forecast, \* forecast[m]: what the newest stored forecasts say
  signals,  \* the rows of analyses
  bets,     \* the rows of bets, in the order they were made
  phase,    \* the job the scan loop runs next, or its pause
  queue,    \* the analyses place_all_pending still has to go through
  scans     \* scans begun so far

world  == <<offered, day>>
tables == <<row, forecast, signals, bets>>
vars   == <<world, cache, tables, phase, queue, scans>>
-----------------------------------------------------------------------------
(* Fetch: _fetch_raw_markets, fetch_many, _parse_market, fetch_and_save.    *)

\* The title names one of today and the next two days, read as text: "June 1"
\* is also found in "June 12".
Named(d, title) == title = d \/ title \div 10 = d
InWindow(m) == \E d \in day .. day + 2 : Named(d, Day[m])

\* fetch_many: a query in the cache is not sent, whatever it was answered.
Answered(answer) ==
  [q \in Query |-> IF cache[q] # Absent THEN cache[q] ELSE answer[q]]

Lists(answer, m) == answer # NoAnswer /\ m \in DOMAIN answer

\* An event several queries found is taken from the first.
Found(answers) == {m \in Market : InWindow(m) /\ \E q \in Query : Lists(answers[q], m)}
QuoteIn(answers, m) ==
  LET first == CHOOSE i \in DOMAIN Queries :
                 /\ Lists(answers[Queries[i]], m)
                 /\ \A j \in 1 .. i - 1 : ~ Lists(answers[Queries[j]], m)
  IN  answers[Queries[first]][m]

\* A market is kept if it is about temperature and its threshold makes sense.
Savable(m) == Shape[m] \in {"good", "no_coords"}

\* The status is written whatever it was: a market with a bet is open again.
Upserted(answers) ==
  [m \in Market |->
     IF m \in Found(answers) /\ Savable(m)
       THEN [quote |-> QuoteIn(answers, m),
             status |-> IF Shape[m] = "no_coords" THEN "no_coords" ELSE "open"]
       ELSE row[m]]

Fetch ==
  /\ phase = "fetch"
  /\ \E answer \in [Query -> {NoAnswer} \cup
                             {[m \in S |-> offered[m]] : S \in SUBSET Market}] :
       /\ cache' = Answered(answer)
       /\ row' = Upserted(Answered(answer))
  /\ phase' = "weather"
  /\ UNCHANGED <<world, forecast, signals, bets, queue, scans>>

\* parse_all_unparsed finds no row to parse (fetch_and_save has filled both
\* columns it looks for); fetch_all_markets stores what it can get.
FetchWeather ==
  /\ phase = "weather"
  /\ \E stored \in SUBSET {m \in Market : row[m] # Absent /\ row[m].status = "open"} :
     \E says \in [stored -> Beliefs] :
       forecast' = [m \in Market |-> IF m \in stored THEN says[m] ELSE forecast[m]]
  /\ phase' = "analyze"
  /\ UNCHANGED <<world, cache, row, signals, bets, queue, scans>>
-----------------------------------------------------------------------------
(* Analyze: run_analyze and analyze_market.                                 *)

ValidQuote(quote) ==
  /\ quote.yes \in 1 .. One - 1 /\ quote.no \in 1 .. One - 1
  /\ quote.yes + quote.no \in 50 .. 150

\* What run_analyze asks for, and analyze_market does not return early on.
Analyzed(m) ==
  row[m] # Absent /\ row[m].status = "open" /\ Day[m] >= day /\ ValidQuote(row[m].quote)

\* No forecast: even chances, and no sources.
Belief(m)  == IF forecast[m] = Absent THEN [prob |-> 50, wide |-> FALSE] ELSE forecast[m]
Sources(m) == IF forecast[m] = Absent THEN 0 ELSE MinSources

\* A mistake: ids go on from the number of rows.
NextIdCounted == 1 + Cardinality(signals)

\* Ids go on from the highest there is: SQLite uses those of deleted rows again.
NextId ==
  LET ids == {s.id : s \in signals} \cup {0}
  IN  1 + CHOOSE i \in ids : \A j \in ids : j <= i

\* The columns a recommendation fills.  On the day itself any part of the
\* ramp of the demanded edge may be over.
Signal(m, id, half) ==
  LET b == Belief(m)
      demanded == EffectiveMinEdge(b.wide, IF Day[m] > day THEN 2 ELSE half, 2)
  IN  [id |-> id, at |-> scans, day |-> day, market |-> m, prob |-> b.prob,
       quote |-> row[m].quote, side |-> Side(b.prob, row[m].quote),
       amount |-> RecommendedAmount(b.prob, row[m].quote, Bankroll),
       should_bet |-> ShouldBet(b.prob, row[m].quote, Bankroll, demanded, Sources(m),
                                Day[m] - day)]

\* In the order of the rows.
Before(i) == Cardinality({j \in 1 .. i - 1 : Analyzed(Markets[j])})

Analyze ==
  /\ phase = "analyze"
  /\ \E half \in 0 .. 2 :
       signals' = signals \cup
         {Signal(Markets[i], NextId + Before(i), half) :
            i \in {j \in DOMAIN Markets : Analyzed(Markets[j])}}
  /\ phase' = "place"
  /\ UNCHANGED <<world, cache, row, forecast, bets, queue, scans>>
-----------------------------------------------------------------------------
(* Place: place_all_pending and place_bet.                                  *)

\* A mistake: only bets still open count.
ProcessedIfOpen(id) == \E i \in DOMAIN bets : bets[i].analysis = id /\ bets[i].open

\* Dedup: any row of bets that names the id.
Processed(id) == \E i \in DOMAIN bets : bets[i].analysis = id

\* The oldest first.
Ordered(S) ==
  [i \in 1 .. Cardinality(S) |->
     CHOOSE s \in S : Cardinality({r \in S : r.id <= s.id}) = i]

\* All analyses that say so, however old.
PlaceBegin ==
  /\ phase = "place"
  /\ queue' = Ordered({s \in signals : s.should_bet /\ ~ Processed(s.id)})
  /\ phase' = "placing"
  /\ UNCHANGED <<world, cache, tables, scans>>

SidePrice(quote, side) == IF side = "YES" THEN quote.yes ELSE quote.no

\* A mistake: the day of the market is not looked at again.
TradableAnyDay(s) ==
  /\ s \in signals /\ s.should_bet
  /\ ValidQuote(row[s.market].quote)
  /\ ~ \E i \in DOMAIN bets : bets[i].market = s.market /\ bets[i].open

\* place_bet's early returns: no such analysis any more, the quote and the
\* day as they are now, no other open bet on the market.
Tradable(s) ==
  /\ s \in signals /\ s.should_bet
  /\ ValidQuote(row[s.market].quote)
  /\ Day[s.market] >= day
  /\ ~ \E i \in DOMAIN bets : bets[i].market = s.market /\ bets[i].open

NewBet(s) ==
  [analysis |-> s.id, at |-> s.at, market |-> s.market, side |-> s.side,
   price |-> SidePrice(row[s.market].quote, s.side), day |-> day, open |-> TRUE]

Closed(b) == [b EXCEPT !.open = FALSE]

PlaceBet ==
  /\ phase = "placing" /\ queue # <<>>
  /\ Tradable(Head(queue))
  /\ bets' = Append(bets, NewBet(Head(queue)))
  /\ row' = [row EXCEPT ![Head(queue).market].status = "bet_placed"]
  /\ queue' = Tail(queue)
  /\ UNCHANGED <<world, cache, forecast, signals, phase, scans>>

\* One of the early returns: the analysis stays as it is and comes up again.
PlaceSkip ==
  /\ phase = "placing" /\ queue # <<>>
  /\ ~ Tradable(Head(queue))
  /\ queue' = Tail(queue)
  /\ UNCHANGED <<world, cache, tables, phase, scans>>

\* A cap, a live order that fails or want of cash refuses the bet (Ledger
\* says when): a "rejected" or "failed" row names the analysis, which will be
\* passed over from now on.  A paper bet that cannot be paid for leaves the
\* market's status as if it had been made.
PlaceRefuse ==
  /\ phase = "placing" /\ queue # <<>>
  /\ Tradable(Head(queue))
  /\ bets' = Append(bets, Closed(NewBet(Head(queue))))
  /\ \E status \in {row[Head(queue).market].status, "bet_placed"} :
       row' = [row EXCEPT ![Head(queue).market].status = status]
  /\ queue' = Tail(queue)
  /\ UNCHANGED <<world, cache, forecast, signals, phase, scans>>

\* place_bet raises at any point, is rolled back and logged, and the loop goes
\* on: this analysis, too, comes up again.
PlaceFail ==
  /\ phase = "placing" /\ queue # <<>>
  /\ queue' = Tail(queue)
  /\ UNCHANGED <<world, cache, tables, phase, scans>>

PlaceEnd ==
  /\ phase = "placing" /\ queue = <<>>
  /\ phase' = "risk"
  /\ UNCHANGED <<world, cache, tables, queue, scans>>
-----------------------------------------------------------------------------
(* The rest of the cycle, and what else goes on.                            *)

\* run_update_prices decides nothing here; run_risk_management may close what
\* has moved since it was bought.
Moved(b) == b.open /\ SidePrice(row[b.market].quote, b.side) # b.price

ManageRisk ==
  /\ phase = "risk"
  /\ \E exits \in SUBSET {i \in DOMAIN bets : Moved(bets[i])} :
       bets' = [i \in DOMAIN bets |-> IF i \in exits THEN Closed(bets[i]) ELSE bets[i]]
  /\ phase' = "sleep"
  /\ UNCHANGED <<world, cache, row, forecast, signals, queue, scans>>

\* A job raises (a body that is not JSON, a locked database): the rest of the
\* cycle is skipped, and what the job had not committed is gone.
Raise ==
  /\ phase \in {"fetch", "weather", "analyze", "place", "risk"}
  /\ phase' = "sleep"
  /\ UNCHANGED <<world, cache, tables, queue, scans>>

NextScan ==
  /\ phase = "sleep" /\ scans < MaxScans
  /\ phase' = "fetch"
  /\ scans' = scans + 1
  /\ UNCHANGED <<world, cache, tables, queue>>

\* The server process ends and is started again.
Restart ==
  /\ cache' = [q \in Query |-> Absent]
  /\ phase' = "sleep"
  /\ queue' = <<>>
  /\ UNCHANGED <<world, tables, scans>>

\* /api/cleanup: what earlier days have left.
Cleanup ==
  /\ signals' = {s \in signals : ~ (s.should_bet /\ s.day < day)}
  /\ bets' = [i \in DOMAIN bets |-> IF bets[i].day < day THEN Closed(bets[i]) ELSE bets[i]]
  /\ UNCHANGED <<world, cache, row, forecast, phase, queue, scans>>

\* The reset command keeps the rows of bets, /api/reset does not.
ResetCli ==
  /\ signals' = {}
  /\ bets' = [i \in DOMAIN bets |-> Closed(bets[i])]
  /\ UNCHANGED <<world, cache, row, forecast, phase, queue, scans>>

ResetApi ==
  /\ signals' = {}
  /\ bets' = <<>>
  /\ UNCHANGED <<world, cache, row, forecast, phase, queue, scans>>

MarketMoves ==
  /\ \E m \in Market : \E quote \in Offers : offered' = [offered EXCEPT ![m] = quote]
  /\ UNCHANGED <<day, cache, tables, phase, queue, scans>>

Tomorrow ==
  /\ day < MaxDay
  /\ day' = day + 1
  /\ UNCHANGED <<offered, cache, tables, phase, queue, scans>>
-----------------------------------------------------------------------------
Init ==
  /\ offered \in [Market -> Offers]
  /\ day = 1
  /\ cache = [q \in Query |-> Absent]
  /\ row = [m \in Market |-> Absent]
  /\ forecast = [m \in Market |-> Absent]
  /\ signals = {}
  /\ bets = <<>>
  /\ phase = "sleep"
  /\ queue = <<>>
  /\ scans = 0

Next ==
  \/ NextScan \/ Fetch \/ FetchWeather \/ Analyze
  \/ PlaceBegin \/ PlaceBet \/ PlaceSkip \/ PlaceRefuse \/ PlaceFail \/ PlaceEnd \/ ManageRisk \/ Raise
  \/ Restart \/ Cleanup \/ ResetCli \/ ResetApi
  \/ MarketMoves \/ Tomorrow

Spec == Init /\ [][Next]_vars
-----------------------------------------------------------------------------
(* Properties.                                                              *)

Id == 1 .. MaxScans * Cardinality(Market)
Answer == {NoAnswer, Absent} \cup UNION {[S -> Offers] : S \in SUBSET Market}
Row == [quote : Offers, status : {"open", "bet_placed", "no_coords"}]
Signals ==
  [id : Id, at : 1 .. MaxScans, day : 1 .. MaxDay, market : Market, prob : Percent,
   quote : Offers, side : {"YES", "NO", "none"}, amount : 0 .. MaxStake,
   should_bet : BOOLEAN]
Bets ==
  [analysis : Id, at : 1 .. MaxScans, market : Market, side : {"YES", "NO"},
   price : Percent, day : 1 .. MaxDay, open : BOOLEAN]

\* Types, and: no two analyses have the same id.
TypeOK ==
  /\ offered \in [Market -> Offers]
  /\ day \in 1 .. MaxDay
  /\ cache \in [Query -> Answer]
  /\ row \in [Market -> Row \cup {Absent}]
  /\ forecast \in [Market -> Beliefs \cup {Absent}]
  /\ \A s \in signals : s \in Signals
  /\ \A r, s \in signals : r.id = s.id => r = s
  /\ \A i \in DOMAIN bets : bets[i] \in Bets
  /\ phase \in {"sleep", "fetch", "weather", "analyze", "place", "placing", "risk"}
  /\ \A i \in DOMAIN queue : queue[i] \in Signals
  /\ scans \in 0 .. MaxScans

\* One analysis is dealt with once: the bet made on it, or the refusal that a
\* cap, a failed order or want of cash left behind, is its only row, however
\* often it comes up again, and whether its bet is still open or was closed
\* early, cancelled or cleaned up.
SignalOnce ==
  \A i, j \in DOMAIN bets :
    (bets[i].analysis = bets[j].analysis /\ bets[i].at = bets[j].at) => i = j

\* What is recommended has an edge on its own side, by the demanded margin,
\* and is staked within Kelly's share of the bankroll and the limit; also
\* where the two prices of a market do not add up to one.
SoundAdvice ==
  \A s \in signals : s.should_bet =>
    LET prob == IF s.side = "YES" THEN s.prob ELSE One - s.prob
        price == SidePrice(s.quote, s.side)
    IN  /\ s.side # "none"
        /\ prob - price >= MinEdge
        /\ s.amount * One * (One - price) <= Bankroll * KellyPct * (prob - price)
        /\ s.amount <= MaxStake

\* A bet is made on a day that is at most MaxDaysAhead before the market's
\* and not after it, although the window of the fetch lets other days through
\* and the analysis may be of another day.
BetsInTime ==
  \A i \in DOMAIN bets :
    Day[bets[i].market] \in bets[i].day .. bets[i].day + MaxDaysAhead

\* The rows a fetch has written show what Gamma offers at that moment.
SavedIsCurrent ==
  [][Fetch => \A m \in Found(cache') : Savable(m) => row'[m].quote = offered[m]]_vars

\* A bet is made on what the newest analysis of its market says.
Newest(m) == CHOOSE s \in signals : s.market = m /\ \A r \in signals : r.market = m => r.at <= s.at
BetsHaveValue ==
  [][PlaceBet => LET m == Head(queue).market
                 IN  Newest(m).should_bet /\ Newest(m).side = Head(queue).side]_vars

\* An analysis that is passed over because it has a bet has one.
SkippedHaveBets ==
  \A s \in signals : s.should_bet /\ Processed(s.id) =>
    \E i \in DOMAIN bets : bets[i].analysis = s.id /\ bets[i].at = s.at
=============================================================================
