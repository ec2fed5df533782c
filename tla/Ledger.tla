------------------------------- MODULE Ledger -------------------------------
(***************************************************************************)
(* The bets table, the portfolio row and every job that changes them:      *)
(* place, update prices, risk, settle, cleanup and the two resets, with    *)
(* the fetch and analyze jobs that feed them.                              *)
(*                                                                         *)
(* A job works the way a SQLAlchemy session of database/db.py does: it     *)
(* reads rows into objects, changes the objects, and its commit writes, in *)
(* one transaction, the columns whose value differs from the value loaded. *)
(* Nothing checks that the row is still as it was read (no version column, *)
(* no SELECT FOR UPDATE); an UPDATE of a row that is gone rolls the whole  *)
(* transaction back.  Jobs run on threads (main.py) or in another process  *)
(* (the command line), so their steps interleave when Overlap is TRUE.     *)
(***************************************************************************)
EXTENDS Pricing, Sequences, FiniteSets, FiniteSetsExt

CONSTANTS
  Worker,            \* the threads and processes that run jobs
  Jobs,              \* Jobs[w]: the jobs worker w runs, one at a time
  Overlap,           \* whether a job may start while another is in progress
  Resets,            \* the reset commands in use, a subset of {"api", "cli"}
  Market,
  City,              \* City[m]: the city market m is about
  TargetDay,         \* TargetDay[m]: the market's target_date is the end of it
  Quotes,            \* the quotes Polymarket may show
  Sides,             \* the sides an analysis may recommend
  Stakes,            \* the amounts an analysis may recommend
  Ladders,           \* whether |edge| >= 0.05: a subset of BOOLEAN
  Live,              \* LIVE_TRADING_ENABLED with credentials and no DRY_RUN
  InitialPortfolio,  \* Config.INITIAL_PORTFOLIO
  ResetCash,         \* the 1000.0 both resets write
  MaxBetPct,         \* Config.MAX_BET_PCT
  TotalExposurePct,  \* Config.TOTAL_EXPOSURE_PCT
  CityCap,           \* Config.CITY_CAP
  MinEntry,          \* Config.MIN_ENTRY_PRICE
  FeePct,            \* Config.FEE_DRAG
  MaxDay,            \* bound on the days that pass
  MaxAnalyses,       \* bound on the analysis ids
  MaxBets,           \* bound on the bet ids
  MaxResets,         \* bound on the resets
  NoRow              \* an object that is not loaded

JobName == {"fetch", "analyze", "place", "update", "risk", "settle", "cleanup"}
AnalysisId == 1 .. MaxAnalyses
BetId == 1 .. MaxBets
NoCash == -1

ClosedStatus == {"won", "lost", "closed_early", "cancelled", "rejected", "failed"}
BetStatus == {"placed"} \cup ClosedStatus
MarketStatus == {"open", "bet_placed", "settled_win", "settled_loss", "expired"}

Bet == [market : Market, analysis : Nat, on : Nat, side : Side, amount : Nat,
        entry : 1 .. One, ladder : BOOLEAN, filled : SUBSET Rung,
        status : BetStatus, pnl : Int, peak : Nat]
Analysis == [id : Nat, market : Market, on : Nat, side : Side,
             amount : Nat, ladder : BOOLEAN]

ASSUME JobsAssumption ==
  /\ Jobs \in [Worker -> SUBSET JobName]
  /\ Overlap \in BOOLEAN
  /\ Resets \subseteq {"api", "cli"}
ASSUME MarketAssumption ==
  /\ Quotes \subseteq Quote
  /\ Sides \subseteq Side
  /\ Stakes \subseteq Nat
  /\ Ladders \subseteq BOOLEAN
  /\ Live \in BOOLEAN
  /\ TargetDay \in [Market -> Nat]
ASSUME MoneyAssumption ==
  /\ InitialPortfolio \in Nat
  /\ ResetCash \in Nat
  /\ MaxBetPct \in Nat
  /\ TotalExposurePct \in Nat
  /\ CityCap \in Nat
  /\ MinEntry \in Nat
  /\ FeePct \in 0 .. 100
ASSUME BoundAssumption ==
  /\ MaxDay \in Nat
  /\ MaxAnalyses \in Nat
  /\ MaxBets \in Nat
  /\ MaxResets \in Nat
  /\ NoRow \notin Bet

VARIABLES
  portfolio,  \* row 1 of the portfolio table: initial_value and cash_balance
  bets,       \* the bets table: row b has id b
  analyses,   \* the rows of analyses with should_bet set
  markets,    \* weather_markets: the quote and the status of each market
  day,        \* the date
  resets,     \* the number of resets so far
  session     \* session[w]: the job worker w runs and the objects it holds

database == <<portfolio, bets, analyses, markets>>
vars == <<portfolio, bets, analyses, markets, day, resets, session>>
-----------------------------------------------------------------------------
(* The tables.                                                              *)

IsOpen(b) == b.status = "placed"
OpenIds == {i \in DOMAIN bets : IsOpen(bets[i])}
\* A mistake: a query for the market's bets that forgets their status.
AnyIn(m) == {i \in DOMAIN bets : bets[i].market = m}
OpenIn(m) == {i \in OpenIds : bets[i].market = m}
Due(m) == TargetDay[m] < day
QuoteOf(m) == [yes |-> markets[m].yes, no |-> markets[m].no]
MarkOf(b) == MarkPrice(QuoteOf(b.market), b.side)
\* run_risk_management reads a YES price of zero as a price of one half.
RiskMark(b) ==
  IF markets[b.market].yes = 0 THEN One \div 2 ELSE MarkOf(b)

\* SQLite gives a row the id after the largest one in use.
NextAnalysisId == IF analyses = {} THEN 1 ELSE Max({a.id : a \in analyses}) + 1

Exposure == SumFunction([i \in OpenIds |-> bets[i].amount])
\* What has been taken from cash for the positions that are open.
PaidForOpen == SumFunction([i \in OpenIds |-> Paid(bets[i])])
Settled  == {i \in DOMAIN bets : bets[i].status \in {"won", "lost"}}
Realized == SumFunction([i \in Settled |-> bets[i].pnl])

\* The portfolio value the caps are a fraction of.
PortfolioValue == InitialPortfolio + Realized
-----------------------------------------------------------------------------
(* A session: the job, the rows it loaded (seen), the same rows as it       *)
(* changed them (mine), and the cash balance as loaded (base) and as        *)
(* changed (purse), which the first debit or credit loads.                  *)

Session ==
  [job    : JobName \cup {"idle"},
   step   : {"run", "ask", "debit", "commit"},
   queue  : SUBSET Nat,                \* analyses still to place, or to delete
   due    : SUBSET Market,             \* markets still to settle
   todo   : SUBSET BetId,              \* bets whose money is still to move
   bill   : [BetId -> Nat],            \* the money each of them moves
   seen   : [BetId -> Bet \cup {NoRow}],
   mine   : [BetId -> Bet \cup {NoRow}],
   status : [Market -> MarketStatus \cup {"kept"}],  \* status columns to write
   base   : Nat \cup {NoCash},
   purse  : Nat \cup {NoCash},
   add    : Seq(Bet)]                  \* rows to insert

NoSession ==
  [job |-> "idle", step |-> "run", queue |-> {}, due |-> {}, todo |-> {},
   bill |-> [i \in BetId |-> 0],
   seen |-> [i \in BetId |-> NoRow], mine |-> [i \in BetId |-> NoRow],
   status |-> [m \in Market |-> "kept"],
   base |-> NoCash, purse |-> NoCash, add |-> <<>>]

Idle(w) == session[w].job = "idle"
MayStart(w, j) ==
  /\ Idle(w)
  /\ j \in Jobs[w]
  /\ Overlap \/ \A v \in Worker : Idle(v)
First(i, ids) == i \in ids /\ \A j \in ids : i <= j
At(w, j, s) == session[w].job = j /\ session[w].step = s
Become(w, s) == session' = [session EXCEPT ![w] = s]

\* The cleanup transaction begins with its DELETE and so holds SQLite's write
\* lock until it commits; every other transaction writes only at its commit.
CanWrite(w) == \A v \in Worker \ {w} : session[v].job # "cleanup"

\* The rows a query returned, as objects.
Load(ids) == [i \in BetId |-> IF i \in ids THEN bets[i] ELSE NoRow]

\* utils/accounting.py on the session's object of the portfolio row.
Base(s)  == IF s.purse = NoCash THEN portfolio.cash ELSE s.base
Purse(s) == IF s.purse = NoCash THEN portfolio.cash ELSE s.purse
\* A mistake: a debit that does not look at the funds.
DebitBlindly(s, amount) ==
  [s EXCEPT !.base = Base(s), !.purse = Purse(s) - amount]
DebitStake(s, amount) ==
  IF Purse(s) < amount
    THEN s
    ELSE [s EXCEPT !.base = Base(s), !.purse = Purse(s) - amount]
\* A mistake: every credit is added to the balance as it was loaded.
CreditLoaded(s, amount) == [s EXCEPT !.base = Base(s), !.purse = Base(s) + amount]
Credit(s, amount) == [s EXCEPT !.base = Base(s), !.purse = Purse(s) + amount]
-----------------------------------------------------------------------------
(* fetch and analyze, each one transaction.                                 *)

\* PolymarketScraper.fetch_and_save: a market of today or later gets a new
\* quote and is open again, whatever its status was.
Fetch(w) ==
  /\ MayStart(w, "fetch") /\ CanWrite(w)
  /\ \E m \in Market, q \in Quotes :
       /\ ~Due(m)
       /\ markets' = [markets EXCEPT ![m] =
                        [yes |-> q.yes, no |-> q.no, status |-> "open"]]
  /\ UNCHANGED <<portfolio, bets, analyses, day, resets, session>>

\* run_analyze of an open market that ends with should_bet set.  What the
\* forecasts say is left open: any side, stake and edge.
Analyze(w) ==
  /\ MayStart(w, "analyze") /\ CanWrite(w)
  /\ NextAnalysisId \in AnalysisId
  /\ \E m \in Market, side \in Sides, amount \in Stakes, ladder \in Ladders :
       /\ markets[m].status = "open"
       /\ ~Due(m)
       /\ ValidQuote(QuoteOf(m))
       /\ analyses' = analyses \cup
            {[id |-> NextAnalysisId, market |-> m, on |-> day, side |-> side,
              amount |-> amount, ladder |-> ladder]}
  /\ UNCHANGED <<portfolio, bets, markets, day, resets, session>>
-----------------------------------------------------------------------------
(* place: BetPlacer.place_all_pending, then place_bet for each analysis.    *)

\* The analyses no bet row refers to.
Pending == {a.id : a \in analyses} \ {bets[i].analysis : i \in DOMAIN bets}

\* Bound: rows that the running place jobs may still add.
Placing  == {v \in Worker : session[v].job = "place"}
Reserved == SumFunction([v \in Placing |-> Cardinality(session[v].queue) + Len(session[v].add)])

PlaceBegin(w) ==
  /\ MayStart(w, "place")
  /\ Pending # {}
  /\ Len(bets) + Reserved + Cardinality(Pending) <= MaxBets
  /\ Become(w, [NoSession EXCEPT !.job = "place", !.queue = Pending])
  /\ UNCHANGED <<database, day, resets>>

\* The session after one analysis of the queue is dealt with.
AfterPlace(queue) ==
  IF queue = {} THEN NoSession
                ELSE [NoSession EXCEPT !.job = "place", !.queue = queue]

\* A mistake: no look at the bets the market already has.
NotQuoted(m) == ~ValidQuote(QuoteOf(m)) \/ Due(m) \/ markets[m].yes < MinEntry

\* place_bet returns before it looks at the caps.
NotTradable(m) ==
  \/ ~ValidQuote(QuoteOf(m))
  \/ Due(m)
  \/ markets[m].yes < MinEntry
  \/ OpenIn(m) # {}

\* Cap 1 clamps the stake.  A portfolio value below zero would make the clamp
\* negative; cap 2 then rejects the bet whatever the stake is.
MaxBet == IF PortfolioValue > 0 THEN (PortfolioValue * MaxBetPct) \div 100 ELSE 0
Stake(a) == Smaller(a.amount, MaxBet)

\* Two mistakes: the new stake left out of cap 2, an off-by-one in cap 3.
OverExposedBefore(stake) == 100 * Exposure > TotalExposurePct * PortfolioValue
CityOverfull(m) == Cardinality({i \in OpenIds : City[bets[i].market] = City[m]}) > CityCap

\* Caps 2 and 3.
OverExposed(stake) == 100 * (Exposure + stake) > TotalExposurePct * PortfolioValue
CityFull(m) == Cardinality({i \in OpenIds : City[bets[i].market] = City[m]}) >= CityCap

NewBet(a, stake, status) ==
  LET fill == FillPrice(QuoteOf(a.market), a.side)
  IN  [market |-> a.market, analysis |-> a.id, on |-> day, side |-> a.side,
       amount |-> stake, entry |-> fill, ladder |-> a.ladder,
       filled |-> IF a.ladder THEN {1} ELSE {},
       status |-> status, pnl |-> 0, peak |-> fill]

\* The analysis is gone, or its market cannot be traded.
PlaceSkip(w) ==
  LET queue == session[w].queue
  IN /\ At(w, "place", "run")
     /\ \E id \in queue :
          /\ First(id, queue)
          /\ \A a \in analyses : a.id = id => NotTradable(a.market)
          /\ Become(w, AfterPlace(queue \ {id}))
     /\ UNCHANGED <<database, day, resets>>

\* A cap is reached: a "rejected" row records it.
PlaceReject(w) ==
  LET queue == session[w].queue
  IN /\ At(w, "place", "run") /\ CanWrite(w)
     /\ \E a \in analyses :
          /\ First(a.id, queue)
          /\ ~NotTradable(a.market)
          /\ OverExposed(Stake(a)) \/ CityFull(a.market)
          /\ bets' = Append(bets, [NewBet(a, Stake(a), "rejected") EXCEPT !.filled = {}])
          /\ Become(w, AfterPlace(queue \ {a.id}))
     /\ UNCHANGED <<portfolio, analyses, markets, day, resets>>

\* The caps let the bet through.  A live order may fail; the row is then
\* "failed" and the market keeps its status, but the handler goes on.
PlaceAdmit(w) ==
  LET queue == session[w].queue
  IN /\ At(w, "place", "run")
     /\ \E a \in analyses, accepted \in IF Live THEN BOOLEAN ELSE {TRUE} :
          LET m == a.market IN
          /\ First(a.id, queue)
          /\ ~NotTradable(m)
          /\ ~OverExposed(Stake(a)) /\ ~CityFull(m)
          /\ Become(w, [NoSession EXCEPT
               !.job = "place", !.step = "debit", !.queue = queue \ {a.id},
               !.add = <<NewBet(a, Stake(a), IF accepted THEN "placed" ELSE "failed")>>,
               !.status = [NoSession.status EXCEPT ![m] =
                 IF accepted /\ markets[m].status # "bet_placed"
                   THEN "bet_placed" ELSE "kept"]])
     /\ UNCHANGED <<database, day, resets>>

\* A mistake: the result of the debit is not looked at.
PlaceDebitUnchecked(w) ==
  LET s == session[w]
  IN /\ At(w, "place", "debit")
     /\ Become(w, [DebitStake(s, Paid(s.add[1])) EXCEPT !.step = "commit"])
     /\ UNCHANGED <<database, day, resets>>

\* The stake leaves the session's purse, or the bet fails for want of cash.
PlaceDebit(w) ==
  LET s    == session[w]
      cost == Paid(s.add[1])
  IN /\ At(w, "place", "debit")
     /\ Become(w, [DebitStake(s, cost) EXCEPT
          !.step = "commit",
          !.add[1].status = IF Purse(s) < cost THEN "failed" ELSE @])
     /\ UNCHANGED <<database, day, resets>>
-----------------------------------------------------------------------------
(* update prices: run_update_prices fills the rungs the price has reached.  *)
(* current_price and unrealized_pnl are not modelled: no job reads them.    *)

UpdateBegin(w) ==
  LET fills(i) == NewFills(bets[i], MarkOf(bets[i]))
      row(i)   == [bets[i] EXCEPT !.filled = @ \cup fills(i)]
      ids      == OpenIds \cap BetId
  IN /\ MayStart(w, "update")
     /\ ids # {}
     /\ Become(w, [NoSession EXCEPT
          !.job = "update",
          !.seen = Load(ids),
          !.mine = [i \in BetId |-> IF i \in ids THEN row(i) ELSE NoRow],
          !.todo = {i \in ids : fills(i) # {}},
          !.bill = [i \in BetId |-> IF i \in ids THEN RungsCost(bets[i], fills(i)) ELSE 0]])
     /\ UNCHANGED <<database, day, resets>>

\* The rungs are already marked filled: a debit that fails is only logged.
UpdateDebit(w) ==
  LET s == session[w]
  IN /\ At(w, "update", "run")
     /\ \E i \in s.todo :
          /\ First(i, s.todo)
          /\ Become(w, [DebitStake(s, s.bill[i]) EXCEPT !.todo = @ \ {i}])
     /\ UNCHANGED <<database, day, resets>>
-----------------------------------------------------------------------------
(* risk: run_risk_management closes the positions whose price says so.      *)

RiskBegin(w) ==
  LET exits  == {i \in OpenIds \cap BetId : EarlyExit(bets[i], RiskMark(bets[i]))}
      row(i) == [bets[i] EXCEPT
                   !.peak   = PeakAfter(bets[i], RiskMark(bets[i])),
                   !.status = IF i \in exits THEN "closed_early" ELSE @,
                   !.pnl    = IF i \in exits THEN SalePnl(bets[i], RiskMark(bets[i])) ELSE @]
      ids    == OpenIds \cap BetId
  IN /\ MayStart(w, "risk")
     /\ ids # {}
     /\ Become(w, [NoSession EXCEPT
          !.job = "risk",
          !.seen = Load(ids),
          !.mine = [i \in BetId |-> IF i \in ids THEN row(i) ELSE NoRow],
          !.todo = exits,
          !.bill = [i \in BetId |-> IF i \in exits
                      THEN SaleProceeds(bets[i], RiskMark(bets[i])) ELSE 0]])
     /\ UNCHANGED <<database, day, resets>>
-----------------------------------------------------------------------------
(* settle: SettlementEngine.settle_all, one session for all due markets.    *)

\* A mistake: settling only the markets whose status is still "open".
SettleOpenOnly(w) ==
  LET ready == {m \in Market : markets[m].status = "open" /\ Due(m)}
  IN /\ MayStart(w, "settle")
     /\ ready # {}
     /\ Become(w, [NoSession EXCEPT !.job = "settle", !.due = ready])
     /\ UNCHANGED <<database, day, resets>>

SettleBegin(w) ==
  LET ready == {m \in Market : markets[m].status \in {"open", "bet_placed"} /\ Due(m)}
  IN /\ MayStart(w, "settle")
     /\ ready # {}
     /\ Become(w, [NoSession EXCEPT !.job = "settle", !.due = ready])
     /\ UNCHANGED <<database, day, resets>>

\* A mistake: a market that is due expires whatever is open on it.
SettleExpireAny(w) ==
  LET s == session[w]
  IN /\ At(w, "settle", "run") /\ s.todo = {}
     /\ \E m \in s.due : Become(w, [s EXCEPT !.due = @ \ {m}, !.status[m] = "expired"])
     /\ UNCHANGED <<database, day, resets>>

\* _settle_market loads the market's open bets; without any it expires.
SettleExpire(w) ==
  LET s == session[w]
  IN /\ At(w, "settle", "run") /\ s.todo = {}
     /\ \E m \in s.due :
          /\ OpenIn(m) = {}
          /\ Become(w, [s EXCEPT !.due = @ \ {m}, !.status[m] = "expired"])
     /\ UNCHANGED <<database, day, resets>>

\* With open bets it asks the Gamma API, which takes up to 15 seconds.  The
\* rows in question are the ones in todo.
SettleAsk(w) ==
  LET s == session[w]
  IN /\ At(w, "settle", "run") /\ s.todo = {}
     /\ \E m \in s.due :
          LET ids == OpenIn(m) \cap BetId IN
          /\ ids # {}
          /\ Become(w, [s EXCEPT
               !.step = "ask", !.due = @ \ {m}, !.todo = ids,
               !.seen = [i \in BetId |-> IF i \in ids THEN bets[i] ELSE @[i]],
               !.mine = [i \in BetId |-> IF i \in ids THEN bets[i] ELSE @[i]]])
     /\ UNCHANGED <<database, day, resets>>

\* No answer, or no decisive price: the market waits for the next cycle.
SettlePending(w) ==
  LET s == session[w]
  IN /\ At(w, "settle", "ask")
     /\ Become(w, [s EXCEPT
          !.step = "run", !.todo = {},
          !.seen = [i \in BetId |-> IF i \in s.todo THEN NoRow ELSE @[i]],
          !.mine = [i \in BetId |-> IF i \in s.todo THEN NoRow ELSE @[i]]])
     /\ UNCHANGED <<database, day, resets>>

\* A decisive price: every row loaded for the market is won or lost.
SettleAnswer(w) ==
  LET s == session[w]
      row(i, outcome) ==
        [s.mine[i] EXCEPT !.status = IF s.mine[i].side = outcome THEN "won" ELSE "lost",
                          !.pnl = SettlementPnl(s.mine[i], outcome, FeePct)]
  IN /\ At(w, "settle", "ask")
     /\ \E outcome \in Side, i0 \in s.todo :
          Become(w, [s EXCEPT
            !.step = "run",
            !.status[s.mine[i0].market] = IF outcome = "YES" THEN "settled_win" ELSE "settled_loss",
            !.bill = [i \in BetId |-> IF i \in s.todo
                        THEN SettlementCredit(s.mine[i], outcome, FeePct) ELSE 0],
            !.mine = [i \in BetId |-> IF i \in s.todo THEN row(i, outcome) ELSE s.mine[i]]])
     /\ UNCHANGED <<database, day, resets>>
-----------------------------------------------------------------------------
(* cleanup: /api/cleanup cancels the bets placed before today and refunds   *)
(* what was paid for them; the stale analyses go too.                       *)

CleanupBegin(w) ==
  LET stale == {i \in OpenIds \cap BetId : bets[i].on < day}
      old   == {a \in analyses : a.on < day}
  IN /\ MayStart(w, "cleanup") /\ CanWrite(w)
     /\ stale # {} \/ old # {}
     /\ Become(w, [NoSession EXCEPT
          !.queue = {a.id : a \in old},
          !.job = "cleanup",
          !.seen = Load(stale),
          !.mine = [i \in BetId |-> IF i \in stale
                      THEN [bets[i] EXCEPT !.status = "cancelled"] ELSE NoRow],
          !.todo = stale,
          !.bill = [i \in BetId |-> IF i \in stale THEN Paid(bets[i]) ELSE 0]])
     /\ UNCHANGED <<database, day, resets>>

\* The credit of one row: a sale, a settlement or a refund.
PostCredit(w) ==
  LET s == session[w]
  IN /\ s.job \in {"risk", "settle", "cleanup"} /\ s.step = "run"
     /\ \E i \in s.todo :
          /\ First(i, s.todo)
          /\ Become(w, [Credit(s, s.bill[i]) EXCEPT !.todo = @ \ {i}])
     /\ UNCHANGED <<database, day, resets>>
-----------------------------------------------------------------------------
(* The end of a session: the flush and the commit, or the rollback.         *)

Changed(s) == {i \in BetId : s.mine[i] # s.seen[i]}
Loaded(s)  == {i \in BetId : s.seen[i] # NoRow}

\* A mistake: writing the whole object back.
WrittenWhole(row, old, new) ==
  [row EXCEPT !.status = new.status, !.pnl = new.pnl,
              !.filled = new.filled, !.peak = new.peak]

\* The row after an UPDATE of the columns that differ from the value loaded.
Written(row, old, new) ==
  [row EXCEPT !.status = IF new.status = old.status THEN @ ELSE new.status,
              !.pnl    = IF new.pnl    = old.pnl    THEN @ ELSE new.pnl,
              !.filled = IF new.filled = old.filled THEN @ ELSE new.filled,
              !.peak   = IF new.peak   = old.peak   THEN @ ELSE new.peak]

Flushed(s) ==
  [i \in 1 .. Len(bets) |->
     IF i \in Changed(s) THEN Written(bets[i], s.seen[i], s.mine[i]) ELSE bets[i]]

Finished(s) ==
  CASE s.job = "idle"  -> FALSE
    [] s.job = "place" -> s.step = "commit"
    [] OTHER           -> s.step = "run" /\ s.todo = {} /\ s.due = {}

\* The session the worker goes on with: place takes up its next analysis.
AfterSession(s) == AfterPlace(IF s.job = "place" THEN s.queue ELSE {})

Commit(w) ==
  LET s == session[w]
  IN /\ Finished(s) /\ CanWrite(w)
     /\ Changed(s) \subseteq DOMAIN bets
     /\ bets' = Flushed(s) \o s.add
     /\ portfolio' = [portfolio EXCEPT !.cash = IF s.purse = s.base THEN @ ELSE s.purse]
     /\ markets' = [m \in Market |->
          IF s.status[m] = "kept" THEN markets[m]
                                  ELSE [markets[m] EXCEPT !.status = s.status[m]]]
     /\ analyses' = IF s.job = "cleanup" THEN {a \in analyses : a.id \notin s.queue}
                                         ELSE analyses
     /\ Become(w, AfterSession(s))
     /\ UNCHANGED <<day, resets>>

\* A row to update is gone.  An update job may also have marked to market a
\* row it loaded, so it fails when any of those is gone and it wrote there.
Rollback(w) ==
  LET s == session[w]
  IN /\ Finished(s) /\ CanWrite(w)
     /\ \/ ~(Changed(s) \subseteq DOMAIN bets)
        \/ s.job = "update" /\ ~(Loaded(s) \subseteq DOMAIN bets)
     /\ Become(w, AfterSession(s))
     /\ UNCHANGED <<database, day, resets>>
-----------------------------------------------------------------------------
(* The resets: one transaction each, whatever jobs are in flight.           *)

ResetAllowed(kind) ==
  /\ kind \in Resets
  /\ resets < MaxResets
  /\ \A w \in Worker : session[w].job # "cleanup"
  /\ Overlap \/ \A w \in Worker : Idle(w)

\* /api/reset stops the loops, not the threads their jobs run on.
ResetApi ==
  /\ ResetAllowed("api")
  /\ bets' = <<>>
  /\ analyses' = {}
  /\ portfolio' = [initial |-> ResetCash, cash |-> ResetCash]
  /\ resets' = resets + 1
  /\ UNCHANGED <<markets, day, session>>

\* The reset command keeps the rows and sets the status of every one.
ResetCli ==
  /\ ResetAllowed("cli")
  /\ bets' = [i \in 1 .. Len(bets) |-> [bets[i] EXCEPT !.status = "cancelled"]]
  /\ analyses' = {}
  /\ portfolio' = [portfolio EXCEPT !.cash = ResetCash]
  /\ resets' = resets + 1
  /\ UNCHANGED <<markets, day, session>>

NextDay ==
  /\ day < MaxDay
  /\ day' = day + 1
  /\ UNCHANGED <<database, resets, session>>
-----------------------------------------------------------------------------
Init ==
  /\ portfolio = [initial |-> InitialPortfolio, cash |-> InitialPortfolio]
  /\ bets = <<>>
  /\ analyses = {}
  /\ markets \in [Market -> {[yes |-> q.yes, no |-> q.no, status |-> "open"] : q \in Quotes}]
  /\ day = 0
  /\ resets = 0
  /\ session = [w \in Worker |-> NoSession]

Place(w)   == PlaceSkip(w) \/ PlaceReject(w) \/ PlaceAdmit(w) \/ PlaceDebit(w)
Settle(w)  == SettleExpire(w) \/ SettleAsk(w) \/ SettlePending(w) \/ SettleAnswer(w)
Begin(w)   == PlaceBegin(w) \/ UpdateBegin(w) \/ RiskBegin(w) \/ SettleBegin(w) \/ CleanupBegin(w)
Money(w)   == UpdateDebit(w) \/ PostCredit(w)
End(w)     == Commit(w) \/ Rollback(w)

Next ==
  \/ \E w \in Worker :
       Fetch(w) \/ Analyze(w) \/ Begin(w) \/ Place(w) \/ Settle(w) \/ Money(w) \/ End(w)
  \/ ResetApi
  \/ ResetCli
  \/ NextDay

Spec == Init /\ [][Next]_vars

\* Fairness.  A thread that runs a job goes on with it, both loops come back
\* to their jobs for ever, and the Gamma API, asked again and again about a
\* market whose day has passed, at last shows a decisive price.
Step(w) == Place(w) \/ SettleExpire(w) \/ SettleAsk(w) \/ Money(w) \/ End(w)
Fairness ==
  /\ \A w \in Worker : /\ WF_vars(Step(w))
                        /\ WF_vars(SettlePending(w) \/ SettleAnswer(w))
                        /\ SF_vars(SettleBegin(w))
                        /\ SF_vars(SettleAnswer(w))
FairSpec == Spec /\ Fairness
-----------------------------------------------------------------------------
(* Properties.                                                              *)

\* A session holds what its next step reads: the row to insert while its
\* stake is debited, the rows a market's answer is for, both copies of a row.
Sound(s) ==
  /\ s \in Session
  /\ s.step = "debit" => Len(s.add) = 1
  /\ s.step = "ask" => \A i \in s.todo : s.mine[i] # NoRow
  /\ \A i \in BetId : s.seen[i] = NoRow <=> s.mine[i] = NoRow
  /\ s.purse = NoCash => s.base = NoCash

\* Types.  The cash balance is a natural number: no interleaving of jobs
\* overdraws the account (debit_stake refuses, credits only add).
TypeOK ==
  /\ portfolio \in [initial : Nat, cash : Nat]
  /\ bets \in Seq(Bet)
  /\ analyses \subseteq Analysis
  /\ markets \in [Market -> [yes : 0 .. One, no : 0 .. One, status : MarketStatus]]
  /\ day \in Nat
  /\ resets \in Nat
  /\ session \in [Worker -> Session]
  /\ \A w \in Worker : Sound(session[w])

\* How far a laddered row may be out.  It is settled by its whole stake and
\* sold by its entry price, although only its filled rungs were paid for, each
\* at a price of its own and rounded to a cent, and a rung whose debit failed
\* was not paid for at all.
Shortfall(b) ==
  IF b.ladder /\ b.status \in {"won", "lost", "closed_early"} THEN 2 ELSE 0
Surplus(b) ==
  IF ~b.ladder \/ b.status \in {"rejected", "failed"} THEN 0 ELSE
    CASE b.status \in {"won", "lost"} -> b.amount - RungAmount(b.amount, 1)
      [] b.status = "closed_early" -> Paid(b) + Paid(b) \div 10 + 3 - RungAmount(b.amount, 1)
      [] OTHER -> Paid(b) - RungAmount(b.amount, 1)

\* The books balance: the cash is what the account started with, plus the
\* pnl booked on every row, less what has been paid for the open positions,
\* to the cent for plain stakes and as near as the rows' ladders allow.
\* It relates the portfolio row to all the bet rows, so a write that is lost,
\* made twice or made to one of the two tables only breaks it.
BooksBalance ==
  LET out == portfolio.cash + PaidForOpen
               - portfolio.initial - SumFunction([i \in DOMAIN bets |-> bets[i].pnl])
  IN  /\ -SumFunction([i \in DOMAIN bets |-> Shortfall(bets[i])]) <= out
      /\ out <= SumFunction([i \in DOMAIN bets |-> Surplus(bets[i])])

\* place_bet opens no second position on a market ("already has a bet"), so
\* there is never more than one, whatever the other jobs do meanwhile.
OneOpenBetPerMarket ==
  \A i, j \in OpenIds : bets[i].market = bets[j].market => i = j

\* No city ever has more than CITY_CAP open positions, although the count is
\* taken in one session and the row is committed later.
CityCapHeld ==
  \A i \in OpenIds : Cardinality({j \in OpenIds : City[bets[j].market] = City[bets[i].market]}) <= CityCap

\* A bet is only opened within the exposure cap: with it, the open stakes are
\* no more than TOTAL_EXPOSURE_PCT of the portfolio value, and it does not
\* matter that the caps were evaluated before the stake was debited.
ExposureCapHeld ==
  [][\A i \in DOMAIN bets' \ DOMAIN bets : IsOpen(bets'[i]) =>
       100 * Exposure' <= TotalExposurePct * PortfolioValue']_bets

\* An open position lies on a market that settle_all will still look at:
\* settlement never writes off a market that has, or is about to get, a bet.
NoneStranded ==
  \A i \in OpenIds : markets[bets[i].market].status \in {"open", "bet_placed"}

\* Every position whose day has passed is closed in the end.  The rows of the
\* table go with a reset, so the position is its row id.
DuePositionsClose ==
  \A i \in BetId :
    (i \in OpenIds /\ Due(bets[i].market)) ~> ~(i \in OpenIds /\ Due(bets[i].market))

\* A laddered position that is lost loses what was debited for it.
LossIsWhatWasPaid ==
  \A i \in DOMAIN bets : bets[i].status = "lost" => bets[i].pnl = -Paid(bets[i])

\* A row that has been closed stays closed: a stale object committed late
\* never puts a position back into play.
ClosedStaysClosed ==
  [][\A i \in DOMAIN bets \cap DOMAIN bets' : IsOpen(bets'[i]) => IsOpen(bets[i])]_bets

\* A row is closed once: its final status, and the pnl booked with it, are
\* never replaced by those of a second closing.
ClosedOnce ==
  [][\A i \in DOMAIN bets \cap DOMAIN bets' :
       ~IsOpen(bets[i]) => /\ bets'[i].status = bets[i].status
                           /\ bets'[i].pnl = bets[i].pnl]_bets

\* A step that closes no row and opens no other account, and what it costs.
StatusKept ==
  /\ DOMAIN bets \subseteq DOMAIN bets'
  /\ portfolio'.initial = portfolio.initial
  /\ \A i \in DOMAIN bets : bets'[i].status = bets[i].status
WellSpent ==
  LET spent == portfolio.cash - portfolio'.cash
      owed  == PaidForOpen' - PaidForOpen
  IN  /\ spent \in 0 .. owed
      /\ spent < owed => \E i \in OpenIds :
           Paid(bets'[i]) - Paid(bets[i]) > portfolio'.cash

\* Cash leaves the account for nothing but a stake or a rung, and no rung is
\* free while it can be paid: in a step that closes no row and resets no
\* account, cash falls by what the new stakes and rungs cost, or by less if
\* one of the rungs costs more than the step leaves.
CashPaysForFills == [][StatusKept => WellSpent]_<<portfolio, bets>>

\* A rung fills on a dip: when it is marked filled, the price of the bet's
\* side is at or below the rung's trigger price.
RungNeedsDip ==
  [][\A i \in DOMAIN bets \cap DOMAIN bets' :
       \A r \in bets'[i].filled \ bets[i].filled :
         MarkOf(bets[i]) <= RungPrice(bets[i].entry, r)]_bets
=============================================================================
