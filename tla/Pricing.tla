------------------------------- MODULE Pricing -------------------------------
(***************************************************************************)
(* The arithmetic of a position: the ladder a stake is split into, what    *)
(* has been paid for a row, what a sale or a settlement returns, and the   *)
(* price tests that end a position early.  All of it is pure.              *)
(*                                                                         *)
(* Units: money in cents, prices in thousandths of a dollar (One is a      *)
(* price of 1.0), the shares of a rung in hundredths of a contract.  The   *)
(* code keeps floats: a price has four decimals there and rung shares too. *)
(***************************************************************************)
EXTENDS Integers

One  == 1000
Side == {"YES", "NO"}
Rung == 1 .. 3

\* n/d rounded half up to an integer: the quantize of utils/accounting.py.
Cents(n, d) == (2 * n + d) \div (2 * d)

Larger(m, n)  == IF m >= n THEN m ELSE n
Smaller(m, n) == IF m <= n THEN m ELSE n
-----------------------------------------------------------------------------
(* Quotes.  A market row holds a YES and a NO price; nothing forces their   *)
(* sum to be One.                                                           *)

Quote == [yes : 0 .. One, no : 0 .. One]

\* Both prices within a cent of the ends and a sum between 0.50 and 1.50.
ValidQuote(q) ==
  /\ q.yes \in 10 .. 990
  /\ q.no \in 10 .. 990
  /\ q.yes + q.no \in 500 .. 1500

\* The price a new bet is filled at: the stored price of its side.
FillPrice(q, side) == IF side = "YES" THEN q.yes ELSE q.no

\* The price an open bet is valued at: NO is the complement of the YES price.
MarkPrice(q, side) == IF side = "YES" THEN q.yes ELSE One - q.yes
-----------------------------------------------------------------------------
(* The ladder: half the stake at the fill price, the rest on two dips.      *)

LadderPct(r) == CASE r = 1 -> 50 [] r = 2 -> 30 [] r = 3 -> 20
LadderDip(r) == CASE r = 1 -> 100 [] r = 2 -> 98 [] r = 3 -> 95

RungAmount(amount, r) == Cents(amount * LadderPct(r), 100)
RungPrice(entry, r)   == Larger(10, Smaller(990, Cents(entry * LadderDip(r), 100)))
RungShares(amount, entry, r) == Cents(RungAmount(amount, r) * 1000, RungPrice(entry, r))

Over(filled, f(_)) ==
  (IF 1 \in filled THEN f(1) ELSE 0) + (IF 2 \in filled THEN f(2) ELSE 0)
                                     + (IF 3 \in filled THEN f(3) ELSE 0)

\* What the rungs in a set cost, and the contracts they bought.
RungsCost(b, filled)   == Over(filled, LAMBDA r : RungAmount(b.amount, r))
RungsShares(b, filled) == Over(filled, LAMBDA r : RungShares(b.amount, b.entry, r))

\* What has been taken from cash for a row: its filled rungs, or its stake.
Paid(b) == IF b.ladder THEN RungsCost(b, b.filled) ELSE b.amount

\* The trigger of run_update_prices.  The NO branch complements a price that
\* is already the NO price.
Triggered(side, mark, trigger) ==
  IF side = "NO" THEN One - mark <= trigger ELSE mark <= trigger

\* A mistake: a rung filled before is filled, and debited, again.
NewFillsAgain(b, mark) ==
  IF b.ladder
    THEN {r \in Rung : Triggered(b.side, mark, RungPrice(b.entry, r))}
    ELSE {}

NewFills(b, mark) ==
  IF b.ladder
    THEN {r \in Rung \ b.filled : Triggered(b.side, mark, RungPrice(b.entry, r))}
    ELSE {}
-----------------------------------------------------------------------------
(* Early exit: run_risk_management and RiskManager.check_early_exit.        *)

StopLoss(b, mark)   == (mark - b.entry) * 100 <= -30 * b.entry
TakeProfit(b, mark) == (mark - b.entry) * 100 >= 100 * b.entry

\* The trailing stop is only consulted, and the peak only raised, when the
\* two tests before it have not fired.
PeakAfter(b, mark) ==
  IF StopLoss(b, mark) \/ TakeProfit(b, mark) THEN b.peak ELSE Larger(b.peak, mark)
TrailingStop(b, mark) ==
  (PeakAfter(b, mark) - mark) * 100 >= 15 * PeakAfter(b, mark)

EarlyExit(b, mark) ==
  \/ StopLoss(b, mark)
  \/ TakeProfit(b, mark)
  \/ TrailingStop(b, mark)

\* A ladder sells the contracts its filled rungs bought.  The pnl booked is
\* reckoned from the entry price, not from what each rung cost.
SaleProceeds(b, mark) ==
  IF b.ladder THEN Cents(RungsShares(b, b.filled) * mark, One)
              ELSE Cents(b.amount * mark, b.entry)
SalePnl(b, mark) ==
  IF b.ladder THEN Cents(RungsShares(b, b.filled) * (mark - b.entry), One)
              ELSE Cents(b.amount * (mark - b.entry), b.entry)
-----------------------------------------------------------------------------
(* Settlement: SettlementEngine._settle_market pays on the whole stake.     *)

WinCredit(b, feePct) == Cents(b.amount * (100 - feePct) * (One \div 100), b.entry)

SettlementCredit(b, outcome, feePct) ==
  IF b.side = outcome THEN WinCredit(b, feePct) ELSE 0
SettlementPnl(b, outcome, feePct) ==
  IF b.side = outcome THEN WinCredit(b, feePct) - b.amount ELSE -b.amount
=============================================================================
