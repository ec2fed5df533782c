---------------------------- MODULE LedgerProofs ----------------------------
(***************************************************************************)
(* Theorems about Ledger, for every value of its constants: first what the *)
(* operators of Pricing return, then the types, then what a number of      *)
(* overlapping jobs keeps.  TypeOK is inductive as it stands: the          *)
(* conjuncts Sound adds to the type of a session are what the type of the  *)
(* tables needs.                                                           *)
(***************************************************************************)
EXTENDS Ledger, SequenceTheorems, SumProofs
-----------------------------------------------------------------------------
(* Pricing.                                                                 *)

\* The fields of a bet row that Pricing reads.
Priced(b) ==
  /\ b.side \in Side
  /\ b.amount \in Nat
  /\ b.entry \in 1 .. One
  /\ b.ladder \in BOOLEAN
  /\ b.filled \in SUBSET Rung
  /\ b.peak \in Nat

\* Rounding to cents: an integer, and a natural number for an amount that is
\* not negative.
LEMMA CentsInt == ASSUME NEW n \in Int, NEW d \in Nat \ {0} PROVE Cents(n, d) \in Int
  BY DEF Cents

LEMMA CentsNat == ASSUME NEW n \in Nat, NEW d \in Nat \ {0} PROVE Cents(n, d) \in Nat
  BY DEF Cents

\* The mark of an open bet is a price.
LEMMA MarkPriceType ==
  ASSUME NEW q, q.yes \in 0 .. One, q.no \in 0 .. One, NEW side \in Side
  PROVE  MarkPrice(q, side) \in 0 .. One
  BY SMTT(30) DEF MarkPrice, One

\* A quote that passes the sanity check fills a bet at a price that is not 0.
LEMMA FillPriceType ==
  ASSUME NEW q, ValidQuote(q), NEW side \in Side
  PROVE  FillPrice(q, side) \in 1 .. One
  BY DEF FillPrice, ValidQuote, One

\* A rung never triggers at a price of 0 or 1: the division for its shares is
\* defined.
LEMMA RungPriceType ==
  ASSUME NEW entry \in Nat, NEW r \in Rung
  PROVE  RungPrice(entry, r) \in 10 .. 990
<1>1. LadderDip(r) \in Nat
  BY DEF LadderDip, Rung
<1>2. entry * LadderDip(r) \in Nat
  BY <1>1
<1>3. Cents(entry * LadderDip(r), 100) \in Nat
  BY <1>2, CentsNat
<1> QED
  BY <1>3 DEF RungPrice, Larger, Smaller

LEMMA RungAmountType ==
  ASSUME NEW amount \in Nat, NEW r \in Rung
  PROVE  RungAmount(amount, r) \in Nat
<1>1. LadderPct(r) \in Nat
  BY DEF LadderPct, Rung
<1>2. amount * LadderPct(r) \in Nat
  BY <1>1
<1> QED
  BY <1>2, CentsNat DEF RungAmount

LEMMA RungSharesType ==
  ASSUME NEW amount \in Nat, NEW entry \in Nat, NEW r \in Rung
  PROVE  RungShares(amount, entry, r) \in Nat
<1>1. RungAmount(amount, r) * 1000 \in Nat
  BY RungAmountType
<1>2. RungPrice(entry, r) \in 10 .. 990
  BY RungPriceType, SMTT(30)
<1>3. RungPrice(entry, r) \in Nat \ {0}
  BY <1>2
<1> QED
  BY <1>1, <1>3, CentsNat DEF RungShares

\* What rungs cost, what they hold and what was paid for a row are amounts.
LEMMA RungsCostType ==
  ASSUME NEW b, Priced(b), NEW filled
  PROVE  RungsCost(b, filled) \in Nat
<1>1. \A r \in Rung : RungAmount(b.amount, r) \in Nat
  BY RungAmountType DEF Priced
<1> QED
  BY <1>1 DEF RungsCost, Over, Rung

LEMMA RungsSharesType ==
  ASSUME NEW b, Priced(b), NEW filled
  PROVE  RungsShares(b, filled) \in Nat
<1>1. b.amount \in Nat /\ b.entry \in Nat
  BY DEF Priced, One
<1>2. \A r \in Rung : RungShares(b.amount, b.entry, r) \in Nat
  BY <1>1, RungSharesType
<1> QED
  BY <1>2 DEF RungsShares, Over, Rung

LEMMA PaidType == ASSUME NEW b, Priced(b) PROVE Paid(b) \in Nat
  BY RungsCostType DEF Paid, Priced

\* A fill only ever adds rungs of the ladder that are not filled yet.
LEMMA NewFillsType ==
  ASSUME NEW b, NEW mark
  PROVE  NewFills(b, mark) \subseteq Rung \ b.filled
  BY DEF NewFills

\* The peak never falls.
LEMMA PeakAfterType ==
  ASSUME NEW b, Priced(b), NEW mark \in 0 .. One
  PROVE  PeakAfter(b, mark) \in Nat /\ PeakAfter(b, mark) >= b.peak
  BY DEF PeakAfter, Priced, Larger

\* A sale never costs money, whatever the pnl booked with it.
LEMMA SaleProceedsType ==
  ASSUME NEW b, Priced(b), NEW mark \in 0 .. One
  PROVE  SaleProceeds(b, mark) \in Nat
<1>1. RungsShares(b, b.filled) * mark \in Nat
  BY RungsSharesType DEF One
<1>2. b.amount * mark \in Nat
  BY DEF Priced, One
<1>3. b.entry \in Nat \ {0} /\ One \in Nat \ {0}
  BY SMTT(30) DEF Priced, One
<1> QED
  BY <1>1, <1>2, <1>3, CentsNat DEF SaleProceeds

LEMMA SalePnlType ==
  ASSUME NEW b, Priced(b), NEW mark \in 0 .. One
  PROVE  SalePnl(b, mark) \in Int
<1>1. mark - b.entry \in Int
  <2>1. mark \in Int /\ b.entry \in Int
    BY DEF Priced, One
  <2> QED
    BY <2>1
<1>2. RungsShares(b, b.filled) * (mark - b.entry) \in Int
  BY <1>1, RungsSharesType
<1>3. b.amount * (mark - b.entry) \in Int
  BY <1>1 DEF Priced
<1>4. b.entry \in Nat \ {0} /\ One \in Nat \ {0}
  BY SMTT(30) DEF Priced, One
<1> QED
  BY <1>2, <1>3, <1>4, CentsInt DEF SalePnl

\* A settlement credits an amount, and books what it credits less the stake.
LEMMA SettlementType ==
  ASSUME NEW b, Priced(b), NEW outcome, NEW feePct \in 0 .. 100
  PROVE  /\ SettlementCredit(b, outcome, feePct) \in Nat
         /\ SettlementPnl(b, outcome, feePct) \in Int
         /\ SettlementPnl(b, outcome, feePct) = SettlementCredit(b, outcome, feePct) - b.amount
<1>1. b.amount * (100 - feePct) \in Nat
  BY DEF Priced
<1>2. One \div 100 = 10
  BY DEF One
<1>3. b.amount * (100 - feePct) * (One \div 100) \in Nat
  BY <1>1, <1>2
<1>4. b.entry \in Nat \ {0}
  BY SMTT(30) DEF Priced, One
<1>5. WinCredit(b, feePct) \in Nat
  BY <1>3, <1>4, CentsNat DEF WinCredit
<1> QED
  BY <1>5 DEF SettlementCredit, SettlementPnl, Priced
-----------------------------------------------------------------------------
\* Division rounds down.
LEMMA Quotient ==
  ASSUME NEW y \in Int, NEW d \in Nat \ {0}
  PROVE  y \div d \in Int /\ (y \div d) * d <= y /\ y < (y \div d) * d + d
  OBVIOUS

\* A number that fits between the multiples is the quotient.
LEMMA QuotientIs ==
  ASSUME NEW y \in Int, NEW d \in Nat \ {0}, NEW p \in Int, p * d <= y, y < p * d + d
  PROVE  y \div d = p
<1> DEFINE q == y \div d
<1>1. q \in Int /\ q * d <= y /\ y < q * d + d
  BY Quotient
<1> HIDE DEF q
<1>2. q * d < p * d + d /\ p * d < q * d + d
  <2> DEFINE A == q * d
             B == p * d
  <2>1. A \in Int /\ B \in Int /\ A <= y /\ y < A + d /\ B <= y /\ y < B + d
    BY <1>1
  <2> HIDE DEF A, B
  <2>2. A < B + d /\ B < A + d
    BY <2>1
  <2> QED
    BY <2>2 DEF A, B
<1>3. (q - p) * d < d /\ (p - q) * d < d
  BY <1>1, <1>2
<1>4. \A k \in Int : k * d < d => k <= 0
  OBVIOUS
<1>5. q - p <= 0 /\ p - q <= 0
  BY <1>1, <1>3, <1>4
<1> QED
  BY <1>1, <1>5 DEF q

\* Multiples of the divisor come out of a quotient.
LEMMA QuotientShift ==
  ASSUME NEW x \in Int, NEW k \in Int, NEW d \in Nat \ {0}
  PROVE  (x + k * d) \div d = x \div d + k
<1> DEFINE q == x \div d
           y == x + k * d
<1>1. q \in Int /\ q * d <= x /\ x < q * d + d
  BY Quotient
<1> HIDE DEF q
<1>2. (q + k) * d = q * d + k * d
  BY <1>1
<1>3. y \in Int /\ (q + k) * d <= y /\ y < (q + k) * d + d
  <2> DEFINE A == q * d
             B == k * d
  <2>1. A \in Int /\ B \in Int /\ A <= x /\ x < A + d
    BY <1>1
  <2>2. (q + k) * d = A + B /\ y = x + B
    BY <1>2
  <2> HIDE DEF A, B, y
  <2> QED
    BY <2>1, <2>2
<1> HIDE DEF y
<1>4. y \div d = q + k
  BY <1>1, <1>3, QuotientIs
<1> QED
  BY <1>4 DEF y, q

\* A plain stake is sold for itself and the pnl booked with it.
LEMMA SaleFlat ==
  ASSUME NEW b, Priced(b), ~b.ladder, NEW mark \in 0 .. One
  PROVE  SalePnl(b, mark) = SaleProceeds(b, mark) - b.amount
<1> DEFINE a == b.amount
           e == b.entry
           x == 2 * (a * mark) + e
<1>1. a \in Nat /\ e \in Nat \ {0} /\ mark \in Nat
  BY SMTT(30) DEF Priced, One
<1>2. SalePnl(b, mark) = (2 * (a * (mark - e)) + e) \div (2 * e)
  BY DEF SalePnl, Cents
<1>3. SaleProceeds(b, mark) = x \div (2 * e)
  BY DEF SaleProceeds, Cents
<1> HIDE DEF a, e
<1>4. 2 * (a * (mark - e)) + e = x + (-a) * (2 * e)
  BY <1>1
<1>5. x \in Int /\ -a \in Int /\ 2 * e \in Nat \ {0}
  BY <1>1
<1> HIDE DEF x
<1>6. (x + (-a) * (2 * e)) \div (2 * e) = x \div (2 * e) + (-a)
  BY <1>5, QuotientShift
<1>7. x \div (2 * e) \in Int
  BY <1>5, Quotient
<1> QED
  BY <1>1, <1>2, <1>3, <1>4, <1>6, <1>7 DEF a
-----------------------------------------------------------------------------
(* Ladders: what a position bought in rungs is out by.                      *)

\* A rung costs no more than the entry price, and a tenth less at most.
NearEntry(entry, r) ==
  /\ RungPrice(entry, r) \in 10 .. 990
  /\ RungPrice(entry, r) <= entry
  /\ 10 * entry <= 11 * RungPrice(entry, r)

LEMMA RungNear ==
  ASSUME NEW entry \in 10 .. 990, NEW r \in Rung
  PROVE  NearEntry(entry, r)
<1>1. RungPrice(entry, r) \in 10 .. 990
  <2>1. entry \in Nat
    OBVIOUS
  <2> QED
    BY <2>1, RungPriceType, SMTT(30)
<1>2. CASE r = 1
  BY <1>1, <1>2, SMTT(30) DEF NearEntry, RungPrice, LadderDip, Cents, Larger, Smaller
<1>3. CASE r = 2
  BY <1>1, <1>3, SMTT(30) DEF NearEntry, RungPrice, LadderDip, Cents, Larger, Smaller
<1>4. CASE r = 3
  BY <1>1, <1>4, SMTT(30) DEF NearEntry, RungPrice, LadderDip, Cents, Larger, Smaller
<1> QED
  BY <1>2, <1>3, <1>4 DEF Rung

\* The contracts of a rung, valued at the entry price, are what was paid for
\* them, but for the rounding and that tenth.
FairRung(amount, entry, r) ==
  /\ RungAmount(amount, r) \in Nat
  /\ 1000 * RungAmount(amount, r) - 495 <= RungShares(amount, entry, r) * entry
  /\ 10 * (RungShares(amount, entry, r) * entry) <= 11000 * RungAmount(amount, r) + 5445

LEMMA RungValue ==
  ASSUME NEW amount \in Nat, NEW entry \in 10 .. 990, NEW r \in Rung
  PROVE  FairRung(amount, entry, r)
<1>near. NearEntry(entry, r)
  BY RungNear
<1> DEFINE q == RungAmount(amount, r)
           p == RungPrice(entry, r)
           s == RungShares(amount, entry, r)
<1>1. q \in Nat /\ s \in Nat /\ p \in 10 .. 990 /\ p <= entry /\ 10 * entry <= 11 * p
  <2>1. q \in Nat
    BY RungAmountType
  <2>2. entry \in Nat
    OBVIOUS
  <2>3. s \in Nat
    BY <2>2, RungSharesType
  <2>4. p \in 10 .. 990 /\ p <= entry /\ 10 * entry <= 11 * p
    BY <1>near DEF NearEntry
  <2> QED
    BY <2>1, <2>3, <2>4
<1>2. s = (2 * (q * 1000) + p) \div (2 * p)
  BY DEF RungShares, Cents
<1> HIDE DEF q, p, s
<1>3. /\ s * (2 * p) <= 2 * (q * 1000) + p
      /\ 2 * (q * 1000) + p < s * (2 * p) + 2 * p
  <2> DEFINE y == 2 * (q * 1000) + p
             d == 2 * p
  <2>1. y \in Int /\ d \in Nat \ {0} /\ s = y \div d
    BY <1>1, <1>2
  <2> HIDE DEF y, d
  <2>2. (y \div d) * d <= y /\ y < (y \div d) * d + d
    BY <2>1, Quotient
  <2> QED
    BY <2>1, <2>2 DEF y, d
<1> DEFINE A == s * p
           B == s * entry
<1>4. A \in Int /\ B \in Int /\ s * (2 * p) = 2 * A
  BY <1>1
<1>5. A <= B /\ 10 * B <= 11 * A
  <2>1. A <= B
    BY <1>1
  <2>2. s * (10 * entry) <= s * (11 * p)
    <3> DEFINE x == 10 * entry
               z == 11 * p
    <3>1. x \in Int /\ z \in Int /\ x <= z
      BY <1>1
    <3> HIDE DEF x, z
    <3> QED
      BY <1>1, <3>1 DEF x, z
  <2>3. s * (10 * entry) = 10 * B /\ s * (11 * p) = 11 * A
    BY <1>1
  <2> QED
    BY <2>1, <2>2, <2>3
<1> HIDE DEF A, B
<1>6. 1000 * q - 495 <= B /\ 10 * B <= 11000 * q + 5445
  BY <1>1, <1>3, <1>4, <1>5
<1> QED
  BY <1>1, <1>4, <1>6 DEF B, q, s, FairRung

\* No ladder costs more than its stake, but for a cent, nor less than its
\* first rung once that is filled.
LEMMA PaidNear ==
  ASSUME NEW b, Priced(b), b.ladder
  PROVE  /\ Paid(b) <= b.amount + 1
         /\ RungAmount(b.amount, 1) \in Nat
         /\ 1 \in b.filled => RungAmount(b.amount, 1) <= Paid(b)
<1> DEFINE q(r) == RungAmount(b.amount, r)
<1>1. b.amount \in Nat
  BY DEF Priced
<1>2. \A r \in Rung : q(r) \in Nat
  BY <1>1, RungAmountType
<1>3. q(1) + q(2) + q(3) <= b.amount + 1
  BY <1>1 DEF RungAmount, LadderPct, Cents
<1>4. Paid(b) = (IF 1 \in b.filled THEN q(1) ELSE 0) + (IF 2 \in b.filled THEN q(2) ELSE 0)
                                                      + (IF 3 \in b.filled THEN q(3) ELSE 0)
  BY DEF Paid, RungsCost, Over
<1> HIDE DEF q
<1>5. q(1) \in Nat /\ q(2) \in Nat /\ q(3) \in Nat
  BY <1>2 DEF Rung
<1>6. Paid(b) <= b.amount + 1 /\ (1 \in b.filled => q(1) <= Paid(b))
  BY <1>1, <1>3, <1>4, <1>5
<1> QED
  BY <1>5, <1>6 DEF q

\* New rungs add their cost to what was paid.
LEMMA RungsAdd ==
  ASSUME NEW b, Priced(b), NEW filled, NEW new, filled \cap new = {}
  PROVE  RungsCost(b, filled \cup new) = RungsCost(b, filled) + RungsCost(b, new)
<1> DEFINE q(r) == RungAmount(b.amount, r)
<1>1. q(1) \in Nat /\ q(2) \in Nat /\ q(3) \in Nat
  BY RungAmountType DEF Priced, Rung
<1>2. ASSUME NEW ids
      PROVE  RungsCost(b, ids) = (IF 1 \in ids THEN q(1) ELSE 0) + (IF 2 \in ids THEN q(2) ELSE 0)
                                                                  + (IF 3 \in ids THEN q(3) ELSE 0)
  BY DEF RungsCost, Over
<1> HIDE DEF q
<1>3. \A r : ~(r \in filled /\ r \in new)
  OBVIOUS
<1> QED
  BY <1>1, <1>2, <1>3

\* A ladder sold brings the pnl that is booked and what was paid for it, but
\* for two cents, and a tenth more at most.
LEMMA SaleNear ==
  ASSUME NEW b, Priced(b), b.ladder, b.entry \in 10 .. 990, NEW mark \in 0 .. One
  PROVE  /\ SalePnl(b, mark) + Paid(b) - 2 <= SaleProceeds(b, mark)
         /\ SaleProceeds(b, mark) <= SalePnl(b, mark) + Paid(b) + Paid(b) \div 10 + 3
<1> DEFINE S == RungsShares(b, b.filled)
           e == b.entry
           q(r) == IF r \in b.filled THEN RungAmount(b.amount, r) ELSE 0
           s(r) == IF r \in b.filled THEN RungShares(b.amount, b.entry, r) ELSE 0
<1>1. b.amount \in Nat /\ e \in 10 .. 990 /\ mark \in Int
  BY DEF Priced, One
<1>2. S \in Nat /\ S = s(1) + s(2) + s(3) /\ Paid(b) = q(1) + q(2) + q(3)
  BY RungsSharesType DEF RungsShares, Paid, RungsCost, Over
<1>3. ASSUME NEW r \in Rung
      PROVE  /\ q(r) \in Nat /\ s(r) \in Nat
             /\ 1000 * q(r) - 495 <= s(r) * e /\ 10 * (s(r) * e) <= 11000 * q(r) + 5445
  <2>1. CASE r \in b.filled
    <3>1. b.amount \in Nat /\ b.entry \in Nat /\ b.entry \in 10 .. 990
      BY <1>1
    <3>2. RungShares(b.amount, b.entry, r) \in Nat
      BY <3>1, RungSharesType
    <3>3. FairRung(b.amount, b.entry, r)
      BY <3>1, RungValue
    <3> QED
      BY <2>1, <3>2, <3>3 DEF FairRung
  <2>2. CASE r \notin b.filled
    BY <1>1, <2>2
  <2> QED
    BY <2>1, <2>2
<1>4. /\ SaleProceeds(b, mark) = (2 * (S * mark) + 1000) \div 2000
      /\ SalePnl(b, mark) = (2 * (S * (mark - e)) + 1000) \div 2000
  BY DEF SaleProceeds, SalePnl, Cents, One
<1> HIDE DEF S, e, q, s
<1> DEFINE x == S * mark
           y == S * e
<1>5. x \in Int /\ y \in Int /\ S * (mark - e) = x - y
  BY <1>1, <1>2
<1>6. /\ s(1) \in Nat /\ s(2) \in Nat /\ s(3) \in Nat
      /\ y = s(1) * e + s(2) * e + s(3) * e
  <2>1. s(1) \in Nat /\ s(2) \in Nat /\ s(3) \in Nat
    BY <1>3 DEF Rung
  <2>2. y = (s(1) + s(2) + s(3)) * e
    BY <1>2
  <2>3. e \in Int
    BY <1>1
  <2> QED
    BY <2>1, <2>2, <2>3
<1>7. /\ 1000 * Paid(b) - 1485 <= y
      /\ 10 * y <= 11000 * Paid(b) + 16335
      /\ Paid(b) \in Nat
  <2> DEFINE v(r) == s(r) * e
  <2>1. v(1) \in Int /\ v(2) \in Int /\ v(3) \in Int /\ y = v(1) + v(2) + v(3)
    BY <1>1, <1>6
  <2>2. /\ q(1) \in Nat /\ 1000 * q(1) - 495 <= v(1) /\ 10 * v(1) <= 11000 * q(1) + 5445
        /\ q(2) \in Nat /\ 1000 * q(2) - 495 <= v(2) /\ 10 * v(2) <= 11000 * q(2) + 5445
        /\ q(3) \in Nat /\ 1000 * q(3) - 495 <= v(3) /\ 10 * v(3) <= 11000 * q(3) + 5445
    BY <1>3 DEF Rung
  <2> HIDE DEF v, y
  <2> QED
    BY <1>2, <2>1, <2>2
<1> HIDE DEF x, y
<1> DEFINE P == (2 * x + 1000) \div 2000
           N == (2 * (x - y) + 1000) \div 2000
           C == Paid(b)
           T == C \div 10
<1>8. SaleProceeds(b, mark) = P /\ SalePnl(b, mark) = N
  <2>1. SaleProceeds(b, mark) = P
    BY <1>4 DEF x
  <2>2. SalePnl(b, mark) = N
    BY <1>4, <1>5
  <2> QED
    BY <2>1, <2>2
<1>9. /\ P \in Int /\ P * 2000 <= 2 * x + 1000 /\ 2 * x + 1000 < P * 2000 + 2000
      /\ N \in Int /\ N * 2000 <= 2 * (x - y) + 1000 /\ 2 * (x - y) + 1000 < N * 2000 + 2000
      /\ T \in Int /\ T * 10 <= C /\ C < T * 10 + 10
  <2> DEFINE sold == 2 * x + 1000
             made == 2 * (x - y) + 1000
  <2>1. sold \in Int /\ made \in Int /\ C \in Int
    BY <1>5, <1>7
  <2> HIDE DEF sold, made, C
  <2>2. (sold \div 2000) \in Int /\ (sold \div 2000) * 2000 <= sold /\ sold < (sold \div 2000) * 2000 + 2000
    BY <2>1, Quotient
  <2>3. (made \div 2000) \in Int /\ (made \div 2000) * 2000 <= made /\ made < (made \div 2000) * 2000 + 2000
    BY <2>1, Quotient
  <2>4. (C \div 10) \in Int /\ (C \div 10) * 10 <= C /\ C < (C \div 10) * 10 + 10
    BY <2>1, Quotient
  <2> QED
    BY <2>2, <2>3, <2>4 DEF sold, made
<1>10. 1000 * C - 1485 <= y /\ 10 * y <= 11000 * C + 16335 /\ C \in Nat
  BY <1>7
<1> HIDE DEF P, N, C, T
<1>11. N + C - 2 <= P /\ P <= N + C + T + 3
  BY <1>5, <1>9, <1>10
<1> QED
  BY <1>8, <1>11 DEF C, T
-----------------------------------------------------------------------------
(* Rows and sessions.                                                       *)

LEMMA BetPriced == ASSUME NEW b \in Bet PROVE Priced(b)
  BY DEF Bet, Priced

LEMMA NoSessionSound == Sound(NoSession)
<1>1. NoSession \in Session
  BY DEF NoSession, Session, NoCash
<1> QED
  BY <1>1 DEF Sound, NoSession

LEMMA NoSessionFields ==
  /\ NoSession.step = "run" /\ NoSession.add = <<>>
  /\ NoSession.base = NoCash /\ NoSession.purse = NoCash
  BY DEF NoSession

\* The mark of a bet is a price, whatever quote its market shows.
LEMMA MarkOfType ==
  ASSUME TypeOK, NEW b \in Bet
  PROVE  MarkOf(b) \in 0 .. One
<1>1. b.market \in Market /\ b.side \in Side
  BY DEF Bet
<1>2. QuoteOf(b.market).yes \in 0 .. One /\ QuoteOf(b.market).no \in 0 .. One
  BY <1>1 DEF TypeOK, QuoteOf
<1> QED
  BY <1>1, <1>2, MarkPriceType DEF MarkOf

LEMMA RiskMarkType ==
  ASSUME TypeOK, NEW b \in Bet
  PROVE  RiskMark(b) \in 0 .. One
BY MarkOfType DEF RiskMark, One

\* A session that becomes a sound one leaves the sessions sound.
LEMMA BecomeSound ==
  ASSUME TypeOK, NEW w \in Worker, NEW s, Sound(s), Become(w, s)
  PROVE  /\ session' \in [Worker -> Session]
         /\ \A v \in Worker : Sound(session'[v])
<1>1. session \in [Worker -> Session] /\ \A v \in Worker : Sound(session[v])
  BY DEF TypeOK
<1>2. s \in Session
  BY DEF Sound
<1>3. session' = [session EXCEPT ![w] = s]
  BY DEF Become
<1> QED
  BY <1>1, <1>2, <1>3

\* A step that only changes the session of one worker.
LEMMA SessionStep ==
  ASSUME TypeOK, NEW w \in Worker, NEW s, Sound(s), Become(w, s),
         UNCHANGED <<database, day, resets>>
  PROVE  TypeOK'
<1>1. /\ session' \in [Worker -> Session]
      /\ \A v \in Worker : Sound(session'[v])
  BY BecomeSound
<1> QED
  BY <1>1 DEF TypeOK, database

\* A debit that the funds do not cover changes nothing, and one they cover
\* leaves a natural number in the purse.
LEMMA DebitSound ==
  ASSUME TypeOK, NEW s, Sound(s), NEW amount \in Nat
  PROVE  /\ Sound(DebitStake(s, amount))
         /\ \E base \in Nat \cup {NoCash}, purse \in Nat \cup {NoCash} :
              DebitStake(s, amount) = [s EXCEPT !.base = base, !.purse = purse]
<1>1. portfolio.cash \in Nat
  BY DEF TypeOK
<1>2. /\ s \in Session
      /\ s.base \in Nat \cup {NoCash}
      /\ s.purse \in Nat \cup {NoCash}
  BY DEF Sound, Session
<1>3. CASE Purse(s) < amount
  <2>1. DebitStake(s, amount) = s
    BY <1>3 DEF DebitStake
  <2>2. s = [s EXCEPT !.base = s.base, !.purse = s.purse]
    BY <1>2 DEF Session
  <2> QED
    BY <1>2, <2>1, <2>2
<1>4. CASE ~(Purse(s) < amount)
  <2>1. Purse(s) \in Nat
    BY <1>1, <1>2 DEF Purse
  <2>2. Purse(s) - amount \in Nat
    BY <1>4, <2>1
  <2>3. Base(s) \in Nat \cup {NoCash}
    BY <1>1, <1>2 DEF Base
  <2>4. DebitStake(s, amount) = [s EXCEPT !.base = Base(s), !.purse = Purse(s) - amount]
    BY <1>4 DEF DebitStake
  <2>5. DebitStake(s, amount) \in Session
    BY <1>2, <2>2, <2>3, <2>4 DEF Session
  <2>6. Sound(DebitStake(s, amount))
    BY <1>2, <2>2, <2>3, <2>4, <2>5 DEF Sound, Session, NoCash
  <2> QED
    BY <2>2, <2>3, <2>4, <2>6
<1> QED
  BY <1>3, <1>4

LEMMA CreditSound ==
  ASSUME TypeOK, NEW s, Sound(s), NEW amount \in Nat
  PROVE  Sound(Credit(s, amount))
<1>1. portfolio.cash \in Nat
  BY DEF TypeOK
<1>2. /\ s \in Session
      /\ s.base \in Nat \cup {NoCash}
      /\ s.purse \in Nat \cup {NoCash}
  BY DEF Sound, Session
<1>3. Purse(s) + amount \in Nat /\ Base(s) \in Nat \cup {NoCash}
  BY <1>1, <1>2 DEF Purse, Base
<1>4. Credit(s, amount) = [s EXCEPT !.base = Base(s), !.purse = Purse(s) + amount]
  BY DEF Credit
<1>5. Credit(s, amount) \in Session
  BY <1>2, <1>3, <1>4 DEF Session
<1> QED
  BY <1>2, <1>3, <1>4, <1>5 DEF Sound, Session, NoCash
-----------------------------------------------------------------------------
(* TypeOK: one lemma per action.                                            *)

\* A worker that starts a job was idle and starts it on a session of its own
\* making; whoever is idle holds NoSession or the rest of a finished job.
LEMMA AfterPlaceSound == ASSUME NEW queue \in SUBSET Nat PROVE Sound(AfterPlace(queue))
<1>1. [NoSession EXCEPT !.job = "place", !.queue = queue] \in Session
  BY NoSessionSound DEF Sound, Session, JobName
<1>2. Sound([NoSession EXCEPT !.job = "place", !.queue = queue])
  BY <1>1 DEF Sound, NoSession
<1> QED
  BY <1>2, NoSessionSound DEF AfterPlace

\* The objects a job begins with: one for each of the rows it loaded, with
\* what it changed.
LEMMA LoadedSound ==
  ASSUME TypeOK, NEW start, Sound(start), start.step = "run", start.base = NoCash,
         NEW job \in JobName,
         NEW ids \in SUBSET BetId, ids \subseteq DOMAIN bets,
         NEW todo \in SUBSET BetId, NEW bill \in [BetId -> Nat],
         NEW mine \in [BetId -> Bet \cup {NoRow}],
         \A i \in BetId : mine[i] = NoRow <=> i \notin ids
  PROVE  Sound([start EXCEPT !.job = job, !.seen = Load(ids),
                             !.mine = mine, !.todo = todo, !.bill = bill])
<1> DEFINE s == [start EXCEPT !.job = job, !.seen = Load(ids),
                              !.mine = mine, !.todo = todo, !.bill = bill]
<1>1. \A i \in ids : bets[i] \in Bet
  BY DEF TypeOK
<1>2. Load(ids) \in [BetId -> Bet \cup {NoRow}]
  BY <1>1 DEF Load
<1>3. \A i \in BetId : Load(ids)[i] = NoRow <=> i \notin ids
  BY <1>1, BoundAssumption DEF Load
<1>4. s \in Session
  BY <1>2 DEF Sound, Session
<1>5. s.step = "run" /\ s.seen = Load(ids) /\ s.mine = mine /\ s.base = NoCash
  BY DEF Sound, Session
<1> QED
  BY <1>3, <1>4, <1>5 DEF Sound

LEMMA FetchStep == ASSUME TypeOK, NEW w \in Worker, Fetch(w) PROVE TypeOK'
<1>1. PICK m \in Market, q \in Quotes :
        markets' = [markets EXCEPT ![m] = [yes |-> q.yes, no |-> q.no, status |-> "open"]]
  BY DEF Fetch
<1>2. [yes |-> q.yes, no |-> q.no, status |-> "open"]
        \in [yes : 0 .. One, no : 0 .. One, status : MarketStatus]
  BY MarketAssumption DEF Quote, MarketStatus
<1>3. markets' \in [Market -> [yes : 0 .. One, no : 0 .. One, status : MarketStatus]]
  BY <1>1, <1>2 DEF TypeOK
<1> QED
  BY <1>3 DEF TypeOK, Fetch

LEMMA AnalyzeStep == ASSUME TypeOK, NEW w \in Worker, Analyze(w) PROVE TypeOK'
<1>1. PICK m \in Market, side \in Sides, amount \in Stakes, ladder \in Ladders :
        analyses' = analyses \cup
            {[id |-> NextAnalysisId, market |-> m, on |-> day, side |-> side,
              amount |-> amount, ladder |-> ladder]}
  BY DEF Analyze
<1>2. NextAnalysisId \in Nat
  BY BoundAssumption DEF Analyze, AnalysisId
<1>3. [id |-> NextAnalysisId, market |-> m, on |-> day, side |-> side,
       amount |-> amount, ladder |-> ladder] \in Analysis
  BY <1>2, MarketAssumption DEF Analysis, TypeOK
<1> QED
  BY <1>1, <1>3 DEF TypeOK, Analyze

LEMMA PlaceBeginStep == ASSUME TypeOK, NEW w \in Worker, PlaceBegin(w) PROVE TypeOK'
<1>1. Pending \in SUBSET Nat
  BY DEF TypeOK, Pending, Analysis
<1>2. Sound([NoSession EXCEPT !.job = "place", !.queue = Pending])
  <2>1. CASE Pending = {}
    BY <2>1 DEF PlaceBegin
  <2>2. CASE Pending # {}
    BY <1>1, <2>2, AfterPlaceSound DEF AfterPlace
  <2> QED
    BY <2>1, <2>2
<1> QED
  BY <1>2, SessionStep DEF PlaceBegin

\* The queue of any session is a set of ids.
LEMMA QueueType ==
  ASSUME TypeOK, NEW w \in Worker
  PROVE  session[w].queue \in SUBSET Nat
  BY DEF TypeOK, Session

LEMMA PlaceSkipStep == ASSUME TypeOK, NEW w \in Worker, PlaceSkip(w) PROVE TypeOK'
<1>1. PICK id \in session[w].queue : Become(w, AfterPlace(session[w].queue \ {id}))
  BY DEF PlaceSkip
<1>2. session[w].queue \ {id} \in SUBSET Nat
  BY QueueType
<1>3. Sound(AfterPlace(session[w].queue \ {id}))
  BY <1>2, AfterPlaceSound
<1> QED
  BY <1>1, <1>3, SessionStep DEF PlaceSkip

\* The sums over the rows are sums of integers over a finite set.
LEMMA RowsFinite == ASSUME TypeOK PROVE IsFiniteSet(DOMAIN bets)
<1>1. DOMAIN bets = 1 .. Len(bets) /\ Len(bets) \in Nat
  BY DEF TypeOK
<1> QED
  BY <1>1, FS_Interval

LEMMA NextRowsFinite == ASSUME TypeOK' PROVE IsFiniteSet(DOMAIN bets')
<1>1. bets' \in Seq(Bet)
  BY DEF TypeOK
<1>2. DOMAIN bets' = 1 .. Len(bets') /\ Len(bets') \in Nat
  BY <1>1
<1> QED
  BY <1>2, FS_Interval

LEMMA RealizedType == ASSUME TypeOK PROVE Realized \in Int
<1> DEFINE f == [i \in Settled |-> bets[i].pnl]
<1>1. IsFiniteSet(Settled)
  BY RowsFinite, FS_Subset DEF Settled
<1>2. \A i \in DOMAIN bets : bets[i] \in Bet
  BY DEF TypeOK
<1>3. \A i \in Settled : f[i] \in Int
  BY <1>2 DEF Bet, Settled
<1>4. SumFunctionOnSet(f, Settled) \in Int
  BY <1>1, <1>3, SumInt
<1> QED
  BY <1>4 DEF Realized, SumFunction

\* The clamp of cap 1 never makes a stake negative.
LEMMA StakeType == ASSUME TypeOK, NEW a \in analyses PROVE Stake(a) \in Nat
<1>1. a.amount \in Nat
  BY DEF TypeOK, Analysis
<1>2. PortfolioValue \in Int
  BY RealizedType, MoneyAssumption DEF PortfolioValue
<1>3. MaxBet \in Nat
  <2>1. ASSUME PortfolioValue > 0 PROVE PortfolioValue * MaxBetPct \in Nat
    BY <1>2, <2>1, MoneyAssumption
  <2>2. \A n \in Nat : n \div 100 \in Nat
    OBVIOUS
  <2> QED
    BY <2>1, <2>2 DEF MaxBet
<1> QED
  BY <1>1, <1>3 DEF Stake, Smaller

\* The row place_bet builds.
LEMMA NewBetType ==
  ASSUME TypeOK, NEW a \in analyses, ~NotTradable(a.market),
         NEW status \in BetStatus
  PROVE  NewBet(a, Stake(a), status) \in Bet
<1>1. a \in Analysis
  BY DEF TypeOK
<1>2. /\ a.market \in Market /\ a.id \in Nat /\ a.side \in Side
      /\ a.ladder \in BOOLEAN /\ day \in Nat
  BY <1>1 DEF Analysis, TypeOK
<1>3. FillPrice(QuoteOf(a.market), a.side) \in 1 .. One
  BY <1>2, FillPriceType DEF NotTradable
<1>4. FillPrice(QuoteOf(a.market), a.side) \in Nat
  BY <1>3 DEF One
<1> QED
  BY <1>2, <1>3, <1>4, StakeType DEF NewBet, Bet, Rung

LEMMA PlaceRejectStep == ASSUME TypeOK, NEW w \in Worker, PlaceReject(w) PROVE TypeOK'
<1>1. PICK a \in analyses :
        /\ ~NotTradable(a.market)
        /\ bets' = Append(bets, [NewBet(a, Stake(a), "rejected") EXCEPT !.filled = {}])
        /\ Become(w, AfterPlace(session[w].queue \ {a.id}))
  BY DEF PlaceReject
<1>2. NewBet(a, Stake(a), "rejected") \in Bet
  BY <1>1, NewBetType DEF BetStatus, ClosedStatus
<1>3. [NewBet(a, Stake(a), "rejected") EXCEPT !.filled = {}] \in Bet
  BY <1>2 DEF Bet
<1>4. bets' \in Seq(Bet)
  BY <1>1, <1>3 DEF TypeOK
<1>5. session[w].queue \ {a.id} \in SUBSET Nat
  BY QueueType
<1>6. Sound(AfterPlace(session[w].queue \ {a.id}))
  BY <1>5, AfterPlaceSound
<1>7. /\ session' \in [Worker -> Session]
      /\ \A v \in Worker : Sound(session'[v])
  BY <1>1, <1>6, BecomeSound
<1> QED
  BY <1>4, <1>7 DEF TypeOK, PlaceReject

LEMMA PlaceAdmitStep == ASSUME TypeOK, NEW w \in Worker, PlaceAdmit(w) PROVE TypeOK'
<1>1. PICK a \in analyses, accepted \in BOOLEAN :
        /\ ~NotTradable(a.market)
        /\ Become(w, [NoSession EXCEPT
               !.job = "place", !.step = "debit", !.queue = session[w].queue \ {a.id},
               !.add = <<NewBet(a, Stake(a), IF accepted THEN "placed" ELSE "failed")>>,
               !.status = [NoSession.status EXCEPT ![a.market] =
                 IF accepted /\ markets[a.market].status # "bet_placed"
                   THEN "bet_placed" ELSE "kept"]])
  BY DEF PlaceAdmit
<1> DEFINE status == IF accepted THEN "placed" ELSE "failed"
           flag   == IF accepted /\ markets[a.market].status # "bet_placed"
                       THEN "bet_placed" ELSE "kept"
           s == [NoSession EXCEPT
                   !.job = "place", !.step = "debit", !.queue = session[w].queue \ {a.id},
                   !.add = <<NewBet(a, Stake(a), status)>>,
                   !.status = [NoSession.status EXCEPT ![a.market] = flag]]
<1>2. NewBet(a, Stake(a), status) \in Bet
  <2>1. status \in BetStatus
    BY DEF BetStatus, ClosedStatus
  <2> QED
    BY <1>1, <2>1, NewBetType
<1>3. <<NewBet(a, Stake(a), status)>> \in Seq(Bet) /\ Len(<<NewBet(a, Stake(a), status)>>) = 1
  BY <1>2
<1>4. session[w].queue \ {a.id} \in SUBSET Nat
  BY QueueType
<1>5. [NoSession.status EXCEPT ![a.market] = flag] \in [Market -> MarketStatus \cup {"kept"}]
  BY NoSessionSound DEF Sound, Session, MarketStatus
<1>6. s \in Session
  <2> HIDE DEF flag, status
  <2> QED BY <1>3, <1>4, <1>5, NoSessionSound DEF Sound, Session, JobName
<1>7. Sound(s)
  <2> HIDE DEF flag, status
  <2>1. s.step = "debit" /\ Len(s.add) = 1 /\ s.seen = NoSession.seen /\ s.mine = NoSession.mine
        /\ s.base = NoCash
    BY <1>3 DEF NoSession
  <2> QED BY <1>6, <2>1, NoSessionSound DEF Sound
<1> QED
  BY <1>1, <1>7, SessionStep DEF PlaceAdmit

LEMMA PlaceDebitStep == ASSUME TypeOK, NEW w \in Worker, PlaceDebit(w) PROVE TypeOK'
<1> DEFINE s    == session[w]
           cost == Paid(s.add[1])
           t    == DebitStake(s, cost)
           n    == [t EXCEPT !.step = "commit",
                             !.add[1].status = IF Purse(s) < cost THEN "failed" ELSE @]
<1>1. Sound(s) /\ s.step = "debit"
  BY DEF TypeOK, PlaceDebit, At
<1>2. s \in Session /\ Len(s.add) = 1 /\ s.add \in Seq(Bet)
  BY <1>1 DEF Sound, Session
<1>3. s.add[1] \in Bet
  BY <1>2
<1>4. cost \in Nat
  BY <1>3, BetPriced, PaidType
<1>5. PICK base \in Nat \cup {NoCash}, purse \in Nat \cup {NoCash} :
        t = [s EXCEPT !.base = base, !.purse = purse]
  BY <1>1, <1>4, DebitSound
<1>6. Sound(t)
  BY <1>1, <1>4, DebitSound
<1>7. t.add = s.add /\ t.seen = s.seen /\ t.mine = s.mine /\ t \in Session
  BY <1>2, <1>5, <1>6 DEF Session, Sound
<1> DEFINE status == IF Purse(s) < cost THEN "failed" ELSE t.add[1].status
           row == [t.add[1] EXCEPT !.status = status]
           add == [t.add EXCEPT ![1] = row]
<1>8. row \in Bet
  <2>1. t.add[1].status \in BetStatus
    BY <1>3, <1>7 DEF Bet
  <2>2. status \in BetStatus
    BY <2>1 DEF BetStatus, ClosedStatus
  <2> QED
    BY <1>3, <1>7, <2>2 DEF Bet
<1>9. add \in Seq(Bet)
  BY <1>2, <1>7, <1>8
<1>10. n = [t EXCEPT !.step = "commit", !.add = add]
  BY <1>7 DEF Session
<1>11. n \in Session
  <2> HIDE DEF add, t, row
  <2> QED BY <1>7, <1>9, <1>10 DEF Session
<1>12. Sound(n)
  <2> HIDE DEF add, t, row
  <2>1. n.step = "commit" /\ n.seen = t.seen /\ n.mine = t.mine /\ n.base = t.base /\ n.purse = t.purse
    BY <1>7, <1>10 DEF Session
  <2> QED BY <1>6, <1>11, <2>1 DEF Sound
<1> QED
  BY <1>12, SessionStep DEF PlaceDebit

LEMMA UpdateBeginStep == ASSUME TypeOK, NEW w \in Worker, UpdateBegin(w) PROVE TypeOK'
<1> DEFINE fills(i) == NewFills(bets[i], MarkOf(bets[i]))
           row(i)   == [bets[i] EXCEPT !.filled = @ \cup fills(i)]
           ids      == OpenIds \cap BetId
           todo     == {i \in ids : fills(i) # {}}
           mine     == [i \in BetId |-> IF i \in ids THEN row(i) ELSE NoRow]
           bill     == [i \in BetId |-> IF i \in ids THEN RungsCost(bets[i], fills(i)) ELSE 0]
<1>1. ids \in SUBSET BetId /\ ids \subseteq DOMAIN bets /\ todo \in SUBSET BetId
  BY DEF OpenIds
<1>2. \A i \in ids : bets[i] \in Bet
  BY <1>1 DEF TypeOK
<1>3. \A i \in ids : row(i) \in Bet
  <2> TAKE i \in ids
  <2>1. fills(i) \subseteq Rung
    BY NewFillsType
  <2> QED
    BY <1>2, <2>1 DEF Bet
<1>4. mine \in [BetId -> Bet \cup {NoRow}] /\ \A i \in BetId : mine[i] = NoRow <=> i \notin ids
  <2> HIDE DEF ids, row
  <2> QED BY <1>3, BoundAssumption
<1>5. bill \in [BetId -> Nat]
  <2>1. \A i \in ids : RungsCost(bets[i], fills(i)) \in Nat
    BY <1>2, BetPriced, RungsCostType
  <2> HIDE DEF ids, fills
  <2> QED BY <2>1
<1>6. Sound([NoSession EXCEPT !.job = "update", !.seen = Load(ids),
                              !.mine = mine, !.todo = todo, !.bill = bill])
  <2> HIDE DEF ids, mine, todo, bill
  <2> QED BY <1>1, <1>4, <1>5, LoadedSound, NoSessionSound, NoSessionFields DEF JobName
<1>7. Become(w, [NoSession EXCEPT !.job = "update", !.seen = Load(ids),
                              !.mine = mine, !.todo = todo, !.bill = bill])
  BY DEF UpdateBegin
<1> QED
  BY <1>6, <1>7, SessionStep DEF UpdateBegin

LEMMA RiskBeginStep == ASSUME TypeOK, NEW w \in Worker, RiskBegin(w) PROVE TypeOK'
<1> DEFINE exits  == {i \in OpenIds \cap BetId : EarlyExit(bets[i], RiskMark(bets[i]))}
           row(i) == [bets[i] EXCEPT
                   !.peak   = PeakAfter(bets[i], RiskMark(bets[i])),
                   !.status = IF i \in exits THEN "closed_early" ELSE @,
                   !.pnl    = IF i \in exits THEN SalePnl(bets[i], RiskMark(bets[i])) ELSE @]
           ids    == OpenIds \cap BetId
           mine   == [i \in BetId |-> IF i \in ids THEN row(i) ELSE NoRow]
           bill   == [i \in BetId |-> IF i \in exits
                      THEN SaleProceeds(bets[i], RiskMark(bets[i])) ELSE 0]
<1>1. ids \in SUBSET BetId /\ ids \subseteq DOMAIN bets /\ exits \in SUBSET ids
  BY DEF OpenIds
<1>2. \A i \in ids : bets[i] \in Bet /\ Priced(bets[i]) /\ RiskMark(bets[i]) \in 0 .. One
  BY <1>1, BetPriced, RiskMarkType DEF TypeOK
<1>3. \A i \in ids : row(i) \in Bet
  <2> TAKE i \in ids
  <2>1. PeakAfter(bets[i], RiskMark(bets[i])) \in Nat
    BY <1>2, PeakAfterType
  <2>2. SalePnl(bets[i], RiskMark(bets[i])) \in Int
    BY <1>2, SalePnlType
  <2>3. "closed_early" \in BetStatus
    BY DEF BetStatus, ClosedStatus
  <2>4. bets[i] \in Bet
    BY <1>2
  <2> HIDE DEF exits, ids
  <2> QED
    BY <2>1, <2>2, <2>3, <2>4 DEF Bet
<1>4. mine \in [BetId -> Bet \cup {NoRow}] /\ \A i \in BetId : mine[i] = NoRow <=> i \notin ids
  <2> HIDE DEF ids, row
  <2> QED BY <1>3, BoundAssumption
<1>5. bill \in [BetId -> Nat]
  <2>1. \A i \in exits : SaleProceeds(bets[i], RiskMark(bets[i])) \in Nat
    BY <1>1, <1>2, SaleProceedsType
  <2> HIDE DEF exits
  <2> QED BY <2>1
<1>6. Sound([NoSession EXCEPT !.job = "risk", !.seen = Load(ids),
                              !.mine = mine, !.todo = exits, !.bill = bill])
  <2> HIDE DEF ids, mine, exits, bill
  <2> QED BY <1>1, <1>4, <1>5, LoadedSound, NoSessionSound, NoSessionFields DEF JobName
<1>7. Become(w, [NoSession EXCEPT !.job = "risk", !.seen = Load(ids),
                              !.mine = mine, !.todo = exits, !.bill = bill])
  BY DEF RiskBegin
<1> QED
  BY <1>6, <1>7, SessionStep DEF RiskBegin

LEMMA CleanupBeginStep == ASSUME TypeOK, NEW w \in Worker, CleanupBegin(w) PROVE TypeOK'
<1> DEFINE stale == {i \in OpenIds \cap BetId : bets[i].on < day}
           old   == {a \in analyses : a.on < day}
           queue == {a.id : a \in old}
           row(i) == [bets[i] EXCEPT !.status = "cancelled"]
           mine  == [i \in BetId |-> IF i \in stale THEN row(i) ELSE NoRow]
           bill  == [i \in BetId |-> IF i \in stale THEN Paid(bets[i]) ELSE 0]
<1>1. stale \in SUBSET BetId /\ stale \subseteq DOMAIN bets
  BY DEF OpenIds
<1>2. \A i \in stale : bets[i] \in Bet
  BY <1>1 DEF TypeOK
<1>3. \A i \in stale : row(i) \in Bet
  BY <1>2 DEF Bet, BetStatus, ClosedStatus
<1>4. mine \in [BetId -> Bet \cup {NoRow}] /\ \A i \in BetId : mine[i] = NoRow <=> i \notin stale
  <2> HIDE DEF stale, row
  <2> QED BY <1>3, BoundAssumption
<1>5. bill \in [BetId -> Nat]
  <2>1. \A i \in stale : Paid(bets[i]) \in Nat
    BY <1>2, BetPriced, PaidType
  <2> HIDE DEF stale
  <2> QED BY <2>1
<1>6. queue \in SUBSET Nat
  BY DEF TypeOK, Analysis
<1>7. Sound([NoSession EXCEPT !.queue = queue, !.job = "cleanup", !.seen = Load(stale),
                              !.mine = mine, !.todo = stale, !.bill = bill])
  <2> DEFINE start == [NoSession EXCEPT !.queue = queue]
  <2> HIDE DEF stale, mine, queue, bill
  <2>1. start \in Session
    BY <1>6, NoSessionSound DEF Sound, Session
  <2>2. Sound(start) /\ start.step = "run" /\ start.base = NoCash
    BY <2>1, NoSessionSound, NoSessionFields DEF Sound, Session
  <2> HIDE DEF start
  <2>3. Sound([start EXCEPT !.job = "cleanup", !.seen = Load(stale),
                              !.mine = mine, !.todo = stale, !.bill = bill])
    BY <1>1, <1>4, <1>5, <2>2, LoadedSound DEF JobName
  <2> QED
    BY <2>3 DEF start
<1> QED
  BY <1>7, SessionStep DEF CleanupBegin

\* The bill of a session is an amount for each bet.
LEMMA BillType ==
  ASSUME TypeOK, NEW w \in Worker, NEW i \in session[w].todo
  PROVE  i \in BetId /\ session[w].bill[i] \in Nat
  BY DEF TypeOK, Session

\* Striking a bet off the list keeps a running session sound.
LEMMA StruckSound ==
  ASSUME NEW s, Sound(s), NEW i
  PROVE  Sound([s EXCEPT !.todo = @ \ {i}])
<1>1. [s EXCEPT !.todo = @ \ {i}] \in Session
  BY DEF Sound, Session
<1> QED
  BY <1>1 DEF Sound, Session

LEMMA UpdateDebitStep == ASSUME TypeOK, NEW w \in Worker, UpdateDebit(w) PROVE TypeOK'
<1> DEFINE s == session[w]
<1>1. PICK i \in s.todo : Become(w, [DebitStake(s, s.bill[i]) EXCEPT !.todo = @ \ {i}])
  BY DEF UpdateDebit
<1>2. Sound(DebitStake(s, s.bill[i]))
  BY BillType, DebitSound DEF TypeOK
<1>3. Sound([DebitStake(s, s.bill[i]) EXCEPT !.todo = @ \ {i}])
  BY <1>2, StruckSound
<1> QED
  BY <1>1, <1>3, SessionStep DEF UpdateDebit

LEMMA PostCreditStep == ASSUME TypeOK, NEW w \in Worker, PostCredit(w) PROVE TypeOK'
<1> DEFINE s == session[w]
<1>1. PICK i \in s.todo : Become(w, [Credit(s, s.bill[i]) EXCEPT !.todo = @ \ {i}])
  BY DEF PostCredit
<1>2. Sound(Credit(s, s.bill[i]))
  BY BillType, CreditSound DEF TypeOK
<1>3. Sound([Credit(s, s.bill[i]) EXCEPT !.todo = @ \ {i}])
  BY <1>2, StruckSound
<1> QED
  BY <1>1, <1>3, SessionStep DEF PostCredit

LEMMA SettleBeginStep == ASSUME TypeOK, NEW w \in Worker, SettleBegin(w) PROVE TypeOK'
<1> DEFINE ready == {m \in Market : markets[m].status \in {"open", "bet_placed"} /\ Due(m)}
           s == [NoSession EXCEPT !.job = "settle", !.due = ready]
<1>1. s \in Session
  <2> HIDE DEF ready
  <2>1. ASSUME ready \in SUBSET Market PROVE s \in Session
    BY <2>1, NoSessionSound DEF Sound, Session, JobName
  <2> QED
    BY <2>1 DEF ready
<1>2. Sound(s)
  <2> HIDE DEF ready
  <2> QED BY <1>1, NoSessionSound, NoSessionFields DEF Sound, Session
<1> QED
  BY <1>2, SessionStep DEF SettleBegin

LEMMA SettleExpireStep == ASSUME TypeOK, NEW w \in Worker, SettleExpire(w) PROVE TypeOK'
<1> DEFINE s == session[w]
<1>1. Sound(s)
  BY DEF TypeOK
<1>2. PICK m \in s.due : Become(w, [s EXCEPT !.due = @ \ {m}, !.status[m] = "expired"])
  BY DEF SettleExpire
<1>3. [s EXCEPT !.due = @ \ {m}, !.status[m] = "expired"] \in Session
  BY <1>1 DEF Sound, Session, MarketStatus
<1>4. Sound([s EXCEPT !.due = @ \ {m}, !.status[m] = "expired"])
  BY <1>1, <1>3 DEF Sound, Session
<1> QED
  BY <1>2, <1>4, SessionStep DEF SettleExpire

LEMMA SettleAskStep == ASSUME TypeOK, NEW w \in Worker, SettleAsk(w) PROVE TypeOK'
<1> DEFINE s == session[w]
<1>1. Sound(s) /\ s \in Session
  BY DEF TypeOK, Sound
<1>2. PICK m \in s.due :
        Become(w, [s EXCEPT
               !.step = "ask", !.due = @ \ {m}, !.todo = OpenIn(m) \cap BetId,
               !.seen = [i \in BetId |-> IF i \in OpenIn(m) \cap BetId THEN bets[i] ELSE @[i]],
               !.mine = [i \in BetId |-> IF i \in OpenIn(m) \cap BetId THEN bets[i] ELSE @[i]]])
  BY DEF SettleAsk
<1> DEFINE ids  == OpenIn(m) \cap BetId
           seen == [i \in BetId |-> IF i \in ids THEN bets[i] ELSE s.seen[i]]
           mine == [i \in BetId |-> IF i \in ids THEN bets[i] ELSE s.mine[i]]
           n    == [s EXCEPT !.step = "ask", !.due = @ \ {m}, !.todo = ids,
                             !.seen = seen, !.mine = mine]
<1>3. ids \in SUBSET BetId /\ ids \subseteq DOMAIN bets
  BY DEF OpenIn, OpenIds
<1>4. \A i \in ids : bets[i] \in Bet /\ bets[i] # NoRow
  BY <1>3, BoundAssumption DEF TypeOK
<1>5. seen \in [BetId -> Bet \cup {NoRow}] /\ mine \in [BetId -> Bet \cup {NoRow}]
  <2> HIDE DEF ids
  <2> QED BY <1>1, <1>4 DEF Session
<1>6. Become(w, n)
  <2>1. [s EXCEPT
               !.step = "ask", !.due = @ \ {m}, !.todo = OpenIn(m) \cap BetId,
               !.seen = [i \in BetId |-> IF i \in OpenIn(m) \cap BetId THEN bets[i] ELSE @[i]],
               !.mine = [i \in BetId |-> IF i \in OpenIn(m) \cap BetId THEN bets[i] ELSE @[i]]] = n
    BY <1>1 DEF Session
  <2> QED
    BY <1>2, <2>1
<1>7. n \in Session
  <2> HIDE DEF ids, seen, mine
  <2> QED BY <1>1, <1>3, <1>5 DEF Session
<1>8. n.step = "ask" /\ n.todo = ids /\ n.seen = seen /\ n.mine = mine
      /\ n.base = s.base /\ n.purse = s.purse /\ n.add = s.add
  <2> HIDE DEF ids, seen, mine
  <2> QED BY <1>1 DEF Session
<1>9. \A i \in ids : mine[i] # NoRow
  BY <1>3, <1>4
<1>10. \A i \in BetId : seen[i] = NoRow <=> mine[i] = NoRow
  BY <1>1, <1>4 DEF Sound
<1>11. Sound(n)
  <2> HIDE DEF ids, seen, mine, n
  <2> QED BY <1>1, <1>7, <1>8, <1>9, <1>10 DEF Sound
<1> QED
  BY <1>6, <1>11, SessionStep DEF SettleAsk

LEMMA SettlePendingStep == ASSUME TypeOK, NEW w \in Worker, SettlePending(w) PROVE TypeOK'
<1> DEFINE s    == session[w]
           seen == [i \in BetId |-> IF i \in s.todo THEN NoRow ELSE s.seen[i]]
           mine == [i \in BetId |-> IF i \in s.todo THEN NoRow ELSE s.mine[i]]
           n    == [s EXCEPT !.step = "run", !.todo = {}, !.seen = seen, !.mine = mine]
<1>1. Sound(s) /\ s \in Session
  BY DEF TypeOK, Sound
<1>2. Become(w, n)
  <2>1. [s EXCEPT
          !.step = "run", !.todo = {},
          !.seen = [i \in BetId |-> IF i \in s.todo THEN NoRow ELSE @[i]],
          !.mine = [i \in BetId |-> IF i \in s.todo THEN NoRow ELSE @[i]]] = n
    BY <1>1 DEF Session
  <2> QED
    BY <2>1 DEF SettlePending
<1>3. seen \in [BetId -> Bet \cup {NoRow}] /\ mine \in [BetId -> Bet \cup {NoRow}]
  BY <1>1 DEF Session
<1>4. n \in Session
  <2> HIDE DEF seen, mine
  <2> QED BY <1>1, <1>3 DEF Session
<1>5. n.step = "run" /\ n.seen = seen /\ n.mine = mine
      /\ n.base = s.base /\ n.purse = s.purse
  <2> HIDE DEF seen, mine
  <2> QED BY <1>1 DEF Session
<1>6. \A i \in BetId : seen[i] = NoRow <=> mine[i] = NoRow
  BY <1>1 DEF Sound
<1>7. Sound(n)
  <2> HIDE DEF seen, mine, n
  <2> QED BY <1>1, <1>4, <1>5, <1>6 DEF Sound
<1> QED
  BY <1>2, <1>7, SessionStep DEF SettlePending

LEMMA SettleAnswerStep == ASSUME TypeOK, NEW w \in Worker, SettleAnswer(w) PROVE TypeOK'
<1> DEFINE s == session[w]
           row(i, outcome) ==
             [s.mine[i] EXCEPT !.status = IF s.mine[i].side = outcome THEN "won" ELSE "lost",
                               !.pnl = SettlementPnl(s.mine[i], outcome, FeePct)]
<1>1. Sound(s) /\ s \in Session /\ s.step = "ask"
  BY DEF TypeOK, Sound, SettleAnswer, At
<1>2. PICK outcome \in Side, i0 \in s.todo :
          Become(w, [s EXCEPT
            !.step = "run",
            !.status[s.mine[i0].market] = IF outcome = "YES" THEN "settled_win" ELSE "settled_loss",
            !.bill = [i \in BetId |-> IF i \in s.todo
                        THEN SettlementCredit(s.mine[i], outcome, FeePct) ELSE 0],
            !.mine = [i \in BetId |-> IF i \in s.todo THEN row(i, outcome) ELSE s.mine[i]]])
  BY DEF SettleAnswer
<1> DEFINE flag   == IF outcome = "YES" THEN "settled_win" ELSE "settled_loss"
           status == [s.status EXCEPT ![s.mine[i0].market] = flag]
           bill == [i \in BetId |-> IF i \in s.todo
                        THEN SettlementCredit(s.mine[i], outcome, FeePct) ELSE 0]
           mine == [i \in BetId |-> IF i \in s.todo THEN row(i, outcome) ELSE s.mine[i]]
           n    == [s EXCEPT !.step = "run", !.status = status, !.bill = bill, !.mine = mine]
<1>3. \A i \in s.todo : i \in BetId /\ s.mine[i] \in Bet
  BY <1>1 DEF Sound, Session
<1>4. \A i \in s.todo : /\ SettlementCredit(s.mine[i], outcome, FeePct) \in Nat
                        /\ SettlementPnl(s.mine[i], outcome, FeePct) \in Int
  BY <1>3, BetPriced, SettlementType, MoneyAssumption
<1>5. bill \in [BetId -> Nat]
  BY <1>4
<1>6. \A i \in s.todo : row(i, outcome) \in Bet
  <2> TAKE i \in s.todo
  <2>1. (IF s.mine[i].side = outcome THEN "won" ELSE "lost") \in BetStatus
    BY DEF BetStatus, ClosedStatus
  <2>2. s.mine[i] \in Bet /\ SettlementPnl(s.mine[i], outcome, FeePct) \in Int
    BY <1>3, <1>4
  <2> QED
    BY <2>1, <2>2 DEF Bet
<1>7. mine \in [BetId -> Bet \cup {NoRow}]
  <2> HIDE DEF row
  <2> QED BY <1>1, <1>6 DEF Session
<1>8. status \in [Market -> MarketStatus \cup {"kept"}]
  <2>1. flag \in MarketStatus
    BY DEF MarketStatus
  <2>2. s.status \in [Market -> MarketStatus \cup {"kept"}]
    BY <1>1 DEF Session
  <2> HIDE DEF flag
  <2> QED BY <2>1, <2>2
<1>9. Become(w, n)
  BY <1>2
<1>10. n \in Session
  <2> HIDE DEF mine, bill, status
  <2> QED BY <1>1, <1>5, <1>7, <1>8 DEF Session
<1>11. n.step = "run" /\ n.seen = s.seen /\ n.mine = mine
       /\ n.base = s.base /\ n.purse = s.purse
  <2> HIDE DEF mine, bill, status
  <2> QED BY <1>1 DEF Session
<1>12. \A i \in BetId : s.seen[i] = NoRow <=> mine[i] = NoRow
  <2>1. \A i \in s.todo : mine[i] # NoRow /\ s.mine[i] # NoRow
    BY <1>1, <1>3, <1>6, BoundAssumption DEF Sound
  <2>2. \A i \in BetId \ s.todo : mine[i] = s.mine[i]
    OBVIOUS
  <2> HIDE DEF mine
  <2> QED BY <1>1, <2>1, <2>2 DEF Sound
<1>13. Sound(n)
  <2> HIDE DEF mine, n
  <2> QED BY <1>1, <1>10, <1>11, <1>12 DEF Sound
<1> QED
  BY <1>9, <1>13, SessionStep DEF SettleAnswer

\* An UPDATE leaves a row a row.
LEMMA WrittenType ==
  ASSUME NEW b \in Bet, NEW old \in Bet, NEW new \in Bet
  PROVE  Written(b, old, new) \in Bet
  BY DEF Written, Bet

LEMMA FlushedType ==
  ASSUME TypeOK, NEW w \in Worker
  PROVE  /\ Flushed(session[w]) \in Seq(Bet)
         /\ Len(Flushed(session[w])) = Len(bets)
<1> DEFINE s == session[w]
<1>1. Sound(s) /\ s \in Session
  BY DEF TypeOK, Sound
<1>2. ASSUME NEW i \in 1 .. Len(bets)
      PROVE  (IF i \in Changed(s) THEN Written(bets[i], s.seen[i], s.mine[i]) ELSE bets[i]) \in Bet
  <2>1. bets[i] \in Bet
    BY DEF TypeOK
  <2>2. ASSUME i \in Changed(s) PROVE s.seen[i] \in Bet /\ s.mine[i] \in Bet
    BY <1>1, <2>2 DEF Changed, Sound, Session
  <2> QED
    BY <2>1, <2>2, WrittenType
<1>3. Len(bets) \in Nat
  BY DEF TypeOK
<1>4. Flushed(s) = [i \in 1 .. Len(bets) |->
        IF i \in Changed(s) THEN Written(bets[i], s.seen[i], s.mine[i]) ELSE bets[i]]
  BY DEF Flushed
<1> DEFINE row(i) == IF i \in Changed(s) THEN Written(bets[i], s.seen[i], s.mine[i]) ELSE bets[i]
<1>5. \A i \in 1 .. Len(bets) : row(i) \in Bet
  BY <1>2
<1>6. [i \in 1 .. Len(bets) |-> row(i)] \in Seq(Bet) /\ Len([i \in 1 .. Len(bets) |-> row(i)]) = Len(bets)
  <2> HIDE DEF row
  <2> QED BY <1>3, <1>5
<1> QED
  BY <1>4, <1>6

LEMMA AfterSessionSound ==
  ASSUME TypeOK, NEW w \in Worker
  PROVE  Sound(AfterSession(session[w]))
<1>1. (IF session[w].job = "place" THEN session[w].queue ELSE {}) \in SUBSET Nat
  BY QueueType
<1> QED
  BY <1>1, AfterPlaceSound DEF AfterSession

LEMMA CommitStep == ASSUME TypeOK, NEW w \in Worker, Commit(w) PROVE TypeOK'
<1> DEFINE s == session[w]
<1>1. Sound(s) /\ s \in Session
  BY DEF TypeOK, Sound
<1>2. bets' \in Seq(Bet)
  <2>1. s.add \in Seq(Bet)
    BY <1>1 DEF Session
  <2>2. Flushed(s) \in Seq(Bet)
    BY FlushedType
  <2>3. bets' = Flushed(s) \o s.add
    BY DEF Commit
  <2> QED
    BY <2>1, <2>2, <2>3
<1>3. portfolio' \in [initial : Nat, cash : Nat]
  <2>1. portfolio \in [initial : Nat, cash : Nat]
    BY DEF TypeOK
  <2>2. s.purse # s.base => s.purse \in Nat
    BY <1>1 DEF Sound, Session
  <2>3. portfolio' = [portfolio EXCEPT !.cash = IF s.purse = s.base THEN @ ELSE s.purse]
    BY DEF Commit
  <2> QED
    BY <2>1, <2>2, <2>3
<1>4. markets' \in [Market -> [yes : 0 .. One, no : 0 .. One, status : MarketStatus]]
  <2>1. \A m \in Market : s.status[m] = "kept" \/ s.status[m] \in MarketStatus
    BY <1>1 DEF Session
  <2>2. markets \in [Market -> [yes : 0 .. One, no : 0 .. One, status : MarketStatus]]
    BY DEF TypeOK
  <2>3. markets' = [m \in Market |->
          IF s.status[m] = "kept" THEN markets[m]
                                  ELSE [markets[m] EXCEPT !.status = s.status[m]]]
    BY DEF Commit
  <2> QED
    BY <2>1, <2>2, <2>3
<1>5. analyses' \subseteq Analysis
  BY DEF Commit, TypeOK
<1>6. Become(w, AfterSession(s)) /\ UNCHANGED <<day, resets>>
  BY DEF Commit
<1>7. /\ session' \in [Worker -> Session]
      /\ \A v \in Worker : Sound(session'[v])
  BY <1>6, AfterSessionSound, BecomeSound
<1> QED
  BY <1>2, <1>3, <1>4, <1>5, <1>6, <1>7 DEF TypeOK

LEMMA RollbackStep == ASSUME TypeOK, NEW w \in Worker, Rollback(w) PROVE TypeOK'
  BY AfterSessionSound, SessionStep DEF Rollback

LEMMA ResetApiStep == ASSUME TypeOK, ResetApi PROVE TypeOK'
<1>1. bets' \in Seq(Bet)
  BY DEF ResetApi
<1> QED
  BY <1>1, MoneyAssumption DEF ResetApi, TypeOK

LEMMA ResetCliStep == ASSUME TypeOK, ResetCli PROVE TypeOK'
<1>1. \A i \in 1 .. Len(bets) : [bets[i] EXCEPT !.status = "cancelled"] \in Bet
  <2> TAKE i \in 1 .. Len(bets)
  <2>1. bets[i] \in Bet
    BY DEF TypeOK
  <2> QED
    BY <2>1 DEF Bet, BetStatus, ClosedStatus
<1>2. Len(bets) \in Nat
  BY DEF TypeOK
<1>3. bets' \in Seq(Bet)
  <2> DEFINE row(i) == [bets[i] EXCEPT !.status = "cancelled"]
  <2>1. bets' = [i \in 1 .. Len(bets) |-> row(i)]
    BY DEF ResetCli
  <2>2. \A i \in 1 .. Len(bets) : row(i) \in Bet
    BY <1>1
  <2> HIDE DEF row
  <2> QED BY <1>2, <2>1, <2>2
<1>4. portfolio' \in [initial : Nat, cash : Nat]
  <2>1. ResetCash \in Nat
    BY MoneyAssumption
  <2> QED BY <2>1 DEF ResetCli, TypeOK
<1>5. UNCHANGED <<markets, day, session>> /\ analyses' = {} /\ resets' \in Nat
  BY DEF ResetCli, TypeOK
<1>6. \A w \in Worker : Sound(session[w])'
  BY <1>5 DEF TypeOK, Sound, Session
<1> QED
  BY <1>3, <1>4, <1>5, <1>6 DEF TypeOK

LEMMA InitTypes == Init => TypeOK
<1> SUFFICES ASSUME Init PROVE TypeOK
  OBVIOUS
<1>1. portfolio \in [initial : Nat, cash : Nat]
  BY MoneyAssumption DEF Init
<1>2. markets \in [Market -> [yes : 0 .. One, no : 0 .. One, status : MarketStatus]]
  <2>1. \A q \in Quotes : [yes |-> q.yes, no |-> q.no, status |-> "open"]
                            \in [yes : 0 .. One, no : 0 .. One, status : MarketStatus]
    BY MarketAssumption DEF Quote, MarketStatus
  <2> QED
    BY <2>1 DEF Init
<1>3. \A w \in Worker : session[w] = NoSession
  BY DEF Init
<1>4. session \in [Worker -> Session] /\ \A w \in Worker : Sound(session[w])
  BY <1>3, NoSessionSound DEF Init, Sound
<1>5. bets \in Seq(Bet) /\ analyses \subseteq Analysis /\ day \in Nat /\ resets \in Nat
  BY DEF Init
<1> QED
  BY <1>1, <1>2, <1>4, <1>5 DEF TypeOK

LEMMA TypesInductive == TypeOK /\ [Next]_vars => TypeOK'
<1> SUFFICES ASSUME TypeOK, [Next]_vars PROVE TypeOK'
  OBVIOUS
<1>1. CASE UNCHANGED vars
  BY <1>1 DEF vars, TypeOK
<1>2. ASSUME NEW w \in Worker, Fetch(w) \/ Analyze(w) PROVE TypeOK'
  BY <1>2, FetchStep, AnalyzeStep
<1>3. ASSUME NEW w \in Worker, Begin(w) PROVE TypeOK'
  BY <1>3, PlaceBeginStep, UpdateBeginStep, RiskBeginStep, SettleBeginStep, CleanupBeginStep
     DEF Begin
<1>4. ASSUME NEW w \in Worker, Place(w) PROVE TypeOK'
  BY <1>4, PlaceSkipStep, PlaceRejectStep, PlaceAdmitStep, PlaceDebitStep DEF Place
<1>5. ASSUME NEW w \in Worker, Settle(w) PROVE TypeOK'
  BY <1>5, SettleExpireStep, SettleAskStep, SettlePendingStep, SettleAnswerStep DEF Settle
<1>6. ASSUME NEW w \in Worker, Money(w) \/ End(w) PROVE TypeOK'
  BY <1>6, UpdateDebitStep, PostCreditStep, CommitStep, RollbackStep DEF Money, End
<1>7. CASE ResetApi \/ ResetCli
  BY <1>7, ResetApiStep, ResetCliStep
<1>8. CASE NextDay
  BY <1>8 DEF NextDay, database, TypeOK
<1> QED
  BY <1>1, <1>2, <1>3, <1>4, <1>5, <1>6, <1>7, <1>8 DEF Next

\* Whatever the jobs and however they interleave, the tables keep their types;
\* above all, no job, reset or late commit leaves a negative cash balance.
THEOREM Types == Spec => []TypeOK
  BY InitTypes, TypesInductive, PTL DEF Spec
-----------------------------------------------------------------------------
(* ClosedStaysClosed.  A commit that writes a status over a closed row must *)
(* write one that differs from the status its session loaded.  Every job    *)
(* loads open rows only, so that status is not "placed".                    *)

SeenOpen(s) == \A i \in BetId : s.seen[i] # NoRow => IsOpen(s.seen[i])
LoadedOpen  == \A w \in Worker : SeenOpen(session[w])

LEMMA NoSessionSeen == SeenOpen(NoSession)
  BY DEF SeenOpen, NoSession

LEMMA AfterPlaceSeen == ASSUME NEW queue PROVE SeenOpen(AfterPlace(queue))
<1>1. AfterPlace(queue).seen = NoSession.seen
  BY DEF AfterPlace, NoSession
<1> QED
  BY <1>1, NoSessionSeen DEF SeenOpen

LEMMA LoadSeen ==
  ASSUME NEW s, NEW ids \in SUBSET OpenIds, s.seen = Load(ids)
  PROVE  SeenOpen(s)
  BY DEF SeenOpen, Load, OpenIds

\* A step of one session that leaves it with open rows only.
Alone(w) == \A v \in Worker \ {w} : session'[v] = session[v]

LEMMA BecomeSeen ==
  ASSUME TypeOK, LoadedOpen, NEW w \in Worker, NEW s, SeenOpen(s), Become(w, s)
  PROVE  LoadedOpen' /\ Alone(w) /\ session'[w] = s
<1>1. session \in [Worker -> Session]
  BY DEF TypeOK
<1>2. session' = [session EXCEPT ![w] = s]
  BY DEF Become
<1>3. \A v \in Worker : session'[v] = s \/ session'[v] = session[v]
  BY <1>1, <1>2
<1>4. \A v \in Worker : SeenOpen(session'[v])
  BY <1>3 DEF LoadedOpen
<1>5. LoadedOpen'
  BY <1>4 DEF LoadedOpen, SeenOpen, IsOpen
<1>6. session'[w] = s /\ Alone(w)
  BY <1>1, <1>2 DEF Alone
<1> QED
  BY <1>5, <1>6

\* The fields of a session that has just begun.
LEMMA StartFields ==
  ASSUME NEW start \in Session, NEW job, NEW seen, NEW mine, NEW todo, NEW bill
  PROVE  LET s == [start EXCEPT !.job = job, !.seen = seen, !.mine = mine,
                                !.todo = todo, !.bill = bill]
         IN  s.seen = seen /\ s.job = job /\ s.add = start.add
  BY DEF Session

LEMMA NoSessionType == NoSession \in Session
  BY NoSessionSound DEF Sound

\* A job begins with nothing to insert.
LEMMA BeginSeen ==
  ASSUME TypeOK, LoadedOpen, NEW w \in Worker, Begin(w)
  PROVE  /\ LoadedOpen' /\ Alone(w)
         /\ session'[w].add = <<>> /\ session'[w].job \in Jobs[w]
<1>1. CASE PlaceBegin(w)
  <2>1. SeenOpen([NoSession EXCEPT !.job = "place", !.queue = Pending])
    BY AfterPlaceSeen DEF AfterPlace, SeenOpen, NoSession
  <2>2. [NoSession EXCEPT !.job = "place", !.queue = Pending].add = <<>>
        /\ [NoSession EXCEPT !.job = "place", !.queue = Pending].job = "place"
    BY DEF NoSession
  <2> QED
    BY <1>1, <2>1, <2>2, BecomeSeen DEF PlaceBegin, MayStart
<1>2. CASE SettleBegin(w)
  <2> DEFINE ready == {m \in Market : markets[m].status \in {"open", "bet_placed"} /\ Due(m)}
             s     == [NoSession EXCEPT !.job = "settle", !.due = ready]
  <2>1. Become(w, s)
    BY <1>2 DEF SettleBegin
  <2>2. s.seen = NoSession.seen /\ s.job = "settle" /\ s.add = <<>>
    <3> HIDE DEF ready
    <3> QED BY DEF NoSession
  <2>3. "settle" \in Jobs[w]
    BY <1>2 DEF SettleBegin, MayStart
  <2> HIDE DEF s
  <2> QED
    BY <2>1, <2>2, <2>3, NoSessionSeen, BecomeSeen DEF SeenOpen
<1>3. CASE UpdateBegin(w)
  <2> DEFINE fills(i) == NewFills(bets[i], MarkOf(bets[i]))
             row(i)   == [bets[i] EXCEPT !.filled = @ \cup fills(i)]
             ids      == OpenIds \cap BetId
             todo     == {i \in ids : fills(i) # {}}
             mine     == [i \in BetId |-> IF i \in ids THEN row(i) ELSE NoRow]
             bill     == [i \in BetId |-> IF i \in ids THEN RungsCost(bets[i], fills(i)) ELSE 0]
             s        == [NoSession EXCEPT !.job = "update", !.seen = Load(ids),
                                           !.mine = mine, !.todo = todo, !.bill = bill]
  <2>1. Become(w, s)
    BY <1>3 DEF UpdateBegin
  <2>2. s.seen = Load(ids) /\ s.job = "update" /\ s.add = <<>>
    <3> HIDE DEF ids, mine, todo, bill
    <3> QED BY NoSessionType, StartFields, NoSessionFields
  <2>3. "update" \in Jobs[w]
    BY <1>3 DEF UpdateBegin, MayStart
  <2> HIDE DEF s
  <2> QED
    BY <2>1, <2>2, <2>3, LoadSeen, BecomeSeen
<1>4. CASE RiskBegin(w)
  <2> DEFINE exits  == {i \in OpenIds \cap BetId : EarlyExit(bets[i], RiskMark(bets[i]))}
             row(i) == [bets[i] EXCEPT
                   !.peak   = PeakAfter(bets[i], RiskMark(bets[i])),
                   !.status = IF i \in exits THEN "closed_early" ELSE @,
                   !.pnl    = IF i \in exits THEN SalePnl(bets[i], RiskMark(bets[i])) ELSE @]
             ids    == OpenIds \cap BetId
             mine   == [i \in BetId |-> IF i \in ids THEN row(i) ELSE NoRow]
             bill   == [i \in BetId |-> IF i \in exits
                          THEN SaleProceeds(bets[i], RiskMark(bets[i])) ELSE 0]
             s      == [NoSession EXCEPT !.job = "risk", !.seen = Load(ids),
                                         !.mine = mine, !.todo = exits, !.bill = bill]
  <2>1. Become(w, s)
    BY <1>4 DEF RiskBegin
  <2>2. s.seen = Load(ids) /\ s.job = "risk" /\ s.add = <<>>
    <3> HIDE DEF ids, mine, exits, bill
    <3> QED BY NoSessionType, StartFields, NoSessionFields
  <2>3. "risk" \in Jobs[w]
    BY <1>4 DEF RiskBegin, MayStart
  <2> HIDE DEF s
  <2> QED
    BY <2>1, <2>2, <2>3, LoadSeen, BecomeSeen
<1>5. CASE CleanupBegin(w)
  <2> DEFINE stale  == {i \in OpenIds \cap BetId : bets[i].on < day}
             queue  == {a.id : a \in {b \in analyses : b.on < day}}
             mine   == [i \in BetId |-> IF i \in stale
                          THEN [bets[i] EXCEPT !.status = "cancelled"] ELSE NoRow]
             bill   == [i \in BetId |-> IF i \in stale THEN Paid(bets[i]) ELSE 0]
             start  == [NoSession EXCEPT !.queue = queue]
             s      == [start EXCEPT !.job = "cleanup", !.seen = Load(stale),
                                     !.mine = mine, !.todo = stale, !.bill = bill]
  <2>1. Become(w, s)
    BY <1>5 DEF CleanupBegin
  <2>2. queue \in SUBSET Nat
    BY DEF TypeOK, Analysis
  <2>3. start \in Session
    <3> HIDE DEF queue
    <3> QED BY <2>2, NoSessionType DEF Session
  <2>4. start.add = <<>>
    BY DEF NoSession
  <2>5. s.seen = Load(stale) /\ s.job = "cleanup" /\ s.add = <<>>
    <3> HIDE DEF stale, mine, bill, start
    <3> QED BY <2>3, <2>4, StartFields
  <2>6. stale \in SUBSET OpenIds
    OBVIOUS
  <2>7. "cleanup" \in Jobs[w]
    BY <1>5 DEF CleanupBegin, MayStart
  <2> HIDE DEF s, stale
  <2> QED
    BY <2>1, <2>5, <2>6, <2>7, LoadSeen, BecomeSeen
<1> QED
  BY <1>1, <1>2, <1>3, <1>4, <1>5 DEF Begin

\* A step of a session that loads nothing.
LEMMA SameSeen ==
  ASSUME TypeOK, LoadedOpen, NEW w \in Worker, NEW s, s.seen = session[w].seen, Become(w, s)
  PROVE  LoadedOpen' /\ Alone(w) /\ session'[w] = s
<1>1. SeenOpen(s)
  BY DEF LoadedOpen, SeenOpen
<1> QED
  BY <1>1, BecomeSeen

LEMMA AfterPlaceFields ==
  ASSUME NEW queue
  PROVE  AfterPlace(queue).add = <<>> /\ AfterPlace(queue).job \in {"place", "idle"}
  BY DEF AfterPlace, NoSession

\* The row a place job means to insert, after a step of the job: none, the one
\* it had, perhaps failed, or one for a market without an open bet,
\* in a city with room.
NextRow(w) ==
  LET add == session[w].add
  IN  \/ /\ session'[w].add = <<>>
         /\ session'[w].job \in {"place", "idle"}
      \/ /\ session'[w].job = "place" /\ Len(session'[w].add) = 1 /\ Len(add) = 1
         /\ session'[w].add[1].market = add[1].market
         /\ IsOpen(session'[w].add[1]) => IsOpen(add[1])
      \/ /\ session'[w].job = "place" /\ Len(session'[w].add) = 1
         /\ OpenIn(session'[w].add[1].market) = {}
         /\ ~CityFull(session'[w].add[1].market)

LEMMA PlaceSeen ==
  ASSUME TypeOK, LoadedOpen, NEW w \in Worker, Place(w)
  PROVE  LoadedOpen' /\ Alone(w) /\ session[w].job = "place" /\ NextRow(w)
<1>0. session[w].job = "place"
  BY DEF Place, PlaceSkip, PlaceReject, PlaceAdmit, PlaceDebit, At
<1>1. CASE PlaceSkip(w)
  BY <1>0, <1>1, AfterPlaceSeen, AfterPlaceFields, BecomeSeen DEF PlaceSkip, NextRow
<1>2. CASE PlaceReject(w)
  BY <1>0, <1>2, AfterPlaceSeen, AfterPlaceFields, BecomeSeen DEF PlaceReject, NextRow
<1>3. CASE PlaceAdmit(w)
  <2>1. PICK a \in analyses, accepted \in BOOLEAN :
          /\ ~NotTradable(a.market) /\ ~CityFull(a.market)
          /\ Become(w, [NoSession EXCEPT
               !.job = "place", !.step = "debit", !.queue = session[w].queue \ {a.id},
               !.add = <<NewBet(a, Stake(a), IF accepted THEN "placed" ELSE "failed")>>,
               !.status = [NoSession.status EXCEPT ![a.market] =
                 IF accepted /\ markets[a.market].status # "bet_placed"
                   THEN "bet_placed" ELSE "kept"]])
    BY <1>3 DEF PlaceAdmit
  <2> DEFINE queue  == session[w].queue \ {a.id}
             add    == <<NewBet(a, Stake(a), IF accepted THEN "placed" ELSE "failed")>>
             status == [NoSession.status EXCEPT ![a.market] =
                         IF accepted /\ markets[a.market].status # "bet_placed"
                           THEN "bet_placed" ELSE "kept"]
             s      == [NoSession EXCEPT !.job = "place", !.step = "debit", !.queue = queue,
                                         !.add = add, !.status = status]
  <2>2. s.seen = NoSession.seen /\ s.job = "place" /\ s.add = add
    <3> HIDE DEF queue, add, status
    <3> QED BY DEF NoSession
  <2>3. Become(w, s)
    BY <2>1
  <2>4. Len(add) = 1 /\ add[1].market = a.market /\ OpenIn(a.market) = {} /\ ~CityFull(a.market)
    BY <2>1 DEF NewBet, NotTradable
  <2>5. LoadedOpen' /\ Alone(w) /\ session'[w] = s
    <3> HIDE DEF s
    <3> QED BY <2>2, <2>3, NoSessionSeen, BecomeSeen DEF SeenOpen
  <2> HIDE DEF s, add
  <2> QED
    BY <1>0, <2>2, <2>4, <2>5 DEF NextRow
<1>4. CASE PlaceDebit(w)
  <2> DEFINE t == DebitStake(session[w], Paid(session[w].add[1]))
             n == [t EXCEPT !.step = "commit",
                    !.add[1].status = IF Purse(session[w]) < Paid(session[w].add[1])
                                        THEN "failed" ELSE @]
  <2>1. session[w] \in Session
    BY DEF TypeOK
  <2>2. /\ t.seen = session[w].seen /\ t.add = session[w].add /\ t.job = session[w].job
        /\ DOMAIN t = DOMAIN session[w]
    BY <2>1 DEF DebitStake, Session
  <2> DEFINE status == IF Purse(session[w]) < Paid(session[w].add[1])
                         THEN "failed" ELSE t.add[1].status
  <2>3. /\ n.seen = t.seen /\ n.job = t.job
        /\ n.add = [t.add EXCEPT ![1].status = status]
    <3> HIDE DEF t
    <3> QED BY <2>1, <2>2 DEF Session
  <2>4. Become(w, n)
    BY <1>4 DEF PlaceDebit
  <2>5. session[w].add \in Seq(Bet) /\ Len(session[w].add) = 1
    BY <1>4, <2>1 DEF PlaceDebit, At, TypeOK, Sound, Session
  <2>6. session[w].add[1] \in Bet
    BY <2>5
  <2>7. /\ Len(n.add) = 1 /\ n.add[1].market = session[w].add[1].market
        /\ n.add[1].status = status
    <3> HIDE DEF t, n, status
    <3> QED BY <2>2, <2>3, <2>5, <2>6 DEF Bet
  <2>8. IsOpen(n.add[1]) => IsOpen(session[w].add[1])
    <3> HIDE DEF t, n
    <3> QED BY <2>2, <2>7 DEF IsOpen
  <2> HIDE DEF n, t
  <2>9. LoadedOpen' /\ Alone(w) /\ session'[w] = n
    BY <2>2, <2>3, <2>4, SameSeen
  <2> QED
    BY <1>0, <2>2, <2>3, <2>5, <2>7, <2>8, <2>9 DEF NextRow
<1> QED
  BY <1>1, <1>2, <1>3, <1>4 DEF Place

\* Settlement and the movements of money insert nothing.
SameRow(w) == session'[w].add = session[w].add /\ session'[w].job = session[w].job

LEMMA SettleSeen ==
  ASSUME TypeOK, LoadedOpen, NEW w \in Worker, Settle(w)
  PROVE  LoadedOpen' /\ Alone(w) /\ SameRow(w)
<1> DEFINE s == session[w]
<1>1. s \in Session /\ SeenOpen(s)
  BY DEF TypeOK, LoadedOpen
<1>2. CASE SettleExpire(w)
  <2>1. PICK m \in s.due : Become(w, [s EXCEPT !.due = @ \ {m}, !.status[m] = "expired"])
    BY <1>2 DEF SettleExpire
  <2> DEFINE n == [s EXCEPT !.due = @ \ {m}, !.status[m] = "expired"]
  <2>2. n.seen = s.seen /\ n.add = s.add /\ n.job = s.job
    BY <1>1 DEF Session
  <2> HIDE DEF n
  <2> QED
    BY <2>1, <2>2, SameSeen DEF n, SameRow
<1>3. CASE SettleAsk(w)
  <2>1. PICK m \in s.due :
          Become(w, [s EXCEPT
               !.step = "ask", !.due = @ \ {m}, !.todo = OpenIn(m) \cap BetId,
               !.seen = [i \in BetId |-> IF i \in OpenIn(m) \cap BetId THEN bets[i] ELSE @[i]],
               !.mine = [i \in BetId |-> IF i \in OpenIn(m) \cap BetId THEN bets[i] ELSE @[i]]])
    BY <1>3 DEF SettleAsk
  <2> DEFINE ids  == OpenIn(m) \cap BetId
             seen == [i \in BetId |-> IF i \in ids THEN bets[i] ELSE s.seen[i]]
             mine == [i \in BetId |-> IF i \in ids THEN bets[i] ELSE s.mine[i]]
             n    == [s EXCEPT !.step = "ask", !.due = @ \ {m}, !.todo = ids,
                               !.seen = seen, !.mine = mine]
  <2>2. Become(w, n)
    <3>1. [s EXCEPT
               !.step = "ask", !.due = @ \ {m}, !.todo = OpenIn(m) \cap BetId,
               !.seen = [i \in BetId |-> IF i \in OpenIn(m) \cap BetId THEN bets[i] ELSE @[i]],
               !.mine = [i \in BetId |-> IF i \in OpenIn(m) \cap BetId THEN bets[i] ELSE @[i]]] = n
      BY <1>1 DEF Session
    <3> QED
      BY <2>1, <3>1
  <2>3. n.seen = seen /\ n.add = s.add /\ n.job = s.job
    <3> HIDE DEF seen, mine, ids
    <3> QED BY <1>1 DEF Session
  <2>4. \A i \in ids : IsOpen(bets[i])
    BY DEF OpenIn, OpenIds
  <2>5. SeenOpen(n)
    <3> HIDE DEF n, ids
    <3> QED BY <1>1, <2>3, <2>4 DEF SeenOpen
  <2> HIDE DEF n
  <2> QED
    BY <2>2, <2>3, <2>5, BecomeSeen DEF SameRow
<1>4. CASE SettlePending(w)
  <2> DEFINE seen == [i \in BetId |-> IF i \in s.todo THEN NoRow ELSE s.seen[i]]
             mine == [i \in BetId |-> IF i \in s.todo THEN NoRow ELSE s.mine[i]]
             n    == [s EXCEPT !.step = "run", !.todo = {}, !.seen = seen, !.mine = mine]
  <2>1. Become(w, n)
    <3>1. [s EXCEPT
          !.step = "run", !.todo = {},
          !.seen = [i \in BetId |-> IF i \in s.todo THEN NoRow ELSE @[i]],
          !.mine = [i \in BetId |-> IF i \in s.todo THEN NoRow ELSE @[i]]] = n
      BY <1>1 DEF Session
    <3> QED
      BY <1>4, <3>1 DEF SettlePending
  <2>2. n.seen = seen /\ n.add = s.add /\ n.job = s.job
    <3> HIDE DEF seen, mine
    <3> QED BY <1>1 DEF Session
  <2>3. SeenOpen(n)
    <3> HIDE DEF n
    <3> QED BY <1>1, <2>2 DEF SeenOpen
  <2> HIDE DEF n
  <2> QED
    BY <2>1, <2>2, <2>3, BecomeSeen DEF SameRow
<1>5. CASE SettleAnswer(w)
  <2> DEFINE row(i, outcome) ==
             [s.mine[i] EXCEPT !.status = IF s.mine[i].side = outcome THEN "won" ELSE "lost",
                               !.pnl = SettlementPnl(s.mine[i], outcome, FeePct)]
  <2>1. PICK outcome \in Side, i0 \in s.todo :
          Become(w, [s EXCEPT
            !.step = "run",
            !.status[s.mine[i0].market] = IF outcome = "YES" THEN "settled_win" ELSE "settled_loss",
            !.bill = [i \in BetId |-> IF i \in s.todo
                        THEN SettlementCredit(s.mine[i], outcome, FeePct) ELSE 0],
            !.mine = [i \in BetId |-> IF i \in s.todo THEN row(i, outcome) ELSE s.mine[i]]])
    BY <1>5 DEF SettleAnswer
  <2> DEFINE status == [s.status EXCEPT ![s.mine[i0].market] =
                          IF outcome = "YES" THEN "settled_win" ELSE "settled_loss"]
             bill   == [i \in BetId |-> IF i \in s.todo
                          THEN SettlementCredit(s.mine[i], outcome, FeePct) ELSE 0]
             mine   == [i \in BetId |-> IF i \in s.todo THEN row(i, outcome) ELSE s.mine[i]]
             n      == [s EXCEPT !.step = "run", !.status = status, !.bill = bill, !.mine = mine]
  <2>2. Become(w, n)
    BY <2>1
  <2>3. n.seen = s.seen /\ n.add = s.add /\ n.job = s.job
    <3> HIDE DEF status, bill, mine
    <3> QED BY <1>1 DEF Session
  <2> HIDE DEF n
  <2> QED
    BY <2>2, <2>3, SameSeen DEF SameRow
<1> QED
  BY <1>2, <1>3, <1>4, <1>5 DEF Settle

LEMMA MoneySeen ==
  ASSUME TypeOK, LoadedOpen, NEW w \in Worker, Money(w)
  PROVE  LoadedOpen' /\ Alone(w) /\ SameRow(w)
<1> DEFINE s == session[w]
<1>1. s \in Session
  BY DEF TypeOK
<1>2. CASE UpdateDebit(w)
  <2>1. PICK i \in s.todo : Become(w, [DebitStake(s, s.bill[i]) EXCEPT !.todo = @ \ {i}])
    BY <1>2 DEF UpdateDebit
  <2> DEFINE n == [DebitStake(s, s.bill[i]) EXCEPT !.todo = @ \ {i}]
  <2>2. n.seen = s.seen /\ n.add = s.add /\ n.job = s.job
    BY <1>1 DEF DebitStake, Session
  <2> HIDE DEF n
  <2> QED
    BY <2>1, <2>2, SameSeen DEF n, SameRow
<1>3. CASE PostCredit(w)
  <2>1. PICK i \in s.todo : Become(w, [Credit(s, s.bill[i]) EXCEPT !.todo = @ \ {i}])
    BY <1>3 DEF PostCredit
  <2> DEFINE n == [Credit(s, s.bill[i]) EXCEPT !.todo = @ \ {i}]
  <2>2. n.seen = s.seen /\ n.add = s.add /\ n.job = s.job
    BY <1>1 DEF Credit, Session
  <2> HIDE DEF n
  <2> QED
    BY <2>1, <2>2, SameSeen DEF n, SameRow
<1> QED
  BY <1>2, <1>3 DEF Money

LEMMA EndSeen ==
  ASSUME TypeOK, LoadedOpen, NEW w \in Worker, End(w)
  PROVE  /\ LoadedOpen' /\ Alone(w)
         /\ session'[w].add = <<>> /\ session'[w].job \in {session[w].job, "idle"}
<1>1. Become(w, AfterSession(session[w]))
  BY DEF End, Commit, Rollback
<1>2. SeenOpen(AfterSession(session[w]))
  BY AfterPlaceSeen DEF AfterSession
<1>3. /\ AfterSession(session[w]).add = <<>>
      /\ AfterSession(session[w]).job \in {session[w].job, "idle"}
  BY AfterPlaceFields DEF AfterSession, AfterPlace, NoSession
<1> QED
  BY <1>1, <1>2, <1>3, BecomeSeen

LEMMA LoadedOpenInductive == TypeOK /\ LoadedOpen /\ [Next]_vars => LoadedOpen'
<1> SUFFICES ASSUME TypeOK, LoadedOpen, [Next]_vars PROVE LoadedOpen'
  OBVIOUS
<1>1. CASE session' = session
  BY <1>1 DEF LoadedOpen, SeenOpen, IsOpen
<1>2. CASE \E w \in Worker : Begin(w) \/ Place(w) \/ Settle(w) \/ Money(w) \/ End(w)
  BY <1>2, BeginSeen, PlaceSeen, SettleSeen, MoneySeen, EndSeen
<1> QED
  BY <1>1, <1>2 DEF Next, vars, Fetch, Analyze, ResetApi, ResetCli, NextDay

LEMMA LoadedOpenInit == Init => LoadedOpen
  BY NoSessionSeen DEF Init, LoadedOpen

\* What a commit does to the rows that are there.
LEMMA CommitRows ==
  ASSUME TypeOK, LoadedOpen, NEW w \in Worker, Commit(w), NEW i \in DOMAIN bets
  PROVE  /\ i \in DOMAIN bets'
         /\ IsOpen(bets'[i]) => IsOpen(bets[i])
         /\ bets'[i].market = bets[i].market
<1> DEFINE s == session[w]
<1>1. s \in Session /\ SeenOpen(s) /\ Sound(s)
  BY DEF TypeOK, LoadedOpen
<1>2. /\ Flushed(s) \in Seq(Bet) /\ Len(Flushed(s)) = Len(bets)
      /\ s.add \in Seq(Bet)
      /\ bets \in Seq(Bet)
  BY <1>1, FlushedType DEF Session, TypeOK
<1>3. bets' = Flushed(s) \o s.add
  BY DEF Commit
<1>4. i \in 1 .. Len(bets)
  BY <1>2
<1>5. bets'[i] = Flushed(s)[i] /\ i \in DOMAIN bets'
  <2>1. bets' \in Seq(Bet) /\ Len(bets') = Len(Flushed(s)) + Len(s.add)
    BY <1>2, <1>3, ConcatProperties
  <2>2. Len(s.add) \in Nat /\ Len(bets) \in Nat
    BY <1>2
  <2>3. i \in 1 .. Len(Flushed(s)) /\ i \in 1 .. Len(bets')
    BY <1>2, <1>4, <2>1, <2>2
  <2>4. (Flushed(s) \o s.add)[i] = Flushed(s)[i]
    <3>1. i \in 1 .. Len(Flushed(s)) + Len(s.add) /\ i <= Len(Flushed(s))
      BY <1>2, <1>4, <2>2
    <3> HIDE DEF s
    <3> QED BY <1>2, <3>1, ConcatProperties
  <2>5. i \in DOMAIN bets'
    <3>1. bets' \in Seq(Bet) /\ i \in 1 .. Len(bets')
      BY <2>1, <2>3
    <3> QED
      BY <3>1, LenProperties
  <2>6. bets'[i] = Flushed(s)[i]
    BY <1>3, <2>4
  <2> QED
    BY <2>5, <2>6
<1>6. Flushed(s)[i] = IF i \in Changed(s) THEN Written(bets[i], s.seen[i], s.mine[i]) ELSE bets[i]
  BY <1>4 DEF Flushed
<1>7. bets[i] \in Bet
  BY <1>2, <1>4
<1>8. CASE i \in Changed(s)
  <2>1. i \in BetId /\ s.seen[i] \in Bet /\ IsOpen(s.seen[i])
    BY <1>1, <1>8 DEF Changed, SeenOpen, Sound, Session
  <2>2. Written(bets[i], s.seen[i], s.mine[i]).market = bets[i].market
    BY <1>7 DEF Written, Bet
  <2>3. Written(bets[i], s.seen[i], s.mine[i]).status
          = IF s.mine[i].status = s.seen[i].status THEN bets[i].status ELSE s.mine[i].status
    BY <1>7 DEF Written, Bet
  <2> QED
    BY <1>5, <1>6, <1>8, <2>1, <2>2, <2>3 DEF IsOpen
<1>9. CASE i \notin Changed(s)
  BY <1>5, <1>6, <1>9
<1> QED
  BY <1>8, <1>9

\* What any step does to a row that is there before and after it.
LEMMA StepRows ==
  ASSUME TypeOK, LoadedOpen, Next, NEW i \in DOMAIN bets, i \in DOMAIN bets'
  PROVE  /\ IsOpen(bets'[i]) => IsOpen(bets[i])
         /\ bets'[i].market = bets[i].market
<1>1. CASE bets' = bets
  BY <1>1
<1>2. CASE \E w \in Worker : Commit(w)
  BY <1>2, CommitRows
<1>3. CASE \E w \in Worker : PlaceReject(w)
  <2>1. PICK b : bets' = Append(bets, b)
    BY <1>3 DEF PlaceReject
  <2>2. bets'[i] = bets[i]
    BY <2>1 DEF TypeOK
  <2> QED
    BY <2>2
<1>4. CASE ResetApi
  BY <1>4 DEF ResetApi
<1>5. CASE ResetCli
  <2>1. i \in 1 .. Len(bets) /\ bets[i] \in Bet
    BY DEF TypeOK
  <2>2. bets'[i] = [bets[i] EXCEPT !.status = "cancelled"]
    BY <1>5, <2>1 DEF ResetCli
  <2> QED
    BY <2>1, <2>2 DEF IsOpen, Bet
<1>6. CASE \E w \in Worker : Fetch(w) \/ Analyze(w) \/ Begin(w) \/ Settle(w) \/ Money(w) \/ Rollback(w)
                             \/ PlaceSkip(w) \/ PlaceAdmit(w) \/ PlaceDebit(w)
  <2>1. bets' = bets
    BY <1>6 DEF Fetch, Analyze, Begin, PlaceBegin, UpdateBegin, RiskBegin, SettleBegin,
         CleanupBegin, Settle, SettleExpire, SettleAsk, SettlePending, SettleAnswer, Money,
         UpdateDebit, PostCredit, Rollback, PlaceSkip, PlaceAdmit, PlaceDebit, database
  <2> QED
    BY <2>1, Zenon
<1>7. CASE NextDay
  BY <1>7 DEF NextDay, database
<1> QED
  BY <1>2, <1>3, <1>4, <1>5, <1>6, <1>7 DEF Next, Place, End

\* A stale object committed late never reopens a position: whatever jobs run,
\* in however many threads and processes, and whatever is reset meanwhile.
THEOREM ClosedStays == Spec => ClosedStaysClosed
<1>1. Init => TypeOK /\ LoadedOpen
  BY InitTypes, LoadedOpenInit
<1>2. TypeOK /\ LoadedOpen /\ [Next]_vars => (TypeOK /\ LoadedOpen)'
  BY TypesInductive, LoadedOpenInductive
<1>3. TypeOK /\ LoadedOpen /\ [Next]_vars
        => [\A i \in DOMAIN bets \cap DOMAIN bets' : IsOpen(bets'[i]) => IsOpen(bets[i])]_bets
  BY StepRows DEF vars
<1> QED
  BY <1>1, <1>2, <1>3, PTL DEF Spec, ClosedStaysClosed
-----------------------------------------------------------------------------
(* OneOpenBetPerMarket, when one worker runs all the place jobs.  place_bet *)
(* looks for an open bet on the market in the transaction that inserts the  *)
(* new one, and nobody else inserts an open row in between: the row a place *)
(* job holds stays the only one for its market.                             *)

SinglePlacer ==
  \A v, w \in Worker : "place" \in Jobs[v] \cap Jobs[w] => v = w

JobHeld  == \A w \in Worker : session[w].job \in Jobs[w] \cup {"idle"}
RowFresh ==
  \A w \in Worker : session[w].add # <<>> =>
    /\ session[w].job = "place"
    /\ Len(session[w].add) = 1
    /\ IsOpen(session[w].add[1]) => OpenIn(session[w].add[1].market) = {}

\* The inductive invariant.
OneInv == TypeOK /\ LoadedOpen /\ JobHeld /\ RowFresh /\ OneOpenBetPerMarket

LEMMA JobHeldInductive == OneInv /\ [Next]_vars => JobHeld'
<1> SUFFICES ASSUME OneInv, [Next]_vars PROVE JobHeld'
  OBVIOUS
<1> USE DEF OneInv
<1>1. CASE session' = session
  BY <1>1 DEF JobHeld
<1>2. ASSUME NEW w \in Worker, Begin(w) \/ Place(w) \/ Settle(w) \/ Money(w) \/ End(w)
      PROVE  JobHeld'
  <2>1. Alone(w)
    BY <1>2, BeginSeen, PlaceSeen, SettleSeen, MoneySeen, EndSeen
  <2>2. session'[w].job \in Jobs[w] \cup {"idle"}
    <3>1. CASE Begin(w)
      BY <3>1, BeginSeen
    <3>2. CASE Place(w)
      BY <3>2, PlaceSeen DEF NextRow, JobHeld
    <3>3. CASE Settle(w) \/ Money(w)
      BY <3>3, SettleSeen, MoneySeen DEF SameRow, JobHeld
    <3>4. CASE End(w)
      BY <3>4, EndSeen DEF JobHeld
    <3> QED
      BY <1>2, <3>1, <3>2, <3>3, <3>4
  <2> QED
    BY <2>1, <2>2 DEF JobHeld, Alone
<1> QED
  BY <1>1, <1>2 DEF Next, vars, Fetch, Analyze, ResetApi, ResetCli, NextDay

\* The rows a step adds: none that is open, but the one a place job commits.
LEMMA NewRows ==
  ASSUME OneInv, Next, NEW i \in DOMAIN bets', i \notin DOMAIN bets, IsOpen(bets'[i])
  PROVE  \E w \in Worker :
           /\ Commit(w) /\ session[w].add # <<>>
           /\ i = Len(bets) + 1 /\ bets'[i] = session[w].add[1]
<1> USE DEF OneInv
<1>1. CASE \E w \in Worker : Commit(w)
  <2>1. PICK w \in Worker : Commit(w)
    BY <1>1
  <2> DEFINE add == session[w].add
             old == Flushed(session[w])
  <2>2. /\ old \in Seq(Bet) /\ Len(old) = Len(bets) /\ Len(bets) \in Nat
        /\ add \in Seq(Bet) /\ bets \in Seq(Bet)
    BY FlushedType DEF Session, TypeOK
  <2>3. bets' = old \o add
    BY <2>1 DEF Commit
  <2>4. add = <<>> \/ Len(add) = 1
    BY DEF RowFresh
  <2> HIDE DEF old, add
  <2>5. Len(add) \in Nat /\ (add = <<>> => Len(add) = 0)
    BY <2>2
  <2>6. i \in 1 .. Len(old) + Len(add) /\ i \notin 1 .. Len(bets)
    <3>1. old \o add \in Seq(Bet) /\ Len(old \o add) = Len(old) + Len(add)
      BY <2>2, ConcatProperties
    <3>2. DOMAIN (old \o add) = 1 .. Len(old) + Len(add)
      BY <3>1, LenProperties
    <3>3. DOMAIN bets = 1 .. Len(bets)
      BY <2>2, LenProperties
    <3> QED
      BY <2>3, <3>2, <3>3
  <2>7. add # <<>> /\ Len(add) = 1 /\ i = Len(bets) + 1
    <3>1. Len(old) = Len(bets) /\ Len(bets) \in Nat
      BY <2>2
    <3>2. Len(add) # 0
      BY <2>5, <2>6, <3>1
    <3>3. add # <<>> /\ Len(add) = 1
      BY <2>4, <2>5, <3>2
    <3> QED
      BY <2>6, <3>1, <3>3
  <2>8. (old \o add)[i] = add[i - Len(old)]
    <3>1. ~(i <= Len(old))
      BY <2>2, <2>7
    <3> QED
      BY <2>2, <2>6, <3>1, ConcatProperties
  <2>9. i - Len(old) = 1
    BY <2>2, <2>7
  <2>10. bets'[i] = add[1]
    BY <2>3, <2>8, <2>9
  <2> QED
    BY <2>1, <2>7, <2>10 DEF add
<1>2. CASE \E w \in Worker : PlaceReject(w)
  <2>1. PICK w \in Worker, a \in analyses :
          bets' = Append(bets, [NewBet(a, Stake(a), "rejected") EXCEPT !.filled = {}])
    BY <1>2 DEF PlaceReject
  <2> DEFINE b == [NewBet(a, Stake(a), "rejected") EXCEPT !.filled = {}]
  <2>2. b.status = "rejected"
    BY DEF NewBet
  <2>3. bets'[i] = b
    <3> HIDE DEF b
    <3>1. bets \in Seq(Bet) /\ Len(bets) \in Nat /\ DOMAIN bets = 1 .. Len(bets)
      BY LenProperties DEF TypeOK
    <3>2. DOMAIN Append(bets, b) = 1 .. Len(bets) + 1 /\ Append(bets, b)[Len(bets) + 1] = b
      BY <3>1
    <3>3. i = Len(bets) + 1
      BY <2>1, <3>1, <3>2 DEF b
    <3> QED
      BY <2>1, <3>2, <3>3 DEF b
  <2> QED
    BY <2>2, <2>3 DEF IsOpen
<1>3. CASE ResetApi
  BY <1>3 DEF ResetApi
<1>4. CASE ResetCli
  <2>1. bets \in Seq(Bet) /\ Len(bets) \in Nat /\ DOMAIN bets = 1 .. Len(bets)
    BY LenProperties DEF TypeOK
  <2>2. DOMAIN bets' = 1 .. Len(bets)
    BY <1>4 DEF ResetCli
  <2> QED
    BY <2>1, <2>2
<1>5. CASE \E w \in Worker : Fetch(w) \/ Analyze(w) \/ Begin(w) \/ Settle(w) \/ Money(w) \/ Rollback(w)
                             \/ PlaceSkip(w) \/ PlaceAdmit(w) \/ PlaceDebit(w)
  <2>1. bets' = bets
    BY <1>5 DEF Fetch, Analyze, Begin, PlaceBegin, UpdateBegin, RiskBegin, SettleBegin,
         CleanupBegin, Settle, SettleExpire, SettleAsk, SettlePending, SettleAnswer, Money,
         UpdateDebit, PostCredit, Rollback, PlaceSkip, PlaceAdmit, PlaceDebit, database
  <2> QED
    BY <2>1, Zenon
<1>6. CASE NextDay
  BY <1>6 DEF NextDay, database
<1> QED
  BY <1>1, <1>2, <1>3, <1>4, <1>5, <1>6 DEF Next, Place, End

NoneNext(m) == \A i \in DOMAIN bets' : IsOpen(bets'[i]) => bets'[i].market # m

\* A market without an open bet has none after a step that inserts nothing.
LEMMA NoneOpened ==
  ASSUME OneInv, Next, NEW m, OpenIn(m) = {},
         \A w \in Worker : Commit(w) => session[w].add = <<>>
  PROVE  NoneNext(m)
<1> SUFFICES ASSUME NEW i \in DOMAIN bets', IsOpen(bets'[i]), bets'[i].market = m
             PROVE  FALSE
  BY DEF NoneNext
<1>1. i \in DOMAIN bets
  BY NewRows
<1>2. i \in OpenIn(m)
  BY <1>1, StepRows DEF OneInv, OpenIn, OpenIds
<1> QED
  BY <1>2

LEMMA RowFreshInductive ==
  ASSUME SinglePlacer
  PROVE  OneInv /\ [Next]_vars => RowFresh'
<1> SUFFICES ASSUME OneInv, [Next]_vars PROVE RowFresh'
  OBVIOUS
<1> USE DEF OneInv
<1>1. CASE UNCHANGED vars
  BY <1>1 DEF vars, RowFresh, OpenIn, OpenIds, IsOpen
<1>2. CASE Next
  <2> SUFFICES ASSUME NEW v \in Worker, session'[v].add # <<>>
               PROVE  /\ session'[v].job = "place"
                      /\ Len(session'[v].add) = 1
                      /\ IsOpen(session'[v].add[1]) => NoneNext(session'[v].add[1].market)
    BY DEF RowFresh, IsOpen, OpenIn, OpenIds, NoneNext
  <2>1. ASSUME session'[v] = session[v], \A w \in Worker : Commit(w) => session[w].add = <<>>
        PROVE  /\ session'[v].job = "place"
               /\ Len(session'[v].add) = 1
               /\ IsOpen(session'[v].add[1]) => NoneNext(session'[v].add[1].market)
    BY <1>2, <2>1, NoneOpened DEF RowFresh
  <2>2. ASSUME NEW w \in Worker, Commit(w), session[w].add # <<>>
        PROVE  FALSE
    <3>1. session[w].job = "place" /\ Alone(w) /\ session'[w].add = <<>>
      BY <2>2, EndSeen DEF RowFresh, End
    <3>2. v # w /\ session'[v] = session[v]
      BY <3>1 DEF Alone
    <3>3. session[v].job = "place"
      BY <3>2 DEF RowFresh
    <3>4. "place" \in Jobs[v] \cap Jobs[w]
      BY <3>1, <3>3 DEF JobHeld
    <3> QED
      BY <3>2, <3>4 DEF SinglePlacer
  <2>3. ASSUME NEW w \in Worker, Begin(w) \/ Settle(w) \/ Money(w) \/ End(w)
        PROVE  session'[v] = session[v] \/ (v = w /\ SameRow(w))
    BY <2>3, BeginSeen, SettleSeen, MoneySeen, EndSeen DEF Alone
  <2>4. CASE \E w \in Worker : Begin(w) \/ Settle(w) \/ Money(w) \/ End(w)
    <3>1. session'[v].add = session[v].add /\ session'[v].job = session[v].job
      BY <2>3, <2>4 DEF SameRow
    <3> QED
      BY <1>2, <2>2, <3>1, NoneOpened DEF RowFresh
  <2>5. ASSUME NEW w \in Worker, Place(w), v # w
        PROVE  session'[v] = session[v]
    BY <2>5, PlaceSeen DEF Alone
  <2>6. CASE Place(v)
    <3>1. \/ /\ session'[v].job = "place" /\ Len(session'[v].add) = 1 /\ Len(session[v].add) = 1
             /\ session'[v].add[1].market = session[v].add[1].market
             /\ IsOpen(session'[v].add[1]) => IsOpen(session[v].add[1])
          \/ /\ session'[v].job = "place" /\ Len(session'[v].add) = 1
             /\ OpenIn(session'[v].add[1].market) = {}
      BY <2>6, PlaceSeen DEF NextRow
    <3>2. Len(session[v].add) = 1 => session[v].add # <<>>
      OBVIOUS
    <3>3. IsOpen(session'[v].add[1]) => OpenIn(session'[v].add[1].market) = {}
      BY <3>1, <3>2 DEF RowFresh
    <3> QED
      BY <1>2, <2>2, <3>1, <3>3, NoneOpened
  <2>7. CASE UNCHANGED session
    BY <2>1, <2>2, <2>7
  <2> QED
    BY <1>2, <2>1, <2>2, <2>4, <2>5, <2>6, <2>7
       DEF Next, Fetch, Analyze, ResetApi, ResetCli, NextDay
<1> QED
  BY <1>1, <1>2

LEMMA OneOpenInductive == OneInv /\ [Next]_vars => OneOpenBetPerMarket'
<1> SUFFICES ASSUME OneInv, [Next]_vars PROVE OneOpenBetPerMarket'
  OBVIOUS
<1> USE DEF OneInv
<1>1. CASE UNCHANGED vars
  BY <1>1 DEF vars, OneOpenBetPerMarket, OpenIds, IsOpen
<1>2. CASE Next
  <2> SUFFICES ASSUME NEW i \in DOMAIN bets', NEW j \in DOMAIN bets',
                      IsOpen(bets'[i]), IsOpen(bets'[j]), bets'[i].market = bets'[j].market
               PROVE  i = j
    BY DEF OneOpenBetPerMarket, OpenIds, IsOpen
  <2>1. CASE i \in DOMAIN bets /\ j \in DOMAIN bets
    BY <1>2, <2>1, StepRows DEF OneOpenBetPerMarket, OpenIds
  <2>2. ASSUME NEW k \in DOMAIN bets', k \notin DOMAIN bets, IsOpen(bets'[k])
        PROVE  k = Len(bets) + 1 /\ OpenIn(bets'[k].market) = {}
    BY <1>2, <2>2, NewRows DEF RowFresh
  <2>3. ASSUME NEW k \in DOMAIN bets', k \in DOMAIN bets, IsOpen(bets'[k])
        PROVE  k \in OpenIn(bets'[k].market)
    BY <1>2, <2>3, StepRows DEF OpenIn, OpenIds
  <2> QED
    BY <2>1, <2>2, <2>3
<1> QED
  BY <1>1, <1>2

LEMMA OneInvInit == Init => OneInv
<1> SUFFICES ASSUME Init PROVE OneInv
  OBVIOUS
<1>1. \A w \in Worker : session[w] = NoSession
  BY DEF Init
<1>2. JobHeld /\ RowFresh
  BY <1>1 DEF JobHeld, RowFresh, NoSession
<1>3. OneOpenBetPerMarket
  BY DEF Init, OneOpenBetPerMarket, OpenIds
<1> QED
  BY <1>2, <1>3, InitTypes, LoadedOpenInit DEF OneInv

LEMMA OneInvInductive == ASSUME SinglePlacer PROVE OneInv /\ [Next]_vars => OneInv'
  BY TypesInductive, LoadedOpenInductive, JobHeldInductive, RowFreshInductive, OneOpenInductive
     DEF OneInv

\* place_bet holds at most one open position per market against every other
\* job, cleanup and reset, provided one worker at a time runs place jobs: one
\* scan loop, and neither a second process nor a restarted loop beside it.
THEOREM OneOpenBet == ASSUME SinglePlacer PROVE Spec => []OneOpenBetPerMarket
<1>1. OneInv => OneOpenBetPerMarket
  BY DEF OneInv
<1> QED
  BY <1>1, OneInvInit, OneInvInductive, PTL DEF Spec
-----------------------------------------------------------------------------
(* CityCapHeld, under the same condition: nobody else opens a position      *)
(* between the count and the commit, so that the count is not exceeded.     *)

InCity(c)     == {i \in OpenIds : City[bets[i].market] = c}
NextInCity(c) == {i \in OpenIds' : City[bets'[i].market] = c}

CityFresh ==
  \A w \in Worker : session[w].add # <<>> /\ IsOpen(session[w].add[1]) =>
    ~CityFull(session[w].add[1].market)

\* The inductive invariant.
CityInv == OneInv /\ CityFresh /\ CityCapHeld

\* The rows in a city after a step: none but those before it, and the new one.
LEMMA CityGrows ==
  ASSUME OneInv, Next, NEW c
  PROVE  /\ IsFiniteSet(InCity(c)) /\ Cardinality(InCity(c)) \in Nat
         /\ \A i \in NextInCity(c) \ InCity(c) :
              \E w \in Worker : /\ Commit(w) /\ session[w].add # <<>> /\ i = Len(bets) + 1
                                /\ City[session[w].add[1].market] = c
                                /\ IsOpen(session[w].add[1])
<1>1. IsFiniteSet(InCity(c)) /\ Cardinality(InCity(c)) \in Nat
  <2>1. InCity(c) \subseteq DOMAIN bets
    BY DEF InCity, OpenIds
  <2> QED
    BY <2>1, RowsFinite, FS_Subset, FS_CardinalityType DEF OneInv
<1>2. ASSUME NEW i \in NextInCity(c), i \notin InCity(c)
      PROVE  \E w \in Worker : /\ Commit(w) /\ session[w].add # <<>> /\ i = Len(bets) + 1
                               /\ City[session[w].add[1].market] = c
                               /\ IsOpen(session[w].add[1])
  <2>1. i \in DOMAIN bets' /\ IsOpen(bets'[i]) /\ City[bets'[i].market] = c
    BY DEF NextInCity, OpenIds, IsOpen
  <2>2. i \notin DOMAIN bets
    BY <1>2, <2>1, StepRows DEF OneInv, InCity, OpenIds
  <2>3. PICK w \in Worker : /\ Commit(w) /\ session[w].add # <<>>
                            /\ i = Len(bets) + 1 /\ bets'[i] = session[w].add[1]
    BY <2>1, <2>2, NewRows
  <2> QED
    BY <2>1, <2>3
<1> QED
  BY <1>1, <1>2

\* A city with room has room after a step that inserts nothing.
LEMMA CityKept ==
  ASSUME OneInv, Next, NEW m, ~CityFull(m),
         \A w \in Worker : Commit(w) => session[w].add = <<>>
  PROVE  Cardinality(NextInCity(City[m])) < CityCap
<1> DEFINE c == City[m]
<1>1. NextInCity(c) \subseteq InCity(c) /\ IsFiniteSet(InCity(c)) /\ Cardinality(InCity(c)) \in Nat
  BY CityGrows
<1>2. Cardinality(InCity(c)) < CityCap
  BY <1>1, MoneyAssumption DEF CityFull, InCity
<1>3. Cardinality(NextInCity(c)) <= Cardinality(InCity(c)) /\ Cardinality(NextInCity(c)) \in Nat
  BY <1>1, FS_Subset, FS_CardinalityType
<1> QED
  BY <1>1, <1>2, <1>3, MoneyAssumption

LEMMA CityFreshInductive ==
  ASSUME SinglePlacer
  PROVE  CityInv /\ OneInv' /\ [Next]_vars => CityFresh'
<1> SUFFICES ASSUME CityInv, OneInv', [Next]_vars, NEW v \in Worker,
                    session'[v].add # <<>>, IsOpen(session'[v].add[1])
             PROVE  CityFull(session[v].add[1].market)' = FALSE
  BY DEF CityFresh, IsOpen
<1> DEFINE m == session'[v].add[1].market
<1> USE DEF OneInv, CityInv
<1>1. CASE UNCHANGED vars
  BY <1>1 DEF vars, CityFresh, CityFull, OpenIds, IsOpen
<1>2. CASE Next
  <2> SUFFICES Cardinality(NextInCity(City[m])) < CityCap
    <3>1. NextInCity(City[m]) = {i \in OpenIds' : City[bets'[i].market] = City[m]}
      BY DEF NextInCity
    <3>2. Cardinality(NextInCity(City[m])) \in Nat
      <4>1. NextInCity(City[m]) \subseteq DOMAIN bets'
        BY DEF NextInCity, OpenIds
      <4> QED
        BY <4>1, NextRowsFinite, FS_Subset, FS_CardinalityType
    <3> QED
      BY <3>1, <3>2, MoneyAssumption DEF CityFull
  <2>1. session'[v].job = "place" /\ Len(session'[v].add) = 1
    BY DEF RowFresh
  <2>2. ASSUME NEW w \in Worker, Commit(w), session[w].add # <<>>
        PROVE  FALSE
    <3>1. session[w].job = "place" /\ Alone(w) /\ session'[w].add = <<>>
      BY <2>2, EndSeen DEF RowFresh, End
    <3>2. v # w /\ session'[v] = session[v]
      BY <3>1 DEF Alone
    <3>3. session[v].job = "place"
      BY <2>1, <3>2
    <3>4. "place" \in Jobs[v] \cap Jobs[w]
      BY <3>1, <3>3 DEF JobHeld
    <3> QED
      BY <3>2, <3>4 DEF SinglePlacer
  <2>3. ASSUME NEW w \in Worker, Begin(w) \/ Settle(w) \/ Money(w) \/ End(w)
        PROVE  session'[v].add = session[v].add
    BY <2>3, BeginSeen, SettleSeen, MoneySeen, EndSeen DEF Alone, SameRow
  <2>4. session'[v].add = session[v].add \/ NextRow(v)
    <3>1. ASSUME NEW w \in Worker, Place(w) PROVE session'[v].add = session[v].add \/ NextRow(v)
      BY <3>1, PlaceSeen DEF Alone
    <3> QED
      BY <1>2, <2>3, <3>1 DEF Next, Fetch, Analyze, ResetApi, ResetCli, NextDay
  <2>5. ~CityFull(m)
    <3>1. Len(session[v].add) = 1 => session[v].add # <<>>
      OBVIOUS
    <3>2. CASE session'[v].add = session[v].add
      BY <3>2 DEF CityFresh
    <3>3. CASE NextRow(v)
      BY <2>1, <3>1, <3>3 DEF NextRow, CityFresh
    <3> QED
      BY <2>4, <3>2, <3>3
  <2> HIDE DEF m
  <2> QED
    BY <1>2, <2>2, <2>5, CityKept
<1> QED
  BY <1>1, <1>2

LEMMA CityCapInductive == CityInv /\ [Next]_vars => CityCapHeld'
<1> SUFFICES ASSUME CityInv, [Next]_vars PROVE CityCapHeld'
  OBVIOUS
<1> USE DEF CityInv
<1>1. CASE UNCHANGED vars
  BY <1>1 DEF vars, CityCapHeld, OpenIds, IsOpen
<1>2. CASE Next
  <2> SUFFICES ASSUME NEW i \in OpenIds' PROVE Cardinality(NextInCity(City[bets'[i].market])) <= CityCap
    BY DEF CityCapHeld, NextInCity
  <2> DEFINE c == City[bets'[i].market]
             A == InCity(c)
             B == NextInCity(c)
  <2>1. i \in B
    BY DEF NextInCity
  <2> HIDE DEF c
  <2>2. IsFiniteSet(A) /\ Cardinality(A) \in Nat
    BY <1>2, CityGrows
  <2>3. CASE B \subseteq A
    <3>1. i \in OpenIds /\ City[bets[i].market] = c
      BY <2>1, <2>3 DEF InCity
    <3>2. Cardinality(A) <= CityCap
      BY <3>1 DEF CityCapHeld, InCity
    <3>3. Cardinality(B) <= Cardinality(A) /\ Cardinality(B) \in Nat
      BY <2>2, <2>3, FS_Subset, FS_CardinalityType
    <3> QED
      BY <2>2, <3>2, <3>3, MoneyAssumption DEF c
  <2>4. CASE ~(B \subseteq A)
    <3>1. PICK k \in B : k \notin A
      BY <2>4
    <3>2. PICK w \in Worker : /\ k = Len(bets) + 1 /\ City[session[w].add[1].market] = c
                              /\ session[w].add # <<>> /\ IsOpen(session[w].add[1])
      BY <1>2, <3>1, CityGrows
    <3>3. Cardinality(A) < CityCap
      <4>1. ~CityFull(session[w].add[1].market)
        BY <3>2 DEF CityFresh
      <4> QED
        BY <2>2, <3>2, <4>1, MoneyAssumption DEF CityFull, InCity
    <3>4. B \subseteq A \cup {k}
      BY <1>2, <3>2, CityGrows
    <3>5. IsFiniteSet(A \cup {k}) /\ Cardinality(A \cup {k}) = Cardinality(A) + 1
      BY <2>2, <3>1, FS_AddElement
    <3>6. Cardinality(B) <= Cardinality(A \cup {k}) /\ Cardinality(B) \in Nat
      BY <3>4, <3>5, FS_Subset, FS_CardinalityType
    <3> QED
      BY <2>2, <3>3, <3>5, <3>6, MoneyAssumption DEF c
  <2> QED
    BY <2>3, <2>4
<1> QED
  BY <1>1, <1>2

\* CITY_CAP holds under the same condition as the one bet per market.
THEOREM CityCapIsHeld == ASSUME SinglePlacer PROVE Spec => []CityCapHeld
<1>1. Init => CityInv
  <2> SUFFICES ASSUME Init PROVE CityInv
    OBVIOUS
  <2>1. \A w \in Worker : session[w].add = <<>>
    BY NoSessionFields DEF Init
  <2>2. CityFresh
    BY <2>1 DEF CityFresh
  <2>3. CityCapHeld
    BY DEF Init, CityCapHeld, OpenIds
  <2> QED
    BY <2>2, <2>3, OneInvInit DEF CityInv
<1>2. CityInv /\ [Next]_vars => CityInv'
  BY OneInvInductive, CityFreshInductive, CityCapInductive DEF CityInv
<1>3. CityInv => CityCapHeld
  BY DEF CityInv
<1> QED
  BY <1>1, <1>2, <1>3, PTL DEF Spec
=============================================================================
