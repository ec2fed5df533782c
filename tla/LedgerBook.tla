----------------------------- MODULE LedgerBook -----------------------------
(* The ledger as a cash book: with the jobs one at a time, every commit is  *)
(* one entry of CashBook.                                                   *)
EXTENDS Ledger

Position(b) == [paid |-> Paid(b), stake |-> b.amount, split |-> b.ladder]

Book == INSTANCE CashBook WITH
  initial <- portfolio.initial,
  cash    <- portfolio.cash,
  open    <- [i \in OpenIds |-> Position(bets[i])],
  closed  <- [i \in DOMAIN bets \ OpenIds |-> bets[i].pnl]

\* Each commit of a job is one purchase, one refusal, one filling of rungs or
\* one closing of positions, paid and booked together, and a reset opens a
\* new account: what the sessions hold, and the order of their steps, cannot
\* be told from it.
KeepsTheBook == Book!Spec
=============================================================================
