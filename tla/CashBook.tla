------------------------------ MODULE CashBook ------------------------------
(* What the bet ledger promises its owner: an account on which positions    *)
(* are bought, for their cost or for the first part of it, and closed, each *)
(* for its cost plus its profit, one transaction after the other.  Nothing  *)
(* overdraws it, no position costs more than was paid for it, and none is   *)
(* closed twice.  A position bought in parts (split) is closed by the stake *)
(* it was meant to have, and a part may go unpaid when the cash is short.   *)
(* Jobs, sessions, rows of other kinds and prices are not part of it.       *)
EXTENDS Integers, Functions

VARIABLES
  initial,  \* what the account was opened with
  cash,
  open,     \* of each open position, what was paid, its stake, and if it is split
  closed    \* the profit or loss of each closed one

book == <<initial, cash, open, closed>>

Used == DOMAIN open \cup DOMAIN closed

Init ==
  /\ initial \in Nat
  /\ cash = initial
  /\ open = << >>
  /\ closed = << >>

\* A position is bought with money that is there.
Buy ==
  \E i \in DOMAIN open' \ Used :
    /\ DOMAIN open' = DOMAIN open \cup {i}
    /\ \A j \in DOMAIN open : open'[j] = open[j]
    /\ open'[i].paid \in 0 .. cash
    /\ open'[i].paid <= open'[i].stake + 1
    /\ cash' = cash - open'[i].paid
    /\ UNCHANGED <<initial, closed>>

Rise == [i \in DOMAIN open |-> open'[i].paid - open[i].paid]

\* More of some split positions is bought, never more than their stake (and a
\* cent of rounding).  What is not paid for costs more than there is left.
Fill ==
  /\ DOMAIN open' = DOMAIN open
  /\ \A i \in DOMAIN open :
       /\ open'[i] = [open[i] EXCEPT !.paid = open'[i].paid]
       /\ Rise[i] >= 0
       /\ Rise[i] > 0 => open[i].split /\ open'[i].paid <= open[i].stake + 1
  /\ LET owed == SumFunction(Rise)
     IN  /\ cash - cash' \in 0 .. owed
         /\ cash - cash' < owed => \E i \in DOMAIN open : Rise[i] > cash'
  /\ UNCHANGED <<initial, closed>>

\* A position is refused: it takes a number and no money.
Refuse ==
  \E i \in DOMAIN closed' \ Used :
    /\ DOMAIN closed' = DOMAIN closed \cup {i}
    /\ \A j \in DOMAIN closed : closed'[j] = closed[j]
    /\ closed'[i] = 0
    /\ UNCHANGED <<initial, cash, open>>

\* What closing a position brings apart from the profit booked for it.
Least(p) == IF p.split THEN p.paid - 2 ELSE p.paid
Most(p) ==
  LET marked == p.paid + p.paid \div 10 + 3
  IN  IF ~p.split THEN p.paid ELSE IF marked > p.stake THEN marked ELSE p.stake

\* Some positions are closed together; the loss on each is bounded too.
Close ==
  \E S \in (SUBSET DOMAIN open) \ {{}} :
    /\ DOMAIN open' = DOMAIN open \ S
    /\ \A j \in DOMAIN open' : open'[j] = open[j]
    /\ DOMAIN closed' = DOMAIN closed \cup S
    /\ \A j \in DOMAIN closed : closed'[j] = closed[j]
    /\ \A i \in S : closed'[i] >= -Most(open[i])
    /\ cash' - cash \in
         SumFunction([i \in S |-> Least(open[i]) + closed'[i]])
           .. SumFunction([i \in S |-> Most(open[i]) + closed'[i]])
    /\ UNCHANGED initial

\* The account is closed and another one opened.
Reset ==
  /\ open' = << >>
  /\ closed' = << >>
  /\ cash' = initial'

Next == Buy \/ Fill \/ Refuse \/ Close \/ Reset
Spec == Init /\ [][Next]_book
=============================================================================
