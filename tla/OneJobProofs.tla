---------------------------- MODULE OneJobProofs ----------------------------
(***************************************************************************)
(* Theorems about the ledger when no job starts while another is running   *)
(* (Overlap = FALSE): what the jobs promise when they do not get into each *)
(* other's way.  The rows and the balance a session has loaded are then    *)
(* those in the tables until it commits (InTune), so that the facts a job  *)
(* begins with still hold when it ends.                                    *)
(***************************************************************************)
EXTENDS LedgerBook, LedgerProofs

OneJob == ~Overlap

OnlyOne == \A v, w \in Worker : ~Idle(v) /\ ~Idle(w) => v = w
Blank   == \A w \in Worker : Idle(w) => session[w] = NoSession

\* A session that has loaded nothing: idle, or between two analyses.
Fresh(s) == \E queue \in SUBSET Nat : s = AfterPlace(queue)

LEMMA NoSessionFresh == Fresh(NoSession)
  BY DEF Fresh, AfterPlace

\* What a step of a job does to the sessions: one of them changes, and it was
\* the one at work or all were idle.
Turn(w) ==
  /\ Alone(w)
  /\ \A v \in Worker \ {w} : Idle(v)

LEMMA SessionChanged ==
  ASSUME TypeOK, NEW w \in Worker, NEW s, Become(w, s)
  PROVE  Alone(w) /\ session'[w] = s
  BY DEF TypeOK, Become, Alone

LEMMA TurnTaken ==
  ASSUME OneJob, TypeOK, OnlyOne, NEW w \in Worker,
         Begin(w) \/ Place(w) \/ Settle(w) \/ Money(w) \/ End(w)
  PROVE  Turn(w)
<1>1. Alone(w)
  <2>1. \E s : Become(w, s)
    BY DEF Begin, PlaceBegin, UpdateBegin, RiskBegin, SettleBegin, CleanupBegin,
           Place, PlaceSkip, PlaceReject, PlaceAdmit, PlaceDebit,
           Settle, SettleExpire, SettleAsk, SettlePending, SettleAnswer,
           Money, UpdateDebit, PostCredit, End, Commit, Rollback
  <2> QED
    BY <2>1, SessionChanged, Zenon
<1>2. CASE Begin(w)
  BY <1>1, <1>2 DEF Begin, PlaceBegin, UpdateBegin, RiskBegin, SettleBegin, CleanupBegin,
     MayStart, OneJob, Turn
<1>3. CASE Place(w) \/ Settle(w) \/ Money(w) \/ End(w)
  <2>1. ~Idle(w)
    BY <1>3 DEF Place, PlaceSkip, PlaceReject, PlaceAdmit, PlaceDebit, Idle, At,
           Settle, SettleExpire, SettleAsk, SettlePending, SettleAnswer,
           Money, UpdateDebit, PostCredit, End, Commit, Rollback, Finished
  <2> QED
    BY <1>1, <2>1, Zenon DEF OnlyOne, Turn
<1> QED
  BY <1>2, <1>3

\* The job that ends, or turns to the next analysis, forgets what it held.
LEMMA EndFresh ==
  ASSUME TypeOK, NEW w \in Worker, PlaceSkip(w) \/ PlaceReject(w) \/ End(w) \/ PlaceBegin(w)
  PROVE  Fresh(session'[w])
<1>1. session[w].queue \in SUBSET Nat
  BY QueueType
<1>2. CASE PlaceSkip(w)
  <2>1. PICK id : Become(w, AfterPlace(session[w].queue \ {id}))
    BY <1>2 DEF PlaceSkip
  <2> QED
    BY <1>1, <2>1, SessionChanged DEF Fresh
<1>3. CASE PlaceReject(w)
  <2>1. PICK id : Become(w, AfterPlace(session[w].queue \ {id}))
    BY <1>3 DEF PlaceReject
  <2> QED
    BY <1>1, <2>1, SessionChanged DEF Fresh
<1>4. CASE End(w)
  <2>1. Become(w, AfterPlace(IF session[w].job = "place" THEN session[w].queue ELSE {}))
    BY <1>4 DEF End, Commit, Rollback, AfterSession
  <2> QED
    BY <1>1, <2>1, SessionChanged DEF Fresh
<1>5. CASE PlaceBegin(w)
  <2>1. Become(w, AfterPlace(Pending))
    BY <1>5 DEF PlaceBegin, AfterPlace
  <2>2. Pending \in SUBSET Nat
    BY DEF Pending, TypeOK, Analysis
  <2> QED
    BY <2>1, <2>2, SessionChanged DEF Fresh
<1> QED
  BY <1>2, <1>3, <1>4, <1>5

\* What the jobs and requests write to.
Tables == <<portfolio, bets, markets>>

\* Whenever a table changes, every session is fresh afterwards.
LEMMA WritesLast ==
  ASSUME OneJob, TypeOK, OnlyOne, Blank, Next, ~UNCHANGED Tables, NEW v \in Worker
  PROVE  Fresh(session'[v])
<1>1. CASE ResetApi \/ ResetCli
  BY <1>1, NoSessionFresh DEF ResetApi, ResetCli, ResetAllowed, OneJob, Blank
<1>2. ASSUME NEW w \in Worker, Fetch(w) \/ Analyze(w)
      PROVE  Fresh(session'[v])
  BY <1>2, NoSessionFresh DEF Fetch, Analyze, MayStart, OneJob, Blank
<1>3. ASSUME NEW w \in Worker, PlaceReject(w) \/ End(w)
      PROVE  Fresh(session'[v])
  <2>1. Turn(w)
    BY <1>3, TurnTaken DEF Place
  <2>2. Fresh(session'[w])
    BY <1>3, EndFresh
  <2>3. v # w => session'[v] = NoSession
    BY <2>1, Zenon DEF Turn, Alone, Blank
  <2> QED
    BY <2>2, <2>3, NoSessionFresh
<1>4. ASSUME NEW w \in Worker, Begin(w) \/ Settle(w) \/ Money(w)
                               \/ PlaceSkip(w) \/ PlaceAdmit(w) \/ PlaceDebit(w)
      PROVE  FALSE
  BY <1>4 DEF Begin, PlaceBegin, UpdateBegin, RiskBegin, SettleBegin, CleanupBegin,
           PlaceSkip, PlaceAdmit, PlaceDebit, Tables, database,
           Settle, SettleExpire, SettleAsk, SettlePending, SettleAnswer,
           Money, UpdateDebit, PostCredit
<1>5. ~NextDay
  BY DEF NextDay, Tables, database
<1> QED
  BY <1>1, <1>2, <1>3, <1>4, <1>5 DEF Next, Place

LEMMA OnlyOneInit == Init => OnlyOne /\ Blank
  BY DEF Init, OnlyOne, Blank, Idle, NoSession

-----------------------------------------------------------------------------
(* The steps of a session, field by field.                                  *)


\* A session that has just loaded the rows ids.
LoadedBy(n, job, ids, mine, todo, bill) ==
  /\ n.job = job /\ n.step = "run" /\ n.add = <<>> /\ n.due = {}
  /\ n.base = NoCash /\ n.purse = NoCash /\ n.status = NoSession.status
  /\ n.seen = Load(ids) /\ n.mine = mine /\ n.todo = todo /\ n.bill = bill


AllOpen    == OpenIds \cap BetId
Fills(i)   == NewFills(bets[i], MarkOf(bets[i]))
Filled(i)  == [bets[i] EXCEPT !.filled = @ \cup Fills(i)]
FillCost(i) == RungsCost(bets[i], Fills(i))
FilledRows == [i \in BetId |-> IF i \in AllOpen THEN Filled(i) ELSE NoRow]
FillBill   == [i \in BetId |-> IF i \in AllOpen THEN FillCost(i) ELSE 0]

LEMMA UpdateLoads ==
  ASSUME TypeOK, NEW w \in Worker, UpdateBegin(w)
  PROVE  LoadedBy(session'[w], "update", AllOpen, FilledRows,
                  {i \in AllOpen : Fills(i) # {}}, FillBill)
<1> DEFINE mine == FilledRows
           todo == {i \in AllOpen : Fills(i) # {}}
           bill == FillBill
           n    == [NoSession EXCEPT !.queue = NoSession.queue, !.job = "update", !.seen = Load(AllOpen),
                                     !.mine = mine, !.todo = todo, !.bill = bill]
<1>1. Become(w, [NoSession EXCEPT !.job = "update", !.seen = Load(AllOpen),
                                  !.mine = mine, !.todo = todo, !.bill = bill])
  BY DEF UpdateBegin, AllOpen, Fills, Filled, FillCost, FilledRows, FillBill
<1> HIDE DEF mine, todo, bill
<1>2. Become(w, n)
  BY <1>1 DEF NoSession
<1>3. session'[w] = n
  BY <1>2, SessionChanged
<1>4. LoadedBy(n, "update", AllOpen, mine, todo, bill)
  BY DEF LoadedBy, NoSession
<1> HIDE DEF n
<1> QED
  BY <1>3, <1>4 DEF mine, todo, bill

Exits     == {i \in AllOpen : EarlyExit(bets[i], RiskMark(bets[i]))}
Risked(i) == [bets[i] EXCEPT
                !.peak   = PeakAfter(bets[i], RiskMark(bets[i])),
                !.status = IF i \in Exits THEN "closed_early" ELSE @,
                !.pnl    = IF i \in Exits THEN SalePnl(bets[i], RiskMark(bets[i])) ELSE @]
Proceeds(i) == SaleProceeds(bets[i], RiskMark(bets[i]))
RiskedRows == [i \in BetId |-> IF i \in AllOpen THEN Risked(i) ELSE NoRow]
SaleBill   == [i \in BetId |-> IF i \in Exits THEN Proceeds(i) ELSE 0]

LEMMA RiskLoads ==
  ASSUME TypeOK, NEW w \in Worker, RiskBegin(w)
  PROVE  LoadedBy(session'[w], "risk", AllOpen, RiskedRows, Exits, SaleBill)
<1> DEFINE mine == RiskedRows
           bill == SaleBill
           n    == [NoSession EXCEPT !.queue = NoSession.queue, !.job = "risk", !.seen = Load(AllOpen),
                                     !.mine = mine, !.todo = Exits, !.bill = bill]
<1>1. Become(w, [NoSession EXCEPT !.job = "risk", !.seen = Load(AllOpen),
                                  !.mine = mine, !.todo = Exits, !.bill = bill])
  BY DEF RiskBegin, AllOpen, Exits, Risked, Proceeds, RiskedRows, SaleBill
<1> HIDE DEF mine, bill, Exits
<1>2. Become(w, n)
  BY <1>1 DEF NoSession
<1>3. session'[w] = n
  BY <1>2, SessionChanged
<1>4. LoadedBy(n, "risk", AllOpen, mine, Exits, bill)
  BY DEF LoadedBy, NoSession
<1> HIDE DEF n
<1> QED
  BY <1>3, <1>4 DEF mine, bill

Stale        == {i \in AllOpen : bets[i].on < day}
Cancelled(i) == [bets[i] EXCEPT !.status = "cancelled"]
PaidFor(i)   == Paid(bets[i])
CancelledRows == [i \in BetId |-> IF i \in Stale THEN Cancelled(i) ELSE NoRow]
RefundBill    == [i \in BetId |-> IF i \in Stale THEN PaidFor(i) ELSE 0]

LEMMA CleanupLoads ==
  ASSUME TypeOK, NEW w \in Worker, CleanupBegin(w)
  PROVE  LoadedBy(session'[w], "cleanup", Stale, CancelledRows, Stale, RefundBill)
<1> DEFINE mine  == CancelledRows
           bill  == RefundBill
           queue == {a.id : a \in {b \in analyses : b.on < day}}
           n    == [NoSession EXCEPT !.queue = queue, !.job = "cleanup", !.seen = Load(Stale),
                                     !.mine = mine, !.todo = Stale, !.bill = bill]
<1>1. Become(w, n)
  BY DEF CleanupBegin, AllOpen, Stale, Cancelled, PaidFor, CancelledRows, RefundBill
<1> HIDE DEF mine, bill, Stale, queue
<1>3. session'[w] = n
  BY <1>1, SessionChanged
<1>4. LoadedBy(n, "cleanup", Stale, mine, Stale, bill)
  BY DEF LoadedBy, NoSession
<1> HIDE DEF n
<1> QED
  BY <1>3, <1>4 DEF mine, bill

LEMMA SettleBegins ==
  ASSUME TypeOK, NEW w \in Worker, SettleBegin(w)
  PROVE  LET n == session'[w] IN
         /\ n.job = "settle" /\ n.step = "run" /\ n.add = <<>> /\ n.todo = {}
         /\ n.base = NoCash /\ n.purse = NoCash /\ n.status = NoSession.status
         /\ n.seen = NoSession.seen /\ n.mine = NoSession.mine
<1> DEFINE ready == {m \in Market : markets[m].status \in {"open", "bet_placed"} /\ Due(m)}
           n     == [NoSession EXCEPT !.job = "settle", !.due = ready]
<1>1. Become(w, n)
  BY DEF SettleBegin
<1> HIDE DEF ready
<1>2. session'[w] = n
  BY <1>1, SessionChanged
<1> QED
  BY <1>2 DEF NoSession

\* The row that place_bet is about to insert, as the caps saw it.
Admitted(n, a, accepted) ==
  /\ n.job = "place" /\ n.step = "debit"
  /\ n.add = <<NewBet(a, Stake(a), IF accepted THEN "placed" ELSE "failed")>>
  /\ n.base = NoCash /\ n.purse = NoCash /\ n.todo = {} /\ n.due = {}
  /\ n.seen = NoSession.seen /\ n.mine = NoSession.mine
  /\ n.status = [NoSession.status EXCEPT ![a.market] =
                   IF accepted /\ markets[a.market].status # "bet_placed"
                     THEN "bet_placed" ELSE "kept"]

LEMMA PlaceAdmits ==
  ASSUME TypeOK, NEW w \in Worker, PlaceAdmit(w)
  PROVE  \E a \in analyses, accepted \in IF Live THEN BOOLEAN ELSE {TRUE} :
           /\ Admitted(session'[w], a, accepted)
           /\ ~NotTradable(a.market) /\ ~OverExposed(Stake(a)) /\ ~CityFull(a.market)
           /\ a.id \in session[w].queue
           /\ session'[w].queue = session[w].queue \ {a.id}
<1>1. PICK a \in analyses, accepted \in IF Live THEN BOOLEAN ELSE {TRUE} :
        /\ First(a.id, session[w].queue)
        /\ ~NotTradable(a.market)
        /\ ~OverExposed(Stake(a)) /\ ~CityFull(a.market)
        /\ Become(w, [NoSession EXCEPT
               !.job = "place", !.step = "debit", !.queue = session[w].queue \ {a.id},
               !.add = <<NewBet(a, Stake(a), IF accepted THEN "placed" ELSE "failed")>>,
               !.status = [NoSession.status EXCEPT ![a.market] =
                 IF accepted /\ markets[a.market].status # "bet_placed"
                   THEN "bet_placed" ELSE "kept"]])
  BY DEF PlaceAdmit
<1> DEFINE add    == <<NewBet(a, Stake(a), IF accepted THEN "placed" ELSE "failed")>>
           queue  == session[w].queue \ {a.id}
           status == [NoSession.status EXCEPT ![a.market] =
                 IF accepted /\ markets[a.market].status # "bet_placed"
                   THEN "bet_placed" ELSE "kept"]
           n == [NoSession EXCEPT !.job = "place", !.step = "debit", !.queue = queue,
                                  !.add = add, !.status = status]
<1>2. session'[w] = n
  BY <1>1, SessionChanged
<1>3. /\ n.job = "place" /\ n.step = "debit" /\ n.add = add
      /\ n.base = NoCash /\ n.purse = NoCash /\ n.todo = {} /\ n.due = {}
      /\ n.seen = NoSession.seen /\ n.mine = NoSession.mine /\ n.status = status
      /\ n.queue = queue
  <2> HIDE DEF add, status, queue
  <2> QED
    BY DEF NoSession
<1>4. Admitted(session'[w], a, accepted)
  BY <1>2, <1>3 DEF Admitted
<1>5. session'[w].queue = queue /\ a.id \in session[w].queue
  BY <1>1, <1>2, <1>3 DEF First
<1> HIDE DEF n, add, status
<1> QED
  BY <1>1, <1>4, <1>5

\* The stake debited, or the row failed: the rest of the session is as it was.
LEMMA PlaceDebits ==
  ASSUME TypeOK, NEW w \in Worker, PlaceDebit(w)
  PROVE  LET s == session[w]
             n == session'[w]
             cost == Paid(s.add[1])
         IN  /\ s.job = "place" /\ s.step = "debit"
             /\ n.job = s.job /\ n.step = "commit" /\ n.todo = s.todo /\ n.due = s.due
             /\ n.seen = s.seen /\ n.mine = s.mine /\ n.status = s.status /\ n.queue = s.queue
             /\ Len(n.add) = 1
             /\ IF Purse(s) < cost
                  THEN /\ n.add[1] = [s.add[1] EXCEPT !.status = "failed"]
                       /\ n.base = s.base /\ n.purse = s.purse
                  ELSE /\ n.add[1] = s.add[1]
                       /\ n.base = Base(s) /\ n.purse = Purse(s) - cost
<1> DEFINE s == session[w]
           cost == Paid(s.add[1])
           t == DebitStake(s, cost)
           status == IF Purse(s) < cost THEN "failed" ELSE t.add[1].status
           n == [t EXCEPT !.step = "commit",
                    !.add[1].status = IF Purse(s) < cost THEN "failed" ELSE @]
<1>1. s \in Session /\ s.job = "place" /\ s.step = "debit" /\ Sound(s)
  BY DEF TypeOK, PlaceDebit, At
<1>2. /\ t.seen = s.seen /\ t.add = s.add /\ t.job = s.job /\ t.mine = s.mine /\ t.todo = s.todo
      /\ t.status = s.status /\ t.due = s.due /\ t.queue = s.queue
      /\ DOMAIN t = DOMAIN s
      /\ t.base = IF Purse(s) < cost THEN s.base ELSE Base(s)
      /\ t.purse = IF Purse(s) < cost THEN s.purse ELSE Purse(s) - cost
  <2> HIDE DEF cost
  <2> QED BY <1>1 DEF DebitStake, Session
<1>3. /\ n.seen = t.seen /\ n.job = t.job /\ n.mine = t.mine /\ n.todo = t.todo
      /\ n.status = t.status /\ n.due = t.due /\ n.base = t.base /\ n.purse = t.purse
      /\ n.queue = t.queue
      /\ n.step = "commit"
      /\ n.add = [t.add EXCEPT ![1].status = status]
  <2> HIDE DEF t, cost
  <2> QED BY <1>1, <1>2 DEF Session
<1>4. session'[w] = n
  <2>1. Become(w, n)
    BY DEF PlaceDebit
  <2> QED
    BY <2>1, SessionChanged
<1>5. s.add \in Seq(Bet) /\ Len(s.add) = 1 /\ s.add[1] \in Bet
  BY <1>1 DEF Sound, Session
<1>6. Len(n.add) = 1 /\ n.add[1] = [s.add[1] EXCEPT !.status = status]
  <2> HIDE DEF n, t, status
  <2> QED BY <1>2, <1>3, <1>5
<1>7. ~(Purse(s) < cost) => n.add[1] = s.add[1]
  <2>1. ~(Purse(s) < cost) => status = s.add[1].status
    <3> HIDE DEF t, cost
    <3> QED BY <1>2
  <2> HIDE DEF n, status
  <2> QED BY <1>5, <1>6, <2>1 DEF Bet
<1>8. Purse(s) < cost => n.add[1] = [s.add[1] EXCEPT !.status = "failed"]
  <2> HIDE DEF n
  <2> QED BY <1>6
<1> HIDE DEF n, t, cost, status
<1> QED
  BY <1>1, <1>2, <1>3, <1>4, <1>6, <1>7, <1>8 DEF cost

\* What no step of a settlement but the answer, and no movement of money,
\* touches.
Rest(n, s) == n.job = s.job /\ n.add = s.add

LEMMA SettleExpires ==
  ASSUME TypeOK, NEW w \in Worker, SettleExpire(w)
  PROVE  LET s == session[w]
             n == session'[w]
         IN  \E m \in s.due :
               /\ OpenIn(m) = {}
               /\ s.job = "settle" /\ s.step = "run" /\ s.todo = {}
               /\ Rest(n, s) /\ n.step = s.step /\ n.todo = s.todo /\ n.due = s.due \ {m}
               /\ n.seen = s.seen /\ n.mine = s.mine /\ n.bill = s.bill
               /\ n.base = s.base /\ n.purse = s.purse
               /\ n.status = [s.status EXCEPT ![m] = "expired"]
<1> DEFINE s == session[w]
<1>1. s \in Session
  BY DEF TypeOK
<1>2. PICK m \in s.due :
        /\ OpenIn(m) = {}
        /\ Become(w, [s EXCEPT !.due = @ \ {m}, !.status[m] = "expired"])
  BY DEF SettleExpire
<1> DEFINE n == [s EXCEPT !.due = @ \ {m}, !.status[m] = "expired"]
<1>3. session'[w] = n
  BY <1>2, SessionChanged
<1>4. /\ Rest(n, s) /\ n.step = s.step /\ n.todo = s.todo /\ n.due = s.due \ {m}
      /\ n.seen = s.seen /\ n.mine = s.mine /\ n.bill = s.bill
      /\ n.base = s.base /\ n.purse = s.purse
      /\ n.status = [s.status EXCEPT ![m] = "expired"]
  BY <1>1 DEF Session, Rest
<1>5. s.job = "settle" /\ s.step = "run" /\ s.todo = {}
  BY DEF SettleExpire, At
<1> HIDE DEF n
<1> QED
  BY <1>2, <1>3, <1>4, <1>5

LEMMA SettleAsks ==
  ASSUME TypeOK, NEW w \in Worker, SettleAsk(w)
  PROVE  LET s == session[w]
             n == session'[w]
         IN  \E m \in s.due :
               LET ids == OpenIn(m) \cap BetId IN
               /\ s.job = "settle" /\ s.step = "run" /\ s.todo = {}
               /\ Rest(n, s) /\ n.step = "ask" /\ n.todo = ids /\ n.due = s.due \ {m}
               /\ n.seen = [i \in BetId |-> IF i \in ids THEN bets[i] ELSE s.seen[i]]
               /\ n.mine = [i \in BetId |-> IF i \in ids THEN bets[i] ELSE s.mine[i]]
               /\ n.bill = s.bill /\ n.base = s.base /\ n.purse = s.purse
               /\ n.status = s.status
<1> DEFINE s == session[w]
<1>1. s \in Session
  BY DEF TypeOK
<1>2. PICK m \in s.due :
          Become(w, [s EXCEPT
               !.step = "ask", !.due = @ \ {m}, !.todo = OpenIn(m) \cap BetId,
               !.seen = [i \in BetId |-> IF i \in OpenIn(m) \cap BetId THEN bets[i] ELSE @[i]],
               !.mine = [i \in BetId |-> IF i \in OpenIn(m) \cap BetId THEN bets[i] ELSE @[i]]])
  BY DEF SettleAsk
<1> DEFINE ids  == OpenIn(m) \cap BetId
           seen == [i \in BetId |-> IF i \in ids THEN bets[i] ELSE s.seen[i]]
           mine == [i \in BetId |-> IF i \in ids THEN bets[i] ELSE s.mine[i]]
           n    == [s EXCEPT !.step = "ask", !.due = @ \ {m}, !.todo = ids,
                             !.seen = seen, !.mine = mine]
<1>3. Become(w, n)
  <2>1. [s EXCEPT
               !.step = "ask", !.due = @ \ {m}, !.todo = OpenIn(m) \cap BetId,
               !.seen = [i \in BetId |-> IF i \in OpenIn(m) \cap BetId THEN bets[i] ELSE @[i]],
               !.mine = [i \in BetId |-> IF i \in OpenIn(m) \cap BetId THEN bets[i] ELSE @[i]]] = n
    BY <1>1 DEF Session
  <2> QED
    BY <1>2, <2>1
<1>4. session'[w] = n
  BY <1>3, SessionChanged
<1>5. /\ Rest(n, s) /\ n.step = "ask" /\ n.todo = ids /\ n.due = s.due \ {m}
      /\ n.seen = seen /\ n.mine = mine
      /\ n.bill = s.bill /\ n.base = s.base /\ n.purse = s.purse
      /\ n.status = s.status
  <2> HIDE DEF seen, mine, ids
  <2> QED BY <1>1 DEF Session, Rest
<1>6. s.job = "settle" /\ s.step = "run" /\ s.todo = {}
  BY DEF SettleAsk, At
<1> HIDE DEF n
<1> QED
  BY <1>2, <1>4, <1>5, <1>6

LEMMA SettlePends ==
  ASSUME TypeOK, NEW w \in Worker, SettlePending(w)
  PROVE  LET s == session[w]
             n == session'[w]
         IN  /\ s.job = "settle" /\ s.step = "ask"
             /\ Rest(n, s) /\ n.step = "run" /\ n.todo = {} /\ n.due = s.due
             /\ n.seen = [i \in BetId |-> IF i \in s.todo THEN NoRow ELSE s.seen[i]]
             /\ n.mine = [i \in BetId |-> IF i \in s.todo THEN NoRow ELSE s.mine[i]]
             /\ n.bill = s.bill /\ n.base = s.base /\ n.purse = s.purse
             /\ n.status = s.status
<1> DEFINE s == session[w]
           seen == [i \in BetId |-> IF i \in s.todo THEN NoRow ELSE s.seen[i]]
           mine == [i \in BetId |-> IF i \in s.todo THEN NoRow ELSE s.mine[i]]
           n    == [s EXCEPT !.step = "run", !.todo = {}, !.seen = seen, !.mine = mine]
<1>1. s \in Session
  BY DEF TypeOK
<1>2. Become(w, n)
  <2>1. [s EXCEPT
          !.step = "run", !.todo = {},
          !.seen = [i \in BetId |-> IF i \in s.todo THEN NoRow ELSE @[i]],
          !.mine = [i \in BetId |-> IF i \in s.todo THEN NoRow ELSE @[i]]] = n
    BY <1>1 DEF Session
  <2> QED
    BY <2>1 DEF SettlePending
<1>3. session'[w] = n
  BY <1>2, SessionChanged
<1>4. /\ Rest(n, s) /\ n.step = "run" /\ n.todo = {} /\ n.due = s.due
      /\ n.seen = seen /\ n.mine = mine
      /\ n.bill = s.bill /\ n.base = s.base /\ n.purse = s.purse
      /\ n.status = s.status
  <2> HIDE DEF seen, mine
  <2> QED BY <1>1 DEF Session, Rest
<1>5. s.job = "settle" /\ s.step = "ask"
  BY DEF SettlePending, At
<1> HIDE DEF n
<1> QED
  BY <1>3, <1>4, <1>5

\* A row won or lost.
Decided(b, outcome) ==
  [b EXCEPT !.status = IF b.side = outcome THEN "won" ELSE "lost",
            !.pnl = SettlementPnl(b, outcome, FeePct)]

LEMMA SettleAnswers ==
  ASSUME TypeOK, NEW w \in Worker, SettleAnswer(w)
  PROVE  LET s == session[w]
             n == session'[w]
         IN  \E outcome \in Side, i0 \in s.todo :
               /\ s.job = "settle" /\ s.step = "ask"
               /\ Rest(n, s) /\ n.step = "run" /\ n.todo = s.todo /\ n.due = s.due
               /\ n.seen = s.seen
               /\ n.mine = [i \in BetId |-> IF i \in s.todo THEN Decided(s.mine[i], outcome)
                                                            ELSE s.mine[i]]
               /\ n.bill = [i \in BetId |-> IF i \in s.todo
                              THEN SettlementCredit(s.mine[i], outcome, FeePct) ELSE 0]
               /\ n.base = s.base /\ n.purse = s.purse
               /\ n.status = [s.status EXCEPT ![s.mine[i0].market] =
                                IF outcome = "YES" THEN "settled_win" ELSE "settled_loss"]
<1> DEFINE s == session[w]
<1>1. s \in Session
  BY DEF TypeOK
<1>2. PICK outcome \in Side, i0 \in s.todo :
          Become(w, [s EXCEPT
            !.step = "run",
            !.status[s.mine[i0].market] = IF outcome = "YES" THEN "settled_win" ELSE "settled_loss",
            !.bill = [i \in BetId |-> IF i \in s.todo
                        THEN SettlementCredit(s.mine[i], outcome, FeePct) ELSE 0],
            !.mine = [i \in BetId |-> IF i \in s.todo THEN Decided(s.mine[i], outcome) ELSE s.mine[i]]])
  BY DEF SettleAnswer, Decided
<1> DEFINE m     == s.mine[i0].market
           final == IF outcome = "YES" THEN "settled_win" ELSE "settled_loss"
           bill  == [i \in BetId |-> IF i \in s.todo
                       THEN SettlementCredit(s.mine[i], outcome, FeePct) ELSE 0]
           mine  == [i \in BetId |-> IF i \in s.todo THEN Decided(s.mine[i], outcome) ELSE s.mine[i]]
           n     == [s EXCEPT !.step = "run", !.status[m] = final, !.bill = bill, !.mine = mine]
<1>3. session'[w] = n
  BY <1>2, SessionChanged
<1>4. /\ Rest(n, s) /\ n.step = "run" /\ n.todo = s.todo /\ n.due = s.due
      /\ n.seen = s.seen /\ n.mine = mine /\ n.bill = bill
      /\ n.base = s.base /\ n.purse = s.purse
      /\ n.status = [s.status EXCEPT ![m] = final]
  <2> HIDE DEF m, final, bill, mine
  <2> QED BY <1>1 DEF Session, Rest
<1>5. s.job = "settle" /\ s.step = "ask"
  BY DEF SettleAnswer, At
<1> HIDE DEF n
<1> QED
  BY <1>2, <1>3, <1>4, <1>5

\* One debit or credit, and one row less to do.
Still(n, s) ==
  /\ Rest(n, s) /\ n.step = s.step /\ n.due = s.due /\ n.seen = s.seen /\ n.mine = s.mine
  /\ n.bill = s.bill /\ n.status = s.status

LEMMA UpdateDebits ==
  ASSUME TypeOK, NEW w \in Worker, UpdateDebit(w)
  PROVE  LET s == session[w]
             n == session'[w]
         IN  \E i \in s.todo :
               /\ s.job = "update" /\ s.step = "run"
               /\ Still(n, s) /\ n.todo = s.todo \ {i}
               /\ IF Purse(s) < s.bill[i]
                    THEN n.base = s.base /\ n.purse = s.purse
                    ELSE n.base = Base(s) /\ n.purse = Purse(s) - s.bill[i]
<1> DEFINE s == session[w]
<1>1. s \in Session
  BY DEF TypeOK
<1>2. PICK i \in s.todo : Become(w, [DebitStake(s, s.bill[i]) EXCEPT !.todo = @ \ {i}])
  BY DEF UpdateDebit
<1> DEFINE n == [DebitStake(s, s.bill[i]) EXCEPT !.todo = @ \ {i}]
<1>3. session'[w] = n
  BY <1>2, SessionChanged
<1>4. s.job = "update" /\ s.step = "run"
  BY DEF UpdateDebit, At
<1>5. CASE Purse(s) < s.bill[i]
  BY <1>1, <1>2, <1>3, <1>4, <1>5 DEF DebitStake, Session, Rest, Still
<1>6. CASE ~(Purse(s) < s.bill[i])
  <2> DEFINE base == Base(s)
             purse == Purse(s) - s.bill[i]
  <2>1. n = [s EXCEPT !.base = base, !.purse = purse, !.todo = s.todo \ {i}]
    <3>1. DebitStake(s, s.bill[i]) = [s EXCEPT !.base = base, !.purse = purse]
      BY <1>6 DEF DebitStake
    <3> HIDE DEF base, purse
    <3> QED
      BY <1>1, <3>1 DEF Session
  <2>2. Still(n, s) /\ n.todo = s.todo \ {i} /\ n.base = base /\ n.purse = purse
    <3> HIDE DEF base, purse, n
    <3> QED
      BY <1>1, <2>1 DEF Session, Rest, Still
  <2> HIDE DEF n
  <2> QED
    BY <1>2, <1>3, <1>4, <1>6, <2>2
<1> QED
  BY <1>5, <1>6

LEMMA CreditPosts ==
  ASSUME TypeOK, NEW w \in Worker, PostCredit(w)
  PROVE  LET s == session[w]
             n == session'[w]
         IN  \E i \in s.todo :
               /\ s.job \in {"risk", "settle", "cleanup"} /\ s.step = "run"
               /\ Still(n, s) /\ n.todo = s.todo \ {i}
               /\ n.base = Base(s) /\ n.purse = Purse(s) + s.bill[i]
<1> DEFINE s == session[w]
<1>1. s \in Session
  BY DEF TypeOK
<1>2. PICK i \in s.todo : Become(w, [Credit(s, s.bill[i]) EXCEPT !.todo = @ \ {i}])
  BY DEF PostCredit
<1> DEFINE n == [Credit(s, s.bill[i]) EXCEPT !.todo = @ \ {i}]
           base == Base(s)
           purse == Purse(s) + s.bill[i]
<1>3. session'[w] = n
  BY <1>2, SessionChanged
<1>4. s.job \in {"risk", "settle", "cleanup"} /\ s.step = "run"
  BY DEF PostCredit
<1>5. n = [s EXCEPT !.base = base, !.purse = purse, !.todo = s.todo \ {i}]
  <2>1. Credit(s, s.bill[i]) = [s EXCEPT !.base = base, !.purse = purse]
    BY DEF Credit
  <2> HIDE DEF base, purse
  <2> QED
    BY <1>1, <2>1 DEF Session
<1>6. Still(n, s) /\ n.todo = s.todo \ {i} /\ n.base = base /\ n.purse = purse
  <2> HIDE DEF base, purse, n
  <2> QED
    BY <1>1, <1>5 DEF Session, Rest, Still
<1> HIDE DEF n
<1> QED
  BY <1>2, <1>3, <1>4, <1>6
-----------------------------------------------------------------------------
LEMMA OnlyOneInductive ==
  ASSUME OneJob
  PROVE  TypeOK /\ OnlyOne /\ Blank /\ [Next]_vars => (OnlyOne /\ Blank)'
<1> SUFFICES ASSUME TypeOK, OnlyOne, Blank, [Next]_vars PROVE (OnlyOne /\ Blank)'
  OBVIOUS
<1>1. CASE session' = session
  BY <1>1 DEF OnlyOne, Blank, Idle
<1>2. ASSUME NEW w \in Worker, Begin(w) \/ Place(w) \/ Settle(w) \/ Money(w) \/ End(w)
      PROVE  (OnlyOne /\ Blank)'
  <2>1. Turn(w)
    BY <1>2, TurnTaken
  <2>2. \A v \in Worker \ {w} : session'[v] = NoSession
    BY <2>1 DEF Turn, Alone, Blank
  <2>3. session'[w].job = "idle" => session'[w] = NoSession
    <3>1. CASE Fresh(session'[w])
      BY <3>1 DEF Fresh, AfterPlace, NoSession
    <3>2. CASE Begin(w) /\ ~PlaceBegin(w)
      BY <3>2, UpdateLoads, RiskLoads, CleanupLoads, SettleBegins DEF Begin, LoadedBy
    <3>3. CASE PlaceAdmit(w) \/ PlaceDebit(w)
      BY <3>3, PlaceAdmits, PlaceDebits DEF Admitted
    <3>4. CASE Settle(w) \/ Money(w)
      BY <3>4, SettleExpires, SettleAsks, SettlePends, SettleAnswers, UpdateDebits, CreditPosts
         DEF Settle, Money, Rest, Still
    <3> QED
      BY <1>2, <3>1, <3>2, <3>3, <3>4, EndFresh DEF Place, Begin
  <2>4. \A v \in Worker \ {w} : session'[v].job = "idle"
    BY <2>2 DEF NoSession
  <2>5. Blank'
    BY <2>2, <2>3, <2>4 DEF Blank, Idle
  <2>6. OnlyOne'
    BY <2>4 DEF OnlyOne, Idle
  <2> QED
    BY <2>5, <2>6
<1> QED
  BY <1>1, <1>2 DEF Next, vars, Fetch, Analyze, ResetApi, ResetCli, NextDay
-----------------------------------------------------------------------------
(* The copies a session holds are still those in the tables.                *)

\* Two states of one row: the columns no job writes.
Kin(b, c) ==
  /\ b.market = c.market /\ b.analysis = c.analysis /\ b.on = c.on
  /\ b.side = c.side /\ b.amount = c.amount /\ b.entry = c.entry /\ b.ladder = c.ladder

InTune(s) ==
  /\ \A i \in BetId : s.seen[i] # NoRow =>
       /\ i \in DOMAIN bets /\ bets[i] = s.seen[i]
       /\ Kin(s.mine[i], s.seen[i])
       /\ s.seen[i].market \notin s.due
  /\ s.purse # NoCash => s.base = portfolio.cash
  /\ \A i \in s.todo : s.seen[i] # NoRow
  /\ s.step = "ask" => s.job = "settle" /\ \A i \in s.todo : s.mine[i] = s.seen[i]
  /\ s.job = "place" => \A i \in BetId : s.seen[i] = NoRow
  /\ IF s.step \in {"debit", "commit"} THEN s.job = "place" /\ Len(s.add) = 1
                                       ELSE s.add = <<>>

\* One job at a time, and in tune with the tables.
Calm ==
  /\ TypeOK /\ LoadedOpen
  /\ OnlyOne /\ Blank
  /\ \A w \in Worker : InTune(session[w])

\* What a fresh session holds: nothing.
LEMMA FreshFields ==
  ASSUME NEW s, Fresh(s)
  PROVE  /\ s.step = "run" /\ s.job \in {"idle", "place"}
         /\ s.due = {} /\ s.todo = {} /\ s.add = <<>>
         /\ s.base = NoCash /\ s.purse = NoCash
         /\ s.bill = [i \in BetId |-> 0]
         /\ s.seen = [i \in BetId |-> NoRow] /\ s.mine = [i \in BetId |-> NoRow]
         /\ s.status = [m \in Market |-> "kept"]
  BY DEF Fresh, AfterPlace, NoSession

\* The rows a job begins with are kin to the rows of the table.
LEMMA RowsKin ==
  ASSUME TypeOK, NEW i \in OpenIds
  PROVE  Kin(Filled(i), bets[i]) /\ Kin(Risked(i), bets[i]) /\ Kin(Cancelled(i), bets[i])
<1>1. bets[i] \in Bet
  BY DEF TypeOK, OpenIds
<1> QED
  BY <1>1 DEF Bet, Kin, Filled, Risked, Cancelled

LEMMA BeginTune ==
  ASSUME Calm, NEW w \in Worker, Begin(w)
  PROVE  InTune(session[w])'
<1> DEFINE n == session'[w]
<1>1. UNCHANGED bets /\ TypeOK
  BY DEF Calm, Begin, PlaceBegin, UpdateBegin, RiskBegin, SettleBegin, CleanupBegin, database
<1>2. ASSUME NEW job, job # "place", NEW ids \in SUBSET AllOpen, NEW mine, NEW todo \in SUBSET ids, NEW bill,
             LoadedBy(n, job, ids, mine, todo, bill),
             \A i \in ids : Kin(mine[i], bets[i])
      PROVE  InTune(session[w])'
  <2>1. \A i \in ids : i \in BetId /\ i \in DOMAIN bets /\ bets[i] # NoRow
    BY <1>1, BoundAssumption DEF AllOpen, OpenIds, TypeOK
  <2> QED
    BY <1>1, <1>2, <2>1 DEF InTune, LoadedBy, Load
<1>3. CASE PlaceBegin(w)
  BY <1>1, <1>3, EndFresh, FreshFields DEF InTune
<1>4. CASE UpdateBegin(w)
  <2>1. \A i \in AllOpen : Kin(FilledRows[i], bets[i])
    BY <1>1, RowsKin DEF FilledRows, AllOpen
  <2> DEFINE todo == {i \in AllOpen : Fills(i) # {}}
  <2>2. todo \in SUBSET AllOpen /\ LoadedBy(n, "update", AllOpen, FilledRows, todo, FillBill)
    BY <1>1, <1>4, UpdateLoads
  <2> HIDE DEF todo, n
  <2> QED
    BY <1>2, <2>1, <2>2
<1>5. CASE RiskBegin(w)
  <2>1. \A i \in AllOpen : Kin(RiskedRows[i], bets[i])
    BY <1>1, RowsKin DEF RiskedRows, AllOpen
  <2>2. Exits \in SUBSET AllOpen /\ LoadedBy(n, "risk", AllOpen, RiskedRows, Exits, SaleBill)
    BY <1>1, <1>5, RiskLoads DEF Exits
  <2> HIDE DEF n
  <2> QED
    BY <1>2, <2>1, <2>2
<1>6. CASE CleanupBegin(w)
  <2>1. \A i \in Stale : Kin(CancelledRows[i], bets[i])
    BY <1>1, RowsKin DEF CancelledRows, Stale, AllOpen
  <2>2. Stale \in SUBSET AllOpen /\ LoadedBy(n, "cleanup", Stale, CancelledRows, Stale, RefundBill)
    BY <1>1, <1>6, CleanupLoads DEF Stale
  <2> HIDE DEF n
  <2> QED
    BY <1>2, <2>1, <2>2
<1>7. CASE SettleBegin(w)
  BY <1>1, <1>7, SettleBegins DEF InTune, NoSession
<1> QED
  BY <1>3, <1>4, <1>5, <1>6, <1>7 DEF Begin

LEMMA PlaceTune ==
  ASSUME Calm, NEW w \in Worker, PlaceSkip(w) \/ PlaceAdmit(w) \/ PlaceDebit(w)
  PROVE  InTune(session[w])'
<1> DEFINE n == session'[w]
           s == session[w]
<1>1. UNCHANGED <<bets, portfolio>> /\ TypeOK /\ InTune(s) /\ s \in Session
  BY DEF Calm, PlaceSkip, PlaceAdmit, PlaceDebit, database, TypeOK
<1>2. CASE PlaceSkip(w)
  BY <1>1, <1>2, EndFresh, FreshFields DEF InTune
<1>3. CASE PlaceAdmit(w)
  <2>1. /\ n.job = "place" /\ n.step = "debit" /\ Len(n.add) = 1
        /\ n.purse = NoCash /\ n.todo = {} /\ n.seen = NoSession.seen
    <3>1. PICK a, accepted : Admitted(n, a, accepted)
      BY <1>1, <1>3, PlaceAdmits
    <3> HIDE DEF n
    <3> QED
      BY <3>1 DEF Admitted
  <2> QED
    BY <1>1, <2>1 DEF InTune, NoSession
<1>4. CASE PlaceDebit(w)
  <2>1. n.purse # NoCash => n.base = portfolio.cash
    BY <1>1, <1>4, PlaceDebits DEF InTune, Base
  <2>2. /\ s.job = "place" /\ s.step = "debit" /\ n.job = "place" /\ n.step = "commit"
        /\ n.todo = s.todo /\ n.seen = s.seen /\ Len(n.add) = 1
    BY <1>1, <1>4, PlaceDebits
  <2> QED
    BY <1>1, <2>1, <2>2 DEF InTune
<1> QED
  BY <1>2, <1>3, <1>4

\* A session's own copies of the rows it holds.
LEMMA HeldRows ==
  ASSUME TypeOK, NEW w \in Worker, NEW i \in BetId, session[w].seen[i] # NoRow
  PROVE  session[w].seen[i] \in Bet /\ session[w].mine[i] \in Bet
<1>1. session[w] \in Session /\ Sound(session[w])
  BY DEF TypeOK
<1> QED
  BY <1>1 DEF Sound, Session

LEMMA SettleTune ==
  ASSUME Calm, NEW w \in Worker, Settle(w)
  PROVE  InTune(session[w])'
<1> DEFINE n == session'[w]
           s == session[w]
<1>1. /\ UNCHANGED <<bets, portfolio>> /\ TypeOK /\ InTune(s) /\ s \in Session
      /\ s.todo \in SUBSET BetId
  BY DEF Calm, Settle, SettleExpire, SettleAsk, SettlePending, SettleAnswer, database, TypeOK, Session
<1>2. CASE SettleExpire(w)
  BY <1>1, <1>2, SettleExpires DEF InTune, Rest
<1>3. CASE SettleAsk(w)
  <2>1. PICK m \in s.due :
               LET ids == OpenIn(m) \cap BetId IN
               /\ s.job = "settle" /\ s.step = "run" /\ s.todo = {}
               /\ Rest(n, s) /\ n.step = "ask" /\ n.todo = ids /\ n.due = s.due \ {m}
               /\ n.seen = [i \in BetId |-> IF i \in ids THEN bets[i] ELSE s.seen[i]]
               /\ n.mine = [i \in BetId |-> IF i \in ids THEN bets[i] ELSE s.mine[i]]
               /\ n.bill = s.bill /\ n.base = s.base /\ n.purse = s.purse
               /\ n.status = s.status
    BY <1>1, <1>3, SettleAsks
  <2> HIDE DEF n
  <2>2. ASSUME NEW i \in BetId, n.seen[i] # NoRow
        PROVE  /\ i \in DOMAIN bets /\ bets[i] = n.seen[i]
               /\ Kin(n.mine[i], n.seen[i]) /\ n.seen[i].market \notin n.due
    BY <1>1, <2>1, <2>2 DEF InTune, Kin, OpenIn, OpenIds
  <2>3. \A i \in n.todo : n.seen[i] # NoRow /\ n.mine[i] = n.seen[i]
    BY <1>1, <2>1, BoundAssumption DEF OpenIn, OpenIds, TypeOK
  <2>4. n.purse # NoCash => n.base = portfolio.cash
    BY <1>1, <2>1 DEF InTune
  <2>5. n.job = "settle" /\ n.step = "ask" /\ n.add = <<>>
    BY <1>1, <2>1 DEF InTune, Rest
  <2> QED
    BY <1>1, <2>2, <2>3, <2>4, <2>5 DEF InTune, n
<1>4. CASE SettlePending(w)
  <2> HIDE DEF n
  <2>1. /\ s.job = "settle" /\ s.step = "ask"
        /\ Rest(n, s) /\ n.step = "run" /\ n.todo = {} /\ n.due = s.due
        /\ n.seen = [i \in BetId |-> IF i \in s.todo THEN NoRow ELSE s.seen[i]]
        /\ n.mine = [i \in BetId |-> IF i \in s.todo THEN NoRow ELSE s.mine[i]]
        /\ n.base = s.base /\ n.purse = s.purse
    BY <1>1, <1>4, SettlePends DEF n
  <2>2. ASSUME NEW i \in BetId, n.seen[i] # NoRow
        PROVE  n.seen[i] = s.seen[i] /\ n.mine[i] = s.mine[i]
    BY <2>1, <2>2
  <2> QED
    BY <1>1, <2>1, <2>2 DEF InTune, Rest, n
<1>5. CASE SettleAnswer(w)
  <2> HIDE DEF n
  <2>1. PICK outcome \in Side :
               /\ s.job = "settle" /\ s.step = "ask"
               /\ Rest(n, s) /\ n.step = "run" /\ n.todo = s.todo /\ n.due = s.due
               /\ n.seen = s.seen
               /\ n.mine = [i \in BetId |-> IF i \in s.todo THEN Decided(s.mine[i], outcome)
                                                            ELSE s.mine[i]]
               /\ n.base = s.base /\ n.purse = s.purse
    BY <1>1, <1>5, SettleAnswers DEF n
  <2>2. ASSUME NEW i \in BetId, s.seen[i] # NoRow
        PROVE  Kin(n.mine[i], n.seen[i])
    <3>1. s.mine[i] \in Bet
      BY <1>1, <2>2, HeldRows
    <3>2. Kin(Decided(s.mine[i], outcome), s.mine[i])
      BY <3>1 DEF Kin, Decided, Bet
    <3> QED
      BY <1>1, <2>1, <2>2, <3>2 DEF InTune, Kin
  <2> QED
    BY <1>1, <2>1, <2>2 DEF InTune, Rest, n
<1> QED
  BY <1>2, <1>3, <1>4, <1>5 DEF Settle

LEMMA MoneyTune ==
  ASSUME Calm, NEW w \in Worker, Money(w)
  PROVE  InTune(session[w])'
<1> DEFINE n == session'[w]
           s == session[w]
<1>1. UNCHANGED <<bets, portfolio>> /\ TypeOK /\ InTune(s)
  BY DEF Calm, Money, UpdateDebit, PostCredit, database
<1>2. /\ Still(n, s) /\ n.todo \subseteq s.todo
      /\ \/ n.base = s.base /\ n.purse = s.purse
         \/ n.base = Base(s)
      /\ s.step = "run"
  BY <1>1, UpdateDebits, CreditPosts DEF Money
<1>3. n.purse # NoCash => n.base = portfolio.cash
  BY <1>1, <1>2 DEF InTune, Base
<1> HIDE DEF n
<1> QED
  BY <1>1, <1>2, <1>3 DEF InTune, Still, Rest, n

LEMMA CalmInductive == ASSUME OneJob PROVE Calm /\ [Next]_vars => Calm'
<1> SUFFICES ASSUME Calm, [Next]_vars PROVE Calm'
  OBVIOUS
<1>1. TypeOK' /\ LoadedOpen' /\ (OnlyOne /\ Blank)'
  BY TypesInductive, LoadedOpenInductive, OnlyOneInductive DEF Calm
<1>2. ASSUME NEW v \in Worker PROVE InTune(session[v])'
  <2>1. CASE UNCHANGED Tables /\ session'[v] = session[v]
    BY <2>1 DEF Calm, InTune, Tables
  <2>2. CASE Next /\ ~UNCHANGED Tables
    BY <2>2, WritesLast, FreshFields DEF Calm, InTune
  <2>3. ASSUME Next, session'[v] # session[v] PROVE InTune(session[v])'
    <3>1. PICK w \in Worker : Begin(w) \/ Place(w) \/ Settle(w) \/ Money(w) \/ End(w)
      BY <2>3 DEF Next, Fetch, Analyze, ResetApi, ResetCli, NextDay
    <3>2. v = w
      BY <2>3, <3>1, TurnTaken DEF Calm, Turn, Alone
    <3>3. CASE PlaceReject(w) \/ End(w)
      BY <3>2, <3>3, EndFresh, FreshFields DEF Calm, InTune
    <3> QED
      BY <3>1, <3>2, <3>3, BeginTune, PlaceTune, SettleTune, MoneyTune DEF Place
  <2>4. CASE UNCHANGED vars
    BY <2>4, <2>1 DEF vars, Tables
  <2> QED
    BY <2>1, <2>2, <2>3, <2>4
<1> QED
  BY <1>1, <1>2 DEF Calm

LEMMA CalmInit == Init => Calm
<1> SUFFICES ASSUME Init PROVE Calm
  OBVIOUS
<1>1. \A w \in Worker : Fresh(session[w])
  BY NoSessionFresh DEF Init
<1> QED
  BY <1>1, InitTypes, LoadedOpenInit, OnlyOneInit, FreshFields DEF Calm, InTune
-----------------------------------------------------------------------------
(* What a commit writes.                                                    *)

\* In tune, an UPDATE of the changed columns is the row as the job left it.
LEMMA WrittenTuned ==
  ASSUME NEW old \in Bet, NEW new \in Bet, Kin(new, old)
  PROVE  Written(old, old, new) = new
<1>1. /\ DOMAIN Written(old, old, new) = DOMAIN new
      /\ \A f \in DOMAIN new : Written(old, old, new)[f] = new[f]
  BY DEF Written, Bet, Kin
<1> QED
  BY <1>1 DEF Written, Bet, Kin

LEMMA CommitWrites ==
  ASSUME Calm, NEW w \in Worker, Commit(w)
  PROVE  LET s == session[w] IN
         /\ IF s.job = "place" THEN bets' = Append(bets, s.add[1]) /\ s.add[1] \in Bet
                               ELSE Len(bets') = Len(bets)
         /\ \A i \in DOMAIN bets :
              bets'[i] = IF i \in BetId /\ s.seen[i] # NoRow THEN s.mine[i] ELSE bets[i]
         /\ portfolio' = [portfolio EXCEPT !.cash = IF s.purse = s.base THEN @ ELSE s.purse]
<1> DEFINE s == session[w]
<1>1. /\ TypeOK /\ InTune(s) /\ s \in Session /\ Sound(s)
      /\ bets \in Seq(Bet) /\ s.add \in Seq(Bet)
  BY DEF Calm, TypeOK, Session
<1>2. Flushed(s) \in Seq(Bet) /\ Len(Flushed(s)) = Len(bets)
  BY <1>1, FlushedType
<1>3. /\ bets' = Flushed(s) \o s.add
      /\ portfolio' = [portfolio EXCEPT !.cash = IF s.purse = s.base THEN @ ELSE s.purse]
      /\ Finished(s)
  BY DEF Commit
<1>4. ASSUME NEW i \in DOMAIN bets
      PROVE  Flushed(s)[i] = IF i \in BetId /\ s.seen[i] # NoRow THEN s.mine[i] ELSE bets[i]
  <2>1. Flushed(s)[i] = IF i \in Changed(s) THEN Written(bets[i], s.seen[i], s.mine[i]) ELSE bets[i]
    BY <1>1, <1>4 DEF Flushed
  <2>2. i \in BetId /\ s.seen[i] = NoRow => s.mine[i] = NoRow
    BY <1>1 DEF Sound
  <2>3. i \in BetId /\ s.seen[i] # NoRow =>
          bets[i] = s.seen[i] /\ Written(s.seen[i], s.seen[i], s.mine[i]) = s.mine[i]
    BY <1>1, HeldRows, WrittenTuned DEF InTune
  <2> QED
    BY <2>1, <2>2, <2>3 DEF Changed
<1>5. CASE s.job = "place"
  <2>1. Len(s.add) = 1 /\ \A i \in BetId : s.seen[i] = NoRow
    BY <1>1, <1>3, <1>5 DEF InTune, Finished
  <2>2. Flushed(s) = bets
    BY <1>1, <1>2, <1>4, <2>1
  <2>3. s.add = <<s.add[1]>> /\ s.add[1] \in Bet
    BY <1>1, <2>1
  <2>4. bets' = Append(bets, s.add[1])
    BY <1>1, <1>3, <2>2, <2>3, AppendIsConcat
  <2> QED
    BY <1>1, <1>3, <1>5, <2>1, <2>3, <2>4
<1>6. CASE s.job # "place"
  <2>1. s.add = <<>>
    BY <1>1, <1>6 DEF InTune
  <2>2. bets' = Flushed(s)
    BY <1>2, <1>3, <2>1
  <2> QED
    BY <1>2, <1>3, <1>4, <1>6, <2>2
<1> QED
  BY <1>5, <1>6

\* What the other steps do to the rows: nothing, a new row, or a reset.
LEMMA StepWrites ==
  ASSUME OneJob, Calm, Next
  PROVE  \/ \E w \in Worker : Commit(w)
         \/ UNCHANGED <<bets, portfolio>>
         \/ \E w \in Worker, a \in analyses :
              /\ PlaceReject(w) /\ UNCHANGED portfolio
              /\ bets' = Append(bets, [NewBet(a, Stake(a), "rejected") EXCEPT !.filled = {}])
              /\ ~NotTradable(a.market)
         \/ ResetApi
         \/ ResetCli
  BY DEF Next, Begin, PlaceBegin, UpdateBegin, RiskBegin, SettleBegin, CleanupBegin,
         Fetch, Analyze, End, Rollback, NextDay, database,
         Place, PlaceSkip, PlaceReject, PlaceAdmit, PlaceDebit,
         Settle, SettleExpire, SettleAsk, SettlePending, SettleAnswer,
         Money, UpdateDebit, PostCredit

\* What is closed stays as it was closed: no job of a bot that runs them one
\* at a time closes a position again, and the pnl booked is the one booked
\* first.  (The reset command rewrites the status of every row.)
THEOREM ClosingIsFinal ==
  ASSUME OneJob, "cli" \notin Resets
  PROVE  Spec => ClosedOnce
<1> DEFINE Kept == \A i \in DOMAIN bets \cap DOMAIN bets' :
                     ~IsOpen(bets[i]) => /\ bets'[i].status = bets[i].status
                                         /\ bets'[i].pnl = bets[i].pnl
<1>1. Calm /\ [Next]_vars => [Kept]_bets
  <2> SUFFICES ASSUME Calm, Next PROVE Kept \/ UNCHANGED bets
    BY DEF vars
  <2>1. bets \in Seq(Bet)
    BY DEF Calm, TypeOK
  <2>2. ASSUME NEW w \in Worker, Commit(w) PROVE Kept
    <3>1. ASSUME NEW i \in DOMAIN bets, ~IsOpen(bets[i]) PROVE bets'[i] = bets[i]
      <4>1. ~(i \in BetId /\ session[w].seen[i] # NoRow)
        BY <3>1 DEF Calm, LoadedOpen, SeenOpen, InTune
      <4> QED
        BY <2>2, <4>1, CommitWrites
    <3> QED
      BY <3>1
  <2>3. CASE ResetApi
    <3>1. DOMAIN bets' = {}
      BY <2>3 DEF ResetApi
    <3> QED
      BY <3>1
  <2>4. ~ResetCli
    BY DEF ResetCli, ResetAllowed
  <2>5. ASSUME NEW b, bets' = Append(bets, b) PROVE Kept
    BY <2>1, <2>5
  <2> QED
    BY <2>2, <2>3, <2>4, <2>5, StepWrites
<1>2. Calm /\ [][Next]_vars /\ []Calm => [][Kept]_bets
  BY <1>1, PTL
<1> QED
  BY <1>2, CalmInit, CalmInductive, PTL DEF Spec, ClosedOnce
-----------------------------------------------------------------------------
(* The exposure cap.                                                        *)

\* The open rows when a row is added.
LEMMA OpenAppend ==
  ASSUME TypeOK, NEW b \in Bet, bets' = Append(bets, b)
  PROVE  /\ \A i \in DOMAIN bets : bets'[i] = bets[i]
         /\ Len(bets) + 1 \notin DOMAIN bets /\ bets'[Len(bets) + 1] = b
         /\ DOMAIN bets' = DOMAIN bets \cup {Len(bets) + 1}
         /\ OpenIds' = IF IsOpen(b) THEN OpenIds \cup {Len(bets) + 1} ELSE OpenIds
<1>1. bets \in Seq(Bet) /\ Len(bets) \in Nat
  BY DEF TypeOK
<1>2. /\ \A i \in DOMAIN bets : bets'[i] = bets[i]
      /\ Len(bets) + 1 \notin DOMAIN bets /\ bets'[Len(bets) + 1] = b
      /\ DOMAIN bets' = DOMAIN bets \cup {Len(bets) + 1}
  BY <1>1
<1> QED
  BY <1>2 DEF OpenIds, IsOpen

LEMMA AmountType == ASSUME TypeOK, NEW i \in DOMAIN bets PROVE bets[i] \in Bet /\ bets[i].amount \in Nat
<1>1. bets[i] \in Bet
  BY DEF TypeOK
<1> QED
  BY <1>1 DEF Bet

LEMMA ExposureAppend ==
  ASSUME TypeOK, TypeOK', NEW b \in Bet, bets' = Append(bets, b), IsOpen(b)
  PROVE  Exposure' = Exposure + b.amount /\ PortfolioValue' = PortfolioValue
<1> DEFINE new == Len(bets) + 1
           f   == [i \in OpenIds |-> bets[i].amount]
           g   == [i \in OpenIds' |-> bets'[i].amount]
<1>1. /\ \A i \in DOMAIN bets : bets'[i] = bets[i]
      /\ new \notin DOMAIN bets /\ bets'[new] = b
      /\ DOMAIN bets' = DOMAIN bets \cup {new}
      /\ OpenIds' = OpenIds \cup {new}
  BY OpenAppend
<1>2. IsFiniteSet(OpenIds') /\ OpenIds' \ {new} = OpenIds /\ IsFiniteSet(OpenIds)
  <2>1. IsFiniteSet(DOMAIN bets')
    BY <1>1, RowsFinite, FS_AddElement
  <2>2. OpenIds' \subseteq DOMAIN bets' /\ OpenIds \subseteq OpenIds'
    BY <1>1 DEF OpenIds
  <2> QED
    BY <1>1, <2>1, <2>2, FS_Subset DEF OpenIds
<1>3. /\ \A i \in OpenIds' : g[i] \in Int
      /\ \A i \in OpenIds : f[i] \in Int /\ f[i] = g[i]
      /\ g[new] = b.amount /\ new \in OpenIds' /\ b.amount \in Int
  <2>1. \A i \in OpenIds : i \in DOMAIN bets /\ bets[i].amount \in Nat
    BY AmountType DEF OpenIds
  <2>2. b.amount \in Nat
    BY DEF Bet
  <2>3. /\ \A i \in OpenIds : f[i] = bets[i].amount /\ g[i] = bets[i].amount
        /\ g[new] = b.amount
    BY <1>1, <2>1
  <2> HIDE DEF f, g
  <2> QED
    BY <1>1, <2>1, <2>2, <2>3
<1>4. Exposure = SumFunctionOnSet(f, OpenIds) /\ Exposure' = SumFunctionOnSet(g, OpenIds')
  BY DEF Exposure, SumFunction
<1>5. SumFunctionOnSet(f, OpenIds) \in Int
  BY <1>2, <1>3, SumInt
<1> HIDE DEF f, g, new
<1>6. SumFunctionOnSet(g, OpenIds') = g[new] + SumFunctionOnSet(g, OpenIds)
  BY <1>2, <1>3, SumTake
<1>7. SumFunctionOnSet(f, OpenIds) = SumFunctionOnSet(g, OpenIds)
  BY <1>2, <1>3, SumSame
<1>8. Exposure' = Exposure + b.amount
  BY <1>3, <1>4, <1>5, <1>6, <1>7
<1>9. Settled' = Settled
  BY <1>1 DEF Settled, IsOpen
<1>10. [i \in Settled' |-> bets'[i].pnl] = [i \in Settled |-> bets[i].pnl]
  BY <1>1, <1>9 DEF Settled
<1> QED
  BY <1>8, <1>10 DEF PortfolioValue, Realized

\* The stake a session is about to add still fits under the cap.
Fits(s) ==
  s.add # <<>> /\ IsOpen(s.add[1]) =>
    100 * (Exposure + s.add[1].amount) <= TotalExposurePct * PortfolioValue
AllFit == \A w \in Worker : Fits(session[w])

\* What the steps that write no table do to the row to be added.
LEMMA NextAdd ==
  ASSUME OneJob, Calm, Next, UNCHANGED Tables, NEW v \in Worker
  PROVE  \/ session'[v].add = <<>>
         \/ session'[v].add = session[v].add
         \/ /\ session[v].job = "place" /\ session'[v].job = "place"
            /\ session[v].add # <<>> /\ session'[v].add # <<>>
            /\ session'[v].add[1] \in {session[v].add[1], [session[v].add[1] EXCEPT !.status = "failed"]}
            /\ session'[v].status = session[v].status
         \/ PlaceAdmit(v)
<1>1. CASE session' = session
  BY <1>1
<1>2. ASSUME NEW w \in Worker, Begin(w) \/ Settle(w) \/ Money(w) \/ End(w) \/ Place(w)
      PROVE  \/ session'[v].add = <<>>
             \/ session'[v].add = session[v].add
             \/ /\ session[v].job = "place" /\ session'[v].job = "place"
                /\ session[v].add # <<>> /\ session'[v].add # <<>>
                /\ session'[v].add[1] \in {session[v].add[1], [session[v].add[1] EXCEPT !.status = "failed"]}
                /\ session'[v].status = session[v].status
             \/ PlaceAdmit(v)
  <2>1. Alone(w) /\ TypeOK /\ LoadedOpen
    BY <1>2, TurnTaken DEF Calm, Turn
  <2>2. CASE v # w
    BY <2>1, <2>2 DEF Alone
  <2>3. CASE v = w
    <3>1. Begin(w) => session'[v].add = <<>>
      BY <2>1, <2>3, BeginSeen
    <3>2. Settle(w) \/ Money(w) => session'[v].add = session[v].add
      BY <2>1, <2>3, SettleSeen, MoneySeen DEF SameRow
    <3>3. End(w) \/ PlaceSkip(w) \/ PlaceReject(w) => session'[v].add = <<>>
      BY <2>1, <2>3, EndFresh, FreshFields
    <3>4. CASE PlaceDebit(w)
      <4>1. session[v].step = "debit" /\ session[v].add \in Seq(Bet) /\ InTune(session[v])
        BY <2>1, <2>3, <3>4, PlaceDebits DEF Calm, TypeOK, Session
      <4>2. session[v].add # <<>>
        BY <4>1 DEF InTune
      <4>3. Len(session'[v].add) = 1 /\ session'[v].job = "place" /\ session[v].job = "place"
            /\ session'[v].status = session[v].status
            /\ session'[v].add[1] \in {session[v].add[1], [session[v].add[1] EXCEPT !.status = "failed"]}
        BY <2>1, <2>3, <3>4, PlaceDebits
      <4> QED
        BY <4>2, <4>3
    <3> QED
      BY <1>2, <2>3, <3>1, <3>2, <3>3, <3>4 DEF Place
  <2> QED
    BY <2>2, <2>3
<1> QED
  BY <1>1, <1>2 DEF Next, Fetch, Analyze, ResetApi, ResetCli, NextDay

LEMMA ExposureType ==
  ASSUME TypeOK
  PROVE  Exposure \in Nat /\ PortfolioValue \in Int
<1>1. IsFiniteSet(OpenIds)
  BY RowsFinite, FS_Subset DEF OpenIds
<1>2. \A i \in OpenIds : [j \in OpenIds |-> bets[j].amount][i] \in Nat
  BY AmountType DEF OpenIds
<1> QED
  BY <1>1, <1>2, SumNat, RealizedType, MoneyAssumption DEF Exposure, SumFunction, PortfolioValue

LEMMA AllFitInductive == ASSUME OneJob PROVE Calm /\ AllFit /\ [Next]_vars => AllFit'
<1> SUFFICES ASSUME Calm, AllFit, [Next]_vars, NEW v \in Worker PROVE Fits(session[v])'
  BY DEF AllFit
<1> DEFINE s == session[v]
           n == session'[v]
<1>1. CASE UNCHANGED vars
  BY <1>1 DEF AllFit, Fits, vars, Exposure, PortfolioValue, Realized, Settled, OpenIds
<1>2. CASE Next /\ ~UNCHANGED Tables
  BY <1>2, WritesLast, FreshFields DEF Calm, Fits
<1>3. CASE Next /\ UNCHANGED Tables
  <2>1. Exposure' = Exposure /\ PortfolioValue' = PortfolioValue
    BY <1>3 DEF Tables, Exposure, PortfolioValue, Realized, Settled, OpenIds
  <2>2. CASE n.add = <<>>
    BY <2>2 DEF Fits
  <2>3. CASE n.add = s.add
    BY <2>1, <2>3 DEF Fits, AllFit
  <2>4. CASE s.add # <<>> /\ n.add[1] \in {s.add[1], [s.add[1] EXCEPT !.status = "failed"]}
    <3>1. IsOpen(n.add[1]) => n.add[1] = s.add[1]
      <4>1. s.add \in Seq(Bet)
        BY DEF Calm, TypeOK, Session
      <4>2. s.add[1] \in Bet
        BY <2>4, <4>1
      <4> QED
        BY <2>4, <4>2 DEF IsOpen, Bet
    <3> QED
      BY <2>1, <2>4, <3>1 DEF Fits, AllFit
  <2>5. CASE PlaceAdmit(v)
    <3>1. PICK a \in analyses, accepted \in IF Live THEN BOOLEAN ELSE {TRUE} :
            Admitted(n, a, accepted) /\ ~OverExposed(Stake(a))
      BY <2>5, PlaceAdmits DEF Calm
    <3> HIDE DEF n
    <3>2. n.add[1].amount = Stake(a)
      BY <3>1 DEF Admitted, NewBet
    <3>3. Stake(a) \in Nat /\ Exposure \in Nat /\ PortfolioValue \in Int
      BY StakeType, ExposureType DEF Calm
    <3>4. 100 * (Exposure + Stake(a)) <= TotalExposurePct * PortfolioValue
      BY <3>1, <3>3, MoneyAssumption DEF OverExposed
    <3> QED
      BY <2>1, <3>2, <3>4 DEF Fits, n
  <2> QED
    BY <1>3, <2>2, <2>3, <2>4, <2>5, NextAdd
<1> QED
  BY <1>1, <1>2, <1>3

\* No bet takes the open stakes past TOTAL_EXPOSURE_PCT, although the caps are
\* evaluated in one transaction and the row is inserted in another.
THEOREM ExposureCapped ==
  ASSUME OneJob
  PROVE  Spec => ExposureCapHeld
<1> DEFINE Capped == \A i \in DOMAIN bets' \ DOMAIN bets : IsOpen(bets'[i]) =>
                       100 * Exposure' <= TotalExposurePct * PortfolioValue'
<1>1. Calm /\ Calm' /\ AllFit /\ [Next]_vars => [Capped]_bets
  <2> SUFFICES ASSUME Calm, Calm', AllFit, Next PROVE Capped \/ UNCHANGED bets
    BY DEF vars
  <2>1. TypeOK /\ TypeOK'
    BY DEF Calm
  <2>2. ASSUME NEW w \in Worker, Commit(w) PROVE Capped
    <3>1. CASE session[w].job = "place"
      <4> DEFINE b == session[w].add[1]
      <4>1. bets' = Append(bets, b) /\ b \in Bet
        BY <2>2, <3>1, CommitWrites
      <4>2. session[w].add # <<>>
        BY <2>2, <3>1 DEF Calm, InTune, Commit, Finished
      <4>3. IsOpen(b) => 100 * Exposure' <= TotalExposurePct * PortfolioValue'
        BY <2>1, <4>1, <4>2, ExposureAppend DEF AllFit, Fits
      <4> HIDE DEF b
      <4>4. \A i \in DOMAIN bets' \ DOMAIN bets : bets'[i] = b
        BY <2>1, <4>1, OpenAppend
      <4> QED
        BY <4>3, <4>4
    <3>2. CASE session[w].job # "place"
      <4>1. Len(bets') = Len(bets)
        BY <2>2, <3>2, CommitWrites
      <4>2. DOMAIN bets' = DOMAIN bets
        BY <2>1, <4>1 DEF TypeOK
      <4> QED
        BY <4>2
    <3> QED
      BY <3>1, <3>2
  <2>3. ASSUME NEW w \in Worker, NEW a \in analyses,
               bets' = Append(bets, [NewBet(a, Stake(a), "rejected") EXCEPT !.filled = {}]),
               ~NotTradable(a.market)
        PROVE  Capped
    <3> DEFINE b == [NewBet(a, Stake(a), "rejected") EXCEPT !.filled = {}]
    <3>1. NewBet(a, Stake(a), "rejected") \in Bet
      BY <2>1, <2>3, NewBetType DEF BetStatus, ClosedStatus
    <3>2. b \in Bet /\ b.status = "rejected"
      BY <3>1 DEF Bet, NewBet
    <3> HIDE DEF b
    <3>3. \A i \in DOMAIN bets' \ DOMAIN bets : bets'[i] = b
      BY <2>1, <2>3, <3>2, OpenAppend DEF b
    <3> QED
      BY <3>2, <3>3 DEF IsOpen
  <2>4. CASE ResetApi
    <3>1. DOMAIN bets' = {}
      BY <2>4 DEF ResetApi
    <3> QED
      BY <3>1
  <2>5. CASE ResetCli
    <3>1. DOMAIN bets' = DOMAIN bets
      BY <2>1, <2>5 DEF ResetCli, TypeOK
    <3> QED
      BY <3>1
  <2> QED
    BY <2>2, <2>3, <2>4, <2>5, StepWrites
<1>2. Init => AllFit
  BY NoSessionFields DEF Init, AllFit, Fits
<1> QED
  BY <1>1, <1>2, CalmInit, CalmInductive, AllFitInductive, PTL DEF Spec, ExposureCapHeld
-----------------------------------------------------------------------------
(* What a job has made of the rows it loaded.                               *)

\* The prices and the rows are still those the job computed with, so its
\* copies and its bill are what it would compute now.
JobRow(s, i) ==
  CASE s.job = "update"  -> s.mine[i] = Filled(i) /\ s.bill[i] = FillCost(i)
    [] s.job = "risk"    -> s.mine[i] = Risked(i) /\ (i \in s.todo => i \in Exits /\ s.bill[i] = Proceeds(i))
    [] s.job = "cleanup" -> s.mine[i] = Cancelled(i) /\ s.bill[i] = PaidFor(i)
    [] OTHER -> \/ s.step = "ask" /\ i \in s.todo /\ s.mine[i] = bets[i]
                \/ /\ ~(s.step = "ask" /\ i \in s.todo)
                   /\ \E outcome \in Side :
                        /\ s.mine[i] = Decided(bets[i], outcome)
                        /\ i \in s.todo => s.bill[i] = SettlementCredit(bets[i], outcome, FeePct)
JobRows(s) == \A i \in BetId : s.seen[i] # NoRow => JobRow(s, i)


Worked == Calm /\ \A w \in Worker : JobRows(session[w])

LEMMA SameRows ==
  ASSUME UNCHANGED <<bets, markets>>, NEW i
  PROVE  /\ Filled(i)' = Filled(i) /\ FillCost(i)' = FillCost(i) /\ Fills(i)' = Fills(i)
         /\ Risked(i)' = Risked(i) /\ Proceeds(i)' = Proceeds(i) /\ Exits' = Exits
         /\ Cancelled(i)' = Cancelled(i) /\ PaidFor(i)' = PaidFor(i)
  BY DEF Filled, FillCost, Fills, Risked, Proceeds, Exits, Cancelled, PaidFor, MarkOf, QuoteOf,
         RiskMark, AllOpen, OpenIds

LEMMA BeginRows ==
  ASSUME Calm, NEW w \in Worker, Begin(w)
  PROVE  JobRows(session[w])'
<1> DEFINE n == session'[w]
<1>1. UNCHANGED <<bets, markets>> /\ TypeOK
  BY DEF Calm, Begin, PlaceBegin, UpdateBegin, RiskBegin, SettleBegin, CleanupBegin, database
<1>2. ASSUME NEW i \in BetId, n.seen[i] # NoRow PROVE JobRow(session[w], i)'
  <2>1. CASE PlaceBegin(w)
    BY <1>2, <2>1, EndFresh, FreshFields DEF Calm
  <2>2. CASE SettleBegin(w)
    BY <1>1, <1>2, <2>2, SettleBegins DEF NoSession
  <2>3. CASE UpdateBegin(w)
    <3>1. n.job = "update" /\ n.seen = Load(AllOpen) /\ n.mine = FilledRows /\ n.bill = FillBill
      BY <1>1, <2>3, UpdateLoads DEF LoadedBy
    <3>2. i \in AllOpen
      BY <1>2, <3>1 DEF Load
    <3>3. n.mine[i] = Filled(i) /\ n.bill[i] = FillCost(i)
      BY <3>1, <3>2 DEF FilledRows, FillBill
    <3> QED
      BY <1>1, <3>1, <3>3, SameRows DEF JobRow
  <2>4. CASE RiskBegin(w)
    <3>1. n.job = "risk" /\ n.seen = Load(AllOpen) /\ n.mine = RiskedRows /\ n.bill = SaleBill
          /\ n.todo = Exits
      BY <1>1, <2>4, RiskLoads DEF LoadedBy
    <3>2. i \in AllOpen
      BY <1>2, <3>1 DEF Load
    <3>3. n.mine[i] = Risked(i) /\ (i \in Exits => n.bill[i] = Proceeds(i))
      BY <3>1, <3>2 DEF RiskedRows, SaleBill
    <3> QED
      BY <1>1, <3>1, <3>3, SameRows DEF JobRow
  <2>5. CASE CleanupBegin(w)
    <3>1. n.job = "cleanup" /\ n.seen = Load(Stale) /\ n.mine = CancelledRows /\ n.bill = RefundBill
      BY <1>1, <2>5, CleanupLoads DEF LoadedBy
    <3>2. i \in Stale
      BY <1>2, <3>1 DEF Load
    <3>3. n.mine[i] = Cancelled(i) /\ n.bill[i] = PaidFor(i)
      BY <3>1, <3>2 DEF CancelledRows, RefundBill
    <3> QED
      BY <1>1, <3>1, <3>3, SameRows DEF JobRow
  <2> QED
    BY <2>1, <2>2, <2>3, <2>4, <2>5 DEF Begin
<1> QED
  BY <1>2 DEF JobRows

LEMMA SettleRows ==
  ASSUME Worked, NEW w \in Worker, Settle(w)
  PROVE  JobRows(session[w])'
<1> DEFINE n == session'[w]
           s == session[w]
<1>1. /\ UNCHANGED <<bets, markets>> /\ TypeOK /\ InTune(s) /\ s \in Session /\ JobRows(s)
      /\ s.todo \in SUBSET BetId
  BY DEF Worked, Calm, Settle, SettleExpire, SettleAsk, SettlePending, SettleAnswer, database,
         TypeOK, Session
<1>2. ASSUME NEW i \in BetId, n.seen[i] # NoRow PROVE JobRow(session[w], i)'
  <2> DEFINE Done(t, outcome) ==
               /\ t.mine[i] = Decided(bets[i], outcome)
               /\ i \in t.todo => t.bill[i] = SettlementCredit(bets[i], outcome, FeePct)
  <2> HIDE DEF n
  <2>1. CASE SettleExpire(w)
    <3>1. /\ n.job = "settle" /\ s.job = "settle" /\ n.step = s.step /\ n.todo = s.todo
          /\ n.seen = s.seen /\ n.mine = s.mine /\ n.bill = s.bill
      BY <1>1, <2>1, SettleExpires DEF Rest, n
    <3>2. JobRow(s, i)
      BY <1>1, <1>2, <3>1 DEF JobRows
    <3> QED
      BY <1>1, <3>1, <3>2 DEF JobRow, n
  <2>2. CASE SettleAsk(w)
    <3>0. PICK m \in s.due :
               LET ids == OpenIn(m) \cap BetId IN
               /\ s.job = "settle" /\ s.step = "run" /\ s.todo = {}
               /\ Rest(n, s) /\ n.step = "ask" /\ n.todo = ids
               /\ n.seen = [j \in BetId |-> IF j \in ids THEN bets[j] ELSE s.seen[j]]
               /\ n.mine = [j \in BetId |-> IF j \in ids THEN bets[j] ELSE s.mine[j]]
      BY <1>1, <2>2, SettleAsks DEF n
    <3>1. /\ s.job = "settle" /\ s.step = "run" /\ s.todo = {}
          /\ n.job = "settle" /\ n.step = "ask" /\ n.todo = OpenIn(m) \cap BetId
          /\ n.seen[i] = IF i \in OpenIn(m) \cap BetId THEN bets[i] ELSE s.seen[i]
          /\ n.mine[i] = IF i \in OpenIn(m) \cap BetId THEN bets[i] ELSE s.mine[i]
      BY <3>0 DEF Rest
    <3>2. CASE i \in OpenIn(m)
      BY <1>1, <3>1, <3>2 DEF JobRow, n
    <3>3. CASE i \notin OpenIn(m)
      <4>1. JobRow(s, i)
        BY <1>1, <1>2, <3>1, <3>3 DEF JobRows
      <4> QED
        BY <1>1, <3>1, <3>3, <4>1 DEF JobRow, n
    <3> QED
      BY <3>2, <3>3
  <2>3. CASE SettlePending(w)
    <3>0. /\ s.job = "settle" /\ s.step = "ask"
          /\ Rest(n, s) /\ n.step = "run" /\ n.todo = {}
          /\ n.seen = [j \in BetId |-> IF j \in s.todo THEN NoRow ELSE s.seen[j]]
          /\ n.mine = [j \in BetId |-> IF j \in s.todo THEN NoRow ELSE s.mine[j]]
      BY <1>1, <2>3, SettlePends DEF n
    <3>1. /\ s.job = "settle" /\ s.step = "ask"
          /\ n.job = "settle" /\ n.step = "run" /\ n.todo = {}
          /\ n.seen[i] = IF i \in s.todo THEN NoRow ELSE s.seen[i]
          /\ n.mine[i] = IF i \in s.todo THEN NoRow ELSE s.mine[i]
      BY <3>0 DEF Rest
    <3>2. i \notin s.todo /\ JobRow(s, i)
      BY <1>1, <1>2, <3>1 DEF JobRows
    <3> QED
      BY <1>1, <3>1, <3>2 DEF JobRow, n
  <2>4. CASE SettleAnswer(w)
    <3>0. PICK outcome \in Side :
               /\ s.job = "settle" /\ s.step = "ask"
               /\ Rest(n, s) /\ n.step = "run" /\ n.todo = s.todo /\ n.seen = s.seen
               /\ n.mine = [j \in BetId |-> IF j \in s.todo THEN Decided(s.mine[j], outcome)
                                                            ELSE s.mine[j]]
               /\ n.bill = [j \in BetId |-> IF j \in s.todo
                              THEN SettlementCredit(s.mine[j], outcome, FeePct) ELSE 0]
      BY <1>1, <2>4, SettleAnswers DEF n
    <3>1. /\ s.job = "settle" /\ s.step = "ask"
          /\ n.job = "settle" /\ n.step = "run" /\ n.todo = s.todo /\ n.seen = s.seen
          /\ n.mine[i] = IF i \in s.todo THEN Decided(s.mine[i], outcome) ELSE s.mine[i]
          /\ n.bill[i] = IF i \in s.todo
                              THEN SettlementCredit(s.mine[i], outcome, FeePct) ELSE 0
      BY <3>0 DEF Rest
    <3>2. JobRow(s, i) /\ bets[i] = s.seen[i]
      BY <1>1, <1>2, <3>1 DEF JobRows, InTune
    <3>3. CASE i \in s.todo
      <4>1. s.mine[i] = bets[i]
        BY <1>1, <3>1, <3>2, <3>3 DEF InTune
      <4> QED
        BY <1>1, <3>1, <3>3, <4>1 DEF JobRow, n
    <3>4. CASE i \notin s.todo
      BY <1>1, <3>1, <3>2, <3>4 DEF JobRow, n
    <3> QED
      BY <3>3, <3>4
  <2> QED
    BY <2>1, <2>2, <2>3, <2>4 DEF Settle
<1> QED
  BY <1>2 DEF JobRows

LEMMA MoneyRows ==
  ASSUME Worked, NEW w \in Worker, Money(w)
  PROVE  JobRows(session[w])'
<1> DEFINE n == session'[w]
           s == session[w]
<1>1. UNCHANGED <<bets, markets>> /\ TypeOK /\ JobRows(s)
  BY DEF Worked, Calm, Money, UpdateDebit, PostCredit, database
<1>2. Still(n, s) /\ n.todo \subseteq s.todo /\ s.step = "run"
  BY <1>1, UpdateDebits, CreditPosts DEF Money
<1>3. ASSUME NEW i \in BetId, n.seen[i] # NoRow PROVE JobRow(session[w], i)'
  <2> HIDE DEF n
  <2>1. JobRow(s, i)
    BY <1>1, <1>2, <1>3 DEF JobRows, Still
  <2>2. CASE s.job = "update"
    BY <1>1, <1>2, <2>1, <2>2, SameRows DEF JobRow, Still, Rest, n
  <2>3. CASE s.job = "risk"
    BY <1>1, <1>2, <2>1, <2>3, SameRows DEF JobRow, Still, Rest, n
  <2>4. CASE s.job = "cleanup"
    BY <1>1, <1>2, <2>1, <2>4, SameRows DEF JobRow, Still, Rest, n
  <2>5. CASE s.job \notin {"update", "risk", "cleanup"}
    BY <1>1, <1>2, <2>1, <2>5 DEF JobRow, Still, Rest, n
  <2> QED
    BY <2>2, <2>3, <2>4, <2>5
<1> QED
  BY <1>3 DEF JobRows

LEMMA WorkedInductive == ASSUME OneJob PROVE Worked /\ [Next]_vars => Worked'
<1> SUFFICES ASSUME Worked, [Next]_vars, NEW v \in Worker PROVE JobRows(session[v])'
  BY CalmInductive DEF Worked
<1>1. CASE UNCHANGED <<bets, markets>> /\ session'[v] = session[v]
  <2>1. ASSUME NEW i \in BetId, session[v].seen[i] # NoRow PROVE JobRow(session[v], i)'
    <3>1. JobRow(session[v], i)
      BY <2>1 DEF Worked, JobRows
    <3> QED
      BY <1>1, <3>1, SameRows DEF JobRow
  <2> QED
    BY <1>1, <2>1 DEF JobRows
<1>2. CASE Next /\ ~UNCHANGED Tables
  BY <1>2, WritesLast, FreshFields DEF Worked, Calm, JobRows
<1>3. ASSUME Next, session'[v] # session[v] PROVE JobRows(session[v])'
  <2>1. PICK w \in Worker : Begin(w) \/ Place(w) \/ Settle(w) \/ Money(w) \/ End(w)
    BY <1>3 DEF Next, Fetch, Analyze, ResetApi, ResetCli, NextDay
  <2>2. v = w
    BY <1>3, <2>1, TurnTaken DEF Worked, Calm, Turn, Alone
  <2>3. CASE PlaceSkip(w) \/ PlaceReject(w) \/ End(w)
    BY <2>2, <2>3, EndFresh, FreshFields DEF Worked, Calm, JobRows
  <2>4. CASE PlaceAdmit(w) \/ PlaceDebit(w)
    <3>1. InTune(session[w])' /\ session'[w].job = "place"
      <4>1. InTune(session[w])'
        BY <2>4, PlaceTune DEF Worked
      <4>2. PlaceAdmit(w) => session'[w].job = "place"
        BY PlaceAdmits DEF Admitted, Worked, Calm
      <4>3. PlaceDebit(w) => session'[w].job = "place"
        BY PlaceDebits DEF Worked, Calm
      <4> QED
        BY <2>4, <4>1, <4>2, <4>3
    <3> QED
      BY <2>2, <3>1 DEF InTune, JobRows
  <2> QED
    BY <2>1, <2>2, <2>3, <2>4, BeginRows, SettleRows, MoneyRows DEF Worked, Place
<1> QED
  BY <1>1, <1>2, <1>3 DEF vars, Tables

LEMMA WorkedInit == Init => Worked
  BY CalmInit, NoSessionFresh, FreshFields DEF Init, Worked, JobRows
-----------------------------------------------------------------------------
(* A row refused by the caps.                                               *)

LEMMA RejectedRow ==
  ASSUME TypeOK, NEW a \in analyses, ~NotTradable(a.market)
  PROVE  LET b == [NewBet(a, Stake(a), "rejected") EXCEPT !.filled = {}]
         IN  /\ b \in Bet /\ b.status = "rejected" /\ b.pnl = 0
             /\ b.side = a.side /\ b.ladder = a.ladder /\ b.market = a.market
<1>1. NewBet(a, Stake(a), "rejected") \in Bet
  BY NewBetType DEF BetStatus, ClosedStatus
<1> QED
  BY <1>1 DEF Bet, NewBet

-----------------------------------------------------------------------------
(* There is room for the rows to come, so that a job loads every open row.  *)

RoomFor(s) ==
  s.job = "place" =>
    IsFiniteSet(s.queue) /\ Len(bets) + Cardinality(s.queue) + Len(s.add) <= MaxBets
Room ==
  /\ Len(bets) <= MaxBets
  /\ \A a \in analyses : a.id \in AnalysisId
  /\ \A w \in Worker : RoomFor(session[w])

LEMMA RoomBegin ==
  ASSUME OneJob, Calm, Room, NEW w \in Worker, PlaceBegin(w)
  PROVE  RoomFor(session[w])'
<1>1. Reserved = 0
  <2>1. Placing = {}
    BY DEF PlaceBegin, MayStart, OneJob, Placing, Idle
  <2>2. DOMAIN [v \in Placing |-> Cardinality(session[v].queue) + Len(session[v].add)] = {}
    BY <2>1
  <2> QED
    BY <2>2, SumEmpty DEF Reserved, SumFunction
<1>2. IsFiniteSet(Pending)
  <2>1. Pending \subseteq 1 .. MaxAnalyses
    BY DEF Pending, Room, AnalysisId
  <2>2. IsFiniteSet(1 .. MaxAnalyses)
    BY FS_Interval, BoundAssumption
  <2> QED
    BY <2>1, <2>2, FS_Subset
<1>3. session'[w] = [NoSession EXCEPT !.job = "place", !.queue = Pending] /\ bets' = bets
      /\ Len(bets) + Reserved + Cardinality(Pending) <= MaxBets
  BY SessionChanged DEF PlaceBegin, Calm, database
<1>4. session'[w].queue = Pending /\ session'[w].add = <<>>
  BY <1>3 DEF NoSession
<1>5. Cardinality(Pending) \in Nat /\ Len(bets) \in Nat /\ Len(<<>>) = 0
  BY <1>2, FS_CardinalityType DEF Calm, TypeOK
<1> QED
  BY <1>1, <1>2, <1>3, <1>4, <1>5, BoundAssumption DEF RoomFor

\* Taking an analysis off the queue makes room for its row.
LEMMA RoomTaken ==
  ASSUME NEW queue, IsFiniteSet(queue), NEW id \in queue
  PROVE  /\ IsFiniteSet(queue \ {id})
         /\ Cardinality(queue \ {id}) = Cardinality(queue) - 1
         /\ Cardinality(queue) \in Nat \ {0}
  BY FS_RemoveElement, FS_EmptySet, FS_CardinalityType

LEMMA AfterPlaceQueue ==
  ASSUME NEW queue
  PROVE  AfterPlace(queue).job = "place" => AfterPlace(queue).queue = queue
  BY DEF AfterPlace, NoSession

LEMMA RoomPlace ==
  ASSUME Calm, Calm', Room, NEW w \in Worker, Place(w)
  PROVE  RoomFor(session[w])' /\ Len(bets') <= MaxBets
<1> DEFINE s == session[w]
           n == session'[w]
<1>1. /\ s.job = "place" /\ IsFiniteSet(s.queue) /\ TypeOK
      /\ Len(bets) + Cardinality(s.queue) + Len(s.add) <= MaxBets
      /\ Len(bets) \in Nat /\ Len(bets') \in Nat /\ Len(s.add) \in Nat /\ Cardinality(s.queue) \in Nat
      /\ bets \in Seq(Bet) /\ MaxBets \in Nat
  <2>1. s.job = "place"
    BY DEF Place, PlaceSkip, PlaceReject, PlaceAdmit, PlaceDebit, At
  <2>2. TypeOK /\ bets \in Seq(Bet) /\ bets' \in Seq(Bet) /\ s.add \in Seq(Bet) /\ MaxBets \in Nat
    BY BoundAssumption DEF Calm, TypeOK, Session
  <2>3. IsFiniteSet(s.queue) /\ Len(bets) + Cardinality(s.queue) + Len(s.add) <= MaxBets
    BY <2>1 DEF Room, RoomFor
  <2> QED
    BY <2>1, <2>2, <2>3, FS_CardinalityType
<1>2. CASE PlaceSkip(w)
  <2>1. PICK id \in s.queue : Become(w, AfterPlace(s.queue \ {id})) /\ bets' = bets
    BY <1>2 DEF PlaceSkip, First, database
  <2>2. n = AfterPlace(s.queue \ {id})
    BY <1>1, <2>1, SessionChanged
  <2>3. n.add = <<>> /\ (n.job = "place" => n.queue = s.queue \ {id})
    BY <2>2, AfterPlaceFields, AfterPlaceQueue
  <2> HIDE DEF n
  <2>5. IsFiniteSet(s.queue \ {id}) /\ Cardinality(s.queue \ {id}) = Cardinality(s.queue) - 1
    BY <1>1, <2>1, RoomTaken
  <2>4. RoomFor(n) /\ Len(bets) <= MaxBets
    <3>1. Len(n.add) = 0
      BY <2>3
    <3> HIDE DEF s
    <3> QED
      <4> DEFINE L == Len(bets)
                 C == Cardinality(s.queue)
                 D == Cardinality(s.queue \ {id})
                 A == Len(s.add)
      <4>1. L \in Nat /\ C \in Nat /\ A \in Nat /\ MaxBets \in Nat /\ L + C + A <= MaxBets /\ D = C - 1
        BY <1>1, <2>5
      <4> HIDE DEF L, C, D, A
      <4>2. L <= MaxBets /\ L + D + 0 <= MaxBets
        BY <4>1
      <4> QED
        BY <2>3, <2>5, <3>1, <4>2 DEF RoomFor, L, D
  <2> QED
    BY <2>1, <2>4 DEF RoomFor, n
<1>3. CASE PlaceReject(w)
  <2>1. PICK a \in analyses :
          /\ a.id \in s.queue /\ Become(w, AfterPlace(s.queue \ {a.id}))
          /\ bets' = Append(bets, [NewBet(a, Stake(a), "rejected") EXCEPT !.filled = {}])
    BY <1>3 DEF PlaceReject, First
  <2>2. n = AfterPlace(s.queue \ {a.id})
    BY <1>1, <2>1, SessionChanged
  <2>3. n.add = <<>> /\ (n.job = "place" => n.queue = s.queue \ {a.id})
    BY <2>2, AfterPlaceFields, AfterPlaceQueue
  <2>4. Len(bets') = Len(bets) + 1
    BY <1>1, <2>1
  <2> HIDE DEF n
  <2>5. Len(bets') <= MaxBets
        /\ (n.job = "place" => IsFiniteSet(n.queue) /\ Len(bets') + Cardinality(n.queue) + Len(n.add) <= MaxBets)
    <3>1. /\ IsFiniteSet(s.queue \ {a.id}) /\ Cardinality(s.queue \ {a.id}) = Cardinality(s.queue) - 1
          /\ Cardinality(s.queue) \in Nat \ {0}
      BY <1>1, <2>1, RoomTaken
    <3>2. Len(n.add) = 0
      BY <2>3
    <3> HIDE DEF s
    <3> QED
      <4> DEFINE L == Len(bets)
                 C == Cardinality(s.queue)
                 D == Cardinality(s.queue \ {a.id})
                 A == Len(s.add)
      <4>1. /\ L \in Nat /\ C \in Nat \ {0} /\ A \in Nat /\ MaxBets \in Nat
            /\ L + C + A <= MaxBets /\ D = C - 1
        BY <1>1, <3>1
      <4> HIDE DEF L, C, D, A
      <4>2. L + 1 <= MaxBets /\ L + 1 + D + 0 <= MaxBets
        BY <4>1
      <4> QED
        BY <2>3, <2>4, <3>1, <3>2, <4>2 DEF L, D
  <2> QED
    BY <2>5 DEF RoomFor, n
<1>4. CASE PlaceAdmit(w)
  <2>1. PICK a \in analyses, accepted \in IF Live THEN BOOLEAN ELSE {TRUE} :
          /\ a.id \in s.queue /\ n.queue = s.queue \ {a.id} /\ Admitted(n, a, accepted)
    BY <1>1, <1>4, PlaceAdmits
  <2>2. bets' = bets
    BY <1>4 DEF PlaceAdmit, database
  <2> HIDE DEF n
  <2>3. Len(n.add) = 1
    BY <2>1 DEF Admitted
  <2>4. Len(bets) <= MaxBets /\ IsFiniteSet(n.queue) /\ Len(bets) + Cardinality(n.queue) + Len(n.add) <= MaxBets
    <3>1. IsFiniteSet(s.queue \ {a.id}) /\ Cardinality(s.queue \ {a.id}) = Cardinality(s.queue) - 1
      BY <1>1, <2>1, RoomTaken
    <3> QED
      BY <1>1, <2>1, <2>3, <3>1
  <2> QED
    BY <2>2, <2>4 DEF RoomFor, n
<1>5. CASE PlaceDebit(w)
  <2>1. n.queue = s.queue /\ Len(n.add) = 1 /\ s.step = "debit"
    BY <1>1, <1>5, PlaceDebits
  <2>2. bets' = bets /\ Len(s.add) = 1
    BY <1>5, <2>1 DEF PlaceDebit, database, Calm, InTune
  <2> HIDE DEF n
  <2>3. Len(bets) <= MaxBets
    BY <1>1, BoundAssumption
  <2> QED
    BY <1>1, <2>1, <2>2, <2>3 DEF RoomFor, n
<1> QED
  BY <1>2, <1>3, <1>4, <1>5 DEF Place

LEMMA RoomEnd ==
  ASSUME Calm, Calm', Room, NEW w \in Worker, End(w)
  PROVE  RoomFor(session[w])' /\ Len(bets') <= MaxBets
<1> DEFINE s == session[w]
           n == session'[w]
           queue == IF s.job = "place" THEN s.queue ELSE {}
<1>1. n = AfterPlace(queue)
  BY SessionChanged DEF End, Commit, Rollback, AfterSession, Calm
<1>2. n.add = <<>> /\ (n.job = "place" => n.queue = queue)
  BY <1>1, AfterPlaceFields, AfterPlaceQueue
<1>3. s.job # "place" => ~(n.job = "place")
  BY <1>1 DEF AfterPlace, NoSession
<1>4. s.job = "place" => IsFiniteSet(s.queue) /\ Len(bets) + Cardinality(s.queue) + Len(s.add) <= MaxBets
  BY DEF Room, RoomFor
<1>5. Len(bets') = Len(bets) \/ (s.job = "place" /\ Len(s.add) = 1 /\ Len(bets') = Len(bets) + 1)
  <2>1. CASE Commit(w) /\ s.job = "place"
    <3>1. bets' = Append(bets, s.add[1]) /\ bets \in Seq(Bet)
      BY <2>1, CommitWrites DEF Calm, TypeOK
    <3>2. Len(s.add) = 1
      BY <2>1 DEF Commit, Finished, Calm, InTune
    <3> QED
      BY <2>1, <3>1, <3>2
  <2>2. CASE Commit(w) /\ s.job # "place"
    BY <2>2, CommitWrites
  <2> QED
    BY <2>1, <2>2 DEF End, Rollback, database
<1>6. /\ Len(bets) \in Nat /\ Len(s.add) \in Nat /\ MaxBets \in Nat /\ Len(bets) <= MaxBets
      /\ s.job = "place" => Cardinality(s.queue) \in Nat
  BY <1>4, FS_CardinalityType, BoundAssumption DEF Calm, TypeOK, Session, Room
<1> HIDE DEF n, s, queue
<1>7. n.job = "place" => IsFiniteSet(n.queue) /\ Len(bets') + Cardinality(n.queue) + Len(n.add) <= MaxBets
  <2>1. ASSUME n.job = "place"
        PROVE  IsFiniteSet(n.queue) /\ Len(bets') + Cardinality(n.queue) + Len(n.add) <= MaxBets
    <3>1. s.job = "place" /\ n.queue = s.queue /\ Len(n.add) = 0
      BY <1>2, <1>3, <2>1 DEF queue
    <3>2. Len(bets') <= Len(bets) + Len(s.add) /\ Len(bets') \in Nat
      <4>1. CASE Len(bets') = Len(bets)
        BY <1>6, <4>1
      <4>2. CASE Len(s.add) = 1 /\ Len(bets') = Len(bets) + 1
        BY <1>6, <4>2
      <4> QED
        BY <1>5, <4>1, <4>2
    <3> QED
      BY <1>4, <1>6, <3>1, <3>2
  <2> QED
    BY <2>1
<1>8. Len(bets') <= MaxBets
  <2>1. CASE Len(bets') = Len(bets)
    BY <1>6, <2>1
  <2>2. CASE s.job = "place" /\ Len(s.add) = 1 /\ Len(bets') = Len(bets) + 1
    BY <1>4, <1>6, <2>2
  <2> QED
    BY <1>5, <2>1, <2>2
<1> QED
  BY <1>7, <1>8 DEF RoomFor, n

LEMMA RoomInductive == ASSUME OneJob PROVE Calm /\ Calm' /\ Room /\ [Next]_vars => Room'
<1> SUFFICES ASSUME Calm, Calm', Room, [Next]_vars PROVE Room'
  OBVIOUS
<1>1. ASSUME NEW a \in analyses' PROVE a.id \in AnalysisId
  <2>1. CASE a \in analyses
    BY <2>1 DEF Room
  <2>2. CASE \E w \in Worker : Analyze(w)
    BY <1>1, <2>2 DEF Analyze, Room
  <2>3. CASE \E w \in Worker : Commit(w)
    BY <1>1, <2>3 DEF Commit, Room
  <2> QED
    BY <1>1, <2>1, <2>2, <2>3
         DEF Next, Begin, PlaceBegin, UpdateBegin, RiskBegin, SettleBegin, CleanupBegin,
         Fetch, End, Rollback, NextDay, database, ResetApi, ResetCli, vars,
         Place, PlaceSkip, PlaceReject, PlaceAdmit, PlaceDebit,
         Settle, SettleExpire, SettleAsk, SettlePending, SettleAnswer,
         Money, UpdateDebit, PostCredit
<1>2. CASE session' = session /\ Len(bets') = Len(bets)
  BY <1>1, <1>2 DEF Room, RoomFor
<1>3. CASE ResetApi \/ ResetCli
  <2>1. \A w \in Worker : session'[w].job = "idle"
    BY <1>3 DEF ResetApi, ResetCli, ResetAllowed, OneJob, Idle
  <2>2. Len(bets') <= MaxBets
    BY <1>3, BoundAssumption DEF ResetApi, ResetCli, Room, Calm, TypeOK
  <2> QED
    BY <1>1, <2>1, <2>2 DEF Room, RoomFor
<1>4. ASSUME NEW w \in Worker, Begin(w) \/ Place(w) \/ Settle(w) \/ Money(w) \/ End(w)
      PROVE  Room'
  <2>1. Turn(w)
    BY <1>4, TurnTaken DEF Calm
  <2>2. \A v \in Worker \ {w} : session'[v].job = "idle"
    BY <2>1 DEF Turn, Alone, Idle
  <2>3. RoomFor(session[w])' /\ Len(bets') <= MaxBets
    <3>1. CASE Place(w) \/ End(w)
      BY <3>1, RoomPlace, RoomEnd
    <3>2. CASE PlaceBegin(w)
      BY <3>2, RoomBegin DEF PlaceBegin, database, Room
    <3>3. CASE Begin(w) /\ ~PlaceBegin(w)
      <4>1. session'[w].job # "place"
        BY <3>3, UpdateLoads, RiskLoads, CleanupLoads, SettleBegins, Zenon DEF Begin, LoadedBy, Calm
      <4> QED
        BY <3>3, <4>1 DEF Room, RoomFor, Begin, UpdateBegin, RiskBegin, SettleBegin, CleanupBegin, database
    <3>4. CASE Settle(w) \/ Money(w)
      <4>1. session'[w].job # "place"
        BY <3>4, SettleExpires, SettleAsks, SettlePends, SettleAnswers, UpdateDebits, CreditPosts
           DEF Settle, Money, Rest, Still, Calm
      <4> QED
        BY <3>4, <4>1 DEF Room, RoomFor, database,
         Settle, SettleExpire, SettleAsk, SettlePending, SettleAnswer,
         Money, UpdateDebit, PostCredit
    <3> QED
      BY <1>4, <3>1, <3>2, <3>3, <3>4
  <2> QED
    BY <1>1, <2>2, <2>3 DEF Room, RoomFor
<1> QED
  BY <1>2, <1>3, <1>4 DEF Next, vars, Fetch, Analyze, NextDay, database

LEMMA RoomInit == Init => Room
  BY BoundAssumption DEF Init, Room, RoomFor, NoSession
-----------------------------------------------------------------------------
(* No market is written off while a bet on it is open.                      *)

Final == {"settled_win", "settled_loss", "expired"}

\* A job that ends a market's trading closes every open row of the market in
\* the same transaction, and a bet that opens keeps its market in play.
Marked(s) ==
  /\ \A m \in s.due : s.status[m] = "kept"
  /\ \A m \in Market : s.status[m] \in Final =>
       /\ s.job = "settle"
       /\ \A i \in OpenIn(m) : i \in BetId /\ s.seen[i] # NoRow /\ ~IsOpen(s.mine[i])
  /\ s.step = "ask" =>
       \E m \in Market : s.status[m] = "kept" /\ m \notin s.due /\ s.todo = OpenIn(m)
  /\ s.add # <<>> /\ IsOpen(s.add[1]) =>
       LET m == s.add[1].market IN
         \/ s.status[m] = "bet_placed"
         \/ s.status[m] = "kept" /\ markets[m].status = "bet_placed"

Tended ==
  /\ Calm /\ Room
  /\ \A w \in Worker : Marked(session[w])
  /\ NoneStranded

LEMMA FreshMarked == ASSUME NEW w \in Worker, Fresh(session'[w]) PROVE Marked(session[w])'
  BY FreshFields DEF Marked, Final

LEMMA RowIds == ASSUME Tended PROVE DOMAIN bets \subseteq BetId
<1>1. DOMAIN bets = 1 .. Len(bets) /\ Len(bets) \in Nat /\ Len(bets) <= MaxBets /\ MaxBets \in Nat
  BY BoundAssumption DEF Tended, Calm, TypeOK, Room
<1> QED
  BY <1>1 DEF BetId

LEMMA BeginMarked ==
  ASSUME Tended, NEW w \in Worker, Begin(w)
  PROVE  Marked(session[w])'
<1>1. CASE PlaceBegin(w)
  BY <1>1, EndFresh, FreshMarked DEF Tended, Calm
<1>2. CASE ~PlaceBegin(w)
  <2>1. /\ session'[w].add = <<>> /\ session'[w].step = "run"
        /\ session'[w].status = [m \in Market |-> "kept"]
    BY <1>2, UpdateLoads, RiskLoads, CleanupLoads, SettleBegins
    DEF Tended, Calm, Begin, LoadedBy, NoSession
  <2>2. session'[w].due \subseteq Market
    <3>1. TypeOK'
      BY UpdateBeginStep, RiskBeginStep, CleanupBeginStep, SettleBeginStep, <1>2 DEF Begin, Tended, Calm
    <3> QED
      BY <3>1 DEF TypeOK, Session
  <2> QED
    BY <2>1, <2>2 DEF Marked, Final
<1> QED
  BY <1>1, <1>2

LEMMA PlaceMarked ==
  ASSUME Tended, NEW w \in Worker, PlaceSkip(w) \/ PlaceAdmit(w) \/ PlaceDebit(w)
  PROVE  Marked(session[w])'
<1> DEFINE n == session'[w]
           s == session[w]
<1>1. /\ UNCHANGED <<bets, markets>> /\ TypeOK /\ InTune(s) /\ s \in Session /\ Marked(s)
      /\ s.add \in Seq(Bet)
  BY DEF Tended, Calm, PlaceSkip, PlaceAdmit, PlaceDebit, database, TypeOK, Session
<1>2. CASE PlaceSkip(w)
  BY <1>1, <1>2, EndFresh, FreshMarked
<1>3. CASE PlaceAdmit(w)
  <2>1. PICK a \in analyses, accepted \in IF Live THEN BOOLEAN ELSE {TRUE} : Admitted(n, a, accepted)
    BY <1>1, <1>3, PlaceAdmits
  <2> HIDE DEF n
  <2>2. a.market \in Market
    BY <1>1 DEF TypeOK, Analysis
  <2>3. /\ n.due = {} /\ n.step = "debit" /\ Len(n.add) = 1
        /\ n.add[1].market = a.market
        /\ n.add[1].status = IF accepted THEN "placed" ELSE "failed"
        /\ \A m \in Market : n.status[m] =
             IF m = a.market /\ accepted /\ markets[a.market].status # "bet_placed"
               THEN "bet_placed" ELSE "kept"
    BY <2>1, <2>2 DEF Admitted, NewBet, NoSession
  <2> QED
    <3>1. \A m \in Market : n.status[m] \notin Final
      BY <2>3 DEF Final
    <3>2. IsOpen(n.add[1]) =>
            \/ n.status[a.market] = "bet_placed"
            \/ n.status[a.market] = "kept" /\ markets[a.market].status = "bet_placed"
      BY <2>2, <2>3 DEF IsOpen
    <3>3. Marked(n)
      BY <2>3, <3>1, <3>2 DEF Marked
    <3> QED
      BY <1>1, <3>3 DEF Marked, IsOpen, OpenIn, OpenIds, n
<1>4. CASE PlaceDebit(w)
  <2>1. /\ s.step = "debit" /\ n.step = "commit" /\ n.status = s.status /\ n.due = s.due
        /\ n.seen = s.seen /\ n.mine = s.mine /\ n.job = s.job
        /\ n.add[1] \in {s.add[1], [s.add[1] EXCEPT !.status = "failed"]}
    BY <1>1, <1>4, PlaceDebits
  <2>2. s.add # <<>> /\ s.add[1] \in Bet
    BY <1>1, <2>1 DEF InTune
  <2>3. IsOpen(n.add[1]) => n.add[1] = s.add[1]
    BY <2>1, <2>2 DEF IsOpen, Bet
  <2> HIDE DEF n
  <2> QED
    BY <1>1, <2>1, <2>2, <2>3 DEF Marked, OpenIn, OpenIds, n
<1> QED
  BY <1>2, <1>3, <1>4

LEMMA SettleMarked ==
  ASSUME Tended, NEW w \in Worker, Settle(w)
  PROVE  Marked(session[w])'
<1> DEFINE n == session'[w]
           s == session[w]
<1>1. /\ UNCHANGED <<bets, markets>> /\ TypeOK /\ InTune(s) /\ s \in Session /\ Marked(s)
      /\ s.todo \in SUBSET BetId /\ s.due \in SUBSET Market /\ DOMAIN s.status = Market
  BY DEF Tended, Calm, Settle, SettleExpire, SettleAsk, SettlePending, SettleAnswer, database,
         TypeOK, Session
<1>2. \A m : OpenIn(m) \subseteq BetId /\ OpenIn(m)' = OpenIn(m) /\ \A i \in OpenIn(m) : bets[i].market = m
  BY <1>1, RowIds DEF OpenIn, OpenIds
<1>3. \A i \in BetId : s.seen[i] # NoRow => bets[i] = s.seen[i]
  BY <1>1 DEF InTune
<1> HIDE DEF n
<1>4. CASE SettleExpire(w)
  <2>1. PICK m \in s.due :
          /\ OpenIn(m) = {} /\ s.job = "settle" /\ s.step = "run"
          /\ Rest(n, s) /\ n.step = s.step /\ n.due = s.due \ {m}
          /\ n.seen = s.seen /\ n.mine = s.mine
          /\ n.status = [s.status EXCEPT ![m] = "expired"]
    BY <1>1, <1>4, SettleExpires DEF n
  <2>2. s.add = <<>>
    BY <1>1, <2>1 DEF InTune
  <2>3. \A k \in Market : n.status[k] = IF k = m THEN "expired" ELSE s.status[k]
    BY <1>1, <2>1
  <2> QED
    BY <1>1, <1>2, <2>1, <2>2, <2>3 DEF Marked, Rest, n
<1>5. CASE SettleAsk(w)
  <2>1. PICK m \in s.due :
          LET ids == OpenIn(m) \cap BetId IN
          /\ s.job = "settle" /\ s.step = "run"
          /\ Rest(n, s) /\ n.step = "ask" /\ n.todo = ids /\ n.due = s.due \ {m}
          /\ n.seen = [i \in BetId |-> IF i \in ids THEN bets[i] ELSE s.seen[i]]
          /\ n.mine = [i \in BetId |-> IF i \in ids THEN bets[i] ELSE s.mine[i]]
          /\ n.status = s.status
    BY <1>1, <1>5, SettleAsks DEF n
  <2>2. s.add = <<>>
    BY <1>1, <2>1 DEF InTune
  <2>3. s.status[m] = "kept" /\ m \in Market
    BY <1>1 DEF Marked
  <2>4. ASSUME NEW k \in Market, s.status[k] \in Final, NEW i \in OpenIn(k)
        PROVE  i \in BetId /\ n.seen[i] # NoRow /\ ~IsOpen(n.mine[i])
    <3>1. k # m
      BY <2>3, <2>4 DEF Final
    <3>2. i \notin OpenIn(m) /\ i \in BetId
      BY <1>2, <3>1
    <3> QED
      BY <1>1, <2>1, <2>4, <3>2 DEF Marked
  <2>5. n.todo = OpenIn(m)
    BY <1>2, <2>1
  <2>6. n.job = "settle" /\ n.add = <<>> /\ n.step = "ask" /\ n.due = s.due \ {m}
        /\ n.status = s.status
    BY <2>1, <2>2 DEF Rest
  <2>7. \A k \in n.due : n.status[k] = "kept"
    BY <1>1, <2>6 DEF Marked
  <2> QED
    BY <1>2, <2>3, <2>4, <2>5, <2>6, <2>7 DEF Marked, n
<1>6. CASE SettlePending(w)
  <2>1. /\ s.job = "settle" /\ s.step = "ask"
        /\ Rest(n, s) /\ n.step = "run" /\ n.todo = {} /\ n.due = s.due
        /\ n.seen = [i \in BetId |-> IF i \in s.todo THEN NoRow ELSE s.seen[i]]
        /\ n.mine = [i \in BetId |-> IF i \in s.todo THEN NoRow ELSE s.mine[i]]
        /\ n.status = s.status
    BY <1>1, <1>6, SettlePends DEF n
  <2>2. s.add = <<>>
    BY <1>1, <2>1 DEF InTune
  <2>3. PICK m \in Market : s.status[m] = "kept" /\ s.todo = OpenIn(m)
    BY <1>1, <2>1 DEF Marked
  <2>4. ASSUME NEW k \in Market, s.status[k] \in Final, NEW i \in OpenIn(k)
        PROVE  i \in BetId /\ n.seen[i] # NoRow /\ ~IsOpen(n.mine[i])
    <3>1. k # m
      BY <2>3, <2>4 DEF Final
    <3>2. i \notin s.todo /\ i \in BetId
      BY <1>2, <2>3, <3>1
    <3> QED
      BY <1>1, <2>1, <2>4, <3>2 DEF Marked
  <2>5. n.job = "settle" /\ n.add = <<>>
    BY <2>1, <2>2 DEF Rest
  <2>6. \A k \in n.due : n.status[k] = "kept"
    BY <1>1, <2>1 DEF Marked
  <2> QED
    BY <1>2, <2>1, <2>4, <2>5, <2>6 DEF Marked, n
<1>7. CASE SettleAnswer(w)
  <2>1. PICK outcome \in Side, i0 \in s.todo :
          /\ s.job = "settle" /\ s.step = "ask"
          /\ Rest(n, s) /\ n.step = "run" /\ n.todo = s.todo /\ n.due = s.due
          /\ n.seen = s.seen
          /\ n.mine = [i \in BetId |-> IF i \in s.todo THEN Decided(s.mine[i], outcome)
                                                       ELSE s.mine[i]]
          /\ n.bill = [i \in BetId |-> IF i \in s.todo
                         THEN SettlementCredit(s.mine[i], outcome, FeePct) ELSE 0]
          /\ n.base = s.base /\ n.purse = s.purse
          /\ n.status = [s.status EXCEPT ![s.mine[i0].market] =
                           IF outcome = "YES" THEN "settled_win" ELSE "settled_loss"]
    BY <1>1, <1>7, SettleAnswers DEF n
  <2>2. s.add = <<>>
    BY <1>1, <2>1 DEF InTune
  <2>3. PICK m \in Market : s.status[m] = "kept" /\ m \notin s.due /\ s.todo = OpenIn(m)
    BY <1>1, <2>1 DEF Marked
  <2>4. s.mine[i0].market = m
    <3>1. i0 \in BetId /\ s.seen[i0] # NoRow /\ s.mine[i0] = s.seen[i0]
      BY <1>1, <2>1 DEF InTune
    <3> QED
      BY <1>2, <1>3, <2>1, <2>3, <3>1
  <2>5. \A k \in Market : k # m => n.status[k] = s.status[k]
    BY <1>1, <2>1, <2>4
  <2>6. ASSUME NEW i \in s.todo PROVE i \in BetId /\ n.seen[i] # NoRow /\ ~IsOpen(n.mine[i])
    <3>1. i \in BetId /\ s.seen[i] # NoRow
      BY <1>1, <2>6 DEF InTune
    <3>2. s.mine[i] \in Bet
      BY <1>1, <3>1, HeldRows
    <3>3. ~IsOpen(Decided(s.mine[i], outcome))
      BY <3>2 DEF Decided, IsOpen, Bet
    <3> QED
      BY <2>1, <2>6, <3>1, <3>3
  <2>7. ASSUME NEW k \in Market, n.status[k] \in Final, NEW i \in OpenIn(k)
        PROVE  i \in BetId /\ n.seen[i] # NoRow /\ ~IsOpen(n.mine[i])
    <3>1. CASE k = m
      BY <2>3, <2>6, <2>7, <3>1
    <3>2. CASE k # m
      <4>1. s.status[k] \in Final /\ i \notin s.todo /\ i \in BetId
        BY <1>2, <2>3, <2>5, <2>7, <3>2
      <4> QED
        BY <1>1, <2>1, <2>7, <4>1 DEF Marked
    <3> QED
      BY <3>1, <3>2
  <2>8. n.job = "settle" /\ n.add = <<>>
    BY <2>1, <2>2 DEF Rest
  <2>9. \A k \in n.due : n.status[k] = "kept"
    BY <1>1, <2>1, <2>3, <2>5 DEF Marked
  <2> QED
    BY <1>2, <2>1, <2>7, <2>8, <2>9 DEF Marked, n
<1> QED
  BY <1>4, <1>5, <1>6, <1>7 DEF Settle

LEMMA MoneyMarked ==
  ASSUME Tended, NEW w \in Worker, Money(w)
  PROVE  Marked(session[w])'
<1> DEFINE n == session'[w]
           s == session[w]
<1>1. UNCHANGED <<bets, markets>> /\ TypeOK /\ Marked(s)
  BY DEF Tended, Calm, Money, UpdateDebit, PostCredit, database
<1>2. Still(n, s) /\ s.step = "run"
  BY <1>1, UpdateDebits, CreditPosts DEF Money
<1> HIDE DEF n
<1> QED
  BY <1>1, <1>2 DEF Marked, Still, Rest, OpenIn, OpenIds, n

LEMMA CommitStranded ==
  ASSUME Tended, NEW w \in Worker, Commit(w)
  PROVE  NoneStranded'
<1> DEFINE s == session[w]
<1>1. /\ TypeOK /\ InTune(s) /\ Marked(s) /\ s \in Session
      /\ bets \in Seq(Bet) /\ s.add \in Seq(Bet)
  BY DEF Tended, Calm, TypeOK, Session
<1>2. markets' = [m \in Market |-> IF s.status[m] = "kept" THEN markets[m]
                                   ELSE [markets[m] EXCEPT !.status = s.status[m]]]
  BY DEF Commit
<1>3. ASSUME NEW m \in Market
      PROVE  markets'[m].status = IF s.status[m] = "kept" THEN markets[m].status ELSE s.status[m]
  BY <1>1, <1>2 DEF TypeOK
<1>4. ASSUME NEW i \in DOMAIN bets, IsOpen(bets'[i])
      PROVE  markets'[bets'[i].market].status \in {"open", "bet_placed"}
  <2> DEFINE m == bets[i].market
  <2>1. bets'[i].market = m /\ m \in Market /\ IsOpen(bets[i])
    <3>1. bets[i] \in Bet
      BY <1>1, AmountType
    <3> QED
      BY <1>1, <1>4, <3>1, CommitRows DEF Bet, Tended, Calm
  <2>2. bets'[i] = IF i \in BetId /\ s.seen[i] # NoRow THEN s.mine[i] ELSE bets[i]
    BY CommitWrites DEF Tended
  <2>3. i \in OpenIn(m)
    BY <2>1 DEF OpenIn, OpenIds
  <2>4. s.status[m] \notin Final
    BY <1>1, <1>4, <2>1, <2>2, <2>3 DEF Marked
  <2>5. s.status[m] \in {"kept", "open", "bet_placed"}
    BY <1>1, <2>1, <2>4 DEF Session, MarketStatus, Final
  <2>6. markets[m].status \in {"open", "bet_placed"}
    BY <2>3 DEF Tended, NoneStranded, OpenIn
  <2> QED
    BY <1>3, <2>1, <2>5, <2>6
<1>5. CASE s.job = "place"
  <2> DEFINE b == s.add[1]
             m == s.add[1].market
  <2>1. bets' = Append(bets, b) /\ b \in Bet
    BY <1>5, CommitWrites DEF Tended
  <2>2. s.add # <<>>
    BY <1>1, <1>5 DEF InTune, Commit, Finished
  <2>3. m \in Market
    BY <2>1 DEF Bet
  <2>4. IsOpen(b) => markets'[m].status = "bet_placed"
    BY <1>1, <1>3, <2>2, <2>3 DEF Marked
  <2> HIDE DEF b
  <2>5. /\ bets'[Len(bets) + 1] = b
        /\ DOMAIN bets' = DOMAIN bets \cup {Len(bets) + 1}
    BY <1>1, <2>1, OpenAppend
  <2>6. ASSUME NEW i \in OpenIds' PROVE markets'[bets'[i].market].status \in {"open", "bet_placed"}
    <3>1. IsOpen(bets'[i]) /\ i \in DOMAIN bets'
      BY <2>6 DEF OpenIds, IsOpen
    <3>2. CASE i \in DOMAIN bets
      BY <1>4, <3>1, <3>2
    <3>3. CASE i = Len(bets) + 1
      <4>1. b.market = m
        BY DEF b
      <4> QED
        BY <2>4, <2>5, <3>1, <3>3, <4>1
    <3> QED
      BY <2>5, <3>1, <3>2, <3>3
  <2> QED
    BY <2>6 DEF NoneStranded
<1>6. CASE s.job # "place"
  <2>1. Len(bets') = Len(bets) /\ TypeOK'
    BY <1>1, <1>6, CommitWrites, CommitStep DEF Tended
  <2>2. DOMAIN bets' = DOMAIN bets
    BY <1>1, <2>1 DEF TypeOK
  <2>3. ASSUME NEW i \in OpenIds' PROVE markets'[bets'[i].market].status \in {"open", "bet_placed"}
    BY <1>4, <2>2, <2>3, Zenon DEF OpenIds, IsOpen
  <2> QED
    BY <2>3 DEF NoneStranded
<1> QED
  BY <1>5, <1>6

LEMMA StrandedInductive == ASSUME OneJob PROVE Tended /\ [Next]_vars => NoneStranded'
<1> SUFFICES ASSUME Tended, [Next]_vars PROVE NoneStranded'
  OBVIOUS
<1>1. TypeOK /\ Calm /\ bets \in Seq(Bet)
  BY DEF Tended, Calm, TypeOK
<1>2. CASE UNCHANGED <<bets, markets>>
  BY <1>2 DEF Tended, NoneStranded, OpenIds
<1>3. ASSUME NEW w \in Worker, Fetch(w) PROVE NoneStranded'
  <2>1. PICK m \in Market, q \in Quotes :
          markets' = [markets EXCEPT ![m] = [yes |-> q.yes, no |-> q.no, status |-> "open"]] /\ bets' = bets
    BY <1>3 DEF Fetch
  <2>2. \A k \in Market : markets'[k].status = IF k = m THEN "open" ELSE markets[k].status
    BY <1>1, <2>1 DEF TypeOK
  <2>3. \A i \in OpenIds : bets[i].market \in Market
    <3>1. \A i \in OpenIds : bets[i] \in Bet
      BY <1>1, AmountType DEF OpenIds
    <3> QED
      BY <3>1 DEF Bet
  <2> QED
    BY <2>1, <2>2, <2>3 DEF Tended, NoneStranded, OpenIds
<1>4. ASSUME NEW w \in Worker, NEW a \in analyses, PlaceReject(w), ~NotTradable(a.market),
             bets' = Append(bets, [NewBet(a, Stake(a), "rejected") EXCEPT !.filled = {}])
      PROVE  NoneStranded'
  <2> DEFINE b == [NewBet(a, Stake(a), "rejected") EXCEPT !.filled = {}]
  <2>1. b \in Bet /\ ~IsOpen(b)
    BY <1>1, <1>4, RejectedRow DEF IsOpen
  <2>2. bets' = Append(bets, b)
    BY <1>4
  <2> HIDE DEF b
  <2>3. OpenIds' = OpenIds /\ \A i \in DOMAIN bets : bets'[i] = bets[i]
    BY <1>1, <2>1, <2>2, OpenAppend
  <2>4. markets' = markets
    BY <1>4 DEF PlaceReject
  <2> QED
    BY <2>3, <2>4 DEF Tended, NoneStranded, OpenIds
<1>5. CASE ResetApi
  <2>1. DOMAIN bets' = {}
    BY <1>5 DEF ResetApi
  <2> QED
    BY <2>1 DEF NoneStranded, OpenIds
<1>6. CASE ResetCli
  <2>1. \A i \in DOMAIN bets' : bets'[i] = [bets[i] EXCEPT !.status = "cancelled"] /\ bets[i] \in Bet
    BY <1>1, <1>6 DEF ResetCli
  <2>2. \A i \in DOMAIN bets' : ~IsOpen(bets'[i])
    BY <2>1 DEF IsOpen, Bet
  <2> QED
    BY <2>2 DEF NoneStranded, OpenIds, IsOpen
<1>7. ASSUME Next, NEW w \in Worker, PlaceReject(w) PROVE NoneStranded'
  <2>1. PICK a \in analyses :
          /\ bets' = Append(bets, [NewBet(a, Stake(a), "rejected") EXCEPT !.filled = {}])
          /\ ~NotTradable(a.market)
    BY <1>7 DEF PlaceReject
  <2> QED
    BY <1>4, <1>7, <2>1
<1>8. UNCHANGED vars => UNCHANGED <<bets, markets>>
  BY DEF vars
<1> QED
  BY <1>2, <1>3, <1>5, <1>6, <1>7, <1>8, CommitStranded
     DEF Next, Begin, PlaceBegin, UpdateBegin, RiskBegin, SettleBegin, CleanupBegin,
         Analyze, End, Rollback, NextDay, database,
         Place, PlaceSkip, PlaceAdmit, PlaceDebit,
         Settle, SettleExpire, SettleAsk, SettlePending, SettleAnswer,
         Money, UpdateDebit, PostCredit

LEMMA TendedInductive == ASSUME OneJob PROVE Tended /\ [Next]_vars => Tended'
<1> SUFFICES ASSUME Tended, [Next]_vars, NEW v \in Worker PROVE Marked(session[v])'
  BY CalmInductive, RoomInductive, StrandedInductive DEF Tended
<1>1. CASE UNCHANGED <<bets, markets>> /\ session'[v] = session[v]
  BY <1>1 DEF Tended, Marked, OpenIn, OpenIds
<1>2. CASE Next /\ ~UNCHANGED Tables
  BY <1>2, WritesLast, FreshMarked DEF Tended, Calm
<1>3. ASSUME Next, session'[v] # session[v] PROVE Marked(session[v])'
  <2>1. PICK w \in Worker : Begin(w) \/ Place(w) \/ Settle(w) \/ Money(w) \/ End(w)
    BY <1>3 DEF Next, Fetch, Analyze, ResetApi, ResetCli, NextDay
  <2>2. v = w
    BY <1>3, <2>1, TurnTaken DEF Tended, Calm, Turn, Alone
  <2>3. CASE PlaceReject(w) \/ End(w)
    BY <2>2, <2>3, EndFresh, FreshMarked DEF Tended, Calm
  <2> QED
    BY <2>1, <2>2, <2>3, BeginMarked, PlaceMarked, SettleMarked, MoneyMarked DEF Place
<1> QED
  BY <1>1, <1>2, <1>3 DEF vars, Tables

LEMMA TendedInit == Init => Tended
<1> SUFFICES ASSUME Init PROVE Tended
  OBVIOUS
<1>1. \A w \in Worker : Fresh(session[w])
  BY NoSessionFresh DEF Init
<1>2. \A w \in Worker : Marked(session[w])
  BY <1>1, FreshFields DEF Marked, Final
<1>3. NoneStranded
  BY DEF Init, NoneStranded, OpenIds
<1> QED
  BY <1>2, <1>3, CalmInit, RoomInit DEF Tended

\* An open position lies on a market that settlement will look at again.
THEOREM NeverStranded == ASSUME OneJob PROVE Spec => []NoneStranded
  BY TendedInit, TendedInductive, PTL DEF Spec, Tended
-----------------------------------------------------------------------------
(* The books, as long as no order is sent to an exchange and the rows are   *)
(* not rewritten from the command line.                                     *)

\* What a row is to the account: what it brought in, or what was paid for it,
\* and, with its ladder, how little and how much that may be.
Owed(b)  == IF IsOpen(b) THEN Paid(b) ELSE 0
Worth(b) == b.pnl - Owed(b)
Floor(b) == Worth(b) - Shortfall(b)
Top(b)   == Worth(b) + Surplus(b)

\* An open row as place_bet leaves it, whatever rungs were filled since.
Begun(b) == b.pnl = 0 /\ b.entry \in 10 .. 990 /\ (b.ladder => 1 \in b.filled)
OpenBegun == \A i \in OpenIds : Begun(bets[i])

\* What a job makes of an open row b: it fills rungs, leaves the account's
\* share of it alone, or closes it.
Grows(b, c, cost) ==
  /\ IsOpen(c) /\ Begun(c) /\ cost \in Nat
  /\ Paid(c) = Paid(b) + cost /\ Floor(c) = Floor(b) - cost /\ Top(c) = Top(b)
  /\ cost > 0 => b.ladder /\ Paid(c) <= b.amount + 1
Keeps(b, c) ==
  IsOpen(c) /\ Begun(c) /\ Paid(c) = Paid(b) /\ Floor(c) = Floor(b) /\ Top(c) = Top(b)
Closes(b, c, credit) ==
  /\ ~IsOpen(c) /\ credit \in Nat
  /\ Floor(c) - Floor(b) <= credit /\ credit <= Top(c) - Top(b)
  /\ c.pnl + Book!Least(Position(b)) <= Floor(c) - Floor(b)
  /\ Top(c) - Top(b) <= c.pnl + Book!Most(Position(b))
  /\ c.pnl >= -Book!Most(Position(b))

LEMMA RowType ==
  ASSUME NEW b \in Bet
  PROVE  /\ Priced(b) /\ Paid(b) \in Nat /\ b.amount \in Nat /\ b.pnl \in Int
         /\ Owed(b) \in Int /\ Worth(b) \in Int /\ Shortfall(b) \in Int /\ Surplus(b) \in Int
         /\ Floor(b) \in Int /\ Top(b) \in Int
<1>1. Priced(b) /\ b.amount \in Nat /\ b.pnl \in Int
  BY BetPriced DEF Bet
<1>2. Paid(b) \in Nat /\ RungAmount(b.amount, 1) \in Nat
  BY <1>1, PaidType, RungAmountType DEF Rung
<1>3. Paid(b) \div 10 \in Int
  BY <1>2
<1>4. Owed(b) \in Int /\ Worth(b) \in Int
  BY <1>1, <1>2 DEF Owed, Worth
<1>5. Shortfall(b) \in Int
  BY DEF Shortfall
<1>6. Surplus(b) \in Int
  BY <1>1, <1>2, <1>3 DEF Surplus
<1> QED
  BY <1>1, <1>2, <1>4, <1>5, <1>6 DEF Floor, Top

LEMMA OpenRow ==
  ASSUME NEW b \in Bet, IsOpen(b), b.pnl = 0
  PROVE  /\ Floor(b) = 0 - Paid(b)
         /\ Top(b) = IF b.ladder THEN 0 - RungAmount(b.amount, 1) ELSE 0 - Paid(b)
<1>1. Paid(b) \in Nat /\ b.amount \in Nat /\ RungAmount(b.amount, 1) \in Nat
  BY RowType, RungAmountType DEF Rung
<1>2. Shortfall(b) = 0
  BY DEF Shortfall, IsOpen
<1>3. Surplus(b) = IF b.ladder THEN Paid(b) - RungAmount(b.amount, 1) ELSE 0
  BY DEF Surplus, IsOpen
<1>4. Worth(b) = 0 - Paid(b)
  BY DEF Worth, Owed
<1> QED
  BY <1>1, <1>2, <1>3, <1>4 DEF Floor, Top

\* Rungs filled: what they cost is what was paid more.
LEMMA RowGrows ==
  ASSUME NEW b \in Bet, IsOpen(b), Begun(b), NEW mark
  PROVE  Grows(b, [b EXCEPT !.filled = @ \cup NewFills(b, mark)], RungsCost(b, NewFills(b, mark)))
<1> DEFINE new == NewFills(b, mark)
           c   == [b EXCEPT !.filled = @ \cup new]
           cost == RungsCost(b, new)
<1>1. new \subseteq Rung \ b.filled /\ (~b.ladder => new = {})
  BY DEF NewFills
<1> HIDE DEF new
<1>2. /\ c \in Bet /\ IsOpen(c) /\ c.pnl = 0 /\ c.amount = b.amount /\ c.ladder = b.ladder
      /\ c.entry = b.entry /\ c.filled = b.filled \cup new
  BY <1>1 DEF Bet, Begun, IsOpen
<1>3. Begun(c)
  BY <1>2 DEF Begun
<1>4. cost \in Nat /\ Paid(b) \in Nat /\ Paid(c) \in Nat /\ Priced(b) /\ Priced(c)
      /\ RungAmount(b.amount, 1) \in Nat
  BY <1>2, RowType, RungsCostType, RungAmountType DEF Rung
<1>5. Paid(c) = Paid(b) + cost /\ (~b.ladder => cost = 0)
  <2>1. CASE b.ladder
    <3>1. Paid(c) = RungsCost(c, c.filled) /\ Paid(b) = RungsCost(b, b.filled)
      BY <1>2, <2>1 DEF Paid
    <3>2. RungsCost(c, c.filled) = RungsCost(b, b.filled \cup new)
      BY <1>2 DEF RungsCost, Over
    <3>3. RungsCost(b, b.filled \cup new) = RungsCost(b, b.filled) + RungsCost(b, new)
      BY <1>1, <1>4, RungsAdd
    <3> QED
      BY <2>1, <3>1, <3>2, <3>3
  <2>2. CASE ~b.ladder
    <3>1. cost = 0
      BY <1>1, <2>2 DEF RungsCost, Over
    <3>2. Paid(c) = Paid(b)
      BY <1>2, <2>2 DEF Paid
    <3> QED
      BY <1>4, <3>1, <3>2
  <2> QED
    BY <2>1, <2>2
<1>6. b.ladder => Paid(c) <= b.amount + 1
  BY <1>2, <1>4, PaidNear
<1> HIDE DEF c, cost
<1>7. Floor(c) = Floor(b) - cost /\ Top(c) = Top(b)
  <2>1. /\ Floor(b) = 0 - Paid(b)
        /\ Top(b) = IF b.ladder THEN 0 - RungAmount(b.amount, 1) ELSE 0 - Paid(b)
    BY OpenRow DEF Begun
  <2>2. /\ Floor(c) = 0 - Paid(c)
        /\ Top(c) = IF c.ladder THEN 0 - RungAmount(c.amount, 1) ELSE 0 - Paid(c)
    BY <1>2, OpenRow
  <2> QED
    BY <1>2, <1>4, <1>5, <2>1, <2>2
<1>8. Grows(b, c, cost)
  BY <1>2, <1>3, <1>4, <1>5, <1>6, <1>7 DEF Grows
<1> QED
  BY <1>8 DEF c, cost, new

\* What closing a position brings, apart from its profit, for its kind.
LEMMA LeastMost ==
  ASSUME NEW b \in Bet
  PROVE  /\ Book!Least(Position(b)) = IF b.ladder THEN Paid(b) - 2 ELSE Paid(b)
         /\ ~b.ladder => Book!Most(Position(b)) = Paid(b)
         /\ b.ladder => /\ Book!Most(Position(b)) >= b.amount
                        /\ Book!Most(Position(b)) >= Paid(b) + Paid(b) \div 10 + 3
                        /\ Book!Most(Position(b)) >= Paid(b)
         /\ Book!Least(Position(b)) \in Int /\ Book!Most(Position(b)) \in Nat
<1> DEFINE p == Position(b)
           T == Paid(b) \div 10
<1>1. Paid(b) \in Nat /\ b.amount \in Nat /\ b.ladder \in BOOLEAN
  BY RowType DEF Bet
<1>2. p.paid = Paid(b) /\ p.stake = b.amount /\ p.split = b.ladder
  BY DEF Position
<1>3. T \in Nat
  BY <1>1
<1>4. /\ Book!Least(p) = IF b.ladder THEN Paid(b) - 2 ELSE Paid(b)
      /\ Book!Most(p) = IF ~b.ladder THEN Paid(b)
                        ELSE IF Paid(b) + T + 3 > b.amount THEN Paid(b) + T + 3 ELSE b.amount
  BY <1>2 DEF Book!Least, Book!Most
<1> HIDE DEF T, p
<1> QED
  BY <1>1, <1>3, <1>4 DEF T, p

\* A closed row: what was credited fits between its floor and its top.
LEMMA RowCloses ==
  ASSUME NEW b \in Bet, IsOpen(b), Begun(b), NEW c \in Bet, Kin(c, b), c.filled = b.filled,
         NEW credit \in Nat,
         \/ /\ c.status = "closed_early"
            /\ IF b.ladder THEN /\ c.pnl + Paid(b) - 2 <= credit
                                /\ credit <= c.pnl + Paid(b) + Paid(b) \div 10 + 3
                           ELSE c.pnl = credit - b.amount
         \/ c.status \in {"won", "lost"} /\ c.pnl = credit - b.amount
         \/ c.status = "cancelled" /\ c.pnl = 0 /\ credit = Paid(b)
  PROVE  Closes(b, c, credit)
<1> DEFINE P == Paid(b)
           q == RungAmount(b.amount, 1)
           a == b.amount
           n == c.pnl
           T == P \div 10
           least == Book!Least(Position(b))
           most  == Book!Most(Position(b))
<1>1. /\ P \in Nat /\ q \in Nat /\ a \in Nat /\ n \in Int /\ T \in Nat /\ b.ladder \in BOOLEAN
      /\ Priced(b) /\ c.ladder = b.ladder /\ ~IsOpen(c)
  <2>1. P \in Nat /\ q \in Nat /\ a \in Nat /\ n \in Int /\ Priced(b)
    BY RowType, RungAmountType DEF Rung
  <2>2. P \div 10 \in Nat
    BY <2>1
  <2> QED
    BY <2>1, <2>2 DEF Kin, IsOpen, Bet
<1>2. Paid(c) = P /\ RungAmount(c.amount, 1) = q /\ c.amount = a
  BY DEF Paid, RungsCost, Over, Kin
<1>3. /\ b.ladder => P <= a + 1 /\ q <= P
      /\ ~b.ladder => P = a
  <2>1. b.ladder => P <= a + 1 /\ q <= P
    BY <1>1, PaidNear DEF Begun
  <2> QED
    BY <2>1 DEF Paid
<1>4. /\ Floor(b) = 0 - P
      /\ Top(b) = IF b.ladder THEN 0 - q ELSE 0 - P
  BY OpenRow DEF Begun
<1>5. /\ Floor(c) = n - Shortfall(c)
      /\ Top(c) = n + Surplus(c)
  <2>1. Worth(c) = n - 0
    BY <1>1 DEF Worth, Owed
  <2> QED
    BY <1>1, <2>1 DEF Floor, Top
<1>6. /\ least = IF b.ladder THEN P - 2 ELSE P
      /\ ~b.ladder => most = P
      /\ b.ladder => most >= a /\ most >= P + T + 3 /\ most >= P
      /\ least \in Int /\ most \in Nat
  BY LeastMost
<1>7. /\ ~b.ladder => Shortfall(c) = 0 /\ Surplus(c) = 0
      /\ b.ladder /\ c.status \in {"won", "lost"} => Shortfall(c) = 2 /\ Surplus(c) = a - q
      /\ b.ladder /\ c.status = "closed_early" => Shortfall(c) = 2 /\ Surplus(c) = P + T + 3 - q
      /\ b.ladder /\ c.status = "cancelled" => Shortfall(c) = 0 /\ Surplus(c) = P - q
  BY <1>1, <1>2 DEF Shortfall, Surplus
<1> HIDE DEF P, q, a, n, T, least, most
<1>8. /\ Floor(c) - Floor(b) <= credit /\ credit <= Top(c) - Top(b)
      /\ n + least <= Floor(c) - Floor(b) /\ Top(c) - Top(b) <= n + most
      /\ n >= -most
  <2>1. CASE ~b.ladder
    <3>1. n = credit - a \/ (n = 0 /\ credit = P)
      BY <2>1 DEF P, a, n
    <3> QED
      BY <1>1, <1>3, <1>4, <1>5, <1>6, <1>7, <2>1, <3>1
  <2>2. CASE b.ladder /\ c.status \in {"won", "lost"}
    <3>1. n = credit - a
      BY <2>2 DEF n, a
    <3> QED
      BY <1>1, <1>3, <1>4, <1>5, <1>6, <1>7, <2>2, <3>1
  <2>3. CASE b.ladder /\ c.status = "closed_early"
    <3>1. n + P - 2 <= credit /\ credit <= n + P + T + 3
      BY <2>3 DEF n, P, T
    <3> QED
      BY <1>1, <1>3, <1>4, <1>5, <1>6, <1>7, <2>3, <3>1
  <2>4. CASE b.ladder /\ c.status = "cancelled"
    <3>1. n = 0 /\ credit = P
      BY <2>4 DEF n, P
    <3> QED
      BY <1>1, <1>3, <1>4, <1>5, <1>6, <1>7, <2>4, <3>1
  <2> QED
    BY <2>1, <2>2, <2>3, <2>4
<1> QED
  BY <1>1, <1>8 DEF Closes, n, least, most

\* What each job makes of an open row.
LEMMA RowsMade ==
  ASSUME TypeOK, OpenBegun, NEW i \in OpenIds
  PROVE  /\ bets[i] \in Bet /\ IsOpen(bets[i]) /\ Begun(bets[i])
         /\ Grows(bets[i], Filled(i), FillCost(i))
         /\ Fills(i) = {} => FillCost(i) = 0
         /\ i \in Exits => Closes(bets[i], Risked(i), Proceeds(i))
         /\ i \notin Exits => Keeps(bets[i], Risked(i))
         /\ Closes(bets[i], Cancelled(i), PaidFor(i))
         /\ \A outcome \in Side :
              Closes(bets[i], Decided(bets[i], outcome), SettlementCredit(bets[i], outcome, FeePct))
<1> DEFINE b == bets[i]
<1>1. b \in Bet /\ b.status = "placed" /\ IsOpen(b) /\ Begun(b) /\ Priced(b) /\ b.pnl = 0
  <2>1. b \in Bet /\ b.status = "placed" /\ IsOpen(b) /\ Begun(b)
    BY DEF TypeOK, OpenIds, OpenBegun, IsOpen
  <2> QED
    BY <2>1, BetPriced DEF Begun
<1>2. RiskMark(b) \in 0 .. One
  BY <1>1, RiskMarkType
<1>3. Grows(b, Filled(i), FillCost(i))
  BY <1>1, RowGrows DEF Filled, Fills, FillCost
<1>4. Fills(i) = {} => FillCost(i) = 0
  BY DEF FillCost, RungsCost, Over
<1>5. Kin(Risked(i), b) /\ Kin(Cancelled(i), b)
  BY RowsKin
<1>6. ASSUME i \in Exits PROVE Closes(b, Risked(i), Proceeds(i))
  <2>1. /\ Risked(i).status = "closed_early" /\ Risked(i).pnl = SalePnl(b, RiskMark(b))
        /\ Risked(i).filled = b.filled
    BY <1>1, <1>6 DEF Risked, Bet
  <2>2. Risked(i) \in Bet
    <3>1. SalePnl(b, RiskMark(b)) \in Int /\ PeakAfter(b, RiskMark(b)) \in Nat
      BY <1>1, <1>2, SalePnlType, PeakAfterType
    <3> QED
      BY <1>1, <3>1 DEF Risked, Bet, BetStatus, ClosedStatus
  <2>3. Proceeds(i) = SaleProceeds(b, RiskMark(b)) /\ Proceeds(i) \in Nat
    BY <1>1, <1>2, SaleProceedsType DEF Proceeds
  <2>4. CASE b.ladder
    <3>1. /\ SalePnl(b, RiskMark(b)) + Paid(b) - 2 <= SaleProceeds(b, RiskMark(b))
          /\ SaleProceeds(b, RiskMark(b)) <= SalePnl(b, RiskMark(b)) + Paid(b) + Paid(b) \div 10 + 3
      BY <1>1, <1>2, <2>4, SaleNear DEF Begun
    <3> QED
      BY <1>1, <1>5, <2>1, <2>2, <2>3, <2>4, <3>1, RowCloses
  <2>5. CASE ~b.ladder
    <3>1. SalePnl(b, RiskMark(b)) = SaleProceeds(b, RiskMark(b)) - b.amount
      BY <1>1, <1>2, <2>5, SaleFlat
    <3> QED
      BY <1>1, <1>5, <2>1, <2>2, <2>3, <2>5, <3>1, RowCloses
  <2> QED
    BY <2>4, <2>5
<1>7. ASSUME i \notin Exits PROVE Keeps(b, Risked(i))
  <2> DEFINE c == Risked(i)
  <2>1. /\ c.status = "placed" /\ c.pnl = 0 /\ c.filled = b.filled /\ IsOpen(c)
        /\ c.amount = b.amount /\ c.entry = b.entry /\ c.ladder = b.ladder
    BY <1>1, <1>7 DEF Risked, Bet, IsOpen
  <2>2. c \in Bet
    <3>1. PeakAfter(b, RiskMark(b)) \in Nat
      BY <1>1, <1>2, PeakAfterType
    <3> QED
      BY <1>1, <1>7, <3>1 DEF Risked, Bet, BetStatus
  <2>3. Begun(c)
    BY <1>1, <2>1 DEF Begun
  <2> HIDE DEF c
  <2>4. Paid(c) = Paid(b)
    BY <2>1 DEF Paid, RungsCost, Over
  <2>5. Floor(c) = Floor(b) /\ Top(c) = Top(b)
    BY <1>1, <2>1, <2>2, <2>4, OpenRow
  <2>6. Keeps(b, c)
    BY <2>1, <2>3, <2>4, <2>5 DEF Keeps
  <2> QED
    BY <2>6 DEF c
<1>8. Closes(b, Cancelled(i), PaidFor(i))
  <2>1. /\ Cancelled(i) \in Bet /\ Cancelled(i).status = "cancelled" /\ Cancelled(i).pnl = 0
        /\ Cancelled(i).filled = b.filled
    BY <1>1 DEF Cancelled, Bet, BetStatus, ClosedStatus
  <2>2. PaidFor(i) = Paid(b) /\ Paid(b) \in Nat
    BY <1>1, RowType DEF PaidFor
  <2> QED
    BY <1>1, <1>5, <2>1, <2>2, RowCloses
<1>9. ASSUME NEW outcome \in Side
      PROVE  Closes(b, Decided(b, outcome), SettlementCredit(b, outcome, FeePct))
  <2> DEFINE c == Decided(b, outcome)
             credit == SettlementCredit(b, outcome, FeePct)
  <2>1. SettlementPnl(b, outcome, FeePct) = credit - b.amount /\ credit \in Nat
        /\ SettlementPnl(b, outcome, FeePct) \in Int
    BY <1>1, SettlementType, MoneyAssumption
  <2>2. c \in Bet /\ c.status \in {"won", "lost"} /\ c.pnl = SettlementPnl(b, outcome, FeePct)
        /\ c.filled = b.filled
    BY <1>1, <2>1 DEF Decided, Bet, BetStatus, ClosedStatus
  <2>3. Kin(c, b)
    BY <1>1 DEF Decided, Bet, Kin
  <2> HIDE DEF c, credit
  <2>4. Closes(b, c, credit)
    BY <1>1, <2>1, <2>2, <2>3, RowCloses
  <2> QED
    BY <2>4 DEF c, credit
<1> QED
  BY <1>1, <1>3, <1>4, <1>6, <1>7, <1>8, <1>9

\* place debits the cost of the row, or the row fails.
Entered(s) ==
  s.job = "place" /\ s.add # <<>> =>
    LET b == s.add[1]
    IN  /\ b.pnl = 0
        /\ IF IsOpen(b) THEN Begun(b) /\ (b.ladder => b.filled = {1}) ELSE b.status = "failed"
        /\ s.step = "debit" => s.purse = NoCash /\ s.base = NoCash /\ IsOpen(b)
        /\ s.step = "commit" =>
             IF IsOpen(b) THEN s.purse # NoCash /\ s.purse = s.base - Paid(b)
                          ELSE s.purse = NoCash

\* What the job has done so far to the floor and the top of the rows, and to
\* the cash.  An update that has debited less than its rungs cost has met one
\* that costs more than there is.
Done(s, i) == i \in BetId /\ s.seen[i] # NoRow /\ i \notin s.todo
Lows(s)  == [i \in DOMAIN bets |-> IF Done(s, i) THEN Floor(s.mine[i]) - Floor(bets[i]) ELSE 0]
Highs(s) == [i \in DOMAIN bets |-> IF Done(s, i) THEN Top(s.mine[i]) - Top(bets[i]) ELSE 0]
Low(s)   == SumFunctionOnSet(Lows(s), DOMAIN bets)
High(s)  == SumFunctionOnSet(Highs(s), DOMAIN bets)
Moved(s) == IF s.purse = NoCash THEN 0 ELSE s.purse - s.base
Unpaid(s) == \E i \in BetId : s.seen[i] # NoRow /\ s.bill[i] > Purse(s)
Tallied(s) ==
  s.job # "place" =>
    /\ Low(s) <= Moved(s) /\ Moved(s) <= High(s)
    /\ s.job = "update" => Moved(s) = Low(s) \/ Unpaid(s)

Accounted ==
  /\ Worked /\ OpenBegun
  /\ \A w \in Worker : Entered(session[w]) /\ Tallied(session[w])

Paper == OneJob /\ ~Live /\ "cli" \notin Resets

\* A row in the hands of a job.
LEMMA RowHeld ==
  ASSUME Worked, OpenBegun, NEW w \in Worker, NEW i \in BetId, session[w].seen[i] # NoRow
  PROVE  LET s == session[w]
             b == bets[i]
             c == s.mine[i]
         IN  /\ i \in OpenIds /\ i \in DOMAIN bets /\ b \in Bet /\ c \in Bet /\ IsOpen(b)
             /\ s.job = "update" => Grows(b, c, s.bill[i])
             /\ s.job # "update" =>
                  \/ Keeps(b, c) /\ ~(i \in s.todo /\ s.step = "run")
                  \/ \E credit \in Nat :
                       Closes(b, c, credit) /\ (i \in s.todo /\ s.step = "run" => s.bill[i] = credit)
<1> DEFINE s == session[w]
           b == bets[i]
           c == s.mine[i]
<1>1. /\ TypeOK /\ JobRow(s, i) /\ i \in OpenIds /\ i \in DOMAIN bets /\ b \in Bet /\ c \in Bet /\ IsOpen(b)
  <2>1. JobRow(s, i) /\ TypeOK /\ i \in DOMAIN bets /\ bets[i] = s.seen[i] /\ IsOpen(s.seen[i])
    BY DEF Worked, JobRows, Calm, InTune, LoadedOpen, SeenOpen
  <2> QED
    BY <2>1, AmountType, HeldRows DEF OpenIds
<1>2. CASE s.job = "update"
  BY <1>1, <1>2, RowsMade DEF JobRow
<1>3. CASE s.job = "risk"
  <2>1. /\ i \in Exits => Closes(b, Risked(i), Proceeds(i)) /\ Proceeds(i) \in Nat
        /\ i \notin Exits => Keeps(b, Risked(i))
    BY <1>1, RowsMade DEF Closes
  <2>2. c = Risked(i) /\ (i \in s.todo => i \in Exits /\ s.bill[i] = Proceeds(i))
    BY <1>1, <1>3 DEF JobRow
  <2> HIDE DEF s, b, c
  <2> QED
    BY <1>1, <1>3, <2>1, <2>2 DEF s, b, c
<1>4. CASE s.job = "cleanup"
  <2>1. Closes(b, Cancelled(i), PaidFor(i)) /\ PaidFor(i) \in Nat
    BY <1>1, RowsMade DEF Closes
  <2>2. c = Cancelled(i) /\ s.bill[i] = PaidFor(i)
    BY <1>1, <1>4 DEF JobRow
  <2> HIDE DEF s, b, c
  <2> QED
    BY <1>1, <1>4, <2>1, <2>2 DEF s, b, c
<1>5. CASE s.job \notin {"update", "risk", "cleanup"}
  <2>1. CASE s.step = "ask" /\ i \in s.todo /\ c = b
    <3>1. Keeps(b, b)
      BY <1>1, RowsMade DEF Keeps
    <3> QED
      BY <1>1, <1>5, <2>1, <3>1
  <2>2. CASE \E outcome \in Side :
               /\ c = Decided(b, outcome)
               /\ i \in s.todo => s.bill[i] = SettlementCredit(b, outcome, FeePct)
    <3>1. PICK outcome \in Side :
               /\ c = Decided(b, outcome)
               /\ i \in s.todo => s.bill[i] = SettlementCredit(b, outcome, FeePct)
      BY <2>2
    <3> DEFINE credit == SettlementCredit(b, outcome, FeePct)
    <3>2. Closes(b, c, credit) /\ credit \in Nat
      BY <1>1, <3>1, RowsMade DEF Closes
    <3> HIDE DEF credit
    <3> QED
      BY <1>1, <1>5, <3>1, <3>2 DEF credit
  <2> QED
    BY <1>1, <1>5, <2>1, <2>2 DEF JobRow
<1> QED
  BY <1>2, <1>3, <1>4, <1>5

\* The floor and the top of the rows a session holds are numbers.
LEMMA RowsBounded ==
  ASSUME Worked, OpenBegun, NEW w \in Worker
  PROVE  /\ \A i \in DOMAIN bets : Lows(session[w])[i] \in Int /\ Highs(session[w])[i] \in Int
         /\ Low(session[w]) \in Int /\ High(session[w]) \in Int /\ IsFiniteSet(DOMAIN bets)
<1> DEFINE s == session[w]
<1>1. ASSUME NEW i \in DOMAIN bets PROVE Lows(s)[i] \in Int /\ Highs(s)[i] \in Int
  <2>1. CASE Done(s, i)
    <3>1. bets[i] \in Bet /\ s.mine[i] \in Bet
      BY <2>1, RowHeld DEF Done
    <3>2. Floor(bets[i]) \in Int /\ Floor(s.mine[i]) \in Int /\ Top(bets[i]) \in Int /\ Top(s.mine[i]) \in Int
      BY <3>1, RowType
    <3> HIDE DEF s
    <3> QED
      BY <2>1, <3>2 DEF Lows, Highs
  <2>2. CASE ~Done(s, i)
    BY <2>2 DEF Lows, Highs
  <2> QED
    BY <2>1, <2>2
<1>2. IsFiniteSet(DOMAIN bets)
  BY RowsFinite DEF Worked, Calm
<1> QED
  BY <1>1, <1>2, SumInt DEF Low, High

\* A session that has moved no money, and changed no row's worth.
LEMMA NothingMoved ==
  ASSUME IsFiniteSet(DOMAIN bets), NEW s, s.purse = NoCash,
         \A i \in DOMAIN bets : Done(s, i) =>
           Floor(s.mine[i]) - Floor(bets[i]) = 0 /\ Top(s.mine[i]) - Top(bets[i]) = 0
  PROVE  Tallied(s)
<1>1. \A i \in DOMAIN bets : Lows(s)[i] = 0 /\ Highs(s)[i] = 0
  BY DEF Lows, Highs
<1>2. Low(s) = 0 /\ High(s) = 0
  BY <1>1, SumZero DEF Low, High
<1> QED
  BY <1>2 DEF Tallied, Moved

LEMMA FreshTallied ==
  ASSUME TypeOK', NEW w \in Worker, Fresh(session'[w])
  PROVE  (Entered(session[w]) /\ Tallied(session[w]))'
<1> DEFINE n == session'[w]
<1>1. n.purse = NoCash /\ n.add = <<>> /\ n.seen = [i \in BetId |-> NoRow]
  BY FreshFields
<1>2. \A i \in DOMAIN bets' : Lows(session[w])'[i] = 0 /\ Highs(session[w])'[i] = 0
  BY <1>1 DEF Lows, Highs, Done
<1>3. IsFiniteSet(DOMAIN bets')
  BY NextRowsFinite
<1>4. Low(session[w])' = 0 /\ High(session[w])' = 0
  BY <1>2, <1>3, SumZero DEF Low, High
<1>5. Tallied(session[w])'
  BY <1>1, <1>4 DEF Tallied, Moved
<1> QED
  BY <1>1, <1>5 DEF Entered

LEMMA BeginTallied ==
  ASSUME Accounted, NEW w \in Worker, Begin(w)
  PROVE  (Entered(session[w]) /\ Tallied(session[w]))'
<1> DEFINE n == session'[w]
<1>1. UNCHANGED <<bets, portfolio>> /\ TypeOK /\ TypeOK' /\ OpenBegun /\ IsFiniteSet(DOMAIN bets)
  BY TypesInductive, RowsFinite
  DEF Accounted, Worked, Calm, Begin, PlaceBegin, UpdateBegin, RiskBegin, SettleBegin, CleanupBegin, database, Next
<1>2. \A i \in AllOpen : i \in OpenIds /\ i \in DOMAIN bets /\ bets[i] \in Bet
  BY <1>1, AmountType DEF AllOpen, OpenIds
<1>3. CASE PlaceBegin(w)
  BY <1>1, <1>3, EndFresh, FreshTallied
<1> HIDE DEF n
<1>4. ASSUME n.add = <<>>, Tallied(n) PROVE (Entered(session[w]) /\ Tallied(session[w]))'
  BY <1>1, <1>4 DEF Entered, Tallied, Moved, Low, High, Lows, Highs, Done, Unpaid, Purse, n
<1>5. CASE UpdateBegin(w)
  <2>1. LoadedBy(n, "update", AllOpen, FilledRows, {i \in AllOpen : Fills(i) # {}}, FillBill)
    BY <1>1, <1>5, UpdateLoads DEF n
  <2>2. ASSUME NEW i \in DOMAIN bets, Done(n, i)
        PROVE  Floor(n.mine[i]) - Floor(bets[i]) = 0 /\ Top(n.mine[i]) - Top(bets[i]) = 0
    <3>1. i \in AllOpen /\ n.mine[i] = Filled(i) /\ Fills(i) = {}
      BY <2>1, <2>2 DEF LoadedBy, Load, FilledRows, Done
    <3>2. Grows(bets[i], Filled(i), FillCost(i)) /\ FillCost(i) = 0 /\ bets[i] \in Bet
      BY <1>1, <1>2, <3>1, RowsMade
    <3>3. Floor(bets[i]) \in Int /\ Top(bets[i]) \in Int
      BY <3>2, RowType
    <3> QED
      BY <3>1, <3>2, <3>3 DEF Grows
  <2> QED
    BY <1>1, <1>4, <2>1, <2>2, NothingMoved DEF LoadedBy
<1>6. CASE RiskBegin(w)
  <2>1. LoadedBy(n, "risk", AllOpen, RiskedRows, Exits, SaleBill)
    BY <1>1, <1>6, RiskLoads DEF n
  <2>2. ASSUME NEW i \in DOMAIN bets, Done(n, i)
        PROVE  Floor(n.mine[i]) - Floor(bets[i]) = 0 /\ Top(n.mine[i]) - Top(bets[i]) = 0
    <3>1. i \in AllOpen /\ n.mine[i] = Risked(i) /\ i \notin Exits
      BY <2>1, <2>2 DEF LoadedBy, Load, RiskedRows, Done
    <3>2. Keeps(bets[i], Risked(i)) /\ bets[i] \in Bet
      BY <1>1, <1>2, <3>1, RowsMade
    <3>3. Floor(bets[i]) \in Int /\ Top(bets[i]) \in Int
      BY <3>2, RowType
    <3> QED
      BY <3>1, <3>2, <3>3 DEF Keeps
  <2> QED
    BY <1>1, <1>4, <2>1, <2>2, NothingMoved DEF LoadedBy
<1>7. CASE CleanupBegin(w)
  <2>1. LoadedBy(n, "cleanup", Stale, CancelledRows, Stale, RefundBill)
    BY <1>1, <1>7, CleanupLoads DEF n
  <2>2. \A i \in BetId : n.seen[i] # NoRow => i \in n.todo
    BY <2>1 DEF LoadedBy, Load
  <2>3. n.add = <<>> /\ n.purse = NoCash /\ \A i \in DOMAIN bets : ~Done(n, i)
    BY <2>1, <2>2 DEF LoadedBy, Done
  <2> QED
    BY <1>1, <1>4, <2>3, NothingMoved
<1>8. CASE SettleBegin(w)
  <2>1. n.add = <<>> /\ n.purse = NoCash /\ n.seen = NoSession.seen
    BY <1>1, <1>8, SettleBegins DEF n
  <2>2. \A i \in DOMAIN bets : ~Done(n, i)
    BY <2>1 DEF NoSession, Done
  <2> QED
    BY <1>1, <1>4, <2>1, <2>2, NothingMoved
<1> QED
  BY <1>3, <1>5, <1>6, <1>7, <1>8 DEF Begin

\* A bet is placed at the price of a valid quote, with the first rung filled.
LEMMA AdmittedRow ==
  ASSUME TypeOK, NEW a \in analyses, ~NotTradable(a.market)
  PROVE  LET b == NewBet(a, Stake(a), "placed")
         IN  Begun(b) /\ (b.ladder => b.filled = {1}) /\ b.status = "placed" /\ b.pnl = 0
<1> DEFINE q == QuoteOf(a.market)
<1>1. q.yes \in 10 .. 990 /\ q.no \in 10 .. 990
  BY DEF NotTradable, ValidQuote
<1>2. FillPrice(q, a.side) \in 10 .. 990
  BY <1>1 DEF FillPrice
<1> QED
  BY <1>2, SMTT(30) DEF NewBet, Begun

LEMMA PlaceEntered ==
  ASSUME Paper, Accounted, NEW w \in Worker, PlaceAdmit(w) \/ PlaceDebit(w)
  PROVE  (Entered(session[w]) /\ Tallied(session[w]))'
<1> DEFINE n == session'[w]
           s == session[w]
<1>1. TypeOK /\ InTune(s) /\ Entered(s) /\ s \in Session /\ s.add \in Seq(Bet) /\ portfolio.cash \in Nat
  BY DEF Accounted, Worked, Calm, TypeOK, Session
<1>2. n.job = "place"
  <2>1. PlaceAdmit(w) => n.job = "place"
    BY <1>1, PlaceAdmits DEF Admitted
  <2>2. PlaceDebit(w) => n.job = "place"
    BY <1>1, PlaceDebits
  <2> QED
    BY <2>1, <2>2
<1>3. CASE PlaceAdmit(w)
  <2>1. PICK a \in analyses, accepted \in IF Live THEN BOOLEAN ELSE {TRUE} :
          Admitted(n, a, accepted) /\ ~NotTradable(a.market)
    BY <1>1, <1>3, PlaceAdmits
  <2>2. accepted = TRUE
    BY DEF Paper
  <2> DEFINE b == NewBet(a, Stake(a), "placed")
  <2>3. Begun(b) /\ (b.ladder => b.filled = {1}) /\ IsOpen(b) /\ b.pnl = 0
    BY <1>1, <2>1, AdmittedRow DEF IsOpen
  <2> HIDE DEF n
  <2>4. n.step = "debit" /\ n.purse = NoCash /\ n.base = NoCash /\ n.add = <<b>>
    BY <2>1, <2>2 DEF Admitted
  <2> HIDE DEF b
  <2>5. n.add[1] = b
    BY <2>4
  <2> QED
    BY <1>2, <2>3, <2>4, <2>5 DEF Entered, Tallied, n
<1>4. CASE PlaceDebit(w)
  <2> DEFINE b == s.add[1]
             cost == Paid(b)
  <2>1. /\ s.job = "place" /\ s.step = "debit" /\ n.step = "commit"
        /\ IF Purse(s) < cost
             THEN /\ n.add[1] = [b EXCEPT !.status = "failed"]
                  /\ n.purse = s.purse
             ELSE /\ n.add[1] = b
                  /\ n.base = Base(s) /\ n.purse = Purse(s) - cost
    BY <1>1, <1>4, PlaceDebits
  <2>2. /\ s.add # <<>> /\ b \in Bet /\ b.pnl = 0 /\ IsOpen(b) /\ s.purse = NoCash
        /\ Begun(b) /\ (b.ladder => b.filled = {1})
    BY <1>1, <2>1 DEF InTune, Entered
  <2>3. cost \in Nat
    BY <2>2, RowType
  <2>4. Purse(s) = portfolio.cash /\ Base(s) = portfolio.cash
    BY <2>2 DEF Purse, Base
  <2> HIDE DEF n, cost, b
  <2>5. CASE Purse(s) < cost
    <3>1. n.add[1].status = "failed" /\ n.add[1].pnl = 0 /\ n.purse = NoCash
      BY <2>1, <2>2, <2>5 DEF Bet
    <3> QED
      BY <1>2, <2>1, <3>1 DEF Entered, Tallied, IsOpen, n
  <2>6. CASE ~(Purse(s) < cost)
    <3>1. n.add[1] = b
      BY <2>1, <2>6
    <3>2. n.purse # NoCash /\ n.purse = n.base - Paid(n.add[1])
      BY <1>1, <2>1, <2>3, <2>4, <2>6, <3>1 DEF NoCash, cost
    <3> QED
      BY <1>2, <2>1, <2>2, <3>1, <3>2 DEF Entered, Tallied, n
  <2> QED
    BY <2>5, <2>6
<1> QED
  BY <1>3, <1>4

\* A settlement that expires, asks or hears moves no money.
LEMMA SettleTallied ==
  ASSUME Accounted, NEW w \in Worker, Settle(w)
  PROVE  (Entered(session[w]) /\ Tallied(session[w]))'
<1> DEFINE n == session'[w]
           s == session[w]
<1>1. /\ UNCHANGED <<bets, portfolio>> /\ TypeOK /\ InTune(s) /\ s \in Session /\ Worked /\ OpenBegun
      /\ s.todo \in SUBSET BetId /\ Tallied(s) /\ bets \in Seq(Bet)
  BY DEF Accounted, Worked, Calm, Settle, SettleExpire, SettleAsk, SettlePending, SettleAnswer, database,
         TypeOK, Session
<1>2. /\ s.job = "settle" /\ n.job = "settle" /\ n.base = s.base /\ n.purse = s.purse
  <2>1. CASE SettleExpire(w)
    BY <1>1, <2>1, SettleExpires DEF Rest
  <2>2. CASE SettleAsk(w)
    BY <1>1, <2>2, SettleAsks DEF Rest
  <2>3. CASE SettlePending(w)
    BY <1>1, <2>3, SettlePends DEF Rest
  <2>4. CASE SettleAnswer(w)
    BY <1>1, <2>4, SettleAnswers DEF Rest
  <2> QED
    BY <2>1, <2>2, <2>3, <2>4 DEF Settle
<1> HIDE DEF n
<1>3. ASSUME NEW i \in DOMAIN bets PROVE Lows(n)[i] = Lows(s)[i] /\ Highs(n)[i] = Highs(s)[i]
  <2>1. \/ ~Done(n, i) /\ ~Done(s, i)
        \/ Done(n, i) /\ Done(s, i) /\ n.mine[i] = s.mine[i]
    <3>1. CASE SettleExpire(w)
      BY <1>1, <3>1, SettleExpires DEF n, Done
    <3>2. CASE SettleAsk(w)
      <4>1. PICK m \in s.due :
          LET ids == OpenIn(m) \cap BetId IN
          /\ s.todo = {} /\ n.todo = ids
          /\ n.seen = [j \in BetId |-> IF j \in ids THEN bets[j] ELSE s.seen[j]]
          /\ n.mine = [j \in BetId |-> IF j \in ids THEN bets[j] ELSE s.mine[j]]
        BY <1>1, <3>2, SettleAsks DEF n
      <4>2. CASE i \in OpenIn(m) \cap BetId
        <5>1. bets[i].market = m
          BY <4>2 DEF OpenIn
        <5>2. s.seen[i] = NoRow
          BY <1>1, <4>2, <5>1 DEF InTune
        <5> QED
          BY <4>1, <4>2, <5>2 DEF Done
      <4>3. CASE i \notin OpenIn(m) \cap BetId
        BY <4>1, <4>3 DEF Done
      <4> QED
        BY <4>2, <4>3
    <3>3. CASE SettlePending(w)
      <4>1. /\ n.todo = {}
            /\ n.seen = [j \in BetId |-> IF j \in s.todo THEN NoRow ELSE s.seen[j]]
            /\ n.mine = [j \in BetId |-> IF j \in s.todo THEN NoRow ELSE s.mine[j]]
        BY <1>1, <3>3, SettlePends DEF n
      <4> QED
        BY <4>1 DEF Done
    <3>4. CASE SettleAnswer(w)
      <4>1. PICK outcome \in Side :
            /\ n.todo = s.todo /\ n.seen = s.seen
            /\ n.mine = [j \in BetId |-> IF j \in s.todo THEN Decided(s.mine[j], outcome)
                                                         ELSE s.mine[j]]
        BY <1>1, <3>4, SettleAnswers DEF n
      <4> QED
        BY <4>1 DEF Done
    <3> QED
      BY <3>1, <3>2, <3>3, <3>4 DEF Settle
  <2> QED
    BY <2>1 DEF Lows, Highs
<1>4. Low(n) = Low(s) /\ High(n) = High(s)
  <2>1. \A i \in DOMAIN bets : Lows(n)[i] \in Int /\ Lows(n)[i] = Lows(s)[i]
    BY <1>1, <1>3, RowsBounded
  <2>2. \A i \in DOMAIN bets : Highs(n)[i] \in Int /\ Highs(n)[i] = Highs(s)[i]
    BY <1>1, <1>3, RowsBounded
  <2>3. IsFiniteSet(DOMAIN bets)
    BY <1>1, RowsFinite
  <2> QED
    BY <2>1, <2>2, <2>3, SumSame DEF Low, High
<1>5. Tallied(n)
  BY <1>1, <1>2, <1>4 DEF Tallied, Moved
<1> QED
  BY <1>1, <1>2, <1>5 DEF Entered, Tallied, Moved, Low, High, Lows, Highs, Done, n

\* A credit is within what the row it is for gains; a debit is what the rungs
\* cost, or it is left out because the purse cannot pay it.
LEMMA MoneyMoves ==
  ASSUME Accounted, NEW w \in Worker, Money(w)
  PROVE  LET s == session[w]
             n == session'[w]
         IN  \E i \in s.todo, move \in Int :
               /\ s.job # "place" /\ s.step = "run" /\ Still(n, s) /\ n.todo = s.todo \ {i}
               /\ i \in BetId /\ s.seen[i] # NoRow /\ i \in DOMAIN bets
               /\ Floor(s.mine[i]) - Floor(bets[i]) <= move
               /\ move <= Top(s.mine[i]) - Top(bets[i])
               /\ Moved(n) = Moved(s) + move /\ Purse(n) = Purse(s) + move
               /\ s.job = "update" =>
                    /\ move <= 0
                    /\ \/ move = Floor(s.mine[i]) - Floor(bets[i])
                       \/ s.bill[i] > Purse(n)
<1> DEFINE n == session'[w]
           s == session[w]
<1>1. /\ TypeOK /\ InTune(s) /\ s \in Session /\ Worked /\ OpenBegun
      /\ s.todo \in SUBSET BetId /\ portfolio.cash \in Nat
      /\ s.purse \in Nat \cup {NoCash} /\ s.base \in Nat \cup {NoCash}
      /\ (s.purse # NoCash => s.base = portfolio.cash)
  BY DEF Accounted, Worked, Calm, TypeOK, Session, InTune
<1>2. ASSUME NEW move \in Int, n.base = Base(s), n.purse = Purse(s) + move, n.purse \in Nat
      PROVE  Moved(n) = Moved(s) + move /\ Purse(n) = Purse(s) + move
  <2> HIDE DEF n
  <2>1. n.purse # NoCash
    BY <1>2 DEF NoCash
  <2>2. CASE s.purse = NoCash
    BY <1>1, <1>2, <2>1, <2>2 DEF Moved, Purse, Base
  <2>3. CASE s.purse # NoCash
    BY <1>1, <1>2, <2>1, <2>3 DEF Moved, Purse, Base, NoCash
  <2> QED
    BY <2>2, <2>3
<1>3. Purse(s) \in Nat /\ Moved(s) \in Int
  BY <1>1 DEF Purse, Moved, NoCash
<1>4. \A i \in s.todo : /\ i \in BetId /\ s.seen[i] # NoRow /\ i \in DOMAIN bets /\ s.bill[i] \in Nat
                        /\ Floor(bets[i]) \in Int /\ Top(bets[i]) \in Int
                        /\ Floor(s.mine[i]) \in Int /\ Top(s.mine[i]) \in Int
  <2> TAKE i \in s.todo
  <2>1. i \in BetId /\ s.seen[i] # NoRow /\ i \in DOMAIN bets /\ s.bill[i] \in Nat
    BY <1>1, BillType DEF InTune
  <2> QED
    BY <1>1, <2>1, RowHeld, RowType
<1>5. CASE UpdateDebit(w)
  <2>1. PICK i \in s.todo :
             /\ s.job = "update" /\ s.step = "run"
             /\ Still(n, s) /\ n.todo = s.todo \ {i}
             /\ IF Purse(s) < s.bill[i]
                  THEN n.base = s.base /\ n.purse = s.purse
                  ELSE n.base = Base(s) /\ n.purse = Purse(s) - s.bill[i]
    BY <1>1, <1>5, UpdateDebits
  <2> DEFINE bill == s.bill[i]
             low  == Floor(s.mine[i]) - Floor(bets[i])
             high == Top(s.mine[i]) - Top(bets[i])
  <2>2. Grows(bets[i], s.mine[i], bill)
    BY <1>1, <1>4, <2>1, RowHeld
  <2>3. low = -bill /\ high = 0 /\ bill \in Nat
    BY <1>4, <2>2 DEF Grows
  <2>4. CASE Purse(s) < bill
    <3>1. Moved(n) = Moved(s) + 0 /\ Purse(n) = Purse(s) + 0
      BY <1>3, <2>1, <2>4 DEF Moved, Purse
    <3> HIDE DEF n, low, high, bill
    <3>2. 0 \in Int /\ low <= 0 /\ 0 <= high /\ bill > Purse(n)
      BY <1>3, <2>3, <2>4, <3>1
    <3> QED
      BY <1>4, <2>1, <3>1, <3>2 DEF low, high, bill, n
  <2>5. CASE ~(Purse(s) < bill)
    <3> DEFINE move == -bill
    <3>1. move \in Int /\ n.base = Base(s) /\ n.purse = Purse(s) + move /\ n.purse \in Nat
      BY <1>3, <2>1, <2>3, <2>5
    <3>2. Moved(n) = Moved(s) + move /\ Purse(n) = Purse(s) + move
      BY <1>2, <3>1
    <3>3. low <= move /\ move <= high /\ move <= 0 /\ move = low
      BY <2>3
    <3> HIDE DEF n, low, high, bill, move
    <3> QED
      BY <1>4, <2>1, <3>1, <3>2, <3>3 DEF low, high, n
  <2> QED
    BY <2>4, <2>5
<1>6. CASE PostCredit(w)
  <2>1. PICK i \in s.todo :
             /\ s.job \in {"risk", "settle", "cleanup"} /\ s.step = "run"
             /\ Still(n, s) /\ n.todo = s.todo \ {i}
             /\ n.base = Base(s) /\ n.purse = Purse(s) + s.bill[i]
    BY <1>1, <1>6, CreditPosts
  <2> DEFINE bill == s.bill[i]
             low  == Floor(s.mine[i]) - Floor(bets[i])
             high == Top(s.mine[i]) - Top(bets[i])
  <2>2. PICK credit \in Nat : Closes(bets[i], s.mine[i], credit) /\ bill = credit
    <3>1. s.job # "update"
      BY <2>1
    <3> QED
      BY <1>1, <1>4, <2>1, <3>1, RowHeld
  <2>3. low <= bill /\ bill <= high /\ bill \in Int
    BY <2>2 DEF Closes
  <2>4. Moved(n) = Moved(s) + bill /\ Purse(n) = Purse(s) + bill
    <3>1. n.purse \in Nat
      BY <1>3, <1>4, <2>1
    <3> QED
      BY <1>2, <2>1, <2>3, <3>1
  <2> HIDE DEF n, low, high, bill
  <2> QED
    BY <1>4, <2>1, <2>3, <2>4 DEF low, high, n
<1> QED
  BY <1>5, <1>6 DEF Money

LEMMA MoneyTallied ==
  ASSUME Accounted, NEW w \in Worker, Money(w)
  PROVE  (Entered(session[w]) /\ Tallied(session[w]))'
<1> DEFINE n == session'[w]
           s == session[w]
<1>1. /\ UNCHANGED <<bets, portfolio>> /\ Worked /\ OpenBegun /\ Tallied(s) /\ InTune(s)
      /\ portfolio.cash \in Nat /\ s.purse \in Nat \cup {NoCash} /\ s.base \in Nat \cup {NoCash}
      /\ s.bill \in [BetId -> Nat]
  BY DEF Accounted, Worked, Calm, Money, UpdateDebit, PostCredit, database, TypeOK, Session
<1>2. PICK i \in s.todo, move \in Int :
        /\ s.job # "place" /\ s.step = "run" /\ Still(n, s) /\ n.todo = s.todo \ {i}
        /\ i \in BetId /\ s.seen[i] # NoRow /\ i \in DOMAIN bets
        /\ Floor(s.mine[i]) - Floor(bets[i]) <= move
        /\ move <= Top(s.mine[i]) - Top(bets[i])
        /\ Moved(n) = Moved(s) + move /\ Purse(n) = Purse(s) + move
        /\ s.job = "update" =>
             /\ move <= 0
             /\ \/ move = Floor(s.mine[i]) - Floor(bets[i])
                \/ s.bill[i] > Purse(n)
  BY MoneyMoves
<1> DEFINE low  == Floor(s.mine[i]) - Floor(bets[i])
           high == Top(s.mine[i]) - Top(bets[i])
<1>3. low \in Int /\ high \in Int
  BY <1>1, <1>2, RowHeld, RowType
<1> HIDE DEF n
<1>4. /\ \A j \in DOMAIN bets : j # i => Lows(n)[j] = Lows(s)[j] /\ Highs(n)[j] = Highs(s)[j]
      /\ Lows(n)[i] = low /\ Lows(s)[i] = 0 /\ Highs(n)[i] = high /\ Highs(s)[i] = 0
  BY <1>2 DEF Lows, Highs, Done, Still
<1> HIDE DEF low, high
<1>5. Low(n) = Low(s) + low /\ High(n) = High(s) + high /\ Low(s) \in Int /\ High(s) \in Int
  <2>1. /\ \A j \in DOMAIN bets : Lows(s)[j] \in Int /\ Highs(s)[j] \in Int
        /\ Low(s) \in Int /\ High(s) \in Int /\ IsFiniteSet(DOMAIN bets)
    BY <1>1, RowsBounded
  <2>2. \A j \in DOMAIN bets : Lows(s)[j] \in Int /\ Lows(n)[j] \in Int /\ (j # i => Lows(s)[j] = Lows(n)[j])
    BY <1>3, <1>4, <2>1
  <2>3. \A j \in DOMAIN bets : Highs(s)[j] \in Int /\ Highs(n)[j] \in Int /\ (j # i => Highs(s)[j] = Highs(n)[j])
    BY <1>3, <1>4, <2>1
  <2>4. Low(n) = Low(s) + low - 0
    BY <1>2, <1>4, <2>1, <2>2, SumBump DEF Low
  <2>5. High(n) = High(s) + high - 0
    BY <1>2, <1>4, <2>1, <2>3, SumBump DEF High
  <2> QED
    BY <1>3, <2>1, <2>4, <2>5
<1>6. Moved(s) \in Int /\ Purse(s) \in Int
  BY <1>1 DEF Moved, Purse, NoCash
<1>7. Tallied(n) /\ n.job # "place"
  <2>1. n.job = s.job /\ n.bill = s.bill /\ n.seen = s.seen
    BY <1>2 DEF Still, Rest
  <2>2. Low(s) <= Moved(s) /\ Moved(s) <= High(s)
    BY <1>1, <1>2 DEF Tallied
  <2>3. low <= move /\ move <= high
    BY <1>2 DEF low, high
  <2>4. Low(n) <= Moved(n) /\ Moved(n) <= High(n)
    BY <1>2, <1>3, <1>5, <1>6, <2>2, <2>3
  <2>5. ASSUME s.job = "update" PROVE Moved(n) = Low(n) \/ Unpaid(n)
    <3>1. CASE s.bill[i] > Purse(n)
      BY <1>2, <2>1, <3>1 DEF Unpaid
    <3>2. CASE Unpaid(s)
      <4>1. PICK j \in BetId : s.seen[j] # NoRow /\ s.bill[j] > Purse(s)
        BY <3>2 DEF Unpaid
      <4>2. s.bill[j] \in Nat
        BY <1>1
      <4>3. s.bill[j] > Purse(n)
        BY <1>2, <1>6, <2>5, <4>1, <4>2
      <4> QED
        BY <2>1, <4>1, <4>3 DEF Unpaid
    <3>3. CASE move = low /\ Moved(s) = Low(s)
      BY <1>2, <1>5, <3>3
    <3> QED
      BY <1>1, <1>2, <2>5, <3>1, <3>2, <3>3 DEF Tallied, low
  <2> QED
    BY <1>2, <2>1, <2>4, <2>5 DEF Tallied
<1> QED
  BY <1>1, <1>7 DEF Entered, Tallied, Moved, Low, High, Lows, Highs, Done, Unpaid, Purse, n

\* What a commit makes of each row, when the job is not place.
LEMMA CommitRow ==
  ASSUME Accounted, NEW w \in Worker, Commit(w), NEW i \in DOMAIN bets
  PROVE  LET s == session[w]
         IN  IF Done(s, i)
               THEN /\ i \in OpenIds /\ bets'[i] = s.mine[i] /\ bets[i] \in Bet /\ bets'[i] \in Bet
                    /\ s.job # "place" /\ Kin(bets'[i], bets[i])
                    /\ s.job = "update" => Grows(bets[i], bets'[i], s.bill[i])
                    /\ s.job # "update" =>
                         \/ Keeps(bets[i], bets'[i])
                         \/ \E credit \in Nat : Closes(bets[i], bets'[i], credit)
               ELSE bets'[i] = bets[i]
<1> DEFINE s == session[w]
<1>1. /\ Worked /\ OpenBegun /\ Calm /\ InTune(s) /\ s.todo = {}
      /\ bets'[i] = IF i \in BetId /\ s.seen[i] # NoRow THEN s.mine[i] ELSE bets[i]
  <2>1. Worked /\ OpenBegun /\ Calm /\ InTune(s)
    BY DEF Accounted, Worked, Calm
  <2>2. s.job = "place" => s.todo = {}
    <3>1. s.todo \in SUBSET BetId
      BY DEF Accounted, Worked, Calm, TypeOK, Session
    <3> QED
      BY <2>1, <3>1 DEF InTune
  <2>3. s.todo = {}
    BY <2>2 DEF Commit, Finished
  <2> QED
    BY <2>1, <2>3, CommitWrites
<1>2. Done(s, i) <=> i \in BetId /\ s.seen[i] # NoRow
  BY <1>1 DEF Done
<1>3. CASE Done(s, i)
  <2>1. i \in BetId /\ s.seen[i] # NoRow /\ bets'[i] = s.mine[i]
    BY <1>1, <1>2, <1>3
  <2>2. s.job # "place" /\ Kin(bets'[i], bets[i])
    BY <1>1, <2>1 DEF InTune
  <2>3. /\ i \in OpenIds /\ bets[i] \in Bet /\ s.mine[i] \in Bet
        /\ s.job = "update" => Grows(bets[i], s.mine[i], s.bill[i])
        /\ s.job # "update" =>
             \/ Keeps(bets[i], s.mine[i])
             \/ \E credit \in Nat : Closes(bets[i], s.mine[i], credit)
    BY <1>1, <2>1, RowHeld
  <2> QED
    BY <1>3, <2>1, <2>2, <2>3
<1>4. CASE ~Done(s, i)
  BY <1>1, <1>2, <1>4
<1> QED
  BY <1>3, <1>4

\* What a place job commits.
LEMMA PlaceWrites ==
  ASSUME Accounted, NEW w \in Worker, Commit(w), session[w].job = "place"
  PROVE  LET s == session[w]
             b == s.add[1]
         IN  /\ bets' = Append(bets, b) /\ b \in Bet /\ b.pnl = 0
             /\ IF IsOpen(b) THEN Begun(b) /\ (b.ladder => b.filled = {1})
                               /\ s.purse # NoCash /\ s.purse = s.base - Paid(b)
                             ELSE b.status = "failed" /\ s.purse = NoCash
<1> DEFINE s == session[w]
           b == s.add[1]
<1>1. Calm /\ InTune(s) /\ Entered(s)
  BY DEF Accounted, Worked, Calm
<1>2. s.step = "commit" /\ s.add # <<>>
  BY <1>1 DEF Commit, Finished, InTune
<1>3. bets' = Append(bets, b) /\ b \in Bet
  BY <1>1, CommitWrites
<1> QED
  BY <1>1, <1>2, <1>3 DEF Entered

LEMMA OpenBegunStep ==
  ASSUME Paper, Accounted, Next
  PROVE  OpenBegun'
<1>1. /\ TypeOK /\ Calm /\ Worked /\ bets \in Seq(Bet) /\ OpenBegun /\ OneJob
  BY DEF Accounted, Worked, Calm, TypeOK, Paper
<1>2. ASSUME NEW b \in Bet, IsOpen(b) => Begun(b), bets' = Append(bets, b)
      PROVE  OpenBegun'
  <2>1. /\ \A i \in DOMAIN bets : bets'[i] = bets[i]
        /\ bets'[Len(bets) + 1] = b
        /\ DOMAIN bets' = DOMAIN bets \cup {Len(bets) + 1}
    BY <1>1, <1>2, OpenAppend
  <2>2. ASSUME NEW i \in DOMAIN bets', IsOpen(bets'[i]) PROVE Begun(bets'[i])
    BY <1>1, <1>2, <2>1, <2>2 DEF OpenBegun, OpenIds
  <2> QED
    BY <2>2 DEF OpenBegun, OpenIds
<1>3. ASSUME NEW w \in Worker, Commit(w) PROVE OpenBegun'
  <2>1. CASE session[w].job = "place"
    <3>1. /\ session[w].add[1] \in Bet /\ bets' = Append(bets, session[w].add[1])
          /\ IsOpen(session[w].add[1]) => Begun(session[w].add[1])
      BY <1>3, <2>1, PlaceWrites
    <3> QED
      BY <1>2, <3>1
  <2>2. CASE session[w].job # "place"
    <3>1. DOMAIN bets' = DOMAIN bets
      <4>1. Len(bets') = Len(bets) /\ bets' \in Seq(Bet)
        BY <1>1, <1>3, <2>2, CommitWrites, CommitStep DEF TypeOK
      <4> QED
        BY <1>1, <4>1
    <3>2. ASSUME NEW i \in DOMAIN bets, IsOpen(bets'[i]) PROVE Begun(bets'[i])
      <4>1. CASE Done(session[w], i)
        <5>1. \/ \E cost : Grows(bets[i], bets'[i], cost)
              \/ Keeps(bets[i], bets'[i])
              \/ \E credit : Closes(bets[i], bets'[i], credit)
          BY <1>3, <4>1, CommitRow
        <5> QED
          BY <3>2, <5>1 DEF Grows, Keeps, Closes
      <4>2. CASE ~Done(session[w], i)
        <5>1. bets'[i] = bets[i]
          BY <1>3, <4>2, CommitRow
        <5> QED
          BY <1>1, <3>2, <5>1 DEF OpenBegun, OpenIds
      <4> QED
        BY <4>1, <4>2
    <3> QED
      BY <3>1, <3>2 DEF OpenBegun, OpenIds
  <2> QED
    BY <2>1, <2>2
<1>4. ASSUME NEW a \in analyses, ~NotTradable(a.market),
             bets' = Append(bets, [NewBet(a, Stake(a), "rejected") EXCEPT !.filled = {}])
      PROVE  OpenBegun'
  <2> DEFINE b == [NewBet(a, Stake(a), "rejected") EXCEPT !.filled = {}]
  <2>1. b \in Bet /\ b.status = "rejected" /\ bets' = Append(bets, b)
    BY <1>1, <1>4, RejectedRow
  <2> HIDE DEF b
  <2> QED
    BY <1>2, <2>1 DEF IsOpen
<1>5. CASE UNCHANGED bets
  BY <1>1, <1>5 DEF OpenBegun, OpenIds
<1>6. CASE ResetApi
  <2>1. DOMAIN bets' = {}
    BY <1>6 DEF ResetApi
  <2> QED
    BY <2>1 DEF OpenBegun, OpenIds
<1>7. ~ResetCli
  BY DEF ResetCli, ResetAllowed, Paper
<1> QED
  BY <1>1, <1>3, <1>4, <1>5, <1>6, <1>7, StepWrites

LEMMA AccountedInductive == ASSUME Paper PROVE Accounted /\ [Next]_vars => Accounted'
<1> SUFFICES ASSUME Accounted, [Next]_vars PROVE Accounted'
  OBVIOUS
<1>1. TypeOK /\ Calm /\ OneJob /\ Worked' /\ TypeOK'
  BY WorkedInductive DEF Paper, Accounted, Worked, Calm
<1>2. CASE UNCHANGED vars
  BY <1>1, <1>2 DEF Accounted, OpenBegun, OpenIds, Entered, Tallied, Moved, Low, High, Lows, Highs, Done, Unpaid,
     Purse, vars
<1>3. CASE Next
  <2>1. OpenBegun'
    BY <1>3, OpenBegunStep
  <2>2. ASSUME NEW v \in Worker PROVE (Entered(session[v]) /\ Tallied(session[v]))'
    <3>1. CASE UNCHANGED Tables /\ session'[v] = session[v]
      BY <3>1 DEF Accounted, Entered, Tallied, Moved, Low, High, Lows, Highs, Done, Unpaid, Purse, Tables
    <3>2. CASE ~UNCHANGED Tables
      BY <1>1, <1>3, <3>2, WritesLast, FreshTallied DEF Calm
    <3>3. CASE session'[v] # session[v]
      <4>1. PICK w \in Worker : Begin(w) \/ Place(w) \/ Settle(w) \/ Money(w) \/ End(w)
        BY <1>3, <3>3 DEF Next, Fetch, Analyze, ResetApi, ResetCli, NextDay
      <4>2. v = w
        BY <1>1, <3>3, <4>1, TurnTaken DEF Calm, Turn, Alone
      <4>3. CASE PlaceSkip(w) \/ PlaceReject(w) \/ End(w)
        BY <1>1, <4>2, <4>3, EndFresh, FreshTallied
      <4> QED
        BY <4>1, <4>2, <4>3, BeginTallied, PlaceEntered, SettleTallied, MoneyTallied DEF Place
    <3> QED
      BY <3>1, <3>2, <3>3
  <2> QED
    BY <1>1, <2>1, <2>2 DEF Accounted
<1> QED
  BY <1>2, <1>3

LEMMA AccountedInit == Init => Accounted
<1> SUFFICES ASSUME Init PROVE Accounted
  OBVIOUS
<1>1. Worked /\ TypeOK
  BY WorkedInit DEF Worked, Calm
<1>2. OpenBegun
  BY DEF Init, OpenBegun, OpenIds
<1>3. ASSUME NEW w \in Worker PROVE Entered(session[w]) /\ Tallied(session[w])
  <2>1. Fresh(session[w])
    BY NoSessionFresh DEF Init
  <2>2. session[w].add = <<>> /\ session[w].purse = NoCash /\ DOMAIN bets = {}
    BY <2>1, FreshFields DEF Init
  <2> QED
    BY <1>1, <2>2, RowsFinite, NothingMoved DEF Entered
<1> QED
  BY <1>1, <1>2, <1>3 DEF Accounted
-----------------------------------------------------------------------------
(* Every commit is an entry of the cash book.                               *)

OpenBook   == [i \in OpenIds |-> Position(bets[i])]
ClosedBook == [i \in DOMAIN bets \ OpenIds |-> bets[i].pnl]

LEMMA BookDomains ==
  /\ DOMAIN OpenBook = OpenIds /\ DOMAIN ClosedBook = DOMAIN bets \ OpenIds
  /\ OpenIds \subseteq DOMAIN bets
  /\ \A i \in OpenIds : OpenBook[i] = Position(bets[i])
  /\ \A i \in DOMAIN bets \ OpenIds : ClosedBook[i] = bets[i].pnl
  BY DEF OpenBook, ClosedBook, OpenIds

LEMMA RefuseStep ==
  ASSUME TypeOK, NEW b \in Bet, ~IsOpen(b), b.pnl = 0, bets' = Append(bets, b), UNCHANGED portfolio
  PROVE  Book!Refuse
<1> DEFINE new == Len(bets) + 1
<1>1. /\ \A i \in DOMAIN bets : bets'[i] = bets[i]
      /\ new \notin DOMAIN bets /\ bets'[new] = b
      /\ DOMAIN bets' = DOMAIN bets \cup {new}
      /\ OpenIds' = OpenIds
  BY OpenAppend
<1> HIDE DEF new
<1>2. OpenBook' = OpenBook
  BY <1>1 DEF OpenBook, OpenIds
<1>3. /\ DOMAIN ClosedBook' = DOMAIN ClosedBook \cup {new}
      /\ new \in DOMAIN ClosedBook' /\ new \notin OpenIds /\ new \notin DOMAIN ClosedBook
      /\ \A j \in DOMAIN ClosedBook : ClosedBook'[j] = ClosedBook[j]
      /\ ClosedBook'[new] = 0
  BY <1>1 DEF ClosedBook, OpenIds
<1>4. new \in DOMAIN ClosedBook' \ Book!Used
  BY <1>3, BookDomains DEF Book!Used, OpenBook, ClosedBook
<1> QED
  BY <1>2, <1>3, <1>4 DEF Book!Refuse, OpenBook, ClosedBook

LEMMA BuyStep ==
  ASSUME TypeOK, NEW b \in Bet, IsOpen(b), bets' = Append(bets, b),
         Paid(b) \in 0 .. portfolio.cash, Paid(b) <= b.amount + 1,
         portfolio' = [portfolio EXCEPT !.cash = portfolio.cash - Paid(b)]
  PROVE  Book!Buy
<1> DEFINE new == Len(bets) + 1
<1>1. /\ \A i \in DOMAIN bets : bets'[i] = bets[i]
      /\ new \notin DOMAIN bets /\ bets'[new] = b
      /\ DOMAIN bets' = DOMAIN bets \cup {new}
      /\ OpenIds' = OpenIds \cup {new}
  BY OpenAppend
<1>2. portfolio'.cash = portfolio.cash - Paid(b) /\ portfolio'.initial = portfolio.initial
  BY DEF TypeOK
<1> HIDE DEF new
<1>3. ClosedBook' = ClosedBook
  <2>1. DOMAIN bets' \ OpenIds' = DOMAIN bets \ OpenIds
    BY <1>1
  <2> QED
    BY <1>1, <2>1 DEF ClosedBook
<1>4. /\ DOMAIN OpenBook' = DOMAIN OpenBook \cup {new}
      /\ \A j \in DOMAIN OpenBook : OpenBook'[j] = OpenBook[j]
      /\ OpenBook'[new] = Position(b)
  BY <1>1 DEF OpenBook, OpenIds
<1>5. OpenBook'[new].paid = Paid(b) /\ OpenBook'[new].stake = b.amount
  BY <1>4 DEF Position
<1>6. new \in DOMAIN OpenBook' \ Book!Used
  BY <1>1, <1>4, BookDomains DEF Book!Used, OpenBook, ClosedBook
<1> QED
  BY <1>2, <1>3, <1>4, <1>5, <1>6 DEF Book!Buy, OpenBook, ClosedBook

\* The sums of the cash book are those of the ledger.
LEMMA BookSum ==
  ASSUME NEW f
  PROVE  Book!SumFunction(f) = SumFunctionOnSet(f, DOMAIN f)
<1>1. Book!SumFunctionOnSet(f, DOMAIN f) = SumFunctionOnSet(f, DOMAIN f)
  BY DEF Book!SumFunctionOnSet, Book!FoldFunctionOnSet, Book!MapThenFoldSet,
         SumFunctionOnSet, FoldFunctionOnSet, MapThenFoldSet
<1> QED
  BY <1>1 DEF Book!SumFunction

\* The cash a commit leaves is what its session holds.
LEMMA CommitCash ==
  ASSUME Accounted, NEW w \in Worker, Commit(w)
  PROVE  /\ portfolio'.cash = portfolio.cash + Moved(session[w])
         /\ portfolio'.cash = Purse(session[w])
         /\ portfolio'.initial = portfolio.initial
         /\ portfolio.cash \in Nat /\ Moved(session[w]) \in Int
<1> DEFINE s == session[w]
<1>1. /\ TypeOK /\ Calm /\ Sound(s) /\ InTune(s) /\ s \in Session /\ portfolio.cash \in Nat
  BY DEF Accounted, Worked, Calm, TypeOK
<1>2. portfolio' = [portfolio EXCEPT !.cash = IF s.purse = s.base THEN @ ELSE s.purse]
  BY <1>1, CommitWrites
<1>3. /\ portfolio'.cash = IF s.purse = s.base THEN portfolio.cash ELSE s.purse
      /\ portfolio'.initial = portfolio.initial
  BY <1>1, <1>2 DEF TypeOK
<1>4. CASE s.purse = NoCash
  <2>1. Moved(s) = 0 /\ Purse(s) = portfolio.cash /\ s.base = s.purse
    BY <1>1, <1>4 DEF Sound, Moved, Purse
  <2> QED
    BY <1>1, <1>3, <2>1
<1>5. CASE s.purse # NoCash
  <2>1. s.base = portfolio.cash /\ s.purse \in Nat
    BY <1>1, <1>5 DEF InTune, Session
  <2>2. Moved(s) = s.purse - s.base /\ Purse(s) = s.purse
    BY <1>5 DEF Moved, Purse
  <2> HIDE DEF s
  <2> QED
    BY <1>1, <1>3, <2>1, <2>2 DEF s
<1> QED
  BY <1>4, <1>5

LEMMA CommitDomain ==
  ASSUME Accounted, NEW w \in Worker, Commit(w), session[w].job # "place"
  PROVE  DOMAIN bets' = DOMAIN bets /\ TypeOK' /\ IsFiniteSet(DOMAIN bets) /\ TypeOK
<1>1. TypeOK /\ Calm
  BY DEF Accounted, Worked, Calm
<1>2. TypeOK'
  BY <1>1, CommitStep
<1>3. bets \in Seq(Bet) /\ bets' \in Seq(Bet) /\ Len(bets') = Len(bets)
  BY <1>1, <1>2, CommitWrites DEF TypeOK
<1> QED
  BY <1>1, <1>2, <1>3, RowsFinite

\* An update's commit fills rungs, and pays for all of them or has met one it
\* could not pay for.
LEMMA FillRows ==
  ASSUME Accounted, NEW w \in Worker, Commit(w), session[w].job = "update"
  PROVE  LET s == session[w]
             rise == [i \in OpenIds |-> Paid(bets'[i]) - Paid(bets[i])]
         IN  /\ DOMAIN bets' = DOMAIN bets /\ OpenIds' = OpenIds
             /\ \A i \in DOMAIN bets \ OpenIds : bets'[i] = bets[i]
             /\ \A i \in OpenIds :
                  /\ bets'[i].amount = bets[i].amount /\ bets'[i].ladder = bets[i].ladder
                  /\ rise[i] \in Nat /\ rise[i] = IF Done(s, i) THEN s.bill[i] ELSE 0
                  /\ rise[i] > 0 => bets[i].ladder /\ Paid(bets'[i]) <= bets[i].amount + 1
                  /\ Lows(s)[i] = 0 - rise[i]
             /\ \A i \in DOMAIN bets : i \notin OpenIds => Lows(s)[i] = 0
             /\ \A i \in DOMAIN bets : Highs(s)[i] = 0
<1> DEFINE s == session[w]
           rise == [i \in OpenIds |-> Paid(bets'[i]) - Paid(bets[i])]
<1>1. DOMAIN bets' = DOMAIN bets /\ TypeOK
  BY CommitDomain
<1>2. ASSUME NEW i \in DOMAIN bets, Done(s, i)
      PROVE  /\ i \in OpenIds /\ IsOpen(bets'[i]) /\ bets'[i] = s.mine[i] /\ Kin(bets'[i], bets[i])
             /\ Grows(bets[i], bets'[i], s.bill[i]) /\ bets[i] \in Bet
  BY <1>2, CommitRow DEF Grows
<1>3. ASSUME NEW i \in DOMAIN bets, ~Done(s, i) PROVE bets'[i] = bets[i]
  BY <1>3, CommitRow
<1>4. OpenIds' = OpenIds
  BY <1>1, <1>2, <1>3 DEF OpenIds
<1>5. ASSUME NEW i \in OpenIds
      PROVE  /\ bets'[i].amount = bets[i].amount /\ bets'[i].ladder = bets[i].ladder
             /\ rise[i] \in Nat /\ rise[i] = IF Done(s, i) THEN s.bill[i] ELSE 0
             /\ rise[i] > 0 => bets[i].ladder /\ Paid(bets'[i]) <= bets[i].amount + 1
             /\ Lows(s)[i] = 0 - rise[i]
  <2>1. i \in DOMAIN bets /\ bets[i] \in Bet /\ Paid(bets[i]) \in Nat /\ Floor(bets[i]) \in Int
    BY <1>1, AmountType, RowType DEF OpenIds
  <2>2. rise[i] = Paid(bets'[i]) - Paid(bets[i])
    OBVIOUS
  <2>3. CASE Done(s, i)
    <3>1. Grows(bets[i], bets'[i], s.bill[i]) /\ Kin(bets'[i], bets[i]) /\ bets'[i] = s.mine[i]
      BY <1>2, <2>1, <2>3
    <3>2. Lows(s)[i] = Floor(bets'[i]) - Floor(bets[i])
      BY <2>1, <2>3, <3>1 DEF Lows
    <3> HIDE DEF s, rise
    <3>3. rise[i] = s.bill[i] /\ rise[i] \in Nat
      BY <2>1, <2>2, <3>1 DEF Grows
    <3>4. Lows(s)[i] = 0 - rise[i]
      BY <2>1, <3>1, <3>2, <3>3 DEF Grows
    <3> QED
      BY <2>3, <3>1, <3>3, <3>4 DEF Grows, Kin
  <2>4. CASE ~Done(s, i)
    <3>1. bets'[i] = bets[i] /\ Lows(s)[i] = 0
      BY <1>3, <2>1, <2>4 DEF Lows
    <3> HIDE DEF s, rise
    <3>2. rise[i] = 0
      BY <2>1, <2>2, <3>1
    <3>3. rise[i] \in Nat /\ ~(rise[i] > 0) /\ 0 - rise[i] = 0
      <4>1. 0 \in Nat /\ ~(0 > 0) /\ 0 - 0 = 0
        OBVIOUS
      <4> QED
        BY <3>2, <4>1, Zenon
    <3>4. bets'[i].amount = bets[i].amount /\ bets'[i].ladder = bets[i].ladder
      BY <3>1
    <3> QED
      BY <2>4, <3>1, <3>2, <3>3, <3>4
  <2> QED
    BY <2>3, <2>4
<1>6. ASSUME NEW i \in DOMAIN bets, i \notin OpenIds PROVE bets'[i] = bets[i] /\ Lows(s)[i] = 0
  <2>1. ~Done(s, i)
    BY <1>2, <1>6
  <2> QED
    BY <1>3, <1>6, <2>1 DEF Lows
<1>7. ASSUME NEW i \in DOMAIN bets PROVE Highs(s)[i] = 0
  <2>1. CASE Done(s, i)
    <3>1. Top(bets[i]) \in Int /\ Top(s.mine[i]) = Top(bets[i])
      BY <1>2, <1>7, <2>1, RowType DEF Grows
    <3>2. Highs(s)[i] = Top(s.mine[i]) - Top(bets[i])
      BY <1>7, <2>1 DEF Highs
    <3> HIDE DEF s
    <3> QED
      BY <3>1, <3>2
  <2>2. CASE ~Done(s, i)
    BY <1>7, <2>2 DEF Highs
  <2> QED
    BY <2>1, <2>2
<1> HIDE DEF s
<1>8. \A i \in OpenIds :
         /\ bets'[i].amount = bets[i].amount /\ bets'[i].ladder = bets[i].ladder
         /\ rise[i] \in Nat /\ rise[i] = IF Done(s, i) THEN s.bill[i] ELSE 0
         /\ rise[i] > 0 => bets[i].ladder /\ Paid(bets'[i]) <= bets[i].amount + 1
         /\ Lows(s)[i] = 0 - rise[i]
  BY <1>5
<1> QED
  BY <1>1, <1>4, <1>6, <1>7, <1>8 DEF s

LEMMA FillCash ==
  ASSUME Accounted, NEW w \in Worker, Commit(w), session[w].job = "update"
  PROVE  LET rise == [i \in OpenIds |-> Paid(bets'[i]) - Paid(bets[i])]
             owed == SumFunctionOnSet(rise, OpenIds)
         IN  /\ owed \in Nat
             /\ portfolio.cash - portfolio'.cash \in 0 .. owed
             /\ portfolio.cash - portfolio'.cash < owed =>
                  \E i \in OpenIds : rise[i] > portfolio'.cash
<1> DEFINE s == session[w]
           rise == [i \in OpenIds |-> Paid(bets'[i]) - Paid(bets[i])]
           owed == SumFunctionOnSet(rise, OpenIds)
<1>1. /\ \A i \in OpenIds : /\ rise[i] \in Nat /\ rise[i] = IF Done(s, i) THEN s.bill[i] ELSE 0
                            /\ Lows(s)[i] = 0 - rise[i]
      /\ \A i \in DOMAIN bets : i \notin OpenIds => Lows(s)[i] = 0
      /\ \A i \in DOMAIN bets : Highs(s)[i] = 0
  BY FillRows
<1>2. /\ IsFiniteSet(DOMAIN bets) /\ OpenIds \in SUBSET DOMAIN bets /\ IsFiniteSet(OpenIds)
      /\ Low(s) \in Int
  <2>1. IsFiniteSet(DOMAIN bets) /\ OpenIds \in SUBSET DOMAIN bets
    BY CommitDomain DEF OpenIds
  <2>2. Low(s) \in Int
    BY RowsBounded DEF Accounted
  <2> QED
    BY <2>1, <2>2, FS_Subset
<1>3. /\ portfolio'.cash = portfolio.cash + Moved(s) /\ portfolio'.cash = Purse(s)
      /\ portfolio.cash \in Nat /\ Moved(s) \in Int
  BY CommitCash
<1>4. /\ Low(s) <= Moved(s) /\ Moved(s) <= High(s)
      /\ Moved(s) = Low(s) \/ Unpaid(s)
  BY DEF Accounted, Tallied
<1>5. s.todo = {}
  BY DEF Commit, Finished
<1>6. ASSUME NEW i \in BetId, s.seen[i] # NoRow PROVE i \in OpenIds /\ Done(s, i)
  <2>1. i \in OpenIds
    BY <1>6, RowHeld DEF Accounted
  <2> QED
    BY <1>5, <1>6, <2>1 DEF Done
<1> HIDE DEF s, rise
<1>7. High(s) = 0
  BY <1>1, <1>2, SumZero DEF High
<1>8. Low(s) = -owed /\ owed \in Nat
  <2>1. owed \in Nat
    BY <1>1, <1>2, SumNat
  <2>2. \A i \in DOMAIN bets : Lows(s)[i] \in Int
    BY <1>1
  <2>3. Low(s) = SumFunctionOnSet(Lows(s), OpenIds)
    BY <1>1, <1>2, <2>2, SumWithin DEF Low
  <2>4. \A i \in OpenIds : rise[i] \in Int /\ Lows(s)[i] = (-1) * rise[i]
    BY <1>1
  <2>5. SumFunctionOnSet(Lows(s), OpenIds) = (-1) * owed
    BY <1>2, <2>4, SumScale
  <2> QED
    BY <2>1, <2>3, <2>5
<1> HIDE DEF owed
<1>9. portfolio.cash - portfolio'.cash \in 0 .. owed
  BY <1>3, <1>4, <1>7, <1>8
<1>10. ASSUME portfolio.cash - portfolio'.cash < owed
       PROVE  \E i \in OpenIds : rise[i] > portfolio'.cash
  <2>1. Unpaid(s)
    BY <1>3, <1>4, <1>8, <1>10
  <2>2. PICK i \in BetId : s.seen[i] # NoRow /\ s.bill[i] > Purse(s)
    BY <2>1 DEF Unpaid
  <2>3. i \in OpenIds /\ rise[i] = s.bill[i]
    BY <1>1, <1>6, <2>2
  <2> QED
    BY <1>3, <2>2, <2>3
<1> QED
  BY <1>8, <1>9, <1>10 DEF owed, rise

LEMMA FillStep ==
  ASSUME Accounted, NEW w \in Worker, Commit(w), session[w].job = "update"
  PROVE  Book!Fill
<1> DEFINE rise == [i \in OpenIds |-> Paid(bets'[i]) - Paid(bets[i])]
           owed == SumFunctionOnSet(rise, OpenIds)
<1>1. /\ DOMAIN bets' = DOMAIN bets /\ OpenIds' = OpenIds /\ OpenIds \subseteq DOMAIN bets
      /\ \A i \in DOMAIN bets \ OpenIds : bets'[i] = bets[i]
      /\ \A i \in OpenIds :
           /\ bets'[i].amount = bets[i].amount /\ bets'[i].ladder = bets[i].ladder
           /\ rise[i] \in Nat
           /\ rise[i] > 0 => bets[i].ladder /\ Paid(bets'[i]) <= bets[i].amount + 1
  BY FillRows DEF OpenIds
<1>2. /\ portfolio.cash - portfolio'.cash \in 0 .. owed
      /\ portfolio.cash - portfolio'.cash < owed => \E i \in OpenIds : rise[i] > portfolio'.cash
      /\ portfolio'.initial = portfolio.initial
  BY FillCash, CommitCash
<1>3. ClosedBook' = ClosedBook
  BY <1>1 DEF ClosedBook
<1>4. DOMAIN OpenBook = OpenIds /\ DOMAIN OpenBook' = OpenIds
  BY <1>1 DEF OpenBook
<1>5. ASSUME NEW i \in OpenIds
      PROVE  /\ OpenBook[i].paid = Paid(bets[i]) /\ OpenBook'[i].paid = Paid(bets'[i])
             /\ OpenBook[i].split = bets[i].ladder /\ OpenBook[i].stake = bets[i].amount
             /\ OpenBook'[i] = [OpenBook[i] EXCEPT !.paid = OpenBook'[i].paid]
  BY <1>1 DEF OpenBook, Position
<1>6. Book!Rise = rise
  BY <1>4, <1>5 DEF Book!Rise, OpenBook
<1>7. Book!SumFunction(Book!Rise) = owed
  <2>1. DOMAIN rise = OpenIds
    OBVIOUS
  <2> HIDE DEF rise
  <2> QED
    BY <1>6, <2>1, BookSum
<1> HIDE DEF owed, rise
<1>8. \A i \in OpenIds :
        /\ OpenBook'[i] = [OpenBook[i] EXCEPT !.paid = OpenBook'[i].paid]
        /\ Book!Rise[i] >= 0
        /\ Book!Rise[i] > 0 => OpenBook[i].split /\ OpenBook'[i].paid <= OpenBook[i].stake + 1
  BY <1>1, <1>5, <1>6
<1> QED
  BY <1>2, <1>3, <1>4, <1>6, <1>7, <1>8 DEF Book!Fill, OpenBook, ClosedBook

\* The rows a commit closes.
Closing(s) == {i \in OpenIds : Done(s, i) /\ ~IsOpen(s.mine[i])}

LEMMA CloseRows ==
  ASSUME Accounted, NEW w \in Worker, Commit(w), session[w].job \notin {"place", "update"}
  PROVE  LET s == session[w] IN
         /\ DOMAIN bets' = DOMAIN bets
         /\ OpenIds' = OpenIds \ Closing(s)
         /\ \A i \in OpenIds' : Position(bets'[i]) = Position(bets[i])
         /\ \A i \in DOMAIN bets \ OpenIds : bets'[i].pnl = bets[i].pnl
         /\ \A i \in Closing(s) :
              /\ bets'[i].pnl \in Int /\ bets'[i].pnl >= -Book!Most(Position(bets[i]))
              /\ Book!Least(Position(bets[i])) \in Int /\ Book!Most(Position(bets[i])) \in Int
              /\ Book!Least(Position(bets[i])) + bets'[i].pnl <= Lows(s)[i]
              /\ Highs(s)[i] <= Book!Most(Position(bets[i])) + bets'[i].pnl
         /\ \A i \in DOMAIN bets \ Closing(s) : Lows(s)[i] = 0 /\ Highs(s)[i] = 0
<1> DEFINE s == session[w]
<1>1. DOMAIN bets' = DOMAIN bets /\ TypeOK
  BY CommitDomain
<1>2. ASSUME NEW i \in DOMAIN bets, Done(s, i)
      PROVE  /\ i \in OpenIds /\ bets'[i] = s.mine[i] /\ Kin(bets'[i], bets[i])
             /\ bets[i] \in Bet /\ bets'[i] \in Bet
             /\ Lows(s)[i] = Floor(bets'[i]) - Floor(bets[i])
             /\ Highs(s)[i] = Top(bets'[i]) - Top(bets[i])
             /\ \/ Keeps(bets[i], bets'[i])
                \/ \E credit \in Nat : Closes(bets[i], bets'[i], credit)
  BY <1>2, CommitRow DEF Lows, Highs
<1>3. ASSUME NEW i \in DOMAIN bets, ~Done(s, i)
      PROVE  bets'[i] = bets[i] /\ Lows(s)[i] = 0 /\ Highs(s)[i] = 0
  BY <1>3, CommitRow DEF Lows, Highs
<1>4. OpenIds \subseteq DOMAIN bets
  BY DEF OpenIds
<1>5. OpenIds' = OpenIds \ Closing(s)
  BY <1>1, <1>2, <1>3 DEF OpenIds, Closing
<1>6. ASSUME NEW i \in OpenIds, i \notin Closing(s)
      PROVE  Position(bets'[i]) = Position(bets[i]) /\ Lows(s)[i] = 0 /\ Highs(s)[i] = 0
  <2>1. CASE Done(s, i)
    <3>1. Keeps(bets[i], bets'[i])
      BY <1>2, <1>4, <1>6, <2>1 DEF Closing, Closes
    <3>2. Position(bets'[i]) = Position(bets[i])
      BY <1>2, <1>4, <1>6, <2>1, <3>1 DEF Position, Keeps, Kin
    <3>3. Floor(bets[i]) \in Int /\ Top(bets[i]) \in Int
      BY <1>1, <1>4, AmountType, RowType
    <3>4. Lows(s)[i] = Floor(bets'[i]) - Floor(bets[i]) /\ Highs(s)[i] = Top(bets'[i]) - Top(bets[i])
      BY <1>2, <1>4, <2>1
    <3> HIDE DEF s
    <3> QED
      BY <3>1, <3>2, <3>3, <3>4 DEF Keeps
  <2>2. CASE ~Done(s, i)
    BY <1>3, <1>4, <2>2
  <2> QED
    BY <2>1, <2>2
<1>7. ASSUME NEW i \in DOMAIN bets \ OpenIds PROVE bets'[i] = bets[i] /\ Lows(s)[i] = 0 /\ Highs(s)[i] = 0
  BY <1>2, <1>3
<1>8. ASSUME NEW i \in Closing(s)
      PROVE  /\ bets'[i].pnl \in Int /\ bets'[i].pnl >= -Book!Most(Position(bets[i]))
             /\ Book!Least(Position(bets[i])) \in Int /\ Book!Most(Position(bets[i])) \in Int
             /\ Book!Least(Position(bets[i])) + bets'[i].pnl <= Lows(s)[i]
             /\ Highs(s)[i] <= Book!Most(Position(bets[i])) + bets'[i].pnl
  <2>1. i \in DOMAIN bets /\ Done(s, i) /\ ~IsOpen(s.mine[i])
    BY <1>4 DEF Closing
  <2>2. /\ bets[i] \in Bet /\ bets'[i] \in Bet /\ ~IsOpen(bets'[i])
        /\ Lows(s)[i] = Floor(bets'[i]) - Floor(bets[i])
        /\ Highs(s)[i] = Top(bets'[i]) - Top(bets[i])
    BY <1>2, <2>1
  <2>3. PICK credit \in Nat : Closes(bets[i], bets'[i], credit)
    BY <1>2, <2>1, <2>2 DEF Keeps
  <2>4. bets'[i].pnl \in Int
    BY <2>2, RowType
  <2>5. Book!Least(Position(bets[i])) \in Int /\ Book!Most(Position(bets[i])) \in Int
    BY <2>2, LeastMost
  <2> HIDE DEF s
  <2> QED
    BY <2>2, <2>3, <2>4, <2>5 DEF Closes
<1> HIDE DEF s
<1>9. \A i \in OpenIds' : Position(bets'[i]) = Position(bets[i])
  BY <1>5, <1>6
<1>10. \A i \in DOMAIN bets \ Closing(s) : Lows(s)[i] = 0 /\ Highs(s)[i] = 0
  BY <1>6, <1>7
<1> QED
  BY <1>1, <1>5, <1>7, <1>8, <1>9, <1>10 DEF s

LEMMA CloseCash ==
  ASSUME Accounted, NEW w \in Worker, Commit(w), session[w].job \notin {"place", "update"}
  PROVE  LET S == Closing(session[w])
             least == [i \in S |-> Book!Least(Position(bets[i])) + bets'[i].pnl]
             most  == [i \in S |-> Book!Most(Position(bets[i])) + bets'[i].pnl]
         IN  /\ portfolio'.cash - portfolio.cash \in SumFunctionOnSet(least, S) .. SumFunctionOnSet(most, S)
             /\ S = {} => portfolio'.cash = portfolio.cash
             /\ portfolio'.initial = portfolio.initial
<1> DEFINE s == session[w]
           S == Closing(s)
           least == [i \in S |-> Book!Least(Position(bets[i])) + bets'[i].pnl]
           most  == [i \in S |-> Book!Most(Position(bets[i])) + bets'[i].pnl]
<1>1. /\ portfolio'.cash = portfolio.cash + Moved(s) /\ portfolio'.initial = portfolio.initial
      /\ portfolio.cash \in Nat /\ Moved(s) \in Int
  BY CommitCash
<1>2. Low(s) <= Moved(s) /\ Moved(s) <= High(s)
  BY DEF Accounted, Tallied
<1>3. /\ \A i \in S : /\ least[i] \in Int /\ most[i] \in Int
                      /\ least[i] <= Lows(s)[i] /\ Highs(s)[i] <= most[i]
      /\ \A i \in DOMAIN bets \ S : Lows(s)[i] = 0 /\ Highs(s)[i] = 0
  BY CloseRows
<1>4. /\ \A i \in DOMAIN bets : Lows(s)[i] \in Int /\ Highs(s)[i] \in Int
      /\ IsFiniteSet(DOMAIN bets) /\ S \in SUBSET DOMAIN bets /\ IsFiniteSet(S)
      /\ Low(s) \in Int /\ High(s) \in Int
  <2>1. S \in SUBSET DOMAIN bets
    BY DEF Closing, OpenIds
  <2>2. /\ \A i \in DOMAIN bets : Lows(s)[i] \in Int /\ Highs(s)[i] \in Int
        /\ Low(s) \in Int /\ High(s) \in Int /\ IsFiniteSet(DOMAIN bets)
    BY RowsBounded DEF Accounted
  <2> QED
    BY <2>1, <2>2, FS_Subset
<1> HIDE DEF s, S, least, most
<1>5. Low(s) = SumFunctionOnSet(Lows(s), S) /\ High(s) = SumFunctionOnSet(Highs(s), S)
  BY <1>3, <1>4, SumWithin DEF Low, High
<1>6. /\ SumFunctionOnSet(least, S) <= SumFunctionOnSet(Lows(s), S)
      /\ SumFunctionOnSet(Highs(s), S) <= SumFunctionOnSet(most, S)
  <2>1. \A i \in S : Lows(s)[i] \in Int /\ Highs(s)[i] \in Int
    BY <1>4
  <2> QED
    BY <1>3, <1>4, <2>1, SumMonotone
<1>7. SumFunctionOnSet(least, S) \in Int /\ SumFunctionOnSet(most, S) \in Int
  BY <1>3, <1>4, SumInt
<1>8. S = {} => Moved(s) = 0
  BY <1>1, <1>2, <1>4, <1>5, SumEmpty
<1>9. portfolio'.cash - portfolio.cash \in SumFunctionOnSet(least, S) .. SumFunctionOnSet(most, S)
  BY <1>1, <1>2, <1>4, <1>5, <1>6, <1>7
<1>10. S = {} => portfolio'.cash = portfolio.cash
  BY <1>1, <1>8
<1> QED
  BY <1>1, <1>9, <1>10 DEF s, S, least, most

LEMMA CloseStep ==
  ASSUME Accounted, NEW w \in Worker, Commit(w), session[w].job \notin {"place", "update"}
  PROVE  Book!Close \/ UNCHANGED Book!book
<1> DEFINE s == session[w]
           S == Closing(s)
           least == [i \in S |-> Book!Least(Position(bets[i])) + bets'[i].pnl]
           most  == [i \in S |-> Book!Most(Position(bets[i])) + bets'[i].pnl]
<1>1. /\ DOMAIN bets' = DOMAIN bets
      /\ OpenIds' = OpenIds \ S
      /\ \A i \in OpenIds' : Position(bets'[i]) = Position(bets[i])
      /\ \A i \in DOMAIN bets \ OpenIds : bets'[i].pnl = bets[i].pnl
      /\ \A i \in S : bets'[i].pnl >= -Book!Most(Position(bets[i]))
      /\ S \subseteq OpenIds /\ OpenIds \subseteq DOMAIN bets
  BY CloseRows DEF Closing, OpenIds
<1>2. /\ portfolio'.cash - portfolio.cash \in SumFunctionOnSet(least, S) .. SumFunctionOnSet(most, S)
      /\ S = {} => portfolio'.cash = portfolio.cash
      /\ portfolio'.initial = portfolio.initial
  BY CloseCash
<1> HIDE DEF S
<1>3. CASE S = {}
  <2>1. OpenBook' = OpenBook
    BY <1>1, <1>3 DEF OpenBook
  <2>2. ClosedBook' = ClosedBook
    BY <1>1, <1>3 DEF ClosedBook
  <2> QED
    BY <1>2, <1>3, <2>1, <2>2 DEF Book!book, OpenBook, ClosedBook
<1>4. CASE S # {}
  <2>1. S \in (SUBSET DOMAIN OpenBook) \ {{}}
    BY <1>1, <1>4 DEF OpenBook
  <2>2. /\ DOMAIN OpenBook' = DOMAIN OpenBook \ S
        /\ \A j \in DOMAIN OpenBook' : OpenBook'[j] = OpenBook[j]
    BY <1>1 DEF OpenBook
  <2>3. \A i \in S : OpenBook[i] = Position(bets[i]) /\ ClosedBook'[i] = bets'[i].pnl
    BY <1>1 DEF OpenBook, ClosedBook
  <2>4. /\ DOMAIN ClosedBook' = DOMAIN ClosedBook \cup S
        /\ \A j \in DOMAIN ClosedBook : ClosedBook'[j] = ClosedBook[j]
    BY <1>1 DEF ClosedBook
  <2>5. \A i \in S : ClosedBook'[i] >= -Book!Most(OpenBook[i])
    BY <1>1, <2>3
  <2>6. /\ [i \in S |-> Book!Least(OpenBook[i]) + ClosedBook'[i]] = least
        /\ [i \in S |-> Book!Most(OpenBook[i]) + ClosedBook'[i]] = most
    BY <2>3
  <2>7. DOMAIN least = S /\ DOMAIN most = S
    OBVIOUS
  <2> HIDE DEF least, most
  <2>8. portfolio'.cash - portfolio.cash \in
           Book!SumFunction([i \in S |-> Book!Least(OpenBook[i]) + ClosedBook'[i]])
             .. Book!SumFunction([i \in S |-> Book!Most(OpenBook[i]) + ClosedBook'[i]])
    BY <1>2, <2>6, <2>7, BookSum
  <2> QED
    BY <1>2, <2>1, <2>2, <2>4, <2>5, <2>8 DEF Book!Close, OpenBook, ClosedBook
<1> QED
  BY <1>3, <1>4

LEMMA EmptyBook ==
  /\ bets = <<>> => OpenBook = << >> /\ ClosedBook = << >>
  /\ bets' = <<>> => OpenBook' = << >> /\ ClosedBook' = << >>
<1>1. DOMAIN << >> = {}
  OBVIOUS
<1>2. ASSUME bets = <<>> PROVE OpenBook = << >> /\ ClosedBook = << >>
  <2>1. OpenIds = {} /\ DOMAIN bets \ OpenIds = {}
    BY <1>1, <1>2 DEF OpenIds
  <2> QED
    BY <2>1 DEF OpenBook, ClosedBook
<1>3. ASSUME bets' = <<>> PROVE OpenBook' = << >> /\ ClosedBook' = << >>
  <2>1. OpenIds' = {} /\ DOMAIN bets' \ OpenIds' = {}
    BY <1>1, <1>3 DEF OpenIds
  <2> QED
    BY <2>1 DEF OpenBook, ClosedBook
<1> QED
  BY <1>2, <1>3

\* The commit of a place job: the row is bought, or it is there with no money.
LEMMA PlaceCommits ==
  ASSUME Accounted, NEW w \in Worker, Commit(w), session[w].job = "place"
  PROVE  Book!Next
<1> DEFINE s == session[w]
           b == s.add[1]
           cost == Paid(b)
<1>1. /\ TypeOK /\ Calm /\ InTune(s) /\ Sound(s) /\ s \in Session
      /\ portfolio.cash \in Nat /\ portfolio \in [initial : Nat, cash : Nat]
  BY DEF Accounted, Worked, Calm, TypeOK
<1>2. /\ bets' = Append(bets, b) /\ b \in Bet /\ b.pnl = 0
      /\ IF IsOpen(b) THEN Begun(b) /\ s.purse # NoCash /\ s.purse = s.base - cost
                      ELSE s.purse = NoCash
      /\ portfolio' = [portfolio EXCEPT !.cash = IF s.purse = s.base THEN @ ELSE s.purse]
  BY <1>1, PlaceWrites, CommitWrites
<1>3. cost \in Nat /\ cost <= b.amount + 1
  <2>1. cost \in Nat /\ Priced(b) /\ b.amount \in Nat
    BY <1>2, RowType
  <2>2. CASE b.ladder
    BY <2>1, <2>2, PaidNear
  <2>3. CASE ~b.ladder
    <3>1. cost = b.amount
      BY <2>3 DEF Paid
    <3> QED
      BY <2>1, <3>1
  <2> QED
    BY <2>1, <2>2, <2>3
<1>4. CASE IsOpen(b)
  <2>1. s.base = portfolio.cash /\ s.purse \in Nat
    BY <1>1, <1>2, <1>4 DEF InTune, Session
  <2>2. s.purse = portfolio.cash - cost
    BY <1>2, <1>4, <2>1
  <2> HIDE DEF s, b, cost
  <2>3. cost \in 0 .. portfolio.cash
    BY <1>1, <1>3, <2>1, <2>2
  <2>4. portfolio' = [portfolio EXCEPT !.cash = portfolio.cash - cost]
    BY <1>1, <1>2, <2>1, <2>2
  <2> QED
    BY <1>1, <1>2, <1>3, <1>4, <2>3, <2>4, BuyStep DEF Book!Next, cost
<1>5. CASE ~IsOpen(b)
  <2>1. s.purse = s.base
    BY <1>1, <1>2, <1>5 DEF Sound
  <2>2. portfolio' = portfolio
    BY <1>1, <1>2, <2>1
  <2> QED
    BY <1>1, <1>2, <1>5, <2>2, RefuseStep DEF Book!Next
<1> QED
  BY <1>4, <1>5

\* Every step of the ledger is an entry of the book, or none.
LEMMA BookStep == ASSUME Paper PROVE Accounted /\ [Next]_vars => [Book!Next]_(Book!book)
<1> SUFFICES ASSUME Accounted, [Next]_vars PROVE Book!Next \/ UNCHANGED Book!book
  BY Zenon
<1>1. TypeOK /\ Calm /\ OneJob
  BY DEF Accounted, Worked, Calm, Paper
<1>2. CASE UNCHANGED <<bets, portfolio>>
  BY <1>2 DEF Book!book, OpenIds
<1>3. ASSUME NEW w \in Worker, Commit(w) PROVE Book!Next \/ UNCHANGED Book!book
  <2>1. CASE session[w].job = "place"
    BY <1>3, <2>1, PlaceCommits
  <2>2. CASE session[w].job = "update"
    BY <1>3, <2>2, FillStep DEF Book!Next
  <2>3. CASE session[w].job \notin {"place", "update"}
    BY <1>3, <2>3, CloseStep DEF Book!Next
  <2> QED
    BY <2>1, <2>2, <2>3
<1>4. ASSUME NEW a \in analyses, ~NotTradable(a.market), UNCHANGED portfolio,
             bets' = Append(bets, [NewBet(a, Stake(a), "rejected") EXCEPT !.filled = {}])
      PROVE  Book!Next
  <2> DEFINE b == [NewBet(a, Stake(a), "rejected") EXCEPT !.filled = {}]
  <2>1. b \in Bet /\ b.status = "rejected" /\ b.pnl = 0
    BY <1>1, <1>4, RejectedRow
  <2>2. bets' = Append(bets, b)
    BY <1>4
  <2> HIDE DEF b
  <2> QED
    BY <1>1, <1>4, <2>1, <2>2, RefuseStep DEF Book!Next, IsOpen
<1>5. CASE ResetApi
  <2>1. bets' = <<>> /\ portfolio'.cash = portfolio'.initial
    BY <1>5 DEF ResetApi
  <2>2. OpenBook' = << >> /\ ClosedBook' = << >>
    BY <2>1, EmptyBook
  <2> QED
    BY <2>1, <2>2 DEF Book!Reset, Book!Next, OpenBook, ClosedBook
<1>6. ~ResetCli
  BY DEF ResetCli, ResetAllowed, Paper
<1>7. CASE Next
  BY <1>1, <1>2, <1>3, <1>4, <1>5, <1>6, <1>7, StepWrites
<1> QED
  BY <1>2, <1>7 DEF vars

LEMMA BookInit == Init => Book!Init
<1> SUFFICES ASSUME Init PROVE Book!Init
  OBVIOUS
<1>1. bets = <<>> /\ portfolio.initial = InitialPortfolio /\ portfolio.cash = InitialPortfolio
  BY DEF Init
<1>2. OpenBook = << >> /\ ClosedBook = << >>
  BY <1>1, EmptyBook
<1> QED
  BY <1>1, <1>2, MoneyAssumption DEF Book!Init, OpenBook, ClosedBook

\* The ledger implements the cash book.  Jobs that run one at a time buy
\* positions whole or by their first rung, fill further rungs, refuse and
\* close positions, one transaction after the other; they never overdraw the
\* account, never pay for more than a position's stake, leave a rung unpaid
\* only when it costs more than there is, and close no position twice.
THEOREM TheBookIsKept == ASSUME Paper PROVE Spec => KeepsTheBook
  BY BookInit, BookStep, AccountedInit, AccountedInductive, PTL DEF Spec, KeepsTheBook, Book!Spec
-----------------------------------------------------------------------------
(* The books balance: the cash lies between the floors of the rows and      *)
(* their tops.                                                              *)

Floors   == [i \in DOMAIN bets |-> Floor(bets[i])]
Tops     == [i \in DOMAIN bets |-> Top(bets[i])]
AllFloor == SumFunctionOnSet(Floors, DOMAIN bets)
AllTop   == SumFunctionOnSet(Tops, DOMAIN bets)
Between  == portfolio.initial + AllFloor <= portfolio.cash /\ portfolio.cash <= portfolio.initial + AllTop

LEMMA FloorsType ==
  TypeOK => /\ \A i \in DOMAIN bets : Floors[i] \in Int /\ Tops[i] \in Int
            /\ AllFloor \in Int /\ AllTop \in Int
<1> SUFFICES ASSUME TypeOK
             PROVE  /\ \A i \in DOMAIN bets : Floors[i] \in Int /\ Tops[i] \in Int
                    /\ AllFloor \in Int /\ AllTop \in Int
  OBVIOUS
<1>1. \A i \in DOMAIN bets : Floors[i] \in Int /\ Tops[i] \in Int
  BY AmountType, RowType DEF Floors, Tops
<1> QED
  BY <1>1, RowsFinite, SumInt DEF AllFloor, AllTop

\* What the books are reckoned from, and the floors and tops of the rows.
LEMMA BalanceIs ==
  TypeOK => (BooksBalance <=> Between) /\ PaidForOpen \in Int
<1> SUFFICES ASSUME TypeOK PROVE (BooksBalance <=> Between) /\ PaidForOpen \in Int
  OBVIOUS
<1> DEFINE D == DOMAIN bets
           pnls  == [i \in D |-> bets[i].pnl]
           owed  == [i \in D |-> Owed(bets[i])]
           worth == [i \in D |-> Worth(bets[i])]
           short == [i \in D |-> Shortfall(bets[i])]
           more  == [i \in D |-> Surplus(bets[i])]
           paid  == [i \in OpenIds |-> Paid(bets[i])]
<1>1. IsFiniteSet(D) /\ OpenIds \in SUBSET D /\ IsFiniteSet(OpenIds)
  <2>1. IsFiniteSet(D) /\ OpenIds \in SUBSET D
    BY RowsFinite DEF OpenIds
  <2> HIDE DEF D
  <2> QED
    BY <2>1, FS_Subset
<1>2. \A i \in D : /\ pnls[i] \in Int /\ owed[i] \in Int /\ worth[i] \in Int
                   /\ short[i] \in Int /\ more[i] \in Int
                   /\ pnls[i] = worth[i] + owed[i] /\ worth[i] = Floors[i] + short[i]
                   /\ Tops[i] = worth[i] + more[i]
                   /\ Floors[i] \in Int /\ Tops[i] \in Int
  <2> TAKE i \in D
  <2>1. bets[i] \in Bet
    BY AmountType
  <2>2. /\ bets[i].pnl \in Int /\ Owed(bets[i]) \in Int /\ Worth(bets[i]) \in Int
        /\ Shortfall(bets[i]) \in Int /\ Surplus(bets[i]) \in Int
        /\ Floor(bets[i]) \in Int /\ Top(bets[i]) \in Int
    BY <2>1, RowType
  <2>3. bets[i].pnl = Worth(bets[i]) + Owed(bets[i])
    BY <2>2 DEF Worth
  <2>4. Worth(bets[i]) = Floor(bets[i]) + Shortfall(bets[i]) /\ Top(bets[i]) = Worth(bets[i]) + Surplus(bets[i])
    BY <2>2 DEF Floor, Top
  <2> QED
    BY <2>2, <2>3, <2>4 DEF Floors, Tops
<1>3. \A i \in D \ OpenIds : owed[i] = 0
  BY DEF OpenIds, Owed
<1>4. \A i \in OpenIds : owed[i] \in Int /\ owed[i] = paid[i]
  BY <1>1, <1>2 DEF OpenIds, Owed
<1>5. BooksBalance <=>
        /\ -SumFunctionOnSet(short, D) <= portfolio.cash + PaidForOpen - portfolio.initial - SumFunctionOnSet(pnls, D)
        /\ portfolio.cash + PaidForOpen - portfolio.initial - SumFunctionOnSet(pnls, D) <= SumFunctionOnSet(more, D)
  BY DEF BooksBalance, SumFunction
<1>6. PaidForOpen = SumFunctionOnSet(paid, OpenIds)
  BY DEF PaidForOpen, SumFunction
<1>7. AllFloor = SumFunctionOnSet(Floors, D) /\ AllTop = SumFunctionOnSet(Tops, D)
  BY DEF AllFloor, AllTop
<1>8. portfolio.initial \in Nat /\ portfolio.cash \in Nat
  BY DEF TypeOK
<1> HIDE DEF D, pnls, owed, worth, short, more, paid
<1>9. SumFunctionOnSet(pnls, D) = SumFunctionOnSet(worth, D) + SumFunctionOnSet(owed, D)
  BY <1>1, <1>2, SumPlus
<1>10. SumFunctionOnSet(worth, D) = SumFunctionOnSet(Floors, D) + SumFunctionOnSet(short, D)
  BY <1>1, <1>2, SumPlus
<1>11. SumFunctionOnSet(Tops, D) = SumFunctionOnSet(worth, D) + SumFunctionOnSet(more, D)
  BY <1>1, <1>2, SumPlus
<1>12. SumFunctionOnSet(owed, D) = SumFunctionOnSet(paid, OpenIds)
  <2>1. SumFunctionOnSet(owed, D) = SumFunctionOnSet(owed, OpenIds)
    BY <1>1, <1>2, <1>3, SumWithin
  <2>2. SumFunctionOnSet(owed, OpenIds) = SumFunctionOnSet(paid, OpenIds)
    BY <1>1, <1>4, SumSame
  <2> QED
    BY <2>1, <2>2
<1>13. /\ SumFunctionOnSet(worth, D) \in Int /\ SumFunctionOnSet(owed, D) \in Int
       /\ SumFunctionOnSet(short, D) \in Int /\ SumFunctionOnSet(more, D) \in Int
       /\ SumFunctionOnSet(Floors, D) \in Int /\ SumFunctionOnSet(Tops, D) \in Int
  BY <1>1, <1>2, SumInt
<1> QED
  BY <1>5, <1>6, <1>7, <1>8, <1>9, <1>10, <1>11, <1>12, <1>13 DEF Between

LEMMA BalanceNext == TypeOK' => (BooksBalance <=> Between)' /\ PaidForOpen' \in Int
<1>1. (TypeOK => (BooksBalance <=> Between) /\ PaidForOpen \in Int)'
  BY BalanceIs, PTL
<1> QED
  BY <1>1

LEMMA FloorsAppend ==
  ASSUME TypeOK, NEW b \in Bet, bets' = Append(bets, b)
  PROVE  /\ AllFloor' = AllFloor + Floor(b) /\ AllTop' = AllTop + Top(b)
         /\ Floor(b) \in Int /\ Top(b) \in Int /\ AllFloor \in Int /\ AllTop \in Int
<1> DEFINE new == Len(bets) + 1
           D == DOMAIN bets
           E == D \cup {new}
<1>1. /\ \A i \in DOMAIN bets : bets'[i] = bets[i]
      /\ new \notin DOMAIN bets /\ bets'[new] = b
      /\ DOMAIN bets' = DOMAIN bets \cup {new}
  BY OpenAppend
<1> HIDE DEF new
<1>2. IsFiniteSet(D) /\ IsFiniteSet(E)
  BY RowsFinite, FS_AddElement
<1>3. \A i \in D : /\ Floors[i] \in Int /\ Floors[i] = Floors'[i]
                   /\ Tops[i] \in Int /\ Tops[i] = Tops'[i]
  BY <1>1, FloorsType DEF Floors, Tops
<1>4. Floors'[new] = Floor(b) /\ Floor(b) \in Int /\ Tops'[new] = Top(b) /\ Top(b) \in Int
  BY <1>1, RowType DEF Floors, Tops
<1>5. AllFloor' = SumFunctionOnSet(Floors', E) /\ AllTop' = SumFunctionOnSet(Tops', E)
  BY <1>1 DEF AllFloor, AllTop
<1>6. \A i \in E : Floors'[i] \in Int /\ Tops'[i] \in Int
  BY <1>3, <1>4
<1>7. new \in E /\ E \ {new} = D
  BY <1>1
<1>8. /\ AllFloor = SumFunctionOnSet(Floors, D) /\ AllTop = SumFunctionOnSet(Tops, D)
      /\ AllFloor \in Int /\ AllTop \in Int
  BY FloorsType DEF AllFloor, AllTop
<1> HIDE DEF D, E
<1>9. /\ SumFunctionOnSet(Floors', E) = Floors'[new] + SumFunctionOnSet(Floors', D)
      /\ SumFunctionOnSet(Tops', E) = Tops'[new] + SumFunctionOnSet(Tops', D)
  BY <1>2, <1>6, <1>7, SumTake
<1>10. /\ SumFunctionOnSet(Floors, D) = SumFunctionOnSet(Floors', D)
       /\ SumFunctionOnSet(Tops, D) = SumFunctionOnSet(Tops', D)
  BY <1>2, <1>3, SumSame
<1> QED
  BY <1>4, <1>5, <1>8, <1>9, <1>10

LEMMA FloorsCommit ==
  ASSUME Accounted, NEW w \in Worker, Commit(w), session[w].job # "place"
  PROVE  /\ AllFloor' = AllFloor + Low(session[w]) /\ AllTop' = AllTop + High(session[w])
         /\ Low(session[w]) \in Int /\ High(session[w]) \in Int
<1> DEFINE s == session[w]
           D == DOMAIN bets
<1>1. DOMAIN bets' = D /\ TypeOK /\ TypeOK' /\ IsFiniteSet(D)
  BY CommitDomain
<1>2. /\ \A i \in D : Lows(s)[i] \in Int /\ Highs(s)[i] \in Int
      /\ Low(s) \in Int /\ High(s) \in Int
  BY RowsBounded DEF Accounted
<1>3. ASSUME NEW i \in D
      PROVE  /\ Floors[i] \in Int /\ Floors'[i] = Floors[i] + Lows(s)[i]
             /\ Tops[i] \in Int /\ Tops'[i] = Tops[i] + Highs(s)[i]
  <2>1. /\ Floors[i] = Floor(bets[i]) /\ Floors'[i] = Floor(bets'[i])
        /\ Tops[i] = Top(bets[i]) /\ Tops'[i] = Top(bets'[i])
    BY <1>1 DEF Floors, Tops
  <2>2. Floor(bets[i]) \in Int /\ Top(bets[i]) \in Int
    BY <1>1, AmountType, RowType
  <2>3. CASE Done(s, i)
    <3>1. bets'[i] = s.mine[i] /\ bets'[i] \in Bet
      BY <2>3, CommitRow
    <3>2. Floor(bets'[i]) \in Int /\ Top(bets'[i]) \in Int
      BY <3>1, RowType
    <3>3. Lows(s)[i] = Floor(bets'[i]) - Floor(bets[i]) /\ Highs(s)[i] = Top(bets'[i]) - Top(bets[i])
      BY <2>3, <3>1 DEF Lows, Highs
    <3> HIDE DEF s
    <3> QED
      BY <2>1, <2>2, <3>2, <3>3
  <2>4. CASE ~Done(s, i)
    <3>1. bets'[i] = bets[i] /\ Lows(s)[i] = 0 /\ Highs(s)[i] = 0
      BY <2>4, CommitRow DEF Lows, Highs
    <3> HIDE DEF s
    <3> QED
      BY <2>1, <2>2, <3>1
  <2> QED
    BY <2>3, <2>4
<1>4. /\ AllFloor = SumFunctionOnSet(Floors, D) /\ AllFloor' = SumFunctionOnSet(Floors', D)
      /\ AllTop = SumFunctionOnSet(Tops, D) /\ AllTop' = SumFunctionOnSet(Tops', D)
  BY <1>1 DEF AllFloor, AllTop
<1> HIDE DEF D, s
<1>5. SumFunctionOnSet(Floors', D) = SumFunctionOnSet(Floors, D) + SumFunctionOnSet(Lows(s), D)
  BY <1>1, <1>2, <1>3, SumPlus
<1>6. SumFunctionOnSet(Tops', D) = SumFunctionOnSet(Tops, D) + SumFunctionOnSet(Highs(s), D)
  BY <1>1, <1>2, <1>3, SumPlus
<1> QED
  BY <1>2, <1>4, <1>5, <1>6 DEF Low, High, s, D

\* A row just placed is worth what it cost, whatever its ladder.
LEMMA NewRow ==
  ASSUME Accounted, NEW w \in Worker, Commit(w), session[w].job = "place"
  PROVE  LET b == session[w].add[1]
         IN  /\ bets' = Append(bets, b) /\ b \in Bet
             /\ Floor(b) = Moved(session[w]) /\ Top(b) = Moved(session[w])
             /\ Moved(session[w]) = 0 - Owed(b) /\ Owed(b) \in Nat
<1> DEFINE s == session[w]
           b == s.add[1]
           cost == Paid(b)
<1>1. /\ InTune(s) /\ s \in Session /\ portfolio.cash \in Nat
  BY DEF Accounted, Worked, Calm, TypeOK
<1>2. /\ bets' = Append(bets, b) /\ b \in Bet /\ b.pnl = 0
      /\ IF IsOpen(b) THEN (b.ladder => b.filled = {1}) /\ s.purse # NoCash /\ s.purse = s.base - cost
                      ELSE b.status = "failed" /\ s.purse = NoCash
  BY PlaceWrites
<1>3. cost \in Nat /\ RungAmount(b.amount, 1) \in Nat
  <2>1. cost \in Nat /\ b.amount \in Nat
    BY <1>2, RowType
  <2> QED
    BY <2>1, RungAmountType DEF Rung
<1>4. CASE IsOpen(b)
  <2>1. s.base = portfolio.cash /\ s.purse \in Nat
    BY <1>1, <1>2, <1>4 DEF InTune, Session
  <2>2. Moved(s) = s.purse - s.base /\ s.purse = s.base - cost
    BY <1>2, <1>4 DEF Moved
  <2>3. /\ Floor(b) = 0 - cost
        /\ Top(b) = IF b.ladder THEN 0 - RungAmount(b.amount, 1) ELSE 0 - cost
    BY <1>2, <1>4, OpenRow
  <2>4. b.ladder => cost = RungAmount(b.amount, 1)
    <3>1. ASSUME b.ladder PROVE cost = RungAmount(b.amount, 1) + 0 + 0
      <4>1. b.filled = {1}
        BY <1>2, <1>4, <3>1
      <4>2. cost = RungsCost(b, {1})
        BY <3>1, <4>1 DEF Paid
      <4> HIDE DEF cost, b
      <4> QED
        BY <4>2 DEF RungsCost, Over
    <3> HIDE DEF cost, b
    <3> QED
      BY <1>3, <3>1
  <2>5. Owed(b) = cost
    BY <1>4 DEF Owed
  <2> HIDE DEF s, b, cost
  <2>6. Moved(s) = 0 - cost
    BY <1>1, <1>3, <2>1, <2>2
  <2> QED
    BY <1>2, <1>3, <2>3, <2>4, <2>5, <2>6 DEF s, b
<1>5. CASE ~IsOpen(b)
  <2>1. Moved(s) = 0 /\ Owed(b) = 0
    BY <1>2, <1>5 DEF Moved, Owed
  <2>2. Shortfall(b) = 0 /\ Surplus(b) = 0 /\ Worth(b) = 0
    BY <1>2, <1>5, <2>1 DEF Shortfall, Surplus, Worth
  <2>3. Floor(b) = 0 /\ Top(b) = 0
    BY <2>2 DEF Floor, Top
  <2> QED
    BY <1>2, <2>1, <2>3
<1> QED
  BY <1>4, <1>5

LEMMA RefusedRow ==
  ASSUME TypeOK, NEW a \in analyses, ~NotTradable(a.market)
  PROVE  LET b == [NewBet(a, Stake(a), "rejected") EXCEPT !.filled = {}]
         IN  b \in Bet /\ Owed(b) = 0 /\ Floor(b) = 0 /\ Top(b) = 0
<1> DEFINE b == [NewBet(a, Stake(a), "rejected") EXCEPT !.filled = {}]
<1>1. b \in Bet /\ b.status = "rejected" /\ b.pnl = 0
  BY RejectedRow
<1> HIDE DEF b
<1>2. Owed(b) = 0
  BY <1>1 DEF Owed, IsOpen
<1>3. Shortfall(b) = 0 /\ Surplus(b) = 0 /\ Worth(b) = 0
  BY <1>1, <1>2 DEF Shortfall, Surplus, Worth
<1>4. Floor(b) = 0 /\ Top(b) = 0
  BY <1>3 DEF Floor, Top
<1> QED
  BY <1>1, <1>2, <1>4 DEF b

LEMMA BalanceStep ==
  ASSUME Paper
  PROVE  Accounted /\ Accounted' /\ BooksBalance /\ [Next]_vars => BooksBalance'
<1> SUFFICES ASSUME Accounted, Accounted', BooksBalance, [Next]_vars PROVE BooksBalance'
  OBVIOUS
<1>1. TypeOK /\ Calm /\ OneJob /\ TypeOK'
  BY DEF Accounted, Worked, Calm, Paper
<1>2. portfolio.cash \in Nat /\ portfolio.initial \in Nat /\ AllFloor \in Int /\ AllTop \in Int
  BY <1>1, FloorsType DEF TypeOK
<1>3. portfolio.initial + AllFloor <= portfolio.cash /\ portfolio.cash <= portfolio.initial + AllTop
  BY <1>1, BalanceIs DEF Between
<1> SUFFICES portfolio'.initial + AllFloor' <= portfolio'.cash /\ portfolio'.cash <= portfolio'.initial + AllTop'
  BY <1>1, BalanceNext DEF Between
<1>4. CASE UNCHANGED <<bets, portfolio>>
  BY <1>3, <1>4 DEF AllFloor, AllTop, Floors, Tops
<1>5. ASSUME NEW w \in Worker, Commit(w)
      PROVE  portfolio'.initial + AllFloor' <= portfolio'.cash /\ portfolio'.cash <= portfolio'.initial + AllTop'
  <2> DEFINE moved == Moved(session[w])
  <2>1. portfolio'.cash = portfolio.cash + moved /\ portfolio'.initial = portfolio.initial /\ moved \in Int
    BY <1>5, CommitCash
  <2>2. CASE session[w].job = "place"
    <3>1. AllFloor' = AllFloor + moved /\ AllTop' = AllTop + moved
      BY <1>1, <1>5, <2>2, NewRow, FloorsAppend
    <3> HIDE DEF moved
    <3> QED
      BY <1>2, <1>3, <2>1, <3>1
  <2>3. CASE session[w].job # "place"
    <3> DEFINE low  == Low(session[w])
               high == High(session[w])
    <3>1. AllFloor' = AllFloor + low /\ AllTop' = AllTop + high /\ low \in Int /\ high \in Int
      BY <1>5, <2>3, FloorsCommit
    <3>2. low <= moved /\ moved <= high
      BY <2>3 DEF Accounted, Tallied
    <3> HIDE DEF moved, low, high
    <3> QED
      BY <1>2, <1>3, <2>1, <3>1, <3>2
  <2> QED
    BY <2>2, <2>3
<1>6. ASSUME NEW a \in analyses, ~NotTradable(a.market), UNCHANGED portfolio,
             bets' = Append(bets, [NewBet(a, Stake(a), "rejected") EXCEPT !.filled = {}])
      PROVE  portfolio'.initial + AllFloor' <= portfolio'.cash /\ portfolio'.cash <= portfolio'.initial + AllTop'
  <2> DEFINE b == [NewBet(a, Stake(a), "rejected") EXCEPT !.filled = {}]
  <2>1. b \in Bet /\ Floor(b) = 0 /\ Top(b) = 0
    BY <1>1, <1>6, RefusedRow
  <2>2. bets' = Append(bets, b)
    BY <1>6
  <2> HIDE DEF b
  <2>3. AllFloor' = AllFloor + 0 /\ AllTop' = AllTop + 0
    BY <1>1, <2>1, <2>2, FloorsAppend
  <2> QED
    BY <1>2, <1>3, <1>6, <2>3
<1>7. CASE ResetApi
  <2>1. DOMAIN bets' = {} /\ portfolio'.cash = ResetCash /\ portfolio'.initial = ResetCash
    BY <1>7 DEF ResetApi
  <2>2. AllFloor' = 0 /\ AllTop' = 0
    BY <2>1, SumEmpty DEF AllFloor, AllTop
  <2> QED
    BY <2>1, <2>2, MoneyAssumption
<1>8. ~ResetCli
  BY DEF ResetCli, ResetAllowed, Paper
<1>9. CASE Next
  BY <1>1, <1>4, <1>5, <1>6, <1>7, <1>8, <1>9, StepWrites
<1> QED
  BY <1>4, <1>9 DEF vars

\* The books balance: the cash is what the account was opened with, plus the
\* pnl booked on every row, less what has been paid for the open positions,
\* to the cent for plain stakes and within what a row's ladder may be out.
THEOREM TheBooksBalance == ASSUME Paper PROVE Spec => []BooksBalance
<1>1. Init => BooksBalance
  <2> SUFFICES ASSUME Init PROVE BooksBalance
    OBVIOUS
  <2>1. TypeOK /\ portfolio.cash = InitialPortfolio /\ portfolio.initial = InitialPortfolio
        /\ DOMAIN bets = {}
    BY AccountedInit DEF Init, Accounted, Worked, Calm
  <2>2. AllFloor = 0 /\ AllTop = 0
    BY <2>1, SumEmpty DEF AllFloor, AllTop
  <2> QED
    BY <2>1, <2>2, BalanceIs, MoneyAssumption DEF Between
<1> QED
  BY <1>1, BalanceStep, AccountedInit, AccountedInductive, PTL DEF Spec
-----------------------------------------------------------------------------
(* What the cash goes on.                                                   *)

LEMMA PaidAppend ==
  ASSUME TypeOK, NEW b \in Bet, bets' = Append(bets, b)
  PROVE  PaidForOpen' = PaidForOpen + Owed(b) /\ PaidForOpen \in Int
<1> DEFINE new == Len(bets) + 1
           f   == [i \in OpenIds |-> Paid(bets[i])]
           g   == [i \in OpenIds' |-> Paid(bets'[i])]
<1>1. /\ \A i \in DOMAIN bets : bets'[i] = bets[i]
      /\ new \notin DOMAIN bets /\ bets'[new] = b
      /\ OpenIds' = IF IsOpen(b) THEN OpenIds \cup {new} ELSE OpenIds
      /\ OpenIds \subseteq DOMAIN bets
  BY OpenAppend DEF OpenIds
<1>2. PaidForOpen = SumFunctionOnSet(f, OpenIds) /\ PaidForOpen' = SumFunctionOnSet(g, OpenIds')
  BY DEF PaidForOpen, SumFunction
<1>3. PaidForOpen \in Int
  BY BalanceIs
<1>4. IsFiniteSet(OpenIds)
  BY <1>1, RowsFinite, FS_Subset
<1>5. \A i \in OpenIds : f[i] \in Int
  BY <1>1, AmountType, RowType
<1>6. Paid(b) \in Int
  BY RowType
<1>7. CASE IsOpen(b)
  <2>1. /\ OpenIds' = OpenIds \cup {new} /\ new \notin OpenIds /\ Owed(b) = Paid(b)
        /\ g[new] = Paid(b) /\ \A i \in OpenIds : g[i] = f[i]
    BY <1>1, <1>7 DEF Owed
  <2> HIDE DEF new, f, g
  <2>2. IsFiniteSet(OpenIds') /\ new \in OpenIds' /\ OpenIds' \ {new} = OpenIds
    BY <1>4, <2>1, FS_AddElement
  <2>3. \A i \in OpenIds' : g[i] \in Int
    BY <1>5, <1>6, <2>1
  <2>4. SumFunctionOnSet(g, OpenIds') = g[new] + SumFunctionOnSet(g, OpenIds)
    BY <2>2, <2>3, SumTake
  <2>5. SumFunctionOnSet(f, OpenIds) = SumFunctionOnSet(g, OpenIds)
    BY <1>4, <1>5, <2>1, SumSame
  <2> QED
    BY <1>2, <1>3, <1>6, <2>1, <2>4, <2>5
<1>8. CASE ~IsOpen(b)
  <2>1. OpenIds' = OpenIds /\ g = f /\ Owed(b) = 0
    BY <1>1, <1>8 DEF Owed
  <2> HIDE DEF f, g
  <2>2. PaidForOpen' = PaidForOpen
    BY <1>2, <2>1
  <2> QED
    BY <1>3, <2>1, <2>2
<1> QED
  BY <1>7, <1>8

\* What update's commit adds to what is paid for the open positions.
LEMMA PaidFill ==
  ASSUME Accounted, NEW w \in Worker, Commit(w), session[w].job = "update"
  PROVE  LET rise == [i \in OpenIds |-> Paid(bets'[i]) - Paid(bets[i])]
         IN  PaidForOpen' - PaidForOpen = SumFunctionOnSet(rise, OpenIds)
<1> DEFINE rise == [i \in OpenIds |-> Paid(bets'[i]) - Paid(bets[i])]
           f    == [i \in OpenIds |-> Paid(bets[i])]
           g    == [i \in OpenIds |-> Paid(bets'[i])]
<1>1. OpenIds' = OpenIds /\ \A i \in OpenIds : rise[i] \in Nat
  BY FillRows
<1>2. TypeOK /\ TypeOK' /\ IsFiniteSet(OpenIds) /\ OpenIds \subseteq DOMAIN bets /\ DOMAIN bets' = DOMAIN bets
  <2>1. TypeOK /\ TypeOK' /\ IsFiniteSet(DOMAIN bets) /\ OpenIds \subseteq DOMAIN bets /\ DOMAIN bets' = DOMAIN bets
    BY CommitDomain DEF OpenIds
  <2> QED
    BY <2>1, FS_Subset
<1>3. \A i \in OpenIds : f[i] \in Int /\ rise[i] \in Int /\ g[i] = f[i] + rise[i]
  <2> TAKE i \in OpenIds
  <2>1. bets[i] \in Bet /\ bets'[i] \in Bet
    BY <1>2 DEF TypeOK
  <2>2. Paid(bets[i]) \in Nat /\ Paid(bets'[i]) \in Nat
    BY <2>1, RowType
  <2> QED
    BY <2>2
<1>4. PaidForOpen = SumFunctionOnSet(f, OpenIds)
  BY DEF PaidForOpen, SumFunction
<1>5. PaidForOpen' = SumFunctionOnSet(g, OpenIds)
  BY <1>1 DEF PaidForOpen, SumFunction
<1> HIDE DEF f, g, rise
<1>6. SumFunctionOnSet(g, OpenIds) = SumFunctionOnSet(f, OpenIds) + SumFunctionOnSet(rise, OpenIds)
  BY <1>2, <1>3, SumPlus
<1>7. SumFunctionOnSet(f, OpenIds) \in Int /\ SumFunctionOnSet(rise, OpenIds) \in Int
  BY <1>2, <1>3, SumInt
<1> QED
  BY <1>4, <1>5, <1>6, <1>7 DEF rise

Spent == portfolio.cash - portfolio'.cash

LEMMA SpendStep ==
  ASSUME Paper, Accounted, BooksBalance, Next, StatusKept
  PROVE  WellSpent
<1>1. TypeOK /\ Calm /\ OneJob /\ portfolio.cash \in Nat /\ PaidForOpen \in Int
  BY BalanceIs DEF Accounted, Worked, Calm, Paper, TypeOK
<1>2. ASSUME Spent = PaidForOpen' - PaidForOpen, Spent \in Nat PROVE WellSpent
  BY <1>2 DEF WellSpent, Spent
<1>3. ASSUME portfolio'.cash = portfolio.cash, PaidForOpen' = PaidForOpen PROVE WellSpent
  BY <1>1, <1>2, <1>3 DEF Spent
<1>4. CASE UNCHANGED <<bets, portfolio>>
  <2>1. PaidForOpen' = PaidForOpen
    BY <1>4 DEF PaidForOpen, OpenIds
  <2> QED
    BY <1>3, <1>4, <2>1
<1>5. ASSUME NEW w \in Worker, Commit(w), session[w].job = "place" PROVE WellSpent
  <2> DEFINE b == session[w].add[1]
             cost == Owed(b)
  <2>1. /\ bets' = Append(bets, b) /\ b \in Bet
        /\ Moved(session[w]) = 0 - cost /\ cost \in Nat
    BY <1>5, NewRow
  <2>2. portfolio'.cash = portfolio.cash + Moved(session[w])
    BY <1>5, CommitCash
  <2>3. PaidForOpen' = PaidForOpen + cost
    BY <1>1, <2>1, PaidAppend
  <2> HIDE DEF b, cost
  <2>4. Spent = cost
    BY <1>1, <2>1, <2>2 DEF Spent
  <2> QED
    BY <1>1, <1>2, <2>1, <2>3, <2>4
<1>6. ASSUME NEW w \in Worker, Commit(w), session[w].job = "update" PROVE WellSpent
  <2> DEFINE rise == [i \in OpenIds |-> Paid(bets'[i]) - Paid(bets[i])]
             owed == SumFunctionOnSet(rise, OpenIds)
  <2>1. /\ portfolio.cash - portfolio'.cash \in 0 .. owed
        /\ portfolio.cash - portfolio'.cash < owed => \E i \in OpenIds : rise[i] > portfolio'.cash
    BY <1>6, FillCash
  <2>2. PaidForOpen' - PaidForOpen = owed
    BY <1>6, PaidFill
  <2> HIDE DEF owed
  <2> QED
    BY <2>1, <2>2 DEF WellSpent, Spent
<1>7. ASSUME NEW w \in Worker, Commit(w), session[w].job \notin {"place", "update"} PROVE WellSpent
  <2>1. /\ DOMAIN bets' = DOMAIN bets /\ OpenIds' = OpenIds \ Closing(session[w])
        /\ \A i \in OpenIds' : Position(bets'[i]) = Position(bets[i])
    BY <1>7, CloseRows
  <2>2. OpenIds' = OpenIds
    BY <2>1 DEF StatusKept, OpenIds, IsOpen
  <2>3. Closing(session[w]) = {}
    BY <2>1, <2>2 DEF Closing
  <2>4. portfolio'.cash = portfolio.cash
    BY <1>7, <2>3, CloseCash
  <2>5. \A i \in OpenIds : Paid(bets'[i]) = Paid(bets[i])
    BY <2>1, <2>2 DEF Position
  <2>6. PaidForOpen' = PaidForOpen
    BY <2>2, <2>5 DEF PaidForOpen
  <2> QED
    BY <1>3, <2>4, <2>6
<1>8. ASSUME NEW a \in analyses, ~NotTradable(a.market), UNCHANGED portfolio,
             bets' = Append(bets, [NewBet(a, Stake(a), "rejected") EXCEPT !.filled = {}])
      PROVE  WellSpent
  <2> DEFINE b == [NewBet(a, Stake(a), "rejected") EXCEPT !.filled = {}]
  <2>1. b \in Bet /\ Owed(b) = 0
    BY <1>1, <1>8, RefusedRow
  <2>2. bets' = Append(bets, b)
    BY <1>8
  <2> HIDE DEF b
  <2>3. PaidForOpen' = PaidForOpen + 0
    BY <1>1, <2>1, <2>2, PaidAppend
  <2> QED
    BY <1>1, <1>3, <1>8, <2>3
<1>9. CASE ResetApi
  <2>1. bets' = << >> /\ portfolio'.cash = ResetCash /\ portfolio'.initial = ResetCash
    BY <1>9 DEF ResetApi
  <2>2. DOMAIN bets = {} /\ bets = << >>
    <3>1. DOMAIN bets = {} /\ bets \in Seq(Bet)
      BY <1>1, <2>1 DEF StatusKept, TypeOK
    <3> QED
      BY <3>1
  <2>3. AllFloor = 0 /\ AllTop = 0
    BY <2>2, SumEmpty DEF AllFloor, AllTop
  <2>4. portfolio.cash = portfolio.initial
    <3>1. portfolio.initial \in Nat
      BY <1>1 DEF TypeOK
    <3> QED
      BY <1>1, <2>3, <3>1, BalanceIs DEF Between
  <2>5. PaidForOpen' = PaidForOpen
    BY <2>1, <2>2 DEF PaidForOpen, OpenIds
  <2> QED
    BY <1>3, <2>1, <2>4, <2>5 DEF StatusKept
<1>10. ~ResetCli
  BY DEF ResetCli, ResetAllowed, Paper
<1> QED
  BY <1>1, <1>4, <1>5, <1>6, <1>7, <1>8, <1>9, <1>10, StepWrites

\* Cash pays for stakes and rungs and for nothing else: a step that closes no
\* row and resets no account takes from cash exactly what is placed and
\* filled in it, or less when one of the rungs costs more than it leaves.
THEOREM CashIsSpentOnStakes == ASSUME Paper PROVE Spec => CashPaysForFills
<1>1. Accounted /\ BooksBalance /\ [Next]_vars => [StatusKept => WellSpent]_<<portfolio, bets>>
  <2>1. Accounted /\ BooksBalance /\ Next => (StatusKept => WellSpent)
    BY SpendStep, Zenon
  <2>2. UNCHANGED vars => UNCHANGED <<portfolio, bets>>
    BY DEF vars
  <2> QED
    BY <2>1, <2>2
<1> QED
  BY <1>1, TheBooksBalance, AccountedInit, AccountedInductive, PTL DEF Spec, CashPaysForFills
=============================================================================
