------------------------------ MODULE MCLedger ------------------------------
(* Small instances of Ledger for TLC.                                       *)
EXTENDS LedgerBook, TLC

CONSTANTS m1, m2, scan, scan2, settler, admin

\* One thread that may run any job, one at a time.
OneThread == (scan :> JobName)

\* The bot as one process runs it: the scan thread and the settlement thread.
ScanJobs == {"fetch", "analyze", "place", "update", "risk"}
Server   == (scan :> ScanJobs) @@ (settler :> {"settle"})
\* With a request to /api/cleanup, on a thread of its own.
ServerAndAdmin == Server @@ (admin :> {"cleanup"})
\* After /api/stop and /api/start: the thread of the old loop and the new one.
TwoScans == (scan :> ScanJobs) @@ (scan2 :> {"place"})

OneCity == [m \in Market |-> "city"]
DayZero == [m \in Market |-> 0]

\* Markets of the same city and day are interchangeable.
Symmetry == Permutations({m1, m2})

\* Q's prices add up to one; the 300 of Crash comes with a spread.
Q(y)      == [yes |-> y, no |-> One - y]
Steady    == {Q(500)}
Crash     == {Q(500), [yes |-> 300, no |-> 720]}
Dips      == {Q(500), Q(489), Q(470)}
Uneven    == {Q(700), Q(300)}
\* A fall that reaches both lower rungs, to a price no bet is opened at.
Slump     == {Q(500), Q(8)}
\* The same from a price at which rungs and contracts have to be rounded.
Fall      == {Q(507), Q(8)}
=============================================================================
