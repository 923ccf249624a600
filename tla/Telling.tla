------------------------------ MODULE Telling -------------------------------
(* What an agent is told by a line left for it, in three parts that share   *)
(* no state but a count of faults: the cards of hok (CardWatch), the ends   *)
(* of the runs it queued (RunEnds) and the events of its PR (PrWatch).      *)
EXTENDS CardWatch

CONSTANTS Reviews, Comments, MaxClock, MaxHeads, MaxRuns

ASSUME RunsAssumption == MaxRuns \in Nat

VARIABLES
  queue, run, over, done, folder, noted, since, gone, verdicts, ends, missed,
  clock, posted, head, mine, mails, touched, again, seen, file, step, look, left, lost, forgot,
  began

R == INSTANCE RunEnds WITH parent <- noted, telling <- verdicts, told <- ends
P == INSTANCE PrWatch
=============================================================================
