------------------------------- MODULE MCTold -------------------------------
(* What an agent is told, in four parts: the three of Telling and the       *)
(* answer to its Bash calls (RunHook).  A behaviour is of one `part`.       *)
EXTENDS Telling

CONSTANTS MaxCommands

VARIABLES
  part,
  text, paused, served, answer

H == INSTANCE RunHook

cardPart == <<asked, waits, answered, posts, watch, line, asking, promised, telling, parent, tasks,
              told, excused, open>>
runPart == <<queue, run, over, done, folder, noted, since, gone, verdicts, ends, missed>>
prPart == <<clock, posted, head, mine, mails, touched, again, seen, file, step, look, left, lost,
            forgot, began>>
hookPart == <<text, paused, served, answer>>
all == <<part, cardPart, runPart, prPart, hookPart, faults>>

MCInit ==
  /\ part \in {"cards", "runs", "events", "hooks"}
  /\ Init /\ R!Init /\ P!Init /\ H!Init
  /\ part # "cards" => parent = NoWindow

CardStep == part = "cards" /\ Next /\ UNCHANGED <<part, runPart, prPart, hookPart>>
RunStep == part = "runs" /\ R!Next /\ UNCHANGED <<part, cardPart, prPart, hookPart>>
EventStep == part = "events" /\ P!Next /\ UNCHANGED <<part, cardPart, runPart, hookPart>>
HookStep == part = "hooks" /\ H!Next /\ UNCHANGED <<part, cardPart, runPart, prPart, faults>>

(* What is fair in each part, of which one alone moves.                     *)
Fair ==
  \/ part = "cards" /\ Threads /\ UNCHANGED <<part, runPart, prPart, hookPart>>
  \/ part = "runs" /\ R!Threads /\ UNCHANGED <<part, cardPart, prPart, hookPart>>
  \/ part = "events" /\ P!Goes /\ UNCHANGED <<part, cardPart, runPart, hookPart>>

MCSpec == MCInit /\ [][CardStep \/ RunStep \/ EventStep \/ HookStep]_all /\ WF_all(Fair)

(* What a Bash call runs waits for its cores, and nothing else passes       *)
(* (run-hook.py).                                                           *)
RunsWait == H!RunsWait

(* The end of a run is told, once (tell_verdict, tell_verdicts).            *)
EndsTold == R!EndsTold

(* What others do on the PR gets its line, whatever fails meanwhile (look,  *)
(* Watch.run).                                                              *)
PostsTold == P!PostsTold
=============================================================================
