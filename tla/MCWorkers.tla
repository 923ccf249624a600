----------------------------- MODULE MCWorkers ------------------------------
(* What decides where an agent goes, what it may run and what comes back    *)
(* of it, in five parts that share no state: the places of a worker         *)
(* (WorkerPlaces), the streams to it (WorkerRelay), the cut of a session    *)
(* (CutSession), the note an agent writes on a worker (Notes) and the order *)
(* of the queue (QueueOrder). A behaviour is of one `part`.                 *)
EXTENDS WorkerPlaces, TLC

CONSTANTS
  Requests, MaxFollows, MaxRelays, MaxRelayRestarts,                 (* of WorkerRelay *)
  CutCommands, CutTold, TailLines, MaxLines, MaxCutFaults,           (* of CutSession  *)
  JobEdits, HereEdits, MaxStarts, MaxNoteFaults,                     (* of Notes       *)
  Queued, Priorities, Host, NoTask, MaxTasks, MaxAsked, MaxHands,    (* of QueueOrder  *)
  MaxAgents, MaxRelaunches

ASSUME StreamsAssumption ==
  IsFiniteSet(Requests) /\ MaxFollows \in Nat /\ MaxRelays \in Nat

ASSUME EditsAssumption ==
  JobEdits \cap HereEdits = {} /\ "none" \notin JobEdits \cup HereEdits

ASSUME QueueAssumption == Priorities \subseteq Int

VARIABLES
  part,
  follow, relay, handled, follows, relays, relayRestarts,
  lines, turn, live, died, cutStale, claude, record, window, closing, folder,
  events, card, yes, opens, byHand, left, typed, excused, since, two,
  cutFaults,
  outside, memory, copy, note, job, noteSent, taking, inbox, base, why,
  maker, taker, wrote, reached, refused, edited, raced, noteStale, overtaken,
  starts, noteFaults,
  queue, asked, files, relaunches, orderSent, hands

R == INSTANCE WorkerRelay WITH
  MaxRestarts <- MaxRelayRestarts, restarts <- relayRestarts
C == INSTANCE CutSession WITH
  Commands <- CutCommands, Told <- CutTold, MaxFaults <- MaxCutFaults,
  stale <- cutStale, faults <- cutFaults
N == INSTANCE Notes WITH
  MaxFaults <- MaxNoteFaults, sent <- noteSent, stale <- noteStale,
  faults <- noteFaults
O == INSTANCE QueueOrder WITH
  Bundles <- Queued, sent <- orderSent

relaysVars == <<follow, relay, handled, follows, relays, relayRestarts>>
cutVars == <<lines, turn, live, died, cutStale, claude, record, window, closing, folder,
  events, card, yes, opens, byHand, left, typed, excused, since, two,
  cutFaults>>
notesVars == <<outside, memory, copy, note, job, noteSent, taking, inbox, base, why,
  maker, taker, wrote, reached, refused, edited, raced, noteStale, overtaken,
  starts, noteFaults>>
orderVars == <<queue, asked, files, relaunches, orderSent, hands>>
all == <<part, vars, relaysVars, cutVars, notesVars, orderVars>>

MCInit ==
  /\ part \in {"places", "relays", "cut", "notes", "order"}
  /\ Init /\ R!Init /\ C!Init /\ N!Init /\ O!Init
  /\ part # "notes" => ~outside
  /\ part # "cut" => claude = "tab"

(* A step of one part leaves the others alone.                              *)
PlacesStep(A) == part = "places" /\ A /\ UNCHANGED <<part, relaysVars, cutVars, notesVars, orderVars>>
RelaysStep(A) == part = "relays" /\ A /\ UNCHANGED <<part, vars, cutVars, notesVars, orderVars>>
CutStep(A) == part = "cut" /\ A /\ UNCHANGED <<part, vars, relaysVars, notesVars, orderVars>>
NotesStep(A) == part = "notes" /\ A /\ UNCHANGED <<part, vars, relaysVars, cutVars, orderVars>>
OrderStep(A) == part = "order" /\ A /\ UNCHANGED <<part, vars, relaysVars, cutVars, notesVars>>

MCNext ==
  \/ PlacesStep(Next)
  \/ RelaysStep(R!Next)
  \/ CutStep(C!Next)
  \/ NotesStep(N!Next)
  \/ OrderStep(O!Next)

MCSpec == MCInit /\ [][MCNext]_all

(* The edits of the agent are alike.                                        *)
Symmetry == Permutations(JobEdits)

(* The counts of the streams say neither too little nor too much            *)
(* (Workers.relay).                                                         *)
FollowsCounted == R!FollowsCounted

(* A cut session goes on, in one claude and with its lines (resume_cut).    *)
CutRight == part = "cut" => C!CutRight

(* What an agent on a worker wrote reaches Seb, and what was written here   *)
(* meanwhile stays (take_notes, promote_notes).                             *)
NotesKept == part = "notes" => N!NotesKept

(* The queue stays in the order of priority, and the tasks of a bundle in   *)
(* the order they came (enqueue, move_task).                                *)
OrderKept == O!OrderKept
=============================================================================
