------------------------------- MODULE Notes -------------------------------
(***************************************************************************)
(* A memory note that the agent of a bundle writes on a worker             *)
(* (bundle-ctl/remote_agent.py, take_notes): the stand-in leaves it in the *)
(* run folder; a pass of the keeper, the end of the job and the next start *)
(* take it, and propose it to Seb with the copy the job got as the base of *)
(* the merge; on an outside PR they merge it themselves.  The keeper and   *)
(* the thread that ends or starts the job take with no lock between them.  *)
(*                                                                         *)
(* A note is the set of the edits in it.  Left out: several notes, a note  *)
(* removed here, one that is no plain file, a job with no copy.            *)
(***************************************************************************)
EXTENDS Integers

CONSTANTS
  JobEdits, HereEdits,   (* edits of the agent, and of anyone here          *)
  MaxStarts,             (* bound: jobs of the bundle                       *)
  MaxFaults              (* bound: restarts of the daemon                   *)

VARIABLES
  outside,   (* the bundle has the mark of an outside PR                    *)
  memory,    (* the note here                                               *)
  copy,      (* the copy of it that the job got, or its last note taken     *)
  note, job, (* the note of the job, and its job: "none", "runs", "ended"   *)
  sent, taking,           (* the run folder: NAME and .NAME.taking          *)
  inbox, base, why,       (* the proposal: its note, its base and WHY       *)
  maker,     (* whose folder the proposal is                                *)
  taker,     (* the keeper, and the thread that ends or starts the job      *)
  wrote, reached, refused, edited,
             (* edits the agent wrote, those Seb got, those of here         *)
  raced,     (* two of them took notes at once                              *)
  stale,     (* a job started while notes of the one before waited          *)
  overtaken, (* edits in a note that waited when one with none of them came *)
  starts, faults

proposal == <<inbox, base, why, maker>>
ghosts == <<reached, refused, edited, raced, stale, overtaken>>
vars == <<outside, memory, copy, note, job, sent, taking, proposal, taker, wrote, ghosts, starts, faults>>

None == {"none"}
Threads == {"keeper", "job"}
Idle == [step |-> "idle", mine |-> None]

Init ==
  /\ outside \in BOOLEAN /\ memory = {} /\ copy = {} /\ note = {} /\ job = "none"
  /\ sent = None /\ taking = None
  /\ inbox = None /\ base = None /\ why = FALSE /\ maker = "keeper"
  /\ taker = [x \in Threads |-> Idle]
  /\ wrote = {} /\ reached = {} /\ refused = {} /\ edited = {}
  /\ raced = FALSE /\ stale = FALSE /\ overtaken = {} /\ starts = 0 /\ faults = 0

Go(x, step) == taker' = [taker EXCEPT ![x].step = step]
Leaves(x) == taker' = [taker EXCEPT ![x] = Idle]
-----------------------------------------------------------------------------
(* git merge-file --union, as hok merges too: what each side changed since  *)
(* the base.  Mutant: the note of the job as it is.                         *)
MergeMine(here, old, mine) == mine
MergeFile(here, old, mine) == (here \ (old \ mine)) \cup (mine \ old)

MergeNote(here, old, mine) ==
  IF mine = old THEN here ELSE IF here \in {old, mine} THEN mine ELSE MergeFile(here, old, mine)
-----------------------------------------------------------------------------
(* The agent, the stand-in, Seb and whoever writes the memory here.         *)
JobWrites(e) ==
  /\ job = "runs" /\ e \notin note /\ e \notin wrote
  /\ note' = note \cup {e} /\ sent' = note \cup {e} /\ wrote' = wrote \cup {e}
  /\ overtaken' = overtaken \cup IF sent = None THEN {} ELSE sent \ sent'
  /\ UNCHANGED <<outside, memory, copy, job, taking, proposal, taker, reached, refused, edited, raced, stale, starts, faults>>

JobEnds ==
  /\ job = "runs" /\ job' = "ended"
  /\ UNCHANGED <<outside, memory, copy, note, sent, taking, proposal, taker, wrote, ghosts, starts, faults>>

HereWrites(e) ==
  /\ e \notin edited
  /\ memory' = memory \cup {e} /\ edited' = edited \cup {e}
  /\ UNCHANGED <<outside, copy, note, job, sent, taking, proposal, taker, wrote, reached, refused, raced, stale, overtaken, starts, faults>>

(* hok merges a proposal on a yes; on either answer it goes.                *)
Answers(yes) ==
  /\ why /\ why' = FALSE /\ inbox' = None /\ base' = None
  /\ LET asked == IF inbox = None THEN {} ELSE inbox \ base
     IN IF yes
        THEN /\ memory' = IF inbox = None THEN memory ELSE MergeNote(memory, base, inbox)
             /\ reached' = reached \cup (asked \cap JobEdits) /\ UNCHANGED refused
        ELSE refused' = refused \cup asked /\ UNCHANGED <<memory, reached>>
  /\ UNCHANGED <<outside, copy, note, job, sent, taking, maker, taker, wrote, edited, raced, stale, overtaken, starts, faults>>
-----------------------------------------------------------------------------
(* take_notes: keep and take_left_notes by the keeper, finish and start by  *)
(* a job of the daemon.                                                     *)
Begins(x) ==
  /\ taker[x].step = "idle" /\ (sent # None \/ taking # None) /\ (outside \/ ~why)
  /\ IF x = "job" THEN job = "ended" ELSE job # "starts"
  /\ Go(x, "take")
  /\ raced' = (raced \/ \E y \in Threads \ {x} : taker[y].step # "idle")
  /\ UNCHANGED <<outside, memory, copy, note, job, sent, taking, proposal, wrote, reached, refused, edited, stale, overtaken, starts, faults>>

(* Mutant of Newest: a note taken before goes over a newer one.             *)
NewestTaken == IF taking # None THEN taking ELSE sent
Newest == IF sent # None THEN sent ELSE taking

(* get_sent_notes                                                           *)
Takes(x) ==
  /\ taker[x].step = "take"
  /\ IF Newest = None THEN Leaves(x) ELSE Go(x, IF outside THEN "read" ELSE "clear")
  /\ taking' = Newest /\ sent' = None
  /\ overtaken' = overtaken \cup IF None \in {sent, taking} THEN {} ELSE taking \ sent
  /\ UNCHANGED <<outside, memory, copy, note, job, proposal, wrote, reached, refused, edited, raced, stale, starts, faults>>

Clears(x) ==
  /\ taker[x].step = "clear" /\ Go(x, "read")
  /\ inbox' = None /\ base' = None /\ why' = FALSE /\ maker' = x
  /\ UNCHANGED <<outside, memory, copy, note, job, sent, taking, wrote, ghosts, starts, faults>>

Reads(x) ==
  /\ taker[x].step = "read"
  /\ taker' = [taker EXCEPT ![x] = [step |-> IF outside THEN "merge" ELSE "write", mine |-> taking]]
  /\ UNCHANGED <<outside, memory, copy, note, job, sent, taking, proposal, wrote, ghosts, starts, faults>>

(* A write in a folder that another call removed raises.                    *)
Writes(x) ==
  /\ taker[x].step = "write"
  /\ LET mine == taker[x].mine IN
     IF mine \in {None, copy, memory}
     THEN Go(x, IF mine = None THEN "drop" ELSE "copy") /\ UNCHANGED <<inbox, base>>
     ELSE IF maker = x
     THEN Go(x, "why") /\ inbox' = mine /\ base' = copy
     ELSE Leaves(x) /\ UNCHANGED <<inbox, base>>
  /\ UNCHANGED <<outside, memory, copy, note, job, sent, taking, why, maker, wrote, ghosts, starts, faults>>

Proposes(x) ==
  /\ taker[x].step = "why" /\ Go(x, "copy")
  /\ why' = TRUE
  /\ UNCHANGED <<outside, memory, copy, note, job, sent, taking, inbox, base, maker, wrote, ghosts, starts, faults>>

(* take_note                                                                *)
Merges(x) ==
  /\ taker[x].step = "merge"
  /\ LET mine == taker[x].mine IN
     IF mine = None THEN Go(x, "drop") /\ UNCHANGED <<memory, reached>>
     ELSE /\ memory' = MergeNote(memory, copy, mine) /\ Go(x, "copy")
          /\ reached' = reached \cup (mine \cap JobEdits)
  /\ UNCHANGED <<outside, copy, note, job, sent, taking, proposal, wrote, refused, edited, raced, stale, overtaken, starts, faults>>

Copies(x) ==
  /\ taker[x].step = "copy" /\ Go(x, "drop")
  /\ copy' = taker[x].mine
  /\ UNCHANGED <<outside, memory, note, job, sent, taking, proposal, wrote, ghosts, starts, faults>>

Drops(x) ==
  /\ taker[x].step = "drop" /\ Leaves(x)
  /\ taking' = None
  /\ UNCHANGED <<outside, memory, copy, note, job, sent, proposal, wrote, ghosts, starts, faults>>
-----------------------------------------------------------------------------
(* finish, once it took the notes.                                          *)
Finishes ==
  /\ job = "ended" /\ taker["job"].step = "idle" /\ job' = "none"
  /\ UNCHANGED <<outside, memory, copy, note, sent, taking, proposal, taker, wrote, ghosts, starts, faults>>

(* start: it takes what is left, then gives the job the memory and keeps    *)
(* that copy (keep_base).                                                   *)
StartTakes ==
  /\ job = "none" /\ starts < MaxStarts /\ starts' = starts + 1
  /\ taker["job"].step = "idle" /\ job' = "starts"
  /\ IF (sent # None \/ taking # None) /\ (outside \/ ~why) THEN Go("job", "take") ELSE UNCHANGED taker
  /\ raced' = (raced \/ taker["keeper"].step # "idle")
  /\ UNCHANGED <<outside, memory, copy, note, sent, taking, proposal, wrote, reached, refused, edited, stale, overtaken, faults>>

(* The memory of the config part, and keep_base: the copy of it that stays  *)
(* in a folder no container mounts.                                         *)
BuildConfig == memory
KeepBase(config) == config

Starts ==
  /\ job = "starts" /\ taker["job"].step = "idle" /\ job' = "runs"
  /\ note' = BuildConfig /\ copy' = KeepBase(BuildConfig)
  /\ stale' = (stale \/ sent # None \/ taking # None \/ why)
  /\ UNCHANGED <<outside, memory, sent, taking, proposal, taker, wrote, reached, refused, edited, raced, overtaken, starts, faults>>

Restart ==
  /\ faults < MaxFaults /\ faults' = faults + 1
  /\ taker' = [x \in Threads |-> Idle]
  /\ job' = IF job = "starts" THEN "none" ELSE job
  /\ UNCHANGED <<outside, memory, copy, note, sent, taking, proposal, wrote, ghosts, starts>>
-----------------------------------------------------------------------------
Next ==
  \/ \E e \in JobEdits : JobWrites(e)
  \/ \E e \in HereEdits : HereWrites(e)
  \/ \E yes \in BOOLEAN : Answers(yes)
  \/ \E x \in Threads :
       \/ Begins(x) \/ Takes(x) \/ Clears(x) \/ Reads(x) \/ Writes(x) \/ Proposes(x)
       \/ Merges(x) \/ Copies(x) \/ Drops(x)
  \/ JobEnds \/ Finishes \/ StartTakes \/ Starts \/ Restart

Spec == Init /\ [][Next]_vars
-----------------------------------------------------------------------------
(* Where an edit of the agent still is, on its way to Seb.                  *)
OnItsWay ==
  UNION ({sent, taking, IF why THEN inbox ELSE {}} \cup {taker[x].mine : x \in Threads})

(* No note of the agent is lost on its way: each edit waits in the run      *)
(* folder or in a proposal until Seb answers it, or is in the note here.    *)
(* One job alone never overtakes its own notes; the next one, started while *)
(* they wait, does, and README.md:400 of bundle-ctl says they stay.         *)
NotesReach ==
  raced \/ /\ wrote \subseteq OnItsWay \cup reached \cup refused \cup memory \cup overtaken
           /\ overtaken # {} => stale

(* A yes, or the merge of an outside PR, drops nothing that was written     *)
(* here since the job got its copy.                                         *)
EditsKept == raced \/ stale \/ edited \subseteq memory


(* What an agent on a worker wrote reaches Seb, and what was written here   *)
(* meanwhile stays (take_notes, promote_notes).                             *)
NotesKept == NotesReach /\ EditsKept
=============================================================================
