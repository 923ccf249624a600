------------------------------ MODULE RunEnds -------------------------------
(***************************************************************************)
(* The end of an agent's run, told to the window that queued its task      *)
(* (keep_parent, note_task_start and tell_verdicts, bundle-ctl/daemon.py). *)
(* The note of a bundle names that window and the start of the run it      *)
(* counts; a pass, or the job that deletes the bundle, sees .agent/done,   *)
(* notes under parents_lock that the run counts no more, and then tells.   *)
(*                                                                         *)
(* One bundle.  Left out: what the line says, and a window that closed,    *)
(* which is told nothing.                                                  *)
(***************************************************************************)
EXTENDS Integers

CONSTANTS
  Windows,
  NoWindow,    (* the host, as the parent of a task: no note                *)
  MaxRuns,     (* bound: tasks of the bundle                                *)
  MaxFaults    (* bound: restarts of the daemon                             *)

VARIABLES
  queue,     (* the parents of the tasks that wait, in their order          *)
  run,       (* runs started: the last one is `run`,                        *)
  over,      (* it ended                                                    *)
  done,      (* .agent/done, of this run                                    *)
  folder,    (* the bundle is there                                         *)
  parent,    (* the note: its window; NoWindow: no note                     *)
  since,     (* it counts the run that started last                         *)
  gone,      (* it says the folder is gone                                  *)
  telling,   (* tell_verdict of the pass and of the deletion: a run, or 0   *)
  told,      (* how often the end of each run was told                      *)
  missed,    (* ends the note no longer counted, or a restart lost          *)
  faults

task == <<queue, run, over, done, folder>>
note == <<parent, since, gone>>
vars == <<task, note, telling, told, missed, faults>>

Tellers == {"pass", "deletion"}

Init ==
  /\ queue = 0 /\ run = 0 /\ over = FALSE /\ done = FALSE /\ folder = FALSE
  /\ parent = NoWindow /\ since = FALSE /\ gone = FALSE
  /\ telling = [t \in Tellers |-> 0]
  /\ told = [r \in 1..MaxRuns |-> 0] /\ missed = {} /\ faults = 0

(* What the note forgets before it was told of.                             *)
Forgets == IF since THEN {run} ELSE {}
-----------------------------------------------------------------------------
(* queue_task, keep_parent: what the note counted is counted no more.       *)
Queue(p) ==
  /\ run + queue < MaxRuns /\ queue' = queue + 1
  /\ parent' = p /\ since' = FALSE /\ gone' = FALSE
  /\ missed' = missed \cup Forgets
  /\ UNCHANGED <<run, over, done, folder, telling, told, faults>>

(* write_task: the files of the last run go, then note_task_start.          *)
Starts ==
  /\ queue > 0 /\ (run = 0 \/ over \/ ~folder)
  /\ queue' = queue - 1 /\ run' = run + 1 /\ over' = FALSE /\ done' = FALSE /\ folder' = TRUE
  /\ since' = (parent # NoWindow)
  /\ missed' = missed \cup Forgets
  /\ UNCHANGED <<parent, gone, telling, told, faults>>

(* The end of the run, by its verdict or not; the agent, or a turn after    *)
(* it, may write `done` again.                                              *)
Ends ==
  /\ folder /\ run > 0 /\ done' = TRUE /\ over' = TRUE
  /\ <<done, over>>' # <<done, over>>
  /\ UNCHANGED <<queue, run, folder, note, telling, told, missed, faults>>

(* tell_verdict.  Its mutant leaves the note as it is.                      *)
StillCounts == since
CountsNoMore == FALSE

Sees(t) ==
  /\ telling[t] = 0 /\ folder /\ since /\ done
  /\ telling' = [telling EXCEPT ![t] = run]
  /\ since' = CountsNoMore
  /\ UNCHANGED <<task, parent, gone, told, missed, faults>>

(* tell_parent, with the window of the note as it is by now.                *)
Tells(t) ==
  /\ telling[t] # 0 /\ telling' = [telling EXCEPT ![t] = 0]
  /\ IF parent = NoWindow
     THEN missed' = missed \cup {telling[t]} /\ UNCHANGED told
     ELSE told' = [told EXCEPT ![telling[t]] = @ + 1] /\ UNCHANGED missed
  /\ UNCHANGED <<task, note, faults>>

(* delete_stopped tells of it before its script (Deletion); the mutant      *)
(* does not.                                                                *)
AtOnce == TRUE
ToldFirst == ~(since /\ done) /\ telling["deletion"] = 0

Deletes ==
  /\ folder /\ over /\ queue = 0 /\ ToldFirst
  /\ folder' = FALSE /\ done' = FALSE
  /\ UNCHANGED <<queue, run, over, note, telling, told, missed, faults>>

(* tell_verdicts: the note of a bundle whose folder is gone is kept         *)
(* PARENT_KEPT more, and stays while a task waits.                          *)
Unfounded == parent # NoWindow /\ ~folder /\ queue = 0
NotesGone ==
  /\ Unfounded /\ ~gone /\ gone' = TRUE
  /\ UNCHANGED <<task, parent, since, telling, told, missed, faults>>
DropsNote ==
  /\ Unfounded /\ gone
  /\ parent' = NoWindow /\ since' = FALSE /\ gone' = FALSE
  /\ UNCHANGED <<task, telling, told, missed, faults>>

Restart ==
  /\ faults < MaxFaults /\ faults' = faults + 1
  /\ missed' = missed \cup {telling[t] : t \in Tellers}
  /\ telling' = [t \in Tellers |-> 0]
  /\ UNCHANGED <<task, note, told>>

Next ==
  \/ \E p \in Windows \cup {NoWindow} : Queue(p)
  \/ Starts \/ Ends \/ Deletes \/ NotesGone \/ DropsNote \/ Restart
  \/ \E t \in Tellers : Sees(t) \/ Tells(t)

(* A pass comes each minute at most, and both threads go on.                *)
Threads == Sees("pass") \/ \E t \in Tellers : Tells(t)

Spec == Init /\ [][Next]_vars /\ WF_vars(Threads)
-----------------------------------------------------------------------------
(* The end of a run is told once at most, whatever comes between: a pass    *)
(* beside a deletion, a `done` written again.                               *)
EndToldOnce == \A r \in 1..MaxRuns : told[r] <= 1

(* And it is told, but where a task was queued or started before a pass saw *)
(* it, and where the daemon restarted with the line to leave.               *)
EndTold ==
  \A r \in 1..MaxRuns :
    (run = r /\ since /\ done) ~> (told[r] > 0 \/ r \in missed)

(* The end of a run is told, once.                                          *)
EndsTold == []EndToldOnce /\ EndTold
=============================================================================
