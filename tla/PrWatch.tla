------------------------------ MODULE PrWatch -------------------------------
(***************************************************************************)
(* The watch of the PR of a bundle (client/prwatch.py): mail-watch names   *)
(* the PR after each mail of GitHub, and the watch then reads there what   *)
(* others did since its last look, keeps the time of this look, and leaves *)
(* a line (Typing follows it to the agent).  GitHub counts in seconds, the *)
(* reads of one look are several, each may raise, and the watch may end    *)
(* and start again at any step.                                            *)
(*                                                                         *)
(* One PR, open from the start.  Left out: the PRs mail names that are not *)
(* of the bundle, the list of the PRs each LIST_AGAIN, and a close of the  *)
(* PR, which is told as a push is.                                         *)
(***************************************************************************)
EXTENDS Integers

CONSTANTS
  Reviews, Comments,   (* what others write on the PR                       *)
  MaxClock,            (* bound: seconds                                    *)
  MaxHeads,            (* bound: pushes to the PR                           *)
  MaxFaults            (* bound: reads that raise, ends of the watch        *)

VARIABLES
  clock,      (* now, in seconds                                            *)
  posted,     (* when each review or comment came; Never                    *)
  head, mine, (* the head of the PR, and the heads the bundle has           *)
  mails,      (* events whose mail mail-watch has not named yet             *)
  touched,    (* the gateway named the PR after the cursor of the watch,    *)
  again,      (* and once more after the answer that holds it               *)
  seen,       (* state[pr]: since, head                                     *)
  file,       (* prwatch.json                                               *)
  step,       (* "off", "list", "wait", then the look, then the line        *)
  look,       (* since, looked and what this look read                      *)
  left,       (* what the lines left so far name                            *)
  lost,       (* what a look found and no line names                        *)
  forgot,     (* events whose mail came while no watch waited               *)
  began,      (* the seconds in which a look or the list began              *)
  faults

hub == <<clock, posted, head, mine, mails>>
vars == <<hub, touched, again, seen, file, step, look, left, lost, forgot, began, faults>>

Events == Reviews \cup Comments
Never == -1
Push(n) == <<"push", n>>
Marks == {Push(n) : n \in 1..MaxHeads}

NoSeen == [since |-> Never, head |-> 0]
NoLook == [since |-> Never, looked |-> Never, head |-> 0, found |-> {}]

Init ==
  /\ clock = 0 /\ posted = [e \in Events |-> Never]
  /\ head = 0 /\ mine = {0}
  /\ mails = {} /\ touched = FALSE /\ again = FALSE
  /\ seen = NoSeen /\ file = NoSeen /\ step = "off" /\ look = NoLook
  /\ left = {} /\ lost = {} /\ forgot = {} /\ began = {} /\ faults = 0

watch == <<touched, again, seen, file, step, look, left, lost, forgot, began, faults>>

(* On GitHub: others write, push and close; the agent pushes too.           *)
Write(e) ==
  /\ posted[e] = Never /\ posted' = [posted EXCEPT ![e] = clock]
  /\ mails' = mails \cup {e}
  /\ UNCHANGED <<clock, head, mine, watch>>

Pushes(own) ==
  /\ head < MaxHeads /\ head' = head + 1
  /\ mine' = IF own THEN mine \cup {head + 1} ELSE mine
  /\ mails' = mails \cup {Push(head + 1)}
  /\ UNCHANGED <<clock, posted, watch>>

Tick == clock < MaxClock /\ clock' = clock + 1 /\ UNCHANGED <<posted, head, mine, mails, watch>>

(* mail-watch names the PR: a watch that has no cursor yet does not see it. *)
Named(e) ==
  /\ e \in mails /\ mails' = mails \ {e}
  /\ IF step \in {"off", "list"}
     THEN forgot' = forgot \cup {e} /\ UNCHANGED <<touched, again>>
     ELSE touched' = TRUE /\ again' = (step # "wait") /\ UNCHANGED forgot
  /\ UNCHANGED <<clock, posted, head, mine, seen, file, step, look, left, lost, began, faults>>
-----------------------------------------------------------------------------
(* Watch.__init__, then list_again: a PR it never saw is looked at from now *)
(* on.                                                                      *)
Starts ==
  /\ step = "off" /\ step' = "list" /\ seen' = file
  /\ UNCHANGED <<hub, touched, again, file, look, left, lost, forgot, began, faults>>

Lists ==
  /\ step = "list" /\ step' = "wait"
  /\ IF seen.since = Never
     THEN /\ seen' = [since |-> clock, head |-> head]
          /\ began' = began \cup {clock}
     ELSE UNCHANGED <<seen, began>>
  /\ file' = seen'
  /\ UNCHANGED <<hub, touched, again, look, left, lost, forgot, faults>>

(* look: its own time is taken before the first read; the mutant takes it   *)
(* after the last.                                                          *)
TakenLast(l) == clock
Taken(l) == l.looked

LookStarts ==
  /\ step = "wait" /\ touched /\ step' = "pull"
  /\ look' = [NoLook EXCEPT !.since = seen.since, !.looked = clock]
  /\ began' = began \cup {clock}
  /\ UNCHANGED <<hub, touched, again, seen, file, left, lost, forgot, faults>>

ReadsPull ==
  /\ step = "pull" /\ step' = "reviews"
  /\ look' = [look EXCEPT !.head = head]
  /\ UNCHANGED <<hub, touched, again, seen, file, left, lost, forgot, began, faults>>

Since(events) == {e \in events : posted[e] > look.since}
ReadsReviews ==
  /\ step = "reviews" /\ step' = "comments"
  /\ look' = [look EXCEPT !.found = @ \cup Since(Reviews)]
  /\ UNCHANGED <<hub, touched, again, seen, file, left, lost, forgot, began, faults>>
ReadsComments ==
  /\ step = "comments" /\ step' = "update"
  /\ look' = [look EXCEPT !.found = @ \cup Since(Comments)]
  /\ UNCHANGED <<hub, touched, again, seen, file, left, lost, forgot, began, faults>>

(* is_here of the head, then what is kept of this look.                     *)
Marked == IF look.head # seen.head /\ look.head \notin mine THEN {Push(look.head)} ELSE {}

LookEnds ==
  /\ step = "update" /\ step' = "leave"
  /\ look' = [look EXCEPT !.found = @ \cup Marked]
  /\ seen' = [since |-> Taken(look), head |-> look.head]
  /\ file' = seen'
  /\ UNCHANGED <<hub, touched, again, left, lost, forgot, began, faults>>

(* One line, then the cursor of the gateway: what it names from here on is  *)
(* a new answer.                                                            *)
Leaves ==
  /\ step = "leave" /\ step' = "wait"
  /\ left' = left \cup look.found
  /\ touched' = again /\ again' = FALSE /\ look' = NoLook
  /\ UNCHANGED <<hub, seen, file, lost, forgot, began, faults>>

(* A read raises, or leave does: the same answer of the gateway comes       *)
(* again.  The mutant goes on after it.                                     *)
GoesOn == touched' = again
AskedAgain == UNCHANGED touched
Raises ==
  /\ faults < MaxFaults /\ faults' = faults + 1
  /\ step \in {"pull", "reviews", "comments", "leave"} /\ step' = "wait"
  /\ lost' = IF step = "leave" THEN lost \cup look.found ELSE lost
  /\ look' = NoLook
  /\ AskedAgain /\ again' = FALSE
  /\ UNCHANGED <<hub, seen, file, left, forgot, began>>

(* The watch ends with its container, and starts again with the next one.   *)
Ends ==
  /\ faults < MaxFaults /\ faults' = faults + 1
  /\ step # "off" /\ step' = "off"
  /\ lost' = IF step = "leave" THEN lost \cup look.found ELSE lost
  /\ forgot' = IF touched THEN forgot \cup {e \in Events : posted[e] # Never} ELSE forgot
  /\ touched' = FALSE /\ again' = FALSE /\ look' = NoLook /\ seen' = NoSeen
  /\ UNCHANGED <<hub, file, left, began>>

Watch ==
  Starts \/ Lists \/ LookStarts \/ ReadsPull \/ ReadsReviews \/ ReadsComments \/ LookEnds \/ Leaves

Next ==
  \/ \E e \in Events : Write(e)
  \/ \E own \in BOOLEAN : Pushes(own)
  \/ Tick
  \/ \E e \in Events \cup Marks : Named(e)
  \/ Watch \/ Raises \/ Ends

(* mail-watch names each mail, the watch runs: both have a bounded work.    *)
Goes == Watch \/ \E e \in Events \cup Marks : Named(e)

Spec == Init /\ [][Next]_vars /\ WF_vars(Goes)
-----------------------------------------------------------------------------
(* A review or comment that the next look will not find was found by one    *)
(* before it, but one of the very second in which a look began: GitHub      *)
(* counts in seconds, and look asks for what is later than the last look.   *)
NothingMissed ==
  \A e \in Events :
    posted[e] \in 0..(IF step \in {"off", "list"} THEN file.since ELSE seen.since) =>
      e \in left \cup lost \cup look.found \/ posted[e] \in began
        \/ \A second \in began : posted[e] < second

(* What others do is named in a line, in the end: a read that raises is     *)
(* made again.  But for a look that was lost on its way to its line, a mail *)
(* that came to no watch, and the second of a look.                         *)
EventsTold ==
  []<>(\A e \in Events :
         (\E second \in began : second < posted[e]) =>
           e \in left \cup lost \cup forgot \/ posted[e] \in began)

(* What others do on the PR gets its line, whatever fails meanwhile.        *)
PostsTold == []NothingMissed /\ EventsTold
=============================================================================
