------------------------------ MODULE Deletion ------------------------------
(***************************************************************************)
(* How a bundle goes (bundle-ctl/daemon.py, scripts/delete_bundle.py): by  *)
(* Seb's yes to a held request, once no agent nor window uses it, or by    *)
(* itself once nobody used it.  Either is a job, which waits for the jobs  *)
(* of the bundle before it, checks the work in the branch again and runs   *)
(* delete_bundle.py.  Meanwhile its agent ends its turn, windows open and  *)
(* close, tasks are queued and launched, commits are made, and the daemon  *)
(* may restart, which kills the script where it is.                        *)
(*                                                                         *)
(* One bundle with one repo: nothing here relates two bundles but          *)
(* work_lock, which only makes a job wait.  Left out: `git cherry` (a      *)
(* commit whose change the base has is no commit here), the databases and  *)
(* stores removed after the folder, and deletions typed by hand.           *)
(***************************************************************************)
EXTENDS Integers, Sequences

CONSTANTS
  Own, Others,   (* commits of Seb, and of the authors of a reviewed PR     *)
  OwnBundle,     (* whether the name of the bundle has BUNDLE_SUFFIX        *)
  MaxUses,       (* bound: uses of the bundle that change a file of it      *)
  MaxAsks,       (* bound: requests held                                    *)
  MaxTasks,      (* bound: tasks queued                                     *)
  MaxRestarts    (* bound: restarts of the daemon                           *)

ASSUME ConstantsAssumption ==
  /\ Own \cap Others = {} /\ OwnBundle \in BOOLEAN
  /\ MaxUses \in Nat /\ MaxAsks \in Nat /\ MaxTasks \in Nat /\ MaxRestarts \in Nat

VARIABLES
  local,      (* the commits of the branch no remote has                    *)
  shared,     (* those on the dev remote                                    *)
  pr,         (* the PR of the branch                                       *)
  dirty,      (* a file of the worktree is not committed                    *)
  tree,       (* the folder of the bundle; "half": its worktrees are gone   *)
  session,    (* .agent/session                                             *)
  kept,       (* deleted/BUNDLE.session                                     *)
  container,  (* the dev container; `fresh` made since the script looked    *)
  window,     (* what holds the container                                   *)
  turn,       (* a claude of the bundle is in a turn                        *)
  remote,     (* .agent/remote.json or remote-starting                      *)
  held,       (* the request in held/ with its commits to drop              *)
  deletion,   (* state["deletions"] and state["drops"]                      *)
  item,       (* the task of the bundle in state["queue"]                   *)
  scan,       (* what a drop_idle_reviews read of the bundle                *)
  keptReview, (* kept_reviews                                               *)
  jobs, job,  (* the jobs that wait for the bundle, and the one that runs   *)
  late, lost, (* commits and files made since the check of the job that     *)
              (* runs, and those deletions lost against what they check     *)
  uses, idle, (* get_unused_since as a count, and whether it is long ago    *)
  asks, tasks, restarts

work == <<local, shared, pr, dirty, late, lost>>
here == <<container, window, turn, remote>>
state == <<deletion, item>>
line == <<jobs, job>>
files == <<tree, session, kept>>
bounds == <<uses, idle, asks, tasks, restarts>>
vars == <<work, here, state, line, files, held, scan, keptReview, bounds>>

Commits == Own \cup Others
Branch == local \cup shared
File == "file"

NoRequest == [on |-> FALSE, drop |-> {}]
NoItem == [on |-> FALSE, parked |-> FALSE, build |-> FALSE, early |-> FALSE]
NoScan == [on |-> FALSE, since |-> 0, parked |-> FALSE]
NoContainer == [state |-> "none", fresh |-> FALSE]

NewJob(kind, drop, since, parked) ==
  [kind |-> kind, step |-> "waiting", drop |-> drop, since |-> since, parked |-> parked,
   force |-> FALSE, seen |-> FALSE]
NoJob == NewJob("none", {}, 0, FALSE)

Deletions == {"delete", "idle"}

(* is_deleting, and its mutant for a pass that never asks.                  *)
IsDeletingNever == FALSE
IsDeleting == job.kind \in Deletions \/ \E i \in DOMAIN jobs : jobs[i].kind \in Deletions

IsSpawning == job.kind = "spawn" \/ \E i \in DOMAIN jobs : jobs[i].kind = "spawn"
IsRunning == container.state = "running"

(* What is made once a job checked the work.                                *)
Checked == job.step \in {"script", "ps", "rm", "trees"}
Later(x) == IF Checked THEN late \cup {x} ELSE {}

Stopped == IF IsRunning THEN [container EXCEPT !.state = "stopped"] ELSE container

(* A use of the bundle: a file of it is written.                            *)
Used == uses < MaxUses /\ uses' = uses + 1 /\ idle' = FALSE

(* What get_others_commits refuses.  Its mutant looks at what was asked.    *)
HoldsOwnWorkAny(drop) == FALSE
HoldsOwnWork(drop) == (local \cap Own) \ drop # {}

(* check_deletion: whether the branch may go, and whether that takes        *)
(* --force, with check_uncommitted then.                                    *)
NeedsForce == local # {}
CheckUncommitted == ~dirty
MayGo(drop) ==
  /\ ~HoldsOwnWork(drop)
  /\ \/ Branch = {}
     \/ pr = "closed"
     \/ pr = "none" /\ Branch \subseteq drop
  /\ NeedsForce => CheckUncommitted

-----------------------------------------------------------------------------
Init ==
  /\ local \in SUBSET Others /\ shared = {} /\ dirty = FALSE
  /\ pr = IF local = {} THEN "none" ELSE "closed"
  /\ tree = "made" /\ session \in BOOLEAN /\ kept = FALSE
  /\ container = NoContainer /\ window = "none" /\ turn = FALSE /\ remote = FALSE
  /\ held = NoRequest /\ deletion = NoRequest /\ item = NoItem
  /\ scan = NoScan /\ keptReview = -1
  /\ jobs = <<>> /\ job = NoJob
  /\ late = {} /\ lost = {}
  /\ uses = 0 /\ idle = FALSE /\ asks = 0 /\ tasks = 0 /\ restarts = 0

(* The work of who has the bundle open: commits, edits, pushes, PRs.        *)
Commit(c) ==
  /\ IsRunning /\ tree = "made" /\ c \notin Branch /\ Used
  /\ local' = local \cup {c} /\ dirty' = FALSE
  /\ late' = Later(c)
  /\ UNCHANGED <<shared, pr, lost, here, state, line, files, held, scan, keptReview,
                 asks, tasks, restarts>>

Edit ==
  /\ IsRunning /\ tree = "made" /\ ~dirty /\ Used
  /\ dirty' = TRUE /\ late' = Later(File)
  /\ UNCHANGED <<local, shared, pr, lost, here, state, line, files, held, scan, keptReview,
                 asks, tasks, restarts>>

Push ==
  /\ local # {} /\ shared' = Branch /\ local' = {}
  /\ pr' \in {pr, "open"}
  /\ UNCHANGED <<dirty, late, lost, here, state, line, files, held, scan, keptReview, bounds>>

ClosePR ==
  /\ pr = "open" /\ pr' = "closed"
  /\ UNCHANGED <<local, shared, dirty, late, lost, here, state, line, files, held, scan,
                 keptReview, bounds>>

(* A window opened by hand: VS Code makes or starts the container.          *)
Opened(w) ==
  /\ container' = [state |-> "running", fresh |-> container.fresh \/ container.state = "none"]
  /\ window' = w

OpenByHand ==
  /\ window = "none" /\ ~IsRunning /\ ~remote /\ tree \in {"made", "half"} /\ Used
  /\ Opened("vscode")
  /\ UNCHANGED <<work, turn, remote, state, line, files, held, scan, keptReview,
                 asks, tasks, restarts>>

EndTurn ==
  /\ turn /\ turn' = FALSE
  /\ UNCHANGED <<work, container, window, remote, state, line, files, held, scan, keptReview, bounds>>

(* A window closes, by hand or as asked: its container stops with it, but   *)
(* after a crash of VS Code.                                                *)
WindowCloses(stops) ==
  /\ window # "none" /\ window' = "none" /\ turn' = FALSE
  /\ container' = IF stops THEN Stopped ELSE container
  /\ UNCHANGED <<work, remote, state, line, files, held, scan, keptReview, bounds>>

TimePasses ==
  /\ ~idle /\ ~IsRunning /\ ~remote /\ idle' = TRUE
  /\ UNCHANGED <<work, here, state, line, files, held, scan, keptReview, uses, asks, tasks, restarts>>

(* get_dropped: each commit a request names is one of the branch.           *)
GetDropped(drop) == drop \subseteq Branch

(* delete: the request is held when the branches may go.                    *)
Ask(drop) ==
  /\ asks < MaxAsks /\ ~held.on /\ tree # "gone"
  /\ GetDropped(drop) /\ MayGo(drop)
  /\ held' = [on |-> TRUE, drop |-> drop]
  /\ asks' = asks + 1
  /\ UNCHANGED <<work, here, state, line, files, scan, keptReview, uses, idle, tasks, restarts>>

(* send_deletion: Seb's yes, checked again.                                 *)
Yes ==
  /\ held.on /\ held' = NoRequest
  /\ IF MayGo(held.drop)
     THEN deletion' = [on |-> TRUE, drop |-> held.drop] /\ item' = NoItem
     ELSE UNCHANGED state
  /\ UNCHANGED <<work, here, line, files, scan, keptReview, bounds>>

(* enqueue: a task comes before the deletion, which is dropped.  A resume   *)
(* needs a session; `build` makes the bundle of a task that has none.       *)
(* `early` says that no deletion was decided yet.                           *)
StillDeleted == deletion
AfterTask == NoRequest
Enqueue(parked) ==
  /\ tasks < MaxTasks /\ ~item.on /\ (parked => session)
  /\ item' = [on |-> TRUE, parked |-> parked, build |-> tree = "gone",
              early |-> ~IsDeleting /\ ~scan.on]
  /\ deletion' = AfterTask
  /\ tasks' = tasks + 1
  /\ UNCHANGED <<work, here, line, files, held, scan, keptReview, uses, idle, asks, restarts>>

(* Seb resumes a parked session, or its time comes.                         *)
Unpark ==
  /\ item.parked /\ item' = [item EXCEPT !.parked = FALSE]
  /\ UNCHANGED <<work, here, deletion, line, files, held, scan, keptReview, bounds>>

(* launch_queued for the bundle: dropped with its folder, else written in   *)
(* `.agent` and started, here or on a worker.                               *)
DropTask ==
  /\ item.on /\ tree = "gone" /\ ~item.build
  /\ item' = NoItem
  /\ UNCHANGED <<work, here, deletion, line, files, held, scan, keptReview, bounds>>

Launch ==
  /\ item.on /\ ~item.parked /\ ~IsDeleting /\ ~IsSpawning
  /\ tree # "gone" \/ item.build
  /\ ~remote /\ window = "none" /\ ~IsRunning /\ Used
  /\ tree' = IF tree = "gone" THEN "bare" ELSE tree
  /\ session' = TRUE
  /\ item' = NoItem
  /\ \/ jobs' = Append(jobs, NewJob("spawn", {}, 0, FALSE)) /\ UNCHANGED here
     \/ /\ tree = "made" /\ ~item.build
        /\ remote' = TRUE /\ turn' = TRUE
        /\ UNCHANGED <<jobs, container, window>>
  /\ UNCHANGED <<work, deletion, job, kept, held, scan, keptReview, asks, tasks, restarts>>

(* The terminal of the agent has its container up, and its first turn runs. *)
TerminalUp ==
  /\ window = "terminal" /\ ~IsRunning /\ tree # "gone"
  /\ Opened("terminal") /\ turn' = TRUE
  /\ UNCHANGED <<work, remote, state, line, files, held, scan, keptReview, bounds>>

(* `bctl build` of an agent in a bare folder.                               *)
Build ==
  /\ tree = "bare" /\ IsRunning /\ Used /\ tree' = "made"
  /\ UNCHANGED <<work, here, state, line, session, kept, held, scan, keptReview,
                 asks, tasks, restarts>>

(* close_deleted: a terminal is closed, VS Code is asked to, a container no *)
(* window holds is stopped, an agent on a worker comes back once idle.      *)
NeverComesBack == FALSE
ComesBack == TRUE
CloseDeleted ==
  /\ deletion.on /\ ~turn
  /\ remote \/ window # "none" \/ IsRunning
  /\ IF remote
     THEN remote' = ~ComesBack /\ UNCHANGED <<container, window>>
     ELSE /\ window' = "none"
          /\ container' = Stopped
          /\ UNCHANGED remote
  /\ UNCHANGED <<work, turn, state, line, files, held, scan, keptReview, bounds>>

(* The end of an agent on a worker of itself: its work tree comes back.     *)
RemoteEnds ==
  /\ remote /\ ~turn /\ remote' = FALSE
  /\ UNCHANGED <<work, container, window, turn, state, line, files, held, scan, keptReview, bounds>>

(* delete_stopped: the job of a yes whose bundle nothing runs.              *)
DeleteStopped ==
  /\ deletion.on /\ ~IsRunning /\ ~remote
  /\ jobs' = Append(jobs, NewJob("delete", deletion.drop, 0, FALSE))
  /\ deletion' = NoRequest
  /\ UNCHANGED <<work, here, item, job, files, held, scan, keptReview, bounds>>

(* drop_idle_reviews: what it reads of the bundle, then its job.            *)
IdleLooks ==
  /\ ~scan.on /\ idle /\ tree \in {"made", "half", "bare"}
  /\ ~IsDeleting /\ (item.on => item.parked) /\ ~(tree = "bare" /\ item.on)
  /\ ~IsRunning /\ ~remote /\ keptReview # uses
  /\ scan' = [on |-> TRUE, since |-> uses, parked |-> item.on]
  /\ UNCHANGED <<work, here, state, line, files, held, keptReview, bounds>>

IdleStarts ==
  /\ scan.on /\ scan' = NoScan
  /\ jobs' = Append(jobs, NewJob("idle", {}, scan.since, scan.parked))
  /\ UNCHANGED <<work, here, state, job, files, held, keptReview, bounds>>
-----------------------------------------------------------------------------
(* run_job: one job of the bundle runs, any of those that wait.             *)
Begin(i) ==
  /\ job = NoJob /\ i \in DOMAIN jobs
  /\ job' = [jobs[i] EXCEPT !.step =
               IF jobs[i].kind = "idle" THEN "look" ELSE IF jobs[i].kind = "delete" THEN "check" ELSE "open"]
  /\ jobs' = SubSeq(jobs, 1, i - 1) \o SubSeq(jobs, i + 1, Len(jobs))
  /\ UNCHANGED <<work, here, state, files, held, scan, keptReview, bounds>>

At(step) == job.step = step /\ UNCHANGED <<held, scan, jobs, bounds>>
Goes(step) == job' = [job EXCEPT !.step = step]

(* A job that ends in a Refused: the one of an unused bundle keeps it, and  *)
(* takes the build back from the parked task.                               *)
Refused ==
  /\ job' = NoJob
  /\ IF job.kind = "idle"
     THEN /\ keptReview' = job.since
          /\ item' = IF job.parked THEN [item EXCEPT !.build = FALSE] ELSE item
     ELSE UNCHANGED <<keptReview, item>>
  /\ UNCHANGED deletion

OpenTerminal ==
  /\ At("open") /\ job' = NoJob
  /\ window' = IF tree = "gone" THEN window ELSE "terminal"
  /\ UNCHANGED <<work, container, turn, remote, state, files, keptReview>>

(* set_rebuild of a session that is no longer parked.                       *)
LeftQueue == job.parked /\ ~item.parked

(* The job of an unused bundle looks again: a use, or a parked session that *)
(* left the queue, keeps the bundle.                                        *)
IdleAgain ==
  /\ At("look")
  /\ IF \/ tree = "gone" \/ IsRunning \/ uses # job.since
        \/ LeftQueue
     THEN job' = NoJob /\ UNCHANGED item
     ELSE Goes("check") /\ item' = [item EXCEPT !.build = @ \/ job.parked]
  /\ UNCHANGED <<work, here, deletion, files, keptReview>>

(* The checks of the job, then the answer and the session of its agent are  *)
(* kept.                                                                    *)
KeepLastAnswer == kept' = (kept \/ session)

JobMayGo ==
  IF job.kind = "delete" THEN MayGo(job.drop)
  ELSE OwnBundle \/ (~HoldsOwnWork({}) /\ (NeedsForce => CheckUncommitted))
JobForce == IF job.kind = "delete" THEN NeedsForce ELSE ~OwnBundle /\ NeedsForce

JobChecks ==
  /\ At("check")
  /\ IF JobMayGo
     THEN /\ job' = [job EXCEPT !.step = "script", !.force = JobForce]
          /\ KeepLastAnswer
          /\ UNCHANGED <<keptReview, state>>
     ELSE Refused /\ UNCHANGED kept
  /\ late' = {}
  /\ UNCHANGED <<local, shared, pr, dirty, lost, here, tree, session>>

(* get_unsaved_work: files not committed, commits no remote has.            *)
GetUnsavedWork == dirty \/ local # {}

(* delete_bundle: an agent on a worker ends it with no error; work that     *)
(* would be lost, unless --force, is refused.                               *)
ScriptLooks ==
  /\ At("script")
  /\ IF ~remote /\ ~job.force /\ GetUnsavedWork
     THEN Refused
     ELSE /\ IF remote THEN job' = NoJob ELSE Goes("ps")
          /\ UNCHANGED <<keptReview, state>>
  /\ UNCHANGED <<work, here, files>>

(* A container that runs ends it with no error too.                         *)
ScriptPs ==
  /\ At("ps")
  /\ IF IsRunning
     THEN job' = NoJob /\ UNCHANGED container
     ELSE /\ job' = [job EXCEPT !.step = "rm", !.seen = container.state # "none"]
          /\ container' = [container EXCEPT !.fresh = FALSE]
  /\ UNCHANGED <<work, window, turn, remote, state, files, keptReview>>

(* `podman rm` of the containers seen fails on one that runs since.         *)
RemovesNothing == At("rm") /\ Goes("trees") /\ UNCHANGED <<work, here, state, files, keptReview>>
ScriptRemoves ==
  /\ At("rm")
  /\ IF job.seen /\ IsRunning
     THEN Refused /\ UNCHANGED container
     ELSE /\ Goes("trees")
          /\ container' = IF job.seen THEN NoContainer ELSE container
          /\ UNCHANGED <<keptReview, state>>
  /\ UNCHANGED <<work, window, turn, remote, files>>

(* The worktree, which git removes with a file not committed by --force     *)
(* alone, then the branch.                                                  *)
ScriptTrees ==
  /\ At("trees")
  /\ IF dirty /\ ~job.force
     THEN Refused /\ UNCHANGED <<work, tree>>
     ELSE /\ lost' = lost \cup (((local \cap Own) \cup (IF dirty THEN {File} ELSE {}))
                               \ (job.drop \cup late))
          /\ local' = {} /\ shared' = {} /\ pr' = "none" /\ dirty' = FALSE
          /\ late' = {}
          /\ tree' = IF tree = "made" THEN "half" ELSE tree
          /\ Goes("folder") /\ UNCHANGED <<keptReview, state>>
  /\ UNCHANGED <<here, session, kept>>

ScriptFolder ==
  /\ At("folder")
  /\ tree' = "gone" /\ session' = FALSE /\ window' = "none" /\ turn' = FALSE
  /\ job' = NoJob
  /\ UNCHANGED <<work, container, remote, kept, state, keptReview>>

(* The daemon restarts: its jobs and their scripts end where they are.      *)
Restart ==
  /\ restarts < MaxRestarts /\ restarts' = restarts + 1
  /\ job # NoJob \/ jobs # <<>> \/ scan.on \/ keptReview # -1
  /\ jobs' = <<>> /\ job' = NoJob /\ scan' = NoScan /\ keptReview' = -1
  /\ UNCHANGED <<work, here, state, files, held, uses, idle, asks, tasks>>

Users ==
  \/ \E c \in Commits : Commit(c)
  \/ Edit \/ Push \/ ClosePR \/ OpenByHand
  \/ \E stops \in BOOLEAN : WindowCloses(stops)
  \/ \E drop \in SUBSET Branch : Ask(drop)
  \/ Yes \/ Unpark
  \/ \E parked \in BOOLEAN : Enqueue(parked)

Daemon ==
  \/ DropTask \/ Launch \/ CloseDeleted \/ DeleteStopped \/ IdleLooks \/ IdleStarts
  \/ \E i \in DOMAIN jobs : Begin(i)
  \/ OpenTerminal \/ IdleAgain \/ JobChecks
  \/ ScriptLooks \/ ScriptPs \/ ScriptRemoves \/ ScriptTrees \/ ScriptFolder

Next ==
  \/ Users \/ Daemon \/ Restart
  \/ EndTurn \/ TerminalUp \/ Build \/ RemoteEnds \/ TimePasses

Fairness ==
  /\ WF_vars(EndTurn) /\ WF_vars(CloseDeleted) /\ WF_vars(DeleteStopped)

Spec == Init /\ [][Next]_vars /\ Fairness

-----------------------------------------------------------------------------
(* No deletion loses a file not committed, nor a commit of Seb that no      *)
(* remote has, but what his yes names and what was made after the last look *)
(* of the job at the branch (check_deletion, get_others_commits and the     *)
(* get_unsaved_work of the script, with or without --force).                *)
NothingUnseenLost == lost = {}

(* A task queued while no deletion was decided never waits for a bundle     *)
(* that went: a parked one gets the build that makes it again (set_rebuild),*)
(* any other keeps the bundle (drop_idle_reviews, enqueue).                 *)
EarlyTaskKept == item.on /\ item.early /\ tree = "gone" => item.build

(* Worktrees go under no container but one made since the script looked: a  *)
(* container that it saw stopped and that starts again makes `podman rm`    *)
(* fail first (delete_bundle).                                              *)
NoTreeUnderContainer ==
  [][(tree' # tree /\ tree' \in {"half", "gone"}) => ~(IsRunning /\ ~container.fresh)]_vars

(* The session of an agent goes with its folder once it is kept only: no    *)
(* launch begins one in a folder whose deletion is under way.               *)
SessionKept == [][session /\ ~session' => kept]_vars

(* Seb's yes comes to its job, or to a task that takes its place, whatever  *)
(* runs in the bundle: its agent, its windows and an agent on a worker are  *)
(* closed (close_deleted), and the daemon may restart in between.           *)
YesActs == []<>(~deletion.on)


(* A deletion takes what its yes or its look showed, and no waiting task.   *)
LosesNothing == NothingUnseenLost /\ EarlyTaskKept

(* What a deletion takes goes once nothing uses it.                         *)
DeletesInOrder == NoTreeUnderContainer /\ SessionKept
=============================================================================
