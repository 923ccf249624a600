---------------------------- MODULE RemoteAgent ----------------------------
(***************************************************************************)
(* Where the agent of one bundle is: here, or in a job of a worker         *)
(* (bundle-ctl/remote_agent.py and the "Remote agents" part of daemon.py). *)
(* A pass of the queue sends a task to the worker; a job of the daemon     *)
(* (`starter`) starts it there and notes it in two files; another          *)
(* (`mover`) brings it back; the keeper, a pass each minute, opens its     *)
(* tunnel again, stops it after its verdict and takes its end.  `finish`,  *)
(* which the keeper and the mover call, has three steps, as the daemon may *)
(* restart between them.  The starter and the mover take the lock of the   *)
(* bundle; the keeper and the passes of the queue do not.                  *)
(*                                                                         *)
(* The worker and the stand-in are code of another repository: what they   *)
(* do (JobVerdict to JobTells) is what remote_agent.py expects of them.    *)
(* `tree` says where the newest work of the bundle is.                     *)
(*                                                                         *)
(* Assumed: a start ends within STARTING (30 minutes), which is_remote     *)
(* counts it for, and its calls to the worker outlast the few unlinks at   *)
(* the end of a finish.  Left out: terminals that open (AgentQueue), the account *)
(* of places (WorkerPlaces), notes, lines and dialogs typed there,         *)
(* deletions and the card of an agent whose bundle is gone.                *)
(***************************************************************************)
EXTENDS Integers, FiniteSets

CONSTANTS
  Jobs, NoJob,
  MaxLosses,     (* MAX_LOSSES                                              *)
  MaxTasks,      (* bound: tasks queued                                     *)
  MaxFaults      (* bound: restarts of the daemon, losses of the link, jobs *)
                 (* lost on the worker, starts that raise with a job there  *)

ASSUME ConstantsAssumption ==
  /\ IsFiniteSet(Jobs) /\ NoJob \notin Jobs
  /\ MaxLosses \in Nat \ {0} /\ MaxTasks \in Nat /\ MaxFaults \in Nat

VARIABLES
  queue,     (* what the queue holds for the bundle                         *)
  here,      (* an agent of the bundle works in a terminal here             *)
  done,      (* .agent/done                                                 *)
  where,     (* .agent/where: local, or away for auto and for a worker,     *)
             (* which may take no agent now                                 *)
  starting,  (* .agent/remote-starting, old past REMOTE_GONE_AFTER, stale   *)
             (* past STARTING                                               *)
  remote,    (* .agent/remote.json                                          *)
  record,    (* the record of the daemon                                    *)
  moving,    (* .agent/remote-moving                                        *)
  ending,    (* .agent/remote-ending, of any age (STOP_AGAIN)               *)
  losses,    (* .agent/remote-lost                                          *)
  sent,      (* .agent/remote-ended, with the tree in .agent/remote-back    *)
  ended,     (* `ended`, from the stand-in                                  *)
  starter, mover, finish,
  job,       (* the jobs of the bundle on the worker                        *)
  link, tunnel,
  tree,      (* where the newest work of the bundle is                      *)
  abandoned, (* jobs no file here names any more, or yet                    *)
  cut,       (* what a restart cut: a start, a move, a finish               *)
  tasks, faults

bounds == <<tasks, faults>>
start  == <<starting, starter>>
names  == <<remote, record>>
files  == <<moving, ending, losses, sent, ended>>
worker == <<job, link, tunnel>>
ghosts == <<abandoned, cut>>
vars == <<queue, here, done, where, start, names, files, mover, finish, worker,
          tree, ghosts, bounds>>

Items == {"task", "taskHere", "goOn"}
(* What a move back ends on: a terminal here (bring_back, a place here), a  *)
(* start on another worker, a terminal as the worker leaves.                *)
Kinds == {"here", "other", "leave"}

NoStart  == [at |-> "no", job |-> NoJob]
NoMove   == [at |-> "no", kind |-> "here", goesOn |-> FALSE]
NoFinish == [at |-> "no", by |-> "keeper", lost |-> FALSE]

Lives(j) == job[j] \in {"runs", "stops"}

(* read_remote, and is_remote.                                              *)
Named    == record # NoJob /\ remote = record
IsRemote == Named \/ starting \in {"fresh", "old"}

(* The lock of the bundle (run_job): the starter and the mover in turn.     *)
StarterWorks == starter.at \in {"packs", "answered", "noted", "recorded"}
MoverWorks   == mover.at \in {"waits", "cancelled", "opens"}

(* An order to the stand-in is lost while the tunnel is down.               *)
Stopped == IF Named /\ tunnel /\ job[record] = "runs"
           THEN [job EXCEPT ![record] = "stops"] ELSE job

Faulty == faults < MaxFaults /\ faults' = faults + 1

Init ==
  /\ queue = {} /\ here = FALSE /\ done = FALSE /\ where = "away"
  /\ starting = "none" /\ remote = NoJob /\ record = NoJob
  /\ moving = FALSE /\ ending = FALSE /\ losses = 0 /\ sent = FALSE /\ ended = FALSE
  /\ starter = NoStart /\ mover = NoMove /\ finish = NoFinish
  /\ job = [j \in Jobs |-> "none"] /\ link = TRUE /\ tunnel = FALSE
  /\ tree = "here" /\ abandoned = {} /\ cut = {}
  /\ tasks = 0 /\ faults = 0

-----------------------------------------------------------------------------
(* The queue                                                                *)

Enqueue ==
  /\ tasks < MaxTasks /\ tasks' = tasks + 1
  /\ queue' = queue \cup {"task"}
  /\ UNCHANGED <<here, done, where, start, names, files, mover, finish, worker,
                 tree, ghosts, faults>>

(* launch_queued sends a task to the worker: the file before the job, which *)
(* may wait for the lock of the bundle.                                     *)
Send(item) ==
  /\ item \in queue \ {"taskHere"} /\ ~here /\ ~IsRemote /\ where # "local"
  /\ queue' = queue \ {item}
  /\ done' = FALSE
  /\ starting' = "fresh"
  /\ starter' = [at |-> "waits", job |-> NoJob]
  /\ UNCHANGED <<here, where, names, files, mover, finish, worker, tree, ghosts,
                 bounds>>

(* launch_queued starts it here, under the same lock; agent-terminal.py     *)
(* attaches when there is a remote.json.                                    *)
LaunchHere(item) ==
  /\ item \in queue /\ ~here /\ ~IsRemote
  /\ ~StarterWorks /\ ~MoverWorks
  /\ queue' = queue \ {item}
  /\ done' = FALSE
  /\ here' = (remote = NoJob)
  /\ UNCHANGED <<where, start, names, files, mover, finish, worker, tree,
                 ghosts, bounds>>

HereEnds ==
  /\ here /\ here' = FALSE
  /\ done' \in BOOLEAN
  /\ UNCHANGED <<queue, where, start, names, files, mover, finish, worker, tree,
                 ghosts, bounds>>

(* type_remote: a task typed in the session of the agent, after its verdict.*)
TypeRemote(item) ==
  /\ item \in queue \ {"taskHere"} /\ ~here
  /\ Named /\ done /\ tunnel /\ ~moving /\ ~ending
  /\ queue' = queue \ {item}
  /\ done' = FALSE
  /\ UNCHANGED <<here, where, start, names, files, mover, finish, worker, tree,
                 ghosts, bounds>>

-----------------------------------------------------------------------------
(* start_remote                                                             *)

StarterBegins ==
  /\ starter.at = "waits" /\ ~MoverWorks
  /\ starter' = [starter EXCEPT !.at = "packs"]
  /\ starting' = "fresh"
  /\ UNCHANGED <<queue, here, done, where, names, files, mover, finish, worker,
                 tree, ghosts, bounds>>

(* It raises: the file goes and queue_here queues the task, here that once. *)
Raises ==
  /\ starter' = NoStart
  /\ starting' = "none"
  /\ queue' = queue \cup {"taskHere"}

StartFails ==
  /\ starter.at = "packs" /\ Raises
  /\ UNCHANGED <<here, done, where, names, files, mover, finish, worker, tree,
                 ghosts, bounds>>

(* A job id was never given before.                                        *)
NextJob ==
  IF \E j \in Jobs : job[j] = "none" THEN CHOOSE j \in Jobs : job[j] = "none" ELSE NoJob

(* The worker starts the job, and its answer comes.                         *)
JobStarts(j) ==
  /\ starter.at = "packs" /\ link /\ j = NextJob /\ finish.at # "dropped"
  /\ starter' = [at |-> "answered", job |-> j]
  /\ job' = [job EXCEPT ![j] = "runs"]
  /\ tree' = "worker"
  /\ UNCHANGED <<queue, here, done, where, starting, names, files, mover,
                 finish, link, tunnel, ghosts, bounds>>

(* Its answer is lost: nothing is cancelled.                                *)
AnswerLost(j) ==
  /\ starter.at = "packs" /\ link /\ j = NextJob
  /\ Faulty
  /\ job' = [job EXCEPT ![j] = "runs"]
  /\ abandoned' = abandoned \cup {j}
  /\ Raises
  /\ UNCHANGED <<here, done, where, names, files, mover, finish, link, tunnel,
                 tree, cut, tasks>>

(* It raises on the answer: the job is cancelled, if the link is there.     *)
StartCancels ==
  /\ starter.at = "answered" /\ Faulty
  /\ IF link THEN job' = [job EXCEPT ![starter.job] = "ended"] /\ UNCHANGED abandoned
             ELSE abandoned' = abandoned \cup {starter.job} /\ UNCHANGED job
  /\ tree' = IF losses = 0 THEN "here" ELSE tree
  /\ Raises
  /\ UNCHANGED <<here, done, where, names, files, mover, finish, link, tunnel,
                 cut, tasks>>

Notes ==
  /\ starter.at = "answered"
  /\ starter' = [starter EXCEPT !.at = "noted"]
  /\ ended' = FALSE
  /\ remote' = starter.job
  /\ UNCHANGED <<queue, here, done, where, starting, record, moving, ending,
                 losses, sent, mover, finish, worker, tree, ghosts, bounds>>

Records ==
  /\ starter.at = "noted"
  /\ starter' = [starter EXCEPT !.at = "recorded"]
  /\ record' = starter.job
  /\ UNCHANGED <<queue, here, done, where, starting, remote, files, mover,
                 finish, worker, tree, ghosts, bounds>>

StartEnds ==
  /\ starter.at = "recorded"
  /\ starter' = NoStart
  /\ starting' = "none"
  /\ where' = "away"
  /\ tunnel' = (link /\ Named)
  /\ UNCHANGED <<queue, here, done, names, files, mover, finish, job, link,
                 tree, ghosts, bounds>>

(* Time; a start that runs is not stale.                                    *)
StartAges ==
  /\ \/ starting = "fresh" /\ starting' = "old"
     \/ starting = "old" /\ starter.at = "no" /\ starting' = "stale"
  /\ UNCHANGED <<queue, here, done, where, starter, names, files, mover, finish,
                 worker, tree, ghosts, bounds>>

-----------------------------------------------------------------------------
(* The worker, its tunnel and its stand-in                                  *)

JobVerdict ==
  /\ Named /\ tunnel /\ job[record] = "runs" /\ ~done
  /\ done' = TRUE
  /\ UNCHANGED <<queue, here, where, start, names, files, mover, finish, worker,
                 tree, ghosts, bounds>>

(* Its claude ends without an order.                                        *)
JobExits(j) ==
  /\ job[j] = "runs"
  /\ job' = [job EXCEPT ![j] = IF Named /\ record = j THEN "stops" ELSE "ended"]
  /\ UNCHANGED <<queue, here, done, where, start, names, files, mover, finish,
                 link, tunnel, tree, ghosts, bounds>>

JobSends ==
  /\ Named /\ tunnel /\ job[record] = "stops"
  /\ job' = [job EXCEPT ![record] = "ended"]
  /\ sent' = TRUE
  /\ tree' = "back"
  /\ UNCHANGED <<queue, here, done, where, start, names, moving, ending, losses,
                 ended, mover, finish, link, tunnel, ghosts, bounds>>

(* The worker reboots: the tree stays there.                                *)
JobLost(j) ==
  /\ Lives(j) /\ Faulty
  /\ job' = [job EXCEPT ![j] = "ended"]
  /\ UNCHANGED <<queue, here, done, where, start, names, files, mover, finish,
                 link, tunnel, tree, ghosts, tasks>>

(* A tunnel gets the end of its job, however late.                          *)
JobTells ==
  /\ Named /\ tunnel /\ ~Lives(record) /\ ~ended
  /\ ended' = TRUE
  /\ UNCHANGED <<queue, here, done, where, start, names, moving, ending, losses,
                 sent, mover, finish, worker, tree, ghosts, bounds>>

LinkDrops ==
  /\ link /\ Faulty
  /\ link' = FALSE /\ tunnel' = FALSE
  /\ UNCHANGED <<queue, here, done, where, start, names, files, mover, finish,
                 job, tree, ghosts, tasks>>

LinkBack ==
  /\ ~link /\ link' = TRUE
  /\ UNCHANGED <<queue, here, done, where, start, names, files, mover, finish,
                 job, tunnel, tree, ghosts, bounds>>

-----------------------------------------------------------------------------
(* finish: the work tree or the loss, then the record, then the other files *)

(* Mutant of MaxKept: one loss more.                                        *)
MaxKeptMore == MaxLosses
MaxKept == MaxLosses - 1

(* standin.py back: the tree comes back, or the worktree changed meanwhile. *)
Merges ==
  \/ /\ losses' = 0
     /\ tree' = IF tree = "back" THEN "here" ELSE tree
     /\ UNCHANGED where
  \/ where' = "local" /\ UNCHANGED <<losses, tree>>

(* Its tree stays on the worker, where the next start goes on from it; past *)
(* MAX_LOSSES, or before a first transcript, it is given up.                *)
Loses ==
  \/ /\ losses < MaxKept
     /\ losses' = losses + 1
     /\ UNCHANGED <<where, tree>>
  \/ /\ losses' = 0
     /\ where' = "local"
     /\ tree' = "here"

(* Mutant of TakesEnd: a job that was lost is taken as any other.           *)
TakesAnyEnd == Merges
TakesEnd == IF sent THEN Merges ELSE Loses

Finishes(by) ==
  /\ finish.at = "no" /\ Named
  /\ TakesEnd
  /\ finish' = [at |-> "taken", by |-> by, lost |-> ~sent]

FinishDrops ==
  /\ finish.at = "taken"
  /\ finish' = [finish EXCEPT !.at = "dropped"]
  /\ record' = NoJob /\ tunnel' = FALSE
  /\ UNCHANGED <<queue, here, done, where, start, remote, files, mover, job,
                 link, tree, ghosts, bounds>>

(* The caller goes on: the keeper queues a job that was lost at work, the   *)
(* mover opens the terminal.                                                *)
FinishEnds ==
  /\ finish.at = "dropped"
  /\ finish' = NoFinish
  /\ remote' = NoJob /\ moving' = FALSE /\ ending' = FALSE
  /\ sent' = FALSE /\ ended' = FALSE
  /\ where' = IF moving /\ ~finish.lost THEN "local" ELSE where
  /\ queue' = IF finish.by = "keeper" /\ finish.lost /\ ~done
              THEN queue \cup {"goOn"} ELSE queue
  /\ mover' = IF finish.by = "mover" THEN [mover EXCEPT !.at = "opens"] ELSE mover
  /\ UNCHANGED <<here, done, start, record, losses, worker, tree, ghosts, bounds>>

-----------------------------------------------------------------------------
(* keep_remote_agents                                                       *)

KeeperFree == ~(finish.at # "no" /\ finish.by = "keeper")

(* moving_back names the moves of a worker that leaves, and no other.       *)
MovesBack == mover.at # "no" /\ mover.kind = "leave"

KeepFinishes ==
  /\ Named /\ ended /\ Finishes("keeper")
  /\ UNCHANGED <<queue, here, done, start, names, moving, ending, sent, ended,
                 mover, worker, ghosts, bounds>>

KeepTunnels ==
  /\ KeeperFree /\ Named /\ ~ended /\ ~tunnel /\ link
  /\ tunnel' = TRUE
  /\ UNCHANGED <<queue, here, done, where, start, names, files, mover, finish,
                 job, link, tree, ghosts, bounds>>

(* is_gone: the worker lists it no more (WorkerPlaces) and answers.  The    *)
(* mutant takes a job still there for gone.                                 *)
MissingAny == link
Missing == link /\ ~Lives(record)

GoneFinishes ==
  /\ Named /\ ~ended /\ Missing
  /\ ~MovesBack
  /\ Finishes("keeper")
  /\ UNCHANGED <<queue, here, done, start, names, moving, ending, sent, ended,
                 mover, worker, ghosts, bounds>>

(* end: after the verdict, on a Close, as the worker leaves, or again.      *)
Ends ==
  /\ Named
  /\ ending' = TRUE
  /\ job' = Stopped

KeepEnds ==
  /\ KeeperFree /\ ~ended
  /\ done \/ (ending /\ tunnel)
  /\ Ends
  /\ UNCHANGED <<queue, here, done, where, start, names, moving, losses, sent,
                 ended, mover, finish, link, tunnel, tree, ghosts, bounds>>

LeaveEnds ==
  /\ KeeperFree /\ ~ended /\ done /\ ~MovesBack
  /\ Ends /\ where' = "local"
  /\ UNCHANGED <<queue, here, done, start, names, moving, losses, sent, ended,
                 mover, finish, link, tunnel, tree, ghosts, bounds>>

CloseRemote ==
  /\ ~moving /\ ~MovesBack
  /\ Ends
  /\ UNCHANGED <<queue, here, done, where, start, names, moving, losses, sent,
                 ended, mover, finish, link, tunnel, tree, ghosts, bounds>>

(* A start no job of this daemon runs; its mutant asks for a verdict too.   *)
DroppableDone == starting \in {"old", "stale"} /\ remote = NoJob /\ starter.at = "no" /\ done
Droppable == starting \in {"old", "stale"} /\ remote = NoJob /\ starter.at = "no"

StartDropped ==
  /\ KeeperFree /\ Droppable
  /\ starting' = "none"
  /\ queue' = IF done THEN queue ELSE queue \cup {"taskHere"}
  /\ UNCHANGED <<here, done, where, starter, names, files, mover, finish,
                 worker, tree, ghosts, bounds>>

-----------------------------------------------------------------------------
(* bring_back, place_agent and leave_worker; move_back                      *)

Moves(kind) ==
  /\ mover.at = "no"
  /\ \/ kind = "here" /\ IsRemote
     \/ kind = "other" /\ Named /\ (done \/ "goOn" \notin queue)
     \/ kind = "leave" /\ Named /\ ~done /\ KeeperFree
  /\ mover' = [at |-> "asked", kind |-> kind, goesOn |-> kind = "other" /\ ~done]
  /\ UNCHANGED <<queue, here, done, where, start, names, files, finish, worker,
                 tree, ghosts, bounds>>

(* set_place: place_agent with no agent on the worker, which moves one at   *)
(* work here (its terminal then closes), and the keeper as a worker leaves. *)
Places(to) ==
  /\ where # to /\ (to = "local" => ~IsRemote)
  /\ where' = to
  /\ queue' = IF here /\ to = "away" /\ ~done THEN queue \cup {"goOn"} ELSE queue
  /\ UNCHANGED <<here, done, start, names, files, mover, finish, worker, tree,
                 ghosts, bounds>>

MoverBegins ==
  /\ mover.at = "asked" /\ ~StarterWorks
  /\ IF Named THEN /\ mover' = [mover EXCEPT !.at = "waits"]
                   /\ moving' = TRUE /\ job' = Stopped
              ELSE mover' = NoMove /\ UNCHANGED <<moving, job>>
  /\ UNCHANGED <<queue, here, done, where, start, names, ending, losses, sent,
                 ended, finish, link, tunnel, tree, ghosts, bounds>>

(* The end of the job, or its deadline: finish, unless the keeper did.      *)
MoverEnds ==
  /\ finish.at = "no"
  /\ IF Named THEN Finishes("mover") /\ UNCHANGED mover
              ELSE /\ mover' = [mover EXCEPT !.at = "opens"]
                   /\ UNCHANGED <<finish, losses, where, tree>>

MoverFinishes ==
  /\ mover.at \in {"waits", "cancelled"} /\ ended
  /\ MoverEnds
  /\ UNCHANGED <<queue, here, done, start, names, moving, ending, sent, ended,
                 worker, ghosts, bounds>>

MoverCancels ==
  /\ mover.at = "waits" /\ ~ended
  /\ mover' = [mover EXCEPT !.at = "cancelled"]
  /\ IF ~Named \/ ~Lives(record) THEN UNCHANGED <<job, abandoned>>
     ELSE IF link THEN job' = [job EXCEPT ![record] = "ended"] /\ UNCHANGED abandoned
     ELSE abandoned' = abandoned \cup {record} /\ UNCHANGED job
  /\ UNCHANGED <<queue, here, done, where, start, names, files, finish, link,
                 tunnel, tree, cut, bounds>>

(* Two minutes after its cancel, arrived or not.  One mutant waits for the  *)
(* end of the job, the other does not wait for the cancel.                  *)
NoDeadline == mover.at = "cancelled" /\ ended
DeadlineAtOnce == mover.at \in {"waits", "cancelled"} /\ ~ended
Deadline == mover.at = "cancelled" /\ ~ended

MoverGivesUp ==
  /\ Deadline /\ MoverEnds
  /\ UNCHANGED <<queue, here, done, start, names, moving, ending, sent, ended,
                 worker, ghosts, bounds>>

(* A place on another worker keeps the agent where its tree is.             *)
MoverOpens ==
  /\ mover.at = "opens"
  /\ mover' = NoMove
  /\ IF mover.kind = "other"
     THEN /\ where' = IF losses > 0 \/ tree = "back" THEN where ELSE "away"
          /\ queue' = IF mover.goesOn THEN queue \cup {"goOn"} ELSE queue
          /\ UNCHANGED here
     ELSE /\ where' = IF mover.kind = "leave" THEN "local" ELSE where
          /\ here' = (here \/ remote = NoJob)
          /\ UNCHANGED queue
  /\ UNCHANGED <<done, start, names, files, finish, worker, tree, ghosts, bounds>>

-----------------------------------------------------------------------------
(* The daemon restarts: its jobs and its keeper die; tunnels, jobs and      *)
(* terminals go on.                                                         *)
Restart ==
  /\ Faulty
  /\ starter' = NoStart /\ mover' = NoMove /\ finish' = NoFinish
  /\ LET unnamed == starter.at \in {"answered", "noted"}
     IN  /\ abandoned' = abandoned \cup {j \in {starter.job} : unnamed}
         /\ cut' = cut \cup {c \in {"start"} : unnamed}
                       \cup {c \in {"move"} : moving}
                       \cup {c \in {"finish"} : finish.at # "no"}
  /\ UNCHANGED <<queue, here, done, where, starting, names, files, worker, tree,
                 tasks>>

(* The threads of the daemon.                                               *)
Starting ==
  StarterBegins \/ StartFails \/ StartCancels \/ Notes \/ Records \/ StartEnds
Moving == MoverBegins \/ MoverFinishes \/ MoverCancels \/ MoverGivesUp \/ MoverOpens
Finishing == FinishDrops \/ FinishEnds
Keeping ==
  KeepFinishes \/ KeepTunnels \/ GoneFinishes \/ KeepEnds \/ LeaveEnds \/ StartDropped

Next ==
  \/ Enqueue \/ HereEnds
  \/ \E item \in Items : Send(item) \/ LaunchHere(item) \/ TypeRemote(item)
  \/ \E kind \in Kinds : Moves(kind)
  \/ \E to \in {"local", "away"} : Places(to)
  \/ Starting \/ Moving \/ Finishing \/ Keeping \/ CloseRemote \/ StartAges
  \/ \E j \in Jobs : JobStarts(j) \/ AnswerLost(j) \/ JobExits(j) \/ JobLost(j)
  \/ JobVerdict \/ JobSends \/ JobTells \/ LinkDrops \/ LinkBack
  \/ Restart

Spec == Init /\ [][Next]_vars

(* The threads of the daemon go on, as each call to the worker ends; its    *)
(* keeper comes to a start nobody runs; time.  No link need come back, no   *)
(* agent end.                                                               *)
Fairness ==
  /\ WF_vars(Starting) /\ WF_vars(Moving) /\ WF_vars(Finishing)
  /\ WF_vars(StartDropped) /\ WF_vars(StartAges)

FairSpec == Spec /\ Fairness

-----------------------------------------------------------------------------
(* The files have their values, and remote-lost stays under MAX_LOSSES.     *)
TypeOK ==
  /\ queue \subseteq Items
  /\ here \in BOOLEAN /\ done \in BOOLEAN /\ where \in {"local", "away"}
  /\ starting \in {"none", "fresh", "old", "stale"}
  /\ remote \in Jobs \cup {NoJob} /\ record \in Jobs \cup {NoJob}
  /\ moving \in BOOLEAN /\ ending \in BOOLEAN
  /\ losses \in 0..(MaxLosses - 1) /\ sent \in BOOLEAN /\ ended \in BOOLEAN
  /\ starter \in [at : {"no", "waits", "packs", "answered", "noted", "recorded"},
                   job : Jobs \cup {NoJob}]
  /\ mover \in [at : {"no", "asked", "waits", "cancelled", "opens"},
                 kind : Kinds, goesOn : BOOLEAN]
  /\ finish \in [at : {"no", "taken", "dropped"}, by : {"keeper", "mover"}, lost : BOOLEAN]
  /\ job \in [Jobs -> {"none", "runs", "stops", "ended"}]
  /\ link \in BOOLEAN /\ tunnel \in BOOLEAN
  /\ tree \in {"here", "worker", "back"}
  /\ abandoned \subseteq Jobs /\ cut \subseteq {"start", "move", "finish"}
  /\ tasks \in 0..MaxTasks /\ faults \in 0..MaxFaults

(* No agent begins here while one of the bundle works on the worker, but    *)
(* one nothing here could name: its start was cut between its answer and    *)
(* its record, or its cancel did not arrive.                                *)
BeginsAlone ==
  [][~here /\ here' => \A j \in Jobs \ abandoned : ~Lives(j)]_vars

(* Every agent on the worker but those is the one the keeper keeps, or the  *)
(* one being started: none is forgotten by a move, an end or a restart.     *)
JobsKept ==
  \A j \in Jobs \ abandoned : Lives(j) => (Named /\ record = j) \/ starter.job = j

(* Work that stayed on the worker is not forgotten: a job there still has   *)
(* it, or remote-lost says that the next start goes on from it.  A start or *)
(* a finish that a restart cut is the exception.                            *)
TreeKept ==
  tree = "worker" /\ cut \subseteq {"move"} =>
    Named \/ StarterWorks \/ losses > 0

(* A move back ends, whatever the link, the worker and the keeper do, and   *)
(* its mark goes: it refuses Closes and typed tasks until then.  A restart  *)
(* in the middle of the move is the exception.                              *)
MoveEnds == []<>(~moving \/ cut \cap {"move", "finish"} # {})

(* "A start no job of this daemon runs is dropped" (keep_remote_agents):    *)
(* remote-starting goes, or its job is noted.                               *)
StartGoes == []<>(starting = "none" \/ remote # NoJob)


(* The agent and its work tree are known wherever a move, an end or a       *)
(* restart left them.                                                       *)
NothingForgotten == TypeOK /\ JobsKept /\ TreeKept

(* Neither a move back nor a start stays for ever.                          *)
MovesAndStartsEnd == MoveEnds /\ StartGoes
=============================================================================
