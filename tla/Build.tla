-------------------------------- MODULE Build --------------------------------
(***************************************************************************)
(* How a bundle is made (bundle-ctl/daemon.py, scripts/create_bundle.py,   *)
(* fetch_bundle.py, utils.py): by a job of a create or a fetch, by the     *)
(* `bctl build` of the agent that started in its bare folder, or, for a    *)
(* task a worker would take, by a job the queue starts.  The script adds   *)
(* one worktree per repo, then the tooling, then the mark that says the    *)
(* bundle is made; a branch it finds is reset.  Meanwhile commits are      *)
(* made, the unused checkout of a parked session is deleted, scripts fail  *)
(* and the daemon restarts.                                                *)
(*                                                                         *)
(* One bundle: work_lock only makes a job wait for those of the others.    *)
(* At most one task of the bundle is queued (RunQueue and AgentQueue have  *)
(* the order of several), the room an agent needs is module AgentQueue,    *)
(* its run on a worker RemoteAgent, and deletions at a yes Deletion.       *)
(***************************************************************************)
EXTENDS Integers, FiniteSets

CONSTANTS
  Repos,       (* the repos of a bundle                                     *)
  MaxAsks,     (* bound: creates, fetches, tasks and terminals asked        *)
  MaxCommits,  (* bound: commits                                            *)
  MaxFaults    (* bound: restarts of the daemon and scripts that fail       *)

VARIABLES
  folder,     (* the folder of the bundle is there                          *)
  agentDir,   (* its .agent, with the session of its agent                  *)
  repo,       (* its worktrees; "cut": a kill cut the checkout              *)
  tooling,    (* the node_modules and the config of the web tooling         *)
  made,       (* the file is_made looks for                                 *)
  work,       (* the repos whose branch has commits no remote has           *)
  remote,     (* those whose branch is on the dev remote                    *)
  item,       (* the task of the bundle in state["queue"]                   *)
  builds,     (* state["builds"]: what `bctl build` runs                    *)
  building,   (* state["building"]                                          *)
  forWorker,  (* building_for_worker, in memory                             *)
  agent,      (* where the agent runs; "starting": its job waits or runs    *)
  kept,       (* the session kept when the bundle was deleted               *)
  idle,       (* nobody used the bundle for long                            *)
  jobs, run,  (* the jobs that wait for the bundle, and the one that runs   *)
  lost,       (* a script reset commits: of which job, and whether they     *)
              (* were made before it was asked                              *)
  again,      (* a script began on a bundle already made                    *)
  crossed,    (* a deletion took the folder of a task queued for a bundle   *)
              (* that was there, or of a terminal that was asked            *)
  asks, commits, faults

tree == <<folder, agentDir, repo, tooling, made>>
branch == <<work, remote, lost>>
ghosts == <<again, crossed>>
state == <<item, builds, building, forWorker>>
line == <<jobs, run>>
bounds == <<asks, commits, faults>>
vars == <<tree, branch, state, line, agent, kept, idle, ghosts, bounds>>

Scripts == {"create", "fetch"}
None == "none"
NoItem == [on |-> FALSE, build |-> None, resume |-> FALSE, parked |-> FALSE, local |-> FALSE]

NewItem(build, resume, parked, local) ==
  [on |-> TRUE, build |-> build, resume |-> resume, parked |-> parked, local |-> local]

(* seen: the unpushed work when the job was asked.                          *)
Job(kind, script, parked) ==
  [kind |-> kind, script |-> script, parked |-> parked, seen |-> work]
NoJob == [kind |-> None, script |-> None, parked |-> FALSE, seen |-> {}]
NoRun == [job |-> NoJob, phase |-> None, todo |-> {}]
Running == run # NoRun

Of(kinds) == {j \in jobs : j.kind \in kinds} # {} \/ (Running /\ run.job.kind \in kinds)

IsDeletingNever == FALSE
IsDeleting == Of({"delete"})

(* is_bare: the folder holds an agent, and no worktree.                     *)
IsBare == folder /\ agentDir /\ ~made /\ \A r \in Repos : repo[r] = None

IsParked(it) == it.on /\ it.resume /\ it.parked

(* check_unpushed, and its mutant for a check nobody makes.                 *)
CheckNothing == TRUE
CheckUnpushed == work = {}

Init ==
  /\ folder = FALSE /\ agentDir = FALSE /\ repo = [r \in Repos |-> None]
  /\ tooling = FALSE /\ made = FALSE
  /\ work = {} /\ remote \in {{}, {CHOOSE r \in Repos : TRUE}} /\ lost = {}
  /\ item = NoItem /\ builds = None /\ building = FALSE /\ forWorker = FALSE
  /\ agent = None /\ kept = FALSE /\ idle = FALSE
  /\ jobs = {} /\ run = NoRun /\ again = FALSE /\ crossed = FALSE
  /\ asks = 0 /\ commits = 0 /\ faults = 0

(* The bundle is used: get_unused_since moves.                              *)
Used == idle' = FALSE

-----------------------------------------------------------------------------
(* What is asked of the bundle.                                             *)

Ask == asks < MaxAsks /\ asks' = asks + 1 /\ UNCHANGED <<commits, faults>>

(* create and fetch without a task: the checks, then a job that builds.     *)
AsksBundle(script) ==
  /\ Ask /\ ~made /\ CheckUnpushed
  /\ jobs' = jobs \cup {Job("ask", script, FALSE)}
  /\ UNCHANGED <<tree, branch, state, run, agent, kept, idle, ghosts>>

(* With a task, they queue it with its script.                              *)
AsksTask(script) ==
  /\ Ask /\ ~made /\ CheckUnpushed /\ ~item.on
  /\ item' = NewItem(script, FALSE, FALSE, FALSE)
  /\ UNCHANGED <<tree, branch, builds, building, forWorker, line, agent, kept, idle, ghosts>>

(* open_bundle with a task, of the last session when the bundle is not made.*)
QueuesTask ==
  /\ Ask /\ folder /\ ~item.on
  /\ \E resume \in BOOLEAN :
       /\ resume => agentDir
       /\ made \/ (resume /\ (builds # None \/ IsBare))
       /\ item' = NewItem(None, resume, FALSE, FALSE)
  /\ UNCHANGED <<tree, branch, builds, building, forWorker, line, agent, kept, idle, ghosts>>

(* open_bundle for a terminal on the last session.                          *)
OpensTerminal ==
  /\ Ask /\ folder /\ agentDir /\ agent = None
  /\ made \/ builds # None \/ IsBare
  /\ jobs' = jobs \cup {Job("terminal", None, FALSE)}
  /\ UNCHANGED <<tree, branch, state, run, agent, kept, idle, ghosts>>

(* open_deleted: the terminal of a deleted bundle.                          *)
Reopens ==
  /\ Ask /\ ~folder /\ kept /\ ~item.on /\ agent = None
  /\ jobs' = jobs \cup {Job("reopen", None, FALSE)}
  /\ UNCHANGED <<tree, branch, state, run, agent, kept, idle, ghosts>>

(* Seb parks the queued session, resumes it, or takes the task back.        *)
Parks ==
  /\ item.on /\ item.resume /\ ~item.parked /\ Ask
  /\ item' = [item EXCEPT !.parked = TRUE]
  /\ UNCHANGED <<tree, branch, builds, building, forWorker, line, agent, kept, idle, ghosts>>
Resumes ==
  /\ item.parked
  /\ item' = [item EXCEPT !.parked = FALSE]
  /\ UNCHANGED <<tree, branch, builds, building, forWorker, line, agent, kept, idle, ghosts, bounds>>
Unqueues ==
  /\ item.on /\ Ask
  /\ item' = NoItem
  /\ UNCHANGED <<tree, branch, builds, building, forWorker, line, agent, kept, idle, ghosts>>

-----------------------------------------------------------------------------
(* launch_queued, for the task of the bundle.                               *)

(* The `bare` of launch_queued, and its mutant.                             *)
IsUnbuiltNever == FALSE
IsUnbuilt == builds # None

(* get_agent_worker, with a worker that has a place: only an `auto` task    *)
(* of a bundle that is made goes there.                                     *)
GetAgentWorker(build, bare) == ~item.local /\ build = None /\ ~bare

Starts == item.on /\ ~item.parked /\ ~IsDeleting /\ agent = None /\ ~forWorker

PassDrops ==
  /\ item.on /\ ~folder /\ item.build = None
  /\ item' = NoItem
  /\ UNCHANGED <<tree, branch, builds, building, forWorker, line, agent, kept, idle, ghosts, bounds>>

(* A worker would take it: the bundle is made here first.                   *)
PassBuilds ==
  /\ Starts /\ item.build # None /\ GetAgentWorker(None, FALSE)
  /\ forWorker' = TRUE /\ building' = TRUE
  /\ jobs' = jobs \cup {Job("worker", item.build, FALSE)}
  /\ UNCHANGED <<tree, branch, item, builds, run, agent, kept, idle, ghosts, bounds>>

PassSends ==
  /\ Starts /\ folder /\ GetAgentWorker(item.build, IsUnbuilt)
  /\ item' = NoItem /\ agent' = "starting" /\ agentDir' = TRUE
  /\ jobs' = jobs \cup {Job("remote", None, FALSE)} /\ Used
  /\ UNCHANGED <<folder, repo, tooling, made, branch, builds, building, forWorker, run, kept,
                 ghosts, bounds>>

(* Here, in the bare folder when the bundle is not built.                   *)
PassStarts ==
  /\ Starts /\ (folder \/ item.build # None)
  /\ folder' = TRUE /\ agentDir' = TRUE
  /\ builds' = (IF item.build = None THEN builds ELSE item.build)
  /\ item' = NoItem /\ agent' = "starting"
  /\ jobs' = jobs \cup {Job("spawn", None, FALSE)} /\ Used
  /\ UNCHANGED <<repo, tooling, made, branch, building, forWorker, run, kept, ghosts, bounds>>

-----------------------------------------------------------------------------
(* The agent, and those who commit in the bundle.                           *)

(* build_bundle: under the disk floor the session is queued with its build  *)
(* and ends; else the checks, then a job.                                   *)
AgentBuilds ==
  /\ agent = "here" /\ builds # None
  /\ \/ /\ ~item.on
        /\ item' = NewItem(builds, TRUE, FALSE, FALSE)
        /\ UNCHANGED jobs
     \/ /\ CheckUnpushed
        /\ ~Of({"build"})
        /\ jobs' = jobs \cup {Job("build", builds, FALSE)}
        /\ UNCHANGED item
  /\ Ask
  /\ UNCHANGED <<tree, branch, builds, building, forWorker, run, agent, kept, idle, ghosts>>

AgentEnds ==
  /\ agent \in {"here", "worker"}
  /\ agent' = None /\ Used
  /\ UNCHANGED <<tree, branch, state, line, kept, ghosts, bounds>>

(* In the container of its agent, or in the window of a made bundle.        *)
Commits(r) ==
  /\ repo[r] = "there" /\ (made \/ agent = "here") /\ commits < MaxCommits
  /\ work' = work \cup {r} /\ commits' = commits + 1 /\ Used
  /\ UNCHANGED <<tree, remote, lost, state, line, agent, kept, ghosts, asks, faults>>

Pushes ==
  /\ work # {}
  /\ work' = {} /\ remote' = remote \cup work
  /\ UNCHANGED <<tree, lost, state, line, agent, kept, idle, ghosts, bounds>>

(* Days pass: no job waits that long.                                       *)
TimePasses ==
  /\ agent = None /\ jobs = {} /\ ~Running /\ ~idle /\ folder
  /\ idle' = TRUE
  /\ UNCHANGED <<tree, branch, state, line, agent, kept, ghosts, bounds>>

-----------------------------------------------------------------------------
(* The jobs: one at a time under the lock of the bundle, which grants it to *)
(* any that waits.                                                          *)

Builders == {"ask", "build", "worker"}

Begins(j) ==
  /\ ~Running /\ j \in jobs
  /\ jobs' = jobs \ {j}

RunsScript(j) ==
  /\ Begins(j) /\ j.kind \in Builders
  /\ run' = [job |-> j, phase |-> "folder", todo |-> Repos]
  /\ building' = (building \/ j.kind = "build")
  /\ again' = (again \/ made)
  /\ UNCHANGED <<crossed, tree, branch, item, builds, forWorker, agent, kept, idle, bounds>>

(* open_terminal.                                                           *)
RunsSpawn(j) ==
  /\ Begins(j) /\ j.kind = "spawn"
  /\ agent' = "here" /\ Used
  /\ UNCHANGED <<tree, branch, state, run, kept, ghosts, bounds>>

(* The terminal that was asked: its folder may be gone, another may be      *)
(* open, and the checks were made before the job waited.                    *)
RunsTerminal(j) ==
  /\ Begins(j) /\ j.kind = "terminal"
  /\ IF folder /\ agent = None
       THEN agent' = "here" /\ agentDir' = TRUE /\ Used
       ELSE UNCHANGED <<agent, agentDir, idle>>
  /\ UNCHANGED <<folder, repo, tooling, made, branch, state, run, kept, ghosts, bounds>>

(* start_remote, and queue_here when it fails.                              *)
RunsRemote(j) ==
  /\ Begins(j) /\ j.kind = "remote"
  /\ \/ agent' = "worker" /\ UNCHANGED item
     \/ agent' = None /\ ~item.on /\ item' = NewItem(None, TRUE, FALSE, TRUE)
  /\ UNCHANGED <<tree, branch, builds, building, forWorker, run, kept, idle, ghosts, bounds>>

RunsReopen(j) ==
  /\ Begins(j) /\ j.kind = "reopen"
  /\ \/ folder /\ UNCHANGED <<folder, agentDir, builds, agent>>
     \/ /\ ~folder
        /\ folder' = TRUE /\ agentDir' = TRUE /\ builds' = "fetch" /\ agent' = "here"
  /\ Used
  /\ UNCHANGED <<repo, tooling, made, branch, item, building, forWorker, run, kept, ghosts, bounds>>

-----------------------------------------------------------------------------
(* The script: run_script of a builder.                                     *)

At(phase) == Running /\ run.job.kind \in Builders /\ run.phase = phase
Goes(phase) == run' = [run EXCEPT !.phase = phase]
SameState == UNCHANGED <<item, builds, building, forWorker, jobs, agent, kept, idle, bounds>>

PreparesFolder ==
  /\ At("folder") /\ Goes("repos") /\ folder' = TRUE
  /\ UNCHANGED <<agentDir, repo, tooling, made, branch, ghosts>> /\ SameState

(* add_worktree: -B of the branch of the bundle, which a create makes, and  *)
(* a fetch where the dev remote has one.  A checkout that was cut goes      *)
(* first.                                                                   *)
Resets(r) == run.job.script = "create" \/ r \in remote

AddsWorktree(r) ==
  /\ At("repos") /\ r \in run.todo
  /\ repo' = [repo EXCEPT ![r] = "there"]
  /\ run' = [run EXCEPT !.todo = @ \ {r}]
  /\ IF Resets(r) /\ r \in work
       THEN /\ work' = work \ {r}
            /\ lost' = lost \cup {<<run.job.kind, r \in run.job.seen>>}
       ELSE UNCHANGED <<work, lost>>
  /\ UNCHANGED <<folder, agentDir, tooling, made, remote, ghosts>> /\ SameState

ClearsTooling ==
  /\ At("repos") /\ run.todo = {} /\ Goes("tooling") /\ tooling' = FALSE
  /\ UNCHANGED <<folder, agentDir, repo, made, branch, ghosts>> /\ SameState

(* _install_js_tooling, then finish_worktree_bundle_folder's mark; the      *)
(* mutant marks first.                                                      *)
MarksEarly ==
  /\ At("tooling") /\ Goes("end") /\ made' = TRUE
  /\ UNCHANGED <<folder, agentDir, repo, tooling, branch, ghosts>> /\ SameState
AddsTooling ==
  /\ At("tooling") /\ Goes("mark") /\ tooling' = TRUE
  /\ UNCHANGED <<folder, agentDir, repo, made, branch, ghosts>> /\ SameState
Marks ==
  /\ At("mark") /\ Goes("end") /\ made' = TRUE
  /\ UNCHANGED <<folder, agentDir, repo, tooling, branch, ghosts>> /\ SameState

(* What the job does after its script.  build_for_worker: its task goes     *)
(* without its build, or keeps it and starts here; the mutant drops it in   *)
(* both cases.                                                              *)
ItemAfterAny(done) ==
  IF run.job.kind = "worker" /\ item.on THEN [item EXCEPT !.build = None] ELSE item
ItemAfter(done) ==
  IF run.job.kind = "worker" /\ item.on /\ item.build # None
  THEN IF done THEN [item EXCEPT !.build = None] ELSE [item EXCEPT !.local = TRUE]
  ELSE item
(* building_for_worker: the mutant discards it only after a success.        *)
FreesNever(done) == (run.job.kind # "worker" \/ ~done) /\ forWorker
Frees(done) == run.job.kind # "worker" /\ forWorker

EndsScript(done) ==
  /\ run' = NoRun
  /\ item' = ItemAfter(done)
  /\ builds' = (IF done /\ run.job.kind = "build" THEN None ELSE builds)
  /\ building' = (run.job.kind = "ask" /\ building)
  /\ forWorker' = Frees(done)
  /\ UNCHANGED <<tree, branch, jobs, agent, kept, idle, ghosts>>

ScriptDone == At("end") /\ EndsScript(TRUE) /\ UNCHANGED bounds
ScriptFails ==
  /\ Running /\ run.job.kind \in Builders /\ run.phase # "end"
  /\ faults < MaxFaults /\ faults' = faults + 1
  /\ EndsScript(FALSE) /\ UNCHANGED <<asks, commits>>

-----------------------------------------------------------------------------
(* drop_idle_reviews, for the checkout nobody uses.                         *)

DropsIdle ==
  /\ idle /\ folder /\ (IsBare \/ made) /\ agent # "worker"
  /\ ~item.on \/ (IsParked(item) /\ ~IsBare)
  /\ ~building /\ ~Of({"delete"})
  /\ jobs' = jobs \cup {Job("delete", None, IsParked(item))}
  /\ UNCHANGED <<tree, branch, state, run, agent, kept, idle, ghosts, bounds>>

(* set_rebuild: the parked session goes on bare.                            *)
RunsDeletion(j) ==
  /\ Begins(j) /\ j.kind = "delete"
  /\ \/ /\ ~idle \/ (j.parked /\ ~IsParked(item)) \/ ~(IsBare \/ made)
        /\ UNCHANGED <<run, item>>
     \/ /\ idle /\ (IsBare \/ made) /\ (j.parked => IsParked(item))
        /\ run' = [job |-> j, phase |-> "delete", todo |-> {}]
        /\ item' = IF j.parked THEN [item EXCEPT !.build = "fetch"] ELSE item
  /\ UNCHANGED <<tree, branch, builds, building, forWorker, agent, kept, idle, ghosts, bounds>>

Deletes ==
  /\ Running /\ run.phase = "delete" /\ run' = NoRun
  /\ \/ /\ work = {}
        /\ folder' = FALSE /\ agentDir' = FALSE /\ repo' = [r \in Repos |-> None]
        /\ tooling' = FALSE /\ made' = FALSE /\ kept' = (kept \/ agentDir)
        /\ builds' = (IF IsBare THEN None ELSE builds)
        /\ crossed' = (crossed \/ (item.on /\ item.build = None) \/ Of({"terminal"}))
        /\ UNCHANGED item
     \/ /\ work # {}
        /\ item' = IF run.job.parked THEN [item EXCEPT !.build = None] ELSE item
        /\ UNCHANGED <<tree, kept, builds, crossed>>
  /\ UNCHANGED <<branch, building, forWorker, jobs, agent, idle, again, bounds>>

-----------------------------------------------------------------------------
(* main: the jobs died with their scripts, `building` is emptied.  The task *)
(* of an agent whose start was lost is queued again.                        *)
BuildingStays == building
BuildingAfter == FALSE

Restart ==
  /\ faults < MaxFaults /\ faults' = faults + 1
  /\ jobs' = {} /\ run' = NoRun
  /\ \E cut \in SUBSET (IF At("repos") THEN run.todo ELSE {}) :
       repo' = [r \in Repos |-> IF r \in cut /\ repo[r] = None THEN "cut" ELSE repo[r]]
  /\ building' = BuildingAfter /\ forWorker' = FALSE
  /\ agent' = (IF agent = "starting" THEN None ELSE agent)
  /\ item' = IF agent = "starting" /\ ~item.on
             THEN NewItem(None, TRUE, FALSE, Of({"remote"})) ELSE item
  /\ UNCHANGED <<folder, agentDir, tooling, made, branch, builds, kept, idle, ghosts, asks, commits>>

Pass == PassDrops \/ PassBuilds \/ PassSends \/ PassStarts
Runs == \E j \in jobs :
  RunsScript(j) \/ RunsSpawn(j) \/ RunsTerminal(j) \/ RunsRemote(j) \/ RunsReopen(j) \/ RunsDeletion(j)
Script ==
  \/ PreparesFolder \/ \E r \in Repos : AddsWorktree(r)
  \/ ClearsTooling \/ AddsTooling \/ Marks \/ ScriptDone
OthersAct ==
  \/ \E script \in Scripts : AsksBundle(script) \/ AsksTask(script)
  \/ QueuesTask \/ OpensTerminal \/ Reopens \/ Parks \/ Resumes \/ Unqueues
  \/ AgentBuilds \/ (\E r \in Repos : Commits(r)) \/ Pushes \/ TimePasses
  \/ DropsIdle \/ ScriptFails \/ Restart

Next == Pass \/ Runs \/ Script \/ Deletes \/ AgentEnds \/ OthersAct

(* Threads run the jobs, the queue is passed again and again, and a turn    *)
(* ends.                                                                    *)
Spec ==
  /\ Init /\ [][Next]_vars
  /\ WF_vars(Pass) /\ WF_vars(Runs) /\ WF_vars(Script) /\ WF_vars(Deletes) /\ WF_vars(AgentEnds)

-----------------------------------------------------------------------------
(* What README.md:96 of bundle-ctl says of a create, a fetch and a build:   *)
(* no script resets a commit no remote has, made before the script was      *)
(* asked.  Not so: build_for_worker checks nothing, and its task may have   *)
(* been queued, or queued again, before the commit.                         *)
WorkKeptAlways == \A l \in lost : ~l[2]

(* It holds of the others, however long the job waited for the bundle and   *)
(* whatever ran before it: what they reset was committed meanwhile.         *)
WorkKept == \A l \in lost : l[1] # "worker" => ~l[2]

(* A bundle with the mark has all its worktrees and the tooling, wherever a *)
(* script was cut or failed, unless a script ran again on a bundle made     *)
(* while it waited, which clears the tooling first.                         *)
MadeWhole == made /\ ~again => tooling /\ \A r \in Repos : repo[r] = "there"

(* An agent here in a folder without its bundle can build it: state.json    *)
(* has its script, whatever deletion, failed build or restart came between  *)
(* its task and its start.                                                  *)
AgentCanBuild == agent = "here" /\ ~made /\ ~crossed => builds # None

(* No agent starts on a worker before its bundle is made: a worker makes    *)
(* none.                                                                    *)
WorkerGetsMade == agent = "worker" /\ ~crossed => made

(* A bundle state.json says is being built has a job that builds it: else   *)
(* no idle deletion takes it any more.                                      *)
BuildingRight == building => Of({"build", "worker"})

(* A task queued with its build goes on: it starts, its bundle is made, or  *)
(* someone parks it or takes it back.  Threads run the jobs (the lock of    *)
(* the bundle goes round), passes come again and turns end.                 *)
TaskStarts == []<>(~item.on \/ item.build = None \/ item.parked)

(* Who finds a bundle made, or not made, is right, whatever came between.   *)
MadeRight == MadeWhole /\ AgentCanBuild /\ WorkerGetsMade /\ BuildingRight
=============================================================================
