----------------------------- MODULE MCBundles ------------------------------
(* The folders of bundles, in three parts that share no state: a deletion   *)
(* (Deletion), the making of a bundle (Build) and the store of              *)
(* node_modules (NodeModules). A behaviour is of one `part`.                *)
EXTENDS Deletion

CONSTANTS
  Nothing,
  Repos, MaxBuildAsks, MaxBuildCommits, MaxBuildFaults,              (* of Build       *)
  Bases, Packages, Bundles, First, MaxNpmCommits, MaxNpmFaults       (* of NodeModules *)

ASSUME PackagesAssumption == First \in Packages /\ Nothing \notin Packages

VARIABLES
  part,
  folder, agentDir, repo, tooling, made, buildWork, buildRemote, buildItem,
  builds, building, forWorker, agent, buildKept, buildIdle, buildJobs, run,
  buildLost, again, crossed, buildAsks, buildCommits, buildFaults,
  github, ref, heads, store, npmJobs, npm, card, own, link, npmCommits,
  npmFaults, failed

B == INSTANCE Build WITH
  MaxAsks <- MaxBuildAsks, MaxCommits <- MaxBuildCommits,
  MaxFaults <- MaxBuildFaults, work <- buildWork, remote <- buildRemote,
  item <- buildItem, kept <- buildKept, idle <- buildIdle, jobs <- buildJobs,
  lost <- buildLost, asks <- buildAsks, commits <- buildCommits,
  faults <- buildFaults
N == INSTANCE NodeModules WITH
  MaxCommits <- MaxNpmCommits, MaxFaults <- MaxNpmFaults, jobs <- npmJobs,
  commits <- npmCommits, faults <- npmFaults

buildVars == <<folder, agentDir, repo, tooling, made, buildWork, buildRemote, buildItem,
  builds, building, forWorker, agent, buildKept, buildIdle, buildJobs, run,
  buildLost, again, crossed, buildAsks, buildCommits, buildFaults>>
npmVars == <<github, ref, heads, store, npmJobs, npm, card, own, link, npmCommits,
  npmFaults, failed>>
all == <<part, vars, buildVars, npmVars>>

MCInit ==
  /\ part \in {"deletion", "build", "npm"}
  /\ Init /\ B!Init /\ N!Init
  /\ part # "deletion" => local = {} /\ ~session
  /\ part # "build" => buildRemote = {}

(* A step of one part leaves the others alone.                              *)
DeletionStep(A) == part = "deletion" /\ A /\ UNCHANGED <<part, buildVars, npmVars>>
BuildStep(A) == part = "build" /\ A /\ UNCHANGED <<part, vars, npmVars>>
NpmStep(A) == part = "npm" /\ A /\ UNCHANGED <<part, vars, buildVars>>

MCNext ==
  \/ DeletionStep(Next)
  \/ BuildStep(B!Next)
  \/ NpmStep(N!Next)

(* What is fair in the parts, of which one alone moves.                     *)
MCFairness ==
  /\ WF_vars(part = "deletion" /\ EndTurn)
  /\ WF_vars(part = "deletion" /\ CloseDeleted)
  /\ WF_vars(part = "deletion" /\ DeleteStopped)
  /\ WF_buildVars(part = "build" /\ B!Pass)
  /\ WF_buildVars(part = "build" /\ B!Runs)
  /\ WF_buildVars(part = "build" /\ B!Script)
  /\ WF_buildVars(part = "build" /\ B!Deletes)
  /\ WF_buildVars(part = "build" /\ B!AgentEnds)
  /\ \A b \in Bases : WF_npmVars(part = "npm" /\ N!Look(b))
  /\ \A b \in Bases : WF_npmVars(part = "npm" /\ N!Fetch(b))
  /\ WF_npmVars(part = "npm" /\ N!NpmEnds)
  /\ WF_npmVars(part = "npm" /\ N!JobBegins)

MCSpec == MCInit /\ [][MCNext]_all /\ MCFairness

(* No create or fetch resets a commit no remote has, made before it was     *)
(* asked (check_unpushed).                                                  *)
WorkKept == B!WorkKept

(* Who finds a bundle made, or not made, is right, whatever came between    *)
(* (is_made, set_rebuild).                                                  *)
MadeRight == B!MadeRight

(* A task queued with its build goes on (build_for_worker,                  *)
(* launch_queued).                                                          *)
TaskStarts == B!TaskStarts

(* What is built and linked comes from the package.json that was vouched    *)
(* for (read_github_package).                                               *)
StoreSafe == N!StoreSafe

(* The tree of the package.json of a base comes by itself                   *)
(* (build_node_modules).                                                    *)
TreeComes == part = "npm" => N!TreeComes
=============================================================================
