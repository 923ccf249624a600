---------------------------- MODULE WorkerPlaces ----------------------------
(***************************************************************************)
(* The places for agents on one remote worker (bundle-ctl/workers.py): the *)
(* daemon reads the status of the worker every POLL seconds, sends it an   *)
(* agent when the status shows a place the agents on their way leave free, *)
(* and counts each of those until a status asked after its start ended     *)
(* shows it.  The same status tells whether an agent that started there is *)
(* gone (lists_agent, is_gone of daemon.py).                               *)
(*                                                                         *)
(* The worker itself is another repository: it admits an agent while it    *)
(* has a place, answers with what it runs at that moment, and agents end.  *)
(* A place stands for both counts of a status, `agents_free` and the whole *)
(* AGENT_GIGABYTES of `gigabytes_free`: get_agent_wait compares the two    *)
(* with the number sent in the same way, so the smaller one decides.  A    *)
(* link that is down, a drained or a leaving worker only keep the daemon   *)
(* from asking or sending, which no step here forces it to do.             *)
(*                                                                         *)
(* Clock: time.time(), so that two events may fall on the same reading.    *)
(***************************************************************************)
EXTENDS Integers, FiniteSets

CONSTANTS
  Bundles,
  Places,      (* agents the worker runs at once                            *)
  Fresh,       (* FRESH: how long an answer counts                          *)
  MaxClock,    (* bound: readings of the clock                              *)
  MaxRestarts  (* bound: restarts of the daemon                             *)

ASSUME ConstantsAssumption ==
  /\ IsFiniteSet(Bundles)
  /\ Places \in Nat /\ Fresh \in Nat /\ MaxClock \in Nat /\ MaxRestarts \in Nat

VARIABLES
  clock,
  status,    (* Workers.status: the last answer, `seen` is when it was asked *)
  poll,      (* the question on its way: "none", "asked", "answered"        *)
  sending,   (* the bundles of Workers.sent at infinity                     *)
  ended,     (* Workers.sent of the others: when the start ended, or Absent *)
  start,     (* the start_remote job of a bundle                            *)
  started,   (* remote.json: the time the agent started there, or Absent    *)
  onWorker,  (* the agents the worker runs                                  *)
  restarts

vars == <<clock, status, poll, sending, ended, start, started, onWorker, restarts>>
workerVars == <<clock, status, poll, sending, ended, restarts>>

Absent == -1
Starts == {"idle", "going", "landed", "written", "refused"}

(* No answer yet reads as one asked at 0, long before the clock begins.     *)
NoStatus == [seen |-> 0, free |-> 0, agents |-> {}]
NoPoll   == [state |-> "none", asked |-> 0, free |-> 0, agents |-> {}]

(* Mutant of Counted: a start that ended when the status was asked shows.   *)
CountedStrictly(at) == sending \cup {b \in Bundles : ended[b] > at}

(* The bundles a status asked at `at` may not show: the ones get_agent_wait *)
(* leaves in `sent`.                                                        *)
Counted(at) == sending \cup {b \in Bundles : ended[b] >= at}

IsFresh == clock - status.seen <= Fresh

(* get_agent_wait finds nothing to wait for.                                *)
HasPlace == IsFresh /\ status.free > Cardinality(Counted(status.seen))

(* Mutant of Missing: an answer asked before the start counts too.          *)
MissingEver(b) == started[b] # Absent /\ IsFresh /\ b \notin status.agents

(* lists_agent answers False for the remote agent of b: not listed in a     *)
(* fresh answer asked after its start.                                      *)
Missing(b) ==
  /\ started[b] # Absent
  /\ IsFresh /\ status.seen > started[b]
  /\ b \notin status.agents

-----------------------------------------------------------------------------
Init ==
  /\ clock = Fresh + 1
  /\ status = NoStatus /\ poll = NoPoll
  /\ sending = {} /\ ended = [b \in Bundles |-> Absent]
  /\ start = [b \in Bundles |-> "idle"]
  /\ started = [b \in Bundles |-> Absent]
  /\ onWorker = {}
  /\ restarts = 0

Tick ==
  /\ clock < Fresh + MaxClock
  /\ clock' = clock + 1
  /\ UNCHANGED <<status, poll, sending, ended, start, started, onWorker, restarts>>

(* poll: the time of the question is taken before the ssh starts.           *)
Ask ==
  /\ poll.state = "none"
  /\ poll' = [NoPoll EXCEPT !.state = "asked", !.asked = clock]
  /\ UNCHANGED <<clock, status, sending, ended, start, started, onWorker, restarts>>

(* The worker answers with what it holds then.                              *)
WorkerAnswers ==
  /\ poll.state = "asked"
  /\ poll' = [poll EXCEPT !.state  = "answered",
                          !.free   = Places - Cardinality(onWorker),
                          !.agents = onWorker]
  /\ UNCHANGED <<clock, status, sending, ended, start, started, onWorker, restarts>>

Receive ==
  /\ poll.state = "answered"
  /\ status' = [seen |-> poll.asked, free |-> poll.free, agents |-> poll.agents]
  /\ poll' = NoPoll
  /\ UNCHANGED <<clock, sending, ended, start, started, onWorker, restarts>>

(* read_answer times out, or what it read is no status: the old one stays.  *)
NoAnswer ==
  /\ poll.state # "none"
  /\ poll' = NoPoll
  /\ UNCHANGED <<clock, status, sending, ended, start, started, onWorker, restarts>>

(* launch_queued finds a place for the agent of b (get_agent_worker), which *)
(* drops what the status shows from `sent`, and starts its job.  An agent   *)
(* that runs there, an orphan included, is not sent again.                  *)
Send(b) ==
  /\ start[b] = "idle" /\ started[b] = Absent /\ b \notin onWorker
  /\ HasPlace
  /\ sending' = sending \cup {b}
  /\ ended' = [d \in Bundles |-> IF d # b /\ d \in Counted(status.seen) THEN ended[d]
                                 ELSE Absent]
  /\ start' = [start EXCEPT ![b] = "going"]
  /\ UNCHANGED <<clock, status, poll, started, onWorker, restarts>>

(* The worker takes the order of the job, or refuses it with no place.      *)
WorkerDecides(b) ==
  /\ start[b] = "going"
  /\ IF Cardinality(onWorker) < Places
     THEN /\ start' = [start EXCEPT ![b] = "landed"]
          /\ onWorker' = onWorker \cup {b}
     ELSE /\ start' = [start EXCEPT ![b] = "refused"]
          /\ UNCHANGED onWorker
  /\ UNCHANGED <<workerVars, started>>

(* remote_agent.start writes remote.json once the worker gave a job.        *)
Writes(b) ==
  /\ start[b] = "landed"
  /\ start' = [start EXCEPT ![b] = "written"]
  /\ started' = [started EXCEPT ![b] = clock]
  /\ UNCHANGED <<workerVars, onWorker>>

EndSend(b) ==
  /\ sending' = sending \ {b}
  /\ ended' = [ended EXCEPT ![b] = clock]

(* The job ends: on success, on the refusal, or on any other failure, which *)
(* tries to cancel the job the worker gave.  The last two queue the task    *)
(* here (queue_here).                                                       *)
StartEnds(b) ==
  /\ start[b] \in {"written", "refused"}
  /\ start' = [start EXCEPT ![b] = "idle"]
  /\ EndSend(b)
  /\ UNCHANGED <<clock, status, poll, started, onWorker, restarts>>

StartFails(b) ==
  /\ start[b] \in {"going", "landed"}
  /\ start' = [start EXCEPT ![b] = "idle"]
  /\ onWorker' \in {onWorker, onWorker \ {b}}
  /\ EndSend(b)
  /\ UNCHANGED <<clock, status, poll, started, restarts>>

AgentEnds(b) ==
  /\ b \in onWorker
  /\ onWorker' = onWorker \ {b}
  /\ UNCHANGED <<workerVars, start, started>>

(* remote_agent.finish: the end of the agent came here, or keep_remote_agents *)
(* takes it for lost as its worker misses it.                               *)
Finish(b) ==
  /\ started[b] # Absent /\ start[b] = "idle"
  /\ b \notin onWorker \/ Missing(b)
  /\ started' = [started EXCEPT ![b] = Absent]
  /\ UNCHANGED <<workerVars, start, onWorker>>

(* The daemon restarts: what it read and sent goes, with the jobs, of which *)
(* some have an agent on the worker that no remote.json names.              *)
Restart ==
  /\ restarts < MaxRestarts
  /\ restarts' = restarts + 1
  /\ status' = NoStatus /\ poll' = NoPoll
  /\ sending' = {} /\ ended' = [b \in Bundles |-> Absent]
  /\ start' = [b \in Bundles |-> "idle"]
  /\ UNCHANGED <<clock, started, onWorker>>

Next ==
  \/ Tick \/ Ask \/ WorkerAnswers \/ Receive \/ NoAnswer \/ Restart
  \/ \E b \in Bundles :
       \/ Send(b) \/ WorkerDecides(b) \/ Writes(b) \/ StartEnds(b) \/ StartFails(b)
       \/ AgentEnds(b) \/ Finish(b)

Spec == Init /\ [][Next]_vars

-----------------------------------------------------------------------------
(* The account, the question and the jobs have their type; no end of a      *)
(* start lies in the future.                                                *)
TypeOK ==
  /\ clock \in Nat /\ restarts \in Nat
  /\ status \in [seen : 0..clock, free : Int, agents : SUBSET Bundles]
  /\ poll \in [state : {"none", "asked", "answered"}, asked : 0..clock, free : Int,
               agents : SUBSET Bundles]
  /\ sending \subseteq Bundles
  /\ ended \in [Bundles -> {Absent} \cup 0..clock]
  /\ start \in [Bundles -> Starts]
  /\ started \in [Bundles -> {Absent} \cup 0..clock]
  /\ onWorker \subseteq Bundles

(* "8 agents sent to sebpc in one minute on one status, each refused"       *)
(* (send_agent): a start never finds the places of the worker taken,        *)
(* however the questions, the starts and their ends interleave.             *)
NoneRefused == \A b \in Bundles : start[b] # "refused"

(* An agent taken for gone (is_gone, "its job ended there and its end never *)
(* came here") does not run any more: else its task would run twice.        *)
MissingHasEnded == \A b \in Bundles : Missing(b) => b \notin onWorker
=============================================================================
