------------------------------ MODULE RunQueue ------------------------------
(***************************************************************************)
(* The run queue of the bundle-ctl daemon (bundle-ctl/runs.py): a heavy    *)
(* command of a container waits for cores of its own and for memory, keeps *)
(* the cores until its process ends, and lends them after an hour.  The    *)
(* module also holds the two ends of `POST /run`: the handler thread that  *)
(* serves one request and the `bctl run` process that made it              *)
(* (bundle-ctl/client/bctl.py), so that a client that goes away, a daemon  *)
(* that crashes and a daemon that starts again on its runs.json are steps. *)
(*                                                                         *)
(* A client is one process that may own a run: with `bctl run -- COMMAND`  *)
(* the client itself, which becomes COMMAND; with `bctl run` alone         *)
(* (Shell[c]) the shell that called it, which outlives that call.  The     *)
(* identity of a process is its pid and its birth (RunQueue.is_alive), so  *)
(* no two clients share one.                                               *)
(*                                                                         *)
(* Clocks: a run is "ramping" for RAMP seconds, "holding" until HOLD, then *)
(* "lent"; TimePasses moves each run on by itself, which has every order   *)
(* of the real clock among its behaviours.                                 *)
(***************************************************************************)
EXTENDS Integers, FiniteSets, FiniteSetsExt

CONSTANTS
  Clients,      (* processes that ask for a run                             *)
  Cores,        (* the pool: get_pool(read_cores())                         *)
  Kind,         (* [Clients -> KINDS]                                       *)
  Workers,      (* [Clients -> Nat], the workers of a hoot run              *)
  Bundle,       (* the bundle of each client, named by the kernel           *)
  Key,          (* (bundle, kind, label), what a ticket is filed under      *)
  Outer,        (* the client whose command started this one, or NoClient   *)
  Shell,        (* [Clients -> BOOLEAN], `bctl run` with no command         *)
  NoClient,
  MaxWaiting,   (* MAX_WAITING                                              *)
  Memory,       (* tenths of a GB free for runs when nothing else takes any *)
  MaxStamp,     (* bound: arrivals                                          *)
  MaxCrashes,   (* bound: crashes of the daemon                             *)
  HostMoves     (* bound: whether the memory of the host ever gets tight    *)

Ages   == {"ramping", "holding", "lent"}
Stages == {"new", "asking", "dropped", "retrying", "pinned", "nested", "free", "gone"}

(* The cores a run holds and the memory it is expected to take, in tenths   *)
(* of a GB (get_need).                                                      *)
GetNeed(kind, workers) ==
  CASE kind = "hoot"               -> [cores |-> IF workers < 2 THEN workers ELSE 2,
                                       memory |-> 10 + 13 * workers]
    [] kind \in {"server", "shell"} -> [cores |-> 0, memory |-> 6]
    [] kind = "odoo"               -> [cores |-> 1, memory |-> 20]
    [] OTHER                       -> [cores |-> 1, memory |-> 10]

Need(c) ==
  LET wanted == GetNeed(Kind[c], Workers[c]).cores
  IN  IF wanted < Cardinality(Cores) THEN wanted ELSE Cardinality(Cores)

Gigabytes(c) == GetNeed(Kind[c], Workers[c]).memory

ASSUME ConstantsAssumption ==
  /\ IsFiniteSet(Clients) /\ IsFiniteSet(Cores) /\ Cores # {}
  /\ Kind \in [Clients -> {"hoot", "odoo", "other", "server", "shell"}]
  /\ Workers \in [Clients -> Nat \ {0}]
  /\ Outer \in [Clients -> Clients \cup {NoClient}]
  /\ NoClient \notin Clients
  /\ Shell \in [Clients -> BOOLEAN]
  /\ DOMAIN Key = Clients /\ DOMAIN Bundle = Clients
  /\ MaxWaiting \in Nat /\ Memory \in Nat /\ MaxStamp \in Nat /\ MaxCrashes \in Nat
  /\ HostMoves \in BOOLEAN

Keys == {Key[c] : c \in Clients}

VARIABLES
  up,       (* the daemon runs                                              *)
  running,  (* RunQueue.running: the clients whose run started              *)
  waiting,  (* RunQueue.waiting                                             *)
  tickets,  (* RunQueue.tickets: Keys -> arrival kept for a return, 0: none *)
  saved,    (* runs.json: the runs of the last save                         *)
  queued,   (* the "queued" field of the run of a client                    *)
  cpus,     (* the "cpus" field of the run of a client                      *)
  age,      (* what "started" says of the run of a client                   *)
  stage,    (* where the client and the handler of its request are          *)
  alive,    (* the processes that live                                      *)
  pinned,   (* the cores sched_setaffinity gave the process                 *)
  stamp,    (* the last arrival time given                                  *)
  tight,    (* the host stalls or has less memory than its runs explain     *)
  crashes   (* crashes so far                                               *)

queueVars == <<running, waiting, saved, cpus, age>>
vars == <<up, running, waiting, tickets, saved, queued, cpus, age, stage, alive,
          pinned, stamp, tight, crashes>>

-----------------------------------------------------------------------------
(* Reads of the queue                                                       *)

(* Mutants of Holders: the age compared with RAMP, and no HOLD at all.      *)
HoldersForRamp(R) == {c \in R : Need(c) > 0 /\ age[c] = "ramping"}
HoldersForEver(R) == {c \in R : Need(c) > 0}

(* The runs of R that keep their cores to themselves (holds_cores).         *)
Holders(R) == {c \in R : Need(c) > 0 /\ age[c] # "lent"}

(* Mutant of FreeCores: the cores of a run whose answer is on its way.      *)
FreeCoresAnswered(R) == Cores \ UNION {cpus[c] : c \in {d \in Holders(R) : stage[d] = "pinned"}}

FreeCores(R) == Cores \ UNION {cpus[c] : c \in Holders(R)}

SumMemory(S) == MapThenSumSet(Gigabytes, S)

(* Mutant of HasMemory: what the host shows, without the ramping runs.      *)
HasShownMemory(R, before, c) ==
  \/ Holders(R) = {} /\ \A d \in before : Need(d) = 0
  \/ ~tight /\ Memory - SumMemory({d \in R : age[d] # "ramping"}) >= Gigabytes(c)

(* What get_blocker reads of the memory for c, once the runs of `before`    *)
(* started in the same pass: runs past RAMP show in what the host has left, *)
(* the ones started since are counted at what get_need says.                *)
HasMemory(R, before, c) ==
  LET settled == {d \in R : age[d] # "ramping"}
      ramping == {d \in R : age[d] = "ramping"} \cup before
      left    == Memory - SumMemory(settled)
  IN  \/ Holders(R) = {} /\ \A d \in before : Need(d) = 0
      \/ ~tight /\ left - SumMemory(ramping) >= Gigabytes(c)

(* Mutant of Before: a queue of its own for each bundle.                    *)
BeforeInBundle(W, q, c) == {d \in W : q[d] < q[c] /\ Bundle[d] = Bundle[c]}

(* The runs of W that arrived before c, the order of RunQueue.waiting.      *)
Before(W, q, c) == {d \in W : q[d] < q[c]}

(* One pass of admit over the waiting runs W in arrival order q, after the  *)
(* runs R: the runs that take cores start as a prefix of that order, each   *)
(* on free cores of its own, up to the first that lacks cores or memory;    *)
(* the ones that take none start at once on the whole pool.  `ended` says   *)
(* that reap removed a run, which saves as a start does.  The fields of a   *)
(* run that is nowhere any more go with it.                                 *)
Admit(R, W, q, ended) ==
  LET core       == {c \in W : Need(c) > 0}
      Earlier(c) == Before(W, q, c) \cap core
  IN  \E started \in SUBSET core : \E given \in [started -> SUBSET FreeCores(R)] :
        /\ \A c \in started :
             /\ Earlier(c) \subseteq started
             /\ Cardinality(given[c]) = Need(c)
             /\ \A d \in started \ {c} : given[c] \cap given[d] = {}
             /\ HasMemory(R, Before(W, q, c), c)
        /\ \A c \in core \ started :
             Earlier(c) \subseteq started =>
               \/ Cardinality(FreeCores(R) \ UNION {given[d] : d \in started}) < Need(c)
               \/ ~HasMemory(R, Before(W, q, c), c)
        /\ LET new == started \cup (W \ core)
           IN  /\ running' = R \cup new
               /\ waiting' = W \ new
               /\ cpus' = [c \in Clients |-> IF c \in started THEN given[c]
                                             ELSE IF c \in new THEN Cores
                                             ELSE IF c \in R THEN cpus[c] ELSE {}]
               /\ age' = [c \in Clients |-> IF c \in R \ new THEN age[c] ELSE "ramping"]
               /\ saved' = IF new # {} \/ ended THEN R \cup new ELSE saved

(* Mutant of FindHolder: a run that lends its cores is no holder.           *)
FindLendingHolder(c) ==
  IF c \in Holders(running) THEN c
  ELSE IF Outer[c] \in Holders(running) \cap alive THEN Outer[c]
  ELSE NoClient

(* find_holder: the run with cores whose process is c or the one that       *)
(* started it, found through live parents.                                  *)
FindHolder(c) ==
  LET byPid == {d \in running : Need(d) > 0}
  IN  IF c \in byPid THEN c
      ELSE IF Outer[c] \in byPid \cap alive THEN Outer[c]
      ELSE NoClient

-----------------------------------------------------------------------------
Init ==
  /\ up = TRUE
  /\ running = {} /\ waiting = {} /\ saved = {}
  /\ tickets = [k \in Keys |-> 0]
  /\ queued = [c \in Clients |-> 0]
  /\ cpus = [c \in Clients |-> {}]
  /\ age = [c \in Clients |-> "ramping"]
  /\ stage = [c \in Clients |-> "new"]
  /\ alive = Clients
  /\ pinned = [c \in Clients |-> {}]
  /\ stamp = 0
  /\ tight = FALSE
  /\ crashes = 0

(* A process asks once it runs: one that the command of another run starts  *)
(* waits for that run to start.                                             *)
Asks(c) ==
  /\ c \in alive /\ stage[c] \in {"new", "retrying"}
  /\ Outer[c] # NoClient => stage[Outer[c]] \in {"pinned", "nested", "free", "gone"}

(* RunQueue.request, when a run that holds cores started the caller (or is  *)
(* the caller, asking again): the same cores and no entry.                  *)
RequestNested(c) ==
  LET holder == FindHolder(c)
  IN  /\ up /\ Asks(c)
      /\ holder # NoClient
      /\ stage' = [stage EXCEPT ![c] = IF holder = c THEN "pinned" ELSE "nested"]
      /\ pinned' = [pinned EXCEPT ![c] = cpus[holder]]
      /\ UNCHANGED <<up, queueVars, tickets, queued, alive, stamp, tight, crashes>>

(* RunQueue.request, when the bundle has MAX_WAITING runs waiting: Full is  *)
(* a 429, on which bctl runs the command without the queue.                 *)
RequestFull(c) ==
  /\ up /\ Asks(c)
  /\ FindHolder(c) = NoClient
  /\ Cardinality({d \in waiting : Bundle[d] = Bundle[c]}) >= MaxWaiting
  /\ stage' = [stage EXCEPT ![c] = "free"]
  /\ UNCHANGED <<up, queueVars, tickets, queued, alive, pinned, stamp, tight, crashes>>

(* RunQueue.request otherwise: the run takes the place its ticket kept or   *)
(* the last one, and the queue is admitted again.                           *)
Request(c) ==
  LET kept  == tickets[Key[c]]
      place == IF kept # 0 THEN kept ELSE stamp + 1
      q     == [queued EXCEPT ![c] = place]
  IN  /\ up /\ Asks(c)
      /\ FindHolder(c) = NoClient
      /\ Cardinality({d \in waiting : Bundle[d] = Bundle[c]}) < MaxWaiting
      /\ kept # 0 \/ stamp < MaxStamp
      /\ stamp' = IF kept # 0 THEN stamp ELSE stamp + 1
      /\ tickets' = [tickets EXCEPT ![Key[c]] = 0]
      /\ queued' = q
      /\ stage' = [stage EXCEPT ![c] = "asking"]
      /\ Admit(running, waiting \cup {c}, q, FALSE)
      /\ UNCHANGED <<up, alive, pinned, tight, crashes>>

(* serve, once the run started: the handler sends the CPUs and the client   *)
(* pins the process of the run to them.                                     *)
Answer(c) ==
  /\ up /\ stage[c] = "asking" /\ c \notin waiting
  /\ stage' = [stage EXCEPT ![c] = "pinned"]
  /\ pinned' = [pinned EXCEPT ![c] = cpus[c]]
  /\ UNCHANGED <<up, queueVars, tickets, queued, alive, stamp, tight, crashes>>

(* leave: the place of a run whose client left is kept for a return.        *)
KeepPlace(c) == [tickets EXCEPT ![Key[c]] = queued[c]]

(* What becomes of a client whose connection ended with no answer: the      *)
(* shell may call `bctl run` again, a command is gone.                      *)
Left(c, live) == IF Shell[c] /\ c \in live THEN "new" ELSE "gone"

(* bctl is killed while it waits: its own process is the run, or it leaves  *)
(* a shell that is.  The handler has not noticed yet.                       *)
ClientDies(c) ==
  LET live == IF Shell[c] THEN alive ELSE alive \ {c}
  IN  /\ stage[c] \in {"asking", "retrying"}
      /\ alive' = live
      /\ stage' = [stage EXCEPT ![c] = IF @ = "asking" THEN "dropped" ELSE Left(c, live)]
      /\ UNCHANGED <<up, queueVars, tickets, queued, pinned, stamp, tight, crashes>>

(* serve finds the connection closed (has_left, or a write that fails) and  *)
(* leaves the queue: a run that still waits goes and its place is kept, one *)
(* that started meanwhile stays until its process ends.                     *)
HandlerLeaves(c) ==
  /\ up /\ stage[c] = "dropped"
  /\ stage' = [stage EXCEPT ![c] = Left(c, alive)]
  /\ IF c \in waiting
     THEN /\ tickets' = KeepPlace(c)
          /\ Admit(running, waiting \ {c}, queued, FALSE)
     ELSE UNCHANGED <<queueVars, tickets>>
  /\ UNCHANGED <<up, queued, alive, pinned, stamp, tight, crashes>>

(* RunQueue.reap, each second: the runs whose process ended give their      *)
(* cores back and the queue is admitted again.                              *)
Reap ==
  /\ up
  /\ Admit(running \cap alive, waiting, queued, ~(running \subseteq alive))
  /\ UNCHANGED <<up, tickets, queued, stage, alive, pinned, stamp, tight, crashes>>

-----------------------------------------------------------------------------
(* The processes, the clock and the host                                    *)

(* The process of a run ends, a shell whenever it likes.                    *)
RunEnds(c) ==
  /\ c \in alive
  /\ stage[c] \in {"pinned", "nested", "free"} \/ Shell[c]
  /\ alive' = alive \ {c}
  /\ stage' = [stage EXCEPT ![c] = IF @ \in {"asking", "dropped"} THEN @ ELSE "gone"]
  /\ pinned' = [pinned EXCEPT ![c] = {}]
  /\ UNCHANGED <<up, queueVars, tickets, queued, stamp, tight, crashes>>

(* A run passes RAMP, then HOLD, whether the daemon runs or not.            *)
TimePasses(c) ==
  /\ c \in running \cup saved /\ age[c] # "lent"
  /\ age' = [age EXCEPT ![c] = IF @ = "ramping" THEN "holding" ELSE "lent"]
  /\ UNCHANGED <<up, running, waiting, tickets, saved, queued, cpus, stage, alive,
                 pinned, stamp, tight, crashes>>

(* A ticket is older than TICKET: the next request drops it.                *)
TicketExpires(k) ==
  /\ tickets[k] # 0
  /\ tickets' = [tickets EXCEPT ![k] = 0]
  /\ UNCHANGED <<up, queueVars, queued, stage, alive, pinned, stamp, tight, crashes>>

(* What read_memory reads moves on its own: other processes, stalls.        *)
HostMemory ==
  /\ HostMoves
  /\ tight' = ~tight
  /\ UNCHANGED <<up, queueVars, tickets, queued, stage, alive, pinned, stamp, crashes>>

(* The daemon dies: the queue and its handlers go, runs.json stays.  A      *)
(* client that waits asks again (RUN_RETRY).                                *)
Crash ==
  /\ up /\ crashes < MaxCrashes
  /\ up' = FALSE
  /\ crashes' = crashes + 1
  /\ running' = {} /\ waiting' = {}
  /\ tickets' = [k \in Keys |-> 0]
  /\ stage' = [c \in Clients |-> IF stage[c] = "asking" THEN "retrying"
                                 ELSE IF stage[c] = "dropped" THEN Left(c, alive)
                                 ELSE stage[c]]
  /\ UNCHANGED <<saved, queued, cpus, age, alive, pinned, stamp, tight>>

(* Mutant of Restart: runs.json is not read.                                *)
RestartEmpty ==
  /\ ~up
  /\ up' = TRUE
  /\ running' = {}
  /\ UNCHANGED <<waiting, tickets, saved, queued, cpus, age, stage, alive, pinned,
                 stamp, tight, crashes>>

(* RunQueue.load: the runs of runs.json whose process still lives.          *)
Restart ==
  /\ ~up
  /\ up' = TRUE
  /\ running' = saved \cap alive
  /\ UNCHANGED <<waiting, tickets, saved, queued, cpus, age, stage, alive, pinned,
                 stamp, tight, crashes>>

(* No daemon answered for RUN_RETRY: the command runs without the queue.    *)
GiveUp(c) ==
  /\ ~up /\ Asks(c)
  /\ stage' = [stage EXCEPT ![c] = "free"]
  /\ UNCHANGED <<up, queueVars, tickets, queued, alive, pinned, stamp, tight, crashes>>

Next ==
  \/ \E c \in Clients :
       \/ RequestNested(c) \/ RequestFull(c) \/ Request(c) \/ Answer(c)
       \/ ClientDies(c) \/ HandlerLeaves(c) \/ GiveUp(c)
       \/ RunEnds(c) \/ TimePasses(c)
  \/ Reap \/ Crash \/ Restart \/ HostMemory
  \/ \E k \in Keys : TicketExpires(k)

Spec == Init /\ [][Next]_vars

(* keep_reaping runs each second and hours pass; nothing says that a run    *)
(* ends, that a client stays, that memory frees or that a crash comes.      *)
Fairness ==
  /\ WF_vars(Reap)
  /\ \A c \in Clients : WF_vars(TimePasses(c)) /\ WF_vars(Answer(c))

FairSpec == Spec /\ Fairness

-----------------------------------------------------------------------------
(* The fields of the queue, of its file and of the clients have their type. *)
TypeOK ==
  /\ up \in BOOLEAN /\ tight \in BOOLEAN
  /\ running \subseteq Clients /\ waiting \subseteq Clients /\ saved \subseteq Clients
  /\ tickets \in [Keys -> Nat]
  /\ queued \in [Clients -> Nat]
  /\ cpus \in [Clients -> SUBSET Cores]
  /\ age \in [Clients -> Ages]
  /\ stage \in [Clients -> Stages]
  /\ alive \subseteq Clients
  /\ pinned \in [Clients -> SUBSET Cores]
  /\ stamp \in Nat /\ crashes \in Nat

(* runs.json is what a restart needs: while the daemon runs, the file names *)
(* each run of the queue and, of the processes that live, no other one.     *)
FileAgrees ==
  up => running \subseteq saved /\ saved \cap alive \subseteq running

(* Why cores stay exclusive through a crash: a process that was given cores *)
(* is in the file with exactly those, one the daemon is about to answer is  *)
(* in the queue, the live runs of the file share no core they hold, and     *)
(* nothing of the queue outlives the daemon.                                *)
PinnedIsSaved ==
  \A c \in alive : stage[c] = "pinned" /\ Need(c) > 0 =>
                      c \in saved /\ pinned[c] = cpus[c]
AskedIsQueued ==
  \A c \in Clients :
    /\ c \in waiting => stage[c] \in {"asking", "dropped"}
    /\ up /\ c \in alive /\ stage[c] = "asking" => c \in waiting \cup running
SavedDisjoint ==
  \A c \in Holders(saved \cap alive) :
    /\ cpus[c] # {}
    /\ \A d \in Holders(saved \cap alive) \ {c} : cpus[c] \cap cpus[d] = {}
DownIsEmpty ==
  ~up => running = {} /\ waiting = {} /\ \A c \in Clients : stage[c] # "asking"

Consistent ==
  FileAgrees /\ PinnedIsSaved /\ AskedIsQueued /\ SavedDisjoint /\ DownIsEmpty

(* The client runs pinned to cores of its own that it does not lend yet.    *)
Owns(c) == c \in alive /\ stage[c] = "pinned" /\ Need(c) > 0 /\ age[c] # "lent"

(* "Gives each of them cores of its own": two live runs that were given     *)
(* cores and hold them are never pinned to a common core, whatever the      *)
(* order of answers, departures, crashes of the daemon and restarts on      *)
(* runs.json.                                                               *)
ExclusiveCores ==
  \A c, d \in Clients : c # d /\ Owns(c) /\ Owns(d) => pinned[c] \cap pinned[d] = {}

(* A command that a run started never waits while that run has cores, lent  *)
(* ones included: it would wait for the run that waits for it.              *)
NestedNeverWaits ==
  \A c \in waiting : Outer[c] \in running \cap alive /\ Need(Outer[c]) > 0 => Need(c) = 0

(* While two runs hold cores, all the runs with cores of the queue fit in   *)
(* the memory the host has for them: the ones of the last minute are        *)
(* counted although the host does not show them yet, so a burst of requests *)
(* does not overcommit it.  One run alone starts whatever it takes.         *)
MemoryFits ==
  LET core == {c \in running : Need(c) > 0}
  IN  Cardinality(Holders(running)) >= 2 => SumMemory(core) <= Memory

(* "Runs start in arrival order, and a run that waits holds back the ones   *)
(* behind it": no run takes cores past one that asked before it and waits,  *)
(* a client that came back on its ticket included.                          *)
ArrivalOrder ==
  [][\A c \in running' \ running, d \in waiting' :
       Need(c) > 0 /\ Need(d) > 0 => queued'[c] < queued'[d]]_vars

(* "A run nobody ends must not stop the queue" (holds_cores): a run that    *)
(* waits leaves the queue, started or dropped, even if no run ever ends and *)
(* the host stays short of memory.                                          *)
WaitersStart == \A c \in Clients : []<>(c \notin waiting)

-----------------------------------------------------------------------------
(* The abstract promise: cores are leased, one holder at a time.            *)
lease == [c \in Clients |-> IF Owns(c) THEN pinned[c] ELSE {}]

Leases == INSTANCE CoreLease WITH lease <- lease

(* The queue, its file and its clients together implement the lease.        *)
ImplementsLease == Leases!Spec
=============================================================================
