---------------------------- MODULE WorkersProofs ----------------------------
(***************************************************************************)
(* What goes to the workers: an agent is sent where it has a place and     *)
(* taken for gone once it ended (WorkerPlaces), the counts of the streams  *)
(* are right through restarts (WorkerRelay), the queue is in order         *)
(* (QueueOrder) and the notes of an agent reach Seb (Notes), for every     *)
(* number of bundles, places, connections, tasks and edits and every       *)
(* limit.                                                                  *)
(***************************************************************************)
EXTENDS MCWorkers, FiniteSetTheorems, SequenceTheorems, TLAPS

(* The bundles whose start waits for the answer of the worker.              *)
Going == {b \in Bundles : start[b] = "going"}

(* A start counts as sent for as long as its job runs.                      *)
SentWhileStarted ==
  /\ sending = {b \in Bundles : start[b] # "idle"}
  /\ \A b \in Bundles :
       /\ start[b] \in {"going", "landed"} => started[b] = Absent
       /\ start[b] = "going" => b \notin onWorker

(* The agents an answer asked at `at` with `free` places may not show are   *)
(* all counted: the other ones fit in the places it said were taken.        *)
Accounts(at, free) == Cardinality(onWorker \ Counted(at)) + free <= Places

(* An agent that started before an answer was asked and is not in it ended. *)
Shows(at, agents) ==
  \A b \in Bundles : started[b] # Absent /\ at > started[b] /\ b \notin agents => b \notin onWorker

(* No place is promised twice: the agents of the worker and the ones on     *)
(* their way fit in its places.                                             *)
PlacesSuffice == Cardinality(onWorker \cup Going) <= Places

AccountsTrue ==
  /\ Accounts(status.seen, status.free)
  /\ poll.state = "answered" => Accounts(poll.asked, poll.free)
  /\ PlacesSuffice

ShowsTrue ==
  /\ Shows(status.seen, status.agents)
  /\ poll.state = "answered" => Shows(poll.asked, poll.agents)

(* Questions are asked one after the other.                                 *)
PollLater == poll.state # "none" => status.seen <= poll.asked

PlacesInv == TypeOK /\ SentWhileStarted /\ AccountsTrue /\ ShowsTrue /\ PollLater /\ NoneRefused

-------------------------------------------------------------------------------
(* The subsets of a finite set have a size, no larger than its own.         *)
LEMMA SubsetSize ==
  ASSUME NEW U, IsFiniteSet(U), NEW S, NEW T, T \subseteq U, S \subseteq T
  PROVE  /\ IsFiniteSet(S) /\ Cardinality(S) \in Nat /\ Cardinality(T) \in Nat
         /\ Cardinality(S) <= Cardinality(T)
<1>1. IsFiniteSet(T)
  BY FS_Subset
<1>2. IsFiniteSet(S)
  BY <1>1, FS_Subset
<1> QED BY <1>1, <1>2, FS_Subset, FS_CardinalityType

(* Bundles that are not among some others, and these: together no more than *)
(* both sizes.                                                              *)
LEMMA SplitSize ==
  ASSUME NEW S, NEW T, S \subseteq Bundles, T \subseteq Bundles
  PROVE  Cardinality(S) <= Cardinality(S \ T) + Cardinality(T)
<1>1. IsFiniteSet(S \ T) /\ IsFiniteSet(T) /\ IsFiniteSet(S)
  BY ConstantsAssumption, FS_Subset
<1>2. IsFiniteSet((S \ T) \cup T)
  BY <1>1, FS_Union
<1>3. Cardinality((S \ T) \cup T) <= Cardinality(S \ T) + Cardinality(T)
  <2>1. (S \ T) \cap T = {}
    OBVIOUS
  <2>2. Cardinality((S \ T) \cap T) = 0
    BY <2>1, FS_EmptySet
  <2>3. /\ Cardinality((S \ T) \cup T)
             = Cardinality(S \ T) + Cardinality(T) - Cardinality((S \ T) \cap T)
        /\ Cardinality(S \ T) \in Nat /\ Cardinality(T) \in Nat
    BY <1>1, FS_Union, FS_CardinalityType
  <2> QED BY <2>2, <2>3
<1>4. Cardinality(S) <= Cardinality((S \ T) \cup T)
  BY <1>2, FS_Subset
<1>5. /\ Cardinality(S) \in Nat /\ Cardinality(S \ T) \in Nat /\ Cardinality(T) \in Nat
      /\ Cardinality((S \ T) \cup T) \in Nat
  BY <1>1, <1>2, FS_CardinalityType
<1> QED BY <1>3, <1>4, <1>5

(* The bounds start with an empty worker.                                   *)
LEMMA PlacesInit == Init => PlacesInv
<1> SUFFICES ASSUME Init PROVE PlacesInv
  OBVIOUS
<1>1. TypeOK
  BY ConstantsAssumption DEF Init, TypeOK, NoStatus, NoPoll, Absent, Starts
<1>2. SentWhileStarted
  BY DEF Init, SentWhileStarted
<1>3. onWorker \ Counted(status.seen) = {} /\ onWorker \cup Going = {}
  BY DEF Init, Going
<1>4. Cardinality({}) = 0
  BY FS_EmptySet
<1>5. AccountsTrue
  BY <1>3, <1>4, ConstantsAssumption
  DEF Init, AccountsTrue, Accounts, PlacesSuffice, NoStatus, NoPoll
<1>6. ShowsTrue /\ PollLater
  BY DEF Init, ShowsTrue, Shows, PollLater, NoPoll
<1>7. NoneRefused
  BY DEF Init, NoneRefused
<1> QED BY <1>1, <1>2, <1>5, <1>6, <1>7 DEF PlacesInv

(* A step that adds no agent, nor one on its way, promises no other place.  *)
LEMMA PlacesKept ==
  ASSUME PlacesInv, (onWorker \cup Going)' \subseteq onWorker \cup Going
  PROVE  PlacesSuffice'
<1>1. onWorker \cup Going \subseteq Bundles
  BY DEF PlacesInv, TypeOK, Going
<1>2. /\ Cardinality((onWorker \cup Going)') \in Nat /\ Cardinality(onWorker \cup Going) \in Nat
      /\ Cardinality((onWorker \cup Going)') <= Cardinality(onWorker \cup Going)
  BY <1>1, SubsetSize, ConstantsAssumption
<1> QED BY <1>2, ConstantsAssumption DEF PlacesInv, AccountsTrue, PlacesSuffice

(* A step that leaves the answers alone and adds no agent that they may     *)
(* miss keeps the accounts.                                                 *)
LEMMA AccountsKept ==
  ASSUME PlacesInv, UNCHANGED <<status, poll>>, PlacesSuffice',
         onWorker' \ Counted(status.seen)' \subseteq onWorker \ Counted(status.seen),
         poll.state = "answered" =>
           onWorker' \ Counted(poll.asked)' \subseteq onWorker \ Counted(poll.asked)
  PROVE  AccountsTrue'
<1> USE DEF PlacesInv
<1>1. onWorker \subseteq Bundles
  BY DEF TypeOK
<1>2. /\ Cardinality(onWorker' \ Counted(status.seen)') \in Nat
      /\ Cardinality(onWorker \ Counted(status.seen)) \in Nat
      /\ Cardinality(onWorker' \ Counted(status.seen)')
           <= Cardinality(onWorker \ Counted(status.seen))
  BY <1>1, SubsetSize, ConstantsAssumption
<1>3. ASSUME poll.state = "answered"
      PROVE  /\ Cardinality(onWorker' \ Counted(poll.asked)') \in Nat
             /\ Cardinality(onWorker \ Counted(poll.asked)) \in Nat
             /\ Cardinality(onWorker' \ Counted(poll.asked)')
                  <= Cardinality(onWorker \ Counted(poll.asked))
  BY <1>1, <1>3, SubsetSize, ConstantsAssumption
<1>5. status.free \in Int /\ poll.free \in Int /\ Places \in Nat
  BY ConstantsAssumption DEF TypeOK
<1>6. Accounts(status.seen, status.free)'
  BY <1>2, <1>5 DEF AccountsTrue, Accounts
<1>7. poll.state = "answered" => Accounts(poll.asked, poll.free)'
  BY <1>3, <1>5 DEF AccountsTrue, Accounts
<1> QED BY <1>6, <1>7 DEF AccountsTrue

(* A start is sent: its place is one the last answer showed and no other    *)
(* start on its way takes.                                                  *)
LEMMA InvSend ==
  ASSUME PlacesInv, NEW b \in Bundles, Send(b)
  PROVE  PlacesInv'
<1> USE DEF PlacesInv
<1> DEFINE Known == Counted(status.seen)
<1>1. /\ start[b] = "idle" /\ started[b] = Absent /\ b \notin onWorker
      /\ sending' = sending \cup {b}
      /\ start' = [start EXCEPT ![b] = "going"]
      /\ UNCHANGED <<clock, status, poll, started, onWorker, restarts>>
      /\ ended' = [d \in Bundles |-> IF d # b /\ d \in Known THEN ended[d] ELSE Absent]
  BY DEF Send
<1>2. TypeOK'
  BY <1>1 DEF TypeOK, Starts
<1>3. SentWhileStarted'
  BY <1>1 DEF SentWhileStarted, TypeOK
<1>4. Going \subseteq Known /\ Known \subseteq Bundles
  BY DEF SentWhileStarted, Going, Counted, TypeOK
<1>5. (onWorker \cup Going)' = (onWorker \cup Going) \cup {b}
  BY <1>1 DEF Going, TypeOK
<1>6. PlacesSuffice'
  <2>1. Cardinality(Known) < status.free /\ status.free \in Int /\ Places \in Nat
    BY ConstantsAssumption DEF Send, HasPlace, TypeOK, Counted
  <2>2. /\ Cardinality(onWorker \cup Going)
             <= Cardinality((onWorker \cup Going) \ Known) + Cardinality(Known)
        /\ Cardinality(Known) \in Nat /\ Cardinality(onWorker \cup Going) \in Nat
    <3>1. onWorker \cup Going \subseteq Bundles
      BY <1>4 DEF TypeOK
    <3> QED BY <1>4, <3>1, SplitSize, SubsetSize, ConstantsAssumption
  <2>3. (onWorker \cup Going) \ Known = onWorker \ Known
    BY <1>4
  <2>4. /\ Cardinality(onWorker \ Known) + status.free <= Places
        /\ Cardinality(onWorker \ Known) \in Nat
    <3>1. onWorker \ Known \subseteq Bundles
      BY DEF TypeOK
    <3> QED BY <3>1, SubsetSize, ConstantsAssumption DEF AccountsTrue, Accounts
  <2>5. Cardinality(onWorker \cup Going) < Places
    BY <2>1, <2>2, <2>3, <2>4
  <2> DEFINE All == onWorker \cup Going
  <2>6. IsFiniteSet(All) /\ Cardinality(All) \in Nat /\ Cardinality(All) < Places
    BY <1>4, <2>2, <2>5, ConstantsAssumption, FS_Subset DEF TypeOK
  <2>7. PlacesSuffice' <=> Cardinality(All \cup {b}) <= Places
    BY <1>5 DEF PlacesSuffice
  <2> HIDE DEF All
  <2>8. Cardinality(All \cup {b}) = IF b \in All THEN Cardinality(All) ELSE Cardinality(All) + 1
    BY <2>6, FS_AddElement
  <2> QED BY <2>1, <2>6, <2>7, <2>8
<1>7. onWorker' \ Counted(status.seen)' \subseteq onWorker \ Counted(status.seen)
  BY <1>1 DEF Counted, TypeOK
<1>8. poll.state = "answered" =>
        onWorker' \ Counted(poll.asked)' \subseteq onWorker \ Counted(poll.asked)
  BY <1>1 DEF Counted, TypeOK, PollLater, Absent
<1>9. AccountsTrue'
  BY <1>1, <1>6, <1>7, <1>8, AccountsKept
<1>10. ShowsTrue' /\ PollLater' /\ NoneRefused'
  BY <1>1 DEF ShowsTrue, Shows, PollLater, NoneRefused, TypeOK
<1> QED BY <1>2, <1>3, <1>9, <1>10

(* The answers of the worker: asked, given, received, missed.               *)
LEMMA InvPoll ==
  ASSUME PlacesInv, Ask \/ WorkerAnswers \/ Receive \/ NoAnswer
  PROVE  PlacesInv'
<1> USE DEF PlacesInv
<1>1. UNCHANGED <<clock, sending, ended, start, started, onWorker, restarts>>
  BY DEF Ask, WorkerAnswers, Receive, NoAnswer
<1>2. SentWhileStarted' /\ NoneRefused' /\ PlacesSuffice'
  BY <1>1 DEF SentWhileStarted, NoneRefused, AccountsTrue, PlacesSuffice, Going
<1>3. CASE Ask
  <2>1. poll' = [state |-> "asked", asked |-> clock, free |-> 0, agents |-> {}] /\ status' = status
    BY <1>3 DEF Ask, NoPoll
  <2>4. status.seen <= clock /\ clock \in 0..clock
    BY DEF TypeOK
  <2>5. TypeOK' /\ PollLater'
    BY <1>1, <2>1, <2>4 DEF TypeOK, PollLater
  <2>2. AccountsTrue'
    BY <1>1, <1>2, <1>3 DEF Ask, NoPoll, AccountsTrue, Accounts, Counted
  <2>3. ShowsTrue'
    BY <1>1, <1>3 DEF Ask, NoPoll, ShowsTrue, Shows
  <2> QED BY <1>2, <2>2, <2>3, <2>5
<1>4. CASE WorkerAnswers
  <2>1. /\ status' = status /\ poll.state = "asked"
        /\ poll' = [poll EXCEPT !.state  = "answered",
                                !.free   = Places - Cardinality(onWorker),
                                !.agents = onWorker]
    BY <1>4 DEF WorkerAnswers
  <2>2. /\ Cardinality(onWorker \ Counted(poll.asked)) <= Cardinality(onWorker)
        /\ Cardinality(onWorker) \in Nat /\ Cardinality(onWorker \ Counted(poll.asked)) \in Nat
    BY SubsetSize, ConstantsAssumption DEF TypeOK
  <2>3. Places - Cardinality(onWorker) \in Int
    BY <2>2, ConstantsAssumption
  <2>4. TypeOK' /\ PollLater'
    BY <1>1, <2>1, <2>3 DEF TypeOK, PollLater
  <2>5. poll'.asked = poll.asked /\ poll'.free = Places - Cardinality(onWorker)
        /\ poll'.agents = onWorker
    BY <2>1 DEF TypeOK
  <2>6. Accounts(poll.asked, poll.free)'
    BY <1>1, <2>2, <2>5, ConstantsAssumption DEF Accounts, Counted
  <2>7. AccountsTrue'
    BY <1>1, <1>2, <2>1, <2>6 DEF AccountsTrue, Accounts, Counted
  <2>8. ShowsTrue'
    BY <1>1, <2>1, <2>5 DEF ShowsTrue, Shows
  <2> QED BY <1>2, <2>4, <2>7, <2>8
<1>5. CASE Receive
  <2>1. /\ poll.state = "answered" /\ poll' = NoPoll
        /\ status'.seen = poll.asked /\ status'.free = poll.free
        /\ status'.agents = poll.agents
    BY <1>5 DEF Receive
  <2>2. TypeOK' /\ PollLater'
    BY <1>1, <1>5 DEF Receive, TypeOK, NoPoll, PollLater
  <2>3. AccountsTrue'
    BY <1>1, <1>2, <2>1 DEF AccountsTrue, Accounts, Counted, NoPoll
  <2>4. ShowsTrue'
    BY <1>1, <2>1 DEF ShowsTrue, Shows, NoPoll
  <2> QED BY <1>2, <2>2, <2>3, <2>4
<1>6. CASE NoAnswer
  <2>1. TypeOK' /\ PollLater'
    BY <1>1, <1>6 DEF NoAnswer, TypeOK, NoPoll, PollLater
  <2>2. AccountsTrue' /\ ShowsTrue'
    BY <1>1, <1>2, <1>6
    DEF NoAnswer, NoPoll, AccountsTrue, Accounts, Counted, ShowsTrue, Shows
  <2> QED BY <1>2, <2>1, <2>2
<1> QED BY <1>3, <1>4, <1>5, <1>6

(* The worker finds a place for each start: it was kept for it.             *)
LEMMA InvWorkerDecides ==
  ASSUME PlacesInv, NEW b \in Bundles, WorkerDecides(b)
  PROVE  PlacesInv'
<1> USE DEF PlacesInv
<1>1. start[b] = "going" /\ started[b] = Absent /\ b \in Going /\ b \notin onWorker
  BY DEF WorkerDecides, SentWhileStarted, Going
<1>2. Cardinality(onWorker) < Places
  <2>1. IsFiniteSet(onWorker) /\ Cardinality(onWorker) \in Nat
    BY ConstantsAssumption, FS_Subset, FS_CardinalityType DEF TypeOK
  <2>2. Cardinality(onWorker \cup {b}) = Cardinality(onWorker) + 1
    BY <1>1, <2>1, FS_AddElement
  <2>3. /\ Cardinality(onWorker \cup {b}) <= Cardinality(onWorker \cup Going)
        /\ Cardinality(onWorker \cup Going) \in Nat
    BY <1>1, SubsetSize, ConstantsAssumption DEF TypeOK, Going
  <2> QED BY <2>1, <2>2, <2>3, ConstantsAssumption DEF AccountsTrue, PlacesSuffice
<1>3. /\ start' = [start EXCEPT ![b] = "landed"] /\ onWorker' = onWorker \cup {b}
      /\ UNCHANGED <<workerVars, started>>
  BY <1>2 DEF WorkerDecides
<1>4. TypeOK'
  BY <1>3 DEF TypeOK, workerVars, Starts
<1>5. SentWhileStarted' /\ PollLater'
  BY <1>1, <1>3 DEF SentWhileStarted, PollLater, TypeOK, workerVars
<1>6. b \in Counted(status.seen) /\ b \in Counted(poll.asked)
  BY <1>1 DEF Counted, SentWhileStarted
<1>7. PlacesSuffice'
  <2>1. (onWorker \cup Going)' \subseteq onWorker \cup Going
    BY <1>1, <1>3 DEF Going, TypeOK
  <2> QED BY <2>1, PlacesKept
<1>8. AccountsTrue'
  BY <1>3, <1>6, <1>7, AccountsKept DEF Counted, workerVars
<1>9. ShowsTrue' /\ NoneRefused'
  BY <1>1, <1>3 DEF ShowsTrue, Shows, NoneRefused, TypeOK, workerVars
<1> QED BY <1>4, <1>5, <1>8, <1>9

(* The end of a start is no earlier than what is on its way from the worker.*)
LEMMA InvStartEnds ==
  ASSUME PlacesInv, NEW b \in Bundles, StartEnds(b) \/ StartFails(b)
  PROVE  PlacesInv'
<1> USE DEF PlacesInv
<1>1. /\ start[b] # "idle" /\ start' = [start EXCEPT ![b] = "idle"]
      /\ sending' = sending \ {b} /\ ended' = [ended EXCEPT ![b] = clock]
      /\ onWorker' \in {onWorker, onWorker \ {b}}
      /\ UNCHANGED <<clock, status, poll, started, restarts>>
  BY DEF StartEnds, StartFails, EndSend
<1>2. TypeOK'
  BY <1>1 DEF TypeOK, Starts
<1>3. SentWhileStarted' /\ PollLater'
  BY <1>1 DEF SentWhileStarted, PollLater, TypeOK
<1>4. status.seen <= clock /\ poll.asked <= clock
  BY DEF TypeOK
<1>5. Counted(status.seen)' = Counted(status.seen) /\ Counted(poll.asked)' = Counted(poll.asked)
  BY <1>1, <1>4 DEF Counted, SentWhileStarted, TypeOK
<1>6. PlacesSuffice'
  <2>1. (onWorker \cup Going)' \subseteq onWorker \cup Going
    BY <1>1 DEF Going, TypeOK
  <2> QED BY <2>1, PlacesKept
<1>7. AccountsTrue'
  BY <1>1, <1>5, <1>6, AccountsKept
<1>8. ShowsTrue' /\ NoneRefused'
  BY <1>1 DEF ShowsTrue, Shows, NoneRefused, TypeOK
<1> QED BY <1>2, <1>3, <1>7, <1>8

(* Time alone changes no account.                                           *)
LEMMA InvTick ==
  ASSUME PlacesInv, Tick
  PROVE  PlacesInv'
<1> USE DEF PlacesInv
<1>1. TypeOK'
  BY DEF Tick, TypeOK
<1> QED BY <1>1 DEF Tick, SentWhileStarted, AccountsTrue, Accounts, Counted, PlacesSuffice, Going,
                    ShowsTrue, Shows, PollLater, NoneRefused

(* remote.json and the ends of agents add nothing to the account.           *)
LEMMA InvOther ==
  ASSUME PlacesInv, NEW b \in Bundles, Writes(b) \/ AgentEnds(b) \/ Finish(b)
  PROVE  PlacesInv'
<1> USE DEF PlacesInv
<1>1. UNCHANGED <<status, poll, sending, ended, restarts>>
  BY DEF Writes, AgentEnds, Finish, workerVars
<1>2. PollLater' /\ onWorker' \subseteq onWorker
  BY <1>1 DEF PollLater, Writes, AgentEnds, Finish
<1>3. Going' \subseteq Going
  BY DEF Going, Writes, AgentEnds, Finish, TypeOK
<1>4. AccountsTrue'
  <2>1. PlacesSuffice'
    BY <1>2, <1>3, PlacesKept
  <2> QED BY <1>1, <1>2, <2>1, AccountsKept DEF Counted
<1>6. CASE Writes(b)
  <2>1. TypeOK'
    BY <1>6 DEF Writes, TypeOK, workerVars, Starts
  <2>2. ShowsTrue'
    BY <1>6 DEF Writes, workerVars, ShowsTrue, Shows, TypeOK
  <2>3. SentWhileStarted' /\ NoneRefused'
    BY <1>6 DEF Writes, workerVars, SentWhileStarted, NoneRefused, TypeOK
  <2> QED BY <1>2, <1>4, <2>1, <2>2, <2>3
<1>7. CASE AgentEnds(b)
  <2>1. TypeOK'
    BY <1>7 DEF AgentEnds, TypeOK, workerVars
  <2> QED BY <1>2, <1>4, <1>7, <2>1
          DEF AgentEnds, workerVars, SentWhileStarted, ShowsTrue, Shows, NoneRefused
<1>8. CASE Finish(b)
  <2>1. TypeOK'
    BY <1>8 DEF Finish, TypeOK, workerVars
  <2> QED BY <1>2, <1>4, <1>8, <2>1
          DEF Finish, workerVars, SentWhileStarted, ShowsTrue, Shows, NoneRefused, TypeOK
<1> QED BY <1>6, <1>7, <1>8

(* A new daemon has read nothing and promises nothing.                      *)
LEMMA InvRestart ==
  ASSUME PlacesInv, Restart
  PROVE  PlacesInv'
<1> USE DEF PlacesInv
<1>1. TypeOK' /\ SentWhileStarted' /\ PollLater' /\ NoneRefused'
  BY DEF Restart, TypeOK, NoStatus, NoPoll, Starts, SentWhileStarted, PollLater, NoneRefused
<1>2. PlacesSuffice'
  <2>1. (onWorker \cup Going)' \subseteq onWorker \cup Going
    BY DEF Restart, Going
  <2> QED BY <2>1, PlacesKept
<1>3. Accounts(status.seen, status.free)'
  <2>1. /\ Cardinality(onWorker' \ Counted(status.seen)') \in Nat
        /\ Cardinality(onWorker' \ Counted(status.seen)') <= Cardinality((onWorker \cup Going)')
        /\ Cardinality((onWorker \cup Going)') \in Nat
    BY <1>1, SubsetSize, ConstantsAssumption DEF TypeOK, Going
  <2>2. status'.free = 0
    BY DEF Restart, NoStatus
  <2> QED BY <1>2, <2>1, <2>2, ConstantsAssumption DEF PlacesSuffice, Accounts
<1>4. AccountsTrue' /\ ShowsTrue'
  BY <1>1, <1>2, <1>3 DEF Restart, AccountsTrue, ShowsTrue, Shows, NoStatus, NoPoll, TypeOK
<1> QED BY <1>1, <1>4

(* Every step of the daemon, of the worker and of the clock keeps Inv.      *)
LEMMA PlacesNext == PlacesInv /\ [Next]_vars => PlacesInv'
<1> SUFFICES ASSUME PlacesInv, [Next]_vars PROVE PlacesInv'
  OBVIOUS
<1>1. CASE UNCHANGED vars
  BY <1>1
     DEF vars, PlacesInv, TypeOK, SentWhileStarted, AccountsTrue, Accounts, Counted,
         PlacesSuffice,
              Going, ShowsTrue, Shows, PollLater, NoneRefused
<1>2. CASE Ask \/ WorkerAnswers \/ Receive \/ NoAnswer
  BY <1>2, InvPoll
<1>3. CASE Restart
  BY <1>3, InvRestart
<1>4. CASE Tick
  BY <1>4, InvTick
<1>5. ASSUME NEW b \in Bundles,
             \/ Send(b) \/ WorkerDecides(b) \/ Writes(b) \/ StartEnds(b) \/ StartFails(b)
             \/ AgentEnds(b) \/ Finish(b)
      PROVE  PlacesInv'
  BY <1>5, InvSend, InvWorkerDecides, InvStartEnds, InvOther
<1> QED BY <1>1, <1>2, <1>3, <1>4, <1>5 DEF Next

(* No start is refused for want of a place, by any number of bundles on a   *)
(* worker of any size (send_agent, get_agent_wait).                         *)
THEOREM PlacesKeptForStarts == Spec => []NoneRefused
<1>1. PlacesInv => NoneRefused
  BY DEF PlacesInv
<1> QED BY <1>1, PlacesInit, PlacesNext, PTL DEF Spec

(* An agent taken for gone has ended (lists_agent, is_gone).                *)
THEOREM GoneHasEnded == Spec => []MissingHasEnded
<1>1. PlacesInv => MissingHasEnded
  BY DEF PlacesInv, ShowsTrue, Shows, MissingHasEnded, Missing, TypeOK
<1> QED BY <1>1, PlacesInit, PlacesNext, PTL DEF Spec

-------------------------------------------------------------------------------
(* The follows and the relays that a thread of this daemon serves.          *)
Served == {r \in handled : follow[r] # "none"}
Relayed == {r \in handled : relay[r] # "none"}

StreamTypes ==
  /\ follow \in [Requests -> {"none", "opening", "running", "closing"}]
  /\ relay \in [Requests -> {"none", "open"}]
  /\ handled \subseteq Requests
  /\ relayRestarts \in Nat

(* Each count is of what its daemon serves, and no more than the limit.     *)
StreamCounts ==
  /\ follows = Cardinality(Served) /\ relays = Cardinality(Relayed)
  /\ follows <= MaxFollows

(* What closes or is relayed has its thread, and does one of the two.       *)
OneVerb ==
  \A r \in Requests :
    /\ relay[r] = "open" \/ follow[r] = "closing" => r \in handled
    /\ relay[r] = "none" \/ follow[r] = "none"

StreamInv == StreamTypes /\ StreamCounts /\ OneVerb

-------------------------------------------------------------------------------
(* The size of a set in WorkerRelay is its size here.                       *)
LEMMA RelaySize == \A S : R!Cardinality(S) = Cardinality(S)
  BY DEF R!Cardinality, Cardinality

(* The larger of two numbers is one of them, and no less than either.       *)
LEMMA MaxOfTwo ==
  ASSUME NEW a \in Nat, NEW b \in Nat
  PROVE  R!Max({a, b}) \in {a, b} /\ R!Max({a, b}) >= a /\ R!Max({a, b}) >= b
<1>1. \E x \in {a, b} : \A y \in {a, b} : x >= y
  <2>1. CASE a >= b  BY <2>1
  <2>2. CASE b >= a  BY <2>2
  <2> QED BY <2>1, <2>2
<1> QED BY <1>1 DEF R!Max

(* The sizes that the counts stand for are numbers.                         *)
LEMMA CountTypes ==
  ASSUME StreamTypes
  PROVE  /\ IsFiniteSet(Served) /\ Cardinality(Served) \in Nat
         /\ IsFiniteSet(Relayed) /\ Cardinality(Relayed) \in Nat
         /\ R!CountFollows \in Nat
<1>1. Served \subseteq Requests /\ Relayed \subseteq Requests
  BY DEF StreamTypes, Served, Relayed
<1>2. {r \in Requests : follow[r] = "running"} \subseteq Requests
  OBVIOUS
<1> QED BY <1>1, <1>2, SubsetSize, RelaySize, StreamsAssumption DEF R!CountFollows

-------------------------------------------------------------------------------
LEMMA StreamsInit ==
  ASSUME R!Init
  PROVE  StreamInv
<1>1. Served = {} /\ Relayed = {}
  BY DEF R!Init, Served, Relayed
<1> QED BY <1>1, FS_EmptySet, StreamsAssumption
        DEF R!Init, StreamInv, StreamTypes, StreamCounts, OneVerb

(* A stream that opens joins what is served.                                *)
LEMMA FollowCounts ==
  ASSUME StreamInv, NEW r \in Requests, R!Follow(r)
  PROVE  StreamInv'
<1> USE DEF StreamInv
<1>1. StreamTypes' /\ OneVerb'
  BY DEF R!Follow, R!Idle, StreamTypes, OneVerb
<1>2. Served' = Served \cup {r} /\ r \notin Served
  BY DEF R!Follow, R!Idle, StreamTypes, Served
<1>3. Relayed' = Relayed
  BY DEF R!Follow, R!Idle, StreamTypes, Relayed
<1>4. follows < MaxFollows
  <2>1. follows \in Nat
    BY CountTypes DEF StreamCounts
  <2> QED BY <2>1, CountTypes, MaxOfTwo, StreamsAssumption DEF R!Follow, R!CanFollow, R!CountBoth
<1>5. StreamCounts'
  <2>1. Cardinality(Served') = Cardinality(Served) + 1
    BY <1>2, CountTypes, FS_AddElement
  <2> QED BY <2>1, <1>3, <1>4, CountTypes, StreamsAssumption DEF R!Follow, StreamCounts
<1> QED BY <1>1, <1>5

LEMMA RelayCounts ==
  ASSUME StreamInv, NEW r \in Requests, R!Relay(r)
  PROVE  StreamInv'
<1> USE DEF StreamInv
<1>1. StreamTypes' /\ OneVerb'
  BY DEF R!Relay, R!Idle, StreamTypes, OneVerb
<1>2. Relayed' = Relayed \cup {r} /\ r \notin Relayed
  BY DEF R!Relay, R!Idle, StreamTypes, Relayed
<1>3. Served' = Served
  BY DEF R!Relay, R!Idle, StreamTypes, Served
<1>4. Cardinality(Relayed') = Cardinality(Relayed) + 1
  BY <1>2, CountTypes, FS_AddElement
<1> QED BY <1>1, <1>3, <1>4 DEF R!Relay, StreamCounts

(* One that ended leaves it in the `finally` of relay, and no sooner.       *)
LEMMA FollowUncounts ==
  ASSUME StreamInv, NEW r \in Requests, R!FollowEnds(r)
  PROVE  StreamInv'
<1> USE DEF StreamInv
<1>1. StreamTypes' /\ OneVerb'
  BY DEF R!FollowEnds, StreamTypes, OneVerb
<1>2. Served' = Served \ {r} /\ r \in Served
  BY DEF R!FollowEnds, StreamTypes, OneVerb, Served
<1>3. Relayed' = Relayed
  BY DEF R!FollowEnds, StreamTypes, OneVerb, Relayed
<1>4. Cardinality(Served') = Cardinality(Served) - 1
  BY <1>2, CountTypes, FS_RemoveElement
<1> QED BY <1>1, <1>3, <1>4, CountTypes, StreamsAssumption DEF R!FollowEnds, R!Uncount, StreamCounts

LEMMA RelayUncounts ==
  ASSUME StreamInv, NEW r \in Requests, R!RelayEnds(r)
  PROVE  StreamInv'
<1> USE DEF StreamInv
<1>1. StreamTypes' /\ OneVerb'
  BY DEF R!RelayEnds, StreamTypes, OneVerb
<1>2. Relayed' = Relayed \ {r} /\ r \in Relayed
  BY DEF R!RelayEnds, StreamTypes, OneVerb, Relayed
<1>3. Served' = Served
  BY DEF R!RelayEnds, StreamTypes, OneVerb, Served
<1>4. Cardinality(Relayed') = Cardinality(Relayed) - 1
  BY <1>2, CountTypes, FS_RemoveElement
<1> QED BY <1>1, <1>3, <1>4 DEF R!RelayEnds, StreamCounts

(* A process that starts or ends changes no count.                          *)
LEMMA SshCountsNothing ==
  ASSUME StreamInv, NEW r \in Requests, R!SshStarts(r) \/ R!SshEnds(r)
  PROVE  StreamInv'
<1> USE DEF StreamInv
<1>1. StreamTypes' /\ OneVerb'
  BY DEF R!SshStarts, R!SshEnds, StreamTypes, OneVerb
<1>2. Served' = Served
  BY DEF R!SshStarts, R!SshEnds, StreamTypes, Served
<1>3. Relayed' = Relayed
  BY DEF R!SshStarts, R!SshEnds, Relayed
<1> QED BY <1>1, <1>2, <1>3 DEF R!SshStarts, R!SshEnds, StreamCounts

(* A restart forgets the counts with the threads they are of.               *)
LEMMA StreamsRestart ==
  ASSUME StreamInv, R!Restart
  PROVE  StreamInv'
<1> USE DEF StreamInv
<1>1. Served' = {} /\ Relayed' = {}
  BY DEF R!Restart, Served, Relayed
<1>2. StreamTypes' /\ OneVerb'
  BY DEF R!Restart, StreamTypes, OneVerb
<1> QED BY <1>1, <1>2, FS_EmptySet, StreamsAssumption DEF R!Restart, StreamCounts

LEMMA StreamsNext ==
  ASSUME StreamInv, [R!Next]_(R!vars)
  PROVE  StreamInv'
<1>1. ASSUME NEW r \in Requests,
             \/ R!Follow(r) \/ R!SshStarts(r) \/ R!SshEnds(r) \/ R!FollowEnds(r)
             \/ R!Relay(r) \/ R!RelayEnds(r)
      PROVE  StreamInv'
  BY <1>1, FollowCounts, RelayCounts, FollowUncounts, RelayUncounts, SshCountsNothing
<1>2. CASE R!Restart
  BY <1>2, StreamsRestart
<1>3. CASE UNCHANGED R!vars
  BY <1>3 DEF R!vars, StreamInv, StreamTypes, StreamCounts, OneVerb, Served, Relayed
<1> QED BY <1>1, <1>2, <1>3 DEF R!Next

(* What is counted is what holds a session of the connection, or will say   *)
(* that it no longer does.                                                  *)
LEMMA StreamsCount ==
  ASSUME StreamInv
  PROVE  FollowsCounted
<1> USE DEF StreamInv
<1>1. R!OwnFollowLimit
  <2>1. R!Following \cap handled \subseteq Served
    BY DEF R!Following, Served
  <2>2. Served \subseteq Requests
    BY DEF StreamTypes, Served
  <2> QED BY <2>1, <2>2, SubsetSize, RelaySize, StreamsAssumption DEF R!OwnFollowLimit, StreamCounts
<1>2. ASSUME ~R!CanFollow
      PROVE  Cardinality({r \in Requests : follow[r] # "none"}) >= MaxFollows
  <2> DEFINE Open == {r \in Requests : follow[r] # "none"}
             Running == {r \in Requests : follow[r] = "running"}
  <2>1. Served \subseteq Open /\ Running \subseteq Open
    BY DEF StreamTypes, Served
  <2>2. /\ Cardinality(Open) \in Nat
        /\ Cardinality(Served) <= Cardinality(Open)
        /\ Cardinality(Running) <= Cardinality(Open)
    BY <2>1, SubsetSize, StreamsAssumption
  <2>3. follows \in Nat /\ R!CountFollows \in Nat
    BY CountTypes DEF StreamCounts
  <2>4. follows >= MaxFollows \/ R!CountFollows >= MaxFollows
    BY <1>2, <2>3, MaxOfTwo, StreamsAssumption DEF R!CanFollow, R!CountBoth
  <2> QED BY <2>2, <2>3, <2>4, RelaySize, StreamsAssumption DEF StreamCounts, R!CountFollows
<1>3. ASSUME ~R!CanRelay
      PROVE  Cardinality({r \in Requests : relay[r] # "none"}) >= MaxRelays
  <2>1. Relayed \subseteq {r \in Requests : relay[r] # "none"}
    BY DEF StreamTypes, Relayed
  <2>2. /\ Cardinality({r \in Requests : relay[r] # "none"}) \in Nat
        /\ Cardinality(Relayed) <= Cardinality({r \in Requests : relay[r] # "none"})
    BY <2>1, SubsetSize, StreamsAssumption
  <2> QED BY <1>3, <2>2, CountTypes, StreamsAssumption DEF R!CanRelay, StreamCounts
<1> QED BY <1>1, <1>2, <1>3, RelaySize DEF FollowsCounted, R!FollowsCounted, R!RefusedOnlyWhenFull

(* No bundle is refused a stream but while as many of its own are open or   *)
(* closing, and the follows of one daemon stay within MAX_FOLLOWS,          *)
(* whatever ended on an error or with a restart (Workers.relay).            *)
THEOREM StreamsCounted ==
  R!Spec => []FollowsCounted
<1>1. R!Init => StreamInv
  BY StreamsInit
<1>2. StreamInv /\ [R!Next]_(R!vars) => StreamInv'
  BY StreamsNext
<1>3. StreamInv => FollowsCounted
  BY StreamsCount
<1> QED BY <1>1, <1>2, <1>3, PTL DEF R!Spec
-----------------------------------------------------------------------------
(* The order of the queue (QueueOrder).                                     *)
WaysPut == {"sent", "behind", "first", "head", "moved"}

QueueTask ==
  [bundle : Queued, parent : O!Callers, priority : Int, resume : BOOLEAN, at : Nat, by : WaysPut,
   hold : O!Holds, forced : BOOLEAN]

(* The tasks of a bundle are in the order they came.                        *)
InOrder(q) ==
  \A i, j \in DOMAIN q :
    i < j /\ q[i].bundle = q[j].bundle /\ q[i].by \notin {"moved", "first"} /\ q[j].by # "moved"
    => q[i].at < q[j].at

(* Each came before the next one to come.                                   *)
Came(q, n) == \A i \in DOMAIN q : q[i].at < n

QueueInv ==
  /\ queue \in Seq(QueueTask)
  /\ asked \subseteq [bundle : Queued, parent : O!Callers, priority : Int, resume : BOOLEAN,
                     first : BOOLEAN]
  /\ files \in [Queued -> QueueTask \cup {NoTask}]
  /\ orderSent \in Nat
  /\ Came(queue, orderSent)
  /\ \A b \in Queued : files[b] # NoTask => files[b].at < orderSent
  /\ InOrder(queue)

-----------------------------------------------------------------------------
(* Of some numbers, one is the least: the subsets 0 .. m of a finite set    *)
(* are well founded.                                                        *)
LEMMA Least ==
  ASSUME NEW T \in SUBSET Nat, T # {}
  PROVE  \E n \in T : \A m \in T : n <= m
<1>1. PICK k \in T : TRUE
  OBVIOUS
<1> DEFINE I == 0 .. k
           U == {0 .. m : m \in {j \in T : j <= k}}
           Below(n) == \A m \in T : n <= m
<1>2. IsFiniteSet(I) /\ U \in SUBSET SUBSET I /\ U # {}
  <2>1. IsFiniteSet(I)
    BY FS_Interval
  <2>2. U \in SUBSET SUBSET I
    OBVIOUS
  <2>3. U # {}
    OBVIOUS
  <2> HIDE DEF U, I
  <2> QED BY <2>1, <2>2, <2>3
<1> HIDE DEF I
<1>3. PICK V \in U : \A W \in U : ~(<<W, V>> \in StrictSubsetOrdering(I))
  <2>1. IsWellFoundedOn(StrictSubsetOrdering(I), SUBSET I)
    BY <1>2, FS_StrictSubsetOrderingWellFounded, FS_FiniteSubsetsOfFinite
  <2> HIDE DEF U
  <2> QED BY <1>2, <2>1, WFMin
<1>4. PICK n \in T : n <= k /\ V = 0 .. n
  BY <1>3
<1>5. ASSUME NEW m \in T, m < n PROVE FALSE
  <2>1. 0 .. m \in U /\ 0 .. m \subseteq V /\ 0 .. m # V
    BY <1>4, <1>5
  <2>2. V \subseteq I
    BY <1>2
  <2> HIDE DEF U
  <2> QED BY <1>3, <2>1, <2>2 DEF StrictSubsetOrdering
<1> HIDE DEF U
<1>6. Below(n)
  <2>1. ASSUME NEW m \in T PROVE n <= m
    <3>1. n \in Nat /\ m \in Nat
      OBVIOUS
    <3>2. ~(m < n)
      BY <1>5
    <3> QED BY <3>1, <3>2
  <2> QED BY <2>1
<1> HIDE DEF Below
<1>7. \E j \in T : Below(j)
  BY <1>6
<1> QED BY <1>7 DEF Below

(* The least of some numbers is one of them.                                *)
LEMMA MinIs ==
  ASSUME NEW S \in SUBSET Nat, S # {}
  PROVE  O!Min(S) \in S /\ \A m \in S : O!Min(S) <= m
BY Least DEF O!Min

(* So is the greatest, of those up to a bound.                              *)
LEMMA MaxIs ==
  ASSUME NEW n \in Nat, NEW S \in SUBSET (0 .. n), S # {}
  PROVE  O!Max(S) \in S /\ \A m \in S : O!Max(S) >= m
<1> DEFINE T == {n - m : m \in S}
<1>1. T \in SUBSET Nat /\ T # {}
  <2>1. \A m \in S : n - m \in Nat
    OBVIOUS
  <2>2. PICK m \in S : TRUE
    OBVIOUS
  <2> QED BY <2>1, <2>2
<1>2. PICK t \in T : \A u \in T : t <= u
  <2> HIDE DEF T
  <2> QED BY <1>1, Least
<1>3. PICK x \in S : t = n - x
  BY <1>2
<1>4. \A m \in S : x >= m
  BY <1>2, <1>3
<1> QED BY <1>4 DEF O!Max

(* The smaller and the larger of two priorities.                            *)
LEMMA SmallerOfTwo ==
  ASSUME NEW a \in Int, NEW b \in Int
  PROVE  O!Min({a, b}) = IF a <= b THEN a ELSE b
BY DEF O!Min

LEMMA LargerOfTwo ==
  ASSUME NEW a \in Int, NEW b \in Int
  PROVE  O!Max({a, b}) = IF a >= b THEN a ELSE b
BY DEF O!Max

(* q2 is q with e at i, without its i-th task, or with other flags.          *)
Put(q2, q, i, e) ==
  /\ q2 \in Seq(QueueTask) /\ Len(q2) = Len(q) + 1 /\ DOMAIN q2 = 1 .. (Len(q) + 1)
  /\ \A k \in 1 .. (Len(q) + 1) : q2[k] =
       IF k < i THEN q[k] ELSE IF k = i THEN e ELSE q[k - 1]

Removed(q2, q, i) ==
  /\ q2 \in Seq(QueueTask) /\ Len(q2) = Len(q) - 1 /\ DOMAIN q2 = 1 .. (Len(q) - 1)
  /\ \A k \in 1 .. (Len(q) - 1) : q2[k] = IF k < i THEN q[k] ELSE q[k + 1]

Marked(q2, q) ==
  /\ q2 \in Seq(QueueTask) /\ DOMAIN q2 = DOMAIN q
  /\ \A k \in DOMAIN q :
       /\ q2[k].bundle = q[k].bundle /\ q2[k].priority = q[k].priority
       /\ q2[k].at = q[k].at /\ q2[k].by = q[k].by

(* InsertAt and RemoveAt put a task at its place, and take one from its     *)
(* place.                                                                   *)
LEMMA InsertedAt ==
  ASSUME NEW q \in Seq(QueueTask), NEW e \in QueueTask, NEW i \in 1 .. (Len(q) + 1)
  PROVE  Put(O!InsertAt(q, i, e), q, i, e)
<1> DEFINE T == QueueTask
           before == SubSeq(q, 1, i - 1)
           after == SubSeq(q, i, Len(q))
           one == <<e>>
           front == before \o one
           all2 == front \o after
<1>1. Len(q) \in Nat /\ i \in Int /\ \A k \in 1 .. Len(q) : q[k] \in T
  BY LenProperties
<1>2. /\ before \in Seq(T) /\ Len(before) = i - 1
      /\ \A k \in 1 .. (i - 1) : before[k] = q[k]
  <2>1. \A k \in 1 .. (i - 1) : q[k] \in T
    BY <1>1
  <2> QED BY <1>1, <2>1, SubSeqProperties
<1>3. /\ after \in Seq(T) /\ Len(after) = Len(q) - i + 1
      /\ \A k \in 1 .. (Len(q) - i + 1) : after[k] = q[i + k - 1]
  <2>1. \A k \in i .. Len(q) : q[k] \in T
    BY <1>1
  <2> QED BY <1>1, <2>1, SubSeqProperties
<1>4. one \in Seq(T) /\ Len(one) = 1 /\ one[1] = e
  OBVIOUS
<1> HIDE DEF before, after, one
<1>5. /\ front \in Seq(T) /\ Len(front) = i
      /\ \A k \in 1 .. i : front[k] = IF k < i THEN q[k] ELSE e
  <2>1. /\ front \in Seq(T) /\ Len(front) = (i - 1) + 1
        /\ \A k \in 1 .. i : front[k] = IF k <= i - 1 THEN before[k] ELSE one[k - (i - 1)]
    <3>1. front = before \o one
      OBVIOUS
    <3>2. /\ before \o one \in Seq(T) /\ Len(before \o one) = Len(before) + Len(one)
          /\ \A k \in 1 .. Len(before) + Len(one) : (before \o one)[k] =
               IF k <= Len(before) THEN before[k] ELSE one[k - Len(before)]
      BY <1>2, <1>4, ConcatProperties
    <3> HIDE DEF front
    <3> QED BY <1>2, <1>4, <3>1, <3>2
  <2> HIDE DEF front
  <2> QED BY <1>1, <1>2, <1>4, <2>1
<1> HIDE DEF front
<1>6. /\ all2 \in Seq(T) /\ Len(all2) = Len(q) + 1
      /\ \A k \in 1 .. (Len(q) + 1) : all2[k] = IF k <= i THEN front[k] ELSE after[k - i]
  <2>1. all2 = front \o after
    OBVIOUS
  <2>2. /\ front \o after \in Seq(T) /\ Len(front \o after) = Len(front) + Len(after)
        /\ \A k \in 1 .. Len(front) + Len(after) : (front \o after)[k] =
             IF k <= Len(front) THEN front[k] ELSE after[k - Len(front)]
    BY <1>3, <1>5, ConcatProperties
  <2> HIDE DEF all2
  <2>3. Len(front) = i /\ Len(front) + Len(after) = Len(q) + 1
    BY <1>1, <1>3, <1>5
  <2> QED BY <2>1, <2>2, <2>3
<1>7. O!InsertAt(q, i, e) = all2
  BY DEF O!InsertAt, all2, front, before, after, one
<1> HIDE DEF all2
<1>8. \A k \in 1 .. (Len(q) + 1) : all2[k] =
        IF k < i THEN q[k] ELSE IF k = i THEN e ELSE q[k - 1]
  <2> TAKE k \in 1 .. (Len(q) + 1)
  <2>1. CASE k <= i
    BY <1>1, <1>5, <1>6, <2>1
  <2>2. CASE k > i
    <3>1. k - i \in 1 .. (Len(q) - i + 1) /\ i + (k - i) - 1 = k - 1
      BY <1>1, <2>2
    <3> QED BY <1>1, <1>3, <1>6, <2>2, <3>1
  <2> QED BY <1>1, <2>1, <2>2
<1>9. DOMAIN all2 = 1 .. (Len(q) + 1)
  BY <1>6, LenProperties
<1> QED BY <1>6, <1>7, <1>8, <1>9 DEF Put

LEMMA RemovedAt ==
  ASSUME NEW q \in Seq(QueueTask), NEW i \in 1 .. Len(q)
  PROVE  Removed(O!RemoveAt(q, i), q, i)
<1> DEFINE T == QueueTask
           before == SubSeq(q, 1, i - 1)
           after == SubSeq(q, i + 1, Len(q))
           all2 == before \o after
<1>1. Len(q) \in Nat /\ i \in Int /\ \A k \in 1 .. Len(q) : q[k] \in T
  BY LenProperties
<1>2. /\ before \in Seq(T) /\ Len(before) = i - 1
      /\ \A k \in 1 .. (i - 1) : before[k] = q[k]
  <2>1. \A k \in 1 .. (i - 1) : q[k] \in T
    BY <1>1
  <2> QED BY <1>1, <2>1, SubSeqProperties
<1>3. /\ after \in Seq(T) /\ Len(after) = Len(q) - i
      /\ \A k \in 1 .. (Len(q) - i) : after[k] = q[i + k]
  <2>1. \A k \in (i + 1) .. Len(q) : q[k] \in T
    BY <1>1
  <2>2. /\ after \in Seq(T)
        /\ Len(after) = IF i + 1 <= Len(q) THEN Len(q) - (i + 1) + 1 ELSE 0
        /\ \A k \in 1 .. (Len(q) - (i + 1) + 1) : after[k] = q[(i + 1) + k - 1]
    BY <1>1, <2>1, SubSeqProperties
  <2> HIDE DEF after
  <2> QED BY <1>1, <2>2
<1> HIDE DEF before, after
<1>4. /\ all2 \in Seq(T) /\ Len(all2) = Len(q) - 1
      /\ \A k \in 1 .. (Len(q) - 1) : all2[k] =
           IF k <= i - 1 THEN before[k] ELSE after[k - (i - 1)]
  <2>1. all2 = before \o after
    OBVIOUS
  <2>2. /\ before \o after \in Seq(T) /\ Len(before \o after) = Len(before) + Len(after)
        /\ \A k \in 1 .. Len(before) + Len(after) : (before \o after)[k] =
             IF k <= Len(before) THEN before[k] ELSE after[k - Len(before)]
    BY <1>2, <1>3, ConcatProperties
  <2> HIDE DEF all2
  <2>3. Len(before) = i - 1 /\ Len(before) + Len(after) = Len(q) - 1
    BY <1>1, <1>2, <1>3
  <2> QED BY <2>1, <2>2, <2>3
<1>5. O!RemoveAt(q, i) = all2
  BY DEF O!RemoveAt, all2, before, after
<1> HIDE DEF all2
<1>6. \A k \in 1 .. (Len(q) - 1) : all2[k] = IF k < i THEN q[k] ELSE q[k + 1]
  <2> TAKE k \in 1 .. (Len(q) - 1)
  <2>1. CASE k < i
    BY <1>1, <1>2, <1>4, <2>1
  <2>2. CASE k >= i
    <3>1. k - (i - 1) \in 1 .. (Len(q) - i) /\ i + (k - (i - 1)) = k + 1
      BY <1>1, <2>2
    <3> QED BY <1>1, <1>3, <1>4, <2>2, <3>1
  <2> QED BY <1>1, <2>1, <2>2
<1>7. DOMAIN all2 = 1 .. (Len(q) - 1)
  BY <1>4, LenProperties
<1> QED BY <1>4, <1>5, <1>6, <1>7 DEF Removed

(* One of the tasks has the lowest priority.                                *)
LEMMA LowestIs ==
  ASSUME NEW q \in Seq(QueueTask)
  PROVE  O!Lowest(q) \in Int
<1> DEFINE Has(n) == \E m \in 1 .. n : \A k \in 1 .. n : q[m].priority <= q[k].priority
           Lacks == {n \in 1 .. Len(q) : ~Has(n)}
<1>1. Len(q) \in Nat /\ DOMAIN q = 1 .. Len(q) /\ \A k \in 1 .. Len(q) : q[k].priority \in Int
  <2>1. Len(q) \in Nat /\ DOMAIN q = 1 .. Len(q)
    BY LenProperties
  <2>2. \A k \in 1 .. Len(q) : q[k] \in QueueTask
    BY ElementOfSeq
  <2> QED BY <2>1, <2>2 DEF QueueTask
<1>2. Lacks = {}
  <2>1. SUFFICES ASSUME Lacks # {} PROVE FALSE
    OBVIOUS
  <2>2. Lacks \in SUBSET Nat
    BY <1>1
  <2>3. PICK n \in Lacks : \A m \in Lacks : n <= m
    <3> HIDE DEF Lacks
    <3> QED BY <2>1, <2>2, Least
  <2>6. n \in 1 .. Len(q) /\ n \in Nat /\ n >= 1 /\ Len(q) \in Nat /\ ~Has(n)
    BY <1>1, <2>3
  <2>4. CASE n = 1
    BY <1>1, <2>6, <2>4
  <2>5. CASE n # 1
    <3>1. n - 1 \in 1 .. Len(q) /\ Has(n - 1)
      <4>1. n - 1 \in 1 .. Len(q)
        BY <2>5, <2>6
      <4>2. n - 1 \notin Lacks
        <5> HIDE DEF Lacks
        <5> QED BY <2>3, <2>6
      <4> QED BY <4>1, <4>2
    <3>2. PICK m \in 1 .. (n - 1) : \A k \in 1 .. (n - 1) : q[m].priority <= q[k].priority
      BY <3>1
    <3>3. /\ m \in 1 .. n /\ n \in 1 .. n /\ m \in 1 .. Len(q)
          /\ \A k \in 1 .. n : k = n \/ k \in 1 .. (n - 1)
          /\ \A k \in 1 .. n : k \in 1 .. Len(q)
      BY <2>5, <2>6
    <3>4. q[m].priority \in Int /\ q[n].priority \in Int
      BY <1>1, <2>6, <3>3
    <3> HIDE DEF Lacks
    <3>5. CASE q[m].priority <= q[n].priority
      BY <2>6, <3>2, <3>3, <3>5
    <3>6. CASE q[n].priority < q[m].priority
      <4>1. \A k \in 1 .. n : q[n].priority <= q[k].priority
        BY <1>1, <3>2, <3>3, <3>4, <3>6
      <4> QED BY <2>6, <3>3, <4>1
    <3> QED BY <3>4, <3>5, <3>6
  <2> QED BY <2>4, <2>5
<1>3. CASE q = <<>>
  BY <1>3 DEF O!Lowest
<1>4. CASE q # <<>>
  <2>1. Len(q) \in 1 .. Len(q)
    BY <1>1, <1>4, EmptySeq
  <2>2. PICK m \in 1 .. Len(q) : \A k \in 1 .. Len(q) : q[m].priority <= q[k].priority
    BY <1>2, <2>1
  <2> DEFINE S == {q[i].priority : i \in DOMAIN q}
  <2>3. q[m].priority \in S /\ (\A x \in S : q[m].priority <= x) /\ S \subseteq Int
    BY <1>1, <2>2
  <2>4. O!Min(S) \in S
    BY <2>3 DEF O!Min
  <2> QED BY <1>4, <2>3, <2>4 DEF O!Lowest
<1> QED BY <1>3, <1>4
-----------------------------------------------------------------------------
(* A queue keeps its order when one task leaves it.                         *)
LEMMA RemovalKeeps ==
  ASSUME NEW q \in Seq(QueueTask), NEW i \in 1 .. Len(q), NEW q2, Removed(q2, q, i),
         NEW n \in Nat
  PROVE  /\ InOrder(q) => InOrder(q2)
         /\ Came(q, n) => Came(q2, n)
         /\ O!Ranked(q) => O!Ranked(q2)
<1> DEFINE f(k) == IF k < i THEN k ELSE k + 1
<1>1. Len(q) \in Nat /\ DOMAIN q = 1 .. Len(q) /\ i \in Int
  BY LenProperties
<1>2. \A k \in DOMAIN q2 : f(k) \in DOMAIN q /\ q2[k] = q[f(k)]
  BY <1>1 DEF Removed
<1>3. \A k, l \in DOMAIN q2 : k < l => f(k) < f(l)
  BY <1>1 DEF Removed
<1> HIDE DEF f
<1>4. InOrder(q) => InOrder(q2)
  BY <1>2, <1>3 DEF InOrder
<1>5. Came(q, n) => Came(q2, n)
  BY <1>2 DEF Came
<1>6. O!Ranked(q) => O!Ranked(q2)
  BY <1>2, <1>3 DEF O!Ranked
<1> QED BY <1>4, <1>5, <1>6

(* Flags change no order.                                                   *)
LEMMA MarkKeeps ==
  ASSUME NEW q, NEW q2, Marked(q2, q), NEW n \in Nat
  PROVE  /\ InOrder(q) => InOrder(q2)
         /\ Came(q, n) => Came(q2, n)
         /\ O!Ranked(q) => O!Ranked(q2)
BY DEF Marked, InOrder, Came, O!Ranked

(* A task put behind those of its bundle, before them, or moved, keeps the  *)
(* order they came in.                                                      *)
LEMMA PutKeepsOrder ==
  ASSUME NEW q \in Seq(QueueTask), NEW i \in 1 .. (Len(q) + 1), NEW e, NEW q2,
         Put(q2, q, i, e),
         InOrder(q),
         \A k \in DOMAIN q : q[k].bundle = e.bundle =>
           \/ k < i /\ q[k].at < e.at
           \/ k >= i /\ e.by = "first"
           \/ e.by = "moved"
  PROVE  InOrder(q2)
<1> DEFINE f(k) == IF k < i THEN k ELSE k - 1
<1>1. Len(q) \in Nat /\ DOMAIN q = 1 .. Len(q) /\ i \in Int
  BY LenProperties
<1>2. \A k \in DOMAIN q2 : k # i => f(k) \in DOMAIN q /\ q2[k] = q[f(k)]
  BY <1>1 DEF Put
<1>3. q2[i] = e /\ \A k \in DOMAIN q2 : k \in Int
  BY <1>1 DEF Put
<1>4. \A k, l \in DOMAIN q2 : k < l /\ k # i /\ l # i => f(k) < f(l)
  BY <1>1 DEF Put
<1>5. \A k \in DOMAIN q2 : (k < i => f(k) < i) /\ (k > i => f(k) >= i)
  BY <1>1 DEF Put
<1> HIDE DEF f
<1>6. SUFFICES ASSUME NEW k \in DOMAIN q2, NEW l \in DOMAIN q2, k < l,
                      q2[k].bundle = q2[l].bundle, q2[k].by \notin {"moved", "first"},
                      q2[l].by # "moved"
               PROVE  q2[k].at < q2[l].at
  BY DEF InOrder
<1>7. CASE k # i /\ l # i
  BY <1>2, <1>4, <1>6, <1>7 DEF InOrder
<1>8. CASE k = i
  <2>1. f(l) \in DOMAIN q /\ q2[l] = q[f(l)] /\ ~(f(l) < i)
    BY <1>1, <1>2, <1>3, <1>5, <1>6, <1>8
  <2> QED BY <1>3, <1>6, <1>8, <2>1
<1>9. CASE l = i
  <2>1. f(k) \in DOMAIN q /\ q2[k] = q[f(k)] /\ ~(f(k) >= i)
    BY <1>1, <1>2, <1>3, <1>5, <1>6, <1>9
  <2> QED BY <1>3, <1>6, <1>9, <2>1
<1> QED BY <1>7, <1>8, <1>9

(* A task put that came before the next one leaves all so.                  *)
LEMMA PutCame ==
  ASSUME NEW q \in Seq(QueueTask), NEW i \in 1 .. (Len(q) + 1), NEW e, NEW q2,
         Put(q2, q, i, e),
         NEW n \in Nat, Came(q, n), e.at < n
  PROVE  Came(q2, n)
<1>1. Len(q) \in Nat /\ DOMAIN q = 1 .. Len(q) /\ i \in Int
  BY LenProperties
<1> QED BY <1>1 DEF Put, Came

(* A task between those of a higher priority and those of a lower one keeps *)
(* the queue in the order of priority.                                      *)
LEMMA PutKeepsRank ==
  ASSUME NEW q \in Seq(QueueTask), NEW i \in 1 .. (Len(q) + 1), NEW e, NEW q2,
         Put(q2, q, i, e),
         O!Ranked(q),
         \A k \in DOMAIN q : k < i => q[k].priority >= e.priority,
         \A k \in DOMAIN q : k >= i => e.priority >= q[k].priority
  PROVE  O!Ranked(q2)
<1> DEFINE f(k) == IF k < i THEN k ELSE k - 1
<1>1. Len(q) \in Nat /\ DOMAIN q = 1 .. Len(q) /\ i \in Int
  BY LenProperties
<1>2. \A k \in DOMAIN q2 : k # i => f(k) \in DOMAIN q /\ q2[k] = q[f(k)]
  BY <1>1 DEF Put
<1>3. q2[i] = e /\ \A k \in DOMAIN q2 : k \in Int
  BY <1>1 DEF Put
<1>4. \A k, l \in DOMAIN q2 : k < l /\ k # i /\ l # i => f(k) < f(l)
  BY <1>1 DEF Put
<1>5. \A k \in DOMAIN q2 : (k < i => f(k) < i) /\ (k > i => f(k) >= i)
  BY <1>1 DEF Put
<1> HIDE DEF f
<1>6. SUFFICES ASSUME NEW k \in DOMAIN q2, NEW l \in DOMAIN q2, k < l
               PROVE  q2[k].priority >= q2[l].priority
  BY DEF O!Ranked
<1>7. CASE k # i /\ l # i
  BY <1>2, <1>4, <1>6, <1>7 DEF O!Ranked
<1>8. CASE k = i
  <2>1. f(l) \in DOMAIN q /\ q2[l] = q[f(l)] /\ f(l) >= i
    BY <1>1, <1>2, <1>3, <1>5, <1>6, <1>8
  <2> QED BY <1>3, <1>6, <1>8, <2>1
<1>9. CASE l = i
  <2>1. f(k) \in DOMAIN q /\ q2[k] = q[f(k)] /\ f(k) < i
    BY <1>1, <1>2, <1>3, <1>5, <1>6, <1>9
  <2> QED BY <1>3, <1>6, <1>9, <2>1
<1> QED BY <1>7, <1>8, <1>9

-----------------------------------------------------------------------------
(* Where a request goes: before the tasks of its bundle, or behind them, and *)
(* behind all that are as urgent.                                           *)
LEMMA PlaceIs ==
  ASSUME QueueInv, NEW r \in asked
  PROVE  /\ O!PlaceOf(r) \in 1 .. (Len(queue) + 1)
         /\ O!HowPut(r) \in {"sent", "behind", "first"}
         /\ O!HowPut(r) = "first" =>
              \A k \in DOMAIN queue : queue[k].bundle = r.bundle => k >= O!PlaceOf(r)
         /\ O!HowPut(r) # "first" =>
              \A k \in DOMAIN queue : queue[k].bundle = r.bundle => k < O!PlaceOf(r)
         /\ O!HowPut(r) = "sent" =>
              /\ \A k \in DOMAIN queue : k < O!PlaceOf(r) => queue[k].priority >= r.priority
              /\ O!PlaceOf(r) <= Len(queue) => queue[O!PlaceOf(r)].priority < r.priority
<1> DEFINE n == Len(queue)
           mine == O!PlacesOf(queue, r.bundle)
           lower == {i \in DOMAIN queue : queue[i].priority < r.priority} \cup {n + 1}
           after == {O!ByPriority(r.priority)} \cup {i + 1 : i \in mine}
<1>1. n \in Nat /\ DOMAIN queue = 1 .. n /\ r.priority \in Int
  BY LenProperties DEF QueueInv
<1>2. \A k \in DOMAIN queue : queue[k].priority \in Int
  <2>1. \A k \in DOMAIN queue : queue[k] \in QueueTask
    BY ElementOfSeq, <1>1 DEF QueueInv
  <2> QED BY <2>1 DEF QueueTask
<1>3. mine \in SUBSET Nat /\ mine \subseteq 1 .. n
  BY <1>1 DEF O!PlacesOf
<1>4. /\ O!ByPriority(r.priority) \in 1 .. (n + 1)
      /\ \A k \in DOMAIN queue : k < O!ByPriority(r.priority) => queue[k].priority >= r.priority
      /\ O!ByPriority(r.priority) <= n => queue[O!ByPriority(r.priority)].priority < r.priority
  <2>1. lower \in SUBSET Nat /\ lower # {} /\ lower \subseteq 1 .. (n + 1)
    BY <1>1
  <2>2. O!ByPriority(r.priority) = O!Min(lower)
    BY DEF O!ByPriority
  <2>3. O!Min(lower) \in lower /\ \A m \in lower : O!Min(lower) <= m
    <3> HIDE DEF lower
    <3> QED BY <2>1, MinIs
  <2>4. O!Min(lower) \in 1 .. (n + 1)
    BY <2>1, <2>3
  <2>5. ASSUME NEW k \in DOMAIN queue, k < O!Min(lower)
        PROVE  queue[k].priority >= r.priority
    <3>1. k \notin lower
      <4> HIDE DEF lower
      <4> QED BY <1>1, <2>3, <2>4, <2>5
    <3> QED BY <1>1, <1>2, <3>1
  <2>6. O!Min(lower) <= n => queue[O!Min(lower)].priority < r.priority
    BY <1>1, <2>3, <2>4
  <2> QED BY <2>2, <2>4, <2>5, <2>6
<1>5. CASE r.first /\ mine # {}
  <2>1. O!PlaceOf(r) = O!Min(mine) /\ O!HowPut(r) = "first"
    BY <1>5 DEF O!PlaceOf, O!HowPut
  <2>2. O!Min(mine) \in mine /\ \A m \in mine : O!Min(mine) <= m
    <3> HIDE DEF mine
    <3> QED BY <1>3, <1>5, MinIs
  <2>3. \A k \in DOMAIN queue : queue[k].bundle = r.bundle => k \in mine
    BY DEF O!PlacesOf
  <2>4. O!Min(mine) \in 1 .. (n + 1)
    BY <1>1, <1>3, <2>2
  <2>5. \A k \in DOMAIN queue : queue[k].bundle = r.bundle => k >= O!Min(mine)
    BY <1>1, <2>2, <2>3, <2>4
  <2> QED BY <2>1, <2>4, <2>5
<1>6. CASE ~(r.first /\ mine # {})
  <2>1. /\ O!PlaceOf(r) = O!Max(after)
        /\ O!HowPut(r) = IF O!PlaceOf(r) = O!ByPriority(r.priority) THEN "sent" ELSE "behind"
    BY <1>6 DEF O!PlaceOf, O!HowPut, O!Behind
  <2>2. after \in SUBSET (0 .. (n + 1)) /\ after # {} /\ after \subseteq 1 .. (n + 1)
    BY <1>1, <1>3, <1>4
  <2>3. O!Max(after) \in after /\ \A m \in after : O!Max(after) >= m
    <3>1. n + 1 \in Nat
      BY <1>1
    <3> HIDE DEF after
    <3> QED BY <2>2, <3>1, MaxIs
  <2>4. \A k \in DOMAIN queue : queue[k].bundle = r.bundle => k + 1 \in after
    BY DEF O!PlacesOf
  <2>5. O!Max(after) \in 1 .. (n + 1)
    BY <2>2, <2>3
  <2>6. ASSUME NEW k \in DOMAIN queue, queue[k].bundle = r.bundle PROVE k < O!Max(after)
    <3>1. k + 1 \in after /\ k \in Int
      BY <1>1, <2>4, <2>6
    <3> HIDE DEF after
    <3> QED BY <1>1, <2>3, <2>5, <3>1
  <2> HIDE DEF after, mine
  <2> QED BY <1>4, <2>1, <2>5, <2>6
<1> QED BY <1>5, <1>6

-----------------------------------------------------------------------------
(* What the steps keep, and the theorem.                                    *)
Kept == QueueInv' /\ (O!Ranked(queue) /\ ~O!Strays(queue') => O!Ranked(queue'))

RequestSet ==
  [bundle : Queued, parent : O!Callers, priority : Int, resume : BOOLEAN, first : BOOLEAN]

(* What the queue holds, and the task of a bundle that a caller may change. *)
LEMMA QueuedTasks ==
  ASSUME QueueInv
  PROVE  /\ Len(queue) \in Nat /\ DOMAIN queue = 1 .. Len(queue)
         /\ \A i \in DOMAIN queue : queue[i] \in QueueTask
BY LenProperties, ElementOfSeq DEF QueueInv

LEMMA QueuedIs ==
  ASSUME QueueInv, NEW c, NEW b, NEW i \in O!QueuedTask(c, b)
  PROVE  i \in DOMAIN queue
<1> DEFINE mine == {k \in O!PlacesOf(queue, b) : O!MayChange(c, k)}
<1>1. mine \in SUBSET Nat /\ mine \subseteq DOMAIN queue
  BY QueuedTasks DEF O!PlacesOf
<1>2. mine # {} /\ i = O!Min(mine)
  BY DEF O!QueuedTask
<1> HIDE DEF mine
<1> QED BY <1>1, <1>2, MinIs

(* A step that leaves the queue alone.                                      *)
LEMMA QueueStays ==
  ASSUME QueueInv, queue' = queue, orderSent' = orderSent,
         asked' \subseteq RequestSet,
         files' \in [Queued -> QueueTask \cup {NoTask}],
         \A b \in Queued : files'[b] # NoTask => files'[b].at < orderSent
  PROVE  Kept
BY DEF Kept, QueueInv, RequestSet, InOrder, Came

(* A step that takes a task off the queue.                                  *)
LEMMA TaskLeaves ==
  ASSUME QueueInv, NEW i \in DOMAIN queue, queue' = O!RemoveAt(queue, i),
         orderSent' = orderSent, asked' = asked,
         files' \in [Queued -> QueueTask \cup {NoTask}],
         \A b \in Queued : files'[b] # NoTask => files'[b].at < orderSent
  PROVE  Kept
<1>1. queue \in Seq(QueueTask) /\ i \in 1 .. Len(queue) /\ orderSent \in Nat
  BY QueuedTasks DEF QueueInv
<1>2. Removed(queue', queue, i)
  BY <1>1, RemovedAt
<1>3. queue' \in Seq(QueueTask)
  BY <1>2 DEF Removed
<1>4. /\ InOrder(queue) => InOrder(queue')
      /\ Came(queue, orderSent) => Came(queue', orderSent)
      /\ O!Ranked(queue) => O!Ranked(queue')
  BY <1>1, <1>2, RemovalKeeps
<1>5. InOrder(queue)' = InOrder(queue') /\ Came(queue, orderSent)' = Came(queue', orderSent')
  BY DEF InOrder, Came
<1> QED BY <1>3, <1>4, <1>5 DEF Kept, QueueInv

(* A step that changes the flags of tasks.                                  *)
LEMMA FlagsChange ==
  ASSUME QueueInv, Marked(queue', queue), UNCHANGED <<asked, files, orderSent>>
  PROVE  Kept
<1>1. queue' \in Seq(QueueTask)
  BY DEF Marked
<1>2. /\ InOrder(queue) => InOrder(queue')
      /\ Came(queue, orderSent) => Came(queue', orderSent)
      /\ O!Ranked(queue) => O!Ranked(queue')
  BY MarkKeeps DEF QueueInv
<1>3. InOrder(queue)' = InOrder(queue') /\ Came(queue, orderSent)' = Came(queue', orderSent')
  BY DEF InOrder, Came
<1> QED BY <1>1, <1>2, <1>3 DEF Kept, QueueInv

(* So does one that changes the flags of one task.                          *)
LEMMA FlagsOfOne ==
  ASSUME QueueInv, NEW i \in DOMAIN queue, NEW t \in QueueTask,
         queue' = [queue EXCEPT ![i] = t],
         t.bundle = queue[i].bundle, t.priority = queue[i].priority,
         t.at = queue[i].at, t.by = queue[i].by
  PROVE  Marked(queue', queue)
<1>1. queue \in Seq(QueueTask)
  BY DEF QueueInv
<1>2. queue' \in Seq(QueueTask) /\ DOMAIN queue' = DOMAIN queue
  BY <1>1, QueuedTasks
<1>3. \A k \in DOMAIN queue : queue'[k] = IF k = i THEN t ELSE queue[k]
  BY <1>1, QueuedTasks
<1> QED BY <1>2, <1>3 DEF Marked

(* A task sent goes to its place (enqueue).                                 *)
LEMMA EnqueueKeeps ==
  ASSUME QueueInv, NEW r \in asked, O!Enqueue(r)
  PROVE  Kept
<1> DEFINE p == O!PlaceOf(r)
           t == O!Task(r.bundle, r.parent, r.priority, r.resume, orderSent, O!HowPut(r))
<1>1. /\ queue \in Seq(QueueTask) /\ orderSent \in Nat /\ orderSent' = orderSent + 1
      /\ r \in RequestSet /\ asked' \subseteq RequestSet /\ files' = files
  BY DEF QueueInv, RequestSet, O!Enqueue
<1>2. /\ p \in 1 .. (Len(queue) + 1)
      /\ O!HowPut(r) \in {"sent", "behind", "first"}
  BY PlaceIs
<1>3. t \in QueueTask
  BY <1>1, <1>2 DEF QueueTask, RequestSet, O!Task, WaysPut, O!Holds
<1>4. /\ t.bundle = r.bundle /\ t.at = orderSent /\ t.priority = r.priority
      /\ t.by = O!HowPut(r)
  BY DEF O!Task
<1>5. Put(queue', queue, p, t)
  <2>1. queue' = O!InsertAt(queue, p, t)
    BY DEF O!Enqueue
  <2> HIDE DEF p, t
  <2> QED BY <1>1, <1>2, <1>3, <2>1, InsertedAt
<1> HIDE DEF t
<1>6. queue' \in Seq(QueueTask) /\ DOMAIN queue' = 1 .. (Len(queue) + 1)
  BY <1>5 DEF Put
<1>7. Came(queue', orderSent + 1)
  <2>1. Came(queue, orderSent + 1)
    <3>1. \A i \in DOMAIN queue : queue[i].at \in Nat
      BY QueuedTasks DEF QueueTask
    <3> QED BY <1>1, <3>1 DEF QueueInv, Came
  <2>2. t.at < orderSent + 1 /\ orderSent + 1 \in Nat
    BY <1>1, <1>4
  <2> QED BY <1>1, <1>2, <1>5, <2>1, <2>2, PutCame
<1>8. InOrder(queue')
  <2>1. ASSUME NEW k \in DOMAIN queue, queue[k].bundle = t.bundle
        PROVE  \/ k < p /\ queue[k].at < t.at
               \/ k >= p /\ t.by = "first"
               \/ t.by = "moved"
    <3>1. queue[k].at < orderSent
      BY DEF QueueInv, Came
    <3>2. (t.by = "first" => k >= p) /\ (t.by # "first" => k < p)
      <4>1. queue[k].bundle = r.bundle
        BY <1>4, <2>1
      <4>2. CASE O!HowPut(r) = "first"
        BY <1>4, <4>1, <4>2, PlaceIs
      <4>3. CASE O!HowPut(r) # "first"
        BY <1>4, <4>1, <4>3, PlaceIs
      <4> HIDE DEF p, t
      <4> QED BY <4>2, <4>3
    <3> QED BY <1>4, <3>1, <3>2
  <2>2. InOrder(queue)
    BY DEF QueueInv
  <2> QED BY <1>1, <1>2, <1>5, <2>1, <2>2, PutKeepsOrder
<1>9. ASSUME O!Ranked(queue), ~O!Strays(queue') PROVE O!Ranked(queue')
  <2>1. p \in DOMAIN queue' /\ queue'[p] = t
    BY <1>2, <1>5, QueuedTasks DEF Put
  <2>2. O!HowPut(r) = "sent"
    BY <1>2, <1>4, <1>9, <2>1 DEF O!Strays
  <2>3. /\ \A k \in DOMAIN queue : k < p => queue[k].priority >= t.priority
        /\ p <= Len(queue) => queue[p].priority < t.priority
    BY <1>4, <2>2, PlaceIs
  <2>4. \A k \in DOMAIN queue : k >= p => t.priority >= queue[k].priority
    <3> TAKE k \in DOMAIN queue
    <3>1. HAVE k >= p
    <3>2. /\ p \in DOMAIN queue /\ k \in Int /\ p \in Int /\ t.priority \in Int
          /\ queue[k].priority \in Int /\ queue[p].priority \in Int /\ p <= Len(queue)
      BY <1>2, <1>3, <3>1, QueuedTasks DEF QueueTask
    <3>3. queue[p].priority >= queue[k].priority
      BY <1>9, <3>1, <3>2 DEF O!Ranked
    <3> QED BY <2>3, <3>2, <3>3
  <2> HIDE DEF p
  <2> QED BY <1>1, <1>2, <1>5, <1>9, <2>3, <2>4, PutKeepsRank
<1>10. \A b \in Queued : files'[b] # NoTask => files'[b].at < orderSent'
  <2>1. \A b \in Queued : files[b] # NoTask => files[b].at < orderSent /\ files[b].at \in Nat
    BY DEF QueueInv, QueueTask
  <2> QED BY <1>1, <2>1
<1>11. InOrder(queue)' = InOrder(queue') /\ Came(queue, orderSent)' = Came(queue', orderSent')
  BY DEF InOrder, Came
<1> QED BY <1>1, <1>6, <1>7, <1>8, <1>9, <1>10, <1>11 DEF Kept, QueueInv, RequestSet

(* A task moved to a place gets a priority between those around it.         *)
LEMMA MovesKeeps ==
  ASSUME QueueInv, NEW c \in O!Callers, NEW b \in Queued, O!Moves(c, b)
  PROVE  Kept
<1>1. PICK i \in O!QueuedTask(c, b), place \in DOMAIN queue :
        queue' = [O!InsertAt(O!RemoveAt(queue, i), place, queue[i])
                    EXCEPT ![place].priority =
                             O!Clamped(O!InsertAt(O!RemoveAt(queue, i), place, queue[i]), place),
                           ![place].by = "moved"]
  BY DEF O!Moves
<1> DEFINE q == O!RemoveAt(queue, i)
           put == O!InsertAt(q, place, queue[i])
           n == Len(queue)
           fit == O!Clamped(put, place)
           t == [queue[i] EXCEPT !.priority = fit, !.by = "moved"]
<1>2. /\ queue \in Seq(QueueTask) /\ i \in 1 .. n /\ queue[i] \in QueueTask
      /\ n \in Nat /\ place \in 1 .. n /\ orderSent \in Nat
  BY QueuedIs, QueuedTasks DEF QueueInv
<1>3. Removed(q, queue, i) /\ q \in Seq(QueueTask) /\ Len(q) = n - 1
  BY <1>2, RemovedAt DEF Removed
<1>4. InOrder(q) /\ Came(q, orderSent) /\ (O!Ranked(queue) => O!Ranked(q))
  <2> HIDE DEF q
  <2> QED BY <1>2, <1>3, RemovalKeeps DEF QueueInv
<1> HIDE DEF q
<1>20. Put(put, q, place, queue[i])
  <2>1. Len(q) + 1 = n
    BY <1>2, <1>3
  <2>2. place \in 1 .. (Len(q) + 1)
    BY <1>2, <2>1
  <2> QED BY <1>2, <1>3, <2>2, InsertedAt
<1>5. /\ put \in Seq(QueueTask) /\ Len(put) = n /\ DOMAIN put = 1 .. n
      /\ \A k \in 1 .. n : put[k] =
           IF k < place THEN q[k] ELSE IF k = place THEN queue[i] ELSE q[k - 1]
  <2>1. Len(q) + 1 = n
    BY <1>2, <1>3
  <2> HIDE DEF put, n
  <2> QED BY <1>20, <2>1 DEF Put
<1> HIDE DEF put
<1>6. /\ DOMAIN q = 1 .. (n - 1)
      /\ \A k \in 1 .. (n - 1) : q[k].priority \in Int
  <2>1. DOMAIN q = 1 .. (n - 1)
    BY <1>3, LenProperties
  <2>2. \A k \in 1 .. (n - 1) : q[k] \in QueueTask
    BY <1>3, ElementOfSeq
  <2> QED BY <2>1, <2>2 DEF QueueTask
<1>7. queue[i].priority \in Int /\ put[place] = queue[i]
  BY <1>2, <1>5 DEF QueueTask
<1>8. place > 1 => put[place - 1] = q[place - 1] /\ place - 1 \in 1 .. (n - 1)
  BY <1>2, <1>5
<1>9. place < n => put[place + 1] = q[place] /\ place \in 1 .. (n - 1)
  BY <1>2, <1>5
<1> DEFINE own == queue[i].priority
           most == IF place > 1 /\ q[place - 1].priority < own THEN q[place - 1].priority ELSE own
<1>10. /\ most \in Int
       /\ fit = IF place < n /\ q[place].priority > most THEN q[place].priority ELSE most
  <2>1. most \in Int
    BY <1>6, <1>7, <1>8
  <2>2. most = IF place > 1 THEN O!Min({put[place].priority, put[place - 1].priority})
               ELSE put[place].priority
    <3>1. CASE place > 1
      BY <1>6, <1>7, <1>8, <3>1, SmallerOfTwo
    <3>2. CASE ~(place > 1)
      BY <1>7, <3>2
    <3> QED BY <3>1, <3>2
  <2>3. fit = IF place < n THEN O!Max({most, put[place + 1].priority}) ELSE most
    <3> HIDE DEF most
    <3> QED BY <1>5, <2>2 DEF O!Clamped
  <2>4. place < n => q[place].priority \in Int
    BY <1>6, <1>9
  <2> HIDE DEF most, fit
  <2> QED BY <1>9, <2>1, <2>3, <2>4, LargerOfTwo
<1>11. fit \in Int
  <2> HIDE DEF most, fit
  <2> QED BY <1>6, <1>9, <1>10
<1> HIDE DEF fit
<1>12. /\ t \in QueueTask /\ t.by = "moved" /\ t.priority = fit /\ t.at = queue[i].at
  BY <1>2, <1>11 DEF QueueTask, WaysPut
<1>13. Put(queue', q, place, t)
  <2>1. queue' = [put EXCEPT ![place].priority = fit, ![place].by = "moved"]
    BY <1>1 DEF put, q, fit
  <2>2. /\ DOMAIN queue' = 1 .. n
        /\ \A k \in 1 .. n : queue'[k] = IF k = place THEN t ELSE put[k]
    <3>1. put[place] = queue[i] /\ DOMAIN put = 1 .. n
      BY <1>5, <1>7
    <3>2. put[place] \in QueueTask
      BY <1>2, <3>1
    <3> QED BY <2>1, <3>1, <3>2 DEF QueueTask
  <2>3. queue' \in Seq(QueueTask)
    <3>1. queue' = [k \in 1 .. n |-> IF k = place THEN t ELSE put[k]]
      <4>1. put \in [1 .. n -> QueueTask]
        BY <1>5, LenProperties
      <4>2. queue' = [put EXCEPT ![place] = t]
        BY <1>2, <1>7, <2>1, <4>1
      <4> HIDE DEF t
      <4> QED BY <4>1, <4>2
    <3>2. \A k \in 1 .. n : put[k] \in QueueTask
      BY <1>5, ElementOfSeq
    <3> HIDE DEF t
    <3> QED BY <1>2, <1>12, <3>1, <3>2
  <2> HIDE DEF t
  <2> QED BY <1>2, <1>3, <1>5, <2>2, <2>3 DEF Put
<1> HIDE DEF t
<1>14. place \in 1 .. (Len(q) + 1) /\ queue' \in Seq(QueueTask)
  BY <1>2, <1>3, <1>13 DEF Put
<1>15. InOrder(queue')
  BY <1>3, <1>4, <1>12, <1>13, <1>14, PutKeepsOrder
<1>16. Came(queue', orderSent)
  <2>1. t.at < orderSent
    BY <1>2, <1>12, QueuedTasks DEF QueueInv, Came
  <2> QED BY <1>2, <1>3, <1>4, <1>13, <1>14, <2>1, PutCame
<1>17. ASSUME O!Ranked(queue) PROVE O!Ranked(queue')
  <2>1. O!Ranked(q)
    BY <1>4, <1>17
  <2>2. \A k \in DOMAIN q : k < place => q[k].priority >= fit
    <3> TAKE k \in DOMAIN q
    <3>1. HAVE k < place
    <3>2. place > 1 /\ place - 1 \in 1 .. (n - 1) /\ k \in 1 .. (n - 1) /\ k <= place - 1
      BY <1>2, <1>6, <3>1
    <3>3. q[k].priority >= q[place - 1].priority
      BY <1>6, <2>1, <3>2 DEF O!Ranked
    <3>4. most <= q[place - 1].priority
      BY <1>6, <1>7, <3>2
    <3>5. place < n => q[place].priority <= q[place - 1].priority /\ q[place].priority \in Int
      BY <1>6, <1>9, <2>1, <3>2 DEF O!Ranked
    <3> HIDE DEF most
    <3> QED BY <1>6, <1>10, <1>11, <3>2, <3>3, <3>4, <3>5, SMTT(20)
  <2>3. \A k \in DOMAIN q : k >= place => fit >= q[k].priority
    <3> TAKE k \in DOMAIN q
    <3>1. HAVE k >= place
    <3>2. place < n /\ place \in 1 .. (n - 1) /\ k \in 1 .. (n - 1)
      BY <1>2, <1>6, <3>1
    <3>3. q[place].priority >= q[k].priority
      BY <1>6, <2>1, <3>1, <3>2 DEF O!Ranked
    <3> HIDE DEF most
    <3> QED BY <1>6, <1>10, <1>11, <3>2, <3>3
  <2> QED BY <1>3, <1>12, <1>13, <1>14, <2>1, <2>2, <2>3, PutKeepsRank
<1>18. InOrder(queue)' = InOrder(queue') /\ Came(queue, orderSent)' = Came(queue', orderSent')
  BY DEF InOrder, Came
<1>19. UNCHANGED <<asked, files, orderSent>>
  BY DEF O!Moves
<1> QED BY <1>14, <1>15, <1>16, <1>17, <1>18, <1>19 DEF Kept, QueueInv

(* A task taken again goes to the head of a queue with none of its bundle.  *)
LEMMA TakenAgainKeeps ==
  ASSUME QueueInv, NEW b \in Queued, O!TakenAgain(b)
  PROVE  Kept
<1> DEFINE t == O!Task(b, files[b].parent, files[b].priority, FALSE, files[b].at, "head")
<1>1. /\ queue \in Seq(QueueTask) /\ orderSent \in Nat /\ files[b] \in QueueTask
      /\ files[b].at < orderSent
  BY DEF QueueInv, O!TakenAgain, O!Agents
<1>2. t \in QueueTask
  BY <1>1 DEF QueueTask, O!Task, WaysPut, O!Holds
<1>3. t.bundle = b /\ t.by = "head" /\ t.at < orderSent
  BY <1>1 DEF O!Task
<1>4. queue' = <<t>> \o queue /\ UNCHANGED <<asked, orderSent>>
  BY DEF O!TakenAgain
<1>5. /\ files' \in [Queued -> QueueTask \cup {NoTask}]
      /\ \A a \in Queued : files'[a] # NoTask => files'[a].at < orderSent
  <2>1. files \in [Queued -> QueueTask \cup {NoTask}] /\ files' = [files EXCEPT ![b] = NoTask]
    BY DEF QueueInv, O!TakenAgain
  <2> QED BY <2>1 DEF QueueInv
<1> HIDE DEF t
<1>6. Put(queue', queue, 1, t) /\ Len(queue) \in Nat
  <2>1. <<t>> \in Seq(QueueTask) /\ Len(<<t>>) = 1 /\ <<t>>[1] = t
    BY <1>2
  <2>2. /\ queue' \in Seq(QueueTask) /\ Len(queue') = Len(queue) + 1
        /\ \A k \in 1 .. (1 + Len(queue)) : queue'[k] = IF k <= 1 THEN <<t>>[k] ELSE queue[k - 1]
    BY <1>1, <1>4, <2>1, ConcatProperties, QueuedTasks
  <2>3. DOMAIN queue' = 1 .. (Len(queue) + 1)
    BY <2>2, LenProperties
  <2> QED BY <2>1, <2>2, <2>3, QueuedTasks DEF Put
<1>7. InOrder(queue')
  <2>1. \A k \in DOMAIN queue : queue[k].bundle # b
    BY DEF O!TakenAgain, O!PlacesOf
  <2>2. InOrder(queue) /\ 1 \in 1 .. (Len(queue) + 1)
    BY <1>6 DEF QueueInv
  <2> QED BY <1>1, <1>3, <1>6, <2>1, <2>2, PutKeepsOrder
<1>8. Came(queue', orderSent)
  <2>1. Came(queue, orderSent) /\ 1 \in 1 .. (Len(queue) + 1)
    BY <1>6 DEF QueueInv
  <2> QED BY <1>1, <1>3, <1>6, <2>1, PutCame
<1>9. O!Strays(queue')
  <2>1. 1 \in DOMAIN queue' /\ queue'[1] = t
    BY <1>6 DEF Put
  <2> QED BY <1>3, <2>1 DEF O!Strays
<1>10. InOrder(queue)' = InOrder(queue') /\ Came(queue, orderSent)' = Came(queue', orderSent')
  BY DEF InOrder, Came
<1>11. queue' \in Seq(QueueTask)
  BY <1>6 DEF Put
<1> QED BY <1>4, <1>5, <1>7, <1>8, <1>9, <1>10, <1>11 DEF Kept, QueueInv

(* The queue is in order first, and after each step.                        *)
LEMMA InitOrdered == O!Init => QueueInv
<1>1. <<>> \in Seq(QueueTask) /\ DOMAIN <<>> = {}
  BY EmptySeq
<1> QED BY <1>1 DEF O!Init, QueueInv, InOrder, Came

LEMMA StepOrdered ==
  ASSUME QueueInv, O!Next
  PROVE  Kept
<1>1. /\ queue \in Seq(QueueTask) /\ asked \subseteq RequestSet /\ orderSent \in Nat
      /\ files \in [Queued -> QueueTask \cup {NoTask}]
      /\ \A b \in Queued : files[b] # NoTask => files[b].at < orderSent
  BY DEF QueueInv, RequestSet
<1>2. ASSUME NEW c \in O!Callers, NEW b \in Queued, O!Sends(c, b) PROVE Kept
  <2>1. PICK p \in Priorities, resume \in BOOLEAN :
          asked' = asked \union {O!Request(b, c, p, resume, FALSE)}
    BY <1>2 DEF O!Sends
  <2>2. O!Request(b, c, p, resume, FALSE) \in RequestSet
    BY <1>2, QueueAssumption DEF O!Request, RequestSet
  <2>3. asked' \subseteq RequestSet
    BY <1>1, <2>1, <2>2
  <2> QED BY <1>1, <1>2, <2>3, QueueStays DEF O!Sends
<1>3. ASSUME NEW b \in Queued, O!Requeues(b) PROVE Kept
  <2>1. O!Lowest(queue) \in Int
    BY <1>1, LowestIs
  <2>2. O!Request(b, Host, O!Lowest(queue), TRUE, FALSE) \in RequestSet
    BY <2>1 DEF O!Request, O!Callers, RequestSet
  <2>3. asked' \subseteq RequestSet
    BY <1>1, <1>3, <2>2 DEF O!Requeues
  <2> QED BY <1>1, <1>3, <2>3, QueueStays DEF O!Requeues
<1>4. ASSUME NEW b \in Queued, O!PutsFirst(b) PROVE Kept
  <2>1. files[b] \in QueueTask
    BY <1>1, <1>4 DEF O!PutsFirst, O!Agents
  <2>2. O!Request(b, Host, files[b].priority, TRUE, TRUE) \in RequestSet
    BY <2>1 DEF O!Request, O!Callers, RequestSet, QueueTask
  <2>3. asked' \subseteq RequestSet
    BY <1>1, <1>4, <2>2 DEF O!PutsFirst
  <2> QED BY <1>1, <1>4, <2>3, QueueStays DEF O!PutsFirst
<1>5. ASSUME NEW b \in Queued, O!Ends(b) PROVE Kept
  <2>1. /\ files' \in [Queued -> QueueTask \cup {NoTask}]
        /\ \A a \in Queued : files'[a] # NoTask => files'[a].at < orderSent
    BY <1>1, <1>5 DEF O!Ends
  <2> QED BY <1>1, <1>5, <2>1, QueueStays DEF O!Ends
<1>6. ASSUME NEW i \in DOMAIN queue, O!Starts(i) PROVE Kept
  <2> DEFINE t == [queue[i] EXCEPT !.forced = FALSE]
  <2>1. t \in QueueTask /\ t.at < orderSent
    BY QueuedTasks DEF QueueTask, QueueInv, Came
  <2>2. files' = [files EXCEPT ![queue[i].bundle] = t]
    BY <1>6 DEF O!Starts
  <2> HIDE DEF t
  <2>3. /\ files' \in [Queued -> QueueTask \cup {NoTask}]
        /\ \A a \in Queued : files'[a] # NoTask => files'[a].at < orderSent
    BY <1>1, <2>1, <2>2
  <2> QED BY <1>6, <2>3, TaskLeaves DEF O!Starts
<1>7. ASSUME NEW c \in O!Callers, NEW b \in Queued, O!Unqueues(c, b) PROVE Kept
  <2>1. PICK i \in O!QueuedTask(c, b) : queue' = O!RemoveAt(queue, i)
    BY <1>7 DEF O!Unqueues
  <2>2. i \in DOMAIN queue
    BY QueuedIs
  <2> QED BY <1>1, <1>7, <2>1, <2>2, TaskLeaves DEF O!Unqueues
<1>8. ASSUME NEW c \in O!Callers, NEW b \in Queued, O!Schedules(c, b) PROVE Kept
  <2>1. PICK i \in O!QueuedTask(c, b), hold \in {"no", "time", "manual"} :
          queue' = [queue EXCEPT ![i].hold = hold, ![i].forced = FALSE]
    BY <1>8 DEF O!Schedules
  <2>2. i \in DOMAIN queue
    BY QueuedIs
  <2> DEFINE t == [queue[i] EXCEPT !.hold = hold, !.forced = FALSE]
  <2>3. /\ t \in QueueTask /\ t.bundle = queue[i].bundle /\ t.priority = queue[i].priority
        /\ t.at = queue[i].at /\ t.by = queue[i].by
    BY <2>2, QueuedTasks DEF QueueTask, O!Holds
  <2>4. queue' = [queue EXCEPT ![i] = t]
    BY <2>1, <2>2, QueuedTasks DEF QueueTask
  <2> HIDE DEF t
  <2> QED BY <1>8, <2>2, <2>3, <2>4, FlagsOfOne, FlagsChange DEF O!Schedules
<1>9. ASSUME NEW which \in SUBSET DOMAIN queue, O!Forces(which) PROVE Kept
  <2> DEFINE t(i) == IF i \in which THEN [queue[i] EXCEPT !.forced = TRUE, !.hold = "no"]
                     ELSE queue[i]
  <2>1. queue' = [i \in DOMAIN queue |-> t(i)]
    BY <1>9 DEF O!Forces
  <2>2. \A i \in DOMAIN queue :
          /\ t(i) \in QueueTask /\ t(i).bundle = queue[i].bundle
          /\ t(i).priority = queue[i].priority /\ t(i).at = queue[i].at /\ t(i).by = queue[i].by
    BY QueuedTasks DEF QueueTask, O!Holds
  <2> HIDE DEF t
  <2>3. queue' \in Seq(QueueTask)
    BY <2>1, <2>2, QueuedTasks
  <2>4. Marked(queue', queue)
    BY <2>1, <2>2, <2>3 DEF Marked
  <2> QED BY <1>9, <2>4, FlagsChange DEF O!Forces
<1>10. ASSUME NEW i \in DOMAIN queue, O!Waits(i) PROVE Kept
  <2>1. PICK hold \in {"no", "outage"} : queue' = [queue EXCEPT ![i].hold = hold]
    BY <1>10 DEF O!Waits
  <2> DEFINE t == [queue[i] EXCEPT !.hold = hold]
  <2>2. /\ t \in QueueTask /\ t.bundle = queue[i].bundle /\ t.priority = queue[i].priority
        /\ t.at = queue[i].at /\ t.by = queue[i].by
    BY QueuedTasks DEF QueueTask, O!Holds
  <2>3. queue' = [queue EXCEPT ![i] = t]
    BY <2>1
  <2> HIDE DEF t
  <2> QED BY <1>10, <2>2, <2>3, FlagsOfOne, FlagsChange DEF O!Waits
<1>11. ASSUME O!ByHand PROVE Kept
  <2>1. {i \in DOMAIN queue : queue[i].hold = "no"} \in SUBSET DOMAIN queue
    OBVIOUS
  <2>2. \A b : O!PlacesOf(queue, b) \in SUBSET DOMAIN queue
    BY DEF O!PlacesOf
  <2>3. \/ \E c \in O!Callers, b \in Queued : O!Moves(c, b)
        \/ \E c \in O!Callers, b \in Queued : O!Schedules(c, b)
        \/ \E c \in O!Callers, b \in Queued : O!Unqueues(c, b)
        \/ \E which \in SUBSET DOMAIN queue : O!Forces(which)
    BY <1>11, <2>1, <2>2 DEF O!ByHand
  <2> QED BY <1>7, <1>8, <1>9, <2>3, MovesKeeps
<1> QED BY <1>2, <1>3, <1>4, <1>5, <1>6, <1>10, <1>11, EnqueueKeeps, TakenAgainKeeps DEF O!Next

(* The tasks of a bundle start in the order they came, and a queue in the   *)
(* order of priority stays in it, whatever is sent, moved or dropped, but   *)
(* for tasks put by their bundle or taken again (enqueue, move_task).       *)
THEOREM QueueOrdered == O!Spec => OrderKept
<1>1. QueueInv /\ [O!Next]_(O!vars) => QueueInv'
  <2>1. ASSUME QueueInv, UNCHANGED O!vars PROVE QueueInv'
    BY <2>1 DEF O!vars, QueueInv, InOrder, Came
  <2> QED BY <2>1, StepOrdered DEF Kept
<1>2. QueueInv => O!BundleOrder
  BY DEF QueueInv, InOrder, O!BundleOrder
<1>3. QueueInv /\ [O!Next]_(O!vars) =>
        [O!Ranked(queue) /\ ~O!Strays(queue') => O!Ranked(queue')]_(O!vars)
  BY StepOrdered DEF Kept
<1> QED BY InitOrdered, <1>1, <1>2, <1>3, PTL DEF O!Spec, OrderKept, O!OrderKept, O!RankKept
-----------------------------------------------------------------------------
(* The notes of an agent on a worker (Notes).                               *)
AllEdits == JobEdits \cup HereEdits
NoteSet == {N!None} \cup (SUBSET AllEdits)
TakerSteps ==
  {"idle", "take", "clear", "read", "write", "why", "merge", "copy", "drop"}

(* What the notes and the threads that take them are; a thread that has     *)
(* proposed or merged has a note.                                           *)
TakerTyped ==
  /\ taker \in [N!Threads -> [step : TakerSteps, mine : NoteSet]]
  /\ \A x \in N!Threads :
       taker[x].step \in {"why", "copy"} => taker[x].mine \in SUBSET AllEdits

NotesTyped ==
  /\ outside \in BOOLEAN /\ memory \in SUBSET AllEdits
  /\ copy \in SUBSET AllEdits /\ note \in SUBSET AllEdits
  /\ job \in {"none", "starts", "runs", "ended"}
  /\ noteSent \in NoteSet /\ taking \in NoteSet
  /\ inbox \in NoteSet /\ base \in NoteSet
  /\ why \in BOOLEAN /\ maker \in N!Threads
  /\ TakerTyped
  /\ wrote \in SUBSET JobEdits /\ edited \in SUBSET HereEdits
  /\ raced \in BOOLEAN /\ noteStale \in BOOLEAN

(* The edits that are with Seb, or that a newer note overtook.              *)
EditsAnswered == reached \cup refused \cup overtaken
EditsSafe == EditsAnswered \cup IF why THEN inbox ELSE {}

(* What a thread that takes the note knows at each of its steps.            *)
TakerRight(x) ==
  /\ taker[x].step \in {"idle", "take", "clear", "read"} => taker[x].mine = N!None
  /\ taker[x].step \in {"write", "why", "merge", "copy", "drop"} => taker[x].mine = taking
  /\ taker[x].step \in {"why", "copy"} => taking # N!None
  /\ taker[x].step \in {"clear", "write", "why"} => ~outside
  /\ taker[x].step \in {"take", "clear", "read", "write", "why"} => outside \/ ~why
  /\ taker[x].step = "merge" => outside
  /\ taker[x].step = "why" => inbox = taking
  /\ taker[x].step \in {"copy", "drop"} => taking \cap JobEdits \subseteq EditsSafe

(* No two threads take notes at once.                                       *)
OneTakes == \E x \in N!Threads : taker[x].step = "idle"

(* Each edit is safe or in a note that waits.                               *)
NotesOnWay ==
  /\ wrote \subseteq EditsSafe \cup noteSent \cup taking
  /\ memory \cap JobEdits \subseteq reached
  /\ copy \cap JobEdits \subseteq EditsSafe
  /\ base \cap JobEdits \subseteq EditsAnswered
  /\ \A x \in N!Threads : TakerRight(x)
  /\ OneTakes

(* Until a job starts over waiting notes, each note has what was in the     *)
(* older one.                                                               *)
NotesGrow ==
  /\ copy \subseteq note
  /\ noteSent # N!None => copy \subseteq noteSent /\ noteSent \subseteq note
  /\ taking # N!None => copy \subseteq taking /\ taking \subseteq note
  /\ noteSent # N!None /\ taking # N!None => taking \subseteq noteSent
  /\ why => base \subseteq inbox
  /\ \A x \in N!Threads : taker[x].step = "why" => base \subseteq inbox
  /\ overtaken = {}
  /\ edited \subseteq memory

(* The invariant: a race, or a job that started early, ends what it claims. *)
NotesInv ==
  /\ NotesTyped
  /\ ~raced => NotesOnWay
  /\ ~raced /\ ~noteStale => NotesGrow

(* A merge of two notes is a note.                                          *)
LEMMA MergeTyped ==
  ASSUME NEW here \in SUBSET AllEdits, NEW old \in NoteSet, NEW mine \in SUBSET AllEdits
  PROVE  N!MergeNote(here, old, mine) \in SUBSET AllEdits
BY DEF N!MergeNote, N!MergeFile, NoteSet

(* A thread that goes on, or leaves, is still at a step of take_notes.      *)
LEMMA TakerGoes ==
  ASSUME TakerTyped, NEW x \in N!Threads, NEW s \in TakerSteps, N!Go(x, s),
         s \in {"why", "copy"} => taker[x].mine \in SUBSET AllEdits
  PROVE  TakerTyped'
<1>1. taker' \in [N!Threads -> [step : TakerSteps, mine : NoteSet]]
  BY DEF TakerTyped, N!Go
<1>2. taker'[x].step = s /\ taker'[x].mine = taker[x].mine
  BY DEF TakerTyped, N!Go
<1>3. \A z \in N!Threads : z # x => taker'[z] = taker[z]
  BY DEF TakerTyped, N!Go
<1> QED
  BY <1>1, <1>2, <1>3 DEF TakerTyped

(* A thread at rest has no note.                                            *)
LEMMA IdleTyped ==
  N!Idle \in [step : TakerSteps, mine : NoteSet] /\ N!Idle.step \notin {"why", "copy"}
<1>1. N!None \in NoteSet
  BY DEF NoteSet
<1> QED
  BY <1>1 DEF N!Idle, TakerSteps

LEMMA TakerLeaves ==
  ASSUME TakerTyped, NEW x \in N!Threads, N!Leaves(x) PROVE TakerTyped'
<1>1. taker' \in [N!Threads -> [step : TakerSteps, mine : NoteSet]]
  BY IdleTyped DEF TakerTyped, N!Leaves
<1>2. taker'[x] = N!Idle /\ \A z \in N!Threads : z # x => taker'[z] = taker[z]
  BY DEF TakerTyped, N!Leaves
<1> QED
  BY <1>1, <1>2, IdleTyped DEF TakerTyped

(* What the notes are.                                                      *)
LEMMA NotesTypedStep == NotesTyped /\ [N!Next]_(N!vars) => NotesTyped'
<1> SUFFICES ASSUME NotesTyped, [N!Next]_(N!vars) PROVE NotesTyped'
  OBVIOUS
<1> USE EditsAssumption DEF NotesTyped
<1>a. \A x \in N!Threads : taker[x] \in [step : TakerSteps, mine : NoteSet]
  BY DEF TakerTyped
<1>b. N!None \in NoteSet
  BY DEF NoteSet
<1>c. "keeper" \in N!Threads /\ "job" \in N!Threads
  BY DEF N!Threads
<1>d. UNCHANGED taker => TakerTyped'
  BY DEF TakerTyped
<1>1. CASE \E e \in JobEdits : N!JobWrites(e)
  BY <1>1, <1>d DEF N!JobWrites, N!proposal, AllEdits, NoteSet
<1>2. CASE \E e \in HereEdits : N!HereWrites(e)
  BY <1>2, <1>d DEF N!HereWrites, N!proposal, AllEdits
<1>3. ASSUME NEW yes_ \in BOOLEAN, N!Answers(yes_) PROVE NotesTyped'
  <2>1. inbox # N!None => inbox \in SUBSET AllEdits
    BY DEF NoteSet
  <2>2. inbox # N!None => N!MergeNote(memory, base, inbox) \in SUBSET AllEdits
    BY <2>1, MergeTyped
  <2>3. memory' \in SUBSET AllEdits
    BY <1>3, <2>2 DEF N!Answers
  <2> QED
    BY <1>3, <1>b, <1>d, <2>3 DEF N!Answers
<1>4. ASSUME NEW x \in N!Threads, N!Begins(x) PROVE NotesTyped'
  <2>1. TakerTyped'
    BY <1>4, TakerGoes DEF N!Begins, TakerSteps
  <2> QED
    BY <1>4, <2>1 DEF N!Begins, N!proposal
<1>5. ASSUME NEW x \in N!Threads, N!Takes(x) PROVE NotesTyped'
  <2>1. TakerTyped'
    BY <1>5, TakerGoes, TakerLeaves DEF N!Takes, TakerSteps
  <2> QED
    BY <1>5, <1>b, <2>1 DEF N!Takes, N!proposal, N!Newest
<1>6. ASSUME NEW x \in N!Threads, N!Clears(x) PROVE NotesTyped'
  <2>1. TakerTyped'
    BY <1>6, TakerGoes DEF N!Clears, TakerSteps
  <2> QED
    BY <1>6, <1>b, <2>1 DEF N!Clears, N!ghosts
<1>7. ASSUME NEW x \in N!Threads, N!Reads(x) PROVE NotesTyped'
  <2>1. taker' \in [N!Threads -> [step : TakerSteps, mine : NoteSet]]
    BY <1>7 DEF N!Reads, TakerSteps, TakerTyped
  <2>2. taker'[x].step \notin {"why", "copy"}
    BY <1>7 DEF N!Reads, TakerTyped
  <2>3. \A z \in N!Threads : z # x => taker'[z] = taker[z]
    BY <1>7 DEF N!Reads, TakerTyped
  <2>4. TakerTyped'
    BY <2>1, <2>2, <2>3 DEF TakerTyped
  <2> QED
    BY <1>7, <2>4 DEF N!Reads, N!proposal, N!ghosts
<1>8. ASSUME NEW x \in N!Threads, N!Writes(x) PROVE NotesTyped'
  <2>1. taker[x].mine # N!None => taker[x].mine \in SUBSET AllEdits
    BY <1>a DEF NoteSet
  <2>2. TakerTyped'
    BY <1>8, <2>1, TakerGoes, TakerLeaves DEF N!Writes, TakerSteps
  <2>3. inbox' \in NoteSet /\ base' \in NoteSet
    BY <1>8, <1>a DEF N!Writes, NoteSet
  <2> QED
    BY <1>8, <2>2, <2>3 DEF N!Writes, N!ghosts
<1>9. ASSUME NEW x \in N!Threads, N!Proposes(x) PROVE NotesTyped'
  <2>1. TakerTyped'
    BY <1>9, TakerGoes DEF N!Proposes, TakerSteps, TakerTyped
  <2> QED
    BY <1>9, <2>1 DEF N!Proposes, N!ghosts
<1>10. ASSUME NEW x \in N!Threads, N!Merges(x) PROVE NotesTyped'
  <2>1. taker[x].mine # N!None => taker[x].mine \in SUBSET AllEdits
    BY <1>a DEF NoteSet
  <2>2. TakerTyped'
    BY <1>10, <2>1, TakerGoes DEF N!Merges, TakerSteps
  <2>3. copy \in NoteSet
    BY DEF NoteSet
  <2>4. memory' \in SUBSET AllEdits
    BY <1>10, <2>1, <2>3, MergeTyped DEF N!Merges
  <2> QED
    BY <1>10, <2>2, <2>4 DEF N!Merges, N!proposal
<1>11. ASSUME NEW x \in N!Threads, N!Copies(x) PROVE NotesTyped'
  <2>1. TakerTyped'
    BY <1>11, TakerGoes DEF N!Copies, TakerSteps
  <2>2. copy' \in SUBSET AllEdits
    BY <1>11 DEF N!Copies, TakerTyped
  <2> QED
    BY <1>11, <2>1, <2>2 DEF N!Copies, N!proposal, N!ghosts
<1>12. ASSUME NEW x \in N!Threads, N!Drops(x) PROVE NotesTyped'
  <2>1. TakerTyped'
    BY <1>12, TakerLeaves DEF N!Drops
  <2> QED
    BY <1>12, <1>b, <2>1 DEF N!Drops, N!proposal, N!ghosts
<1>13. CASE N!JobEnds \/ N!Finishes
  BY <1>13, <1>d DEF N!JobEnds, N!Finishes, N!proposal, N!ghosts
<1>14. CASE N!StartTakes
  <2>1. TakerTyped'
    BY <1>14, <1>c, <1>d, TakerGoes DEF N!StartTakes, TakerSteps
  <2> QED
    BY <1>14, <2>1 DEF N!StartTakes, N!proposal
<1>15. CASE N!Starts
  BY <1>15, <1>d DEF N!Starts, N!proposal, N!BuildConfig, N!KeepBase
<1>16. CASE N!Restart
  <2>1. TakerTyped'
    BY <1>16, IdleTyped DEF N!Restart, TakerTyped
  <2> QED
    BY <1>16, <2>1 DEF N!Restart, N!proposal, N!ghosts
<1>17. CASE UNCHANGED N!vars
  BY <1>17, <1>d DEF N!vars, N!proposal, N!ghosts
<1> QED
  BY <1>1, <1>2, <1>3, <1>4, <1>5, <1>6, <1>7, <1>8, <1>9, <1>10, <1>11, <1>12, <1>13,
     <1>14, <1>15, <1>16, <1>17 DEF N!Next

(* A thread at rest knows all it must, whatever the others do.              *)
LEMMA IdleRight ==
  ASSUME NEW z \in N!Threads, taker'[z].step = "idle", taker'[z].mine = N!None
  PROVE  TakerRight(z)'
BY DEF TakerRight

(* Alone, a step of x leaves the other at rest.                             *)
LEMMA StepAlone ==
  ASSUME NotesTyped, NotesOnWay, NEW x \in N!Threads, taker[x].step # "idle",
         taker' \in [N!Threads -> [step : TakerSteps, mine : NoteSet]],
         \A z \in N!Threads : z # x => taker'[z] = taker[z],
         TakerRight(x)'
  PROVE  (\A z \in N!Threads : TakerRight(z)') /\ OneTakes'
<1>1. \A z \in N!Threads : z # x => taker[z].step = "idle" /\ taker[z].mine = N!None
  BY DEF NotesOnWay, OneTakes, TakerRight, N!Threads
<1>2. PICK y \in N!Threads : y # x
  BY DEF N!Threads
<1> QED
  BY <1>1, <1>2, IdleRight DEF OneTakes

(* So when x goes on to a step it may be at, or leaves.                     *)
LEMMA GoesAlone ==
  ASSUME NotesTyped, NotesOnWay, NEW x \in N!Threads, taker[x].step # "idle",
         NEW s \in TakerSteps, N!Go(x, s), TakerTyped',
         taker'[x].step = s /\ taker'[x].mine = taker[x].mine => TakerRight(x)'
  PROVE  (\A z \in N!Threads : TakerRight(z)') /\ OneTakes'
<1>1. taker' \in [N!Threads -> [step : TakerSteps, mine : NoteSet]]
  BY DEF TakerTyped
<1>2. taker'[x].step = s /\ taker'[x].mine = taker[x].mine
  BY DEF N!Go, NotesTyped, TakerTyped
<1>3. \A z \in N!Threads : z # x => taker'[z] = taker[z]
  BY DEF N!Go, NotesTyped, TakerTyped
<1> QED
  BY <1>1, <1>2, <1>3, StepAlone

LEMMA LeavesAlone ==
  ASSUME NotesTyped, NotesOnWay, NEW x \in N!Threads, taker[x].step # "idle",
         N!Leaves(x), TakerTyped'
  PROVE  (\A z \in N!Threads : TakerRight(z)') /\ OneTakes'
<1>1. taker' \in [N!Threads -> [step : TakerSteps, mine : NoteSet]]
  BY DEF TakerTyped
<1>2. taker'[x].step = "idle" /\ taker'[x].mine = N!None
  BY DEF N!Leaves, N!Idle, NotesTyped, TakerTyped
<1>3. \A z \in N!Threads : z # x => taker'[z] = taker[z]
  BY DEF N!Leaves, NotesTyped, TakerTyped
<1> QED
  BY <1>1, <1>2, <1>3, StepAlone, IdleRight

(* A merge adds only what is new since the base.                            *)
LEMMA MergeWithin ==
  ASSUME NEW here, NEW old, NEW mine
  PROVE  N!MergeNote(here, old, mine) \subseteq here \cup (mine \ old)
BY DEF N!MergeNote, N!MergeFile

(* While one thread at most takes notes, each edit is safe or waits: a note *)
(* taken counts as given only once its proposal or its merge holds it.      *)
LEMMA NotesOnWayStep ==
  ASSUME NotesTyped, NotesTyped', NotesOnWay, ~raced, ~raced', [N!Next]_(N!vars)
  PROVE  NotesOnWay'
<1> USE EditsAssumption
<1>a. N!None \cap JobEdits = {} /\ N!None \cap AllEdits = {}
  BY DEF AllEdits, N!None
<1>c. wrote \subseteq JobEdits /\ wrote \cap N!None = {}
  BY <1>a DEF NotesTyped
<1>b. UNCHANGED taker => OneTakes'
  BY DEF NotesOnWay, OneTakes
<1>1. ASSUME NEW e \in JobEdits, N!JobWrites(e) PROVE NotesOnWay'
  BY <1>1, <1>a, <1>b, <1>c
     DEF N!JobWrites, N!proposal, NotesOnWay, TakerRight, EditsSafe, EditsAnswered
<1>2. ASSUME NEW e \in HereEdits, N!HereWrites(e) PROVE NotesOnWay'
  BY <1>2, <1>a, <1>b
     DEF N!HereWrites, N!proposal, NotesOnWay, TakerRight, EditsSafe, EditsAnswered
<1>3. ASSUME NEW yes_ \in BOOLEAN, N!Answers(yes_) PROVE NotesOnWay'
  <2> USE <1>3 DEF N!Answers
  <2>1. EditsSafe \cap JobEdits \subseteq EditsAnswered' /\ EditsAnswered \subseteq EditsAnswered'
    BY <1>a DEF EditsSafe, EditsAnswered, NotesOnWay
  <2>2. EditsSafe' = EditsAnswered'
    BY DEF EditsSafe
  <2>3. memory' \cap JobEdits \subseteq reached'
    BY MergeWithin DEF NotesOnWay, EditsAnswered
  <2>4. \A x \in N!Threads : TakerRight(x)'
    BY <2>1, <2>2 DEF NotesOnWay, TakerRight
  <2> QED
    BY <1>a, <1>b, <1>c, <2>1, <2>2, <2>3, <2>4 DEF NotesOnWay
<1>4. ASSUME NEW x \in N!Threads, N!Begins(x) PROVE NotesOnWay'
  <2>1. \A z \in N!Threads : taker[z].step = "idle" /\ taker[z].mine = N!None
    BY <1>4 DEF N!Begins, NotesOnWay, TakerRight
  <2>2. /\ taker'[x].step = "take" /\ taker'[x].mine = N!None
        /\ \A z \in N!Threads : z # x => taker'[z] = taker[z]
    BY <1>4, <2>1 DEF N!Begins, N!Go, NotesTyped, TakerTyped
  <2>3. TakerRight(x)'
    BY <1>4, <2>2 DEF N!Begins, N!proposal, TakerRight
  <2>4. \A z \in N!Threads : TakerRight(z)'
    BY <2>1, <2>2, <2>3, IdleRight
  <2>5. OneTakes'
    BY <2>1, <2>2 DEF OneTakes, N!Threads
  <2> QED
    BY <1>4, <2>4, <2>5 DEF N!Begins, N!proposal, NotesOnWay, EditsSafe, EditsAnswered
<1>5. ASSUME NEW x \in N!Threads, N!Takes(x) PROVE NotesOnWay'
  <2>1. TakerTyped' /\ taker[x].step = "take" /\ taker[x].step # "idle" /\ TakerRight(x)
    BY <1>5 DEF N!Takes, NotesTyped, NotesOnWay
  <2>2. CASE N!Newest = N!None
    <3>1. N!Leaves(x)
      BY <1>5, <2>2 DEF N!Takes
    <3> QED
      BY <1>5, <1>a, <2>1, <3>1, LeavesAlone
         DEF N!Takes, N!Newest, N!proposal, NotesOnWay, EditsSafe, EditsAnswered
  <2>3. CASE N!Newest # N!None
    <3>1. PICK s \in {"read", "clear"} : N!Go(x, s) /\ (s = "clear" => ~outside)
      BY <1>5, <2>3 DEF N!Takes
    <3>2. s \in TakerSteps
      BY DEF TakerSteps
    <3>3. taker'[x].step = s /\ taker'[x].mine = taker[x].mine => TakerRight(x)'
      BY <1>5, <2>1, <3>1 DEF N!Takes, TakerRight, N!proposal
    <3>4. (\A z \in N!Threads : TakerRight(z)') /\ OneTakes'
      BY <2>1, <3>1, <3>2, <3>3, GoesAlone
    <3> QED
      BY <1>5, <1>a, <3>4
         DEF N!Takes, N!Newest, N!proposal, NotesOnWay, EditsSafe, EditsAnswered
  <2> QED
    BY <2>2, <2>3
<1>6. ASSUME NEW x \in N!Threads, N!Clears(x) PROVE NotesOnWay'
  <2>1. (\A z \in N!Threads : TakerRight(z)') /\ OneTakes'
    BY <1>6, GoesAlone DEF N!Clears, NotesTyped, TakerSteps, TakerRight, NotesOnWay
  <2> QED
    BY <1>6, <1>a, <2>1
       DEF N!Clears, NotesOnWay, EditsSafe, EditsAnswered, TakerRight, N!ghosts
<1>7. ASSUME NEW x \in N!Threads, N!Reads(x) PROVE NotesOnWay'
  <2>1. (\A z \in N!Threads : TakerRight(z)') /\ OneTakes'
    BY <1>7, StepAlone
       DEF N!Reads, NotesTyped, TakerTyped, TakerSteps, TakerRight, NotesOnWay, N!proposal
  <2> QED
    BY <1>7, <2>1 DEF N!Reads, N!proposal, NotesOnWay, EditsSafe, EditsAnswered, N!ghosts
<1>8. ASSUME NEW x \in N!Threads, N!Writes(x) PROVE NotesOnWay'
  <2>1. (\A z \in N!Threads : TakerRight(z)') /\ OneTakes'
    BY <1>8, <1>a, GoesAlone, LeavesAlone
       DEF N!Writes, NotesTyped, TakerSteps, TakerRight, NotesOnWay, EditsSafe,
           EditsAnswered, N!ghosts
  <2> QED
    BY <1>8, <1>a, <2>1
       DEF N!Writes, NotesOnWay, EditsSafe, EditsAnswered, N!ghosts, TakerRight
<1>9. ASSUME NEW x \in N!Threads, N!Proposes(x) PROVE NotesOnWay'
  <2>1. (\A z \in N!Threads : TakerRight(z)') /\ OneTakes'
    BY <1>9, <1>a, GoesAlone
       DEF N!Proposes, NotesTyped, TakerSteps, TakerRight, NotesOnWay, EditsSafe,
           EditsAnswered, N!ghosts
  <2> QED
    BY <1>9, <1>a, <2>1
       DEF N!Proposes, NotesOnWay, EditsSafe, EditsAnswered, N!ghosts, TakerRight
<1>10. ASSUME NEW x \in N!Threads, N!Merges(x) PROVE NotesOnWay'
  <2>1. (\A z \in N!Threads : TakerRight(z)') /\ OneTakes'
    BY <1>10, <1>a, GoesAlone
       DEF N!Merges, NotesTyped, TakerSteps, TakerRight, NotesOnWay, EditsSafe,
           EditsAnswered, N!proposal
  <2> QED
    BY <1>10, <1>a, <2>1, MergeWithin
       DEF N!Merges, NotesOnWay, EditsSafe, EditsAnswered, N!proposal
<1>11. ASSUME NEW x \in N!Threads, N!Copies(x) PROVE NotesOnWay'
  <2>1. (\A z \in N!Threads : TakerRight(z)') /\ OneTakes'
    BY <1>11, <1>a, GoesAlone
       DEF N!Copies, NotesTyped, TakerSteps, TakerRight, NotesOnWay, EditsSafe,
           EditsAnswered, N!ghosts, N!proposal
  <2> QED
    BY <1>11, <2>1
       DEF N!Copies, NotesOnWay, EditsSafe, EditsAnswered, N!ghosts, N!proposal, TakerRight
<1>12. ASSUME NEW x \in N!Threads, N!Drops(x) PROVE NotesOnWay'
  <2>1. (\A z \in N!Threads : TakerRight(z)') /\ OneTakes'
    BY <1>12, LeavesAlone DEF N!Drops, NotesTyped
  <2> QED
    BY <1>12, <1>a, <1>c, <2>1
       DEF N!Drops, NotesOnWay, EditsSafe, EditsAnswered, N!ghosts, N!proposal, TakerRight
<1>13. CASE N!JobEnds \/ N!Finishes
  BY <1>13, <1>b
     DEF N!JobEnds, N!Finishes, N!proposal, N!ghosts, NotesOnWay, TakerRight, EditsSafe,
         EditsAnswered
<1>14. CASE N!StartTakes
  <2>1. \A z \in N!Threads : taker[z].step = "idle" /\ taker[z].mine = N!None
    BY <1>14 DEF N!StartTakes, NotesOnWay, TakerRight, N!Threads
  <2>2. /\ taker'["keeper"] = taker["keeper"] /\ taker'["job"].mine = N!None
        /\ \/ taker'["job"].step = "idle"
           \/ taker'["job"].step = "take" /\ (outside \/ ~why)
    BY <1>14, <2>1 DEF N!StartTakes, N!Go, NotesTyped, TakerTyped, N!Threads
  <2>3. TakerRight("job")' /\ TakerRight("keeper")'
    BY <1>14, <2>1, <2>2 DEF N!StartTakes, N!proposal, TakerRight, N!Threads
  <2>4. OneTakes'
    BY <2>1, <2>2 DEF OneTakes, N!Threads
  <2> QED
    BY <1>14, <2>3, <2>4
       DEF N!StartTakes, N!proposal, NotesOnWay, EditsSafe, EditsAnswered, N!Threads
<1>15. CASE N!Starts
  BY <1>15, <1>b
     DEF N!Starts, N!proposal, N!BuildConfig, N!KeepBase, NotesOnWay, TakerRight,
         EditsSafe, EditsAnswered
<1>16. CASE N!Restart
  BY <1>16, <1>a
     DEF N!Restart, N!Idle, N!proposal, N!ghosts, NotesOnWay, TakerRight, EditsSafe,
         EditsAnswered, OneTakes
<1>17. CASE UNCHANGED N!vars
  BY <1>17, <1>b
     DEF N!vars, N!proposal, N!ghosts, NotesOnWay, TakerRight, EditsSafe, EditsAnswered
<1> QED
  BY <1>1, <1>2, <1>3, <1>4, <1>5, <1>6, <1>7, <1>8, <1>9, <1>10, <1>11, <1>12, <1>13,
     <1>14, <1>15, <1>16, <1>17 DEF N!Next

(* A merge of a note that has what its base had drops nothing.              *)
LEMMA MergeGrows ==
  ASSUME NEW here, NEW old, NEW mine, old \subseteq mine
  PROVE  here \subseteq N!MergeNote(here, old, mine)
BY DEF N!MergeNote, N!MergeFile

(* Each note the job sends has all that the one before had, until a job     *)
(* starts while some wait.                                                  *)
LEMMA NotesGrowStep ==
  ASSUME NotesTyped, NotesTyped', NotesOnWay, NotesGrow, ~raced', ~noteStale',
         [N!Next]_(N!vars)
  PROVE  NotesGrow'
<1> USE EditsAssumption
<1>a. N!None \cap AllEdits = {} /\ N!None # {} /\ N!None \notin SUBSET AllEdits
  BY DEF AllEdits, N!None
<1>b. \A s \in NoteSet : s # N!None => s \in SUBSET AllEdits
  BY DEF NoteSet
<1>1. ASSUME NEW e \in JobEdits, N!JobWrites(e) PROVE NotesGrow'
  BY <1>1, <1>a DEF N!JobWrites, N!proposal, NotesGrow, NotesTyped, AllEdits
<1>2. ASSUME NEW e \in HereEdits, N!HereWrites(e) PROVE NotesGrow'
  BY <1>2, <1>a DEF N!HereWrites, N!proposal, NotesGrow
<1>3. ASSUME NEW yes_ \in BOOLEAN, N!Answers(yes_) PROVE NotesGrow'
  <2> USE <1>3 DEF N!Answers
  <2>1. memory \subseteq memory'
    BY MergeGrows DEF NotesGrow
  <2>2. \A x \in N!Threads : taker[x].step # "why"
    BY DEF NotesOnWay, TakerRight, NotesTyped
  <2> QED
    BY <2>1, <2>2 DEF NotesGrow
<1>4. ASSUME NEW x \in N!Threads, N!Begins(x) PROVE NotesGrow'
  BY <1>4 DEF N!Begins, N!Go, N!proposal, NotesGrow, NotesTyped, TakerTyped
<1>5. ASSUME NEW x \in N!Threads, N!Takes(x) PROVE NotesGrow'
  <2>1. \A z \in N!Threads : taker'[z].step = "why" => taker[z].step = "why"
    BY <1>5 DEF N!Takes, N!Go, N!Leaves, N!Idle, NotesTyped, TakerTyped
  <2> QED
    BY <1>5, <1>a, <2>1 DEF N!Takes, N!Newest, N!proposal, NotesGrow
<1>6. ASSUME NEW x \in N!Threads, N!Clears(x) PROVE NotesGrow'
  <2>1. \A z \in N!Threads : taker'[z].step # "why"
    BY <1>6 DEF N!Clears, N!Go, NotesTyped, TakerTyped, NotesOnWay, OneTakes, N!Threads
  <2> QED
    BY <1>6, <2>1 DEF N!Clears, N!ghosts, NotesGrow
<1>7. ASSUME NEW x \in N!Threads, N!Reads(x) PROVE NotesGrow'
  <2>1. \A z \in N!Threads : taker'[z].step = "why" => taker[z].step = "why"
    BY <1>7 DEF N!Reads, NotesTyped, TakerTyped
  <2> QED
    BY <1>7, <2>1 DEF N!Reads, N!ghosts, N!proposal, NotesGrow
<1>8. ASSUME NEW x \in N!Threads, N!Writes(x) PROVE NotesGrow'
  <2>1. TakerRight(x) /\ ~why /\ ~why'
    BY <1>8 DEF N!Writes, NotesOnWay, TakerRight, NotesTyped
  <2>2. \A z \in N!Threads : z # x => taker'[z].step = "idle"
    BY <1>8
       DEF N!Writes, N!Go, N!Leaves, NotesTyped, TakerTyped, NotesOnWay, OneTakes, N!Threads
  <2>3. taker'[x].step = "why" => base' \subseteq inbox'
    BY <1>8, <2>1
       DEF N!Writes, N!Go, N!Leaves, N!Idle, NotesTyped, TakerTyped, NotesGrow, TakerRight
  <2> QED
    BY <1>8, <2>1, <2>2, <2>3 DEF N!Writes, N!ghosts, NotesGrow
<1>9. ASSUME NEW x \in N!Threads, N!Proposes(x) PROVE NotesGrow'
  <2>1. \A z \in N!Threads : taker'[z].step = "why" => taker[z].step = "why"
    BY <1>9 DEF N!Proposes, N!Go, NotesTyped, TakerTyped
  <2> QED
    BY <1>9, <2>1 DEF N!Proposes, N!ghosts, NotesGrow
<1>10. ASSUME NEW x \in N!Threads, N!Merges(x) PROVE NotesGrow'
  <2>1. \A z \in N!Threads : taker'[z].step = "why" => taker[z].step = "why"
    BY <1>10 DEF N!Merges, N!Go, NotesTyped, TakerTyped
  <2>2. memory \subseteq memory'
    BY <1>10, MergeGrows DEF N!Merges, NotesGrow, NotesOnWay, TakerRight
  <2> QED
    BY <1>10, <2>1, <2>2 DEF N!Merges, N!proposal, NotesGrow
<1>11. ASSUME NEW x \in N!Threads, N!Copies(x) PROVE NotesGrow'
  <2>1. \A z \in N!Threads : taker'[z].step = "why" => taker[z].step = "why"
    BY <1>11 DEF N!Copies, N!Go, NotesTyped, TakerTyped
  <2>2. copy' = taking /\ taking # N!None
    BY <1>11 DEF N!Copies, NotesOnWay, TakerRight
  <2> QED
    BY <1>11, <2>1, <2>2 DEF N!Copies, N!proposal, N!ghosts, NotesGrow
<1>12. ASSUME NEW x \in N!Threads, N!Drops(x) PROVE NotesGrow'
  <2>1. \A z \in N!Threads : taker'[z].step = "why" => taker[z].step = "why"
    BY <1>12 DEF N!Drops, N!Leaves, N!Idle, NotesTyped, TakerTyped
  <2> QED
    BY <1>12, <2>1 DEF N!Drops, N!proposal, N!ghosts, NotesGrow
<1>13. CASE N!JobEnds \/ N!Finishes
  BY <1>13 DEF N!JobEnds, N!Finishes, N!proposal, N!ghosts, NotesGrow
<1>14. CASE N!StartTakes
  <2>1. \A z \in N!Threads : taker'[z].step = "why" => taker[z].step = "why"
    BY <1>14 DEF N!StartTakes, N!Go, NotesTyped, TakerTyped
  <2> QED
    BY <1>14, <2>1 DEF N!StartTakes, N!proposal, NotesGrow
<1>15. CASE N!Starts
  BY <1>15 DEF N!Starts, N!proposal, N!BuildConfig, N!KeepBase, NotesGrow
<1>16. CASE N!Restart
  BY <1>16 DEF N!Restart, N!Idle, N!proposal, N!ghosts, NotesGrow
<1>17. CASE UNCHANGED N!vars
  BY <1>17 DEF N!vars, N!proposal, N!ghosts, NotesGrow
<1> QED
  BY <1>1, <1>2, <1>3, <1>4, <1>5, <1>6, <1>7, <1>8, <1>9, <1>10, <1>11, <1>12, <1>13,
     <1>14, <1>15, <1>16, <1>17 DEF N!Next

(* Once two threads took notes at once, or a job started early, it stays so. *)
LEMMA RacedStays ==
  NotesTyped /\ [N!Next]_(N!vars) => (raced => raced') /\ (noteStale => noteStale')
BY DEF N!Next, N!vars, N!proposal, N!ghosts, NotesTyped, N!JobWrites, N!HereWrites,
       N!Answers, N!Begins, N!Takes, N!Clears, N!Reads, N!Writes, N!Proposes, N!Merges,
       N!Copies, N!Drops, N!JobEnds, N!Finishes, N!StartTakes, N!Starts, N!Restart

(* The invariant holds first, after each step, and gives the property.      *)
LEMMA NotesStart == N!Init => NotesInv
<1> SUFFICES ASSUME N!Init PROVE NotesInv
  OBVIOUS
<1> USE DEF N!Init
<1>1. TakerTyped
  BY IdleTyped DEF TakerTyped
<1>2. NotesTyped
  BY <1>1 DEF NotesTyped, NoteSet, N!Threads
<1>3. NotesOnWay
  BY EditsAssumption DEF NotesOnWay, TakerRight, OneTakes, N!Idle, N!Threads, N!None
<1>4. NotesGrow
  BY DEF NotesGrow, N!Idle
<1> QED
  BY <1>2, <1>3, <1>4 DEF NotesInv

LEMMA NotesStay == NotesInv /\ [N!Next]_(N!vars) => NotesInv'
<1> SUFFICES ASSUME NotesInv, [N!Next]_(N!vars) PROVE NotesInv'
  OBVIOUS
<1>1. NotesTyped /\ NotesTyped'
  BY NotesTypedStep DEF NotesInv
<1>2. ~raced' => NotesOnWay /\ NotesOnWay' /\ ~raced
  BY <1>1, RacedStays, NotesOnWayStep DEF NotesInv
<1>3. ~raced' /\ ~noteStale' => NotesGrow'
  BY <1>1, <1>2, RacedStays, NotesGrowStep DEF NotesInv
<1> QED
  BY <1>1, <1>2, <1>3 DEF NotesInv

LEMMA NotesInvKeeps == NotesInv => NotesKept
<1> SUFFICES ASSUME NotesInv PROVE N!NotesKept
  BY DEF NotesKept
<1>1. N!EditsKept
  BY DEF N!EditsKept, NotesInv, NotesGrow
<1>2. ASSUME ~raced
      PROVE  wrote \subseteq N!OnItsWay \cup reached \cup refused \cup memory \cup overtaken
  <2>1. wrote \subseteq EditsSafe \cup noteSent \cup taking
    BY <1>2 DEF NotesInv, NotesOnWay
  <2>2. noteSent \subseteq N!OnItsWay /\ taking \subseteq N!OnItsWay
    BY DEF N!OnItsWay
  <2>3. why => inbox \subseteq N!OnItsWay
    BY DEF N!OnItsWay
  <2> QED
    BY <2>1, <2>2, <2>3 DEF EditsSafe, EditsAnswered
<1>3. N!NotesReach
  BY <1>2 DEF N!NotesReach, NotesInv, NotesGrow
<1> QED
  BY <1>1, <1>3 DEF N!NotesKept

(* What the agent wrote on a worker waits in the run folder or in a         *)
(* proposal until Seb answers it or the note here has it, and a yes drops   *)
(* nothing written here since the job got its copy; but for two threads that *)
(* take notes at once and a job that starts over waiting notes              *)
(* (take_notes, promote_notes).                                             *)
THEOREM NotesReachSeb == N!Spec => []NotesKept
<1>1. N!Spec => []NotesInv
  BY NotesStart, NotesStay, PTL DEF N!Spec
<1> QED
  BY <1>1, NotesInvKeeps, PTL
-----------------------------------------------------------------------------
(* The cut of a session (CutSession).                                       *)
(* A line of a transcript: what it is, and the command it is about.         *)
LineKinds ==
  {"prompt", "call", "result", "local", "interrupted", "start", "stop", "note", "report",
   "short", "error"}
CutLine == LineKinds \X (CutCommands \cup {0})

(* The transcript holds lines, the command sets hold commands.              *)
CutTyped ==
  /\ lines \in Seq(CutLine)
  /\ live \in SUBSET CutCommands /\ died \in SUBSET CutCommands
  /\ cutStale \in SUBSET CutCommands
  /\ record \in BOOLEAN

(* What the last message of a transcript makes of its turn.                 *)
TurnAfter(kind) ==
  IF kind \in {"report", "interrupted"} THEN "rest"
  ELSE IF kind \in {"short", "error"} THEN kind ELSE "busy"

(* The turn is what the last message made of it; with none yet, at rest.    *)
TurnRight ==
  /\ C!Messages(lines) = {} => turn = "rest"
  /\ \A i \in C!Messages(lines) :
       (\A j \in C!Messages(lines) : j <= i) => turn = TurnAfter(lines[i][1])

(* A command starts once, and ends after it started.                        *)
StartsOnce(q) ==
  \A i, j \in DOMAIN q :
    q[i][1] = "start" /\ q[j][1] = "start" /\ q[i][2] = q[j][2] => i = j

(* Every end of a command has its start before it.                          *)
EndsLater(q) ==
  \A j \in DOMAIN q : q[j][1] \in {"note", "stop"} =>
    \E i \in DOMAIN q : i < j /\ q[i][1] = "start" /\ q[i][2] = q[j][2]

(* The commands with a start and no end are those that run or died.         *)
CommandsRight ==
  /\ StartsOnce(lines) /\ EndsLater(lines)
  /\ C!Background(lines) = live \cup died \cup cutStale
  /\ live \cap (died \cup cutStale) = {}
  /\ claude = "none" => live = {}

(* What the reader of a transcript finds there.                             *)
CutFound == CutTyped /\ TurnRight /\ CommandsRight

-----------------------------------------------------------------------------
(* The transcript is longer by e.                                           *)
Longer(e) ==
  /\ lines' \in Seq(CutLine) /\ Len(lines) \in Nat
  /\ DOMAIN lines = 1 .. Len(lines) /\ DOMAIN lines' = 1 .. (Len(lines) + 1)
  /\ \A i \in DOMAIN lines : lines'[i] = lines[i]
  /\ lines'[Len(lines) + 1] = e

(* A line appended to the transcript leaves the others where they are.      *)
LEMMA LinesGrow ==
  ASSUME CutTyped, NEW e \in CutLine, lines' = Append(lines, e)
  PROVE  Longer(e)
<1>1. lines \in Seq(CutLine)
  BY DEF CutTyped
<1>2. /\ lines' \in Seq(CutLine) /\ Len(lines') = Len(lines) + 1
      /\ \A i \in 1 .. Len(lines) : lines'[i] = lines[i]
      /\ lines'[Len(lines) + 1] = e
  BY <1>1, AppendProperties
<1>3. Len(lines) \in Nat /\ DOMAIN lines = 1 .. Len(lines) /\ DOMAIN lines' = 1 .. Len(lines')
  BY <1>1, <1>2, LenProperties
<1> QED
  BY <1>2, <1>3 DEF Longer

(* The turn follows the line written; a local command is no message.        *)
LEMMA TurnGoesOn ==
  ASSUME TurnRight, NEW e \in CutLine, Longer(e),
         turn' = IF e[1] = "local" THEN turn ELSE TurnAfter(e[1])
  PROVE  TurnRight'
<1> DEFINE n == Len(lines) + 1
<1>1. /\ n \in DOMAIN lines' /\ lines'[n] = e
      /\ \A i \in DOMAIN lines' : i <= n /\ i \in Int /\ n \in Int
  BY DEF Longer
<1>2. \A i \in DOMAIN lines : i < n /\ lines'[i] = lines[i] /\ i \in DOMAIN lines'
  BY DEF Longer
<1>3. \A i \in DOMAIN lines' : i \in DOMAIN lines \/ i = n
  BY DEF Longer
<1> HIDE DEF n
<1>4. CASE e[1] = "local"
  <2>1. C!Messages(lines)' = C!Messages(lines)
    BY <1>1, <1>2, <1>3, <1>4 DEF C!Messages, C!Locals
  <2>2. \A i \in C!Messages(lines) : lines'[i] = lines[i]
    BY <1>2 DEF C!Messages
  <2> QED
    BY <1>4, <2>1, <2>2 DEF TurnRight
<1>5. CASE e[1] # "local"
  <2>1. n \in C!Messages(lines)'
    BY <1>1, <1>5 DEF C!Messages, C!Locals
  <2>2. ASSUME NEW i \in C!Messages(lines)', \A j \in C!Messages(lines)' : j <= i PROVE i = n
    <3>1. i \in DOMAIN lines' /\ n <= i
      BY <2>1, <2>2 DEF C!Messages
    <3> QED
      BY <1>1, <3>1
  <2> QED
    BY <1>1, <1>5, <2>1, <2>2 DEF TurnRight
<1> QED
  BY <1>4, <1>5

(* The commands that lines of some kinds are about, with one more line.     *)
LEMMA OfLonger ==
  ASSUME NEW e, Longer(e), NEW kinds
  PROVE  C!Of(lines, kinds)' = C!Of(lines, kinds) \cup IF e[1] \in kinds THEN {e[2]} ELSE {}
<1> DEFINE n == Len(lines) + 1
<1>1. n \in DOMAIN lines' /\ lines'[n] = e
  BY DEF Longer
<1>2. \A i \in DOMAIN lines : lines'[i] = lines[i] /\ i \in DOMAIN lines'
  BY DEF Longer
<1>3. \A i \in DOMAIN lines' : i \in DOMAIN lines \/ i = n
  BY DEF Longer
<1> HIDE DEF n
<1> QED
  BY <1>1, <1>2, <1>3 DEF C!Of

(* A command starts once and ends while it runs, so each line written keeps *)
(* what the transcript says of the commands.                                *)
LEMMA CommandsGoOn ==
  ASSUME CutTyped, CommandsRight, NEW e \in CutLine, Longer(e),
         UNCHANGED <<died, cutStale>>, claude' # "none",
         \/ e[1] \notin {"start", "note", "stop"} /\ live' = live
         \/ e[1] = "start" /\ e[2] \notin C!Of(lines, {"start"}) /\ live' = live \cup {e[2]}
         \/ e[1] \in {"note", "stop"} /\ e[2] \in live /\ live' = live \ {e[2]}
  PROVE  CommandsRight'
<1> DEFINE n == Len(lines) + 1
<1>1. n \in DOMAIN lines' /\ lines'[n] = e /\ n \in Int
  BY DEF Longer
<1>2. \A i \in DOMAIN lines : lines'[i] = lines[i] /\ i \in DOMAIN lines' /\ i < n /\ i \in Int
  BY DEF Longer
<1>3. \A i \in DOMAIN lines' : i \in DOMAIN lines \/ i = n
  BY DEF Longer
<1> HIDE DEF n
<1>4. \A c : c \in C!Of(lines, {"start"}) <=>
               \E i \in DOMAIN lines : lines[i][1] = "start" /\ lines[i][2] = c
  BY DEF C!Of
<1>5. live \subseteq C!Of(lines, {"start"}) /\ died \cup cutStale \subseteq C!Of(lines, {"start"})
  BY DEF CommandsRight, C!Background
<1>6. StartsOnce(lines)'
  <2>1. e[1] = "start" => \A i \in DOMAIN lines : lines[i][1] = "start" => lines[i][2] # e[2]
    BY <1>4
  <2>2. SUFFICES ASSUME NEW i \in DOMAIN lines', NEW j \in DOMAIN lines',
                        lines'[i][1] = "start", lines'[j][1] = "start",
                        lines'[i][2] = lines'[j][2]
                 PROVE  i = j
    BY DEF StartsOnce
  <2> QED
    BY <1>1, <1>2, <1>3, <2>1, <2>2 DEF CommandsRight, StartsOnce
<1>7. EndsLater(lines)'
  <2>1. e[1] \in {"note", "stop"} =>
          \E i \in DOMAIN lines : lines[i][1] = "start" /\ lines[i][2] = e[2]
    BY <1>4, <1>5
  <2>2. SUFFICES ASSUME NEW j \in DOMAIN lines', lines'[j][1] \in {"note", "stop"}
                 PROVE  \E i \in DOMAIN lines' :
                          i < j /\ lines'[i][1] = "start" /\ lines'[i][2] = lines'[j][2]
    BY DEF EndsLater
  <2> QED
    BY <1>1, <1>2, <1>3, <2>1, <2>2 DEF CommandsRight, EndsLater
<1>8. /\ C!Background(lines)' = live' \cup died' \cup cutStale'
      /\ live' \cap (died' \cup cutStale') = {}
  <2>1. C!Of(lines, {"start"})' = C!Of(lines, {"start"}) \cup IF e[1] = "start" THEN {e[2]} ELSE {}
    BY OfLonger
  <2>2. C!Of(lines, {"note", "stop"})' =
          C!Of(lines, {"note", "stop"}) \cup IF e[1] \in {"note", "stop"} THEN {e[2]} ELSE {}
    BY OfLonger
  <2>3. C!Of(lines, {"note", "stop"}) \subseteq C!Of(lines, {"start"})
    <3>1. \A j \in DOMAIN lines : lines[j][1] \in {"note", "stop"} =>
            lines[j][2] \in C!Of(lines, {"start"})
      BY <1>4 DEF CommandsRight, EndsLater
    <3> QED
      BY <3>1 DEF C!Of
  <2> QED
    BY <1>5, <2>1, <2>2, <2>3 DEF CommandsRight, C!Background
<1> QED
  BY <1>6, <1>7, <1>8 DEF CommandsRight

(* A step that leaves the transcript alone.                                 *)
LEMMA LinesRest ==
  ASSUME CutFound, UNCHANGED <<lines, turn, live, died, cutStale>>, record' \in BOOLEAN,
         claude' = "none" => claude = "none"
  PROVE  CutFound'
BY DEF CutFound, CutTyped, TurnRight, CommandsRight, StartsOnce, EndsLater, C!Messages,
       C!Background, C!Of

(* The claude ends: what it ran died.                                       *)
LEMMA ClaudeGone ==
  ASSUME CutFound, C!ClaudeEnds, UNCHANGED <<lines, turn>>
  PROVE  CutFound'
<1>1. CutTyped' /\ TurnRight'
  BY DEF CutFound, CutTyped, TurnRight, C!Messages, C!ClaudeEnds
<1>2. C!Background(lines)' = C!Background(lines) /\ StartsOnce(lines)' /\ EndsLater(lines)'
  BY DEF CutFound, CommandsRight, StartsOnce, EndsLater, C!Background, C!Of
<1>3. CommandsRight'
  BY <1>2 DEF CutFound, CommandsRight, C!ClaudeEnds
<1> QED
  BY <1>1, <1>3 DEF CutFound

(* A line the claude writes.                                                *)
LEMMA LineWritten ==
  ASSUME CutFound, NEW e \in CutLine, lines' = Append(lines, e),
         turn' = IF e[1] = "local" THEN turn ELSE TurnAfter(e[1]),
         UNCHANGED <<died, cutStale>>, record' \in BOOLEAN, claude' # "none",
         live' \in SUBSET CutCommands,
         \/ e[1] \notin {"start", "note", "stop"} /\ live' = live
         \/ e[1] = "start" /\ e[2] \notin C!Of(lines, {"start"}) /\ live' = live \cup {e[2]}
         \/ e[1] \in {"note", "stop"} /\ e[2] \in live /\ live' = live \ {e[2]}
  PROVE  CutFound'
<1>1. Longer(e)
  BY LinesGrow DEF CutFound
<1>2. CutTyped'
  BY <1>1 DEF CutFound, CutTyped, Longer
<1>3. TurnRight'
  BY <1>1, TurnGoesOn DEF CutFound
<1>4. CommandsRight'
  BY <1>1, CommandsGoOn DEF CutFound
<1> QED
  BY <1>2, <1>3, <1>4 DEF CutFound

(* An empty transcript has no message and no command.                       *)
LEMMA CutFoundFirst == C!Init => CutFound
<1> SUFFICES ASSUME C!Init PROVE CutFound
  OBVIOUS
<1>1. lines \in Seq(CutLine) /\ DOMAIN lines = {}
  BY EmptySeq DEF C!Init
<1> QED
  BY <1>1 DEF C!Init, CutFound, CutTyped, TurnRight, CommandsRight, StartsOnce, EndsLater,
              C!Messages, C!Background, C!Of

(* No step of the session, its windows or the daemon breaks it.             *)
LEMMA CutFoundStep == CutFound /\ [C!Next]_(C!vars) => CutFound'
<1> SUFFICES ASSUME CutFound, [C!Next]_(C!vars) PROVE CutFound'
  OBVIOUS
<1> USE DEF C!session
<1>a. record \in BOOLEAN /\ live \in SUBSET CutCommands
  BY DEF CutFound, CutTyped
<1>b. \A k \in LineKinds, c \in CutCommands \cup {0} :
        <<k, c>> \in CutLine /\ <<k, c>>[1] = k /\ <<k, c>>[2] = c
  BY DEF CutLine
<1>1. ASSUME NEW kind \in LineKinds, NEW c \in CutCommands \cup {0}, NEW next,
             C!Write(kind, c, next), next = IF kind = "local" THEN turn ELSE TurnAfter(kind),
             live' \in SUBSET CutCommands,
             \/ kind \notin {"start", "note", "stop"} /\ live' = live
             \/ kind = "start" /\ c \notin C!Of(lines, {"start"}) /\ live' = live \cup {c}
             \/ kind \in {"note", "stop"} /\ c \in live /\ live' = live \ {c}
      PROVE  CutFound'
  <2>1. /\ lines' = Append(lines, <<kind, c>>) /\ turn' = next /\ claude' # "none"
        /\ UNCHANGED <<died, cutStale>> /\ record' \in BOOLEAN
    BY <1>1, <1>a DEF C!Write, C!Adds
  <2> QED
    BY <1>1, <1>b, <2>1, LineWritten
<1>2. CASE \/ C!Prompts \/ C!Calls \/ C!GetsResult \/ C!Local \/ C!Interrupts
           \/ \E kind \in {"report", "short", "error"} : C!Answers(kind)
  <2>1. PICK kind, next :
          /\ kind \in LineKinds \ {"start", "note", "stop"}
          /\ C!Write(kind, 0, next) /\ live' = live
          /\ next = IF kind = "local" THEN turn ELSE TurnAfter(kind)
    BY <1>2 DEF C!Prompts, C!Calls, C!GetsResult, C!Local, C!Interrupts, C!Answers, LineKinds,
                TurnAfter
  <2> QED
    BY <1>1, <1>a, <2>1
<1>3. ASSUME NEW c \in CutCommands, C!StartsCommand(c) PROVE CutFound'
  BY <1>1, <1>3, <1>a DEF C!StartsCommand, LineKinds, TurnAfter
<1>4. ASSUME NEW c \in CutCommands, C!StopsCommand(c) \/ C!CommandEnds(c) PROVE CutFound'
  BY <1>1, <1>4, <1>a DEF C!StopsCommand, C!CommandEnds, LineKinds, TurnAfter
<1>5. CASE C!Registers
  BY <1>5, LinesRest DEF C!Registers
<1>6. CASE C!Crash \/ C!ClosesTab
  BY <1>6, ClaudeGone DEF C!Crash, C!ClosesTab
<1>7. CASE C!ClosesWindow
  BY <1>7, <1>a, ClaudeGone, LinesRest DEF C!ClosesWindow
<1>8. CASE C!OpensTab
  BY <1>8, LinesRest DEF C!OpensTab
<1>9. ASSUME NEW l \in CutTold, C!Tell(l) PROVE CutFound'
  BY <1>9, <1>a, LinesRest DEF C!Tell
<1>10. CASE C!Types
  <2>1. /\ lines' = Append(lines, <<"prompt", 0>>) /\ turn' = "busy" /\ claude' # "none"
        /\ UNCHANGED <<died, cutStale, live>> /\ record' \in BOOLEAN
    BY <1>10, <1>a DEF C!Types, C!Adds
  <2> QED
    BY <1>a, <1>b, <2>1, LineWritten DEF TurnAfter, LineKinds
<1>11. ASSUME NEW to, NEW task, C!OpensWindow(to, task) PROVE CutFound'
  <2>1. UNCHANGED <<died, cutStale, live>> /\ record' = FALSE /\ claude' # "none"
    BY <1>11 DEF C!OpensWindow
  <2>2. CASE task \/ turn = "busy"
    <3>1. lines' = Append(lines, <<"prompt", 0>>) /\ turn' = "busy"
      BY <1>11, <2>2 DEF C!OpensWindow
    <3> QED
      BY <1>a, <1>b, <2>1, <3>1, LineWritten DEF TurnAfter, LineKinds
  <2>3. CASE ~(task \/ turn = "busy")
    BY <1>11, <2>1, <2>3, LinesRest DEF C!OpensWindow
  <2> QED
    BY <2>2, <2>3
<1>12. CASE C!RunsJob \/ C!RunsByHand
  BY <1>11, <1>12 DEF C!RunsJob, C!RunsByHand
<1>13. CASE C!Hold \/ C!Yes \/ C!Refuses \/ C!AsksByHand \/ C!Restart
  BY <1>13, <1>a, LinesRest DEF C!Hold, C!Yes, C!Refuses, C!AsksByHand, C!Restart
<1>14. CASE C!ReadsTold \/ C!SendsClose \/ C!WindowEnds \/ C!StartsJob
  BY <1>14, <1>a, LinesRest DEF C!ReadsTold, C!SendsClose, C!WindowEnds, C!StartsJob
<1>15. CASE UNCHANGED C!vars
  BY <1>15, <1>a, LinesRest DEF C!vars
<1> QED
  BY <1>2, <1>3, <1>4, <1>5, <1>6, <1>7, <1>8, <1>9, <1>10, <1>12, <1>13, <1>14, <1>15
     DEF C!Next, C!Threads
-----------------------------------------------------------------------------
(* tail is the end of the transcript, behind its first k lines.             *)
EndOf(tail, k) ==
  /\ k \in Nat /\ k <= Len(lines)
  /\ DOMAIN tail = 1 .. (Len(lines) - k)
  /\ \A i \in DOMAIN tail : tail[i] = lines[i + k]

(* The daemon reads the end of the transcript, with a message in it or      *)
(* whole.                                                                   *)
LEMMA TailRead ==
  ASSUME CutTyped
  PROVE  \E k : /\ EndOf(C!ReadTail(TailLines), k)
                /\ k = 0 \/ C!Messages(C!ReadTail(TailLines)) # {}
<1> DEFINE sizes == {n \in 1 .. Len(lines) : \E k \in 0 .. Len(lines) : n = TailLines * 4^k}
           show == {n \in sizes : C!Messages(C!TailOf(n)) # {}}
<1>1. Len(lines) \in Nat /\ DOMAIN lines = 1 .. Len(lines) /\ lines \in Seq(CutLine)
  BY LenProperties DEF CutTyped
<1>2. CASE show = {}
  <2>1. C!ReadTail(TailLines) = lines
    BY <1>2 DEF C!ReadTail
  <2>2. EndOf(lines, 0)
    BY <1>1 DEF EndOf
  <2> QED
    BY <2>1, <2>2
<1>3. CASE show # {}
  <2>1. C!ReadTail(TailLines) = C!TailOf(C!Min(show))
    BY <1>3 DEF C!ReadTail
  <2>2. show \in SUBSET Nat /\ show \subseteq 1 .. Len(lines)
    OBVIOUS
  <2>3. C!Min(show) \in show
    <3>1. C!Min(show) = O!Min(show)
      BY DEF C!Min, O!Min
    <3> HIDE DEF show
    <3> QED
      BY <1>3, <2>2, <3>1, MinIs
  <2>4. PICK m \in 1 .. Len(lines) : m = C!Min(show) /\ C!Messages(C!TailOf(m)) # {}
    BY <2>2, <2>3
  <2> HIDE DEF show
  <2>5. EndOf(C!TailOf(m), Len(lines) - m)
    <3> DEFINE k == Len(lines) - m
               tail == SubSeq(lines, k + 1, Len(lines))
    <3>1. \A i \in (k + 1) .. Len(lines) : lines[i] \in CutLine
      BY <1>1, ElementOfSeq
    <3>2. k + 1 \in Int /\ k + 1 <= Len(lines) /\ k \in Nat /\ Len(lines) \in Int
      BY <1>1
    <3>3. /\ tail \in Seq(CutLine) /\ Len(tail) = Len(lines) - (k + 1) + 1
          /\ \A i \in 1 .. (Len(lines) - (k + 1) + 1) : tail[i] = lines[(k + 1) + i - 1]
      <4> HIDE DEF k
      <4> QED
        BY <1>1, <3>1, <3>2, SubSeqProperties
    <3>4. C!TailOf(m) = tail
      BY DEF C!TailOf
    <3>5. k <= Len(lines) /\ Len(lines) - m = k
      BY <1>1
    <3> HIDE DEF tail, k
    <3>6. DOMAIN tail = 1 .. (Len(lines) - k)
      <4>1. DOMAIN tail = 1 .. Len(tail) /\ Len(tail) = Len(lines) - k
        BY <3>2, <3>3, LenProperties
      <4> QED
        BY <4>1
    <3>7. ASSUME NEW i \in 1 .. (Len(lines) - k) PROVE tail[i] = lines[i + k]
      <4>1. i \in 1 .. (Len(lines) - (k + 1) + 1) /\ (k + 1) + i - 1 = i + k
        BY <3>2
      <4>2. tail[i] = lines[(k + 1) + i - 1]
        BY <3>3, <4>1
      <4> QED
        BY <4>1, <4>2
    <3> QED
      BY <3>2, <3>4, <3>5, <3>6, <3>7 DEF EndOf
  <2> QED
    BY <2>1, <2>4, <2>5
<1> QED
  BY <1>2, <1>3

(* The last message of the end read is the last of all.                     *)
LEMMA LastMessage ==
  ASSUME CutTyped, NEW tail, NEW k, EndOf(tail, k), k = 0 \/ C!Messages(tail) # {}
  PROVE  /\ C!Messages(tail) = {} <=> C!Messages(lines) = {}
         /\ C!Messages(tail) # {} =>
              \E i \in C!Messages(lines) :
                /\ \A j \in C!Messages(lines) : j <= i
                /\ lines[i] = tail[C!Max(C!Messages(tail))]
<1>1. Len(lines) \in Nat /\ DOMAIN lines = 1 .. Len(lines)
  BY LenProperties DEF CutTyped
<1>2. \A i \in DOMAIN tail : i + k \in DOMAIN lines /\ tail[i] = lines[i + k] /\ i \in Int
  BY <1>1 DEF EndOf
<1>3. \A j \in DOMAIN lines : j > k => j - k \in DOMAIN tail /\ tail[j - k] = lines[j] /\ j \in Int
  BY <1>1 DEF EndOf
<1>4. k \in Nat /\ \A j \in DOMAIN lines : j > 0 /\ j \in Int
  BY <1>1 DEF EndOf
<1>5. \A i \in C!Messages(tail) : i + k \in C!Messages(lines)
  BY <1>2 DEF C!Messages
<1>6. \A j \in C!Messages(lines) : j > k => j - k \in C!Messages(tail)
  BY <1>3 DEF C!Messages
<1>7. C!Messages(tail) = {} <=> C!Messages(lines) = {}
  <2>1. ASSUME C!Messages(tail) = {} PROVE C!Messages(lines) = {}
    <3>1. \A j \in C!Messages(lines) : j > k
      BY <1>4, <2>1 DEF C!Messages
    <3> QED
      BY <1>6, <2>1, <3>1
  <2> QED
    BY <1>5, <2>1
<1>8. ASSUME C!Messages(tail) # {}
      PROVE  \E i \in C!Messages(lines) :
               /\ \A j \in C!Messages(lines) : j <= i
               /\ lines[i] = tail[C!Max(C!Messages(tail))]
  <2> DEFINE said == C!Messages(tail)
             m == C!Max(said)
  <2>1. said \subseteq DOMAIN tail
    BY DEF C!Messages
  <2>2. said \in SUBSET (0 .. Len(lines))
    BY <1>1, <2>1 DEF EndOf
  <2>3. m \in said /\ \A i \in said : m >= i
    <3>1. C!Max(said) = O!Max(said)
      BY DEF C!Max, O!Max
    <3>2. said # {}
      BY <1>8
    <3> HIDE DEF said
    <3>3. O!Max(said) \in said /\ \A i \in said : O!Max(said) >= i
      BY <1>1, <2>2, <3>2, MaxIs
    <3> QED
      BY <3>1, <3>3
  <2> HIDE DEF said, m
  <2>4. m + k \in C!Messages(lines) /\ lines[m + k] = tail[m] /\ m \in Int
    BY <1>2, <1>5, <2>1, <2>3 DEF said
  <2>5. ASSUME NEW j \in C!Messages(lines) PROVE j <= m + k
    <3>1. j \in DOMAIN lines /\ j \in Int
      BY <1>4 DEF C!Messages
    <3>2. CASE j > k
      <4>1. j - k \in said
        BY <1>6, <2>5, <3>2 DEF said
      <4> QED
        BY <1>4, <2>3, <2>4, <3>1, <4>1
    <3>3. CASE ~(j > k)
      <4>1. m > 0
        BY <2>1, <2>3 DEF EndOf
      <4> QED
        BY <1>4, <2>4, <3>1, <3>3, <4>1
    <3> QED
      BY <3>2, <3>3
  <2> QED
    BY <2>4, <2>5 DEF m, said
<1> QED
  BY <1>7, <1>8

(* Where the end shows the start of each command that died, those it shows  *)
(* as never ended are these.                                                *)
LEMMA BackgroundShown ==
  ASSUME CutFound, claude = "none", cutStale = {}, NEW tail, NEW k, EndOf(tail, k),
         died \subseteq C!Of(tail, {"start"})
  PROVE  C!Background(tail) = died
<1>1. Len(lines) \in Nat /\ DOMAIN lines = 1 .. Len(lines)
  BY LenProperties DEF CutFound, CutTyped
<1>2. \A i \in DOMAIN tail :
        i + k \in DOMAIN lines /\ tail[i] = lines[i + k] /\ i \in Int /\ i + k > k
  BY <1>1 DEF EndOf
<1>3. \A j \in DOMAIN lines : j > k => j - k \in DOMAIN tail /\ tail[j - k] = lines[j]
  BY <1>1 DEF EndOf
<1>4. k \in Nat /\ \A j \in DOMAIN lines : j \in Int
  BY <1>1 DEF EndOf
<1>5. C!Background(lines) = died /\ StartsOnce(lines) /\ EndsLater(lines)
  BY DEF CutFound, CommandsRight
<1>6. \A kinds : C!Of(tail, kinds) \subseteq C!Of(lines, kinds)
  BY <1>2 DEF C!Of
<1>7. died \subseteq C!Background(tail)
  BY <1>5, <1>6 DEF C!Background
<1>8. ASSUME NEW c \in C!Background(tail) PROVE c \in died
  <2>1. c \in C!Of(lines, {"start"}) /\ c \notin C!Of(tail, {"note", "stop"})
    BY <1>6 DEF C!Background
  <2>2. PICK i \in DOMAIN tail : tail[i][1] = "start" /\ tail[i][2] = c
    BY DEF C!Background, C!Of
  <2>3. c \notin C!Of(lines, {"note", "stop"})
    <3>1. SUFFICES ASSUME NEW j \in DOMAIN lines, lines[j][1] \in {"note", "stop"},
                          lines[j][2] = c
                   PROVE  FALSE
      BY DEF C!Of
    <3>2. PICK l \in DOMAIN lines : l < j /\ lines[l][1] = "start" /\ lines[l][2] = c
      BY <1>5, <3>1 DEF EndsLater
    <3>3. l = i + k
      BY <1>2, <1>5, <2>2, <3>2 DEF StartsOnce
    <3>4. j > k
      BY <1>2, <1>4, <3>2, <3>3
    <3>5. c \in C!Of(tail, {"note", "stop"})
      BY <1>3, <3>1, <3>4 DEF C!Of
    <3> QED
      BY <2>1, <3>5
  <2> QED
    BY <1>5, <2>1, <2>3 DEF C!Background
<1> QED
  BY <1>7, <1>8

(* The daemon calls a session cut exactly when its turn has not ended.      *)
LEMMA CutIsFoundSo == CutFound => C!CutIsFound
<1> DEFINE tail == C!ReadTail(TailLines)
           said == C!Messages(tail)
           kind == tail[C!Max(said)][1]
<1> SUFFICES ASSUME CutFound, claude = "none", turn = "short" => C!Shown
             PROVE  C!GetCut(tail) <=> C!NotEnded
  BY DEF C!CutIsFound
<1>1. PICK k : EndOf(tail, k) /\ (k = 0 \/ said # {})
  BY TailRead DEF CutFound
<1>2. C!GetCut(tail) <=>
        /\ said # {}
        /\ \/ kind \in {"call", "stop", "error", "prompt", "result", "start", "note"}
           \/ kind = "short" /\ C!Background(tail) # {}
  BY DEF C!GetCut
<1>3. turn = "short" => C!Background(tail) = died
  <2> HIDE DEF tail
  <2> QED
    BY <1>1, BackgroundShown DEF C!Shown, tail
<1> HIDE DEF tail
<1>4. CASE said = {}
  <2>1. turn = "rest"
    BY <1>1, <1>4, LastMessage DEF CutFound, TurnRight
  <2> QED
    BY <1>2, <1>4, <2>1 DEF C!NotEnded
<1>5. CASE said # {}
  <2>1. PICK i \in C!Messages(lines) :
          (\A j \in C!Messages(lines) : j <= i) /\ lines[i] = tail[C!Max(said)]
    BY <1>1, <1>5, LastMessage DEF CutFound
  <2>2. turn = TurnAfter(kind) /\ kind \in LineKinds /\ kind # "local"
    <3>1. lines[i] \in CutLine /\ lines[i][1] # "local"
      BY ElementOfSeq, LenProperties DEF CutFound, CutTyped, C!Messages, C!Locals
    <3> QED
      BY <2>1, <3>1 DEF CutFound, TurnRight, CutLine
  <2> HIDE DEF kind, said
  <2> QED
    BY <1>2, <1>3, <1>5, <2>2 DEF C!NotEnded, TurnAfter, LineKinds
<1> QED
  BY <1>4, <1>5
-----------------------------------------------------------------------------
(* The yes of Seb, and the job it starts.                                   *)
YesTyped ==
  /\ yes \in [step : {"none", "read", "close", "wait"}, told : SUBSET CutTold]
  /\ opens \in [step : {"none", "open"}, told : SUBSET CutTold]
  /\ events \in SUBSET CutTold

(* While a yes is at work and no one took the session, no claude runs it.   *)
OneClaude ==
  /\ yes.step = "none" <=> yes = C!Nothing
  /\ opens.step = "none" <=> opens = C!Nothing
  /\ yes = C!Nothing \/ opens = C!Nothing
  /\ card => yes = C!Nothing /\ opens = C!Nothing
  /\ (yes # C!Nothing \/ opens # C!Nothing) /\ ~since => claude = "none" /\ ~byHand
  /\ ~two

(* What waits in the folder of a window that is to close is in the hands of *)
(* the yes, or of those that may be lost.                                   *)
LinesSafe ==
  /\ left \subseteq events \cup typed \cup yes.told \cup opens.told \cup excused
  /\ yes.step = "read" => yes.told = {}
  /\ yes.step \in {"close", "wait"} => events \subseteq yes.told \cup typed \cup excused
  /\ closing /\ yes.step # "wait" =>
       events \cup yes.told \cup opens.told \subseteq typed \cup excused
  /\ window = "none" => ~closing

(* The second invariant: of the answer, and of the lines told.              *)
YesRight == YesTyped /\ OneClaude /\ LinesSafe

(* An answer that is not at work.                                           *)
LEMMA NoYes ==
  /\ C!Nothing \in [step : {"none", "read", "close", "wait"}, told : SUBSET CutTold]
  /\ C!Nothing \in [step : {"none", "open"}, told : SUBSET CutTold]
  /\ C!Nothing.step = "none" /\ C!Nothing.told = {}
BY DEF C!Nothing

(* Nothing is told and nothing asked at first.                              *)
LEMMA YesRightFirst == C!Init => YesRight
BY NoYes DEF C!Init, YesRight, YesTyped, OneClaude, LinesSafe

(* No step leaves a second claude at the session, or loses a line told.     *)
LEMMA YesRightStep == YesRight /\ [C!Next]_(C!vars) => YesRight'
<1> SUFFICES ASSUME YesRight, [C!Next]_(C!vars) PROVE YesRight'
  OBVIOUS
<1> USE NoYes DEF YesRight, YesTyped, OneClaude, LinesSafe, C!windows, C!daemon, C!ghosts
<1>1. CASE \/ C!Prompts \/ C!Calls \/ C!GetsResult \/ C!Local \/ C!Interrupts
           \/ \E c \in CutCommands : C!StartsCommand(c) \/ C!StopsCommand(c) \/ C!CommandEnds(c)
           \/ \E kind \in {"report", "short", "error"} : C!Answers(kind)
  <2>1. PICK kind, c, next : C!Write(kind, c, next)
    BY <1>1 DEF C!Prompts, C!Calls, C!GetsResult, C!Local, C!Interrupts, C!StartsCommand,
                C!StopsCommand, C!CommandEnds, C!Answers
  <2> QED
    BY <2>1 DEF C!Write
<1>2. CASE C!Registers
  BY <1>2 DEF C!Registers
<1>3. CASE C!Crash
  BY <1>3 DEF C!Crash, C!ClaudeEnds
<1>4. CASE C!ClosesTab
  BY <1>4 DEF C!ClosesTab, C!ClaudeEnds
<1>5. CASE C!ClosesWindow
  BY <1>5 DEF C!ClosesWindow, C!ClaudeEnds, C!WindowGone
<1>6. CASE C!OpensTab
  BY <1>6 DEF C!OpensTab, C!Since
<1>7. ASSUME NEW l \in CutTold, C!Tell(l) PROVE YesRight'
  BY <1>7 DEF C!Tell, C!session
<1>8. CASE C!Types
  BY <1>8 DEF C!Types
<1>9. CASE C!Hold
  BY <1>9 DEF C!Hold, C!session
<1>10. CASE C!Yes
  <2>1. CASE C!IsCut /\ window # "up"
    <3>1. claude = "none" \/ ~record
      BY <2>1 DEF C!IsCut, C!IsLive
    <3>2. /\ yes' = [step |-> "read", told |-> {}] /\ card' = FALSE
          /\ since' = (byHand \/ (claude # "none" /\ ~record))
          /\ UNCHANGED <<C!session, C!windows, opens, byHand, left, typed, excused, two>>
      BY <1>10, <2>1 DEF C!Yes
    <3>3. card /\ yes = C!Nothing /\ opens = C!Nothing
      BY <1>10 DEF C!Yes
    <3>4. yes'.step = "read" /\ yes'.told = {} /\ yes' # C!Nothing /\ opens' = C!Nothing
      BY <3>2, <3>3
    <3>5. YesTyped'
      BY <3>2
    <3>6. OneClaude'
      BY <3>1, <3>2, <3>3, <3>4 DEF C!session
    <3>7. LinesSafe'
      BY <3>2, <3>3, <3>4
    <3> QED
      BY <3>5, <3>6, <3>7
  <2>2. CASE ~(C!IsCut /\ window # "up")
    BY <1>10, <2>2 DEF C!Yes, C!session
  <2> QED
    BY <2>1, <2>2
<1>11. CASE C!ReadsTold
  <2>1. yes'.step = "close" /\ yes'.told = events /\ yes' # C!Nothing /\ yes # C!Nothing
    BY <1>11 DEF C!ReadsTold
  <2>2. YesTyped'
    BY <1>11 DEF C!ReadsTold
  <2>3. yes.step = "read" /\ opens = C!Nothing
    BY <1>11, <2>1 DEF C!ReadsTold
  <2>4. LinesSafe'
    BY <1>11, <2>1, <2>3 DEF C!ReadsTold
  <2>5. OneClaude'
    BY <1>11, <2>1 DEF C!ReadsTold, C!session
  <2> QED
    BY <2>2, <2>4, <2>5
<1>12. CASE C!SendsClose
  BY <1>12 DEF C!SendsClose, C!session
<1>13. CASE C!WindowEnds
  BY <1>13 DEF C!WindowEnds, C!WindowGone, C!session
<1>14. CASE C!Refuses
  BY <1>14 DEF C!Refuses, C!session
<1>15. CASE C!StartsJob
  BY <1>15 DEF C!StartsJob, C!session
<1>16. CASE C!RunsJob
  BY <1>16 DEF C!RunsJob, C!OpensWindow, C!Moved
<1>17. CASE C!AsksByHand
  BY <1>17 DEF C!AsksByHand, C!Since, C!session
<1>18. CASE C!RunsByHand
  BY <1>18 DEF C!RunsByHand, C!OpensWindow, C!Since
<1>19. CASE C!Restart
  BY <1>19 DEF C!Restart, C!session
<1>20. CASE UNCHANGED C!vars
  BY <1>20 DEF C!vars, C!session
<1> QED
  BY <1>1, <1>2, <1>3, <1>4, <1>5, <1>6, <1>7, <1>8, <1>9, <1>10, <1>11, <1>12, <1>13,
     <1>14, <1>15, <1>16, <1>17, <1>18, <1>19, <1>20 DEF C!Next, C!Threads

(* A session no claude runs is found cut exactly when its last turn had not *)
(* ended (get_cut), the yes runs no second claude on it unless someone took *)
(* it meanwhile (resume_cut), and a line left for it is typed, waits or is  *)
(* on its way (resume_ops).                                                 *)
THEOREM CutSessionsRight == C!Spec => []CutRight
<1>1. C!Init => CutFound /\ YesRight
  BY CutFoundFirst, YesRightFirst
<1>2. CutFound /\ YesRight /\ [C!Next]_(C!vars) => (CutFound /\ YesRight)'
  BY CutFoundStep, YesRightStep
<1>3. CutFound /\ YesRight => CutRight
  BY CutIsFoundSo DEF CutRight, C!CutRight, YesRight, OneClaude, LinesSafe, C!NoSecondClaude,
                      C!LinesStay
<1> QED
  BY <1>1, <1>2, <1>3, PTL DEF C!Spec
-----------------------------------------------------------------------------
(* The parts side by side (MCWorkers): a step of the run is a step of one   *)
(* of them, and none of the others sees it.                                 *)
LEMMA PartsStep ==
  ASSUME [MCNext]_all
  PROVE  /\ [Next]_vars /\ [R!Next]_(R!vars) /\ [C!Next]_(C!vars)
         /\ [N!Next]_(N!vars) /\ [O!Next]_(O!vars)
<1>1. UNCHANGED relaysVars => UNCHANGED R!vars
  BY DEF relaysVars, R!vars
<1>2. UNCHANGED cutVars => UNCHANGED C!vars
  BY DEF cutVars, C!vars, C!session, C!windows, C!daemon, C!ghosts
<1>3. UNCHANGED notesVars => UNCHANGED N!vars
  BY DEF notesVars, N!vars, N!proposal, N!ghosts
<1>4. UNCHANGED orderVars => UNCHANGED O!vars
  BY DEF orderVars, O!vars
<1>5. \/ Next /\ UNCHANGED <<relaysVars, cutVars, notesVars, orderVars>>
      \/ R!Next /\ UNCHANGED <<vars, cutVars, notesVars, orderVars>>
      \/ C!Next /\ UNCHANGED <<vars, relaysVars, notesVars, orderVars>>
      \/ N!Next /\ UNCHANGED <<vars, relaysVars, cutVars, orderVars>>
      \/ O!Next /\ UNCHANGED <<vars, relaysVars, cutVars, notesVars>>
      \/ UNCHANGED <<vars, relaysVars, cutVars, notesVars, orderVars>>
  BY DEF MCNext, PlacesStep, RelaysStep, CutStep, NotesStep, OrderStep, all
<1> QED
  BY <1>1, <1>2, <1>3, <1>4, <1>5

(* The invariants and the action property of the run hold of its own        *)
(* specification, for every value of the constants: each part keeps its own *)
(* whatever the other parts do.                                             *)
THEOREM WorkersRight ==
  MCSpec => /\ [](NoneRefused /\ MissingHasEnded /\ FollowsCounted /\ NotesKept /\ CutRight)
            /\ OrderKept
<1>1. MCInit => Init /\ R!Init /\ C!Init /\ N!Init /\ O!Init
  BY DEF MCInit
<1>2. MCSpec => Spec /\ R!Spec /\ N!Spec /\ O!Spec
  BY <1>1, PartsStep, PTL DEF MCSpec, Spec, R!Spec, N!Spec, O!Spec
<1>3. MCSpec => []CutRight
  <2>1. C!Init => CutFound /\ YesRight
    BY CutFoundFirst, YesRightFirst
  <2>2. CutFound /\ YesRight /\ [C!Next]_(C!vars) => (CutFound /\ YesRight)'
    BY CutFoundStep, YesRightStep
  <2>3. CutFound /\ YesRight => CutRight
    BY CutIsFoundSo DEF CutRight, C!CutRight, YesRight, OneClaude, LinesSafe, C!NoSecondClaude,
                        C!LinesStay
  <2> QED
    BY <1>1, <2>1, <2>2, <2>3, PartsStep, PTL DEF MCSpec
<1> QED
  BY <1>2, <1>3, PlacesKeptForStarts, GoneHasEnded, StreamsCounted, NotesReachSeb, QueueOrdered,
     PTL
=============================================================================
