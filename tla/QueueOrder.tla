----------------------------- MODULE QueueOrder -----------------------------
(***************************************************************************)
(* The order of the task queue of bundle-ctl/daemon.py: where a request,   *)
(* a requeue, a task put first and a task taken again at the head go, and  *)
(* what a move, a schedule and a force by hand change.  AgentQueue has     *)
(* what a pass does with a task it starts; here a pass takes tasks of      *)
(* several bundles off the queue, at most MaxAgents at once.               *)
(*                                                                         *)
(* What a task may also wait for (GitHub, a login, memory, the end of its  *)
(* agent) is a free choice: a pass may start any task that the queue       *)
(* itself does not hold back.                                              *)
(***************************************************************************)
EXTENDS Integers, Sequences, FiniteSetsExt, SequencesExt

CONSTANTS
    Bundles,
    Priorities,   \* of the tasks that callers send
    Host,         \* the caller that may change any task
    NoTask,
    MaxTasks,     \* bound: the tasks sent
    MaxAsked,     \* bound: the requests between their check and their place
    MaxHands,     \* bound: the moves, schedules and forces
    MaxAgents,    \* MAX_AGENTS
    MaxRelaunches \* MAX_RELAUNCHES

VARIABLES
    queue,      \* state["queue"]
    asked,      \* the requests past their checks, not in the queue yet
    files,      \* the task in the files of each bundle while its window is open or launched
    relaunches, \* state["relaunches"]
    sent,       \* how many tasks came in
    hands

vars == <<queue, asked, files, relaunches, sent, hands>>

Agents == {b \in Bundles : files[b] # NoTask}
Callers == Bundles \union {Host}
Holds == {"no", "time", "manual", "outage"}
Lowest(q) == IF q = <<>> THEN 0 ELSE Min({q[i].priority : i \in DOMAIN q})
PlacesOf(q, b) == {i \in DOMAIN q : q[i].bundle = b}

(* The arrival of a task is the number of its insertion; `by` is how it   *)
(* got its place: sent, behind another task of its bundle, first of them, *)
(* taken again at the head, or moved by hand.                             *)
Task(b, c, p, resume, at, by) ==
    [bundle |-> b, parent |-> c, priority |-> p, resume |-> resume, at |-> at, by |-> by,
     hold |-> "no", forced |-> FALSE]

Init ==
    /\ queue = <<>> /\ asked = {} /\ sent = 0 /\ hands = 0
    /\ files = [b \in Bundles |-> NoTask]
    /\ relaunches = [b \in Bundles |-> 0]

-----------------------------------------------------------------------------
(* check_task reads the queue and lets go of state_lock; enqueue takes it  *)
(* again.  A requeue also reads the lowest priority, before its enqueue.   *)
Request(b, c, p, resume, first) ==
    [bundle |-> b, parent |-> c, priority |-> p, resume |-> resume, first |-> first]

MoreTasks == Cardinality(asked) < MaxAsked /\ sent + Cardinality(asked) < MaxTasks
MayAsk(b, resume) == resume => PlacesOf(queue, b) = {}

(* What a bundle sends itself is changed by those who change what the host *)
(* sends it, so this is left out.                                          *)
Sends(c, b) ==
    /\ c # b /\ MoreTasks
    /\ \E p \in Priorities, resume \in BOOLEAN :
        /\ MayAsk(b, resume)
        /\ asked' = asked \union {Request(b, c, p, resume, FALSE)}
    /\ UNCHANGED <<queue, files, relaunches, sent, hands>>

Requeues(b) ==
    /\ b \in Agents /\ MoreTasks
    /\ MayAsk(b, TRUE)
    /\ asked' = asked \union {Request(b, Host, Lowest(queue), TRUE, FALSE)}
    /\ UNCHANGED <<queue, files, relaunches, sent, hands>>

(* queue_build and place put the session of a running agent before the     *)
(* tasks that wait for that agent.                                         *)
PutsFirst(b) ==
    /\ b \in Agents /\ MoreTasks
    /\ ~\E i \in PlacesOf(queue, b) : queue[i].resume
    /\ asked' = asked \union {Request(b, Host, files[b].priority, TRUE, TRUE)}
    /\ UNCHANGED <<queue, files, relaunches, sent, hands>>

\* Mutant of Behind: the task goes where its priority puts it.
BehindNone(b) == {}
Behind(b) == PlacesOf(queue, b)

ByPriority(p) ==
    Min({i \in DOMAIN queue : queue[i].priority < p} \union {Len(queue) + 1})

PlaceOf(r) ==
    IF r.first /\ PlacesOf(queue, r.bundle) # {}
    THEN Min(PlacesOf(queue, r.bundle))
    ELSE Max({ByPriority(r.priority)} \union {i + 1 : i \in Behind(r.bundle)})

HowPut(r) ==
    IF r.first /\ PlacesOf(queue, r.bundle) # {} THEN "first"
    ELSE IF PlaceOf(r) = ByPriority(r.priority) THEN "sent" ELSE "behind"

Enqueue(r) ==
    /\ asked' = asked \ {r} /\ sent' = sent + 1
    /\ queue' = InsertAt(queue, PlaceOf(r),
                         Task(r.bundle, r.parent, r.priority, r.resume, sent, HowPut(r)))
    /\ relaunches' = [relaunches EXCEPT ![r.bundle] = 0]
    /\ UNCHANGED <<files, hands>>

-----------------------------------------------------------------------------
(* By hand: move, schedule, force and unqueue act on the first task of a   *)
(* bundle that the caller may change.                                      *)
MayChange(c, i) == c \in {Host, queue[i].bundle, queue[i].parent}

QueuedTask(c, b) ==
    LET mine == {i \in PlacesOf(queue, b) : MayChange(c, i)}
    IN  IF mine = {} THEN {} ELSE {Min(mine)}

\* Mutant of Clamped: the task keeps its priority wherever it goes.
KeptPriority(q, place) == q[place].priority
Clamped(q, place) ==
    LET most == IF place > 1 THEN Min({q[place].priority, q[place - 1].priority})
                ELSE q[place].priority
    IN  IF place < Len(q) THEN Max({most, q[place + 1].priority}) ELSE most

Moves(c, b) ==
    /\ hands < MaxHands /\ hands' = hands + 1
    /\ \E i \in QueuedTask(c, b), place \in DOMAIN queue :
        LET put == InsertAt(RemoveAt(queue, i), place, queue[i])
        IN  queue' = [put EXCEPT ![place].priority = Clamped(put, place), ![place].by = "moved"]
    /\ UNCHANGED <<asked, files, relaunches, sent>>

Schedules(c, b) ==
    /\ hands < MaxHands /\ hands' = hands + 1
    /\ \E i \in QueuedTask(c, b), hold \in {"no", "time", "manual"} :
        queue' = [queue EXCEPT ![i].hold = hold, ![i].forced = FALSE]
    /\ UNCHANGED <<asked, files, relaunches, sent>>

(* All of the queue but what waits for its time, a resume by hand, GitHub  *)
(* or the main login, or every task of one bundle.                         *)
Forces(which) ==
    /\ hands < MaxHands /\ hands' = hands + 1
    /\ which # {}
    /\ queue' = [i \in DOMAIN queue |->
                    IF i \in which THEN [queue[i] EXCEPT !.forced = TRUE, !.hold = "no"]
                    ELSE queue[i]]
    /\ UNCHANGED <<asked, files, relaunches, sent>>

Unqueues(c, b) ==
    /\ \E i \in QueuedTask(c, b) : queue' = RemoveAt(queue, i)
    /\ relaunches' = [relaunches EXCEPT ![b] = MaxRelaunches]
    /\ UNCHANGED <<asked, files, sent, hands>>

(* The time of a task comes, or the outage of GitHub that a task waits     *)
(* for begins or ends.                                                     *)
Waits(i) ==
    /\ \/ queue[i].hold \in {"time", "outage"} /\ queue' = [queue EXCEPT ![i].hold = "no"]
       \/ /\ queue[i].hold = "no" /\ queue[i].resume /\ ~queue[i].forced
          /\ hands < MaxHands
          /\ queue' = [queue EXCEPT ![i].hold = "outage"]
    /\ hands' = IF queue'[i].hold = "outage" THEN hands + 1 ELSE hands
    /\ UNCHANGED <<asked, files, relaunches, sent>>

-----------------------------------------------------------------------------
(* A pass takes a task that nothing holds, none of its bundle before it,   *)
(* within the cap unless it was forced.                                    *)
IsFirst(i) == i = Min(PlacesOf(queue, queue[i].bundle))

Starts(i) ==
    /\ queue[i].hold = "no" /\ IsFirst(i)
    /\ queue[i].bundle \notin Agents
    /\ queue[i].forced \/ Cardinality(Agents) < MaxAgents
    /\ queue' = RemoveAt(queue, i)
    /\ files' = [files EXCEPT ![queue[i].bundle] = [queue[i] EXCEPT !.forced = FALSE]]
    /\ UNCHANGED <<asked, relaunches, sent, hands>>

(* The launch of a new task comes to nothing: no window, no session.  The  *)
(* pass takes it again at the head, with the priority and the parent of    *)
(* its files; relaunches counts.                                           *)
TakenAgain(b) ==
    /\ b \in Agents /\ ~files[b].resume /\ PlacesOf(queue, b) = {}
    /\ relaunches[b] < MaxRelaunches
    /\ relaunches' = [relaunches EXCEPT ![b] = @ + 1]
    /\ files' = [files EXCEPT ![b] = NoTask]
    /\ queue' = <<Task(b, files[b].parent, files[b].priority, FALSE, files[b].at, "head")>> \o queue
    /\ UNCHANGED <<asked, sent, hands>>

Ends(b) ==
    /\ b \in Agents
    /\ files' = [files EXCEPT ![b] = NoTask]
    /\ UNCHANGED <<queue, asked, relaunches, sent, hands>>

ByHand ==
    \/ \E c \in Callers, b \in Bundles : Moves(c, b) \/ Schedules(c, b) \/ Unqueues(c, b)
    \/ Forces({i \in DOMAIN queue : queue[i].hold = "no"})
    \/ \E b \in Bundles : Forces(PlacesOf(queue, b))

Next ==
    \/ \E c \in Callers, b \in Bundles : Sends(c, b)
    \/ \E b \in Bundles : Requeues(b) \/ PutsFirst(b) \/ TakenAgain(b) \/ Ends(b)
    \/ \E r \in asked : Enqueue(r)
    \/ \E i \in DOMAIN queue : Waits(i) \/ Starts(i)
    \/ ByHand

Spec == Init /\ [][Next]_vars

-----------------------------------------------------------------------------
Ranked(q) == \A i, j \in DOMAIN q : i < j => q[i].priority >= q[j].priority

Strays(q) == \E i \in DOMAIN q : q[i].by \in {"behind", "first", "head"}

(* A queue in the order of priority stays in it, whatever is sent, moved   *)
(* to any place, started or dropped, unless a task is put by its bundle or *)
(* taken again at the head (move_task: "so that the queue stays in the     *)
(* order of priority").                                                    *)
RankKept == [][Ranked(queue) /\ ~Strays(queue') => Ranked(queue')]_vars

(* The tasks of a bundle start in the order they came, moves by hand and   *)
(* sessions put first aside: a later one of a higher priority never passes *)
(* the one it was sent after (enqueue, `behind`).                          *)
BundleOrder ==
    \A i, j \in DOMAIN queue :
        i < j /\ queue[i].bundle = queue[j].bundle
              /\ queue[i].by \notin {"moved", "first"} /\ queue[j].by # "moved"
        => queue[i].at < queue[j].at


(* The order of the queue, of bundles and of tasks.                         *)
OrderKept == []BundleOrder /\ RankKept
=============================================================================
