----------------------------- MODULE AgentQueue -----------------------------
(***************************************************************************)
(* How a queued task reaches the agent of its bundle on this host          *)
(* (launch_queued of bundle-ctl/daemon.py): a pass over the queue starts a *)
(* terminal on the task, one agent at a time, or hands it to the terminal  *)
(* whose agent gave its verdict, which types it (Waker, agent-terminal.py).*)
(* A task nothing took is queued again; the daemon closes terminals, for a *)
(* requeue or after a verdict, and may restart at any point.               *)
(*                                                                         *)
(* A pass holds state_lock from its read of state.json to its write, so it *)
(* is one step; what it writes in `.agent` folders and the jobs it starts  *)
(* stay when it dies before that write.  The order among bundles is any    *)
(* (priorities, moves), the one within a bundle is the queue's.  What else *)
(* a task may wait for (its pause, its time, GitHub, the login, the disk,  *)
(* a slot, memory) is the set of tasks `ready` in a pass.                  *)
(*                                                                         *)
(* Left out: VS Code windows, remote agents (WorkerPlaces), deletions, ops *)
(* windows, and how a line left for a terminal is typed (Typing).          *)
(***************************************************************************)
EXTENDS Integers, FiniteSets, SequencesExt

CONSTANTS
  Bundles, Tasks, NoTask,
  Bundle,        (* [Tasks -> Bundles]                                      *)
  Resumes,       (* the tasks that go on with the session of the bundle     *)
  Requeues,      (* those of them that requeue_agent makes                  *)
  Texts,         (* those with a text of their own                          *)
  MaxRelaunches, (* MAX_RELAUNCHES                                          *)
  MaxLosses,     (* bound: terminals lost to a logout or closed by hand     *)
  MaxFaults      (* bound: restarts of the daemon, and passes that die      *)
                 (* before their write                                      *)

ASSUME ConstantsAssumption ==
  /\ IsFiniteSet(Bundles) /\ IsFiniteSet(Tasks) /\ NoTask \notin Tasks
  /\ Bundle \in [Tasks -> Bundles]
  /\ Resumes \subseteq Tasks /\ Requeues \subseteq Resumes
  /\ Texts \subseteq Resumes \ Requeues
  /\ MaxRelaunches \in Nat /\ MaxLosses \in Nat /\ MaxFaults \in Nat

VARIABLES
  queue,      (* state["queue"], each task with the bundle it is for        *)
  launches,   (* state["launches"], "old" past LAUNCH_GRACE                 *)
  relaunches, (* state["relaunches"]                                        *)
  task,       (* .agent/task.md, with .agent/queued                         *)
  session,    (* .agent/session                                             *)
  lock,       (* .agent/run.lock                                            *)
  done,       (* .agent/done                                                *)
  pause,      (* .agent/pause                                               *)
  terminal,   (* the spawn job of a bundle, then its terminal               *)
  closer,     (* the thread that closes the terminal of a bundle            *)
  fate,       (* what became of each task, which no file says               *)
  hidden,     (* the tasks taken that a pass no longer finds to be so: dead *)
              (* passes left them in the queue and wrote another task       *)
  losses, faults

files == <<task, session, lock, done>>
state == <<queue, launches, relaunches>>
bounds == <<hidden, losses, faults>>
vars == <<state, files, pause, terminal, closer, fate, bounds>>

(* "starting" runs `up`, with .agent/terminal written and no container yet. *)
Terminals == {"none", "spawning", "opening", "starting", "busy", "idle"}

IsRunning(b)  == terminal[b] \in {"busy", "idle"}
InTerminal(b) == terminal[b] \in {"starting", "busy", "idle"}

(* get_terminals: the process of a terminal runs.                           *)
HasTerminal(b) == terminal[b] \in {"opening", "starting", "busy", "idle"}

(* The launches a pass still counts; the mutant counts them for ever.       *)
AliveForEver == {b \in Bundles : launches[b] # "none" /\ ~IsRunning(b) /\ ~done[b]}
Alive == {b \in Bundles : launches[b] = "fresh" /\ ~IsRunning(b) /\ ~done[b]}

Queued == {Bundle[t] : t \in ToSet(queue)}

(* Mutant of Untaken: no limit.                                             *)
UntakenEver(b) == task[b] # NoTask /\ ~session[b] /\ ~IsRunning(b) /\ b \notin Alive \cup Queued

(* A launch nothing took: the pass puts its task back at the head.          *)
Untaken(b) ==
  /\ task[b] # NoTask /\ ~session[b]
  /\ ~IsRunning(b) /\ b \notin Alive \cup Queued
  /\ relaunches[b] < MaxRelaunches

Stranded == {b \in Bundles : Untaken(b)}

(* A task its agent already runs, queued still as the pass that launched it *)
(* died; its mutant never finds one.                                        *)
NeverStarted(t) == FALSE
Started(t) == session[Bundle[t]] /\ task[Bundle[t]] = t

(* A queue with no task of `gone`, in the same order.                       *)
Without(Q, gone) ==
  LET kept[i \in 0..Len(Q)] ==
        IF i = 0 THEN <<>>
        ELSE IF Q[i] \in gone THEN kept[i - 1] ELSE Append(kept[i - 1], Q[i])
  IN  kept[Len(Q)]

(* The queue a pass goes through, and its first task of each bundle.        *)
Considered ==
  SetToSeq({task[b] : b \in Stranded}) \o Without(queue, {t \in Tasks : Started(t)})

Firsts(Q) ==
  {Q[i] : i \in {i \in DOMAIN Q : \A j \in 1..(i - 1) : Bundle[Q[j]] # Bundle[Q[i]]}}

IsBusy(b) == (IsRunning(b) \/ b \in Alive) /\ task[b] # NoTask /\ ~done[b]

(* get_terminal_wait: a verdict, then an idle session nobody closes.        *)
TerminalReady(b) == terminal[b] = "idle" /\ done[b] /\ ~pause[b]

(* get_starting: a launch whose run has not begun.                          *)
IsStarting == \E b \in Alive : task[b] # NoTask /\ ~lock[b]

(* goes_to_terminal, tell_terminal: the text is left as a line for the      *)
(* session, in whatever turn it is, once the task before was typed.         *)
Told(ready) ==
  {t \in ready \cap Texts :
     LET b == Bundle[t] IN HasTerminal(b) /\ session[b] /\ lock[b] /\ ~pause[b]}

Handed(ready) == {t \in ready \ Told(ready) : TerminalReady(Bundle[t])}

Startable(ready) ==
  {t \in ready \ Told(ready) :
     ~IsStarting /\ ~IsBusy(Bundle[t]) /\ ~InTerminal(Bundle[t])}

(* The first of them starts, and the next ones wait for it.                 *)
Launched(Q, ready) ==
  {Q[i] : i \in {i \in DOMAIN Q : /\ Q[i] \in Startable(ready)
                                 /\ \A j \in 1..(i - 1) : Q[j] \notin Startable(ready)}}

(* write_task for the tasks of `new`: the files of another task, or of one  *)
(* with a session, go to the history, the session aside when it goes on, and *)
(* run.lock for a text the turn that takes it ends.                         *)
(* The mutant keeps the session for any task.                               *)
KeepsAny(t, handed) == TRUE
KeepsSession(t, handed) == t \in Resumes \cup handed

WriteTasks(new, handed, told) ==
  LET Of(b)    == {t \in new : Bundle[t] = b}
      moved    == {b \in Bundles : Of(b) # {} /\ (session[b] \/ task[b] \notin Of(b))}
  IN  /\ task' = [b \in Bundles |-> IF Of(b) = {} THEN task[b] ELSE CHOOSE t \in Of(b) : TRUE]
      /\ session' = [b \in Bundles |->
           session[b] /\ (b \in moved => \E t \in Of(b) : KeepsSession(t, handed))]
      /\ lock' = [b \in Bundles |-> lock[b] /\ (b \in moved => Of(b) \subseteq told)]
      /\ done' = [b \in Bundles |-> done[b] /\ b \notin moved]
      /\ pause' = [b \in Bundles |-> pause[b] /\ b \notin moved]

-----------------------------------------------------------------------------
Init ==
  /\ queue = <<>>
  /\ launches = [b \in Bundles |-> "none"]
  /\ relaunches = [b \in Bundles |-> 0]
  /\ task = [b \in Bundles |-> NoTask]
  /\ session = [b \in Bundles |-> FALSE]
  /\ lock = [b \in Bundles |-> FALSE]
  /\ done = [b \in Bundles |-> FALSE]
  /\ pause = [b \in Bundles |-> FALSE]
  /\ terminal = [b \in Bundles |-> "none"]
  /\ closer = [b \in Bundles |-> "none"]
  /\ fate = [t \in Tasks |-> "new"]
  /\ hidden = {} /\ losses = 0 /\ faults = 0

QueueAt(t, place) ==
  /\ queue' = InsertAt(queue, place, t)
  /\ fate' = [fate EXCEPT ![t] = "queued"]
  /\ relaunches' = [relaunches EXCEPT ![Bundle[t]] = 0]

(* enqueue: anywhere its priority puts it, behind the tasks of its bundle;  *)
(* a resume (check_task) needs a session and no other task.                 *)
Enqueue(t) ==
  /\ fate[t] = "new" /\ t \notin Requeues
  /\ t \in Resumes => session[Bundle[t]] /\ Bundle[t] \notin Queued
  /\ \E place \in 1..(Len(queue) + 1) :
       /\ \A i \in place..Len(queue) : Bundle[queue[i]] # Bundle[t]
       /\ QueueAt(t, place)
  /\ UNCHANGED <<launches, files, pause, terminal, closer, bounds>>

Unqueue(t) ==
  /\ t \in ToSet(queue)
  /\ queue' = Without(queue, {t})
  /\ relaunches' = [relaunches EXCEPT ![Bundle[t]] = MaxRelaunches]
  /\ fate' = [fate EXCEPT ![t] = IF @ = "queued" THEN "dropped" ELSE @]
  /\ UNCHANGED <<launches, files, pause, terminal, closer, bounds>>

(* One pass of launch_queued over the queue Q; with no `saved` it dies      *)
(* before write_state.                                                      *)
Pass(Q, ready, saved) ==
  LET handed   == Handed(ready)
      launched == Launched(Q, ready)
      told     == Told(ready)
      new      == handed \cup launched \cup told
      opened   == {Bundle[t] : t \in launched}
      replaced == {task[Bundle[t]] : t \in new} \ (new \cup {NoTask})
  IN  /\ WriteTasks(new, handed, told)
      /\ terminal' = [b \in Bundles |-> IF b \in opened /\ terminal[b] = "none"
                                        THEN "spawning" ELSE terminal[b]]
      /\ closer' = [b \in Bundles |-> IF closer[b] = "asked" THEN "chosen" ELSE closer[b]]
      /\ fate' = [t \in Tasks |->
           IF t \in handed THEN "handed"
           ELSE IF t \in told THEN "taken"
           ELSE IF t \in launched THEN "launched"
           ELSE IF t \in replaced /\ fate[t] \in {"launched", "handed"} THEN "dropped"
           ELSE IF saved /\ \E b \in Stranded : task[b] = t THEN "queued"
           ELSE fate[t]]
      /\ IF saved
         THEN /\ queue' = Without(Q, new)
              /\ launches' = [b \in Bundles |-> IF b \in Alive \cup opened THEN "fresh"
                                                ELSE "none"]
              /\ relaunches' = [b \in Bundles |->
                   IF b \in Stranded THEN relaunches[b] + 1
                   ELSE IF task[b] # NoTask /\ session[b] THEN 0 ELSE relaunches[b]]
              /\ UNCHANGED <<hidden, faults>>
         ELSE /\ hidden' = hidden \cup {t \in replaced \cap ToSet(queue) : fate[t] = "taken"}
              /\ faults' = faults + 1
              /\ UNCHANGED state
      /\ UNCHANGED losses

PassEnds ==
  LET Q == Considered IN \E ready \in SUBSET Firsts(Q) : Pass(Q, ready, TRUE)

PassDies ==
  /\ faults < MaxFaults
  /\ LET Q == Considered IN \E ready \in SUBSET Firsts(Q) : Pass(Q, ready, FALSE)

-----------------------------------------------------------------------------
(* The terminal of a bundle                                                 *)

To(b, to) == terminal' = [terminal EXCEPT ![b] = to]

SpawnOpens(b) ==
  /\ terminal[b] = "spawning" /\ To(b, "opening")
  /\ UNCHANGED <<state, files, pause, closer, fate, bounds>>

(* main writes .agent/terminal, then .agent/session: the task is taken.     *)
TerminalStarts(b) ==
  /\ terminal[b] = "opening" /\ To(b, "starting")
  /\ session' = [session EXCEPT ![b] = TRUE]
  /\ fate' = [fate EXCEPT ![task[b]] = "taken"]
  /\ UNCHANGED <<state, task, lock, done, pause, closer, bounds>>

(* The container is up and agent-run.sh makes run.lock, or reopens.         *)
RunBegins(b) ==
  /\ terminal[b] = "starting" /\ To(b, "busy")
  /\ lock' = [lock EXCEPT ![b] = TRUE]
  /\ UNCHANGED <<state, task, session, done, pause, closer, fate, bounds>>

(* No container could start.                                                *)
UpFails(b) ==
  /\ terminal[b] = "starting" /\ To(b, "none")
  /\ done' = [done EXCEPT ![b] = TRUE]
  /\ UNCHANGED <<state, task, session, lock, pause, closer, fate, bounds>>

(* A turn ends, on a verdict of the run or not (client/agent-stop.py).      *)
TurnEnds(b) ==
  /\ terminal[b] = "busy" /\ To(b, "idle")
  /\ \E verdict \in BOOLEAN : done' = [done EXCEPT ![b] = @ \/ (verdict /\ lock[b])]
  /\ UNCHANGED <<state, task, session, lock, pause, closer, fate, bounds>>

(* Seb or a PR event starts a turn.                                         *)
TurnBegins(b) ==
  /\ terminal[b] = "idle" /\ To(b, "busy")
  /\ UNCHANGED <<state, files, pause, closer, fate, bounds>>

(* Waker.take_task types a task the daemon left.                            *)
TakeTask(b) ==
  /\ terminal[b] = "idle" /\ ~lock[b] /\ task[b] # NoTask
  /\ To(b, "busy")
  /\ lock' = [lock EXCEPT ![b] = TRUE]
  /\ fate' = [fate EXCEPT ![task[b]] = "taken"]
  /\ UNCHANGED <<state, task, session, done, pause, closer, bounds>>

(* The desktop session ends, or Seb closes the terminal, or it never opens. *)
TerminalLost(b) ==
  /\ terminal[b] # "none" /\ losses < MaxLosses
  /\ To(b, "none")
  /\ losses' = losses + 1
  /\ UNCHANGED <<state, files, pause, closer, fate, hidden, faults>>

(* LAUNCH_GRACE passes, which no terminal needs to open.                    *)
LaunchAges(b) ==
  /\ launches[b] = "fresh" /\ terminal[b] \notin {"spawning", "opening"}
  /\ launches' = [launches EXCEPT ![b] = "old"]
  /\ UNCHANGED <<queue, relaunches, files, pause, terminal, closer, fate, bounds>>

-----------------------------------------------------------------------------
(* The daemon closes terminals                                              *)

(* requeue_agent: the session is queued last, a pass runs (enqueue), then   *)
(* the thread of stop_after_turn starts.                                    *)
Requeue(t) ==
  LET b == Bundle[t]
  IN  /\ fate[t] = "new" /\ t \in Requeues
      /\ session[b] /\ HasTerminal(b)
      /\ b \notin Queued /\ closer[b] = "none"
      /\ QueueAt(t, Len(queue) + 1)
      /\ closer' = [closer EXCEPT ![b] = "asked"]
      /\ UNCHANGED <<launches, files, pause, terminal, bounds>>

(* requeue_failed_terminals: the turns of an idle session ended on errors   *)
(* of the API, or on the wait for the login.                                *)
RequeueFailed(t) ==
  LET b == Bundle[t]
  IN  terminal[b] = "idle" /\ ~done[b] /\ ~pause[b] /\ Requeue(t)

(* close_agent_window, of the host: an idle claude, with a verdict or none. *)
CloseWindow(b) ==
  /\ terminal[b] = "idle" /\ closer[b] = "none"
  /\ closer' = [closer EXCEPT ![b] = "chosen"]
  /\ UNCHANGED <<state, files, pause, terminal, fate, bounds>>

(* free_done_terminals, all its checks passed.                              *)
FreeDone(b) ==
  /\ TerminalReady(b) /\ closer[b] = "none" /\ b \notin Queued
  /\ closer' = [closer EXCEPT ![b] = "chosen"]
  /\ UNCHANGED <<state, files, pause, terminal, fate, bounds>>

(* stop_after_turn and close_freed write `pause`, then close the window, at *)
(* the end of the turn or after PAUSE_WAIT.                                 *)
Pauses(b) ==
  /\ closer[b] = "chosen"
  /\ closer' = [closer EXCEPT ![b] = "closing"]
  /\ pause' = [pause EXCEPT ![b] = TRUE]
  /\ UNCHANGED <<state, files, terminal, fate, bounds>>

(* Mutant of Unpause: the `finally` that removes `pause` is dropped.        *)
UnpauseNever(b) == pause
Unpause(b) == [pause EXCEPT ![b] = FALSE]

Closes(b) ==
  /\ closer[b] = "closing"
  /\ closer' = [closer EXCEPT ![b] = "none"]
  /\ pause' = Unpause(b)
  /\ To(b, IF terminal[b] = "spawning" THEN "spawning" ELSE "none")
  /\ UNCHANGED <<state, files, fate, bounds>>

(* The daemon restarts: its jobs and threads die, and main drops the        *)
(* launches with no .agent/terminal (get_alive_launches).                   *)
Restart ==
  /\ faults < MaxFaults /\ faults' = faults + 1
  /\ terminal' = [b \in Bundles |-> IF terminal[b] = "spawning" THEN "none" ELSE terminal[b]]
  /\ launches' = [b \in Bundles |-> IF InTerminal(b) THEN launches[b] ELSE "none"]
  /\ closer' = [b \in Bundles |-> "none"]
  /\ UNCHANGED <<queue, relaunches, files, pause, fate, hidden, losses>>

Next ==
  \/ \E t \in Tasks : Enqueue(t) \/ Unqueue(t) \/ Requeue(t) \/ RequeueFailed(t)
  \/ PassEnds \/ PassDies \/ Restart
  \/ \E b \in Bundles :
       \/ SpawnOpens(b) \/ TerminalStarts(b) \/ RunBegins(b) \/ UpFails(b)
       \/ TurnEnds(b) \/ TurnBegins(b) \/ TakeTask(b) \/ TerminalLost(b)
       \/ LaunchAges(b) \/ FreeDone(b) \/ CloseWindow(b) \/ Pauses(b) \/ Closes(b)

Spec == Init /\ [][Next]_vars

(* A pass each minute, time, the jobs and threads of the daemon, and the    *)
(* first steps of a terminal; no turn need end, no task be ready.           *)
Fairness ==
  /\ WF_vars(PassEnds)
  /\ \A b \in Bundles :
       /\ WF_vars(SpawnOpens(b)) /\ WF_vars(TerminalStarts(b))
       /\ WF_vars(LaunchAges(b)) /\ WF_vars(Pauses(b)) /\ WF_vars(Closes(b))

FairSpec == Spec /\ Fairness

-----------------------------------------------------------------------------
(* The state file, the folders and the processes have their type, and a     *)
(* task is put back MAX_RELAUNCHES times at most.                           *)
TypeOK ==
  /\ queue \in Seq(Tasks) /\ IsInjective(queue)
  /\ launches \in [Bundles -> {"none", "fresh", "old"}]
  /\ relaunches \in [Bundles -> 0..MaxRelaunches]
  /\ task \in [Bundles -> Tasks \cup {NoTask}]
  /\ session \in [Bundles -> BOOLEAN] /\ lock \in [Bundles -> BOOLEAN]
  /\ done \in [Bundles -> BOOLEAN] /\ pause \in [Bundles -> BOOLEAN]
  /\ terminal \in [Bundles -> Terminals]
  /\ closer \in [Bundles -> {"none", "asked", "chosen", "closing"}]
  /\ fate \in [Tasks -> {"new", "queued", "launched", "handed", "taken", "dropped"}]
  /\ hidden \subseteq Tasks
  /\ losses \in 0..MaxLosses /\ faults \in 0..MaxFaults

(* The task t is in its folder, and the stranded check may still see that   *)
(* no terminal took it.                                                     *)
IsKept(t) == task[Bundle[t]] = t /\ ~session[Bundle[t]]

(* A new task that left the queue for a terminal is never out of reach of   *)
(* the check that queues it again, whatever dies between the launch and the *)
(* terminal: the spawn, the pass before its write, the daemon.              *)
FreshKept == \A t \in Tasks \ Resumes : fate[t] = "launched" => IsKept(t)

(* "Once an agent in a terminal gave its verdict, that terminal types the   *)
(* task as the next prompt of the same session" (bundle-ctl/README.md): a   *)
(* task handed to a terminal nobody types is one no pass looks at again, so *)
(* the daemon must not close that terminal first.                           *)
HandedKept ==
  \A t \in Tasks : fate[t] = "handed" => t \in ToSet(queue) \/ InTerminal(Bundle[t])

(* A task an agent took is never launched, handed or queued again: it would *)
(* run twice, though a pass that died left it in the queue.  A second pass  *)
(* that dies may hide one: it starts the next task of the bundle, over the  *)
(* files that tell the first was taken, and both stay queued.               *)
RunsOnce ==
  [][\A t \in Tasks \ hidden : fate[t] = "taken" => fate'[t] = "taken"]_vars

(* A new task nothing took is queued again, replaced, dropped, or was put   *)
(* back MAX_RELAUNCHES times: it does not stay behind a launch for ever.    *)
LaunchEnds ==
  \A t \in Tasks \ Resumes :
    []<>(fate[t] # "launched" \/ relaunches[Bundle[t]] = MaxRelaunches)

=============================================================================
