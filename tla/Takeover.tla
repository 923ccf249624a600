------------------------------ MODULE Takeover ------------------------------
(***************************************************************************)
(* Who runs the claude of a session here: an agent terminal                *)
(* (agent-terminal.py), or the Claude tab of the VS Code window of its     *)
(* bundle (claude-autoopen/extension.js).  A window that opens, or another *)
(* terminal, starts agent-takeover.py in the container: it looks at the    *)
(* turn, leaves `handoff`, and `restarted` when there is nothing to run    *)
(* again, then stops the claude.  A terminal takes the session back by     *)
(* having the window close.  All of them talk through files of .agent,     *)
(* with no lock.                                                           *)
(*                                                                         *)
(* One bundle whose run began.  Left out: a tab that VS Code restores by   *)
(* itself, a session of a tab that is not the one of the agent, remote     *)
(* agents (RemoteAgent), a container that no one could start.              *)
(***************************************************************************)
EXTENDS Integers, FiniteSets

CONSTANTS
  Terminals,    (* agent terminals, each opened once                        *)
  NoTerminal,
  MaxOpens,     (* bound: windows opened on the bundle                      *)
  MaxHangs      (* bound: terminals and windows Seb closes                  *)

Tab == "tab"
Window == "window"

ASSUME ConstantsAssumption ==
  /\ {NoTerminal, Tab, Window} \cap Terminals = {} /\ NoTerminal # Tab
  /\ MaxOpens \in Nat /\ MaxHangs \in Nat

VARIABLES
  up,         (* the container runs                                         *)
  runs,       (* whose claude runs the session: terminals, the tab          *)
  turn,       (* its transcript: "none", "work", "call" in flight           *)
  busy,       (* a claude is at that turn                                   *)
  done,       (* .agent/done: the verdict of the run                        *)
  term,       (* each terminal: its step, what it read                      *)
  taker,      (* the agent-takeover.py a terminal or the window started     *)
  terminal, contfile, handoff, restarted, tabOpened, closing,
              (* .agent/terminal, container, handoff, restarted,            *)
              (* tab-opened, close-window                                   *)
  win,        (* the window: "closed", "opening", "open"                    *)
  shutdown,   (* VS Code stops the container of the window that closed      *)
  owed,       (* a takeover cut the turn, and no claude went on with it     *)
  lost,       (* one went on without it                                     *)
  struck,     (* a terminal stopped a container that others used            *)
  crossed,    (* two took the session at once: takeovers that overlap, a    *)
              (* terminal or a window that starts or ends meanwhile, a turn *)
              (* that begins after the look of a takeover, one that gives   *)
              (* up, or finds its container stopped, with a turn it cut     *)
  raced,      (* a terminal hands over what its window takes, or a window   *)
              (* opens before a terminal that leaves its window is done     *)
  opens, hangs

files == <<terminal, contfile, handoff, restarted, tabOpened, closing>>
claude == <<runs, turn, busy, owed, lost>>
bounds == <<opens, hangs>>
vars == <<up, claude, done, term, taker, files, win, shutdown, struck, crossed, raced, bounds>>

NoTaker == [step |-> "none", of |-> NoTerminal, rerun |-> FALSE]
NewTaker == [NoTaker EXCEPT !.step = "find"]
Off == [step |-> "off", from |-> NoTerminal, box |-> FALSE, cut |-> FALSE, hung |-> FALSE]

Init ==
  /\ up = FALSE /\ runs = {} /\ turn = "none" /\ busy = FALSE /\ done = FALSE
  /\ term = [t \in Terminals |-> Off]
  /\ taker = [x \in Terminals \cup {Window} |-> NoTaker]
  /\ terminal = NoTerminal /\ contfile = FALSE /\ handoff = FALSE /\ restarted = FALSE
  /\ tabOpened = FALSE /\ closing = FALSE
  /\ win = "closed" /\ shutdown = FALSE /\ owed = FALSE /\ lost = FALSE /\ struck = FALSE
  /\ crossed = FALSE /\ raced = FALSE /\ opens = 0 /\ hangs = 0

Step(t, step) == term' = [term EXCEPT ![t].step = step]
Alive(t) == term[t].step \notin {"off", "gone"}
Taking(t) == term[t].step \in {"handing", "mark", "stop"}
Leaving(t) == term[t].step \in {"leave", "closing"}
Starting(t) == Leaving(t) \/ term[t].step \in {"up", "run"}
AtOnce == \E x \in DOMAIN taker : taker[x] # NoTaker
HasWindow == up /\ win = "open"

(* The container stops: what ran in it ends.                                *)
Stops ==
  /\ up' = FALSE /\ runs' = {} /\ busy' = FALSE
  /\ taker' = [x \in DOMAIN taker |-> NoTaker]

(* A claude starts on the session, with GO_ON or not.                       *)
Resumes(x, goOn) ==
  /\ runs' = runs \cup {x}
  /\ turn' = IF goOn THEN "work" ELSE "none"
  /\ busy' = goOn
  /\ lost' = (lost \/ (owed /\ ~goOn)) /\ owed' = FALSE
-----------------------------------------------------------------------------
(* The turn of the session.                                                 *)
TurnBegins ==
  /\ runs # {} /\ turn = "none" /\ turn' = "work" /\ busy' = TRUE
  /\ crossed' = (crossed \/ \E x \in DOMAIN taker : taker[x].step \in {"mark", "stop"})
  /\ UNCHANGED <<up, runs, owed, lost, done, term, taker, files, win, shutdown, struck, raced, bounds>>

TurnGoes ==
  /\ busy /\ runs # {}
  /\ \/ turn = "work" /\ turn' = "call" /\ UNCHANGED <<busy, done>>
     \/ turn = "call" /\ turn' = "work" /\ UNCHANGED <<busy, done>>
     \/ turn = "work" /\ turn' = "none" /\ busy' = FALSE /\ done' \in {done, TRUE}
  /\ UNCHANGED <<up, runs, owed, lost, term, taker, files, win, shutdown, struck, crossed, raced, bounds>>
-----------------------------------------------------------------------------
(* agent-takeover.py of x: it finds the claude, or there is none.           *)
Finds(x) ==
  /\ taker[x].step = "find"
  /\ \E h \in runs : taker' = [taker EXCEPT ![x] = [@ EXCEPT !.step = "watch", !.of = h]]
  /\ UNCHANGED <<up, claude, done, term, files, win, shutdown, struck, crossed, raced, bounds>>

(* No terminal, a verdict, or START_WAIT: a terminal may start its claude.  *)
FindsNone(x) ==
  /\ taker[x].step = "find" /\ runs = {}
  /\ taker' = [taker EXCEPT ![x].step = "mark"]
  /\ crossed' = (crossed \/ \E t \in Terminals : Starting(t))
  /\ UNCHANGED <<up, claude, done, term, files, win, shutdown, struck, raced, bounds>>

(* Its last message calls a tool.                                           *)
CallInFlight == turn = "call"

(* It is idle, by its record or as its last turn ended a while ago.         *)
AtRest(x) == ~busy \/ taker[x].of \notin runs

(* A call in flight, the claude idle or gone; or TURN_WAIT.                 *)
Watches(x) ==
  /\ taker[x].step = "watch"
  /\ taker' = [taker EXCEPT ![x] =
       [@ EXCEPT !.step = "mark", !.rerun = (CallInFlight \/ ~AtRest(x))]]
  /\ UNCHANGED <<up, claude, done, term, files, win, shutdown, struck, crossed, raced, bounds>>

(* Mutant of Restarted: a turn that was cut is marked too.                  *)
RestartedAlways(x) == TRUE
Restarted(x) == restarted \/ ~taker[x].rerun

Marks(x) ==
  /\ taker[x].step = "mark" /\ taker' = [taker EXCEPT ![x].step = "stop"]
  /\ restarted' = Restarted(x) /\ handoff' = TRUE
  /\ UNCHANGED <<up, claude, done, term, terminal, contfile, tabOpened, closing, win, shutdown, struck, crossed, raced, bounds>>

StopsClaude(x) ==
  /\ taker[x].step = "stop" /\ taker' = [taker EXCEPT ![x].step = "unlink"]
  /\ runs' = runs \ {taker[x].of}
  /\ IF taker[x].of \in runs
     THEN busy' = FALSE /\ owed' = (turn # "none")
     ELSE UNCHANGED <<busy, owed>>
  /\ UNCHANGED <<up, turn, lost, done, term, files, win, shutdown, struck, crossed, raced, bounds>>

Unlinks(x) ==
  /\ taker[x].step = "unlink" /\ taker' = [taker EXCEPT ![x] = NoTaker]
  /\ terminal' = NoTerminal
  /\ UNCHANGED <<up, claude, done, term, contfile, handoff, restarted, tabOpened, closing, win, shutdown, struck, crossed, raced, bounds>>
-----------------------------------------------------------------------------
(* A terminal: take_over.                                                   *)
Opens(t) ==
  /\ term[t].step = "off"
  /\ IF terminal = NoTerminal \/ ~Alive(terminal)
     THEN Step(t, "mark") /\ UNCHANGED <<taker, crossed>>
     ELSE IF contfile /\ up
     THEN /\ term' = [term EXCEPT ![t] = [@ EXCEPT !.step = "handing", !.from = terminal]]
          /\ taker' = [taker EXCEPT ![t] = NewTaker]
          /\ crossed' = (crossed \/ win # "closed" \/ AtOnce)
     ELSE Step(t, "gone") /\ UNCHANGED <<taker, crossed>>
  /\ UNCHANGED <<up, claude, done, files, win, shutdown, struck, raced, bounds>>

(* The terminal that held the session ends, or TAKEOVER_WAIT.               *)
Waits(t) ==
  /\ term[t].step = "handing" /\ taker[t] = NoTaker
  /\ IF Alive(term[t].from) THEN Step(t, "gone") /\ crossed' = (crossed \/ ~restarted)
     ELSE /\ term' = [term EXCEPT ![t] = [@ EXCEPT !.step = "mark", !.box = up, !.cut = ~restarted]]
          /\ UNCHANGED crossed
  /\ UNCHANGED <<up, claude, done, taker, files, win, shutdown, struck, raced, bounds>>

(* main: the handoff of before is dropped.                                  *)
Takes(t) ==
  /\ term[t].step = "mark"
  /\ handoff' = FALSE /\ restarted' = FALSE /\ terminal' = t
  /\ Step(t, IF term[t].box THEN "up" ELSE "leave")
  /\ crossed' = (crossed \/ AtOnce
                  \/ \E u \in Terminals \ {t} : Alive(u))
  /\ UNCHANGED <<up, claude, done, taker, contfile, tabOpened, closing, win, shutdown, struck, raced, bounds>>

(* leave_window.                                                            *)
Leaves(t) ==
  /\ term[t].step = "leave"
  /\ IF HasWindow THEN closing' = TRUE /\ Step(t, "closing")
     ELSE UNCHANGED closing /\ Step(t, "up")
  /\ UNCHANGED <<up, claude, done, taker, terminal, contfile, handoff, restarted, tabOpened, win, shutdown, struck, crossed, raced, bounds>>

(* Mutant of Left: no WINDOW_WAIT.                                          *)
LeftStopped == ~up
Left == shutdown => ~up

(* The container stopped, or WINDOW_WAIT passed: a container that a closed  *)
(* window stops is gone before it.                                          *)
WindowLeft(t) ==
  /\ term[t].step = "closing" /\ Left /\ closing' = FALSE
  /\ IF HasWindow
     THEN Step(t, "gone") /\ terminal' = NoTerminal /\ UNCHANGED tabOpened
     ELSE /\ term' = [term EXCEPT ![t] = [@ EXCEPT !.step = "up", !.cut = term[t].cut \/ turn # "none"]]
          /\ tabOpened' = FALSE /\ UNCHANGED terminal
  /\ UNCHANGED <<up, claude, done, taker, contfile, handoff, restarted, win, shutdown, struck, crossed, raced, bounds>>

Ups(t) ==
  /\ term[t].step = "up" /\ Step(t, "run") /\ up' = TRUE /\ contfile' = TRUE
  /\ UNCHANGED <<claude, done, taker, terminal, handoff, restarted, tabOpened, closing, win, shutdown, struck, crossed, raced, bounds>>

(* agent-run.sh --terminal, with the first prompt or GO_ON.                 *)
Runs(t) ==
  /\ term[t].step = "run"
  /\ IF up THEN Step(t, "runs") /\ Resumes(t, term[t].cut) /\ UNCHANGED crossed
     ELSE Step(t, "ended") /\ UNCHANGED claude /\ crossed' = (crossed \/ owed)
  /\ UNCHANGED <<up, done, taker, files, win, shutdown, struck, raced, bounds>>

(* Its claude ended: stopped, or Seb quit it.                               *)
Quits(t) ==
  /\ t \in runs /\ ~busy /\ hangs < MaxHangs /\ hangs' = hangs + 1
  /\ runs' = runs \ {t}
  /\ UNCHANGED <<up, turn, busy, owed, lost, done, term, taker, files, win, shutdown, struck, crossed, raced, opens>>

Ended(t) ==
  /\ term[t].step = "runs" /\ t \notin runs /\ Step(t, "ended")
  /\ UNCHANGED <<up, claude, done, taker, files, win, shutdown, struck, crossed, raced, bounds>>

(* The turn that t cut, or had cut, and is to go on with.                   *)
HasTurn(t) ==
  \/ term[t].step \in {"mark", "leave", "closing", "up", "run"} /\ term[t].cut
  \/ term[t].step = "closing" /\ ~HasWindow
  \/ term[t].step = "handing" /\ ~restarted /\ ~\E u \in Terminals : Starting(u)

(* Seb closes the terminal, or the X server goes: the turn is his to cut.   *)
HangsUp(t) ==
  /\ hangs < MaxHangs /\ hangs' = hangs + 1
  /\ owed' = (owed /\ ~HasTurn(t))
  /\ \/ /\ term[t].step \in {"handing", "mark"} /\ Step(t, "gone")
        /\ crossed' = (crossed \/ taker[t] # NoTaker)
        /\ UNCHANGED <<terminal, closing>>
     \/ /\ term[t].step \in {"leave", "closing"} /\ Step(t, "gone")
        /\ terminal' = NoTerminal /\ closing' = FALSE /\ UNCHANGED crossed
     \/ /\ term[t].step \in {"up", "run", "runs"}
        /\ term' = [term EXCEPT ![t] = [@ EXCEPT !.step = "ended", !.hung = TRUE]]
        /\ UNCHANGED <<terminal, closing, crossed>>
  /\ UNCHANGED <<up, runs, turn, busy, lost, done, taker, contfile, handoff, restarted, tabOpened, win, shutdown, struck, raced, opens>>

(* The `finally` of main: a window goes on with the session.                *)
Hands(t) == term[t].step = "ended" /\ term[t].hung /\ HasWindow /\ ~handoff

HandsOver(t) ==
  /\ Hands(t) /\ Step(t, "handed") /\ taker' = [taker EXCEPT ![t] = NewTaker]
  /\ raced' = (raced \/ AtOnce)
  /\ UNCHANGED <<up, claude, done, files, win, shutdown, struck, crossed, bounds>>

(* Mutant of TakenOver: the window is not looked at.                        *)
HandedOver(t) == handoff
TakenOver(t) == handoff \/ term[t].step = "handed" \/ HasWindow

Removes(t) ==
  /\ \/ term[t].step = "ended" /\ ~Hands(t)
     \/ term[t].step = "handed" /\ taker[t] = NoTaker
  /\ contfile' = FALSE /\ terminal' = NoTerminal
  /\ Step(t, IF TakenOver(t) THEN "gone" ELSE "stop")
  /\ crossed' = (crossed \/ win = "opening")
  /\ UNCHANGED <<up, claude, done, taker, handoff, restarted, tabOpened, closing, win, shutdown, struck, raced, bounds>>

StopsContainer(t) ==
  /\ term[t].step = "stop" /\ Step(t, "gone")
  /\ struck' = (struck \/ runs \ {t} # {} \/ HasWindow)
  /\ Stops
  /\ win' = "closed"
  /\ UNCHANGED <<turn, owed, lost, done, files, shutdown, crossed, raced, bounds>>
-----------------------------------------------------------------------------
(* The window: activate, runAgent, pollAgent and showClaudeTab.             *)
IsStopped == done \/ handoff

WindowOpens ==
  /\ win = "closed" /\ ~shutdown /\ opens < MaxOpens /\ opens' = opens + 1
  /\ \E t \in Terminals : term[t].step \notin {"off", "mark"}
  /\ win' = "opening" /\ up' = TRUE
  /\ crossed' = (crossed \/ \E t \in Terminals : Taking(t))
  /\ raced' = (raced \/ \E t \in Terminals : Leaving(t))
  /\ UNCHANGED <<claude, done, term, taker, files, shutdown, struck, hangs>>

(* Mutant of MayOpenTab: the terminal file is not looked at.                *)
MayOpenTabAtOnce == ~tabOpened /\ IsStopped
MayOpenTab == ~tabOpened /\ IsStopped /\ terminal = NoTerminal

(* The tab opens on the session, and runs nothing by itself.                *)
ShowsTab ==
  tabOpened' = TRUE /\ runs' = runs \cup {Tab}

(* A run a restart of the container left is noted as done.                  *)
Activates ==
  /\ win = "opening" /\ up /\ win' = "open"
  /\ IF terminal # NoTerminal
     THEN taker' = [taker EXCEPT ![Window] = NewTaker] /\ UNCHANGED <<runs, done, tabOpened>>
     ELSE IF IsStopped
     THEN UNCHANGED <<taker, done>> /\ IF MayOpenTab THEN ShowsTab ELSE UNCHANGED <<runs, tabOpened>>
     ELSE done' = TRUE /\ UNCHANGED <<taker, runs, tabOpened>>
  /\ UNCHANGED <<up, turn, busy, owed, lost, term, terminal, contfile, handoff, restarted, closing, shutdown, struck, crossed, raced, bounds>>

PollsTab ==
  /\ HasWindow /\ ~closing /\ MayOpenTab /\ ShowsTab
  /\ UNCHANGED <<up, turn, busy, owed, lost, done, term, taker, terminal, contfile, handoff, restarted, closing, win, shutdown, struck, crossed, raced, bounds>>

(* Mutant of Reloads: only for a call that was cut, not at TURN_WAIT.       *)
ReloadsForCall == tabOpened /\ handoff /\ ~done /\ ~restarted /\ turn = "call"
Reloads == tabOpened /\ handoff /\ ~done /\ ~restarted

(* One reload, after which the tab runs the turn again.                     *)
PollsReload ==
  /\ HasWindow /\ ~closing /\ Reloads /\ Tab \in runs /\ ~busy
  /\ restarted' = TRUE /\ busy' = (turn # "none") /\ owed' = FALSE
  /\ UNCHANGED <<up, runs, turn, lost, done, term, taker, terminal, contfile, handoff, tabOpened, closing, win, shutdown, struck, crossed, raced, bounds>>

(* A prompt to save may keep the window open.                               *)
PollsClose ==
  /\ HasWindow /\ closing /\ closing' = FALSE
  /\ \/ UNCHANGED <<win, shutdown, runs, busy, owed>>
     \/ /\ win' = "closed" /\ shutdown' = TRUE /\ runs' = runs \ {Tab}
        /\ busy' = (busy /\ Tab \notin runs)
        /\ owed' = IF Tab \in runs THEN turn # "none" ELSE owed
  /\ UNCHANGED <<up, turn, lost, done, term, taker, terminal, contfile, handoff, restarted, tabOpened, struck, crossed, raced, bounds>>

(* Seb closes it: a turn of its tab is his to cut.                          *)
WindowCloses ==
  /\ win = "open" /\ hangs < MaxHangs /\ hangs' = hangs + 1
  /\ win' = "closed" /\ shutdown' = TRUE
  /\ runs' = runs \ {Tab} /\ busy' = (busy /\ Tab \notin runs) /\ owed' = FALSE
  /\ crossed' = (crossed \/ taker[Window] # NoTaker)
  /\ UNCHANGED <<up, turn, lost, done, term, taker, files, struck, raced, opens>>

(* The shutdown monitor of Dev Containers.                                  *)
ShutsDown ==
  /\ shutdown /\ shutdown' = FALSE
  /\ Stops
  /\ UNCHANGED <<turn, owed, lost, done, term, files, win, struck, crossed, raced, bounds>>
-----------------------------------------------------------------------------
TakerGoes(x) == Finds(x) \/ FindsNone(x) \/ Watches(x) \/ Marks(x) \/ StopsClaude(x) \/ Unlinks(x)
TerminalGoes(t) ==
  Waits(t) \/ Takes(t) \/ Leaves(t) \/ WindowLeft(t) \/ Ups(t) \/ Runs(t) \/ Ended(t)
    \/ HandsOver(t) \/ Removes(t) \/ StopsContainer(t)

Next ==
  \/ TurnBegins \/ TurnGoes
  \/ \E x \in Terminals \cup {Window} :
       \/ Finds(x) \/ FindsNone(x) \/ Watches(x) \/ Marks(x) \/ StopsClaude(x) \/ Unlinks(x)
  \/ \E t \in Terminals :
       \/ Opens(t) \/ Waits(t) \/ Takes(t) \/ Leaves(t) \/ WindowLeft(t) \/ Ups(t) \/ Runs(t)
       \/ Quits(t) \/ Ended(t) \/ HangsUp(t) \/ HandsOver(t) \/ Removes(t) \/ StopsContainer(t)
  \/ WindowOpens \/ Activates \/ PollsTab \/ PollsReload \/ PollsClose \/ WindowCloses \/ ShutsDown

(* Processes go on, the window polls each 5 seconds, and every wait ends.   *)
Fairness ==
  /\ \A x \in Terminals \cup {Window} : WF_vars(TakerGoes(x))
  /\ \A t \in Terminals : WF_vars(TerminalGoes(t))
  /\ WF_vars(Activates \/ PollsTab \/ PollsReload \/ PollsClose \/ ShutsDown)

Spec == Init /\ [][Next]_vars /\ Fairness
-----------------------------------------------------------------------------
(* A claude that got its SIGTERM, from a takeover or with its container.    *)
Ending ==
  {t \in Terminals : term[t].step = "stop"}
    \cup {taker[x].of : x \in {y \in DOMAIN taker : taker[y].step = "stop"}}

(* One claude runs the session, whoever takes it from whom: two would each  *)
(* write its transcript.  Aside from `crossed`, and from one that was told  *)
(* to end.                                                                  *)
OneClaude == crossed \/ Cardinality(runs \ Ending) <= 1

(* A turn that a takeover cut goes on in the next claude of the session.    *)
TurnGoesOn == crossed \/ ~lost

(* A terminal that ends stops its container only when no other claude and   *)
(* no window uses it, but one that came after it removed its files.         *)
ContainerKept == crossed \/ ~struck

(* The tab runs again the turn that was cut for it, but one after the       *)
(* verdict, and one that a terminal asked for since.                        *)
TabReruns ==
  []<>(~owed \/ Tab \notin runs \/ done \/ ~handoff \/ crossed \/ raced)

(* No terminal waits for ever for another, or for a window.                 *)
TakeoverEnds == \A t \in Terminals :
  []<>(term[t].step \notin {"handing", "closing"})

(* One claude goes on with the session, with its turn and its container.    *)
SessionSafe == OneClaude /\ TurnGoesOn /\ ContainerKept

(* A takeover ends, and the turn it cut goes on.                            *)
TakeoverGoesOn == TabReruns /\ TakeoverEnds
=============================================================================
