--------------------------- MODULE TakeoverProofs ---------------------------
(***************************************************************************)
(* Theorems about Takeover, for any set of terminals and any number of     *)
(* windows and of closings: one claude goes on with a session, with the    *)
(* turn that was cut and with its container (SessionSafe).                 *)
(*                                                                         *)
(* SessionSafe is not inductive: it takes who may be where.  The invariant *)
(* has one part for every state (Always), and one for a state in which no  *)
(* two took the session at once, `crossed`: one terminal at most holds the *)
(* session (Sole), no other claude runs than the one it or a takeover will *)
(* stop (Running), and someone has the turn that was cut (Turn).           *)
(***************************************************************************)
EXTENDS Takeover, TLAPS, FiniteSetTheorems

Takers == Terminals \cup {Window}
Steps == {"off", "handing", "mark", "leave", "closing", "up", "run",
          "runs", "ended", "handed", "stop", "gone"}
TakerSteps == {"none", "find", "watch", "mark", "stop", "unlink"}
TermRecords == [step : Steps, from : Terminals \cup {NoTerminal},
                box : BOOLEAN, cut : BOOLEAN, hung : BOOLEAN]
TakerRecords == [step : TakerSteps, of : Terminals \cup {Tab, NoTerminal}, rerun : BOOLEAN]

Typed ==
  /\ up \in BOOLEAN /\ restarted \in BOOLEAN /\ win \in {"closed", "opening", "open"}
  /\ runs \subseteq Terminals \cup {Tab} /\ terminal \in Terminals \cup {NoTerminal}
  /\ term \in [Terminals -> TermRecords] /\ taker \in [Takers -> TakerRecords]
-----------------------------------------------------------------------------
(* Where a terminal and a takeover are.                                     *)
Is(t, steps) == term[t].step \in steps
Late(t) == Is(t, {"runs", "ended", "handed", "stop"})
Holds(t) == Starting(t) \/ Late(t)
Does(x, steps) == taker[x].step \in steps
Past(x) == Does(x, {"watch", "mark", "stop", "unlink"})
Idle(x) == taker[x].step = "none"
Stopped(t) == \E x \in Takers : taker[x].step = "stop" /\ taker[x].of = t
-----------------------------------------------------------------------------
(* ALWAYS, whatever crosses.                                                *)

IdleIsNone == \A x \in Takers : Idle(x) => taker[x] = NoTaker

(* Nothing runs in a container that is down.                                *)
DownIsEmpty == ~up => runs = {} /\ \A x \in Takers : Idle(x)

(* A window keeps its container up, and the tab is in the window.           *)
WindowIsUp == win # "closed" => up /\ ~shutdown
TabInWindow == Tab \in runs => win = "open"

(* A turn that was cut is still in the transcript, and no claude is at it.  *)
OwedIsCut == owed => turn # "none" /\ ~busy

(* `close-window` is there while a terminal waits, `restarted` only next to *)
(* `handoff`.                                                               *)
ClosingIsAsked == closing => \E t \in Terminals : Is(t, {"closing"})
MarkedIsHanded == restarted => handoff

(* A terminal opens as new, runs a claude only after it began to, and sees  *)
(* its claude end unless it was closed first.                               *)
OffIsNew == \A t \in Terminals : Is(t, {"off"}) => ~term[t].box /\ ~term[t].cut
RunsOnceBegun == \A t \in Terminals : t \in runs => Late(t) \/ Is(t, {"gone"})
EndedOrHung == \A t \in Terminals : Is(t, {"ended"}) /\ ~term[t].hung => t \notin runs

Always ==
  /\ IdleIsNone /\ DownIsEmpty /\ WindowIsUp /\ TabInWindow /\ OwedIsCut
  /\ ClosingIsAsked /\ MarkedIsHanded /\ OffIsNew /\ RunsOnceBegun /\ EndedOrHung
-----------------------------------------------------------------------------
(* SOLE: one terminal holds the session.                                    *)

OneHolds == \A t, u \in Terminals : Holds(t) /\ Holds(u) => t = u

(* A terminal has its takeover while it takes the session or hands it over; *)
(* one that takes it has no window and no other takeover beside it.         *)
TakesForIt == \A t \in Terminals : ~Idle(t) => Is(t, {"handing", "handed"})
HandingAlone == \A t \in Terminals : Is(t, {"handing"}) =>
  /\ win = "closed" /\ Idle(Window)
  /\ ~Idle(t) => \A x \in Takers \ {t} : Idle(x)
MarkedAlone == \A t \in Terminals :
  Is(t, {"mark"}) /\ (term[t].box \/ term[t].cut) => win = "closed"

(* The takeover of a window may outlive it, until the container stops, but  *)
(* no terminal goes on meanwhile.                                           *)
WindowTakes == ~Idle(Window) =>
  \/ win = "open"
  \/ shutdown /\ runs = {} /\ \A t \in Terminals : ~Is(t, {"leave", "up", "run"})

(* A terminal that starts has its name in `terminal`, and finds no claude,  *)
(* but the tab of the window that it has close.                             *)
StartsAlone == \A t \in Terminals : Starting(t) =>
  /\ terminal = t /\ ~handoff /\ runs \subseteq {Tab}
  /\ \A x \in Takers : ~Past(x)
  /\ Tab \in runs => Leaving(t) /\ \A x \in Takers : Idle(x)

(* A window that opens before its claude does waits for that claude.        *)
StartsInWindow == \A t \in Terminals :
  Is(t, {"up", "run"}) /\ win = "open" => Does(Window, {"find"})

Sole ==
  /\ OneHolds /\ TakesForIt /\ HandingAlone /\ MarkedAlone
  /\ WindowTakes /\ StartsAlone /\ StartsInWindow
-----------------------------------------------------------------------------
(* RUNNING: which claudes there are.                                        *)

OneRuns == \A t, u \in Terminals : t \in runs /\ u \in runs => t = u

(* The claude of a terminal has its terminal file, and the one of a         *)
(* terminal that is gone was told to end.                                   *)
HoldsFile == \A t \in Terminals :
  t \in runs /\ Is(t, {"runs", "ended", "handed"}) => terminal = t
HoldsIt == \A t \in Terminals : Late(t) => runs \subseteq {t, Tab}
GoneIsStopped == \A t \in Terminals : t \in runs /\ Is(t, {"gone"}) => Stopped(t)

(* The tab opens next to the claude of a terminal that is gone at most.     *)
TabBesideGone == \A t \in Terminals : Tab \in runs /\ t \in runs => Is(t, {"gone"})

(* A takeover that found a claude found the one there is, and ends it.      *)
FoundIt == \A x \in Takers :
  /\ Does(x, {"watch", "mark", "stop"}) => runs \subseteq {taker[x].of, Tab}
  /\ Does(x, {"unlink"}) => runs \subseteq {Tab}

(* `handoff` next to a claude says that a takeover is about to end it.      *)
HandedIsStopped == \A t \in Terminals : handoff /\ t \in runs /\ Late(t) => Stopped(t)

(* A claude that was handed over, or runs under a window, is being taken,   *)
(* and a terminal stops its container under no window.                      *)
HandedTakes == \A t \in Terminals : t \in runs /\ Is(t, {"handed"}) =>
  win = "open" /\ Does(t, {"find", "watch", "mark", "stop"})
WindowTakesIt == \A t \in Terminals :
  t \in runs /\ Is(t, {"runs", "ended", "handed"}) /\ win = "open" =>
    Does(Window, {"find", "watch", "mark", "stop"})
StopsAlone == \A t \in Terminals : Is(t, {"stop"}) => win = "closed"

Running ==
  /\ GoneIsStopped /\ HoldsFile /\ FoundIt /\ TabBesideGone /\ OneRuns /\ HoldsIt
  /\ HandedIsStopped /\ HandedTakes /\ WindowTakesIt /\ StopsAlone
-----------------------------------------------------------------------------
(* TURN: who goes on with the turn.                                         *)

(* The claude of a terminal is at the turn of its transcript.               *)
BusyWithIt == \A t \in Terminals : t \in runs /\ Late(t) /\ turn # "none" => busy

(* The takeover of a terminal marks no turn that it will cut.               *)
Reruns == \A t \in Terminals : Is(t, {"handing"}) /\ taker[t].of \in runs /\ turn # "none" =>
  /\ Does(t, {"mark"}) => taker[t].rerun
  /\ Does(t, {"stop"}) => ~restarted

(* A terminal that starts with GO_ON, or leaves the window that has the     *)
(* turn.                                                                    *)
StarterGoesOn == \A t \in Terminals : owed =>
  /\ Is(t, {"leave"}) => term[t].cut \/ win = "open"
  /\ Is(t, {"up", "run"}) => term[t].cut

(* A terminal that cut it, and will read that from `restarted`.             *)
HandingHas(t) ==
  /\ Is(t, {"handing"}) /\ ~restarted
  /\ \A u \in Terminals : ~Starting(u)
  /\ \A x \in Takers \ {t} : Idle(x)
  /\ \/ Does(t, {"unlink"})
     \/ Idle(t) /\ (terminal = NoTerminal \/ ~up)
SomeoneHas == owed =>
  \/ win = "open"
  \/ \E t \in Terminals : Starting(t) \/ (Is(t, {"mark"}) /\ term[t].cut) \/ HandingHas(t)

Turn == BusyWithIt /\ Reruns /\ StarterGoesOn /\ SomeoneHas

Alone == Sole /\ Running /\ Turn /\ ~lost /\ ~struck
Inv == Typed /\ Always /\ (crossed \/ Alone)
-----------------------------------------------------------------------------
LEMMA InitTyped == ASSUME Init PROVE Typed
  BY DEF Init, Typed, Takers, Steps, TakerSteps, TermRecords, TakerRecords, Off, NoTaker

LEMMA StepTyped ==
  ASSUME Typed, NEW t \in Terminals, NEW s \in Steps, Step(t, s)
  PROVE  term' \in [Terminals -> TermRecords]
  BY DEF Typed, Step, TermRecords

LEMMA NoneTyped ==
  /\ NoTaker \in TakerRecords
  /\ NewTaker \in TakerRecords
  BY DEF NoTaker, NewTaker, TakerRecords, TakerSteps

LEMMA StopsTyped ==
  ASSUME Typed, Stops
  PROVE  up' \in BOOLEAN /\ runs' = {} /\ taker' \in [Takers -> TakerRecords]
  BY NoneTyped DEF Typed, Stops

LEMMA TakerTyped ==
  ASSUME Typed, NEW x \in Takers, TakerGoes(x)
  PROVE  Typed'
<1> USE DEF Takers
<1>1. taker' \in [Takers -> TakerRecords]
  <2>1. CASE Finds(x)
    <3>1. PICK h \in Terminals \cup {Tab} :
            taker' = [taker EXCEPT ![x] = [@ EXCEPT !.step = "watch", !.of = h]]
      BY <2>1 DEF Typed, Finds
    <3>2. QED
      BY <3>1, ZenonT(40) DEF Typed, TakerRecords, TakerSteps
  <2>2. CASE Watches(x)
    <3>1. PICK r \in BOOLEAN :
            taker' = [taker EXCEPT ![x] = [@ EXCEPT !.step = "mark", !.rerun = r]]
      BY <2>2 DEF Watches
    <3>2. QED
      BY <3>1 DEF Typed, TakerRecords, TakerSteps
  <2>3. CASE FindsNone(x) \/ Marks(x) \/ StopsClaude(x)
    <3>1. PICK s \in TakerSteps : taker' = [taker EXCEPT ![x].step = s]
      BY <2>3 DEF FindsNone, Marks, StopsClaude, TakerSteps
    <3>2. QED
      BY <3>1 DEF Typed, TakerRecords
  <2>4. CASE Unlinks(x)
    BY <2>4, NoneTyped DEF Typed, Unlinks
  <2>5. QED
    BY <2>1, <2>2, <2>3, <2>4 DEF TakerGoes
<1>2. restarted' \in BOOLEAN
  BY DEF Typed, TakerGoes, Finds, FindsNone, Watches, Marks, Restarted, StopsClaude, Unlinks, files
<1>3. UNCHANGED <<up, term, win>> /\ runs' \subseteq runs /\ terminal' \in {terminal, NoTerminal}
  BY DEF TakerGoes, Finds, FindsNone, Watches, Marks, StopsClaude, Unlinks, files, claude
<1>4. QED
  BY <1>1, <1>2, <1>3 DEF Typed

LEMMA OpensTyped ==
  ASSUME Typed, NEW t \in Terminals, Opens(t)
  PROVE  Typed'
<1>1. term' \in [Terminals -> TermRecords]
  <2>1. CASE term' = [term EXCEPT ![t] = [@ EXCEPT !.step = "handing", !.from = terminal]]
    BY <2>1, ZenonT(40) DEF Typed, TermRecords, Steps
  <2>2. CASE Step(t, "mark") \/ Step(t, "gone")
    BY <2>2, StepTyped DEF Steps
  <2>3. QED
    BY <2>1, <2>2 DEF Opens
<1>2. taker' \in [Takers -> TakerRecords]
  <2>1. taker' \in {taker, [taker EXCEPT ![t] = NewTaker]}
    BY DEF Opens
  <2>2. QED
    BY <2>1, NoneTyped DEF Typed, Takers
<1>3. QED
  <2>1. UNCHANGED <<up, claude, files, win>>
    BY DEF Opens
  <2>2. QED
    BY <1>1, <1>2, <2>1 DEF Typed, claude, files

LEMMA WaitsTyped ==
  ASSUME Typed, NEW t \in Terminals, Waits(t)
  PROVE  Typed'
<1>1. CASE Alive(term[t].from)
  BY <1>1, StepTyped DEF Typed, Waits, Steps, claude, files
<1>2. CASE ~Alive(term[t].from)
  <2>1. PICK b \in BOOLEAN : b = up
    BY DEF Typed
  <2>2. PICK c \in BOOLEAN : c = ~restarted
    BY DEF Typed
  <2>3. term' = [term EXCEPT ![t] = [@ EXCEPT !.step = "mark", !.box = b, !.cut = c]]
    BY <1>2, <2>1, <2>2 DEF Waits
  <2>4. term' \in [Terminals -> TermRecords]
    BY <2>3, ZenonT(40) DEF Typed, TermRecords, Steps
  <2>5. QED
    BY <2>4 DEF Typed, Waits, claude, files
<1>3. QED
  BY <1>1, <1>2

LEMMA LeftTyped ==
  ASSUME Typed, NEW t \in Terminals, WindowLeft(t)
  PROVE  Typed'
<1>1. CASE HasWindow
  BY <1>1, StepTyped DEF Typed, WindowLeft, Steps, claude
<1>2. CASE ~HasWindow
  <2>1. PICK c \in BOOLEAN : c = (term[t].cut \/ turn # "none")
    OBVIOUS
  <2>2. term' = [term EXCEPT ![t] =
          [@ EXCEPT !.step = "up", !.cut = (term[t].cut \/ turn # "none")]]
    BY <1>2, Zenon DEF WindowLeft
  <2>3. term' = [term EXCEPT ![t] = [@ EXCEPT !.step = "up", !.cut = c]]
    BY <2>1, <2>2, Zenon
  <2>4. term' \in [Terminals -> TermRecords]
    BY <2>3, ZenonT(40) DEF Typed, TermRecords, Steps
  <2>5. QED
    BY <1>2, <2>4 DEF Typed, WindowLeft, claude
<1>3. QED
  BY <1>1, <1>2

LEMMA HangTyped ==
  ASSUME Typed, NEW t \in Terminals, HangsUp(t)
  PROVE  Typed'
<1>1. term' \in [Terminals -> TermRecords]
  <2>1. CASE term' = [term EXCEPT ![t] = [@ EXCEPT !.step = "ended", !.hung = TRUE]]
    BY <2>1, ZenonT(40) DEF Typed, TermRecords, Steps
  <2>2. CASE Step(t, "gone")
    BY <2>2, StepTyped DEF Steps
  <2>3. QED
    BY <2>1, <2>2 DEF HangsUp
<1>2. QED
  BY <1>1 DEF Typed, HangsUp

LEMMA TerminalTyped ==
  ASSUME Typed, NEW t \in Terminals,
         Takes(t) \/ Leaves(t) \/ Ups(t) \/ Runs(t) \/ Quits(t) \/ Ended(t) \/ HandsOver(t)
           \/ Removes(t) \/ StopsContainer(t)
  PROVE  Typed'
<1>1. CASE Takes(t)
  BY <1>1, StepTyped DEF Typed, Takes, Steps, claude
<1>2. CASE Leaves(t)
  BY <1>2, StepTyped DEF Typed, Leaves, Steps, claude
<1>3. CASE Ups(t)
  BY <1>3, StepTyped DEF Typed, Ups, Steps, claude
<1>4. CASE Runs(t)
  BY <1>4, StepTyped DEF Typed, Runs, Resumes, Steps, claude, files
<1>5. CASE Quits(t)
  BY <1>5 DEF Typed, Quits, files
<1>6. CASE Ended(t)
  BY <1>6, StepTyped DEF Typed, Ended, Steps, claude, files
<1>7. CASE HandsOver(t)
  BY <1>7, StepTyped, NoneTyped DEF Typed, HandsOver, Takers, Steps, claude, files
<1>8. CASE Removes(t)
  BY <1>8, StepTyped DEF Typed, Removes, Steps, claude
<1>9. CASE StopsContainer(t)
  BY <1>9, StepTyped, StopsTyped DEF Typed, StopsContainer, Steps, files
<1>10. QED
  BY <1>1, <1>2, <1>3, <1>4, <1>5, <1>6, <1>7, <1>8, <1>9

LEMMA OthersTyped ==
  ASSUME Typed,
         TurnBegins \/ TurnGoes \/ WindowOpens \/ Activates \/ PollsTab \/ PollsReload
           \/ PollsClose \/ WindowCloses \/ ShutsDown
  PROVE  Typed'
<1>1. CASE TurnBegins \/ TurnGoes
  BY <1>1 DEF Typed, TurnBegins, TurnGoes, files
<1>2. CASE WindowOpens
  BY <1>2 DEF Typed, WindowOpens, files, claude
<1>3. CASE Activates
  <2>1. taker' \in {taker, [taker EXCEPT ![Window] = NewTaker]} /\ runs' \subseteq runs \cup {Tab}
    BY <1>3 DEF Activates, ShowsTab
  <2>2. taker' \in [Takers -> TakerRecords]
    BY <2>1, NoneTyped DEF Typed, Takers
  <2>3. QED
    BY <1>3, <2>1, <2>2 DEF Typed, Activates
<1>4. CASE PollsTab \/ PollsReload \/ PollsClose
  BY <1>4 DEF Typed, PollsTab, ShowsTab, PollsReload, PollsClose
<1>5. CASE WindowCloses
  BY <1>5 DEF Typed, WindowCloses, files
<1>6. CASE ShutsDown
  BY <1>6, StopsTyped DEF Typed, ShutsDown, files
<1>7. QED
  BY <1>1, <1>2, <1>3, <1>4, <1>5, <1>6

LEMMA TypedNext == ASSUME Typed, Next PROVE Typed'
<1>1. ASSUME NEW x \in Takers, TakerGoes(x) PROVE Typed'
  BY <1>1, TakerTyped
<1>2. ASSUME NEW t \in Terminals, Opens(t) \/ Waits(t) \/ WindowLeft(t) \/ HangsUp(t) PROVE Typed'
  BY <1>2, OpensTyped, WaitsTyped, LeftTyped, HangTyped
<1>3. QED
  BY <1>1, <1>2, TerminalTyped, OthersTyped DEF Next, Takers, TakerGoes

(* Sessions that crossed stay so.                                           *)
LEMMA CrossedStays == ASSUME Next, crossed PROVE crossed'
<1>1. ASSUME NEW x \in Takers, TakerGoes(x) PROVE crossed'
  BY <1>1 DEF TakerGoes, Finds, FindsNone, Watches, Marks, StopsClaude, Unlinks
<1>2. ASSUME NEW t \in Terminals, Opens(t) \/ Waits(t) \/ Takes(t) \/ Runs(t) \/ HangsUp(t)
               \/ Removes(t)
      PROVE  crossed'
  BY <1>2 DEF Opens, Waits, Takes, Runs, HangsUp, Removes
<1>3. ASSUME NEW t \in Terminals,
             Leaves(t) \/ WindowLeft(t) \/ Ups(t) \/ Quits(t) \/ Ended(t) \/ HandsOver(t)
               \/ StopsContainer(t)
      PROVE  crossed'
  BY <1>3 DEF Leaves, WindowLeft, Ups, Quits, Ended, HandsOver, StopsContainer
<1>4. CASE TurnBegins \/ TurnGoes \/ WindowOpens \/ Activates \/ PollsTab \/ PollsReload
             \/ PollsClose \/ WindowCloses \/ ShutsDown
  BY <1>4 DEF TurnBegins, TurnGoes, WindowOpens, Activates, PollsTab, PollsReload,
    PollsClose, WindowCloses, ShutsDown
<1>5. QED
  BY <1>1, <1>2, <1>3, <1>4 DEF Next, Takers, TakerGoes
-----------------------------------------------------------------------------
(* What a step makes of the records of the terminals.                       *)

Became(t, s) ==
  \A u \in Terminals :
    /\ term'[u].step = IF u = t THEN s ELSE term[u].step
    /\ term'[u].box = term[u].box /\ term'[u].cut = term[u].cut
    /\ term'[u].hung = term[u].hung

(* ... but for what t read.                                                 *)
Begins(t, s) ==
  \A u \in Terminals :
    /\ term'[u].step = IF u = t THEN s ELSE term[u].step
    /\ u # t => term'[u].box = term[u].box /\ term'[u].cut = term[u].cut
    /\ term'[u].hung = term[u].hung

Hung(t) ==
  \A u \in Terminals :
    /\ term'[u].step = IF u = t THEN "ended" ELSE term[u].step
    /\ term'[u].box = term[u].box /\ term'[u].cut = term[u].cut
    /\ u # t => term'[u].hung = term[u].hung

LEMMA Records ==
  /\ NoTaker.step = "none" /\ NoTaker.of = NoTerminal
  /\ NewTaker.step = "find" /\ NewTaker.of = NoTerminal
  BY DEF NoTaker, NewTaker

LEMMA StepBecomes ==
  ASSUME Typed, NEW t \in Terminals, NEW s, Step(t, s)
  PROVE  Became(t, s)
  BY DEF Typed, TermRecords, Step, Became

LEMMA OpensDoes ==
  ASSUME Typed, NEW t \in Terminals, Opens(t)
  PROVE  /\ term[t].step = "off" /\ UNCHANGED <<up, claude, done, files, win, shutdown, struck>>
         /\ \/ (Became(t, "mark") \/ Became(t, "gone")) /\ UNCHANGED <<taker, crossed>>
            \/ /\ Became(t, "handing") /\ up /\ terminal # NoTerminal
               /\ taker' = [taker EXCEPT ![t] = NewTaker]
               /\ ~crossed' => win = "closed" /\ \A x \in Takers : taker[x] = NoTaker
<1>1. term[t].step = "off" /\ UNCHANGED <<up, claude, done, files, win, shutdown, struck>>
  BY DEF Opens
<1>2. CASE terminal = NoTerminal \/ ~Alive(terminal)
  <2>1. Step(t, "mark") /\ UNCHANGED <<taker, crossed>>
    BY <1>2 DEF Opens
  <2>2. QED
    BY <1>1, <2>1, StepBecomes
<1>3. CASE ~(terminal = NoTerminal \/ ~Alive(terminal)) /\ ~(contfile /\ up)
  <2>1. Step(t, "gone") /\ UNCHANGED <<taker, crossed>>
    BY <1>3 DEF Opens
  <2>2. QED
    BY <1>1, <2>1, StepBecomes
<1>4. CASE ~(terminal = NoTerminal \/ ~Alive(terminal)) /\ contfile /\ up
  <2>1. /\ term' = [term EXCEPT ![t] = [@ EXCEPT !.step = "handing", !.from = terminal]]
        /\ taker' = [taker EXCEPT ![t] = NewTaker]
    BY <1>4 DEF Opens
  <2>2. Became(t, "handing")
    BY <2>1 DEF Typed, TermRecords, Became
  <2>3. ~crossed' => win = "closed" /\ \A x \in Takers : taker[x] = NoTaker
    BY <1>4 DEF Opens, AtOnce, Typed
  <2>4. QED
    BY <1>1, <1>4, <2>1, <2>2, <2>3
<1>5. QED
  BY <1>2, <1>3, <1>4

LEMMA WaitsDoes ==
  ASSUME Typed, NEW t \in Terminals, Waits(t)
  PROVE  /\ term[t].step = "handing" /\ taker[t] = NoTaker
         /\ UNCHANGED <<up, claude, done, taker, files, win, shutdown, struck>>
         /\ \/ Became(t, "gone") /\ (crossed' \/ restarted)
            \/ Begins(t, "mark") /\ (term'[t].cut <=> ~restarted)
<1>1. /\ term[t].step = "handing" /\ taker[t] = NoTaker
      /\ UNCHANGED <<up, claude, done, taker, files, win, shutdown, struck>>
  BY DEF Waits
<1>2. CASE Alive(term[t].from)
  <2>1. Step(t, "gone") /\ crossed' = (crossed \/ ~restarted)
    BY <1>2 DEF Waits
  <2>2. QED
    BY <1>1, <2>1, StepBecomes
<1>3. CASE ~Alive(term[t].from)
  <2>1. term' = [term EXCEPT ![t] = [@ EXCEPT !.step = "mark", !.box = up, !.cut = ~restarted]]
    BY <1>3 DEF Waits
  <2>2. \A u \in Terminals \ {t} : term'[u] = term[u]
    BY <2>1 DEF Typed
  <2>3. term'[t].step = "mark" /\ term'[t].hung = term[t].hung
    BY <2>1 DEF Typed, TermRecords
  <2>4. term'[t].cut <=> ~restarted
    BY <2>1 DEF Typed, TermRecords
  <2>5. QED
    BY <1>1, <2>2, <2>3, <2>4 DEF Begins
<1>4. QED
  BY <1>2, <1>3

LEMMA TakesDoes ==
  ASSUME Typed, NEW t \in Terminals, Takes(t)
  PROVE  /\ term[t].step = "mark" /\ ~handoff' /\ ~restarted' /\ terminal' = t
         /\ UNCHANGED <<up, claude, done, taker, contfile, tabOpened, closing, win,
                        shutdown, struck>>
         /\ ~crossed' =>
              /\ \A x \in Takers : taker[x] = NoTaker
              /\ \A u \in Terminals \ {t} : ~Alive(u)
         /\ (Became(t, "up") /\ term[t].box) \/ Became(t, "leave")
<1>1. /\ term[t].step = "mark" /\ ~handoff' /\ ~restarted' /\ terminal' = t
      /\ UNCHANGED <<up, claude, done, taker, contfile, tabOpened, closing, win,
                        shutdown, struck>>
  BY DEF Takes
<1>2. ~crossed' => (\A x \in Takers : taker[x] = NoTaker) /\ (\A u \in Terminals \ {t} : ~Alive(u))
  BY DEF Takes, AtOnce, Typed
<1>3. (Became(t, "up") /\ term[t].box) \/ Became(t, "leave")
  <2>1. CASE term[t].box
    BY <2>1, StepBecomes DEF Takes
  <2>2. CASE ~term[t].box
    BY <2>2, StepBecomes DEF Takes
  <2>3. QED
    BY <2>1, <2>2
<1>4. QED
  BY <1>1, <1>2, <1>3

LEMMA LeftDoes ==
  ASSUME Typed, NEW t \in Terminals, WindowLeft(t)
  PROVE  /\ term[t].step = "closing" /\ Left /\ closing' = FALSE
         /\ UNCHANGED <<up, claude, done, taker, contfile, handoff, restarted, win,
                        shutdown, struck, crossed>>
         /\ \/ HasWindow /\ Became(t, "gone") /\ terminal' = NoTerminal
            \/ /\ ~HasWindow /\ Begins(t, "up") /\ terminal' = terminal
               /\ turn # "none" => term'[t].cut
<1>1. /\ term[t].step = "closing" /\ Left /\ closing' = FALSE
      /\ UNCHANGED <<up, claude, done, taker, contfile, handoff, restarted, win,
                        shutdown, struck, crossed>>
  BY DEF WindowLeft
<1>2. CASE HasWindow
  <2>1. Step(t, "gone") /\ terminal' = NoTerminal
    BY <1>2 DEF WindowLeft
  <2>2. QED
    BY <1>1, <1>2, <2>1, StepBecomes
<1>3. CASE ~HasWindow
  <2>1. /\ term' = [term EXCEPT ![t] =
                      [@ EXCEPT !.step = "up", !.cut = term[t].cut \/ turn # "none"]]
        /\ terminal' = terminal
    BY <1>3, Zenon DEF WindowLeft
  <2>2. \A u \in Terminals \ {t} : term'[u] = term[u]
    BY <2>1 DEF Typed
  <2>3. term'[t].step = "up" /\ term'[t].hung = term[t].hung
    BY <2>1 DEF Typed, TermRecords
  <2>4. turn # "none" => term'[t].cut
    BY <2>1 DEF Typed, TermRecords
  <2>5. QED
    BY <1>1, <1>3, <2>1, <2>2, <2>3, <2>4 DEF Begins
<1>4. QED
  BY <1>2, <1>3

LEMMA HangDoes ==
  ASSUME Typed, NEW t \in Terminals, HangsUp(t)
  PROVE  /\ UNCHANGED <<up, runs, turn, busy, lost, done, taker, contfile, handoff,
                        restarted, tabOpened, win, shutdown, struck>>
         /\ owed' => owed /\ ~HasTurn(t)
         /\ \/ /\ Became(t, "gone") /\ Is(t, {"handing", "mark"})
               /\ ~crossed' => taker[t] = NoTaker
               /\ UNCHANGED <<terminal, closing>>
            \/ /\ Became(t, "gone") /\ Leaving(t)
               /\ terminal' = NoTerminal /\ closing' = FALSE
            \/ /\ Hung(t) /\ Is(t, {"up", "run", "runs"}) /\ term'[t].hung
               /\ UNCHANGED <<terminal, closing>>
<1>1. UNCHANGED <<up, runs, turn, busy, lost, done, taker, contfile, handoff,
                  restarted, tabOpened, win, shutdown, struck>>
  BY DEF HangsUp
<1>2. owed' => owed /\ ~HasTurn(t)
  BY DEF HangsUp
<1>3. CASE Is(t, {"handing", "mark"})
  <2>1. Step(t, "gone") /\ (~crossed' => taker[t] = NoTaker) /\ UNCHANGED <<terminal, closing>>
    BY <1>3 DEF HangsUp, Is
  <2>2. QED
    BY <1>1, <1>2, <1>3, <2>1, StepBecomes
<1>4. CASE Leaving(t)
  <2>1. Step(t, "gone") /\ terminal' = NoTerminal /\ closing' = FALSE
    BY <1>4 DEF HangsUp, Leaving
  <2>2. QED
    BY <1>1, <1>2, <1>4, <2>1, StepBecomes
<1>5. CASE Is(t, {"up", "run", "runs"})
  <2>1. term' = [term EXCEPT ![t] = [@ EXCEPT !.step = "ended", !.hung = TRUE]]
    BY <1>5 DEF HangsUp, Is
  <2>2. \A u \in Terminals \ {t} : term'[u] = term[u]
    BY <2>1 DEF Typed
  <2>3. term'[t].step = "ended" /\ term'[t].box = term[t].box /\ term'[t].cut = term[t].cut
        /\ term'[t].hung
    BY <2>1 DEF Typed, TermRecords
  <2>4. UNCHANGED <<terminal, closing>>
    BY <1>5 DEF HangsUp, Is
  <2>5. QED
    BY <1>1, <1>2, <1>5, <2>2, <2>3, <2>4 DEF Hung
<1>6. QED
  BY <1>3, <1>4, <1>5 DEF HangsUp, Is, Leaving

LEMMA LeavesDoes ==
  ASSUME Typed, NEW t \in Terminals, Leaves(t)
  PROVE  /\ term[t].step = "leave"
         /\ UNCHANGED <<up, claude, done, taker, terminal, contfile, handoff, restarted, win,
                        shutdown, struck, crossed>>
         /\ \/ HasWindow /\ closing' = TRUE /\ Became(t, "closing")
            \/ ~HasWindow /\ closing' = closing /\ Became(t, "up")
<1>1. CASE HasWindow
  BY <1>1, StepBecomes DEF Leaves
<1>2. CASE ~HasWindow
  BY <1>2, StepBecomes DEF Leaves
<1>3. QED
  BY <1>1, <1>2

LEMMA RunsDoes ==
  ASSUME Typed, NEW t \in Terminals, Runs(t)
  PROVE  /\ term[t].step = "run" /\ UNCHANGED <<up, done, taker, files, win, shutdown, struck>>
         /\ \/ up /\ Became(t, "runs") /\ Resumes(t, term[t].cut) /\ crossed' = crossed
            \/ ~up /\ Became(t, "ended") /\ UNCHANGED claude /\ (crossed' <=> crossed \/ owed)
<1>1. CASE up
  BY <1>1, StepBecomes DEF Runs
<1>2. CASE ~up
  BY <1>2, StepBecomes DEF Runs
<1>3. QED
  BY <1>1, <1>2

LEMMA HandsDoes ==
  ASSUME Typed, NEW t \in Terminals, HandsOver(t)
  PROVE  /\ Hands(t) /\ Became(t, "handed") /\ taker' = [taker EXCEPT ![t] = NewTaker]
         /\ UNCHANGED <<up, claude, done, files, win, shutdown, struck, crossed>>
  BY StepBecomes DEF HandsOver

LEMMA RemovesDoes ==
  ASSUME Typed, NEW t \in Terminals, Removes(t)
  PROVE  /\ \/ term[t].step = "ended" /\ ~Hands(t)
            \/ term[t].step = "handed" /\ taker[t] = NoTaker
         /\ ~contfile' /\ terminal' = NoTerminal /\ (crossed' <=> crossed \/ win = "opening")
         /\ UNCHANGED <<up, claude, done, taker, handoff, restarted, tabOpened, closing, win,
                        shutdown, struck>>
         /\ (TakenOver(t) /\ Became(t, "gone")) \/ (~TakenOver(t) /\ Became(t, "stop"))
<1>1. CASE TakenOver(t)
  BY <1>1, StepBecomes DEF Removes
<1>2. CASE ~TakenOver(t)
  BY <1>2, StepBecomes DEF Removes
<1>3. QED
  BY <1>1, <1>2


-----------------------------------------------------------------------------
LEMMA AlwaysNext ==
  ASSUME Typed, Always, Next
  PROVE  Always'
<1> USE DEF Is, Late, Idle, Takers, claude, files, Always, IdleIsNone, DownIsEmpty, WindowIsUp,
      TabInWindow, OwedIsCut, ClosingIsAsked, MarkedIsHanded, OffIsNew, RunsOnceBegun,
      EndedOrHung
<1>1. CASE TurnBegins
  BY <1>1 DEF TurnBegins
<1>2. CASE TurnGoes
  BY <1>2 DEF TurnGoes
<1>3. ASSUME NEW x \in Takers, Finds(x) PROVE Always'
  BY <1>3 DEF Finds
<1>4. ASSUME NEW x \in Takers, FindsNone(x) PROVE Always'
  BY <1>4 DEF FindsNone
<1>5. ASSUME NEW x \in Takers, Watches(x) PROVE Always'
  BY <1>5 DEF Watches, AtRest, CallInFlight
<1>6. ASSUME NEW x \in Takers, Marks(x) PROVE Always'
  BY <1>6 DEF Marks, Restarted
<1>7. ASSUME NEW x \in Takers, StopsClaude(x) PROVE Always'
  <2>1. OwedIsCut'
    <3>1. CASE taker[x].of \in runs
      <4>1. owed' = (turn # "none") /\ turn' = turn /\ busy' = FALSE
        BY <1>7, <3>1 DEF StopsClaude
      <4>2. QED
        BY <4>1, Zenon
    <3>2. CASE taker[x].of \notin runs
      BY <1>7, <3>2 DEF StopsClaude
    <3>3. QED
      BY <3>1, <3>2
  <2>2. /\ IdleIsNone' /\ DownIsEmpty' /\ WindowIsUp' /\ TabInWindow' /\ ClosingIsAsked'
        /\ MarkedIsHanded' /\ OffIsNew' /\ RunsOnceBegun' /\ EndedOrHung'
    BY <1>7, Records DEF Typed, StopsClaude
  <2>3. QED
    BY <2>1, <2>2
<1>8. ASSUME NEW x \in Takers, Unlinks(x) PROVE Always'
  BY <1>8 DEF Unlinks
<1>9. ASSUME NEW t \in Terminals, Opens(t) PROVE Always'
  <2>1. /\ term[t].step = "off"
        /\ UNCHANGED <<up, claude, done, files, win, shutdown, struck>>
    BY <1>9, OpensDoes
  <2>2. CASE (Became(t, "mark") \/ Became(t, "gone")) /\ UNCHANGED <<taker, crossed>>
    BY <2>1, <2>2 DEF Became
  <2>3. CASE /\ Became(t, "handing") /\ up /\ terminal # NoTerminal
             /\ taker' = [taker EXCEPT ![t] = NewTaker]
             /\ ~crossed' => win = "closed" /\ \A x \in Takers : taker[x] = NoTaker
    BY <2>1, <2>3, Records DEF Became
  <2>4. QED
    BY <1>9, OpensDoes, <2>2, <2>3
<1>10. ASSUME NEW t \in Terminals, Waits(t) PROVE Always'
  <2>1. /\ term[t].step = "handing" /\ taker[t] = NoTaker
        /\ UNCHANGED <<up, claude, done, taker, files, win, shutdown, struck>>
    BY <1>10, WaitsDoes
  <2>2. CASE Became(t, "gone") /\ (crossed' \/ restarted)
    BY <2>1, <2>2 DEF Became, Begins
  <2>3. CASE Begins(t, "mark") /\ (term'[t].cut <=> ~restarted)
    BY <2>1, <2>3 DEF Became, Begins
  <2>4. QED
    BY <1>10, WaitsDoes, <2>2, <2>3
<1>11. ASSUME NEW t \in Terminals, Takes(t) PROVE Always'
  <2>1. /\ term[t].step = "mark" /\ ~handoff' /\ ~restarted' /\ terminal' = t
        /\ UNCHANGED <<up, claude, done, taker, contfile, tabOpened, closing, win,
                       shutdown, struck>>
        /\ ~crossed' => /\ \A x \in Takers : taker[x] = NoTaker
                        /\ \A u \in Terminals \ {t} : ~Alive(u)
    BY <1>11, TakesDoes
  <2>2. CASE Became(t, "up") /\ term[t].box
    BY <2>1, <2>2 DEF Became, Alive
  <2>3. CASE Became(t, "leave")
    BY <2>1, <2>3 DEF Became, Alive
  <2>4. QED
    BY <1>11, TakesDoes, <2>2, <2>3
<1>12. ASSUME NEW t \in Terminals, Leaves(t) PROVE Always'
  <2>1. /\ term[t].step = "leave"
        /\ UNCHANGED <<up, claude, done, taker, terminal, contfile, handoff, restarted, win,
                       shutdown, struck, crossed>>
    BY <1>12, LeavesDoes
  <2>2. CASE HasWindow /\ closing' = TRUE /\ Became(t, "closing")
    BY <2>1, <2>2 DEF Became, HasWindow
  <2>3. CASE ~HasWindow /\ closing' = closing /\ Became(t, "up")
    BY <2>1, <2>3 DEF Became, HasWindow
  <2>4. QED
    BY <1>12, LeavesDoes, <2>2, <2>3
<1>13. ASSUME NEW t \in Terminals, WindowLeft(t) PROVE Always'
  <2>1. /\ term[t].step = "closing" /\ Left /\ closing' = FALSE
        /\ UNCHANGED <<up, claude, done, taker, contfile, handoff, restarted, win,
                       shutdown, struck, crossed>>
    BY <1>13, LeftDoes
  <2>2. CASE HasWindow /\ Became(t, "gone") /\ terminal' = NoTerminal
    BY <2>1, <2>2 DEF Became, Begins, Left, HasWindow
  <2>3. CASE /\ ~HasWindow /\ Begins(t, "up") /\ terminal' = terminal
             /\ turn # "none" => term'[t].cut
    BY <2>1, <2>3 DEF Became, Begins, Left, HasWindow
  <2>4. QED
    BY <1>13, LeftDoes, <2>2, <2>3
<1>14. ASSUME NEW t \in Terminals, Ups(t) PROVE Always'
  BY <1>14 DEF Ups, Step
<1>15. ASSUME NEW t \in Terminals, Runs(t) PROVE Always'
  <2>1. /\ term[t].step = "run"
        /\ UNCHANGED <<up, done, taker, files, win, shutdown, struck>>
    BY <1>15, RunsDoes
  <2>2. CASE up /\ Became(t, "runs") /\ Resumes(t, term[t].cut) /\ crossed' = crossed
    BY <2>1, <2>2, Records, ConstantsAssumption DEF Became, Resumes
  <2>3. CASE ~up /\ Became(t, "ended") /\ UNCHANGED claude /\ (crossed' <=> crossed \/ owed)
    BY <2>1, <2>3 DEF Became, Resumes
  <2>4. QED
    BY <1>15, RunsDoes, <2>2, <2>3
<1>16. ASSUME NEW t \in Terminals, Quits(t) PROVE Always'
  BY <1>16 DEF Quits
<1>17. ASSUME NEW t \in Terminals, Ended(t) PROVE Always'
  BY <1>17 DEF Ended, Step
<1>18. ASSUME NEW t \in Terminals, HangsUp(t) PROVE Always'
  <2>1. /\ UNCHANGED <<up, runs, turn, busy, lost, done, taker, contfile, handoff,
                       restarted, tabOpened, win, shutdown, struck>>
        /\ owed' => owed /\ ~HasTurn(t)
    BY <1>18, HangDoes
  <2>2. CASE /\ Became(t, "gone") /\ Is(t, {"handing", "mark"})
             /\ ~crossed' => taker[t] = NoTaker
             /\ UNCHANGED <<terminal, closing>>
    BY <2>1, <2>2 DEF Became, Hung, HasTurn, HasWindow
  <2>3. CASE /\ Became(t, "gone") /\ Leaving(t)
             /\ terminal' = NoTerminal /\ closing' = FALSE
    BY <2>1, <2>3 DEF Became, Hung, HasTurn, HasWindow
  <2>4. CASE /\ Hung(t) /\ Is(t, {"up", "run", "runs"}) /\ term'[t].hung
             /\ UNCHANGED <<terminal, closing>>
    BY <2>1, <2>4 DEF Became, Hung, HasTurn, HasWindow
  <2>5. QED
    BY <1>18, HangDoes, <2>2, <2>3, <2>4
<1>19. ASSUME NEW t \in Terminals, HandsOver(t) PROVE Always'
  <2>1. /\ Hands(t) /\ Became(t, "handed") /\ taker' = [taker EXCEPT ![t] = NewTaker]
        /\ UNCHANGED <<up, claude, done, files, win, shutdown, struck, crossed>>
    BY <1>19, HandsDoes
  <2>2. QED
    BY <2>1, Records DEF Became, Hands, HasWindow
<1>20. ASSUME NEW t \in Terminals, Removes(t) PROVE Always'
  <2>1. /\ \/ term[t].step = "ended" /\ ~Hands(t)
           \/ term[t].step = "handed" /\ taker[t] = NoTaker
        /\ ~contfile' /\ terminal' = NoTerminal /\ (crossed' <=> crossed \/ win = "opening")
        /\ UNCHANGED <<up, claude, done, taker, handoff, restarted, tabOpened, closing, win,
                       shutdown, struck>>
    BY <1>20, RemovesDoes
  <2>2. CASE TakenOver(t) /\ Became(t, "gone")
    BY <2>1, <2>2 DEF Became, TakenOver, Hands, HasWindow
  <2>3. CASE ~TakenOver(t) /\ Became(t, "stop")
    BY <2>1, <2>3 DEF Became, TakenOver, Hands, HasWindow
  <2>4. QED
    BY <1>20, RemovesDoes, <2>2, <2>3
<1>21. ASSUME NEW t \in Terminals, StopsContainer(t) PROVE Always'
  BY <1>21, Records DEF Typed, StopsContainer, Step, Stops, HasWindow
<1>22. CASE WindowOpens
  BY <1>22 DEF WindowOpens, Taking
<1>23. CASE Activates
  <2>1. CASE terminal # NoTerminal
    BY <1>23, <2>1, Records DEF Typed, Activates, ShowsTab, MayOpenTab
  <2>2. CASE terminal = NoTerminal /\ IsStopped
    BY <1>23, <2>2, Records, ConstantsAssumption DEF Activates, ShowsTab, MayOpenTab
  <2>3. CASE terminal = NoTerminal /\ ~IsStopped
    BY <1>23, <2>3 DEF Activates, ShowsTab, MayOpenTab
  <2>4. QED
    BY <2>1, <2>2, <2>3
<1>24. CASE PollsTab
  BY <1>24, Records, ConstantsAssumption DEF PollsTab, ShowsTab, IsStopped, MayOpenTab, HasWindow
<1>25. CASE PollsReload
  BY <1>25 DEF PollsReload, Reloads, HasWindow
<1>26. CASE PollsClose
  <2>1. CASE UNCHANGED <<win, shutdown, runs, busy, owed>>
    BY <1>26, <2>1 DEF PollsClose, HasWindow
  <2>2. CASE /\ win' = "closed" /\ shutdown' = TRUE /\ runs' = runs \ {Tab}
             /\ busy' = (busy /\ Tab \notin runs)
             /\ owed' = IF Tab \in runs THEN turn # "none" ELSE owed
    <3>1. OwedIsCut'
      <4>1. CASE Tab \in runs
        <5>1. owed' = (turn # "none") /\ turn' = turn /\ ~busy'
          BY <1>26, <2>2, <4>1 DEF PollsClose
        <5>2. QED
          BY <5>1, Zenon
      <4>2. CASE Tab \notin runs
        <5>1. owed' = owed /\ turn' = turn /\ (busy' => busy)
          BY <1>26, <2>2, <4>2 DEF PollsClose
        <5>2. QED
          BY <5>1
      <4>3. QED
        BY <4>1, <4>2
    <3>2. /\ IdleIsNone' /\ DownIsEmpty' /\ WindowIsUp' /\ TabInWindow' /\ ClosingIsAsked'
          /\ MarkedIsHanded' /\ OffIsNew' /\ RunsOnceBegun' /\ EndedOrHung'
      BY <1>26, <2>2, Records DEF Typed, HasWindow, PollsClose
    <3>3. QED
      BY <3>1, <3>2
  <2>3. QED
    BY <1>26, <2>1, <2>2 DEF PollsClose
<1>27. CASE WindowCloses
  BY <1>27 DEF WindowCloses
<1>28. CASE ShutsDown
  BY <1>28, Records DEF Typed, ShutsDown, Stops
<1>29. QED
  BY <1>1, <1>2, <1>3, <1>4, <1>5, <1>6, <1>7, <1>8, <1>9, <1>10, <1>11, <1>12, <1>13, <1>14,
    <1>15, <1>16, <1>17, <1>18, <1>19, <1>20, <1>21, <1>22, <1>23, <1>24, <1>25, <1>26, <1>27,
    <1>28 DEF Next

-----------------------------------------------------------------------------
LEMMA SoleNext ==
  ASSUME Typed, Always, Always', Alone, Next, ~crossed'
  PROVE  Sole'
<1> USE DEF Is, Late, Holds, Does, Past, Idle, Starting, Leaving, Takers, claude, files, Sole,
      OneHolds, TakesForIt, HandingAlone, MarkedAlone, WindowTakes, StartsAlone, StartsInWindow
<1> Sole /\ Running /\ Turn /\ ~lost /\ ~struck
  BY DEF Alone
<1>1. CASE TurnBegins
  BY <1>1 DEF TurnBegins
<1>2. CASE TurnGoes
  BY <1>2 DEF TurnGoes
<1>3. ASSUME NEW x \in Takers, Finds(x) PROVE Sole'
  BY <1>3 DEF Finds
<1>4. ASSUME NEW x \in Takers, FindsNone(x) PROVE Sole'
  BY <1>4 DEF Typed, Always, DownIsEmpty, FindsNone
<1>5. ASSUME NEW x \in Takers, Watches(x) PROVE Sole'
  BY <1>5 DEF Watches, AtRest, CallInFlight
<1>6. ASSUME NEW x \in Takers, Marks(x) PROVE Sole'
  BY <1>6 DEF Marks, Restarted
<1>7. ASSUME NEW x \in Takers, StopsClaude(x) PROVE Sole'
  BY <1>7 DEF StopsClaude
<1>8. ASSUME NEW x \in Takers, Unlinks(x) PROVE Sole'
  BY <1>8 DEF Unlinks
<1>9. ASSUME NEW t \in Terminals, Opens(t) PROVE Sole'
  <2>1. /\ term[t].step = "off"
        /\ UNCHANGED <<up, claude, done, files, win, shutdown, struck>>
    BY <1>9, OpensDoes
  <2>2. CASE (Became(t, "mark") \/ Became(t, "gone")) /\ UNCHANGED <<taker, crossed>>
    BY <2>1, <2>2 DEF Always, OffIsNew, Became
  <2>3. CASE /\ Became(t, "handing") /\ up /\ terminal # NoTerminal
             /\ taker' = [taker EXCEPT ![t] = NewTaker]
             /\ ~crossed' => win = "closed" /\ \A x \in Takers : taker[x] = NoTaker
    BY <2>1, <2>3, Records, ConstantsAssumption DEF Always, TabInWindow, Became
  <2>4. QED
    BY <1>9, OpensDoes, <2>2, <2>3
<1>10. ASSUME NEW t \in Terminals, Waits(t) PROVE Sole'
  <2>1. /\ term[t].step = "handing" /\ taker[t] = NoTaker
        /\ UNCHANGED <<up, claude, done, taker, files, win, shutdown, struck>>
    BY <1>10, WaitsDoes
  <2>2. CASE Became(t, "gone") /\ (crossed' \/ restarted)
    BY <2>1, <2>2, Records DEF Became, Begins
  <2>3. CASE Begins(t, "mark") /\ (term'[t].cut <=> ~restarted)
    BY <2>1, <2>3, Records DEF Became, Begins
  <2>4. QED
    BY <1>10, WaitsDoes, <2>2, <2>3
<1>11. ASSUME NEW t \in Terminals, Takes(t) PROVE Sole'
  <2>1. /\ term[t].step = "mark" /\ ~handoff' /\ ~restarted' /\ terminal' = t
        /\ UNCHANGED <<up, claude, done, taker, contfile, tabOpened, closing, win,
               shutdown, struck>>
        /\ \A x \in Takers : taker[x] = NoTaker
        /\ \A u \in Terminals \ {t} : ~Alive(u)
        /\ (Became(t, "up") /\ term[t].box) \/ Became(t, "leave")
    BY <1>11, TakesDoes
  <2>2. runs \subseteq {Tab}
    <3>1. \A u \in Terminals : u \notin runs
      BY <2>1, Records DEF Always, RunsOnceBegun, Running, GoneIsStopped, Stopped, Alive
    <3>2. QED
      BY <3>1 DEF Typed
  <2>3. \A u \in Terminals : Starting(u)' => u = t
    BY <2>1 DEF Became, Alive
  <2>4. term[t].box => Tab \notin runs
    BY <2>1 DEF Always, TabInWindow
  <2>5. StartsAlone'
    BY <2>1, <2>2, <2>3, <2>4, Records DEF Became
  <2>6. OneHolds' /\ TakesForIt' /\ HandingAlone' /\ MarkedAlone' /\ WindowTakes' /\ StartsInWindow'
    BY <2>1, Records, ConstantsAssumption
      DEF Always, Running, TabInWindow, WindowIsUp, Became, Alive
  <2>7. QED
    BY <2>5, <2>6
<1>12. ASSUME NEW t \in Terminals, Leaves(t) PROVE Sole'
  <2>1. /\ term[t].step = "leave"
        /\ UNCHANGED <<up, claude, done, taker, terminal, contfile, handoff, restarted, win,
                       shutdown, struck, crossed>>
    BY <1>12, LeavesDoes
  <2>2. CASE HasWindow /\ closing' = TRUE /\ Became(t, "closing")
    BY <2>1, <2>2 DEF Became, HasWindow
  <2>3. CASE ~HasWindow /\ closing' = closing /\ Became(t, "up")
    BY <2>1, <2>3 DEF Always, WindowIsUp, TabInWindow, Became, HasWindow
  <2>4. QED
    BY <1>12, LeavesDoes, <2>2, <2>3
<1>13. ASSUME NEW t \in Terminals, WindowLeft(t) PROVE Sole'
  <2>1. /\ term[t].step = "closing" /\ Left /\ closing' = FALSE
        /\ UNCHANGED <<up, claude, done, taker, contfile, handoff, restarted, win,
                       shutdown, struck, crossed>>
    BY <1>13, LeftDoes
  <2>2. CASE HasWindow /\ Became(t, "gone") /\ terminal' = NoTerminal
    BY <2>1, <2>2 DEF Became, Begins, Left, HasWindow
  <2>3. CASE /\ ~HasWindow /\ Begins(t, "up") /\ terminal' = terminal
             /\ turn # "none" => term'[t].cut
    BY <2>1, <2>3 DEF Always, DownIsEmpty, WindowIsUp, TabInWindow, Became, Begins, Left, HasWindow
  <2>4. QED
    BY <1>13, LeftDoes, <2>2, <2>3
<1>14. ASSUME NEW t \in Terminals, Ups(t) PROVE Sole'
  BY <1>14 DEF Ups, Step
<1>15. ASSUME NEW t \in Terminals, Runs(t) PROVE Sole'
  <2>1. /\ term[t].step = "run"
        /\ UNCHANGED <<up, done, taker, files, win, shutdown, struck>>
    BY <1>15, RunsDoes
  <2>2. CASE up /\ Became(t, "runs") /\ Resumes(t, term[t].cut) /\ crossed' = crossed
    BY <2>1, <2>2 DEF Became, Resumes
  <2>3. CASE ~up /\ Became(t, "ended") /\ UNCHANGED claude /\ (crossed' <=> crossed \/ owed)
    BY <2>1, <2>3 DEF Became, Resumes
  <2>4. QED
    BY <1>15, RunsDoes, <2>2, <2>3
<1>16. ASSUME NEW t \in Terminals, Quits(t) PROVE Sole'
  BY <1>16 DEF Quits
<1>17. ASSUME NEW t \in Terminals, Ended(t) PROVE Sole'
  BY <1>17 DEF Ended, Step
<1>18. ASSUME NEW t \in Terminals, HangsUp(t) PROVE Sole'
  <2>1. /\ UNCHANGED <<up, runs, turn, busy, lost, done, taker, contfile, handoff,
                       restarted, tabOpened, win, shutdown, struck>>
        /\ owed' => owed /\ ~HasTurn(t)
    BY <1>18, HangDoes
  <2>2. CASE /\ Became(t, "gone") /\ Is(t, {"handing", "mark"})
             /\ ~crossed' => taker[t] = NoTaker
             /\ UNCHANGED <<terminal, closing>>
    BY <2>1, <2>2, Records DEF Became, Hung, HasTurn, HasWindow
  <2>3. CASE /\ Became(t, "gone") /\ Leaving(t)
             /\ terminal' = NoTerminal /\ closing' = FALSE
    BY <2>1, <2>3 DEF Became, Hung, HasTurn, HasWindow
  <2>4. CASE /\ Hung(t) /\ Is(t, {"up", "run", "runs"}) /\ term'[t].hung
             /\ UNCHANGED <<terminal, closing>>
    BY <2>1, <2>4 DEF Became, Hung, HasTurn, HasWindow
  <2>5. QED
    BY <1>18, HangDoes, <2>2, <2>3, <2>4
<1>19. ASSUME NEW t \in Terminals, HandsOver(t) PROVE Sole'
  <2>1. /\ Hands(t) /\ Became(t, "handed") /\ taker' = [taker EXCEPT ![t] = NewTaker]
        /\ UNCHANGED <<up, claude, done, files, win, shutdown, struck, crossed>>
    BY <1>19, HandsDoes
  <2>2. QED
    BY <2>1 DEF Became, Hands, HasWindow
<1>20. ASSUME NEW t \in Terminals, Removes(t) PROVE Sole'
  <2>1. /\ \/ term[t].step = "ended" /\ ~Hands(t)
           \/ term[t].step = "handed" /\ taker[t] = NoTaker
        /\ ~contfile' /\ terminal' = NoTerminal /\ (crossed' <=> crossed \/ win = "opening")
        /\ UNCHANGED <<up, claude, done, taker, handoff, restarted, tabOpened, closing, win,
                       shutdown, struck>>
    BY <1>20, RemovesDoes
  <2>2. CASE TakenOver(t) /\ Became(t, "gone")
    BY <2>1, <2>2, Records DEF Became, TakenOver, Hands, HasWindow
  <2>3. CASE ~TakenOver(t) /\ Became(t, "stop")
    BY <2>1, <2>3 DEF Became, TakenOver, Hands, HasWindow
  <2>4. QED
    BY <1>20, RemovesDoes, <2>2, <2>3
<1>21. ASSUME NEW t \in Terminals, StopsContainer(t) PROVE Sole'
  BY <1>21 DEF Always, DownIsEmpty, StopsContainer, Step, Stops, HasWindow
<1>22. CASE WindowOpens
  <2>1. \A u \in Terminals : ~Taking(u)
    BY <1>22 DEF WindowOpens, Taking
  <2>2. QED
    BY <1>22, <2>1 DEF WindowOpens, Taking
<1>23. CASE Activates
  <2>1. CASE terminal # NoTerminal
    BY <1>23, <2>1, Records, ConstantsAssumption
      DEF Typed, Always, TabInWindow, Activates, ShowsTab, MayOpenTab
  <2>2. CASE terminal = NoTerminal /\ IsStopped
    BY <1>23, <2>2, Records, ConstantsAssumption DEF Activates, ShowsTab, MayOpenTab
  <2>3. CASE terminal = NoTerminal /\ ~IsStopped
    BY <1>23, <2>3, Records, ConstantsAssumption DEF Activates, ShowsTab, MayOpenTab
  <2>4. QED
    BY <2>1, <2>2, <2>3
<1>24. CASE PollsTab
  BY <1>24, Records, ConstantsAssumption DEF PollsTab, ShowsTab, IsStopped, MayOpenTab, HasWindow
<1>25. CASE PollsReload
  BY <1>25 DEF PollsReload, Reloads, HasWindow
<1>26. CASE PollsClose
  <2>1. CASE UNCHANGED <<win, shutdown, runs, busy, owed>>
    BY <1>26, <2>1 DEF Always, ClosingIsAsked, PollsClose, HasWindow
  <2>2. CASE /\ win' = "closed" /\ shutdown' = TRUE /\ runs' = runs \ {Tab}
             /\ busy' = (busy /\ Tab \notin runs)
             /\ owed' = IF Tab \in runs THEN turn # "none" ELSE owed
    BY <1>26, <2>2 DEF Always, ClosingIsAsked, PollsClose, HasWindow
  <2>3. QED
    BY <1>26, <2>1, <2>2 DEF PollsClose
<1>27. CASE WindowCloses
  <2>1. taker[Window] = NoTaker
    BY <1>27 DEF WindowCloses
  <2>2. QED
    BY <1>27, <2>1, Records DEF WindowCloses
<1>28. CASE ShutsDown
  BY <1>28 DEF Always, DownIsEmpty, WindowIsUp, ShutsDown, Stops
<1>29. QED
  BY <1>1, <1>2, <1>3, <1>4, <1>5, <1>6, <1>7, <1>8, <1>9, <1>10, <1>11, <1>12, <1>13, <1>14,
    <1>15, <1>16, <1>17, <1>18, <1>19, <1>20, <1>21, <1>22, <1>23, <1>24, <1>25, <1>26, <1>27,
    <1>28 DEF Next

-----------------------------------------------------------------------------
LEMMA RunningNext ==
  ASSUME Typed, Always, Always', Alone, Next, ~crossed'
  PROVE  Running'
<1> USE DEF Is, Late, Holds, Does, Past, Idle, Stopped, Starting, Leaving, Takers, claude,
      files, Running, GoneIsStopped, HoldsFile, FoundIt, TabBesideGone, OneRuns, HoldsIt,
      HandedIsStopped, HandedTakes, WindowTakesIt, StopsAlone
<1> Sole /\ Running /\ Turn /\ ~lost /\ ~struck
  BY DEF Alone
<1>1. CASE TurnBegins
  BY <1>1 DEF TurnBegins
<1>2. CASE TurnGoes
  BY <1>2 DEF TurnGoes
<1>3. ASSUME NEW x \in Takers, Finds(x) PROVE Running'
  BY <1>3 DEF Typed, Sole, TakesForIt, HandingAlone, Finds
<1>4. ASSUME NEW x \in Takers, FindsNone(x) PROVE Running'
  BY <1>4 DEF FindsNone
<1>5. ASSUME NEW x \in Takers, Watches(x) PROVE Running'
  BY <1>5 DEF Watches, AtRest, CallInFlight
<1>6. ASSUME NEW x \in Takers, Marks(x) PROVE Running'
  BY <1>6 DEF Typed, Marks, Restarted
<1>7. ASSUME NEW x \in Takers, StopsClaude(x) PROVE Running'
  BY <1>7 DEF StopsClaude
<1>8. ASSUME NEW x \in Takers, Unlinks(x) PROVE Running'
  BY <1>8 DEF Unlinks
<1>9. ASSUME NEW t \in Terminals, Opens(t) PROVE Running'
  <2>1. /\ term[t].step = "off"
        /\ UNCHANGED <<up, claude, done, files, win, shutdown, struck>>
    BY <1>9, OpensDoes
  <2>2. CASE (Became(t, "mark") \/ Became(t, "gone")) /\ UNCHANGED <<taker, crossed>>
    BY <2>1, <2>2 DEF Always, RunsOnceBegun, Became
  <2>3. CASE /\ Became(t, "handing") /\ up /\ terminal # NoTerminal
             /\ taker' = [taker EXCEPT ![t] = NewTaker]
             /\ ~crossed' => win = "closed" /\ \A x \in Takers : taker[x] = NoTaker
    BY <2>1, <2>3, Records DEF Became
  <2>4. QED
    BY <1>9, OpensDoes, <2>2, <2>3
<1>10. ASSUME NEW t \in Terminals, Waits(t) PROVE Running'
  <2>1. /\ term[t].step = "handing" /\ taker[t] = NoTaker
        /\ UNCHANGED <<up, claude, done, taker, files, win, shutdown, struck>>
    BY <1>10, WaitsDoes
  <2>2. CASE Became(t, "gone") /\ (crossed' \/ restarted)
    BY <2>1, <2>2 DEF Always, RunsOnceBegun, Became, Begins
  <2>3. CASE Begins(t, "mark") /\ (term'[t].cut <=> ~restarted)
    BY <2>1, <2>3 DEF Became, Begins
  <2>4. QED
    BY <1>10, WaitsDoes, <2>2, <2>3
<1>11. ASSUME NEW t \in Terminals, Takes(t) PROVE Running'
  <2>1. /\ term[t].step = "mark" /\ ~handoff' /\ ~restarted' /\ terminal' = t
        /\ UNCHANGED <<up, claude, done, taker, contfile, tabOpened, closing, win,
                       shutdown, struck>>
        /\ ~crossed' => /\ \A x \in Takers : taker[x] = NoTaker
                        /\ \A u \in Terminals \ {t} : ~Alive(u)
    BY <1>11, TakesDoes
  <2>2. CASE Became(t, "up") /\ term[t].box
    BY <2>1, <2>2 DEF Became, Alive
  <2>3. CASE Became(t, "leave")
    BY <2>1, <2>3 DEF Became, Alive
  <2>4. QED
    BY <1>11, TakesDoes, <2>2, <2>3
<1>12. ASSUME NEW t \in Terminals, Leaves(t) PROVE Running'
  <2>1. /\ term[t].step = "leave"
        /\ UNCHANGED <<up, claude, done, taker, terminal, contfile, handoff, restarted, win,
                       shutdown, struck, crossed>>
    BY <1>12, LeavesDoes
  <2>2. CASE HasWindow /\ closing' = TRUE /\ Became(t, "closing")
    BY <2>1, <2>2 DEF Became, HasWindow
  <2>3. CASE ~HasWindow /\ closing' = closing /\ Became(t, "up")
    BY <2>1, <2>3 DEF Became, HasWindow
  <2>4. QED
    BY <1>12, LeavesDoes, <2>2, <2>3
<1>13. ASSUME NEW t \in Terminals, WindowLeft(t) PROVE Running'
  <2>1. /\ term[t].step = "closing" /\ Left /\ closing' = FALSE
        /\ UNCHANGED <<up, claude, done, taker, contfile, handoff, restarted, win,
                       shutdown, struck, crossed>>
    BY <1>13, LeftDoes
  <2>2. CASE HasWindow /\ Became(t, "gone") /\ terminal' = NoTerminal
    BY <2>1, <2>2 DEF Sole, StartsAlone, Became, Begins, Left, HasWindow
  <2>3. CASE /\ ~HasWindow /\ Begins(t, "up") /\ terminal' = terminal
             /\ turn # "none" => term'[t].cut
    BY <2>1, <2>3 DEF Became, Begins, Left, HasWindow
  <2>4. QED
    BY <1>13, LeftDoes, <2>2, <2>3
<1>14. ASSUME NEW t \in Terminals, Ups(t) PROVE Running'
  BY <1>14 DEF Ups, Step
<1>15. ASSUME NEW t \in Terminals, Runs(t) PROVE Running'
  <2>1. /\ term[t].step = "run"
        /\ UNCHANGED <<up, done, taker, files, win, shutdown, struck>>
    BY <1>15, RunsDoes
  <2>2. CASE up /\ Became(t, "runs") /\ Resumes(t, term[t].cut) /\ crossed' = crossed
    BY <2>1, <2>2, Records, ConstantsAssumption
      DEF Sole, OneHolds, StartsAlone, StartsInWindow, Became, Resumes
  <2>3. CASE ~up /\ Became(t, "ended") /\ UNCHANGED claude /\ (crossed' <=> crossed \/ owed)
    BY <2>1, <2>3 DEF Always, DownIsEmpty, Became, Resumes
  <2>4. QED
    BY <1>15, RunsDoes, <2>2, <2>3
<1>16. ASSUME NEW t \in Terminals, Quits(t) PROVE Running'
  BY <1>16 DEF Quits
<1>17. ASSUME NEW t \in Terminals, Ended(t) PROVE Running'
  BY <1>17 DEF Ended, Step
<1>18. ASSUME NEW t \in Terminals, HangsUp(t) PROVE Running'
  <2>1. /\ UNCHANGED <<up, runs, turn, busy, lost, done, taker, contfile, handoff,
                       restarted, tabOpened, win, shutdown, struck>>
        /\ owed' => owed /\ ~HasTurn(t)
    BY <1>18, HangDoes
  <2>2. CASE /\ Became(t, "gone") /\ Is(t, {"handing", "mark"})
             /\ ~crossed' => taker[t] = NoTaker
             /\ UNCHANGED <<terminal, closing>>
    BY <2>1, <2>2 DEF Always, RunsOnceBegun, Became, Hung, HasTurn, HasWindow
  <2>3. CASE /\ Became(t, "gone") /\ Leaving(t)
             /\ terminal' = NoTerminal /\ closing' = FALSE
    BY <2>1, <2>3 DEF Sole, StartsAlone, Became, Hung, HasTurn, HasWindow
  <2>4. CASE /\ Hung(t) /\ Is(t, {"up", "run", "runs"}) /\ term'[t].hung
             /\ UNCHANGED <<terminal, closing>>
    BY <2>1, <2>4 DEF Sole, StartsAlone, Became, Hung, HasTurn, HasWindow
  <2>5. QED
    BY <1>18, HangDoes, <2>2, <2>3, <2>4
<1>19. ASSUME NEW t \in Terminals, HandsOver(t) PROVE Running'
  <2>1. /\ Hands(t) /\ Became(t, "handed") /\ taker' = [taker EXCEPT ![t] = NewTaker]
        /\ UNCHANGED <<up, claude, done, files, win, shutdown, struck, crossed>>
    BY <1>19, HandsDoes
  <2>2. QED
    BY <2>1, Records, ConstantsAssumption DEF Typed, Became, Hands, HasWindow
<1>20. ASSUME NEW t \in Terminals, Removes(t) PROVE Running'
  <2>1. /\ \/ term[t].step = "ended" /\ ~Hands(t)
           \/ term[t].step = "handed" /\ taker[t] = NoTaker
        /\ ~contfile' /\ terminal' = NoTerminal /\ (crossed' <=> crossed \/ win = "opening")
        /\ UNCHANGED <<up, claude, done, taker, handoff, restarted, tabOpened, closing, win,
                       shutdown, struck>>
    BY <1>20, RemovesDoes
  <2>2. CASE TakenOver(t) /\ Became(t, "gone")
    BY <2>1, <2>2, Records DEF Always, EndedOrHung, Became, TakenOver, Hands, HasWindow
  <2>3. CASE ~TakenOver(t) /\ Became(t, "stop")
    BY <2>1, <2>3 DEF Typed, Always, WindowIsUp, Became, TakenOver, Hands, HasWindow
  <2>4. QED
    BY <1>20, RemovesDoes, <2>2, <2>3
<1>21. ASSUME NEW t \in Terminals, StopsContainer(t) PROVE Running'
  BY <1>21 DEF StopsContainer, Step, Stops, HasWindow
<1>22. CASE WindowOpens
  <2>1. \A u \in Terminals : ~Taking(u)
    BY <1>22 DEF WindowOpens, Taking
  <2>2. QED
    BY <1>22, <2>1 DEF WindowOpens, Taking
<1>23. CASE Activates
  <2>1. CASE terminal # NoTerminal
    BY <1>23, <2>1, Records DEF Typed, Sole, WindowTakes, Activates, ShowsTab, MayOpenTab
  <2>2. CASE terminal = NoTerminal /\ IsStopped
    BY <1>23, <2>2, Records, ConstantsAssumption
      DEF Always, RunsOnceBegun, Activates, ShowsTab, MayOpenTab
  <2>3. CASE terminal = NoTerminal /\ ~IsStopped
    BY <1>23, <2>3, Records, ConstantsAssumption DEF Activates, ShowsTab, MayOpenTab
  <2>4. QED
    BY <2>1, <2>2, <2>3
<1>24. CASE PollsTab
  BY <1>24, Records, ConstantsAssumption
    DEF Always, RunsOnceBegun, PollsTab, ShowsTab, IsStopped, MayOpenTab, HasWindow
<1>25. CASE PollsReload
  BY <1>25 DEF PollsReload, Reloads, HasWindow
<1>26. CASE PollsClose
  <2>1. CASE UNCHANGED <<win, shutdown, runs, busy, owed>>
    BY <1>26, <2>1 DEF Always, Sole, ClosingIsAsked, StartsAlone, PollsClose, HasWindow
  <2>2. CASE /\ win' = "closed" /\ shutdown' = TRUE /\ runs' = runs \ {Tab}
             /\ busy' = (busy /\ Tab \notin runs)
             /\ owed' = IF Tab \in runs THEN turn # "none" ELSE owed
    BY <1>26, <2>2 DEF Always, Sole, ClosingIsAsked, StartsAlone, PollsClose, HasWindow
  <2>3. QED
    BY <1>26, <2>1, <2>2 DEF PollsClose
<1>27. CASE WindowCloses
  <2>1. taker[Window] = NoTaker
    BY <1>27 DEF WindowCloses
  <2>2. QED
    BY <1>27, <2>1, Records DEF WindowCloses
<1>28. CASE ShutsDown
  BY <1>28 DEF ShutsDown, Stops
<1>29. QED
  BY <1>1, <1>2, <1>3, <1>4, <1>5, <1>6, <1>7, <1>8, <1>9, <1>10, <1>11, <1>12, <1>13, <1>14,
    <1>15, <1>16, <1>17, <1>18, <1>19, <1>20, <1>21, <1>22, <1>23, <1>24, <1>25, <1>26, <1>27,
    <1>28 DEF Next

-----------------------------------------------------------------------------
LEMMA TurnNext ==
  ASSUME Typed, Always, Always', Alone, Next, ~crossed'
  PROVE  Turn' /\ ~lost' /\ ~struck'
<1> USE DEF Is, Late, Does, Past, Idle, Stopped, Starting, Leaving, HandingHas, Takers, claude,
      files, Turn, BusyWithIt, Reruns, StarterGoesOn, SomeoneHas
<1> Sole /\ Running /\ Turn /\ ~lost /\ ~struck
  BY DEF Alone
<1>1. CASE TurnBegins
  BY <1>1 DEF Typed, Always, DownIsEmpty, TurnBegins
<1>2. CASE TurnGoes
  <2>1. turn # "none" /\ (turn' # "none" => busy')
    BY <1>2 DEF TurnGoes
  <2>2. QED
    BY <1>2, <2>1 DEF TurnGoes
<1>3. ASSUME NEW x \in Takers, Finds(x) PROVE Turn' /\ ~lost' /\ ~struck'
  BY <1>3 DEF Finds
<1>4. ASSUME NEW x \in Takers, FindsNone(x) PROVE Turn' /\ ~lost' /\ ~struck'
  BY <1>4 DEF FindsNone
<1>5. ASSUME NEW x \in Takers, Watches(x) PROVE Turn' /\ ~lost' /\ ~struck'
  BY <1>5
    DEF Typed, Always, Sole, Running, DownIsEmpty, TabInWindow, RunsOnceBegun, HandingAlone,
      GoneIsStopped, Watches, AtRest, CallInFlight
<1>6. ASSUME NEW x \in Takers, Marks(x) PROVE Turn' /\ ~lost' /\ ~struck'
  BY <1>6
    DEF Typed, Always, Sole, Running, TabInWindow, MarkedIsHanded, RunsOnceBegun, HandingAlone,
      GoneIsStopped, HandedIsStopped, Marks, Restarted
<1>7. ASSUME NEW x \in Takers, StopsClaude(x) PROVE Turn' /\ ~lost' /\ ~struck'
  BY <1>7
    DEF Typed, Always, Sole, Running, TabInWindow, OwedIsCut, TakesForIt, HandingAlone,
      WindowTakes, StartsAlone, TabBesideGone, HoldsIt, HandedTakes, StopsClaude
<1>8. ASSUME NEW x \in Takers, Unlinks(x) PROVE Turn' /\ ~lost' /\ ~struck'
  BY <1>8, Records DEF Unlinks
<1>9. ASSUME NEW t \in Terminals, Opens(t) PROVE Turn' /\ ~lost' /\ ~struck'
  <2>1. /\ term[t].step = "off"
        /\ UNCHANGED <<up, claude, done, files, win, shutdown, struck>>
    BY <1>9, OpensDoes
  <2>2. CASE (Became(t, "mark") \/ Became(t, "gone")) /\ UNCHANGED <<taker, crossed>>
    BY <2>1, <2>2 DEF Became
  <2>3. CASE /\ Became(t, "handing") /\ up /\ terminal # NoTerminal
             /\ taker' = [taker EXCEPT ![t] = NewTaker]
             /\ ~crossed' => win = "closed" /\ \A x \in Takers : taker[x] = NoTaker
    BY <2>1, <2>3, Records DEF Became
  <2>4. QED
    BY <1>9, OpensDoes, <2>2, <2>3
<1>10. ASSUME NEW t \in Terminals, Waits(t) PROVE Turn' /\ ~lost' /\ ~struck'
  <2>1. /\ term[t].step = "handing" /\ taker[t] = NoTaker
        /\ UNCHANGED <<up, claude, done, taker, files, win, shutdown, struck>>
    BY <1>10, WaitsDoes
  <2>2. CASE Became(t, "gone") /\ (crossed' \/ restarted)
    BY <2>1, <2>2 DEF Became, Begins
  <2>3. CASE Begins(t, "mark") /\ (term'[t].cut <=> ~restarted)
    BY <2>1, <2>3 DEF Became, Begins
  <2>4. QED
    BY <1>10, WaitsDoes, <2>2, <2>3
<1>11. ASSUME NEW t \in Terminals, Takes(t) PROVE Turn' /\ ~lost' /\ ~struck'
  <2>1. /\ term[t].step = "mark" /\ ~handoff' /\ ~restarted' /\ terminal' = t
        /\ UNCHANGED <<up, claude, done, taker, contfile, tabOpened, closing, win,
                       shutdown, struck>>
        /\ ~crossed' => /\ \A x \in Takers : taker[x] = NoTaker
                        /\ \A u \in Terminals \ {t} : ~Alive(u)
    BY <1>11, TakesDoes
  <2>2. CASE Became(t, "up") /\ term[t].box
    BY <2>1, <2>2 DEF Sole, MarkedAlone, Became, Alive
  <2>3. CASE Became(t, "leave")
    BY <2>1, <2>3 DEF Became, Alive
  <2>4. QED
    BY <1>11, TakesDoes, <2>2, <2>3
<1>12. ASSUME NEW t \in Terminals, Leaves(t) PROVE Turn' /\ ~lost' /\ ~struck'
  <2>1. /\ term[t].step = "leave"
        /\ UNCHANGED <<up, claude, done, taker, terminal, contfile, handoff, restarted, win,
                       shutdown, struck, crossed>>
    BY <1>12, LeavesDoes
  <2>2. CASE HasWindow /\ closing' = TRUE /\ Became(t, "closing")
    BY <2>1, <2>2 DEF Became, HasWindow
  <2>3. CASE ~HasWindow /\ closing' = closing /\ Became(t, "up")
    BY <2>1, <2>3 DEF Always, WindowIsUp, Became, HasWindow
  <2>4. QED
    BY <1>12, LeavesDoes, <2>2, <2>3
<1>13. ASSUME NEW t \in Terminals, WindowLeft(t) PROVE Turn' /\ ~lost' /\ ~struck'
  <2>1. /\ term[t].step = "closing" /\ Left /\ closing' = FALSE
        /\ UNCHANGED <<up, claude, done, taker, contfile, handoff, restarted, win,
                       shutdown, struck, crossed>>
    BY <1>13, LeftDoes
  <2>2. CASE HasWindow /\ Became(t, "gone") /\ terminal' = NoTerminal
    BY <2>1, <2>2 DEF Became, Begins, Left, HasWindow
  <2>3. CASE /\ ~HasWindow /\ Begins(t, "up") /\ terminal' = terminal
             /\ turn # "none" => term'[t].cut
    BY <2>1, <2>3 DEF Always, OwedIsCut, Became, Begins, Left, HasWindow
  <2>4. QED
    BY <1>13, LeftDoes, <2>2, <2>3
<1>14. ASSUME NEW t \in Terminals, Ups(t) PROVE Turn' /\ ~lost' /\ ~struck'
  BY <1>14 DEF Ups, Step
<1>15. ASSUME NEW t \in Terminals, Runs(t) PROVE Turn' /\ ~lost' /\ ~struck'
  <2>1. /\ term[t].step = "run"
        /\ UNCHANGED <<up, done, taker, files, win, shutdown, struck>>
    BY <1>15, RunsDoes
  <2>2. CASE up /\ Became(t, "runs") /\ Resumes(t, term[t].cut) /\ crossed' = crossed
    BY <2>1, <2>2 DEF Typed, Always, Sole, MarkedIsHanded, StartsAlone, Became, Resumes
  <2>3. CASE ~up /\ Became(t, "ended") /\ UNCHANGED claude /\ (crossed' <=> crossed \/ owed)
    BY <2>1, <2>3 DEF Always, RunsOnceBegun, Became, Resumes
  <2>4. QED
    BY <1>15, RunsDoes, <2>2, <2>3
<1>16. ASSUME NEW t \in Terminals, Quits(t) PROVE Turn' /\ ~lost' /\ ~struck'
  BY <1>16 DEF Quits
<1>17. ASSUME NEW t \in Terminals, Ended(t) PROVE Turn' /\ ~lost' /\ ~struck'
  BY <1>17 DEF Ended, Step
<1>18. ASSUME NEW t \in Terminals, HangsUp(t) PROVE Turn' /\ ~lost' /\ ~struck'
  <2>1. /\ UNCHANGED <<up, runs, turn, busy, lost, done, taker, contfile, handoff,
                       restarted, tabOpened, win, shutdown, struck>>
        /\ owed' => owed /\ ~HasTurn(t)
    BY <1>18, HangDoes
  <2>2. CASE /\ Became(t, "gone") /\ Is(t, {"handing", "mark"})
             /\ ~crossed' => taker[t] = NoTaker
             /\ UNCHANGED <<terminal, closing>>
    BY <2>1, <2>2 DEF Became, Hung, HasTurn, HasWindow
  <2>3. CASE /\ Became(t, "gone") /\ Leaving(t)
             /\ terminal' = NoTerminal /\ closing' = FALSE
    BY <2>1, <2>3 DEF Became, Hung, HasTurn, HasWindow
  <2>4. CASE /\ Hung(t) /\ Is(t, {"up", "run", "runs"}) /\ term'[t].hung
             /\ UNCHANGED <<terminal, closing>>
    BY <2>1, <2>4 DEF Sole, StartsAlone, Became, Hung, HasTurn, HasWindow
  <2>5. QED
    BY <1>18, HangDoes, <2>2, <2>3, <2>4
<1>19. ASSUME NEW t \in Terminals, HandsOver(t) PROVE Turn' /\ ~lost' /\ ~struck'
  <2>1. /\ Hands(t) /\ Became(t, "handed") /\ taker' = [taker EXCEPT ![t] = NewTaker]
        /\ UNCHANGED <<up, claude, done, files, win, shutdown, struck, crossed>>
    BY <1>19, HandsDoes
  <2>2. QED
    BY <2>1 DEF Became, Hands, HasWindow
<1>20. ASSUME NEW t \in Terminals, Removes(t) PROVE Turn' /\ ~lost' /\ ~struck'
  <2>1. /\ \/ term[t].step = "ended" /\ ~Hands(t)
           \/ term[t].step = "handed" /\ taker[t] = NoTaker
        /\ ~contfile' /\ terminal' = NoTerminal /\ (crossed' <=> crossed \/ win = "opening")
        /\ UNCHANGED <<up, claude, done, taker, handoff, restarted, tabOpened, closing, win,
                       shutdown, struck>>
    BY <1>20, RemovesDoes
  <2>2. CASE TakenOver(t) /\ Became(t, "gone")
    BY <2>1, <2>2 DEF Became, TakenOver, Hands, HasWindow
  <2>3. CASE ~TakenOver(t) /\ Became(t, "stop")
    BY <2>1, <2>3 DEF Became, TakenOver, Hands, HasWindow
  <2>4. QED
    BY <1>20, RemovesDoes, <2>2, <2>3
<1>21. ASSUME NEW t \in Terminals, StopsContainer(t) PROVE Turn' /\ ~lost' /\ ~struck'
  <2>1. BusyWithIt' /\ Reruns' /\ StarterGoesOn' /\ SomeoneHas'
    BY <1>21, Records, ConstantsAssumption
      DEF Typed, Running, StopsAlone, HoldsIt, StopsContainer, Step, Stops
  <2>2. ~lost'
    BY <1>21 DEF StopsContainer
  <2>3. ~struck'
    <3>1. runs \ {t} = {} /\ ~HasWindow
      BY <1>21 DEF Typed, Always, TabInWindow, Running, HoldsIt, StopsAlone,
        StopsContainer, HasWindow
    <3>2. struck' = (struck \/ runs \ {t} # {} \/ HasWindow)
      BY <1>21 DEF StopsContainer
    <3>3. QED
      BY <3>1, <3>2, Zenon
  <2>4. QED
    BY <2>1, <2>2, <2>3
<1>22. CASE WindowOpens
  <2>1. \A u \in Terminals : ~Taking(u)
    BY <1>22 DEF WindowOpens, Taking
  <2>2. QED
    BY <1>22, <2>1 DEF WindowOpens, Taking
<1>23. CASE Activates
  <2>1. CASE terminal # NoTerminal
    BY <1>23, <2>1 DEF Sole, HandingAlone, Activates, ShowsTab, MayOpenTab
  <2>2. CASE terminal = NoTerminal /\ IsStopped
    BY <1>23, <2>2, Records, ConstantsAssumption
      DEF Sole, HandingAlone, Activates, ShowsTab, MayOpenTab
  <2>3. CASE terminal = NoTerminal /\ ~IsStopped
    BY <1>23, <2>3 DEF Activates, ShowsTab, MayOpenTab
  <2>4. QED
    BY <2>1, <2>2, <2>3
<1>24. CASE PollsTab
  BY <1>24, Records, ConstantsAssumption
    DEF Sole, HandingAlone, PollsTab, ShowsTab, IsStopped, MayOpenTab, HasWindow
<1>25. CASE PollsReload
  BY <1>25 DEF Sole, HandingAlone, PollsReload, Reloads, HasWindow
<1>26. CASE PollsClose
  <2>1. CASE UNCHANGED <<win, shutdown, runs, busy, owed>>
    BY <1>26, <2>1 DEF Always, Sole, ClosingIsAsked, StartsAlone, PollsClose, HasWindow
  <2>2. CASE /\ win' = "closed" /\ shutdown' = TRUE /\ runs' = runs \ {Tab}
             /\ busy' = (busy /\ Tab \notin runs)
             /\ owed' = IF Tab \in runs THEN turn # "none" ELSE owed
    BY <1>26, <2>2 DEF Always, Sole, ClosingIsAsked, StartsAlone, PollsClose, HasWindow
  <2>3. QED
    BY <1>26, <2>1, <2>2 DEF PollsClose
<1>27. CASE WindowCloses
  <2>1. taker[Window] = NoTaker
    BY <1>27 DEF WindowCloses
  <2>2. QED
    BY <1>27, <2>1
      DEF Running, HoldsFile, FoundIt, TabBesideGone, OneRuns, HoldsIt, HandedIsStopped,
        HandedTakes, WindowTakesIt, StopsAlone, WindowCloses
<1>28. CASE ShutsDown
  BY <1>28 DEF Always, DownIsEmpty, ShutsDown, Stops
<1>29. QED
  BY <1>1, <1>2, <1>3, <1>4, <1>5, <1>6, <1>7, <1>8, <1>9, <1>10, <1>11, <1>12, <1>13, <1>14,
    <1>15, <1>16, <1>17, <1>18, <1>19, <1>20, <1>21, <1>22, <1>23, <1>24, <1>25, <1>26, <1>27,
    <1>28 DEF Next
-----------------------------------------------------------------------------
LEMMA InitInv == Init => Inv
<1> SUFFICES ASSUME Init PROVE Inv
  OBVIOUS
<1>1. Typed
  BY InitTyped
<1>2. /\ \A t \in Terminals : Is(t, {"off"}) /\ ~term[t].box /\ ~term[t].cut
      /\ \A x \in Takers : Idle(x) /\ taker[x] = NoTaker
  BY DEF Init, Takers, Off, NoTaker, Is, Idle
<1>3. /\ ~up /\ runs = {} /\ turn = "none" /\ win = "closed" /\ ~shutdown
      /\ ~owed /\ ~lost /\ ~struck /\ ~closing /\ ~restarted /\ ~handoff
  BY DEF Init
<1>4. Always
  BY <1>2, <1>3 DEF Always, IdleIsNone, DownIsEmpty, WindowIsUp, TabInWindow, OwedIsCut,
    ClosingIsAsked, MarkedIsHanded, OffIsNew, RunsOnceBegun, EndedOrHung, Is
<1>5. Sole
  BY <1>2 DEF Sole, OneHolds, TakesForIt, HandingAlone, MarkedAlone, WindowTakes, StartsAlone,
    StartsInWindow, Holds, Starting, Leaving, Late, Is, Idle, Takers
<1>6. Running
  BY <1>2, <1>3 DEF Running, GoneIsStopped, HoldsFile, FoundIt, TabBesideGone, OneRuns, HoldsIt,
    HandedIsStopped, HandedTakes, WindowTakesIt, StopsAlone, Late, Is, Does
<1>7. Turn
  BY <1>2, <1>3 DEF Turn, BusyWithIt, Reruns, StarterGoesOn, SomeoneHas
<1>8. QED
  BY <1>1, <1>3, <1>4, <1>5, <1>6, <1>7 DEF Inv, Alone

LEMMA InvNext == Inv /\ [Next]_vars => Inv'
<1> SUFFICES ASSUME Inv, [Next]_vars PROVE Inv'
  OBVIOUS
<1>1. CASE Next
  <2>1. Typed'
    BY <1>1, TypedNext DEF Inv
  <2>2. Always'
    BY <1>1, AlwaysNext DEF Inv
  <2>3. ASSUME ~crossed' PROVE Alone'
    <3>1. ~crossed
      BY <1>1, <2>3, CrossedStays
    <3>2. Alone
      BY <3>1 DEF Inv
    <3>3. Sole'
      BY <1>1, <2>2, <2>3, <3>2, SoleNext DEF Inv
    <3>4. Running'
      BY <1>1, <2>2, <2>3, <3>2, RunningNext DEF Inv
    <3>5. Turn' /\ ~lost' /\ ~struck'
      BY <1>1, <2>2, <2>3, <3>2, TurnNext DEF Inv
    <3>6. QED
      BY <3>3, <3>4, <3>5 DEF Alone
  <2>4. QED
    BY <2>1, <2>2, <2>3 DEF Inv
<1>2. CASE UNCHANGED vars
  <2> USE <1>2 DEF vars, files, claude
  <2>1. Typed'
    BY DEF Inv, Typed
  <2>2. Always'
    BY DEF Inv, Always, IdleIsNone, DownIsEmpty, WindowIsUp, TabInWindow, OwedIsCut,
      ClosingIsAsked, MarkedIsHanded, OffIsNew, RunsOnceBegun, EndedOrHung, Idle, Is, Late
  <2>3. Sole <=> Sole'
    BY DEF Sole, OneHolds, TakesForIt, HandingAlone, MarkedAlone, WindowTakes, StartsAlone,
      StartsInWindow, Holds, Starting, Leaving, Late, Past, Does, Is, Idle
  <2>4. Running <=> Running'
    BY DEF Running, GoneIsStopped, HoldsFile, FoundIt, TabBesideGone, OneRuns, HoldsIt,
      HandedIsStopped, HandedTakes, WindowTakesIt, StopsAlone, Stopped, Late, Does, Is
  <2>5. Turn <=> Turn'
    BY DEF Turn, BusyWithIt, Reruns, StarterGoesOn, SomeoneHas, HandingHas, Starting, Leaving,
      Late, Does, Is, Idle
  <2>6. QED
    BY <2>1, <2>2, <2>3, <2>4, <2>5 DEF Inv, Alone
<1>3. QED
  BY <1>1, <1>2

(* Of two claudes that run, one was told to end.                            *)
LEMMA OneGoesOn ==
  ASSUME Typed, RunsOnceBegun, OneRuns, TabBesideGone, GoneIsStopped,
         NEW a \in runs \ Ending, NEW b \in runs \ Ending
  PROVE  a = b
<1>1. \A t \in Terminals : t \in runs /\ Is(t, {"gone"}) => t \in Ending
  BY DEF GoneIsStopped, Stopped, Ending, Typed
<1>2. CASE a \in Terminals /\ b \in Terminals
  BY <1>2 DEF OneRuns
<1>3. CASE a = Tab \/ b = Tab
  BY <1>1, <1>3 DEF TabBesideGone, Typed
<1>4. QED
  BY <1>2, <1>3 DEF Typed

LEMMA InvSafe == Inv => SessionSafe
<1> SUFFICES ASSUME Inv, ~crossed PROVE SessionSafe
  BY DEF SessionSafe, OneClaude, TurnGoesOn, ContainerKept
<1>1. Cardinality(runs \ Ending) <= 1
  <2> DEFINE S == runs \ Ending
  <2>1. \A a, b \in S : a = b
    BY OneGoesOn DEF Inv, Alone, Always, Running
  <2>2. CASE S = {}
    BY <2>2, FS_EmptySet
  <2>3. CASE S # {}
    <3>1. PICK a \in S : S = {a}
      BY <2>1, <2>3
    <3>2. Cardinality({a}) = 1
      BY FS_Singleton
    <3>3. Cardinality(S) = 1
      BY <3>1, <3>2, Zenon
    <3>4. QED
      BY <3>3
  <2>4. QED
    BY <2>2, <2>3
<1>2. ~lost /\ ~struck
  BY DEF Inv, Alone
<1>3. QED
  BY <1>1, <1>2 DEF SessionSafe, OneClaude, TurnGoesOn, ContainerKept

(* Whoever takes the session from whom (agent-terminal.py,                  *)
(* agent-takeover.py, extension.js), one claude runs it, the turn that a    *)
(* takeover cut goes on in the next one, and no terminal stops a container  *)
(* that others use; unless two took it at once.                             *)
THEOREM OneClaudeGoesOn == Spec => []SessionSafe
<1>1. Spec => []Inv
  BY InitInv, InvNext, PTL DEF Spec
<1>2. QED
  BY <1>1, InvSafe, PTL
=============================================================================
