----------------------------- MODULE CutSession -----------------------------
(***************************************************************************)
(* A Claude session of the ops container that a crash or a restart cut     *)
(* (bundle-ctl/cut.py; daemon.py, "Cut sessions"): the transcript its      *)
(* claude writes, what the daemon reads in the end of it, and Seb's yes to *)
(* its resume, which closes the window where the claude ended, opens       *)
(* another on the session and moves the lines of hok left for it.          *)
(*                                                                         *)
(* A line of the transcript is <<its kind, the background command>>.  Left *)
(* out: the 3 days, a `claude -p` run, the titles, a bundle's session      *)
(* (resume_bundle: AgentQueue).                                            *)
(***************************************************************************)
EXTENDS Integers, Sequences, FiniteSetsExt

CONSTANTS
  Commands, Told,        (* background commands; lines of hok               *)
  TailLines,             (* TAIL, in lines                                  *)
  MaxLines,              (* bound: lines of the transcript                  *)
  MaxFaults              (* bound: crashes and restarts                     *)

VARIABLES
  lines,                 (* the transcript                                  *)
  turn,                  (* how far its last turn really is                 *)
  live, died, stale,     (* commands that run, those that died with the     *)
                         (* last claude, and with one before it             *)
  claude, record,        (* "none", "tab" or "window", with its record      *)
  window, closing,       (* "none", "dead" or "up"; SIGUSR1 was sent to it  *)
  folder, events,        (* the agent folder of the window, pr-events/      *)
  card, yes, opens,      (* the request, the thread of the yes, its job     *)
  byHand,                (* the job of `bctl open ops-SESSION --terminal`   *)
  left, typed, excused,  (* lines left for the session, those typed, and    *)
                         (* those that may be lost                          *)
  since, two,            (* someone took the session since the yes looked;  *)
                         (* the yes ran a second claude where no one had    *)
  faults

session == <<lines, turn, live, died, stale, claude, record>>
windows == <<window, closing, folder, events>>
daemon == <<card, yes, opens, byHand>>
ghosts == <<left, typed, excused, since, two>>
vars == <<session, windows, daemon, ghosts, faults>>

Nothing == [step |-> "none", told |-> {}]

Init ==
  /\ lines = <<>> /\ turn = "rest" /\ live = {} /\ died = {} /\ stale = {}
  /\ claude \in {"tab", "window"} /\ record = TRUE
  /\ window = (IF claude = "window" THEN "up" ELSE "none") /\ closing = FALSE
  /\ folder = (claude = "window") /\ events = {}
  /\ card = FALSE /\ yes = Nothing /\ opens = Nothing /\ byHand = FALSE
  /\ left = {} /\ typed = {} /\ excused = {} /\ since = FALSE /\ two = FALSE
  /\ faults = 0
-----------------------------------------------------------------------------
(* What the daemon reads (parse, read_session, get_cut).                    *)
Locals == {"local"}

(* Where the messages of a part are.  Mutant: a command of Seb's such as    *)
(* /model counts.                                                           *)
MessagesAll(part) == DOMAIN part
Messages(part) == {i \in DOMAIN part : part[i][1] \notin Locals}

TailOf(size) == SubSeq(lines, Len(lines) - size + 1, Len(lines))

(* A tail that holds no message is read again four times longer.            *)
ReadTail(size) ==
  LET longer == {n \in 1..Len(lines) : \E k \in 0..Len(lines) : n = size * 4^k}
      show == {n \in longer : Messages(TailOf(n)) # {}}
  IN IF show = {} THEN lines ELSE TailOf(Min(show))

Of(part, kinds) == {part[i][2] : i \in {j \in DOMAIN part : part[j][1] \in kinds}}
Background(part) == Of(part, {"start"}) \ Of(part, {"note", "stop"})

GetCut(part) ==
  LET said == Messages(part) IN
  /\ said # {}
  /\ LET last == part[Max(said)][1]
     IN \/ last \in {"call", "stop", "error", "prompt", "result", "start", "note"}
        \/ last = "short" /\ Background(part) # {}

(* get_live_sessions: a claude counts once its record is there.             *)
IsLive == claude # "none" /\ record

(* Mutant of IsCut: the transcript alone.                                   *)
IsCutAlone == GetCut(ReadTail(TailLines))
IsCut == ~IsLive /\ GetCut(ReadTail(TailLines))
-----------------------------------------------------------------------------
(* The claude of the session.                                               *)
Adds(kind, command) ==
  /\ claude # "none" /\ Len(lines) < MaxLines
  /\ lines' = Append(lines, <<kind, command>>)

Write(kind, command, next) ==
  /\ Adds(kind, command) /\ turn' = next
  /\ UNCHANGED <<died, stale, claude, record, windows, daemon, ghosts, faults>>

Prompts == Write("prompt", 0, "busy") /\ UNCHANGED live
Calls == turn = "busy" /\ Write("call", 0, "busy") /\ UNCHANGED live
GetsResult == turn = "busy" /\ Write("result", 0, "busy") /\ UNCHANGED live
Local == Write("local", 0, turn) /\ UNCHANGED live
Interrupts == turn = "busy" /\ Write("interrupted", 0, "rest") /\ UNCHANGED live

StartsCommand(c) ==
  /\ turn = "busy" /\ c \notin Of(lines, {"start"})
  /\ Write("start", c, "busy") /\ live' = live \cup {c}

StopsCommand(c) ==
  turn = "busy" /\ c \in live /\ Write("stop", c, "busy") /\ live' = live \ {c}

CommandEnds(c) ==
  c \in live /\ Write("note", c, "busy") /\ live' = live \ {c}

Answers(kind) ==
  turn = "busy" /\ Write(kind, 0, IF kind = "report" THEN "rest" ELSE kind) /\ UNCHANGED live

Registers ==
  /\ claude # "none" /\ ~record /\ record' = TRUE
  /\ UNCHANGED <<lines, turn, live, died, stale, claude, windows, daemon, ghosts, faults>>

ClaudeEnds ==
  /\ claude' = "none" /\ record' = FALSE
  /\ stale' = stale \cup died /\ died' = live /\ live' = {}

(* The container goes down: code 137 keeps the window open.                 *)
Crash ==
  /\ claude # "none" /\ faults < MaxFaults /\ faults' = faults + 1
  /\ ClaudeEnds /\ window' = (IF window = "up" THEN "dead" ELSE window)
  /\ UNCHANGED <<lines, turn, closing, folder, events, daemon, ghosts>>

(* Seb closes the tab, or the window and what is in its folder.             *)
ClosesTab ==
  /\ claude = "tab" /\ ClaudeEnds
  /\ UNCHANGED <<lines, turn, windows, daemon, ghosts, faults>>

WindowGone ==
  /\ window' = "none" /\ closing' = FALSE /\ folder' = FALSE /\ events' = {}

ClosesWindow ==
  /\ window # "none" /\ ~closing /\ WindowGone
  /\ IF window = "up" THEN ClaudeEnds ELSE UNCHANGED <<live, died, stale, claude, record>>
  /\ excused' = excused \cup events
  /\ UNCHANGED <<lines, turn, daemon, left, typed, since, two, faults>>

(* Someone takes the session meanwhile.                                     *)
Since == since' = (since \/ yes # Nothing \/ opens # Nothing)

OpensTab ==
  /\ claude = "none" /\ window # "up" /\ claude' = "tab" /\ record' = FALSE /\ Since
  /\ UNCHANGED <<lines, turn, live, died, stale, windows, daemon, left, typed, excused, two, faults>>

(* tell: a line of hok, while the window or its folder is there.            *)
Tell(l) ==
  /\ l \notin left /\ (window = "up" \/ folder)
  /\ left' = left \cup {l} /\ events' = events \cup {l} /\ folder' = TRUE
  /\ excused' = IF yes.step \in {"close", "wait"} \/ closing THEN excused \cup {l} ELSE excused
  /\ UNCHANGED <<session, window, closing, daemon, typed, since, two, faults>>

(* The Waker of the window types them once its turn ended.                  *)
Types ==
  /\ window = "up" /\ claude = "window" /\ record /\ events # {} /\ turn # "busy"
  /\ typed' = typed \cup events /\ events' = {}
  /\ Adds("prompt", 0) /\ turn' = "busy"
  /\ UNCHANGED <<live, died, stale, claude, record, window, closing, folder, daemon, left, excused, since, two, faults>>
-----------------------------------------------------------------------------
(* hold_cut, and Seb's yes to it (resume_cut, resume_ops).                  *)
Hold ==
  /\ ~card /\ yes = Nothing /\ opens = Nothing /\ Len(lines) < MaxLines
  /\ IsCut /\ card' = TRUE
  /\ UNCHANGED <<session, windows, yes, opens, byHand, ghosts, faults>>

(* Left as it is: it runs again, or its turn ended since.                   *)
Yes ==
  /\ card /\ card' = FALSE
  /\ IF IsCut /\ window # "up"
     THEN yes' = [step |-> "read", told |-> {}] /\ since' = (byHand \/ (claude # "none" /\ ~record))
     ELSE UNCHANGED <<yes, since>>
  /\ UNCHANGED <<session, windows, opens, byHand, left, typed, excused, two, faults>>

ReadsTold ==
  /\ yes.step = "read" /\ yes' = [step |-> "close", told |-> events]
  /\ UNCHANGED <<session, windows, card, opens, byHand, ghosts, faults>>

(* close_dead_window, and the job once it closed.                           *)
SendsClose ==
  /\ yes.step = "close" /\ window = "dead" /\ closing' = TRUE
  /\ yes' = [yes EXCEPT !.step = "wait"]
  /\ UNCHANGED <<session, window, folder, events, card, opens, byHand, ghosts, faults>>

WindowEnds ==
  /\ window = "dead" /\ closing /\ WindowGone
  /\ UNCHANGED <<session, daemon, ghosts, faults>>

(* The window stays open: the session is left as it is.                     *)
Refuses ==
  /\ yes.step = "wait" /\ window # "none" /\ yes' = Nothing
  /\ excused' = excused \cup yes.told \cup events
  /\ UNCHANGED <<session, windows, card, opens, byHand, left, typed, since, two, faults>>

StartsJob ==
  /\ (yes.step = "close" /\ window # "dead") \/ (yes.step = "wait" /\ window = "none")
  /\ opens' = [step |-> "open", told |-> yes.told] /\ yes' = Nothing
  /\ UNCHANGED <<session, windows, card, byHand, ghosts, faults>>

(* The new window, its claude told to go on: on the task, or on a cut turn. *)
OpensWindow(told, task) ==
  /\ window' = "up" /\ claude' = "window" /\ record' = FALSE
  /\ folder' = (folder \/ task) /\ events' = events \cup told
  /\ IF task \/ turn = "busy"
     THEN lines' = Append(lines, <<"prompt", 0>>) /\ turn' = "busy"
     ELSE UNCHANGED <<lines, turn>>
  /\ UNCHANGED <<live, died, stale, closing, card, yes, left, typed, excused, faults>>

(* Mutant of Moved: the lines read once the window closed.                  *)
MovedLate == {}
Moved == opens.told

RunsJob ==
  /\ opens.step = "open" /\ OpensWindow(Moved, TRUE) /\ opens' = Nothing
  /\ two' = (two \/ (claude # "none" /\ ~since))
  /\ UNCHANGED <<byHand, since>>

(* open_ops by hand: check_ops_session, then its job.                       *)
AsksByHand ==
  /\ ~byHand /\ window = "none" /\ Len(lines) < MaxLines /\ byHand' = TRUE /\ Since
  /\ UNCHANGED <<session, windows, card, yes, opens, left, typed, excused, two, faults>>

RunsByHand ==
  /\ byHand /\ OpensWindow({}, FALSE) /\ byHand' = FALSE /\ Since
  /\ UNCHANGED <<opens, two>>

(* A restart of the daemon drops the thread and the jobs.                   *)
Restart ==
  /\ faults < MaxFaults /\ faults' = faults + 1
  /\ yes' = Nothing /\ opens' = Nothing /\ byHand' = FALSE
  /\ excused' = excused \cup yes.told \cup opens.told \cup (IF closing THEN events ELSE {})
  /\ UNCHANGED <<session, windows, card, left, typed, since, two>>
-----------------------------------------------------------------------------
Threads == ReadsTold \/ SendsClose \/ WindowEnds \/ StartsJob \/ RunsJob

Next ==
  \/ Prompts \/ Calls \/ GetsResult \/ Local \/ Interrupts \/ Registers
  \/ \E c \in Commands : StartsCommand(c) \/ StopsCommand(c) \/ CommandEnds(c)
  \/ \E kind \in {"report", "short", "error"} : Answers(kind)
  \/ Crash \/ ClosesTab \/ ClosesWindow \/ OpensTab
  \/ \E l \in Told : Tell(l)
  \/ Types \/ Hold \/ Yes \/ Refuses \/ AsksByHand \/ RunsByHand \/ Restart
  \/ Threads

Spec == Init /\ [][Next]_vars /\ WF_vars(Threads)
-----------------------------------------------------------------------------
(* Whether the last turn of the session really had not ended.               *)
NotEnded == turn \in {"busy", "error"} \/ (turn = "short" /\ died # {})

(* The tail shows the start of each command that died with the last claude, *)
(* and no command died with one before it.                                  *)
Shown == stale = {} /\ died \subseteq Of(ReadTail(TailLines), {"start"})

(* A session no claude runs is found cut when its last turn had not ended,  *)
(* and only then (cut.py:3).  Of a turn that ended on a short answer, where *)
(* the tail shows the commands it waited for.                               *)
CutIsFound ==
  claude = "none" /\ (turn = "short" => Shown) => (GetCut(ReadTail(TailLines)) <=> NotEnded)

(* The yes runs no second claude on the session, but where someone took it  *)
(* since the look of that yes (resume_cut).                                 *)
NoSecondClaude == ~two

(* A line of hok left for the session is typed, waits in the folder of its  *)
(* window, or is on its way to the new one: it goes only with a window Seb  *)
(* closes, a restart, or when it came while the yes closed the old window   *)
(* (resume_ops).                                                            *)
LinesStay == left \subseteq events \cup typed \cup yes.told \cup opens.told \cup excused

(* A cut session goes on, in one claude and with its lines.                 *)
CutRight == CutIsFound /\ NoSecondClaude /\ LinesStay
=============================================================================
