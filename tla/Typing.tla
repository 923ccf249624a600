------------------------------- MODULE Typing -------------------------------
(***************************************************************************)
(* How a line left for the agent of a bundle reaches its claude: typed by  *)
(* its terminal (the Waker and copy_tty of agent-terminal.py), typed on    *)
(* its worker by the daemon (tell_remote_agents, press_remote_enter), or   *)
(* given as context by a hook (client/prwatch.py, client/agent-stop.py).   *)
(* All take from the same folders, while Seb types in the terminal, turns  *)
(* begin and end, dialogs open, deck stops a turn, and sessions end.       *)
(*                                                                         *)
(* A look at the status of the session and the key it allows, both of one  *)
(* thread, are one step; the text and its Enter are two, and so are what   *)
(* the daemon or a hook takes and what it does with it.  Left out: the     *)
(* usage limit (is_resuming), GO_ON after an API error, the checks of what *)
(* a line holds, terminals older than TOLD_SINCE.                          *)
(***************************************************************************)
EXTENDS Integers, FiniteSets

CONSTANTS
  HostLines,    (* lines of the host: told/, a task for a session that runs *)
  PrLines,      (* lines prwatch.py leaves in pr-events/                    *)
  PostedLines,  (* lines of pr-posted.py, which may wait in pr-events/ too  *)
  Prompts,      (* prompts of deck                                          *)
  Tasks,        (* what the daemon leaves as task.md, with no run.lock      *)
  MaxLines,     (* bound: lines left                                        *)
  MaxActs       (* bound: sessions, drafts, stops, dialogs and faults       *)

ASSUME ConstantsAssumption ==
  /\ IsFiniteSet(HostLines \cup PrLines \cup PostedLines \cup Prompts \cup Tasks)
  /\ MaxLines \in Nat /\ MaxActs \in Nat

VARIABLES
  place,     (* where the agent runs: "here" in a terminal, "worker"        *)
  at,        (* the folder of each line: "told" of this session, "earlier"  *)
             (* of one before, "events", "prompts", "task"; "none" once     *)
             (* taken or dropped                                            *)
  hook,      (* lines a hook took and gives                                 *)
  daemon,    (* lines the daemon took and types                             *)
  forOld,    (* it took them for a session that ended since                 *)
  prompt,    (* lines in the prompt of claude, without their Enter          *)
  enters,    (* Enters to come: enter_at, or the jobs of press_remote_enter *)
  got,       (* how many times the agent got each line                      *)
  again,     (* how many times a call that said it failed typed a line      *)
  lost,      (* lines that went with a process or a session                 *)
  status,    (* the record of the session of claude                         *)
  seb,       (* Seb's own keys in the prompt of claude                      *)
  draft,     (* Waker.draft                                                 *)
  answered,  (* an Enter not Seb's answered a dialog                        *)
  stop,      (* the file `stop` of deck                                     *)
  asked,     (* requests of deck that read remote_stops as old              *)
  escaped,   (* since the last Escape: "near" under STOP_GAP, "recent"      *)
             (* under STOP_TIME, "long"                                     *)
  blind,     (* what limits the Escapes does not know of one: "restart" of  *)
             (* the daemon since, "twice" asked at once; else "no"          *)
  down,      (* the link to the worker                                      *)
  acts

folders == <<at, hook, daemon, forOld, got, again, lost>>
keys == <<prompt, enters>>
user == <<seb, draft, answered>>
escapes == <<stop, asked, escaped, blind>>
vars == <<place, folders, keys, status, user, escapes, down, acts>>

Lines == HostLines \cup PrLines \cup PostedLines \cup Prompts \cup Tasks
In(folder) == {l \in Lines : at[l] = folder}
Took(lines) == [l \in Lines |-> IF l \in lines THEN "none" ELSE at[l]]
Got(lines) == [l \in Lines |-> IF l \in lines THEN got[l] + 1 ELSE got[l]]

(* get_told: the lines of the session, then those of earlier ones; before   *)
(* 2026-10-30, its mutant, the lines of an ended session stayed.            *)
GetToldOwn == In("told")
GetTold == In("told") \cup In("earlier")

Acts == acts < MaxActs /\ acts' = acts + 1

Init ==
  /\ place \in {"here", "worker"}
  /\ at = [l \in Lines |-> "new"] /\ hook = {} /\ daemon = {} /\ forOld = FALSE
  /\ prompt = {} /\ enters = 0
  /\ got = [l \in Lines |-> 0] /\ again = [l \in Lines |-> 0] /\ lost = {}
  /\ status = "busy" /\ seb = FALSE /\ draft = FALSE /\ answered = FALSE
  /\ stop = "none" /\ asked = 0 /\ escaped = "long" /\ blind = "no"
  /\ down = FALSE
  /\ acts = 0
-----------------------------------------------------------------------------
(* prompt_window: a prompt of deck, for the terminal here or the worker.    *)
PromptFolder == IF place = "here" THEN "prompts" ELSE "told"

(* leave_told, prwatch.leave, pr-posted.py, hand_to_terminal.               *)
Folder(l) ==
  IF l \in HostLines THEN {"told"}
  ELSE IF l \in PrLines THEN {"events"}
  ELSE IF l \in PostedLines THEN {"told", "events"}
  ELSE IF l \in Tasks THEN IF place = "here" THEN {"task"} ELSE {}
  ELSE {PromptFolder}

Leave(l) ==
  /\ at[l] = "new" /\ Cardinality(Lines \ In("new")) < MaxLines
  /\ \E f \in Folder(l) : at' = [at EXCEPT ![l] = f]
  /\ UNCHANGED <<place, hook, daemon, forOld, got, again, lost, keys, status, user, escapes, down, acts>>

(* take() by a hook of a session here, or by its Stop hook, which then      *)
(* keeps the turn going: each line by one rename.  Its mutant reads the     *)
(* line first, and removes it once given.                                   *)
HookReads(l) == hook' = hook \cup {l} /\ UNCHANGED at
HookClaims(l) == hook' = hook \cup {l} /\ at' = Took({l})
HookTakes(l) ==
  /\ place = "here" /\ status = "busy" /\ l \notin hook /\ at[l] = "events"
  /\ HookClaims(l)
  /\ UNCHANGED <<place, daemon, forOld, got, again, lost, keys, status, user, escapes, down, acts>>

HookGives ==
  /\ hook # {} /\ hook' = {}
  /\ got' = Got(hook) /\ at' = Took(hook)
  /\ UNCHANGED <<place, daemon, forOld, again, lost, keys, status, user, escapes, down, acts>>

(* An end of the hook (an Escape, its timeout): `.NAME.taken` stays.        *)
HookDies ==
  /\ Acts
  /\ hook # {} /\ hook' = {} /\ lost' = lost \cup hook
  /\ UNCHANGED <<place, at, daemon, forOld, got, again, keys, status, user, escapes, down>>
-----------------------------------------------------------------------------
(* The Waker: Enter first, then a stop, then what waits.                    *)
Ready == status # "waiting"
Free == place = "here" /\ enters = 0 /\ ~draft /\ escaped # "near"

Types(lines, dropped) ==
  /\ at' = Took(lines \cup dropped)
  /\ prompt' = prompt \cup lines
  /\ enters' = IF lines = {} THEN enters ELSE enters + 1
  /\ lost' = lost \cup dropped
  /\ UNCHANGED <<place, hook, daemon, forOld, got, again, status, user, escapes, down, acts>>

TakeTask(l) ==
  /\ Free /\ stop = "none" /\ status = "idle" /\ at[l] = "task"
  /\ Types({l}, {})

HasTask == status = "idle" /\ In("task") # {}

(* A prompt that waited an hour is dropped as it is taken.                  *)
TakePrompts(old) ==
  /\ Free /\ stop = "none" /\ Ready /\ ~HasTask /\ In("prompts") # {}
  /\ Types(In("prompts") \ old, old)

(* The lines of the host, and those of pr-events/ that prwatch.py wrote.    *)
TakeEvents ==
  /\ Free /\ stop = "none" /\ Ready /\ ~HasTask /\ In("prompts") = {}
  /\ GetTold \cup In("events") # {}
  /\ Types(GetTold \cup (In("events") \ PostedLines), In("events") \cap PostedLines)

(* What an Enter does: the prompt of claude goes with it, whoever typed it, *)
(* or a dialog takes its first answer.                                      *)
EnterReaches ==
  IF status = "waiting"
  THEN status' = "busy" /\ answered' = TRUE /\ UNCHANGED <<prompt, got, seb>>
  ELSE /\ prompt' = {} /\ got' = Got(prompt)
       /\ status' = IF prompt = {} /\ ~seb THEN status ELSE "busy"
       /\ seb' = FALSE
       /\ UNCHANGED answered
EnterStays == UNCHANGED <<prompt, got, status, seb, answered>>

(* may_enter, and its mutant for none.                                      *)
MayEnterAlways == TRUE
MayEnter == status # "waiting"

TerminalEnters ==
  /\ place = "here" /\ enters > 0 /\ enters' = enters - 1
  /\ IF MayEnter THEN EnterReaches ELSE EnterStays
  /\ UNCHANGED <<place, at, hook, daemon, forOld, again, lost, draft, escapes, down, acts>>

(* Escape ends a turn, or closes a dialog.                                  *)
Escapes ==
  /\ status' \in IF status = "busy" THEN {"idle"} ELSE {"idle", "busy"}
  /\ escaped' = "near"

(* The last Escape is STOP_TIME or REMOTE_STOP_GAP old, or not known of; or *)
(* its mutant, for none to wait.                                            *)
LastIsOldAlways == TRUE
LastIsOld == escaped = "long" \/ blind = "restart"

TakeStop ==
  /\ place = "here" /\ enters = 0 /\ stop # "none" /\ stop' = "none"
  /\ IF stop = "fresh" /\ LastIsOld /\ status \in {"busy", "waiting"} THEN Escapes ELSE UNCHANGED <<status, escaped>>
  /\ UNCHANGED <<place, folders, keys, user, asked, blind, down, acts>>

(* Seb at the terminal: keys, and the Enter that sends the prompt.  A slash *)
(* command may leave a menu open, until his next Enter.                     *)
SebTypes ==
  /\ place = "here" /\ Acts /\ status # "waiting"
  /\ seb' = TRUE /\ draft' = TRUE
  /\ UNCHANGED <<place, folders, keys, status, answered, escapes, down>>

SebEnters(slash) ==
  /\ place = "here" /\ (draft \/ prompt # {}) /\ status # "waiting"
  /\ prompt' = {} /\ got' = Got(prompt)
  /\ seb' = FALSE /\ draft' = (slash /\ seb)
  /\ status' = IF prompt # {} \/ (seb /\ ~slash) THEN "busy" ELSE status
  /\ UNCHANGED <<place, at, hook, daemon, forOld, again, lost, enters, answered, escapes, down, acts>>

-----------------------------------------------------------------------------
(* The daemon: what waits for an agent on a worker.                         *)
DaemonTakes ==
  /\ place = "worker" /\ daemon = {} /\ ~down /\ Ready
  /\ GetTold \cup (In("events") \ PostedLines) # {}
  /\ daemon' = GetTold \cup (In("events") \ PostedLines)
  /\ at' = Took(GetTold \cup (In("events") \ PostedLines)) /\ forOld' = FALSE
  /\ UNCHANGED <<place, hook, got, again, lost, keys, status, user, escapes, down, acts>>

(* type_keys: typed, or an error, after which the lines are left again, for *)
(* the session they were taken for; the keys of a call that failed may have *)
(* been typed all the same.  The mutant leaves none.                        *)
NotLeft == at
LeftAgain ==
  [l \in Lines |-> IF l \notin daemon THEN at[l] ELSE IF forOld THEN "earlier" ELSE "told"]

DaemonTypes ==
  /\ daemon # {} /\ place = "worker" /\ daemon' = {}
  /\ prompt' = prompt \cup daemon /\ enters' = enters + 1
  /\ UNCHANGED <<place, at, hook, forOld, got, again, lost, status, user, escapes, down, acts>>

DaemonTypeFails(typed) ==
  /\ daemon # {} /\ daemon' = {}
  /\ down \/ place # "worker" \/ typed
  /\ at' = LeftAgain
  /\ IF typed
     THEN /\ Acts
          /\ place = "worker"
          /\ prompt' = prompt \cup daemon /\ again' = [l \in Lines |-> IF l \in daemon THEN again[l] + 1 ELSE again[l]]
     ELSE UNCHANGED <<acts, prompt, again>>
  /\ UNCHANGED <<place, hook, forOld, got, lost, enters, status, user, escapes, down>>

(* press_remote_enter.                                                      *)
DaemonEnters ==
  /\ place = "worker" /\ enters > 0 /\ enters' = enters - 1
  /\ IF MayEnter /\ ~down THEN EnterReaches ELSE EnterStays
  /\ UNCHANGED <<place, at, hook, daemon, forOld, again, lost, draft, escapes, down, acts>>

(* stop_window: `stop` for a terminal, else stop_remote, which reads its    *)
(* last Escape, then the status, and keeps no lock between.                 *)
LeaveStop ==
  /\ place = "here" /\ Acts
  /\ stop' = "fresh"
  /\ UNCHANGED <<place, folders, keys, status, user, asked, escaped, blind, down>>

AskStop ==
  /\ place = "worker" /\ ~down /\ Acts
  /\ IF LastIsOld
     THEN asked' = asked + 1 /\ blind' = IF asked > 0 /\ blind = "no" THEN "twice" ELSE blind
     ELSE UNCHANGED <<asked, blind>>
  /\ UNCHANGED <<place, folders, keys, status, user, stop, escaped, down>>

StopRemote ==
  /\ asked > 0 /\ asked' = asked - 1
  /\ IF place = "worker" /\ status \in {"busy", "waiting"}
     THEN Escapes /\ blind' = IF asked > 1 THEN "twice" ELSE "no"
     ELSE UNCHANGED <<status, escaped, blind>>
  /\ UNCHANGED <<place, folders, keys, user, stop, down, acts>>

(* The daemon restarts: what it took is gone, its jobs too, remote_stops.   *)
DaemonDies ==
  /\ Acts /\ place = "worker"
  /\ lost' = lost \cup daemon /\ daemon' = {}
  /\ enters' = 0 /\ asked' = 0 /\ blind' = IF escaped # "long" THEN "restart" ELSE "no"
  /\ UNCHANGED <<place, at, hook, forOld, got, again, prompt, status, user, stop, escaped, down>>

Link ==
  /\ place = "worker" /\ down' = ~down
  /\ UNCHANGED <<place, folders, keys, status, user, escapes, acts>>
-----------------------------------------------------------------------------
(* claude: a turn ends once its Stop hook finds no line (agent-stop.py), or *)
(* opens a dialog, which Seb answers; a background command ends.            *)
TurnEnds ==
  /\ status = "busy" /\ hook = {}
  /\ place = "here" => In("events") = {}
  /\ status' \in {"idle", "shell"}
  /\ UNCHANGED <<place, folders, keys, user, escapes, down, acts>>

DialogOpens ==
  /\ status = "busy" /\ Acts
  /\ status' = "waiting"
  /\ UNCHANGED <<place, folders, keys, user, escapes, down>>

DialogCloses ==
  /\ status = "waiting" /\ status' = "busy"
  /\ UNCHANGED <<place, folders, keys, user, escapes, down, acts>>

ShellEnds ==
  /\ status = "shell" /\ status' \in {"idle", "busy"}
  /\ UNCHANGED <<place, folders, keys, user, escapes, down, acts>>

(* The session ends, and the next one of the bundle starts, anywhere: its   *)
(* prompt goes with it, and the prompts of deck for it wait for no one.  A  *)
(* job on a worker starts later than REMOTE_ENTER_AFTER.                    *)
NextSession ==
  /\ Acts
  /\ hook = {} /\ (place = "worker" => enters = 0) /\ place' \in {"here", "worker"}
  /\ at' = [l \in Lines |-> CASE at[l] = "told" -> "earlier"
                              [] at[l] = "prompts" -> "none"
                              [] at[l] = "task" -> "none"
                              [] OTHER -> at[l]]
  /\ lost' = lost \cup prompt \cup In("prompts") \cup In("task")
  /\ prompt' = {} /\ enters' = 0 /\ forOld' = TRUE
  /\ status' = "busy" /\ seb' = FALSE /\ draft' = FALSE
  /\ stop' = "none" /\ escaped' = "long" /\ blind' = "no" /\ down' = FALSE
  /\ UNCHANGED <<hook, daemon, got, again, answered, asked>>

Time ==
  /\ \/ /\ escaped = "near" /\ escaped' = "recent" /\ UNCHANGED <<stop, blind>>
     \/ /\ escaped = "recent" /\ escaped' = "long"
        /\ blind' = (IF asked > 0 THEN blind ELSE "no") /\ UNCHANGED stop
     \/ /\ stop = "fresh" /\ stop' = "old" /\ UNCHANGED <<escaped, blind>>
  /\ UNCHANGED <<place, folders, keys, status, user, asked, down, acts>>

WakerTakes ==
  \/ \E l \in Tasks : TakeTask(l)
  \/ \E old \in SUBSET In("prompts") : TakePrompts(old)
  \/ TakeEvents

Next ==
  \/ \E l \in Lines : Leave(l) \/ HookTakes(l)
  \/ HookGives \/ HookDies \/ WakerTakes \/ TerminalEnters \/ TakeStop
  \/ SebTypes \/ (\E slash \in BOOLEAN : SebEnters(slash))
  \/ DaemonTakes \/ DaemonTypes \/ (\E typed \in BOOLEAN : DaemonTypeFails(typed))
  \/ DaemonEnters \/ LeaveStop \/ AskStop \/ StopRemote \/ DaemonDies \/ Link
  \/ TurnEnds \/ DialogOpens \/ DialogCloses \/ ShellEnds \/ NextSession \/ Time

(* The terminal looks each EVENTS_EVERY, the daemon each second; a hook     *)
(* ends; time passes.  No turn need end, and Seb need do nothing.           *)
Fairness ==
  /\ WF_vars(WakerTakes) /\ WF_vars(TerminalEnters) /\ WF_vars(TakeStop)
  /\ WF_vars(DaemonTakes) /\ WF_vars(DaemonTypes) /\ WF_vars(DaemonTypeFails(FALSE))
  /\ WF_vars(DaemonEnters) /\ WF_vars(HookGives) /\ WF_vars(Time)

Spec == Init /\ [][Next]_vars /\ Fairness
-----------------------------------------------------------------------------
(* A line reaches the agent once, whoever took it (prwatch.take), but one   *)
(* typed by a call that said it failed.                                     *)
GivenOnce == \A l \in Lines : got[l] <= 1 + again[l]

(* A line that was left waits in a folder, is in the hands of one taker, is *)
(* in the prompt, was given, or went with a process, a session or a check:  *)
(* a call that did not type it leaves it again.                             *)
NoneVanishes ==
  \A l \in Lines :
    at[l] = "none" => l \in hook \cup daemon \cup prompt \cup lost \/ got[l] > 0

(* No Enter but Seb's answers a dialog, which may open between a text and   *)
(* its Enter (may_enter, press_remote_enter).                               *)
NoDialogAnswered == ~answered

(* Two Escapes are STOP_TIME or more apart, as a second one opens the       *)
(* rewind of claude, unless the daemon restarted or was asked twice at once.*)
EscapesApart ==
  [][(TakeStop \/ StopRemote) /\ status' # status => escaped = "long" \/ blind # "no"]_vars

(* A line of the host is taken for whoever runs the bundle, when no dialog, *)
(* no draft and no link that is down stands before it for good: a line left *)
(* for a session that ended too (get_told).                                 *)
LinesGo ==
  (<>[](~draft /\ ~down /\ status # "waiting")) =>
    []<>(\A l \in HostLines : at[l] \notin {"told", "earlier"} /\ l \notin hook \cup daemon)


(* Each line left for an agent is given, once.                              *)
LinesKept == GivenOnce /\ NoneVanishes

(* No key the terminal or the daemon types does what Seb did not ask.       *)
KeysRight == []NoDialogAnswered /\ EscapesApart
=============================================================================
