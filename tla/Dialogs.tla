------------------------------ MODULE Dialogs -------------------------------
(***************************************************************************)
(* The question a remote agent waits on, as a card of hok (ask_dialogs and *)
(* send_dialog, bundle-ctl/daemon.py).  A pass reads the dialog and its    *)
(* note, then holds a card, drops it or sends Escape again; the answer of  *)
(* Seb runs in a thread of gateway-core, under its lock, which the pass    *)
(* takes only to drop.  Seb may answer in the terminal of the agent too.   *)
(*                                                                         *)
(* One agent.  gateway-core is not in this repository: `Add` and the ends  *)
(* of an answer are what daemon.py says of them, and a card with the key   *)
(* of one that waits takes its name, with the words of either.             *)
(***************************************************************************)
EXTENDS Integers, Sequences

CONSTANTS
  MaxDialogs,    (* bound: dialogs the agent opens                          *)
  Questions,     (* questions of each dialog                                *)
  MaxFaults      (* bound: losses of the link, restarts, stale mirrors      *)

VARIABLES
  asks,      (* the dialog the claude waits on; 0: none                     *)
  opened,    (* dialogs opened so far                                       *)
  mirror,    (* the dialog the records here show                            *)
  away,      (* the agent is on its worker                                  *)
  down,      (* its link is down                                            *)
  keys,      (* Escapes on their way: the dialog they are for               *)
  note,      (* dialogs/BUNDLE.json                                         *)
  held,      (* the card that waits in hok                                  *)
  missing,   (* dialogs_missing: "no", "just", "long"                       *)
  due,       (* DIALOG_ESCAPE_AGAIN passed since `sent`                     *)
  pass,      (* the pass: its step, and what it read                        *)
  take,      (* the answer that runs: its step, and what it read            *)
  told,      (* the lines left for the agent                                *)
  given,     (* questions with an answer taken                              *)
  crossed,   (* the note does not hold what was answered, or the card held  *)
  faults

agent == <<asks, opened, away, down, faults>>
kept == <<note, held, given, told>>
vars == <<agent, mirror, keys, kept, missing, due, pass, take, crossed>>

Nothing == 0
NoNote == [tool |-> 0, index |-> 0, answers |-> <<>>, card |-> Nothing, state |-> "none"]
NoCard == [card |-> Nothing, tool |-> 0, index |-> 0]
Rest == [step |-> "rest", tool |-> 0, note |-> NoNote, card |-> Nothing]
NoTake == [step |-> "none", note |-> NoNote, answers |-> <<>>]

Same(n, tool) == tool # 0 /\ n.tool = tool
Dialog == IF away THEN mirror ELSE 0

Init ==
  /\ asks = 0 /\ opened = 0 /\ mirror = 0 /\ away = TRUE /\ down = FALSE /\ faults = 0
  /\ keys = {} /\ note = NoNote /\ held = NoCard /\ missing = "no" /\ due = FALSE
  /\ pass = Rest /\ take = NoTake /\ told = <<>> /\ given = {} /\ crossed = FALSE
-----------------------------------------------------------------------------
(* The agent, its worker and the mirror of its records.                     *)
Opens ==
  /\ away /\ asks = 0 /\ opened < MaxDialogs
  /\ opened' = opened + 1 /\ asks' = opened + 1
  /\ UNCHANGED <<away, down, faults, mirror, keys, kept, missing, due, pass, take, crossed>>

AnsweredThere ==
  /\ asks # 0 /\ asks' = 0
  /\ UNCHANGED <<opened, away, down, faults, mirror, keys, kept, missing, due, pass, take, crossed>>

BroughtBack ==
  /\ away /\ asks = 0 /\ away' = FALSE
  /\ UNCHANGED <<asks, opened, down, faults, mirror, keys, kept, missing, due, pass, take, crossed>>

Mirrors ==
  /\ mirror # asks /\ ~down /\ mirror' = asks
  /\ UNCHANGED <<agent, keys, kept, missing, due, pass, take, crossed>>

(* A record missing once.                                                   *)
Glitch ==
  /\ faults < MaxFaults /\ faults' = faults + 1
  /\ mirror # 0 /\ mirror' = 0
  /\ UNCHANGED <<asks, opened, away, down, keys, kept, missing, due, pass, take, crossed>>

LinkDown ==
  /\ faults < MaxFaults /\ faults' = faults + 1
  /\ ~down /\ down' = TRUE /\ keys' = {}
  /\ UNCHANGED <<asks, opened, away, mirror, kept, missing, due, pass, take, crossed>>

LinkUp ==
  /\ down /\ down' = FALSE
  /\ UNCHANGED <<asks, opened, away, faults, mirror, keys, kept, missing, due, pass, take, crossed>>

(* Escape closes the dialog that is open, whichever it is.                  *)
Arrives ==
  /\ keys # {} /\ ~down
  /\ \E k \in keys : keys' = keys \ {k}
  /\ asks' = 0
  /\ UNCHANGED <<opened, away, down, faults, mirror, kept, missing, due, pass, take, crossed>>

Later ==
  /\ missing' = IF missing = "just" THEN "long" ELSE missing
  /\ due' = (note.state = "answered")
  /\ <<missing, due>>' # <<missing, due>>
  /\ UNCHANGED <<agent, mirror, keys, kept, pass, take, crossed>>
-----------------------------------------------------------------------------
(* ask_dialog: the dialog, the note, and what both ask for.  Mutants: a     *)
(* note is of whatever dialog is open, an Escape goes once.                 *)
GoneClosed == note # NoNote /\ Dialog = 0
Gone == note # NoNote /\ ~Same(note, Dialog)
DueNever == FALSE
Due == due
Waits == away /\ Dialog = 0 /\ missing # "long"

PassLooks ==
  /\ pass.step = "rest" /\ (Dialog # 0 \/ note # NoNote)
  /\ missing' = IF ~Gone THEN "no" ELSE IF missing = "no" THEN "just" ELSE missing
  /\ LET next == IF Gone THEN IF Waits THEN "rest" ELSE "drop"
                 ELSE IF note.state = "answered" THEN IF Due THEN "escape" ELSE "rest"
                 ELSE "card"
     IN pass' = IF next = "rest" THEN Rest
                ELSE [step |-> next, tool |-> Dialog, note |-> note, card |-> Nothing]
  /\ <<missing, pass>>' # <<missing, pass>>
  /\ UNCHANGED <<agent, mirror, keys, kept, due, take, crossed>>

(* The card of the note may be gone by now: it was refused or not taken.    *)
PassCard ==
  /\ pass.step = "card"
  /\ LET there == pass.note.card # Nothing /\ pass.note.card = held.card
         card == IF there THEN pass.note.card ELSE Nothing
     IN pass' = IF pass.note # NoNote /\ (pass.note.state # "asked" \/ card # Nothing)
                THEN Rest ELSE [pass EXCEPT !.step = "hold", !.note.card = card]
  /\ UNCHANGED <<agent, mirror, keys, kept, missing, due, take, crossed>>

(* HELD.add: the name is a new one, here one that nothing names any more.   *)
Fresh == CHOOSE c \in 1..4 : c \notin {note.card, pass.note.card, take.note.card}
Add(tool, index) ==
  LET new == [card |-> Fresh, tool |-> tool, index |-> index]
  IN held' \in IF held = NoCard THEN {new} ELSE {held, [new EXCEPT !.card = held.card]}

(* The note changed since the pass read it.                                 *)
Stale ==
  <<note.index, note.state, note.answers>>
    # <<pass.note.index, pass.note.state, pass.note.answers>>

PassHolds ==
  /\ pass.step = "hold"
  /\ Add(pass.tool, pass.note.index)
  /\ pass' = [pass EXCEPT !.step = "note", !.card = held'.card,
                !.note = IF @ = NoNote THEN [NoNote EXCEPT !.tool = pass.tool] ELSE @]
  /\ crossed' = (crossed \/ Stale)
  /\ UNCHANGED <<agent, mirror, keys, note, given, told, missing, due, take>>

PassNotes ==
  /\ pass.step = "note"
  /\ note' = [pass.note EXCEPT !.card = pass.card, !.state = "asked"]
  /\ crossed' = (crossed \/ Stale)
  /\ pass' = Rest
  /\ UNCHANGED <<agent, mirror, keys, held, given, told, missing, due, take>>

(* drop_dialog, once no answer runs: what it reads under the lock.          *)
PassDrops ==
  /\ pass.step = "drop" /\ take.step = "none"
  /\ IF note = NoNote \/ Same(note, Dialog) THEN UNCHANGED <<kept, missing>>
     ELSE /\ note' = NoNote /\ missing' = "no"
          /\ held' = IF note.card = held.card THEN NoCard ELSE held
          /\ UNCHANGED <<given, told>>
  /\ crossed' = (crossed \/ (note' # note /\ asks = note.tool))
  /\ pass' = Rest
  /\ UNCHANGED <<agent, mirror, keys, due, take>>

(* `sent` is written before the key goes.                                   *)
PassEscapes ==
  /\ pass.step = "escape"
  /\ note' = pass.note /\ due' = FALSE
  /\ keys' = IF down THEN keys ELSE keys \cup {pass.tool}
  /\ pass' = Rest
  /\ UNCHANGED <<agent, mirror, held, given, told, missing, take, crossed>>
-----------------------------------------------------------------------------
(* Once `crossed`, Seb answers no more: a bound.                            *)
(* send_dialog: a yes on the card `held`.                                   *)
Fits == Same(note, held.tool) /\ note.index = held.index /\ note.state = "asked" /\ note.card # Nothing

TakeYes ==
  /\ take.step = "none" /\ held # NoCard /\ ~crossed
  /\ IF Fits /\ Same(note, Dialog)
     THEN LET answers == Append(note.answers, <<held.tool, held.index>>)
          IN IF held.index + 1 < Questions
             THEN /\ note' = [note EXCEPT !.answers = answers, !.card = Nothing, !.index = @ + 1]
                  /\ given' = given \cup {<<held.tool, held.index>>}
                  /\ take' = [NoTake EXCEPT !.step = "ends"]
             ELSE /\ take' = [step |-> "close", note |-> note, answers |-> answers]
                  /\ UNCHANGED <<note, given>>
     ELSE take' = [NoTake EXCEPT !.step = "ends"] /\ UNCHANGED <<note, given>>
  /\ UNCHANGED <<agent, mirror, keys, held, told, missing, due, pass, crossed>>

(* refuse_held: with words, the dialog closes as for a yes.                 *)
TakeNo(words) ==
  /\ take.step = "none" /\ held # NoCard /\ ~crossed
  /\ note' = IF Same(note, held.tool) THEN [note EXCEPT !.card = Nothing, !.state = "refused"] ELSE note
  /\ take' = IF words /\ Same(note, held.tool) /\ Same(note, Dialog)
             THEN [step |-> "close", note |-> note',
                   answers |-> Append(note.answers, <<held.tool, held.index>>)]
             ELSE [NoTake EXCEPT !.step = "ends"]
  /\ UNCHANGED <<agent, mirror, keys, held, given, told, missing, due, pass, crossed>>

(* close_dialog: the link takes the Escape, or the card of a yes stays.     *)
TakeEscapes ==
  /\ take.step = "close"
  /\ IF down \/ ~away
     THEN take' = [NoTake EXCEPT !.step = IF take.note.state = "refused" THEN "ends" ELSE "none"]
          /\ UNCHANGED keys
     ELSE keys' = keys \cup {take.note.tool} /\ take' = [take EXCEPT !.step = "line"]
  /\ UNCHANGED <<agent, mirror, kept, missing, due, pass, crossed>>

TakeTells ==
  /\ take.step = "line"
  /\ told' = Append(told, take.answers)
  /\ given' = given \cup {take.answers[i] : i \in DOMAIN take.answers}
  /\ take' = [take EXCEPT !.step = "note"]
  /\ UNCHANGED <<agent, mirror, keys, note, held, missing, due, pass, crossed>>

(* Its mutant leaves the note as the yes found it.                          *)
AsFound == take.note
Answered == [take.note EXCEPT !.answers = take.answers, !.card = Nothing, !.state = "answered"]

TakeNotes ==
  /\ take.step = "note"
  /\ note' = Answered /\ due' = FALSE
  /\ take' = [NoTake EXCEPT !.step = "ends"]
  /\ UNCHANGED <<agent, mirror, keys, held, given, told, missing, pass, crossed>>

TakeEnds ==
  /\ take.step = "ends"
  /\ held' = NoCard /\ take' = NoTake
  /\ UNCHANGED <<agent, mirror, keys, note, given, told, missing, due, pass, crossed>>

(* The daemon restarts: what its threads ran is not taken up.  What         *)
(* gateway-core does with an answer that was cut is not followed.           *)
Restart ==
  /\ faults < MaxFaults /\ faults' = faults + 1
  /\ pass' = Rest /\ take' = NoTake /\ missing' = "no"
  /\ crossed' = (crossed \/ take.step # "none" \/ pass.step = "note")
  /\ UNCHANGED <<asks, opened, away, down, mirror, keys, kept, due>>
-----------------------------------------------------------------------------
Pass == PassLooks \/ PassCard \/ PassHolds \/ PassNotes \/ PassDrops \/ PassEscapes
Take == TakeEscapes \/ TakeTells \/ TakeNotes \/ TakeEnds

Next ==
  \/ Opens \/ AnsweredThere \/ BroughtBack \/ Mirrors \/ Glitch \/ LinkDown \/ LinkUp
  \/ Arrives \/ Later
  \/ PassLooks \/ PassCard \/ PassHolds \/ PassNotes \/ PassDrops \/ PassEscapes
  \/ TakeYes \/ \E words \in BOOLEAN : TakeNo(words)
  \/ TakeEscapes \/ TakeTells \/ TakeNotes \/ TakeEnds
  \/ Restart

(* The daemon, its clock and the link go on; Seb and the claude need not.   *)
Fairness ==
  WF_vars(Pass) /\ WF_vars(Take) /\ WF_vars(Mirrors) /\ WF_vars(LinkUp) /\ WF_vars(Arrives)
    /\ WF_vars(Later)

Spec == Init /\ [][Next]_vars /\ Fairness
-----------------------------------------------------------------------------
(* What Seb answered goes to the agent as it was asked: in the order of the *)
(* questions, each with the answer to its own card and not to one of        *)
(* before, once for a dialog, and no card asks it again.  But where a pass  *)
(* that read the note before the answer holds its card after it, as the     *)
(* pass has no lock; where the record of a dialog that waits is missing for *)
(* DIALOG_EVERY; and where a restart cuts an answer.                        *)
Ordered(answers) == \A i \in DOMAIN answers : answers[i] = <<answers[1][1], i - 1>>
AnswersKept ==
  \/ crossed
  \/ /\ Ordered(note.answers) /\ Len(note.answers) \in {note.index, note.index + 1}
     /\ \A i \in DOMAIN told : Ordered(told[i])
     /\ \A i, j \in DOMAIN told : told[i][1] = told[j][1] => i = j
     /\ <<held.tool, held.index>> \in given => take.step \in {"note", "ends"}

(* A dialog Seb answered in hok does not stay open: an Escape it did not    *)
(* take goes again.                                                         *)
AnswerCloses == []<>(note.state # "answered" \/ asks # note.tool \/ crossed)

(* The card of a dialog that closed goes, but one a restart left with no    *)
(* note.                                                                    *)
CardGoes == []<>(held.tool \in {Nothing, asks} \/ crossed)

(* Nothing of a dialog stays: neither its claude that waits, nor its card.  *)
DialogEnds == AnswerCloses /\ CardGoes
=============================================================================
