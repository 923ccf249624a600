---------------------------- MODULE ClaudeProofs ----------------------------
(***************************************************************************)
(* What reaches the claude of an agent: a line left for it reaches it      *)
(* once, and is never gone without a word (Typing), the answers to its     *)
(* dialogs go to it as they were asked (Dialogs), and no card of an agent  *)
(* no bundle has ends one a bundle has (Tunnel), for any lines, dialogs,   *)
(* questions and jobs and through any number of sessions, stops and faults.*)
(***************************************************************************)
EXTENDS MCClaude, SequenceTheorems, TLAPS

LineTypes ==
  /\ at \in [Lines -> {"new", "told", "earlier", "events", "prompts", "task", "none"}]
  /\ hook \subseteq Lines /\ daemon \subseteq Lines /\ prompt \subseteq Lines
  /\ lost \subseteq Lines
  /\ got \in [Lines -> Nat] /\ again \in [Lines -> Nat]

One(holds) == IF holds THEN 1 ELSE 0

(* How many times a line was given or may still be: from its folder, by who *)
(* took it, and with the Enter of the prompt it is in.                      *)
Copies(l) ==
  got[l] + One(l \in prompt) + One(l \in hook) + One(l \in daemon) + One(at[l] # "none")

(* A call that said it failed makes one copy more; nothing else does.       *)
NoCopyMade == \A l \in Lines : Copies(l) <= 1 + again[l]

Inv == LineTypes /\ NoCopyMade /\ NoneVanishes

lineVars == <<at, hook, daemon, prompt, got, again, lost>>

-----------------------------------------------------------------------------
LEMMA InitInv == Init => Inv
BY DEF Init, Inv, LineTypes, NoCopyMade, Copies, One, NoneVanishes

(* Steps that touch no line.                                                *)
LEMMA OthersInv ==
  ASSUME Inv, UNCHANGED lineVars
  PROVE  Inv'
BY DEF lineVars, Inv, LineTypes, NoCopyMade, Copies, One, NoneVanishes

LEMMA LeaveInv ==
  ASSUME Inv, NEW l \in Lines, Leave(l)
  PROVE  Inv'
<1>1. PICK f \in {"told", "events", "task", "prompts"} : at' = [at EXCEPT ![l] = f]
  BY DEF Leave, Folder, PromptFolder
<1>2. at[l] = "new" /\ UNCHANGED <<hook, daemon, prompt, got, again, lost>>
  BY DEF Leave, keys
<1> QED BY <1>1, <1>2 DEF Inv, LineTypes, NoCopyMade, Copies, One, NoneVanishes

(* A hook has what it took by one rename, and gives it or dies with it.     *)
LEMMA HookInv ==
  ASSUME Inv, (\E l \in Lines : HookTakes(l)) \/ HookGives \/ HookDies
  PROVE  Inv'
<1>1. ASSUME NEW l \in Lines, HookTakes(l)
      PROVE  Inv'
  <2>1. /\ at[l] = "events" /\ hook' = hook \cup {l} /\ at' = Took({l})
        /\ UNCHANGED <<daemon, prompt, got, again, lost>>
    BY <1>1 DEF HookTakes, HookClaims, keys
  <2> QED BY <2>1 DEF Inv, LineTypes, NoCopyMade, Copies, One, NoneVanishes, Took
<1>2. CASE HookGives
  <2>1. hook' = {} /\ got' = Got(hook) /\ at' = Took(hook)
    BY <1>2 DEF HookGives
  <2>2. UNCHANGED <<daemon, prompt, again, lost>>
    BY <1>2 DEF HookGives, keys
  <2> QED BY <2>1, <2>2 DEF Inv, LineTypes, NoCopyMade, Copies, One, NoneVanishes, Took, Got
<1>3. CASE HookDies
  <2>1. hook' = {} /\ lost' = lost \cup hook /\ UNCHANGED <<at, daemon, prompt, got, again>>
    BY <1>3 DEF HookDies, keys
  <2> QED BY <2>1 DEF Inv, LineTypes, NoCopyMade, Copies, One, NoneVanishes
<1> QED BY <1>1, <1>2, <1>3

(* The terminal types what it takes: from a folder to the prompt.           *)
LEMMA TypesInv ==
  ASSUME Inv, NEW lines, NEW dropped, Types(lines, dropped),
         lines \subseteq Lines, dropped \subseteq Lines,
         \A l \in lines : at[l] # "none"
  PROVE  Inv'
<1>1. /\ at' = Took(lines \cup dropped) /\ prompt' = prompt \cup lines
      /\ lost' = lost \cup dropped /\ UNCHANGED <<hook, daemon, got, again>>
  BY DEF Types
<1>2. LineTypes'
  BY <1>1 DEF Inv, LineTypes, Took
<1>3. NoCopyMade'
  <2> SUFFICES ASSUME NEW l \in Lines
               PROVE  Copies(l)' <= 1 + again[l]'
    BY DEF NoCopyMade
  <2>1. One(l \in prompt') + One(at'[l] # "none") <= One(l \in prompt) + One(at[l] # "none")
    BY <1>1 DEF Inv, LineTypes, One, Took
  <2> QED BY <1>1, <2>1 DEF Inv, LineTypes, NoCopyMade, Copies, One
<1>4. NoneVanishes'
  BY <1>1 DEF Inv, LineTypes, NoneVanishes, Took
<1> QED BY <1>2, <1>3, <1>4 DEF Inv

LEMMA WakerInv ==
  ASSUME Inv, WakerTakes
  PROVE  Inv'
<1>1. ASSUME NEW l \in Tasks, TakeTask(l)
      PROVE  Inv'
  <2>1. l \in Lines
    BY DEF Lines
  <2> QED BY <1>1, <2>1, TypesInv DEF TakeTask
<1>2. ASSUME NEW old \in SUBSET In("prompts"), TakePrompts(old)
      PROVE  Inv'
  <2>1. Types(In("prompts") \ old, old)
    BY <1>2 DEF TakePrompts
  <2>2. In("prompts") \subseteq Lines /\ \A l \in In("prompts") : at[l] # "none"
    BY DEF In
  <2> QED BY <2>1, <2>2, TypesInv
<1>3. CASE TakeEvents
  <2> DEFINE lines == GetTold \cup (In("events") \ PostedLines)
             dropped == In("events") \cap PostedLines
  <2>1. Types(lines, dropped)
    BY <1>3 DEF TakeEvents
  <2>2. /\ lines \subseteq Lines /\ dropped \subseteq Lines
        /\ \A l \in lines : at[l] # "none"
    BY DEF In, GetTold
  <2> HIDE DEF lines, dropped
  <2> QED BY <2>1, <2>2, TypesInv
<1> QED BY <1>1, <1>2, <1>3 DEF WakerTakes

(* An Enter gives what the prompt holds, whoever pressed it.                *)
LEMMA PromptGoes ==
  ASSUME Inv, prompt' = {}, got' = Got(prompt), UNCHANGED <<at, hook, daemon, again, lost>>
  PROVE  Inv'
BY DEF Inv, LineTypes, NoCopyMade, Copies, One, NoneVanishes, Got

LEMMA EntersInv ==
  ASSUME Inv,
         TerminalEnters \/ DaemonEnters \/ (\E slash \in BOOLEAN : SebEnters(slash))
  PROVE  Inv'
<1>1. ASSUME EnterReaches \/ EnterStays, UNCHANGED <<at, hook, daemon, again, lost>>
      PROVE  Inv'
  <2>1. \/ prompt' = {} /\ got' = Got(prompt)
        \/ UNCHANGED <<prompt, got>>
    BY <1>1 DEF EnterReaches, EnterStays
  <2>2. CASE UNCHANGED <<prompt, got>>
    BY <1>1, <2>2, OthersInv DEF lineVars
  <2> QED BY <1>1, <2>1, <2>2, PromptGoes
<1>2. CASE TerminalEnters
  BY <1>1, <1>2 DEF TerminalEnters
<1>3. CASE DaemonEnters
  BY <1>1, <1>3 DEF DaemonEnters
<1>4. ASSUME NEW slash \in BOOLEAN, SebEnters(slash)
      PROVE  Inv'
  BY <1>4, PromptGoes DEF SebEnters
<1> QED BY <1>2, <1>3, <1>4

(* The daemon has what it took until it typed it, or left it again.         *)
LEMMA DaemonInv ==
  ASSUME Inv,
         \/ DaemonTakes \/ DaemonTypes \/ DaemonDies
         \/ \E typed \in BOOLEAN : DaemonTypeFails(typed)
  PROVE  Inv'
<1>1. CASE DaemonTakes
  <2> DEFINE lines == GetTold \cup (In("events") \ PostedLines)
  <2>1. /\ daemon = {} /\ daemon' = lines /\ at' = Took(lines)
        /\ UNCHANGED <<hook, prompt, got, again, lost>>
    BY <1>1 DEF DaemonTakes, keys
  <2>2. lines \subseteq Lines /\ \A l \in lines : at[l] # "none"
    BY DEF In, GetTold
  <2> HIDE DEF lines
  <2> QED BY <2>1, <2>2 DEF Inv, LineTypes, NoCopyMade, Copies, One, NoneVanishes, Took
<1>2. CASE DaemonTypes
  <2>1. daemon' = {} /\ prompt' = prompt \cup daemon /\ UNCHANGED <<at, hook, got, again, lost>>
    BY <1>2 DEF DaemonTypes
  <2> QED BY <2>1 DEF Inv, LineTypes, NoCopyMade, Copies, One, NoneVanishes
<1>3. CASE DaemonDies
  <2>1. daemon' = {} /\ lost' = lost \cup daemon /\ UNCHANGED <<at, hook, prompt, got, again>>
    BY <1>3 DEF DaemonDies
  <2> QED BY <2>1 DEF Inv, LineTypes, NoCopyMade, Copies, One, NoneVanishes
<1>4. ASSUME NEW typed \in BOOLEAN, DaemonTypeFails(typed)
      PROVE  Inv'
  <2>1. daemon' = {} /\ at' = LeftAgain /\ UNCHANGED <<hook, got, lost>>
    BY <1>4 DEF DaemonTypeFails
  <2>2. \/ UNCHANGED <<prompt, again>>
        \/ /\ prompt' = prompt \cup daemon
           /\ again' = [l \in Lines |-> IF l \in daemon THEN again[l] + 1 ELSE again[l]]
    BY <1>4 DEF DaemonTypeFails
  <2>3. LineTypes'
    BY <2>1, <2>2 DEF Inv, LineTypes, LeftAgain
  <2>4. NoCopyMade'
    <3> SUFFICES ASSUME NEW l \in Lines
                 PROVE  Copies(l)' <= 1 + again[l]'
      BY DEF NoCopyMade
    <3>1. One(l \in daemon') + One(at'[l] # "none") <= One(l \in daemon) + One(at[l] # "none")
      BY <2>1 DEF Inv, LineTypes, LeftAgain, One
    <3>2. One(l \in prompt') - again'[l] <= One(l \in prompt) - again[l]
      BY <2>2 DEF Inv, LineTypes, One
    <3> QED BY <2>1, <2>3, <3>1, <3>2 DEF Inv, LineTypes, NoCopyMade, Copies, One
  <2>5. NoneVanishes'
    BY <2>1, <2>2 DEF Inv, LineTypes, NoneVanishes, LeftAgain
  <2> QED BY <2>3, <2>4, <2>5 DEF Inv
<1> QED BY <1>1, <1>2, <1>3, <1>4

(* What the session that ends leaves behind counts as lost.                 *)
LEMMA SessionInv ==
  ASSUME Inv, NextSession
  PROVE  Inv'
<1>1. /\ at' = [l \in Lines |-> CASE at[l] = "told" -> "earlier"
                                  [] at[l] = "prompts" -> "none"
                                  [] at[l] = "task" -> "none"
                                  [] OTHER -> at[l]]
      /\ lost' = lost \cup prompt \cup In("prompts") \cup In("task")
      /\ prompt' = {} /\ UNCHANGED <<hook, daemon, got, again>>
  BY DEF NextSession
<1>2. LineTypes'
  BY <1>1 DEF Inv, LineTypes, In
<1>3. NoCopyMade'
  BY <1>1 DEF Inv, LineTypes, NoCopyMade, Copies, One
<1>4. NoneVanishes'
  BY <1>1 DEF Inv, LineTypes, NoneVanishes, In
<1> QED BY <1>2, <1>3, <1>4 DEF Inv

LEMMA NextInv ==
  ASSUME Inv, [Next]_vars
  PROVE  Inv'
<1>1. CASE \/ TakeStop \/ SebTypes \/ LeaveStop \/ AskStop \/ StopRemote \/ Link
           \/ TurnEnds \/ DialogOpens \/ DialogCloses \/ ShellEnds \/ Time
           \/ UNCHANGED vars
  <2>1. UNCHANGED <<folders, keys>>
    BY <1>1 DEF TakeStop, SebTypes, LeaveStop, AskStop, StopRemote, Link, TurnEnds,
                DialogOpens, DialogCloses, ShellEnds, Time, vars
  <2> QED BY <2>1, OthersInv DEF folders, keys, lineVars
<1>2. CASE \E l \in Lines : Leave(l)
  BY <1>2, LeaveInv
<1> QED
  BY <1>1, <1>2, HookInv, WakerInv, EntersInv, DaemonInv, SessionInv DEF Next

(* What LinesKept says follows from the copies that are left.               *)
LEMMA InvKept == Inv => LinesKept
BY DEF Inv, LineTypes, NoCopyMade, Copies, One, LinesKept, GivenOnce

(* Whoever takes a line, in any order of hooks, keys, stops and sessions,   *)
(* the agent gets it once, but one typed by a call that said it failed, and *)
(* none vanishes (prwatch.take, Waker.take, tell_remote_agents).            *)
THEOREM LinesReachOnce == Spec => []LinesKept
<1>1. Inv /\ [Next]_vars => Inv'
  BY NextInv
<1> QED BY InitInv, <1>1, InvKept, PTL DEF Spec
-----------------------------------------------------------------------------
(* A request of deck to stop a turn on a worker that is still to act read   *)
(* that the last Escape is old, unless a restart or a second request keeps  *)
(* that from being true.                                                    *)
AskedIsOld == place = "worker" /\ asked > 0 => escaped = "long" \/ blind # "no"

KeysInv ==
  /\ asked \in Nat /\ NoDialogAnswered /\ AskedIsOld

(* Steps of the lines, of Seb and of the claude ask for no Escape, and an   *)
(* Enter reaches no dialog.                                                 *)
LEMMA EntersKeepKeys ==
  ASSUME KeysInv, TerminalEnters \/ DaemonEnters
  PROVE  KeysInv'
<1>1. UNCHANGED <<place, escapes, answered>>
  BY DEF TerminalEnters, DaemonEnters, EnterReaches, EnterStays, MayEnter
<1> QED BY <1>1 DEF KeysInv, NoDialogAnswered, AskedIsOld, escapes

LEMMA LinesKeepKeys ==
  ASSUME KeysInv,
         \/ \E l \in Lines : Leave(l) \/ HookTakes(l)
         \/ HookGives \/ HookDies \/ WakerTakes \/ SebTypes
         \/ \E slash \in BOOLEAN : SebEnters(slash)
         \/ DaemonTakes \/ DaemonTypes \/ \E typed \in BOOLEAN : DaemonTypeFails(typed)
         \/ LeaveStop \/ Link \/ TurnEnds \/ DialogOpens \/ DialogCloses \/ ShellEnds
  PROVE  KeysInv'
<1>1. UNCHANGED <<place, asked, escaped, blind, answered>>
  <2>1. ASSUME NEW l \in Lines, Leave(l) \/ HookTakes(l)
        PROVE  UNCHANGED <<place, asked, escaped, blind, answered>>
    BY <2>1 DEF Leave, HookTakes, user, escapes
  <2>2. CASE HookGives \/ HookDies \/ SebTypes \/ \E slash \in BOOLEAN : SebEnters(slash)
    BY <2>2 DEF HookGives, HookDies, SebTypes, SebEnters, user, escapes
  <2>3. CASE WakerTakes
    BY <2>3 DEF WakerTakes, TakeTask, TakePrompts, TakeEvents, Types, user, escapes
  <2>4. CASE DaemonTakes \/ DaemonTypes \/ \E typed \in BOOLEAN : DaemonTypeFails(typed)
    BY <2>4 DEF DaemonTakes, DaemonTypes, DaemonTypeFails, user, escapes
  <2>5. CASE LeaveStop \/ Link \/ TurnEnds \/ DialogOpens \/ DialogCloses \/ ShellEnds
    BY <2>5 DEF LeaveStop, Link, TurnEnds, DialogOpens, DialogCloses, ShellEnds, user, escapes
  <2> QED BY <2>1, <2>2, <2>3, <2>4, <2>5
<1> QED BY <1>1 DEF KeysInv, NoDialogAnswered, AskedIsOld

LEMMA EscapesKeepKeys ==
  ASSUME KeysInv, TakeStop \/ AskStop \/ StopRemote \/ DaemonDies \/ NextSession \/ Time
  PROVE  KeysInv'
<1>1. CASE TakeStop
  BY <1>1 DEF TakeStop, KeysInv, NoDialogAnswered, AskedIsOld, user
<1>2. CASE AskStop
  BY <1>2 DEF AskStop, LastIsOld, KeysInv, NoDialogAnswered, AskedIsOld, user
<1>3. CASE StopRemote
  BY <1>3 DEF StopRemote, Escapes, KeysInv, NoDialogAnswered, AskedIsOld, user
<1>4. CASE DaemonDies
  BY <1>4 DEF DaemonDies, KeysInv, NoDialogAnswered, AskedIsOld, user
<1>5. CASE NextSession
  BY <1>5 DEF NextSession, KeysInv, NoDialogAnswered, AskedIsOld
<1>6. CASE Time
  BY <1>6 DEF Time, KeysInv, NoDialogAnswered, AskedIsOld, user
<1> QED BY <1>1, <1>2, <1>3, <1>4, <1>5, <1>6

LEMMA NextKeepsKeys == KeysInv /\ [Next]_vars => KeysInv'
<1> SUFFICES ASSUME KeysInv, [Next]_vars
             PROVE  KeysInv'
  OBVIOUS
<1>1. CASE UNCHANGED vars
  BY <1>1 DEF KeysInv, NoDialogAnswered, AskedIsOld, vars, user, escapes
<1> QED BY <1>1, EntersKeepKeys, LinesKeepKeys, EscapesKeepKeys DEF Next

LEMMA StepEscapesApart ==
  KeysInv /\ [Next]_vars =>
    [(TakeStop \/ StopRemote) /\ status' # status => escaped = "long" \/ blind # "no"]_vars
BY DEF TakeStop, LastIsOld, StopRemote, KeysInv, AskedIsOld

(* No Enter but Seb's answers a dialog that opened between a text and it    *)
(* (may_enter, press_remote_enter), and no Escape follows another within    *)
(* STOP_TIME (take_stop, stop_remote), but one after a restart or of two    *)
(* requests at once: in any number of sessions, stops and dialogs.          *)
THEOREM KeysAreRight == Spec => KeysRight
<1>1. Init => KeysInv
  BY DEF Init, KeysInv, NoDialogAnswered, AskedIsOld
<1>2. KeysInv => NoDialogAnswered
  BY DEF KeysInv
<1> QED BY <1>1, <1>2, NextKeepsKeys, StepEscapesApart, PTL DEF Spec, KeysRight, EscapesApart
-----------------------------------------------------------------------------
(* The dialogs (Dialogs).                                                   *)

(* An answer: the dialog and its question; the words are left out.          *)
Answer == Nat \X Nat
NoteType ==
  [tool : Nat, index : Nat, answers : Seq(Answer), card : 0 .. 4,
   state : {"none", "asked", "answered", "refused"}]

DialogTyped ==
  /\ asks \in Nat /\ opened \in Nat /\ mirror \in Nat
  /\ note \in NoteType
  /\ held \in [card : 0 .. 4, tool : Nat, index : Nat]
  /\ dialogPass \in [step : {"rest", "drop", "escape", "card", "hold", "note"}, tool : Nat,
                     note : NoteType, card : 0 .. 4]
  /\ take \in [step : {"none", "close", "line", "note", "ends"}, note : NoteType,
               answers : Seq(Answer)]
  /\ told \in Seq(Seq(Answer)) /\ given \in SUBSET Answer

(* The dialogs the daemon knows of were opened.                             *)
Known ==
  /\ asks <= opened /\ mirror <= opened /\ note.tool <= opened /\ held.tool <= opened
  /\ dialogPass.tool <= opened

(* The first k questions of dialog t, each with its answer.                 *)
Row(t, k) == [i \in 1 .. k |-> <<t, i - 1>>]

(* The note counts the answers it holds.                                    *)
NoteRight ==
  /\ note = D!NoNote \/ (note.tool # 0 /\ note.state # "none")
  /\ note.answers = Row(note.tool, IF note.state = "answered" THEN note.index + 1 ELSE note.index)

(* The note went on since the pass read it: an answer was taken.            *)
Moved ==
  \/ dialogPass.note.index < note.index
  \/ /\ dialogPass.note.index = note.index
     /\ \/ dialogPass.note.state = "asked" /\ note.state \in {"refused", "answered"}
        \/ dialogPass.note.state = "refused" /\ note.state = "answered"

(* The note is the one the pass read, but for the card.                     *)
AsRead ==
  /\ dialogPass.note.tool = note.tool /\ dialogPass.note.index = note.index
  /\ dialogPass.note.answers = note.answers /\ dialogPass.note.state = note.state

(* What the pass holds is of the note that is there, or of one before it.   *)
PassRight ==
  /\ dialogPass.step = "rest" => dialogPass.tool = 0
  /\ dialogPass.step \in {"card", "hold", "note"} =>
       dialogPass.tool # 0 /\ (note = D!NoNote \/ note.tool = dialogPass.tool)
  /\ dialogPass.step = "escape" => dialogPass.note = note /\ note.state = "answered"
  /\ dialogPass.step = "card" => dialogPass.note = note \/ Moved
  /\ dialogPass.step = "hold" =>
       /\ AsRead \/ Moved
       /\ dialogPass.note.state \in {"none", "asked"} /\ dialogPass.note.card = 0
  /\ dialogPass.step = "note" =>
       /\ dialogPass.note.state \in {"none", "asked"} /\ dialogPass.note.tool = dialogPass.tool
       /\ \/ /\ note = D!NoNote /\ dialogPass.note.index = 0 /\ dialogPass.note.answers = <<>>
             /\ dialogPass.note.state = "none"
          \/ AsRead \/ Moved

(* The card that waits asks the question the note is at.                    *)
HeldAsks ==
  /\ held.tool = note.tool /\ held.index = note.index
  /\ note.state \in {"asked", "refused"}
  /\ take.step = "none" => note.state = "asked"
  /\ dialogPass.step # "note" /\ note.state = "asked" => held.card = note.card
(* The card of a dialog whose note the pass has still to write.             *)
HeldFirst ==
  /\ dialogPass.step = "note" /\ note = D!NoNote
  /\ held.tool = dialogPass.tool /\ held.index = 0
(* A card that no answer is about to end asks what is still to ask.         *)
HeldRight ==
  /\ held = D!NoCard \/ (held.tool # 0 /\ held.card # 0)
  /\ dialogPass.step = "note" /\ held # D!NoCard => held.card = dialogPass.card
  /\ dialogPass.step = "hold" /\ ~Moved => held = D!NoCard \/ take.step = "ends"
  /\ take.step # "ends" /\ held # D!NoCard => HeldAsks \/ HeldFirst

(* The answer that runs holds the note as it is, and one answer more.       *)
TakeRight ==
  take.step \in {"close", "line", "note"} =>
    /\ held # D!NoCard /\ note # D!NoNote
    /\ take.note.tool = note.tool /\ take.note.index = note.index
    /\ take.note.answers = note.answers /\ take.note.state = note.state
    /\ note.state \in {"asked", "refused"}
    /\ take.answers = Row(note.tool, note.index + 1)

(* A dialog that closed and that nothing names any more.                    *)
Past(t) ==
  /\ t # asks /\ t # D!Dialog /\ t # note.tool /\ t # held.tool /\ t # dialogPass.tool

(* Its answers were told, and its note says so or will.                     *)
Over == note.state = "answered" \/ take.step = "note"

GivenRight ==
  \A p \in given :
    /\ p[1] # 0 /\ p[1] <= opened
    /\ \/ note.tool = p[1] /\ p[2] <= note.index /\ (p[2] < note.index \/ Over)
       \/ Past(p[1])

(* What was told is a dialog in full, and told once.                        *)
ToldRight ==
  /\ \A i \in DOMAIN told : \E t, k \in Nat :
       /\ told[i] = Row(t, k + 1) /\ t # 0 /\ t <= opened
       /\ Past(t) \/ (note.tool = t /\ Over)
  /\ \A i, j \in DOMAIN told : told[i][1] = told[j][1] => i = j

(* All of these hold of the dialogs, until something `crossed`.             *)
DialogRight ==
  /\ DialogTyped /\ Known /\ NoteRight /\ PassRight /\ HeldRight /\ TakeRight
  /\ GivenRight /\ ToldRight

-----------------------------------------------------------------------------
(* One answer more, of the next question.                                   *)
LEMMA RowGrows ==
  ASSUME NEW t \in Nat, NEW k \in Nat
  PROVE  /\ Row(t, k) \in Seq(Answer)
         /\ Append(Row(t, k), <<t, k>>) = Row(t, k + 1)
         /\ Row(t, k + 1)[1] = <<t, 0>>
<1>1. Row(t, k) \in Seq(Answer) /\ Len(Row(t, k)) = k
  <2>1. \A i \in 1 .. k : <<t, i - 1>> \in Answer
    BY DEF Answer
  <2> QED
    BY <2>1 DEF Row
<1>2. Row(t, k + 1) \in Seq(Answer) /\ Len(Row(t, k + 1)) = k + 1
  <2>1. \A i \in 1 .. (k + 1) : <<t, i - 1>> \in Answer
    BY DEF Answer
  <2> QED
    BY <2>1 DEF Row
<1>3. <<t, k>> \in Answer
  BY DEF Answer
<1>4. /\ Append(Row(t, k), <<t, k>>) \in Seq(Answer)
      /\ Len(Append(Row(t, k), <<t, k>>)) = k + 1
      /\ \A i \in 1 .. k : Append(Row(t, k), <<t, k>>)[i] = Row(t, k)[i]
      /\ Append(Row(t, k), <<t, k>>)[k + 1] = <<t, k>>
  BY <1>1, <1>3, AppendProperties
<1>5. \A i \in 1 .. (k + 1) : Append(Row(t, k), <<t, k>>)[i] = Row(t, k + 1)[i]
  <2>1. \A i \in 1 .. k : Row(t, k)[i] = <<t, i - 1>> /\ Row(t, k + 1)[i] = <<t, i - 1>>
    BY DEF Row
  <2>2. Row(t, k + 1)[k + 1] = <<t, k>>
    BY DEF Row
  <2>3. \A i \in 1 .. (k + 1) : i \in 1 .. k \/ i = k + 1
    OBVIOUS
  <2> QED
    BY <1>4, <2>1, <2>2, <2>3
<1>6. Append(Row(t, k), <<t, k>>) = Row(t, k + 1)
  BY <1>2, <1>4, <1>5, SeqEqual
<1>7. Row(t, k + 1)[1] = <<t, 0>>
  BY DEF Row
<1> QED
  BY <1>1, <1>6, <1>7

(* No dialog yet.                                                           *)
LEMMA DialogFirst == D!Init => DialogRight
<1> SUFFICES ASSUME D!Init PROVE DialogRight
  OBVIOUS
<1>1. <<>> = Row(0, 0) /\ <<>> \in Seq(Answer) /\ <<>> \in Seq(Seq(Answer))
  BY DEF Row
<1>2. D!NoNote \in NoteType /\ D!NoNote.tool = 0 /\ D!NoNote.index = 0 /\ D!NoNote.answers = <<>>
      /\ D!NoNote.state = "none"
  BY <1>1 DEF D!NoNote, D!Nothing, NoteType
<1> QED
  BY <1>1, <1>2 DEF D!Init, DialogRight, DialogTyped, Known, NoteRight, PassRight, HeldRight,
     TakeRight, GivenRight, ToldRight, D!Rest, D!NoTake, D!NoCard, D!Nothing

(* What is kept of the answers follows.                                     *)
LEMMA AnswersRight == DialogRight => D!AnswersKept
<1> SUFFICES ASSUME DialogRight PROVE D!AnswersKept
  OBVIOUS
<1>1. \A t, k \in Nat : D!Ordered(Row(t, k)) /\ Len(Row(t, k)) = k
  BY DEF D!Ordered, Row
<1>2. D!Ordered(note.answers) /\ Len(note.answers) \in {note.index, note.index + 1}
  <2>1. note.tool \in Nat /\ note.index \in Nat
    BY DEF DialogRight, DialogTyped, NoteType
  <2> QED
    BY <1>1, <2>1 DEF DialogRight, NoteRight
<1>3. \A i \in DOMAIN told : D!Ordered(told[i])
  <2>1. \A k \in Nat : k + 1 \in Nat
    OBVIOUS
  <2> QED
    BY <1>1, <2>1 DEF DialogRight, ToldRight
<1>4. ASSUME <<held.tool, held.index>> \in given, take.step \notin {"note", "ends"} PROVE FALSE
  <2> DEFINE p == <<held.tool, held.index>>
  <2>1. held.tool \in Nat /\ held.index \in Nat /\ note.index \in Nat /\ p[1] = held.tool
        /\ p[2] = held.index
    BY DEF DialogRight, DialogTyped, NoteType
  <2>2. /\ held.tool # 0 /\ note.tool = held.tool
        /\ held.index <= note.index /\ (held.index < note.index \/ note.state = "answered")
    BY <1>4, <2>1 DEF DialogRight, GivenRight, Past, Over
  <2>3. HeldAsks \/ HeldFirst
    BY <1>4, <2>2 DEF DialogRight, HeldRight, D!NoCard, D!Nothing
  <2>4. HeldAsks
    BY <2>2, <2>3 DEF HeldFirst, D!NoNote, D!Nothing
  <2> QED
    BY <2>1, <2>2, <2>4 DEF HeldAsks
<1> QED
  BY <1>2, <1>3, <1>4 DEF D!AnswersKept, DialogRight, ToldRight
-----------------------------------------------------------------------------
(* The agent, its mirror and its link: no dialog that is past comes back.   *)
LEMMA AgentGoes ==
  ASSUME DialogRight, UNCHANGED <<note, held, given, told, dialogPass, take>>,
         asks' \in Nat /\ opened' \in Nat /\ mirror' \in Nat,
         opened <= opened', asks' <= opened', mirror' <= opened',
         \A t \in Nat : t # 0 /\ t <= opened /\ Past(t) => t # asks' /\ t # D!Dialog'
  PROVE  DialogRight'
<1>1. \A t \in Nat : t # 0 /\ t <= opened /\ Past(t) => Past(t)'
  BY DEF Past
<1>2. DialogTyped' /\ Known' /\ NoteRight' /\ PassRight' /\ HeldRight' /\ TakeRight'
  <2>1. DialogTyped'
    BY DEF DialogRight, DialogTyped
  <2>2. Known'
    <3>1. \A n \in Nat : n <= opened => n <= opened'
      BY DEF DialogRight, DialogTyped
    <3>2. note.tool \in Nat /\ held.tool \in Nat /\ dialogPass.tool \in Nat
      BY DEF DialogRight, DialogTyped, NoteType
    <3> QED
      BY <3>1, <3>2 DEF DialogRight, Known
  <2>3. NoteRight'
    BY DEF DialogRight, NoteRight
  <2>4. PassRight'
    BY DEF DialogRight, PassRight, Moved, AsRead
  <2>5. HeldRight'
    BY DEF DialogRight, HeldRight, HeldAsks, HeldFirst, Moved
  <2>6. TakeRight'
    BY DEF DialogRight, TakeRight
  <2> QED
    BY <2>1, <2>2, <2>3, <2>4, <2>5, <2>6
<1>3. given \in SUBSET Answer /\ \A p \in given : p[1] \in Nat
  BY DEF DialogRight, DialogTyped, Answer
<1>4. opened \in Nat
  BY DEF DialogRight, DialogTyped
<1>5. GivenRight'
  <2>1. \A p \in given : p[1] <= opened => p[1] <= opened'
    BY <1>3, <1>4
  <2> QED
    BY <1>1, <1>3, <2>1 DEF DialogRight, GivenRight, Over
<1>6. ToldRight'
  <2>1. \A t \in Nat : t <= opened => t <= opened'
    BY <1>4
  <2> QED
    BY <1>1, <2>1 DEF DialogRight, ToldRight, Over
<1> QED
  BY <1>2, <1>5, <1>6 DEF DialogRight

(* So are the steps of the agent, Seb in its terminal and the link.          *)
LEMMA AgentSteps ==
  ASSUME DialogRight,
         \/ D!Opens \/ D!AnsweredThere \/ D!BroughtBack \/ D!Mirrors \/ D!Glitch \/ D!LinkDown
         \/ D!LinkUp \/ D!Arrives \/ D!Later
  PROVE  DialogRight'
<1>1. /\ UNCHANGED <<note, held, given, told, dialogPass, take>>
      /\ opened' \in {opened, opened + 1} /\ mirror' \in {mirror, asks, 0}
      /\ \/ asks' \in {asks, 0} /\ opened' = opened
         \/ asks' = opened + 1 /\ opened' = opened + 1 /\ UNCHANGED <<mirror, away>>
      /\ \/ UNCHANGED away
         \/ away' = FALSE
  BY DEF D!Opens, D!AnsweredThere, D!BroughtBack, D!Mirrors, D!Glitch, D!LinkDown,
     D!LinkUp, D!Arrives, D!Later, D!agent, D!kept
<1>2. /\ asks \in Nat /\ opened \in Nat /\ mirror \in Nat /\ asks <= opened /\ mirror <= opened
  BY DEF DialogRight, DialogTyped, Known
<1>3. asks' \in Nat /\ opened' \in Nat /\ mirror' \in Nat
      /\ opened <= opened' /\ asks' <= opened' /\ mirror' <= opened'
  BY <1>1, <1>2
<1>4. ASSUME NEW t \in Nat, t # 0, t <= opened, Past(t) PROVE t # asks' /\ t # D!Dialog'
  <2>1. t # opened + 1 /\ t # asks
    BY <1>2, <1>4 DEF Past
  <2>2. mirror' = mirror => t # D!Dialog'
    BY <1>1, <1>4 DEF Past, D!Dialog
  <2> QED
    BY <1>1, <1>4, <2>1, <2>2 DEF D!Dialog
<1> QED
  BY <1>1, <1>3, <1>4, AgentGoes

-----------------------------------------------------------------------------
(* Without a new answer, what was answered and told stays right where the   *)
(* note keeps its dialog and its state, and the pass and the card are of no *)
(* dialog that is past.                                                     *)
LEMMA NothingGiven ==
  ASSUME DialogRight, UNCHANGED <<asks, opened, mirror, away, given, told>>,
         DialogTyped', take.step = "note" => take'.step = "note" \/ note'.state = "answered",
         \/ /\ note'.tool = note.tool /\ note.index <= note'.index
            /\ note.state = "answered" => note'.state = "answered"
         \/ note.tool = 0,
         held'.tool \in {held.tool, note'.tool, dialogPass.tool, 0},
         note'.tool \in {note.tool, dialogPass.tool},
         dialogPass'.tool \in {dialogPass.tool, D!Dialog, 0}
  PROVE  GivenRight' /\ ToldRight'
<1>1. D!Dialog' = D!Dialog
  BY DEF D!Dialog
<1>2. \A t \in Nat : t # 0 /\ Past(t) => Past(t)'
  BY <1>1 DEF Past
<1>3. given \in SUBSET Answer /\ \A p \in given : p[1] \in Nat /\ p[2] \in Nat
  BY DEF DialogRight, DialogTyped, Answer
<1>4. note.tool \in Nat /\ note.index \in Nat /\ note'.index \in Nat
  BY DEF DialogRight, DialogTyped, NoteType
<1>5. \A t \in Nat : t # 0 /\ note.tool = t /\ Over => note'.tool = t /\ Over'
  BY DEF Over
<1>6. GivenRight'
  <2>1. SUFFICES ASSUME NEW p \in given
                 PROVE  /\ p[1] # 0 /\ p[1] <= opened
                        /\ \/ /\ note'.tool = p[1] /\ p[2] <= note'.index
                              /\ p[2] < note'.index \/ Over'
                           \/ Past(p[1])'
    BY DEF GivenRight
  <2>2. CASE Past(p[1])
    BY <1>2, <1>3, <2>1, <2>2 DEF DialogRight, GivenRight
  <2>3. CASE note.tool = p[1] /\ p[2] <= note.index /\ (p[2] < note.index \/ Over)
    BY <1>3, <1>4, <1>5, <2>1, <2>3 DEF DialogRight, GivenRight
  <2> QED
    BY <2>1, <2>2, <2>3 DEF DialogRight, GivenRight
<1>7. ToldRight'
  BY <1>2, <1>5 DEF DialogRight, ToldRight
<1> QED
  BY <1>6, <1>7

(* What the pass reads is the note that is there.                           *)
LEMMA LooksKeeps ==
  ASSUME DialogRight, D!PassLooks
  PROVE  DialogRight'
<1>1. /\ UNCHANGED <<asks, opened, mirror, away, note, held, given, told, take>>
      /\ \/ dialogPass' = D!Rest
         \/ /\ dialogPass' = [step |-> dialogPass'.step, tool |-> D!Dialog, note |-> note,
                               card |-> 0]
            /\ \/ dialogPass'.step = "drop"
               \/ dialogPass'.step = "escape" /\ note.state = "answered"
               \/ dialogPass'.step = "card" /\ ~D!Gone
      /\ dialogPass.step = "rest" /\ (D!Dialog # 0 \/ note # D!NoNote)
  BY DEF D!PassLooks, D!agent, D!kept, D!Rest, D!Nothing
<1>2. D!NoNote \in NoteType /\ D!Rest.step = "rest" /\ D!Rest.tool = 0 /\ D!Rest.card = 0
      /\ D!Rest.note = D!NoNote
  BY DEF D!NoNote, D!Rest, D!Nothing, NoteType
<1>3. D!Dialog \in Nat /\ D!Dialog <= opened
  BY DEF DialogRight, DialogTyped, Known, D!Dialog
<1>4. dialogPass'.step \in {"rest", "drop", "escape", "card"} /\ dialogPass'.tool \in {0, D!Dialog}
  BY <1>1, <1>2
<1>5. DialogTyped'
  BY <1>1, <1>2, <1>3 DEF DialogRight, DialogTyped, D!Rest, D!Nothing
<1>6. Known'
  BY <1>1, <1>3, <1>4 DEF DialogRight, DialogTyped, Known
<1>7. NoteRight' /\ TakeRight'
  BY <1>1 DEF DialogRight, NoteRight, TakeRight
<1>8. PassRight'
  BY <1>1, <1>2, <1>4 DEF DialogRight, PassRight, D!Gone, D!Same
<1>9. HeldRight'
  BY <1>1, <1>4 DEF DialogRight, HeldRight, HeldAsks, HeldFirst
<1>10. GivenRight' /\ ToldRight'
  <2>1. note.index \in Nat /\ take.step = take'.step /\ note = note' /\ held = held'
    BY <1>1 DEF DialogRight, DialogTyped, NoteType
  <2>2. note.index <= note'.index
    BY <2>1
  <2>3. UNCHANGED <<asks, opened, mirror, away, given, told>>
    BY <1>1
  <2> QED
    BY <1>4, <1>5, <2>1, <2>2, <2>3, NothingGiven
<1> QED
  BY <1>5, <1>6, <1>7, <1>8, <1>9, <1>10 DEF DialogRight

(* The pass is over and wrote nothing.                                      *)
LEMMA PassRests ==
  ASSUME DialogRight, UNCHANGED <<asks, opened, mirror, away, note, held, given, told>>,
         take'.step = take.step, take' = take \/ take' = D!NoTake,
         dialogPass.step # "note", dialogPass' = D!Rest
  PROVE  DialogRight'
<1>1. D!NoNote \in NoteType /\ D!Rest.step = "rest" /\ D!Rest.tool = 0 /\ D!Rest.card = 0
      /\ D!Rest.note = D!NoNote
  BY DEF D!NoNote, D!Rest, D!Nothing, NoteType
<1>2. take' = take \/ (take' = D!NoTake /\ take.step = "none")
  BY DEF D!NoTake
<1>3. D!NoTake \in [step : {"none"}, note : NoteType, answers : Seq(Answer)]
  BY <1>1 DEF D!NoTake
<1>5. DialogTyped'
  <2>1. D!Rest \in [step : {"rest"}, tool : {0}, note : NoteType, card : {0}]
    BY <1>1 DEF D!Rest, D!Nothing
  <2> QED
    BY <1>2, <1>3, <2>1 DEF DialogRight, DialogTyped
<1>6. Known'
  BY <1>1 DEF DialogRight, DialogTyped, Known
<1>7. NoteRight' /\ TakeRight'
  BY <1>2 DEF DialogRight, NoteRight, TakeRight
<1>8. PassRight'
  BY <1>1 DEF DialogRight, PassRight
<1>9. HeldRight'
  BY <1>1 DEF DialogRight, HeldRight, HeldAsks, HeldFirst
<1>10. GivenRight' /\ ToldRight'
  <2>1. note.index \in Nat
    BY DEF DialogRight, DialogTyped, NoteType
  <2>2. note.index <= note'.index /\ dialogPass'.tool = 0
    BY <1>1, <2>1
  <2> QED
    BY <1>5, <2>1, <2>2, NothingGiven
<1> QED
  BY <1>5, <1>6, <1>7, <1>8, <1>9, <1>10 DEF DialogRight

(* The pass finds the card of the note, or that it is gone.                 *)
LEMMA CardKeeps ==
  ASSUME DialogRight, D!PassCard
  PROVE  DialogRight'
<1> DEFINE there == dialogPass.note.card # 0 /\ dialogPass.note.card = held.card
<1>1. /\ UNCHANGED <<asks, opened, mirror, away, note, held, given, told, take>>
      /\ dialogPass.step = "card"
      /\ \/ dialogPass' = D!Rest
         \/ /\ dialogPass' = [dialogPass EXCEPT !.step = "hold",
                                !.note.card = IF there THEN dialogPass.note.card ELSE 0]
            /\ dialogPass.note = D!NoNote \/ (dialogPass.note.state = "asked" /\ ~there)
  BY DEF D!PassCard, D!agent, D!kept, D!Nothing
<1>2. D!NoNote \in NoteType /\ D!Rest.step = "rest" /\ D!Rest.tool = 0 /\ D!Rest.card = 0
      /\ D!Rest.note = D!NoNote /\ D!NoNote.card = 0 /\ D!NoNote.state = "none"
      /\ D!NoNote.index = 0 /\ D!NoNote.tool = 0
  BY DEF D!NoNote, D!Rest, D!Nothing, NoteType
<1>a. dialogPass.note \in NoteType /\ dialogPass.tool \in Nat /\ note \in NoteType
  BY DEF DialogRight, DialogTyped
<1>3. CASE dialogPass' = D!Rest
  BY <1>1, <1>3, PassRests
<1>4. CASE dialogPass' # D!Rest
  <2>1. ~there
    BY <1>1, <1>2, <1>4
  <2>2. /\ dialogPass'.step = "hold" /\ dialogPass'.tool = dialogPass.tool
        /\ dialogPass'.card = dialogPass.card
        /\ dialogPass'.note.tool = dialogPass.note.tool
        /\ dialogPass'.note.index = dialogPass.note.index
        /\ dialogPass'.note.answers = dialogPass.note.answers
        /\ dialogPass'.note.state = dialogPass.note.state /\ dialogPass'.note.card = 0
        /\ dialogPass.note.state \in {"none", "asked"}
    <3>1. dialogPass' = [dialogPass EXCEPT !.step = "hold",
                                           !.note = [dialogPass.note EXCEPT !.card = 0]]
      BY <1>1, <1>4, <2>1
    <3>2. /\ dialogPass' = [step |-> "hold", tool |-> dialogPass.tool, card |-> dialogPass.card,
                            note |-> [dialogPass.note EXCEPT !.card = 0]]
      BY <3>1 DEF DialogRight, DialogTyped
    <3>3. /\ dialogPass'.note = [tool |-> dialogPass.note.tool, index |-> dialogPass.note.index,
              answers |-> dialogPass.note.answers, card |-> 0, state |-> dialogPass.note.state]
      BY <1>a, <3>2 DEF NoteType
    <3>4. dialogPass.note.state \in {"none", "asked"}
      BY <1>1, <1>2, <1>4
    <3> QED
      BY <3>2, <3>3, <3>4
  <2>5. DialogTyped'
    <3>1. dialogPass' = [dialogPass EXCEPT !.step = "hold",
                                           !.note = [dialogPass.note EXCEPT !.card = 0]]
      BY <1>1, <1>4, <2>1
    <3>2. [dialogPass.note EXCEPT !.card = 0] \in NoteType
      BY <1>a DEF NoteType
    <3> QED
      BY <1>1, <3>1, <3>2 DEF DialogRight, DialogTyped
  <2>6. Known'
    BY <1>1, <2>2 DEF DialogRight, DialogTyped, Known
  <2>7. NoteRight' /\ TakeRight'
    BY <1>1 DEF DialogRight, NoteRight, TakeRight
  <2>8. PassRight'
    BY <1>1, <2>2 DEF DialogRight, PassRight, AsRead, Moved
  <2>9. HeldRight'
    <3>1. Moved' = Moved
      BY <1>1, <2>2 DEF Moved
    <3>2. ~Moved => held = D!NoCard \/ take.step = "ends"
      <4>1. SUFFICES ASSUME ~Moved, held # D!NoCard, take.step # "ends" PROVE FALSE
        OBVIOUS
      <4>2. dialogPass.note = note
        BY <1>1, <4>1 DEF DialogRight, PassRight
      <4>3. HeldAsks /\ note.state = "asked"
        BY <1>1, <1>2, <2>2, <4>1, <4>2 DEF DialogRight, HeldRight, HeldAsks, HeldFirst
      <4> QED
        BY <1>1, <2>1, <4>1, <4>2, <4>3 DEF DialogRight, HeldRight, HeldAsks
    <3> QED
      BY <1>1, <2>2, <3>1, <3>2 DEF DialogRight, HeldRight, HeldAsks, HeldFirst
  <2>10. GivenRight' /\ ToldRight'
    <3>1. note.index \in Nat
      BY DEF DialogRight, DialogTyped, NoteType
    <3>2. note.index <= note'.index /\ dialogPass'.tool = dialogPass.tool
      BY <1>1, <2>2, <3>1
    <3> QED
      BY <1>1, <2>5, <3>2, NothingGiven
  <2> QED
    BY <2>5, <2>6, <2>7, <2>8, <2>9, <2>10 DEF DialogRight
<1> QED
  BY <1>3, <1>4

(* There is a name that nothing uses.                                       *)
LEMMA FreshIs == D!Fresh \in 1 .. 4
<1> DEFINE taken == {note.card, dialogPass.note.card, take.note.card}
<1>1. \E c \in 1 .. 4 : c \notin taken
  <2>1. 1 \in 1 .. 4 /\ 2 \in 1 .. 4 /\ 3 \in 1 .. 4 /\ 4 \in 1 .. 4
    OBVIOUS
  <2>2. ~(1 \in taken /\ 2 \in taken /\ 3 \in taken /\ 4 \in taken)
    OBVIOUS
  <2> HIDE DEF taken
  <2> QED
    BY <2>1, <2>2
<1>2. D!Fresh = CHOOSE c \in 1 .. 4 : c \notin taken
  BY DEF D!Fresh
<1> HIDE DEF taken
<1> QED
  BY <1>1, <1>2

(* The pass holds a card for the note it read, and the note is that one.    *)
LEMMA HoldsKeeps ==
  ASSUME DialogRight, D!PassHolds, ~crossed'
  PROVE  DialogRight'
<1> DEFINE new(c) == [card |-> c, tool |-> dialogPass.tool, index |-> dialogPass.note.index]
<1>1. /\ UNCHANGED <<asks, opened, mirror, away, note, given, told, take>>
      /\ dialogPass.step = "hold"
      /\ note.index = dialogPass.note.index /\ note.state = dialogPass.note.state
      /\ dialogPass' = [dialogPass EXCEPT !.step = "note", !.card = held'.card,
                !.note = IF @ = D!NoNote THEN [D!NoNote EXCEPT !.tool = dialogPass.tool] ELSE @]
  BY DEF D!PassHolds, D!Stale, D!agent
<1>a. /\ dialogPass.note \in NoteType /\ dialogPass.tool \in Nat /\ note \in NoteType
      /\ held \in [card : 0 .. 4, tool : Nat, index : Nat]
      /\ dialogPass.card \in 0 .. 4
  BY DEF DialogRight, DialogTyped
<1>b. dialogPass.note.index \in Nat /\ dialogPass.note.answers \in Seq(Answer)
  BY <1>a DEF NoteType
<1>c. dialogPass.tool # 0 /\ dialogPass.tool <= opened
  BY <1>1 DEF DialogRight, PassRight, Known
<1>2. D!NoNote = [tool |-> 0, index |-> 0, answers |-> <<>>, card |-> 0, state |-> "none"]
      /\ D!NoNote \in NoteType /\ D!NoCard.card = 0
  BY DEF D!NoNote, D!NoCard, D!Nothing, NoteType
<1>3. ~Moved /\ AsRead /\ (held = D!NoCard \/ take.step = "ends")
  BY <1>1, <1>a DEF DialogRight, PassRight, HeldRight, Moved, NoteType
<1>4. \/ held = D!NoCard /\ held' = new(D!Fresh)
      \/ held # D!NoCard /\ held' \in {held, new(held.card)}
  BY DEF D!PassHolds, D!Add
<1>5. /\ held' \in [card : 0 .. 4, tool : Nat, index : Nat] /\ held'.tool # 0 /\ held'.card # 0
      /\ held'.tool \in {held.tool, dialogPass.tool}
      /\ take.step # "ends" => held'.tool = dialogPass.tool /\ held'.index = dialogPass.note.index
  <2>1. \A c \in 0 .. 4 : /\ new(c) \in [card : 0 .. 4, tool : Nat, index : Nat]
                          /\ new(c).card = c /\ new(c).tool = dialogPass.tool
                          /\ new(c).index = dialogPass.note.index
    BY <1>a, <1>b
  <2>2. held # D!NoCard => held.tool # 0 /\ held.card # 0 /\ held.card \in 0 .. 4
    BY <1>a DEF DialogRight, HeldRight
  <2>3. D!Fresh \in 0 .. 4 /\ D!Fresh # 0
    BY FreshIs
  <2> HIDE DEF new
  <2> QED
    BY <1>3, <1>4, <1>a, <1>c, <2>1, <2>2, <2>3
<1> HIDE DEF new
<1>6. /\ dialogPass'.step = "note" /\ dialogPass'.tool = dialogPass.tool
      /\ dialogPass'.card = held'.card
      /\ dialogPass'.note = IF dialogPass.note = D!NoNote
                            THEN [D!NoNote EXCEPT !.tool = dialogPass.tool] ELSE dialogPass.note
      /\ dialogPass' = [step |-> "note", tool |-> dialogPass.tool, note |-> dialogPass'.note,
                        card |-> held'.card]
  BY <1>1 DEF DialogRight, DialogTyped
<1>7. /\ dialogPass'.note \in NoteType /\ dialogPass'.note.tool = dialogPass.tool
      /\ dialogPass'.note.index = dialogPass.note.index
      /\ dialogPass'.note.answers = dialogPass.note.answers
      /\ dialogPass'.note.state = dialogPass.note.state
  <2>1. CASE dialogPass.note = D!NoNote
    <3>1. dialogPass'.note = [tool |-> dialogPass.tool, index |-> 0, answers |-> <<>>, card |-> 0,
                              state |-> "none"]
      BY <1>2, <1>6, <2>1
    <3> QED
      BY <1>2, <1>a, <2>1, <3>1 DEF NoteType
  <2>2. CASE dialogPass.note # D!NoNote
    <3>1. dialogPass'.note = dialogPass.note
      BY <1>6, <2>2
    <3>2. note # D!NoNote
      <4>1. SUFFICES ASSUME note = D!NoNote PROVE FALSE
        OBVIOUS
      <4>2. /\ dialogPass.note.card = 0 /\ dialogPass.note.tool = 0 /\ dialogPass.note.index = 0
            /\ dialogPass.note.answers = <<>> /\ dialogPass.note.state = "none"
        BY <1>1, <1>2, <1>3, <4>1 DEF DialogRight, PassRight, AsRead
      <4> QED
        BY <1>2, <1>a, <2>2, <4>2 DEF NoteType
    <3> QED
      BY <1>1, <1>3, <1>a, <3>1, <3>2 DEF DialogRight, PassRight, AsRead
  <2> QED
    BY <2>1, <2>2
<1>8. DialogTyped'
  BY <1>1, <1>5, <1>6, <1>7 DEF DialogRight, DialogTyped
<1>9. Known'
  BY <1>1, <1>5, <1>6 DEF DialogRight, Known
<1>10. NoteRight'
  BY <1>1 DEF DialogRight, NoteRight
<1>11. PassRight'
  BY <1>1, <1>2, <1>3, <1>6, <1>7 DEF DialogRight, PassRight, AsRead
<1>12. TakeRight'
  BY <1>1, <1>3 DEF DialogRight, TakeRight
<1>13. HeldRight'
  <2>1. ASSUME take.step # "ends" PROVE (HeldAsks \/ HeldFirst)'
    <3>1. take.step = "none"
      BY <1>3, <2>1 DEF DialogRight, DialogTyped, TakeRight
    <3>2. CASE note = D!NoNote
      BY <1>1, <1>2, <1>5, <1>6, <2>1, <3>2 DEF HeldFirst
    <3>3. CASE note # D!NoNote
      BY <1>1, <1>3, <1>5, <1>6, <2>1, <3>1, <3>3
         DEF DialogRight, NoteRight, PassRight, AsRead, HeldAsks
    <3> QED
      BY <3>2, <3>3
  <2> QED
    BY <1>1, <1>5, <1>6, <2>1 DEF HeldRight
<1>14. GivenRight' /\ ToldRight'
  <2>1. note.index <= note'.index
    BY <1>1, <1>b
  <2> QED
    BY <1>1, <1>5, <1>6, <1>8, <2>1, NothingGiven
<1> QED
  BY <1>8, <1>9, <1>10, <1>11, <1>12, <1>13, <1>14 DEF DialogRight

(* The note it writes is the one it read, with the card that waits.         *)
LEMMA NotesKeeps ==
  ASSUME DialogRight, D!PassNotes, ~crossed'
  PROVE  DialogRight'
<1>1. /\ UNCHANGED <<asks, opened, mirror, away, held, given, told, take>>
      /\ dialogPass.step = "note" /\ dialogPass' = D!Rest
      /\ note.index = dialogPass.note.index /\ note.state = dialogPass.note.state
      /\ note.answers = dialogPass.note.answers
      /\ note' = [dialogPass.note EXCEPT !.card = dialogPass.card, !.state = "asked"]
  BY DEF D!PassNotes, D!Stale, D!agent
<1>2. D!NoNote = [tool |-> 0, index |-> 0, answers |-> <<>>, card |-> 0, state |-> "none"]
      /\ D!NoNote \in NoteType
  BY DEF D!NoNote, D!Nothing, NoteType
<1>3. /\ D!Rest \in [step : {"rest"}, tool : {0}, note : NoteType, card : {0}]
  BY <1>2 DEF D!Rest, D!Nothing
<1>a. /\ dialogPass.note \in NoteType /\ dialogPass.card \in 0 .. 4 /\ note \in NoteType
      /\ dialogPass.tool \in Nat
  BY DEF DialogRight, DialogTyped
<1>4. note' = [tool |-> dialogPass.note.tool, index |-> dialogPass.note.index,
               answers |-> dialogPass.note.answers, card |-> dialogPass.card, state |-> "asked"]
  BY <1>1, <1>a DEF NoteType
<1>5. /\ note'.tool = dialogPass.tool /\ dialogPass.tool # 0 /\ note'.index = note.index
      /\ note'.answers = note.answers /\ note'.state = "asked" /\ note'.card = dialogPass.card
      /\ note' \in NoteType /\ note.state \in {"none", "asked"}
      /\ note = D!NoNote \/ note.tool = dialogPass.tool
  BY <1>1, <1>4, <1>a DEF DialogRight, PassRight, NoteType
<1>6. DialogTyped'
  BY <1>1, <1>3, <1>5 DEF DialogRight, DialogTyped
<1>7. Known'
  BY <1>1, <1>3, <1>5 DEF DialogRight, DialogTyped, Known
<1>8. NoteRight'
  <2>1. CASE note = D!NoNote
    <3>1. note.answers = <<>> /\ note.index = 0
      BY <1>2, <2>1
    <3> QED
      BY <1>5, <3>1 DEF NoteRight, Row
  <2>2. CASE note # D!NoNote
    BY <1>5, <2>2 DEF DialogRight, NoteRight
  <2> QED
    BY <2>1, <2>2
<1>9. PassRight'
  BY <1>1, <1>3 DEF PassRight
<1>10. TakeRight'
  BY <1>1, <1>2, <1>5 DEF DialogRight, TakeRight
<1>11. HeldRight'
  <2>1. ASSUME take.step # "ends", held # D!NoCard PROVE HeldAsks'
    BY <1>1, <1>2, <1>3, <1>5, <2>1 DEF DialogRight, HeldRight, HeldAsks, HeldFirst
  <2> QED
    BY <1>1, <1>3, <2>1 DEF DialogRight, HeldRight
<1>12. GivenRight' /\ ToldRight'
  <2>1. note.index <= note'.index /\ note.state # "answered" /\ dialogPass'.tool = 0
    BY <1>1, <1>3, <1>5, <1>a DEF NoteType
  <2>2. note.tool = 0 \/ note'.tool = note.tool
    BY <1>2, <1>5
  <2> QED
    BY <1>1, <1>5, <1>6, <2>1, <2>2, NothingGiven
<1> QED
  BY <1>6, <1>7, <1>8, <1>9, <1>10, <1>11, <1>12 DEF DialogRight

(* The pass drops the note of a dialog that closed, and its card with it.   *)
LEMMA DropsKeeps ==
  ASSUME DialogRight, D!PassDrops, ~crossed'
  PROVE  DialogRight'
<1>1. /\ UNCHANGED <<asks, opened, mirror, away, given, told, take>>
      /\ dialogPass.step = "drop" /\ dialogPass' = D!Rest /\ take.step = "none"
  BY DEF D!PassDrops, D!agent, D!kept
<1>2. CASE note = D!NoNote \/ D!Same(note, D!Dialog)
  <2>1. UNCHANGED <<note, held>>
    BY <1>2 DEF D!PassDrops, D!kept
  <2> QED
    BY <1>1, <2>1, PassRests
<1>3. CASE ~(note = D!NoNote \/ D!Same(note, D!Dialog))
  <2>1. /\ note' = D!NoNote /\ asks # note.tool
        /\ held' = IF note.card = held.card THEN D!NoCard ELSE held
    BY <1>3 DEF D!PassDrops
  <2>2. D!NoNote = [tool |-> 0, index |-> 0, answers |-> <<>>, card |-> 0, state |-> "none"]
        /\ D!NoNote \in NoteType /\ D!NoCard = [card |-> 0, tool |-> 0, index |-> 0]
    BY DEF D!NoNote, D!NoCard, D!Nothing, NoteType
  <2>3. D!Rest \in [step : {"rest"}, tool : {0}, note : NoteType, card : {0}]
    BY <2>2 DEF D!Rest, D!Nothing
  <2>4. held' = D!NoCard
    <3>1. held # D!NoCard => held.card = note.card
      BY <1>1, <1>3 DEF DialogRight, HeldRight, HeldAsks, HeldFirst
    <3> QED
      BY <2>1, <3>1
  <2>5. note.tool # 0 /\ note.tool # D!Dialog
    BY <1>3 DEF DialogRight, NoteRight, D!Same
  <2>6. D!Dialog' = D!Dialog
    BY <1>1 DEF D!Dialog
  <2>7. /\ note'.tool = 0 /\ note'.index = 0 /\ note'.answers = <<>> /\ note'.state = "none"
        /\ held'.tool = 0 /\ dialogPass'.tool = 0 /\ dialogPass'.step = "rest"
        /\ held' \in [card : 0 .. 4, tool : Nat, index : Nat]
    BY <1>1, <2>1, <2>2, <2>3, <2>4
  <2>8. \A t \in Nat : t # 0 /\ (Past(t) \/ note.tool = t) => Past(t)'
    BY <1>1, <2>1, <2>5, <2>6, <2>7 DEF Past
  <2>9. DialogTyped'
    BY <1>1, <2>1, <2>2, <2>3, <2>7 DEF DialogRight, DialogTyped
  <2>10. Known'
    BY <1>1, <2>7 DEF DialogRight, DialogTyped, Known
  <2>11. NoteRight'
    BY <2>1, <2>7 DEF NoteRight, Row
  <2>12. PassRight' /\ TakeRight' /\ HeldRight'
    BY <1>1, <2>4, <2>7 DEF PassRight, TakeRight, HeldRight
  <2>13. GivenRight'
    <3>1. \A p \in given : p[1] \in Nat
      BY DEF DialogRight, DialogTyped, Answer
    <3> QED
      BY <1>1, <2>8, <3>1 DEF DialogRight, GivenRight
  <2>14. ToldRight'
    BY <1>1, <2>8 DEF DialogRight, ToldRight
  <2> QED
    BY <2>9, <2>10, <2>11, <2>12, <2>13, <2>14 DEF DialogRight
<1> QED
  BY <1>2, <1>3

(* The Escape that goes again writes the note as it is.                     *)
LEMMA EscapesKeeps ==
  ASSUME DialogRight, D!PassEscapes
  PROVE  DialogRight'
<1>1. /\ UNCHANGED <<asks, opened, mirror, away, held, given, told, take>>
      /\ dialogPass.step = "escape" /\ dialogPass' = D!Rest /\ note' = dialogPass.note
  BY DEF D!PassEscapes, D!agent
<1>2. note' = note
  BY <1>1 DEF DialogRight, PassRight
<1> QED
  BY <1>1, <1>2, PassRests

(* The daemon restarts between two answers.                                 *)
LEMMA RestartKeeps ==
  ASSUME DialogRight, D!Restart, ~crossed'
  PROVE  DialogRight'
<1>1. /\ UNCHANGED <<asks, opened, mirror, away, note, held, given, told>>
      /\ dialogPass.step # "note" /\ dialogPass' = D!Rest /\ take.step = "none"
      /\ take' = D!NoTake /\ D!NoTake.step = "none"
  BY DEF D!Restart, D!kept, D!NoTake
<1> QED
  BY <1>1, PassRests

-----------------------------------------------------------------------------
(* An answer makes the note go on: what the pass read is of before.         *)
LEMMA PassMoved ==
  ASSUME DialogRight, UNCHANGED dialogPass, note # D!NoNote, note' \in NoteType,
         note'.tool = note.tool, note.state \in {"asked", "refused"},
         \/ note.index < note'.index
         \/ note'.index = note.index /\ note'.state = "answered"
         \/ note'.index = note.index /\ note.state = "asked" /\ note'.state = "refused"
  PROVE  /\ PassRight'
         /\ dialogPass.step \in {"card", "hold", "note"} => Moved'
<1>a. /\ dialogPass.note \in NoteType /\ note \in NoteType
  BY DEF DialogRight, DialogTyped
<1>b. /\ dialogPass.note.index \in Nat /\ note.index \in Nat /\ note'.index \in Nat
      /\ dialogPass.note.state \in {"none", "asked", "answered", "refused"}
  BY <1>a DEF NoteType
<1>1. note.tool # 0 /\ note' # D!NoNote /\ D!NoNote.tool = 0
  BY DEF DialogRight, NoteRight, D!NoNote, D!Nothing
<1>2. dialogPass.step \in {"card", "hold", "note"} => AsRead \/ Moved
  BY DEF DialogRight, PassRight, AsRead
<1>3. dialogPass.step # "escape"
  BY DEF DialogRight, PassRight
<1>4. ASSUME AsRead \/ Moved PROVE Moved'
  <2>1. CASE AsRead
    BY <1>b, <2>1 DEF AsRead, Moved
  <2>2. CASE Moved
    BY <1>b, <2>2 DEF Moved
  <2> QED
    BY <1>4, <2>1, <2>2
<1>5. dialogPass.step \in {"card", "hold", "note"} => Moved'
  BY <1>2, <1>4
<1> QED
  BY <1>1, <1>3, <1>5 DEF DialogRight, PassRight

(* A card that waits while no answer runs, and its note, ask the same.      *)
LEMMA HeldIsAsked ==
  ASSUME DialogRight, take.step = "none", held # D!NoCard
  PROVE  /\ held.tool # 0
         /\ note.tool = held.tool =>
              /\ note # D!NoNote /\ held.index = note.index /\ note.state = "asked"
              /\ held.card # 0 /\ note.tool <= opened /\ note.tool \in Nat /\ note.index \in Nat
              /\ note.answers = Row(note.tool, note.index)
              /\ Append(note.answers, <<held.tool, held.index>>) = Row(note.tool, note.index + 1)
              /\ Append(note.answers, <<held.tool, held.index>>) \in Seq(Answer)
         /\ dialogPass.step = "hold" => Moved
<1>1. held.tool # 0 /\ held.card # 0 /\ (dialogPass.step = "hold" => Moved)
  BY DEF DialogRight, HeldRight
<1>2. ASSUME note.tool = held.tool
      PROVE  note # D!NoNote /\ held.index = note.index /\ note.state = "asked"
  BY <1>1, <1>2 DEF DialogRight, HeldRight, HeldAsks, HeldFirst, D!NoNote, D!Nothing
<1>3. note.tool \in Nat /\ note.index \in Nat /\ note.tool <= opened
  BY DEF DialogRight, DialogTyped, NoteType, Known
<1>4. ASSUME note.tool = held.tool
      PROVE  /\ note.answers = Row(note.tool, note.index)
             /\ Append(note.answers, <<held.tool, held.index>>) = Row(note.tool, note.index + 1)
             /\ Append(note.answers, <<held.tool, held.index>>) \in Seq(Answer)
  <2>1. note.answers = Row(note.tool, note.index)
    BY <1>2, <1>4 DEF DialogRight, NoteRight
  <2>2. Append(note.answers, <<held.tool, held.index>>) = Row(note.tool, note.index + 1)
    BY <1>2, <1>3, <1>4, <2>1, RowGrows
  <2>3. Row(note.tool, note.index + 1) \in Seq(Answer)
    <3>1. note.index + 1 \in Nat
      BY <1>3
    <3> QED
      BY <1>3, <3>1, RowGrows
  <2> QED
    BY <2>1, <2>2, <2>3
<1> QED
  BY <1>1, <1>2, <1>3, <1>4

(* An answer ends, or goes on, with the note as it is.                      *)
LEMMA TakeGoes ==
  ASSUME DialogRight, UNCHANGED <<asks, opened, mirror, away, note, held, given, told, dialogPass>>,
         take' \in [step : {"none", "close", "line", "note", "ends"}, note : NoteType,
                    answers : Seq(Answer)],
         take.step \notin {"note", "ends"}, TakeRight',
         \/ take'.step \in {"close", "line", "ends"}
         \/ /\ take'.step = "none" /\ take.step # "none" /\ held # D!NoCard
            /\ note.state = "asked"
  PROVE  DialogRight'
<1>1. DialogTyped' /\ Known' /\ NoteRight'
  BY DEF DialogRight, DialogTyped, Known, NoteRight
<1>2. PassRight' /\ Moved' = Moved
  BY DEF DialogRight, PassRight, AsRead, Moved
<1>3. HeldRight'
  BY <1>2 DEF DialogRight, HeldRight, HeldAsks, HeldFirst
<1>4. GivenRight' /\ ToldRight'
  <2>1. note.index <= note'.index
    BY DEF DialogRight, DialogTyped, NoteType
  <2> QED
    BY <1>1, <2>1, NothingGiven
<1> QED
  BY <1>1, <1>2, <1>3, <1>4 DEF DialogRight

(* No answer runs, or one that ends.                                        *)
LEMMA NoTakeIs ==
  /\ D!NoTake.step = "none"
  /\ D!NoTake \in [step : {"none"}, note : NoteType, answers : Seq(Answer)]
  /\ [D!NoTake EXCEPT !.step = "ends"].step = "ends"
  /\ [D!NoTake EXCEPT !.step = "ends"] \in [step : {"ends"}, note : NoteType, answers : Seq(Answer)]
<1>1. D!NoNote \in NoteType
  BY DEF D!NoNote, D!Nothing, NoteType
<1>2. D!NoTake = [step |-> "none", note |-> D!NoNote, answers |-> <<>>]
      /\ [D!NoTake EXCEPT !.step = "ends"] = [step |-> "ends", note |-> D!NoNote, answers |-> <<>>]
  BY DEF D!NoTake
<1>3. <<>> \in Seq(Answer)
  OBVIOUS
<1> QED
  BY <1>1, <1>2, <1>3

(* A yes: the answer of its question is taken, and the last one closes.     *)
LEMMA YesKeeps ==
  ASSUME DialogRight, D!TakeYes
  PROVE  DialogRight'
<1> DEFINE answers == Append(note.answers, <<held.tool, held.index>>)
<1>1. /\ UNCHANGED <<asks, opened, mirror, away, held, told, dialogPass>>
      /\ take.step = "none" /\ held # D!NoCard
  BY DEF D!TakeYes, D!agent
<1>2. CASE D!Fits /\ D!Same(note, D!Dialog) /\ held.index + 1 < Questions
  <2>1. /\ note' = [note EXCEPT !.answers = answers, !.card = 0, !.index = @ + 1]
        /\ given' = given \cup {<<held.tool, held.index>>}
        /\ take' = [D!NoTake EXCEPT !.step = "ends"]
    BY <1>2 DEF D!TakeYes, D!Nothing
  <2>2. /\ held.tool # 0 /\ note.tool = held.tool /\ note # D!NoNote /\ held.index = note.index
        /\ note.state = "asked" /\ note.tool <= opened /\ note.tool \in Nat /\ note.index \in Nat
        /\ answers = Row(note.tool, note.index + 1) /\ answers \in Seq(Answer)
    BY <1>1, <1>2, HeldIsAsked DEF D!Fits, D!Same
  <2>3. note \in NoteType
    BY DEF DialogRight, DialogTyped
  <2> HIDE DEF answers
  <2>4. note' = [tool |-> note.tool, index |-> note.index + 1, answers |-> answers, card |-> 0,
                 state |-> "asked"]
    BY <2>1, <2>2, <2>3 DEF NoteType
  <2>5. note' \in NoteType
    BY <2>2, <2>4 DEF NoteType
  <2>6. take'.step = "ends"
        /\ take' \in [step : {"ends"}, note : NoteType, answers : Seq(Answer)]
    BY <2>1, NoTakeIs
  <2>7. <<held.tool, held.index>> \in Answer
    BY <2>2 DEF Answer
  <2>8. DialogTyped'
    BY <1>1, <2>1, <2>5, <2>6, <2>7 DEF DialogRight, DialogTyped
  <2>9. Known' /\ NoteRight'
    BY <1>1, <2>2, <2>4 DEF DialogRight, Known, NoteRight
  <2>10. PassRight' /\ (dialogPass.step = "hold" => Moved')
    <3>1. note.index < note'.index /\ note'.tool = note.tool
      BY <2>2, <2>4
    <3> QED
      BY <1>1, <2>2, <2>5, <3>1, PassMoved
  <2>11. HeldRight' /\ TakeRight'
    BY <1>1, <2>6, <2>10 DEF DialogRight, HeldRight, TakeRight
  <2>12. \A t : Past(t) => Past(t)'
    BY <1>1, <2>4 DEF Past, D!Dialog
  <2>13. GivenRight'
    <3>1. ASSUME NEW p \in given
          PROVE  /\ p[1] # 0 /\ p[1] <= opened
                 /\ \/ note'.tool = p[1] /\ p[2] <= note'.index /\ (p[2] < note'.index \/ Over')
                    \/ Past(p[1])'
      <4>1. p[1] \in Nat /\ p[2] \in Nat
        BY DEF DialogRight, DialogTyped, Answer
      <4>2. ~Over
        BY <1>1, <2>2 DEF Over
      <4> QED
        BY <2>2, <2>4, <2>12, <4>1, <4>2 DEF DialogRight, GivenRight
    <3>2. note'.tool = held.tool /\ held.index <= note'.index /\ held.index < note'.index
      BY <2>2, <2>4
    <3> QED
      BY <1>1, <2>1, <2>2, <3>1, <3>2 DEF GivenRight
  <2>14. ToldRight'
    <3>1. ~Over
      BY <1>1, <2>2 DEF Over
    <3> QED
      BY <1>1, <2>12, <3>1 DEF DialogRight, ToldRight
  <2> QED
    BY <2>8, <2>9, <2>10, <2>11, <2>13, <2>14 DEF DialogRight
<1>3. CASE D!Fits /\ D!Same(note, D!Dialog) /\ ~(held.index + 1 < Questions)
  <2>1. /\ UNCHANGED <<note, given>>
        /\ take' = [step |-> "close", note |-> note, answers |-> answers]
    BY <1>3 DEF D!TakeYes
  <2>2. /\ note.tool = held.tool /\ note # D!NoNote /\ note.state = "asked"
        /\ answers = Row(note.tool, note.index + 1) /\ answers \in Seq(Answer)
    BY <1>1, <1>3, HeldIsAsked DEF D!Fits, D!Same
  <2>3. note \in NoteType
    BY DEF DialogRight, DialogTyped
  <2> HIDE DEF answers
  <2>4. TakeRight'
    BY <1>1, <2>1, <2>2 DEF TakeRight
  <2> QED
    BY <1>1, <2>1, <2>2, <2>3, <2>4, TakeGoes
<1>4. CASE ~(D!Fits /\ D!Same(note, D!Dialog))
  <2>1. UNCHANGED <<note, given>> /\ take' = [D!NoTake EXCEPT !.step = "ends"]
    BY <1>4 DEF D!TakeYes
  <2>2. TakeRight'
    BY <2>1, NoTakeIs DEF TakeRight
  <2> QED
    BY <1>1, <2>1, <2>2, NoTakeIs, TakeGoes
<1> QED
  BY <1>2, <1>3, <1>4

(* A no: its card goes, and with words the dialog closes as for a yes.      *)
LEMMA NoKeeps ==
  ASSUME DialogRight, NEW words, D!TakeNo(words)
  PROVE  DialogRight'
<1> DEFINE answers == Append(note.answers, <<held.tool, held.index>>)
<1>1. /\ UNCHANGED <<asks, opened, mirror, away, held, given, told, dialogPass>>
      /\ take.step = "none" /\ held # D!NoCard
      /\ \/ take' = [D!NoTake EXCEPT !.step = "ends"]
         \/ /\ D!Same(note, held.tool)
            /\ take' = [step |-> "close", note |-> note', answers |-> answers]
  BY DEF D!TakeNo, D!agent
<1>2. CASE ~D!Same(note, held.tool)
  <2>1. note' = note /\ take' = [D!NoTake EXCEPT !.step = "ends"]
    BY <1>1, <1>2 DEF D!TakeNo
  <2>2. TakeRight'
    BY <2>1, NoTakeIs DEF TakeRight
  <2> QED
    BY <1>1, <2>1, <2>2, NoTakeIs, TakeGoes
<1>3. CASE D!Same(note, held.tool)
  <2>1. note' = [note EXCEPT !.card = 0, !.state = "refused"]
    BY <1>3 DEF D!TakeNo, D!Nothing
  <2>2. /\ held.tool # 0 /\ note.tool = held.tool /\ note # D!NoNote /\ held.index = note.index
        /\ note.state = "asked" /\ note.tool \in Nat /\ note.index \in Nat
        /\ note.answers = Row(note.tool, note.index) /\ held.card # 0
        /\ answers = Row(note.tool, note.index + 1) /\ answers \in Seq(Answer)
    BY <1>1, <1>3, HeldIsAsked DEF D!Same
  <2>3. note \in NoteType
    BY DEF DialogRight, DialogTyped
  <2> HIDE DEF answers
  <2>4. note' = [tool |-> note.tool, index |-> note.index, answers |-> note.answers, card |-> 0,
                 state |-> "refused"]
    BY <2>1, <2>3 DEF NoteType
  <2>5. note' \in NoteType
    BY <2>3, <2>4 DEF NoteType
  <2>6. \/ take'.step = "ends"
           /\ take' \in [step : {"ends"}, note : NoteType, answers : Seq(Answer)]
        \/ /\ take' = [step |-> "close", note |-> note', answers |-> answers]
           /\ take' \in [step : {"close"}, note : NoteType, answers : Seq(Answer)]
    BY <1>1, <2>2, <2>5, NoTakeIs
  <2>7. DialogTyped'
    BY <1>1, <2>5, <2>6 DEF DialogRight, DialogTyped
  <2>8. Known' /\ NoteRight'
    BY <1>1, <2>2, <2>4 DEF DialogRight, Known, NoteRight
  <2>9. PassRight' /\ (dialogPass.step = "hold" => Moved')
    BY <1>1, <2>2, <2>4, <2>5, PassMoved
  <2>10. note' # D!NoNote
    BY <2>4 DEF D!NoNote
  <2>11. TakeRight'
    BY <1>1, <2>2, <2>4, <2>6, <2>10 DEF TakeRight
  <2>12. HeldRight'
    <3>1. HeldAsks'
      BY <1>1, <2>2, <2>4, <2>6 DEF HeldAsks
    <3> QED
      BY <1>1, <2>2, <2>9, <3>1 DEF DialogRight, HeldRight
  <2>13. GivenRight' /\ ToldRight'
    <3>1. note.index <= note'.index /\ note'.tool = note.tool
      BY <2>2, <2>4
    <3> QED
      BY <1>1, <2>2, <2>7, <3>1, NothingGiven
  <2> QED
    BY <2>7, <2>8, <2>9, <2>11, <2>12, <2>13 DEF DialogRight
<1> QED
  BY <1>2, <1>3

(* The Escape goes, or the card of a yes stays.                             *)
LEMMA CloseKeeps ==
  ASSUME DialogRight, D!TakeEscapes
  PROVE  DialogRight'
<1>1. /\ UNCHANGED <<asks, opened, mirror, away, note, held, given, told, dialogPass>>
      /\ take.step = "close"
      /\ \/ take' = [take EXCEPT !.step = "line"]
         \/ take' = [D!NoTake EXCEPT !.step = "ends"]
         \/ take' = [D!NoTake EXCEPT !.step = "none"] /\ take.note.state # "refused"
  <2>1. D!TakeEscapes
    OBVIOUS
  <2>2. /\ take.step = "close" /\ dialogPass' = dialogPass /\ note' = note /\ held' = held
        /\ given' = given /\ told' = told
        /\ asks' = asks /\ opened' = opened /\ mirror' = mirror /\ away' = away
    BY <2>1 DEF D!TakeEscapes, D!kept, D!agent
  <2>3. \/ take' = [take EXCEPT !.step = "line"]
        \/ take' = [D!NoTake EXCEPT !.step = IF take.note.state = "refused" THEN "ends" ELSE "none"]
    BY <2>1 DEF D!TakeEscapes
  <2> QED
    BY <2>2, <2>3
<1>2. /\ held # D!NoCard /\ take.note.state = note.state /\ note.state \in {"asked", "refused"}
      /\ take \in [step : {"none", "close", "line", "note", "ends"}, note : NoteType,
                   answers : Seq(Answer)]
  BY <1>1 DEF DialogRight, TakeRight, DialogTyped
<1>3. CASE take' = [take EXCEPT !.step = "line"]
  <2>1. take'.step = "line" /\ take'.note = take.note /\ take'.answers = take.answers
        /\ take' \in [step : {"none", "close", "line", "note", "ends"}, note : NoteType,
                      answers : Seq(Answer)]
    BY <1>2, <1>3
  <2>2. TakeRight'
    BY <1>1, <2>1 DEF DialogRight, TakeRight
  <2> QED
    BY <1>1, <2>1, <2>2, TakeGoes
<1>4. CASE take' = [D!NoTake EXCEPT !.step = "ends"]
  <2>1. TakeRight'
    BY <1>4, NoTakeIs DEF TakeRight
  <2> QED
    BY <1>1, <1>4, <2>1, NoTakeIs, TakeGoes
<1>5. CASE take' = [D!NoTake EXCEPT !.step = "none"] /\ take.note.state # "refused"
  <2>1. take' = D!NoTake
    BY <1>5 DEF D!NoTake
  <2>2. TakeRight'
    BY <2>1, NoTakeIs DEF TakeRight
  <2> QED
    BY <1>1, <1>2, <1>5, <2>1, <2>2, NoTakeIs, TakeGoes
<1> QED
  BY <1>1, <1>3, <1>4, <1>5

(* The answers of the dialog are told, which were not told before.          *)
LEMMA TellsKeeps ==
  ASSUME DialogRight, D!TakeTells
  PROVE  DialogRight'
<1>1. /\ UNCHANGED <<asks, opened, mirror, away, note, held, dialogPass>>
      /\ take.step = "line" /\ take' = [take EXCEPT !.step = "note"]
      /\ told' = Append(told, take.answers)
      /\ given' = given \cup {take.answers[i] : i \in DOMAIN take.answers}
  BY DEF D!TakeTells, D!agent
<1>2. /\ take \in [step : {"none", "close", "line", "note", "ends"}, note : NoteType,
                   answers : Seq(Answer)]
      /\ note \in NoteType /\ told \in Seq(Seq(Answer))
  BY DEF DialogRight, DialogTyped
<1>3. /\ take'.step = "note" /\ take'.note = take.note /\ take'.answers = take.answers
      /\ take' \in [step : {"note"}, note : NoteType, answers : Seq(Answer)]
      /\ take.answers \in Seq(Answer)
  BY <1>1, <1>2
<1>4. /\ note.tool \in Nat /\ note.index \in Nat /\ note.tool # 0 /\ note.tool <= opened
      /\ take.answers = Row(note.tool, note.index + 1) /\ ~Over
      /\ held # D!NoCard
  BY <1>1, <1>2 DEF DialogRight, TakeRight, NoteRight, NoteType, Known, Over
<1>5. \A i \in DOMAIN take.answers :
        /\ take.answers[i] \in Answer /\ take.answers[i][1] = note.tool
        /\ take.answers[i][2] <= note.index
  BY <1>4 DEF Row, Answer
<1>6. DialogTyped'
  <2>1. told' \in Seq(Seq(Answer))
    BY <1>1, <1>2, <1>3, AppendProperties
  <2>2. given' \in SUBSET Answer
    BY <1>1, <1>5 DEF DialogRight, DialogTyped
  <2> QED
    BY <1>1, <1>3, <2>1, <2>2 DEF DialogRight, DialogTyped
<1>7. Known' /\ NoteRight'
  BY <1>1 DEF DialogRight, Known, NoteRight
<1>8. PassRight' /\ Moved' = Moved
  BY <1>1 DEF DialogRight, PassRight, AsRead, Moved
<1>9. TakeRight'
  BY <1>1, <1>3 DEF DialogRight, TakeRight
<1>10. HeldRight'
  BY <1>1, <1>3, <1>8 DEF DialogRight, HeldRight, HeldAsks, HeldFirst
<1>11. Over' /\ \A t : Past(t) => Past(t)'
  BY <1>1, <1>3 DEF Over, Past, D!Dialog
<1>12. GivenRight'
  BY <1>1, <1>4, <1>5, <1>11 DEF DialogRight, GivenRight
<1>13. ToldRight'
  <2> DEFINE n == Len(told) + 1
  <2>1. /\ Len(told) \in Nat /\ DOMAIN told = 1 .. Len(told) /\ Len(told') = Len(told) + 1
        /\ \A i \in 1 .. Len(told) : told'[i] = told[i]
        /\ told'[Len(told) + 1] = take.answers /\ told' \in Seq(Seq(Answer))
    BY <1>1, <1>2, <1>3, AppendProperties, LenProperties
  <2>2. DOMAIN told' = 1 .. Len(told')
    BY <2>1, LenProperties
  <2>3. /\ told'[n] = take.answers /\ \A i \in DOMAIN told : told'[i] = told[i]
        /\ \A i \in DOMAIN told' : i \in DOMAIN told \/ i = n
    BY <2>1, <2>2
  <2> HIDE DEF n
  <2>4. take.answers[1] = <<note.tool, 0>>
    BY <1>4, RowGrows
  <2>5. ASSUME NEW i \in DOMAIN told
        PROVE  /\ told[i][1] # take.answers[1]
               /\ \E t, k \in Nat : told[i] = Row(t, k + 1) /\ t # 0 /\ t <= opened /\ Past(t)
    <3>1. PICK t \in Nat, k \in Nat :
            told[i] = Row(t, k + 1) /\ t # 0 /\ t <= opened /\ Past(t)
      BY <1>4 DEF DialogRight, ToldRight
    <3>2. told[i][1] = <<t, 0>> /\ t # note.tool
      BY <3>1, RowGrows DEF Past
    <3> QED
      BY <2>4, <3>1, <3>2
  <2>6. ASSUME NEW i \in DOMAIN told'
        PROVE  \E t, k \in Nat :
                 /\ told'[i] = Row(t, k + 1) /\ t # 0 /\ t <= opened
                 /\ Past(t)' \/ (note'.tool = t /\ Over')
    BY <1>1, <1>4, <1>11, <2>3, <2>5
  <2>7. ASSUME NEW i \in DOMAIN told', NEW j \in DOMAIN told', told'[i][1] = told'[j][1]
        PROVE  i = j
    BY <2>3, <2>5, <2>7 DEF DialogRight, ToldRight
  <2> QED
    BY <1>1, <2>6, <2>7 DEF ToldRight
<1> QED
  BY <1>6, <1>7, <1>8, <1>9, <1>10, <1>12, <1>13 DEF DialogRight

(* The note holds what was told.                                            *)
LEMMA AnsweredKeeps ==
  ASSUME DialogRight, D!TakeNotes
  PROVE  DialogRight'
<1>1. /\ UNCHANGED <<asks, opened, mirror, away, held, given, told, dialogPass>>
      /\ take.step = "note" /\ take' = [D!NoTake EXCEPT !.step = "ends"]
      /\ note' = [take.note EXCEPT !.answers = take.answers, !.card = 0, !.state = "answered"]
  BY DEF D!TakeNotes, D!agent, D!Answered, D!Nothing
<1>2. take.note \in NoteType /\ note \in NoteType /\ take.answers \in Seq(Answer)
  BY DEF DialogRight, DialogTyped
<1>3. note' = [tool |-> take.note.tool, index |-> take.note.index, answers |-> take.answers,
               card |-> 0, state |-> "answered"]
  BY <1>1, <1>2 DEF NoteType
<1>4. /\ note'.tool = note.tool /\ note'.index = note.index /\ note'.state = "answered"
      /\ note'.answers = Row(note.tool, note.index + 1) /\ note # D!NoNote
      /\ note.state \in {"asked", "refused"} /\ held # D!NoCard
  BY <1>1, <1>3 DEF DialogRight, TakeRight
<1>5. note' \in NoteType
  BY <1>2, <1>3 DEF NoteType
<1>6. DialogTyped'
  BY <1>1, <1>5, NoTakeIs DEF DialogRight, DialogTyped
<1>7. Known' /\ NoteRight'
  BY <1>1, <1>4 DEF DialogRight, Known, NoteRight
<1>8. PassRight' /\ (dialogPass.step = "hold" => Moved')
  BY <1>1, <1>4, <1>5, PassMoved
<1>9. TakeRight' /\ HeldRight'
  BY <1>1, <1>8, NoTakeIs DEF DialogRight, TakeRight, HeldRight
<1>10. GivenRight' /\ ToldRight'
  <2>1. note.index <= note'.index
    BY <1>2, <1>4 DEF NoteType
  <2> QED
    BY <1>1, <1>4, <1>6, <2>1, NothingGiven
<1> QED
  BY <1>6, <1>7, <1>8, <1>9, <1>10 DEF DialogRight

(* The card goes with the end of its answer.                                *)
LEMMA EndsKeeps ==
  ASSUME DialogRight, D!TakeEnds
  PROVE  DialogRight'
<1>1. /\ UNCHANGED <<asks, opened, mirror, away, note, given, told, dialogPass>>
      /\ take.step = "ends" /\ take' = D!NoTake /\ held' = D!NoCard
  BY DEF D!TakeEnds, D!agent
<1>2. D!NoCard \in [card : 0 .. 4, tool : {0}, index : Nat]
  BY DEF D!NoCard, D!Nothing
<1>3. DialogTyped'
  BY <1>1, <1>2, NoTakeIs DEF DialogRight, DialogTyped
<1>4. Known' /\ NoteRight'
  BY <1>1, <1>2 DEF DialogRight, DialogTyped, Known, NoteRight
<1>5. PassRight' /\ TakeRight' /\ HeldRight'
  BY <1>1, NoTakeIs DEF DialogRight, PassRight, AsRead, Moved, TakeRight, HeldRight
<1>6. GivenRight' /\ ToldRight'
  <2>1. note.index <= note'.index /\ held'.tool = 0
    BY <1>1, <1>2 DEF DialogRight, DialogTyped, NoteType
  <2> QED
    BY <1>1, <1>3, <2>1, NothingGiven
<1> QED
  BY <1>3, <1>4, <1>5, <1>6 DEF DialogRight

(* No step gives the agent another answer than was asked, but where one     *)
(* crossed.                                                                 *)
LEMMA DialogStep ==
  (DialogRight \/ crossed) /\ [D!Next]_(D!vars) => (DialogRight \/ crossed)'
<1> SUFFICES ASSUME DialogRight \/ crossed, [D!Next]_(D!vars), ~crossed' PROVE DialogRight'
  OBVIOUS
<1> USE DEF D!kept, D!agent
<1>1. crossed => crossed'
  BY DEF D!Next, D!vars, D!Opens, D!AnsweredThere, D!BroughtBack, D!Mirrors, D!Glitch, D!LinkDown,
     D!LinkUp, D!Arrives, D!Later, D!PassLooks, D!PassCard, D!PassHolds, D!PassNotes, D!PassDrops,
     D!PassEscapes, D!TakeYes, D!TakeNo, D!TakeEscapes, D!TakeTells, D!TakeNotes, D!TakeEnds,
     D!Restart
<1>2. DialogRight /\ ~crossed'
  BY <1>1
<1>3. CASE UNCHANGED D!vars
  <2>1. UNCHANGED <<note, held, given, told, dialogPass, take, asks, opened, mirror, away>>
    BY <1>3 DEF D!vars
  <2>2. /\ asks \in Nat /\ opened \in Nat /\ mirror \in Nat /\ opened <= opened
        /\ asks <= opened /\ mirror <= opened
    BY <1>2 DEF DialogRight, DialogTyped, Known
  <2>3. \A t \in Nat : Past(t) => t # asks' /\ t # D!Dialog'
    BY <2>1 DEF Past, D!Dialog
  <2> QED
    BY <1>2, <2>1, <2>2, <2>3, AgentGoes
<1> QED
  BY <1>2, <1>3, AgentSteps, LooksKeeps, CardKeeps, HoldsKeeps, NotesKeeps, DropsKeeps,
     EscapesKeeps, YesKeeps, NoKeeps, CloseKeeps, TellsKeeps, AnsweredKeeps, EndsKeeps, RestartKeeps
     DEF D!Next

(* What Seb answered to the dialog of a remote agent goes to it as it was   *)
(* asked: in the order of the questions, each with the answer to its own    *)
(* card, once for a dialog, and no card asks it again (ask_dialog,          *)
(* send_dialog), but where a pass held its card after the answer, a record  *)
(* of a dialog that waits was missing, or a restart cut an answer.          *)
THEOREM AnswersGoAsAsked == D!Spec => []AnswersKept
<1>1. D!Init => DialogRight \/ crossed
  BY DialogFirst
<1>2. (DialogRight \/ crossed) /\ [D!Next]_(D!vars) => (DialogRight \/ crossed)'
  BY DialogStep
<1>3. DialogRight \/ crossed => AnswersKept
  BY AnswersRight DEF AnswersKept, D!AnswersKept
<1> QED
  BY <1>1, <1>2, <1>3, PTL DEF D!Spec
-----------------------------------------------------------------------------
(* The tunnel (Tunnel).                                                     *)

(* Each job a file, a thread or a card names was started.                   *)
TunnelTyped ==
  /\ made \in Nat /\ jobs \subseteq 1..made
  /\ json \in 0..made /\ record \in 0..made /\ card \in 0..made
  /\ tunnelPass.job \in 0..made /\ start.job \in 0..made
  /\ ~folder => json = 0

(* No thread is to write the job of a card into remote.json, which lacks it *)
(* since the card was held: a start names a newer one.                      *)
CardApart == card # 0 => json # card /\ tunnelPass.job # card /\ start.job # card

TunnelRight == TunnelTyped /\ CardApart

LEMMA TunnelFirst == T!Init => TunnelRight
  BY DEF T!Init, T!Idle, TunnelRight, TunnelTyped, CardApart

(* A thread that goes on to another step, or ends, names no new job.        *)
LEMMA ThreadGoes ==
  ASSUME TunnelRight, jobs' \subseteq jobs, json' \in {json, 0}, record' \in {record, 0},
         card' \in {card, 0}, tunnelPass'.job \in {tunnelPass.job, 0},
         start'.job \in {start.job, 0}, made' = made,
         ~folder' => ~folder \/ json' = 0
  PROVE  TunnelRight'
BY DEF TunnelRight, TunnelTyped, CardApart

LEMMA StartKeeps == TunnelRight /\ T!Start => TunnelRight'
<1> SUFFICES ASSUME TunnelRight, T!Start PROVE TunnelRight'
  OBVIOUS
<1> USE DEF T!bounds, T!asks, T!here, T!files, T!At, T!Idle
<1>1. CASE T!StartBegins \/ T!StartStandIn
  BY <1>1, ThreadGoes DEF T!StartBegins, T!StartStandIn, TunnelRight, TunnelTyped
<1>2. CASE T!StartSends
  <2>1. /\ made' = made + 1 /\ jobs' = jobs \cup {made + 1} /\ start'.job = made + 1
        /\ UNCHANGED <<folder, json, record, card, tunnelPass>>
    BY <1>2 DEF T!StartSends
  <2> QED
    BY <2>1 DEF TunnelRight, TunnelTyped, CardApart
<1>3. CASE T!StartFails \/ T!StartOpens
  BY <1>3, ThreadGoes DEF T!StartFails, T!StartOpens, TunnelRight, TunnelTyped
<1>4. CASE T!StartWrites
  <2>1. /\ \/ folder /\ json' = start.job /\ record' = start.job /\ jobs' = jobs
              /\ start'.job = start.job
           \/ ~folder /\ jobs' \subseteq jobs /\ start'.job = 0 /\ UNCHANGED <<json, record>>
        /\ UNCHANGED <<folder, made, card, tunnelPass>>
    BY <1>4 DEF T!StartWrites
  <2> QED
    BY <2>1 DEF TunnelRight, TunnelTyped, CardApart
<1> QED
  BY <1>1, <1>2, <1>3, <1>4 DEF T!Start

LEMMA PassKeeps == TunnelRight /\ T!Pass => TunnelRight'
<1> SUFFICES ASSUME TunnelRight, T!Pass PROVE TunnelRight'
  OBVIOUS
<1> USE DEF T!bounds, T!asks, T!here, T!files, T!threads, T!At, T!Idle
<1>1. CASE T!PassReads
  <2>1. /\ tunnelPass'.job = record /\ record = json
        /\ UNCHANGED <<folder, json, record, made, jobs, card, start>>
    BY <1>1 DEF T!PassReads, T!Remote
  <2> QED
    BY <2>1 DEF TunnelRight, TunnelTyped, CardApart
<1>2. CASE T!PassLooks
  <2>1. /\ tunnelPass'.job \in {tunnelPass.job, 0}
        /\ UNCHANGED <<folder, json, record, made, jobs, card, start>>
    BY <1>2 DEF T!PassLooks
  <2> QED
    BY <2>1, ThreadGoes DEF TunnelRight, TunnelTyped
<1>3. CASE T!PassWrites
  <2>1. /\ \/ folder /\ json' = tunnelPass.job /\ record' = tunnelPass.job
              /\ tunnelPass'.job = tunnelPass.job
           \/ ~folder /\ tunnelPass'.job = 0 /\ UNCHANGED <<json, record>>
        /\ UNCHANGED <<folder, made, jobs, card, start>>
    BY <1>3 DEF T!PassWrites
  <2> QED
    BY <2>1 DEF TunnelRight, TunnelTyped, CardApart
<1>4. CASE T!PassStandIn \/ T!PassOpens \/ T!DropsStart
  <2>1. /\ tunnelPass'.job \in {tunnelPass.job, 0}
        /\ UNCHANGED <<folder, json, record, made, jobs, card, start>>
    BY <1>4 DEF T!PassStandIn, T!PassOpens, T!DropsStart
  <2> QED
    BY <2>1, ThreadGoes DEF TunnelRight, TunnelTyped
<1> QED
  BY <1>1, <1>2, <1>3, <1>4 DEF T!Pass

(* The end of an agent names what Remote names, or nothing.                 *)
LEMMA FinishKeeps ==
  ASSUME TunnelRight, NEW who \in {"pass", "mover"}, T!Finish(who)
  PROVE  TunnelRight'
<1> USE DEF T!bounds, T!asks, T!here, T!files, T!At, T!Idle, T!Go, T!Thread
<1>1. CASE T!FinishBegins(who)
  <2>1. /\ \/ tunnelPass'.job \in {tunnelPass.job, 0}
           \/ tunnelPass'.job = record /\ record = json
        /\ UNCHANGED <<folder, json, record, made, jobs, card, start>>
    BY <1>1 DEF T!FinishBegins, T!Remote
  <2> QED
    BY <2>1 DEF TunnelRight, TunnelTyped, CardApart
<1>2. CASE T!FinishStops(who) \/ T!FinishRemoves(who) \/ T!FinishForgets(who)
             \/ T!FinishCleans(who)
  <2>1. /\ tunnelPass'.job \in {tunnelPass.job, 0} /\ json' \in {json, 0}
        /\ record' \in {record, 0} /\ UNCHANGED <<folder, made, jobs, card, start>>
    BY <1>2 DEF T!FinishStops, T!FinishRemoves, T!FinishForgets, T!FinishCleans
  <2> QED
    BY <2>1, ThreadGoes DEF TunnelRight, TunnelTyped
<1> QED
  BY <1>1, <1>2 DEF T!Finish

(* The card: the bundle it is held of has no agent, and no start of one.    *)
LEMMA CardIsHeld == TunnelRight /\ T!OrphanAsked => TunnelRight'
<1> SUFFICES ASSUME TunnelRight, T!OrphanAsked PROVE TunnelRight'
  OBVIOUS
<1>1. UNCHANGED <<folder, json, record, made, jobs, tunnelPass, start>>
  BY DEF T!OrphanAsked, T!files, T!here, T!threads, T!bounds
<1>2. CASE card' = card
  BY <1>1, <1>2 DEF TunnelRight, TunnelTyped, CardApart
<1>3. CASE card' # card
  <2>1. /\ card' = record /\ ~T!IsRemote /\ tunnelPass.job = 0 /\ start.job = 0
    BY <1>3 DEF T!OrphanAsked, T!HoldOrphan, T!IsKnown, T!Idle
  <2>2. folder => record # json \/ record = 0
    BY <2>1 DEF T!IsRemote, T!Remote
  <2> QED
    BY <1>1, <2>1, <2>2 DEF TunnelRight, TunnelTyped, CardApart
<1> QED
  BY <1>2, <1>3

LEMMA TunnelStep == TunnelRight /\ [T!Next]_(T!vars) => TunnelRight'
<1> SUFFICES ASSUME TunnelRight, [T!Next]_(T!vars) PROVE TunnelRight'
  OBVIOUS
<1> USE DEF T!bounds, T!asks, T!here, T!files, T!threads, T!At, T!Idle
<1>1. CASE T!MoveBegins \/ T!MoveCancels \/ T!MoveEnds \/ T!OrphanAges
  <2>1. jobs' \subseteq jobs /\ UNCHANGED <<folder, json, record, made, card, tunnelPass, start>>
    BY <1>1 DEF T!MoveBegins, T!MoveCancels, T!MoveEnds, T!OrphanAges
  <2> QED
    BY <2>1, ThreadGoes
<1>2. CASE T!Yes
  <2>1. /\ jobs' \subseteq jobs /\ record' \in {record, 0} /\ card' \in {card, 0}
        /\ UNCHANGED <<folder, json, made, tunnelPass, start>>
    BY <1>2 DEF T!Yes, T!YesCancels, T!YesChecks, T!YesDrops, T!YesForgets
  <2> QED
    BY <2>1, ThreadGoes
<1>3. ASSUME NEW j \in jobs, T!JobEnds(j) PROVE TunnelRight'
  BY <1>3, ThreadGoes DEF T!JobEnds
<1>4. CASE T!LinkDrops \/ T!LinkBack \/ T!RetryOver \/ UNCHANGED T!vars
  BY <1>4, ThreadGoes DEF T!LinkDrops, T!LinkBack, T!RetryOver, T!vars
<1>5. CASE T!FolderGoes \/ T!FolderBack
  BY <1>5, ThreadGoes DEF T!FolderGoes, T!FolderBack
<1>6. CASE T!Restart
  BY <1>6, ThreadGoes DEF T!Restart
<1> QED
  BY <1>1, <1>2, <1>3, <1>4, <1>5, <1>6, StartKeeps, PassKeeps, FinishKeeps, CardIsHeld
     DEF T!Next

(* The job on the card of an agent no bundle has is of no agent the bundle  *)
(* has, also when the folder came back, or its next agent runs, between the *)
(* card and the yes (ask_orphans, hold_orphan, send_orphan).                *)
THEOREM CardOfNoAgent == T!Spec => []T!CardOfNone
<1>1. TunnelRight => T!CardOfNone
  BY DEF TunnelRight, CardApart, T!CardOfNone, T!Remote
<1> QED
  BY TunnelFirst, TunnelStep, <1>1, PTL DEF T!Spec
-----------------------------------------------------------------------------
(* The parts side by side (MCClaude): a step of the run is a step of one    *)
(* of them, and none of the others sees it.                                 *)
LEMMA PartsStep ==
  ASSUME [MCNext]_all
  PROVE  [Next]_vars /\ [D!Next]_(D!vars) /\ [T!Next]_(T!vars)
<1>1. UNCHANGED dialogsVars => UNCHANGED D!vars
  BY DEF dialogsVars, D!vars, D!agent, D!kept
<1>2. UNCHANGED tunnelsVars => UNCHANGED T!vars
  BY DEF tunnelsVars, T!vars, T!files, T!here, T!threads, T!asks, T!bounds
<1>3. \/ Next /\ UNCHANGED <<dialogsVars, tunnelsVars>>
      \/ D!Next /\ UNCHANGED <<vars, tunnelsVars>>
      \/ T!Next /\ UNCHANGED <<vars, dialogsVars>>
      \/ UNCHANGED <<vars, dialogsVars, tunnelsVars>>
  BY DEF MCNext, TypingStep, DialogsStep, TunnelsStep, all
<1> QED
  BY <1>1, <1>2, <1>3

(* The invariants and the action property of the run hold of its own        *)
(* specification, and so does the safety half of TunnelsRight, for every    *)
(* value of the constants: each part keeps its own whatever the others do.  *)
THEOREM ClaudeRight ==
  MCSpec => [](LinesKept /\ AnswersKept /\ T!CardOfNone) /\ KeysRight
<1>1. MCInit => Init /\ D!Init /\ T!Init
  BY DEF MCInit
<1>2. MCSpec => []LinesKept
  <2>1. Inv /\ [Next]_vars => Inv'
    BY NextInv
  <2> QED
    BY <1>1, <2>1, InitInv, InvKept, PartsStep, PTL DEF MCSpec
<1>3. MCSpec => KeysRight
  <2>1. Init => KeysInv
    BY DEF Init, KeysInv, NoDialogAnswered, AskedIsOld
  <2>2. KeysInv => NoDialogAnswered
    BY DEF KeysInv
  <2> QED
    BY <1>1, <2>1, <2>2, NextKeepsKeys, StepEscapesApart, PartsStep, PTL
       DEF MCSpec, KeysRight, EscapesApart
<1>4. MCSpec => []AnswersKept
  <2>1. D!Init => DialogRight \/ crossed
    BY DialogFirst
  <2>2. (DialogRight \/ crossed) /\ [D!Next]_(D!vars) => (DialogRight \/ crossed)'
    BY DialogStep
  <2>3. DialogRight \/ crossed => AnswersKept
    BY AnswersRight DEF AnswersKept, D!AnswersKept
  <2> QED
    BY <1>1, <2>1, <2>2, <2>3, PartsStep, PTL DEF MCSpec
<1>5. MCSpec => []T!CardOfNone
  <2>1. TunnelRight => T!CardOfNone
    BY DEF TunnelRight, CardApart, T!CardOfNone, T!Remote
  <2> QED
    BY <1>1, <2>1, TunnelFirst, TunnelStep, PartsStep, PTL DEF MCSpec
<1> QED
  BY <1>2, <1>3, <1>4, <1>5, PTL
=============================================================================
