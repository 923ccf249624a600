------------------------------- MODULE RunHook -------------------------------
(***************************************************************************)
(* The PreToolUse hook of the bundles (bundle-ctl/client/run-hook.py): it  *)
(* finds the heavy runs of the text an agent gives to Bash, sends those a  *)
(* worker can take through `bctl run --route`, and puts the others behind  *)
(* one line, `bctl run`, that waits for the cores of the host.             *)
(*                                                                         *)
(* A text is the sequence of its simple commands, as split_commands cuts   *)
(* it: their words, the heredoc they read, the file they write, whether a  *)
(* pipe brings what the one before reads, the program a $(...) of theirs   *)
(* runs, and whether a quote of theirs never closes.  The texts of         *)
(* heredocs, scripts and `-c` are named.  Paths, the letters of a quote    *)
(* and the order of options are left out.                                  *)
(***************************************************************************)
EXTENDS Integers, Sequences, FiniteSets

CONSTANTS
  MaxCommands   (* bound: the commands of a text                            *)

VARIABLES
  text,    (* the command of the tool call                                  *)
  paused,  (* .agent/pause: the daemon waits for the turn to end            *)
  served,  (* the socket of the daemon is there                             *)
  answer   (* what the hook prints                                          *)

vars == <<text, paused, served, answer>>

None == "none"
MaxDepth == 2
DefaultWorkers == 4

-----------------------------------------------------------------------------
(* The words of the texts.                                                  *)

Keywords == {"if"}
Assigned == [w \in {"X=odoo-bin", "Y=1"} |-> IF w = "X=odoo-bin" THEN "odoo-bin" ELSE "1"]
Variable(w) == IF w = "$X" THEN "X=odoo-bin" ELSE None
Wrappers == {"timeout"}
Operands == {"60"}
Options == {"-d", "-c", "-s", "-i", "--stop-after-init", "--test-tags", "--help", "--debug",
            "--workers=8", "--server=localhost"}
OdooRun == {"-i", "--stop-after-init", "--test-tags"}
Odoo == {"odoo-bin"}
Engines == {"engine-linux"}
Shells == {"bash", "eval"}
Scripts == {"run.sh"}
Interpreters == {"python3"}

C(words) == [words |-> words, stdin |-> None, out |-> None, pipe |-> FALSE,
             inner |-> None, open |-> FALSE, route |-> FALSE]

StopRun == C(<<"odoo-bin", "-d", "--stop-after-init">>)
Texts == [name \in {"light", "run", "shell run", "deep run"} |->
  CASE name = "light" -> <<C(<<"ls">>)>>
    [] name = "run" -> <<StopRun>>
    [] name = "shell run" -> <<C(<<"bash", "-c", "run">>)>>
    [] name = "deep run" -> <<C(<<"bash", "-c", "shell run">>)>>]

(* The simple commands the texts are made of.                               *)
Commands ==
  {StopRun,
   C(<<"odoo-bin", "--test-tags">>),
   C(<<"odoo-bin", "--help">>),
   C(<<"odoo-bin", "shell">>),
   C(<<"Y=1", "timeout", "60", "python3", "odoo-bin", "-d", "--stop-after-init">>),
   C(<<"if", "engine-linux", "--server=localhost", "--workers=8">>),
   C(<<"engine-linux", "--debug">>),
   C(<<"X=odoo-bin">>), C(<<"$X", "-d", "--stop-after-init">>),
   C(<<"bash", "-c", "run">>), C(<<"eval", "deep run">>), C(<<"run.sh">>), C(<<"bash", "run.sh">>),
   [C(<<"cat">>) EXCEPT !.stdin = "run", !.out = "run.sh"],
   [C(<<"tee", "run.sh">>) EXCEPT !.stdin = "shell run"],
   [C(<<"bash", "-s", "run.sh">>) EXCEPT !.stdin = "run"],
   [C(<<"bash">>) EXCEPT !.pipe = TRUE],
   [C(<<"ls">>) EXCEPT !.inner = "odoo-bin"],
   [C(<<"odoo-bin", "-i">>) EXCEPT !.open = TRUE],
   C(<<"git", "restore">>)}

Inputs == UNION {[1..n -> Commands] : n \in 1..MaxCommands}

(* What run.sh holds before the call.                                       *)
OnDisk == [file \in Scripts |-> "light"]

-----------------------------------------------------------------------------
(* The runs of a text.                                                      *)

Splits(cmds) == \A i \in DOMAIN cmds : ~cmds[i].open

IsAssignment(w) == w \in DOMAIN Assigned

(* walk, up to command i: the assignments before it.                        *)
Values(cmds, i) ==
  {w \in DOMAIN Assigned : \E j \in 1..(i - 1) : \E k \in DOMAIN cmds[j].words :
     cmds[j].words[k] = w /\ \A l \in 1..k : IsAssignment(cmds[j].words[l])}
Expand(words, values) ==
  [k \in DOMAIN words |-> IF Variable(words[k]) \in values THEN Assigned[Variable(words[k])]
                                                           ELSE words[k]]
WordsAt(cmds, i) == Expand(cmds[i].words, Values(cmds, i))

(* The heredoc a command reads: its own, or what a pipe brings.             *)
StdinAt(cmds, i) ==
  IF cmds[i].stdin = None /\ cmds[i].pipe /\ i > 1 THEN cmds[i - 1].stdin ELSE cmds[i].stdin

(* strip_wrappers: what the keywords, assignments and wrappers run.         *)
StartsAt(words, skipped) ==
  CHOOSE k \in 1..(Len(words) + 1) :
    /\ \A j \in 1..(k - 1) : words[j] \in skipped
    /\ k <= Len(words) => words[k] \notin skipped
StripWrappers(words) ==
  SubSeq(words, StartsAt(words, Keywords \cup DOMAIN Assigned \cup Wrappers \cup Operands), Len(words))

(* get_script: the first word that is no option, and what follows.          *)
GetScript(args) ==
  LET k == StartsAt(args, Options) IN
  [script |-> IF k > Len(args) THEN None ELSE args[k], args |-> SubSeq(args, k + 1, Len(args)),
   options |-> {args[j] : j \in 1..(k - 1)}]

Light == [kind |-> None, workers |-> 0]
Run(kind, workers) == [kind |-> kind, workers |-> workers]
Has(args, words) == \E k \in DOMAIN args : args[k] \in words

GetHoot(args) ==
  CASE Has(args, {"--help"}) -> Light
    [] Has(args, {"--debug"}) -> Run("hoot", 1)
    [] OTHER -> Run("hoot", IF Has(args, {"--workers=8"}) THEN 8 ELSE DefaultWorkers)
GetOdoo(args) ==
  CASE Has(args, {"--help"}) -> Light
    [] Has(args, OdooRun) -> Run("odoo", 1)
    [] Has(args, {"shell"}) -> Run("shell", 1)
    [] OTHER -> Run("server", 1)

Rank(kind) == CASE kind = None -> 0 [] kind = "shell" -> 1 [] kind = "server" -> 2
                [] kind = "odoo" -> 3 [] kind = "hoot" -> 4
Heavier(a, b) ==
  Rank(a.kind) > Rank(b.kind) \/ (a.kind = b.kind /\ a.workers >= b.workers)

(* The files the text wrote before command i, by a heredoc: the last wins.  *)
Outputs(cmds, i) ==
  {cmds[i].out} \cup
  {f \in Scripts : cmds[i].words[1] = "tee" /\ f \in {cmds[i].words[k] : k \in DOMAIN cmds[i].words}}
Written(cmds, i) ==
  [f \in Scripts |->
     LET writers == {j \in 1..(i - 1) : StdinAt(cmds, j) # None /\ f \in Outputs(cmds, j)} IN
     IF writers = {} THEN OnDisk[f]
     ELSE StdinAt(cmds, CHOOSE j \in writers : \A l \in writers : l <= j)]

RECURSIVE Classify(_, _)

(* get_kind, for a shell: the text it runs, classified one level down.      *)
ShellText(words, stdin, written) ==
  LET args == Tail(words)  found == GetScript(args)  IN
  CASE words[1] \in Scripts -> written[words[1]]
    [] words[1] = "eval" -> args[1]
    [] Has(args, {"-c"}) -> found.script
    [] found.script \in Scripts /\ "-s" \notin found.options -> written[found.script]
    [] OTHER -> stdin

KindOf(words, depth, stdin, written) ==
  LET prog == IF words[1] \in Interpreters THEN GetScript(Tail(words)).script ELSE words[1]
      args == IF words[1] \in Interpreters THEN GetScript(Tail(words)).args ELSE Tail(words)
      inside == ShellText(words, stdin, written)
  IN CASE words[1] \in Shells \cup Scripts ->
            IF depth < MaxDepth /\ inside # None THEN Classify(Texts[inside], depth + 1) ELSE Light
       [] prog \in Odoo -> GetOdoo(args)
       [] prog \in Engines -> GetHoot(args)
       [] OTHER -> Light

GetKind(cmds, i, depth) ==
  LET words == StripWrappers(WordsAt(cmds, i)) IN
  IF cmds[i].route \/ words = <<>> THEN Light
  ELSE KindOf(words, depth, StdinAt(cmds, i), Written(cmds, i))

(* FALLBACK: what a pattern finds in a text that does not split.            *)
Precedes(cmds, prog) ==
  \E i \in DOMAIN cmds : \E k \in 1..(Len(cmds[i].words) - 1) :
    cmds[i].words[k] \in prog /\ cmds[i].words[k + 1] \in Options
Fallback(cmds) ==
  CASE Precedes(cmds, Engines) -> Run("hoot", IF \E i \in DOMAIN cmds : Has(cmds[i].words, {"--workers=8"})
                                              THEN 8 ELSE DefaultWorkers)
    [] \E i \in DOMAIN cmds : Has(cmds[i].words, Odoo)
         /\ Has(cmds[i].words, {"--stop-after-init", "--test-tags"}) -> Run("odoo", 1)
    [] Precedes(cmds, Odoo) -> Run("server", 1)
    [] OTHER -> Light

Classify(cmds, depth) ==
  IF ~Splits(cmds) THEN Fallback(cmds)
  ELSE LET kinds == {GetKind(cmds, i, depth) : i \in DOMAIN cmds} \cup {Light}
       IN CHOOSE k \in kinds : \A other \in kinds : Heavier(k, other)

-----------------------------------------------------------------------------
(* The routes.                                                              *)

IsMovable(kind, words) ==
  LET at == IF words[1] \in Interpreters THEN 2 ELSE 1 IN
  \/ /\ kind = "hoot" /\ words[1] \in Engines
     /\ Has(words, {"--server=localhost"}) /\ ~Has(words, {"--debug"})
  \/ /\ kind = "odoo" /\ words[at] \in Odoo
     /\ Has(words, {"--stop-after-init"}) /\ Has(words, {"-d"})

Movables(cmds) ==
  {i \in DOMAIN cmds :
     LET kind == GetKind(cmds, i, 0).kind  words == StripWrappers(WordsAt(cmds, i)) IN
     kind # None /\ IsMovable(kind, words)}

(* Where the text names a program: in a run or an assignment, and where it  *)
(* may run unseen.                                                          *)
NameOf(cmds, i) ==
  LET words == StripWrappers(WordsAt(cmds, i)) IN IF words[1] \in Engines THEN words[1] ELSE "odoo-bin"
RECURSIVE Names(_, _)
Names(cmds, name) ==
  \E i \in DOMAIN cmds :
    \/ cmds[i].inner = name
    \/ \E k \in DOMAIN cmds[i].words :
         LET w == cmds[i].words[k] IN
         w = name \/ (IsAssignment(w) /\ Assigned[w] = name) \/ (w \in DOMAIN Texts /\ Names(Texts[w], name))
    \/ cmds[i].stdin # None /\ Names(Texts[cmds[i].stdin], name)
IsSeen(cmds, i) ==
  GetKind(cmds, i, 0) # Light \/ \A k \in DOMAIN cmds[i].words : IsAssignment(cmds[i].words[k])
(* The mutant looks for no other name.                                      *)
UnseenNever(cmds, name) == FALSE
Unseen(cmds, name) ==
  \E i \in DOMAIN cmds :
    \/ cmds[i].inner = name
    \/ cmds[i].stdin # None /\ Names(Texts[cmds[i].stdin], name)
    \/ ~IsSeen(cmds, i) /\ Names(<<[cmds[i] EXCEPT !.stdin = None]>>, name)

(* wrap: all the movable runs get a route, or none does.                    *)
Wrap(cmds) ==
  IF ~Splits(cmds) \/ \E i \in Movables(cmds) : Unseen(cmds, NameOf(cmds, i)) THEN cmds
  ELSE [i \in DOMAIN cmds |-> [cmds[i] EXCEPT !.route = i \in Movables(cmds)]]

LeftAlone(cmds) ==
  \E i \in DOMAIN cmds : Len(cmds[i].words) > 1 /\ cmds[i].words[1] = "git" /\ cmds[i].words[2] = "restore"

NoAnswer == [on |-> FALSE, deny |-> FALSE, queue |-> Light, text |-> <<>>]
Answer(deny, queue, cmds) == [on |-> TRUE, deny |-> deny, queue |-> queue, text |-> cmds]

(* The line in front asks for the heaviest of what has no route.  The       *)
(* mutant asks what the text had before the routes were put in, when one    *)
(* was.                                                                     *)
QueueOfNone(cmds) == IF Wrap(cmds) # cmds THEN Light ELSE Classify(cmds, 0)
QueueOf(cmds) == Classify(Wrap(cmds), 0)

Hook ==
  /\ ~answer.on
  /\ answer' =
       CASE paused -> Answer(TRUE, Light, text)
         [] ~paused /\ (~served \/ LeftAlone(text) \/ Classify(text, 0) = Light) ->
              Answer(FALSE, Light, text)
         [] OTHER -> Answer(FALSE, QueueOf(text), Wrap(text))
  /\ UNCHANGED <<text, paused, served>>

(* The agent writes its next command.                                       *)
NextCall ==
  /\ answer.on /\ answer' = NoAnswer
  /\ paused' \in BOOLEAN /\ served' \in BOOLEAN
  /\ text' \in IF text = <<>> THEN Inputs ELSE {text}

Init == text = <<>> /\ paused = FALSE /\ served = TRUE /\ answer = [NoAnswer EXCEPT !.on = TRUE]

Next == Hook \/ NextCall

Spec == Init /\ [][Next]_vars

-----------------------------------------------------------------------------
(* The runs Bash starts, with what each command reads and writes in turn:   *)
(* not those of a $(...), nor those more than MaxDepth shells down.         *)
Ran(words) ==
  LET skipped == Keywords \cup DOMAIN Assigned \cup Wrappers \cup Operands
      kept == {k \in DOMAIN words : words[k] \notin skipped}
  IN IF kept = {} THEN <<>>
     ELSE SubSeq(words, CHOOSE k \in kept : \A l \in kept : k <= l, Len(words))

RECURSIVE Starts(_, _, _, _)
Starts(cmds, depth, files, env) ==
  IF cmds = <<>> THEN {}
  ELSE
    LET c == cmds[1]
        raw == [k \in DOMAIN c.words |-> IF c.words[k] = "$X" /\ env # None THEN env ELSE c.words[k]]
        words == Ran(raw)
        read == c.stdin
        after == [f \in Scripts |->
          IF read # None /\ (c.out = f \/ (words # <<>> /\ words[1] = "tee" /\ Has(words, {f})))
          THEN read ELSE files[f]]
        here == IF words = <<>> THEN {}
                ELSE IF words[1] \in Shells \cup Scripts
                THEN LET inside == ShellText(words, read, files) IN
                     IF depth < MaxDepth /\ inside # None
                     THEN Starts(Texts[inside], depth + 1, files, None) ELSE {}
                ELSE LET kind == KindOf(words, MaxDepth, None, files) IN
                     IF kind = Light THEN {} ELSE {[run |-> kind, route |-> c.route]}
        env2 == IF words = <<>> /\ c.words[1] = "X=odoo-bin" THEN "odoo-bin" ELSE env
        rest == IF Len(cmds) = 1 THEN <<>>
                ELSE IF cmds[2].pipe /\ cmds[2].stdin = None
                THEN <<[cmds[2] EXCEPT !.stdin = read, !.pipe = FALSE]>> \o SubSeq(cmds, 3, Len(cmds))
                ELSE Tail(cmds)
    IN here \cup Starts(rest, depth, after, env2)

Called == answer.on /\ ~answer.deny /\ served /\ Splits(text) /\ ~LeftAlone(text)

(* Every heavy run a call starts goes through the queue: it has a route, or *)
(* the line in front asked for a run at least as heavy.  It may be behind a *)
(* variable, a wrapper, a script, a heredoc that a pipe or a file brings.   *)
RunsAreQueued ==
  Called => \A s \in Starts(answer.text, 0, OnDisk, None) : s.route \/ Heavier(answer.queue, s.run)

(* With a route and no line in front, the whole text waits for nothing on   *)
(* the host: no program that is routed is named where it may run unseen.    *)
RouteIsAlone ==
  Called /\ answer.queue = Light =>
    \A i \in DOMAIN answer.text : answer.text[i].route =>
      \A j \in DOMAIN answer.text :
        /\ answer.text[j].inner # NameOf(text, i)
        /\ answer.text[j].stdin # None => ~Names(Texts[answer.text[j].stdin], NameOf(text, i))

(* What a Bash call runs waits for its cores, and nothing else passes.      *)
RunsWait == RunsAreQueued /\ RouteIsAlone
=============================================================================
