----------------------------- MODULE CardWatch ------------------------------
(***************************************************************************)
(* The windows told of a card of hok (tell, watch_card and tell_watchers,  *)
(* bundle-ctl/daemon.py).  One bundle asks every card; its parent note     *)
(* names the window that queued its last task (RunEnds follows what that   *)
(* window is told of the run); the name of a card may be used again.  Each *)
(* request runs in a thread of its own: watch_card reads hok before it     *)
(* takes watch_lock, tell_watchers tells after it gave it back.            *)
(*                                                                         *)
(* Left out: the tabs of ops, a caller that is no window, the words of a   *)
(* line, the week after which a watch nobody answered goes.                *)
(***************************************************************************)
EXTENDS Integers, FiniteSets

CONSTANTS
  Windows,     (* agent windows other than the bundle's                     *)
  NoWindow,    (* the host, as the parent of a task                         *)
  MaxAsked,    (* bound: cards asked under the name                         *)
  MaxTasks,    (* bound: tasks queued for the bundle                        *)
  MaxFaults    (* bound: windows that close, restarts                       *)

ASSUME ConstantsAssumption ==
  NoWindow \notin Windows /\ MaxAsked \in Nat /\ MaxTasks \in Nat /\ MaxFaults \in Nat

VARIABLES
  asked,      (* cards asked so far: the last is asked at `asked`           *)
  waits,      (* it waits in hok                                            *)
  answered,   (* cards Seb answered                                         *)
  posts,      (* the POST /tell and /answered hok owes of what ended         *)
  told,       (* the cards each window was told of                          *)
  watch,      (* watch/CARD.json: created, watchers                         *)
  line,       (* watch/CARD.told: the card it is of; 0: none                *)
  asking,     (* watch_card of each window: its step, the card it saw       *)
  promised,   (* the cards each window has to be told of, or may be         *)
  excused,    (* promises the code does not keep; see WatcherTold           *)
  telling,    (* tell_watchers: the card, the windows left to tell          *)
  open,       (* the windows that run                                       *)
  parent,     (* the note: its window,                                      *)
  tasks,
  faults

cards == <<asked, waits, answered, posts, watch, line, asking, promised, telling>>
notes == <<parent, tasks>>
vars == <<cards, notes, told, excused, open, faults>>

Never == [created |-> 0, watchers |-> {}]
Idle == [step |-> "none", card |-> 0]
Nobody == [w \in Windows |-> {}]

Init ==
  /\ asked = 0 /\ waits = FALSE /\ answered = {} /\ posts = {}
  /\ watch = Never /\ line = 0
  /\ asking = [w \in Windows |-> Idle]
  /\ told = Nobody /\ promised = Nobody /\ excused = Nobody
  /\ telling = [card |-> 0, left |-> {}]
  /\ open = Windows /\ parent \in Windows \cup {NoWindow}
  /\ tasks = 0 /\ faults = 0

(* leave_told, in the windows that run.                                     *)
Leave(windows, what) ==
  told' = [w \in Windows |-> IF w \in windows \cap open THEN told[w] \cup {what} ELSE told[w]]
-----------------------------------------------------------------------------
(* hok: a card of the bundle waits, Seb answers it, or its caller or its    *)
(* age takes it away.  Its name comes again long after: what was told of    *)
(* the card before is settled then, and forgotten.                          *)
Asks ==
  /\ ~waits /\ posts = {} /\ telling.left = {} /\ \A w \in Windows : asking[w] = Idle
  /\ asked < MaxAsked
  /\ waits' = TRUE /\ asked' = asked + 1
  /\ told' = Nobody /\ promised' = Nobody /\ excused' = Nobody
  /\ UNCHANGED <<answered, posts, watch, line, asking, telling, notes, open, faults>>

Answers ==
  /\ waits /\ waits' = FALSE /\ answered' = answered \cup {asked}
  /\ posts' = {<<"tell", asked>>, <<"answered", asked>>}
  /\ UNCHANGED <<asked, watch, line, asking, promised, telling, notes, told, excused, open, faults>>

Withdraws ==
  /\ waits /\ waits' = FALSE
  /\ UNCHANGED <<asked, answered, posts, watch, line, asking, promised, telling, notes, told, excused, open, faults>>

(* tell: the bundle itself, left out here, then its parent.                 *)
Tell(k) ==
  /\ <<"tell", k>> \in posts /\ Leave({parent} \ {NoWindow}, k)
  /\ posts' = posts \ {<<"tell", k>>}
  /\ promised' = [w \in Windows |-> IF w = parent THEN promised[w] \cup {k} ELSE promised[w]]
  /\ UNCHANGED <<asked, waits, answered, watch, line, asking, telling, notes, excused, open, faults>>

(* tell_watchers, under watch_lock; mutant: any watch of the name is told.  *)
OfName(k) == watch.created # 0
OfCard(k) == watch.created = k
AnsweredNow(k) ==
  /\ <<"answered", k>> \in posts /\ telling.left = {}
  /\ posts' = posts \ {<<"answered", k>>}
  /\ IF OfCard(k)
     THEN telling' = [card |-> k, left |-> watch.watchers] /\ watch' = Never
     ELSE UNCHANGED <<telling, watch>>
  /\ line' = k
  /\ UNCHANGED <<asked, waits, answered, asking, promised, notes, told, excused, open, faults>>

TellsWatcher(w) ==
  /\ w \in telling.left /\ Leave({w}, telling.card)
  /\ telling' = [telling EXCEPT !.left = @ \ {w}]
  /\ UNCHANGED <<asked, waits, answered, posts, watch, line, asking, promised, notes, excused, open, faults>>

(* drop_old_watches, past WATCH_KEPT.                                       *)
DropsLine ==
  /\ line # 0 /\ line' = 0
  /\ UNCHANGED <<asked, waits, answered, posts, watch, asking, promised, telling, notes, told, excused, open, faults>>
-----------------------------------------------------------------------------
(* watch_card: hok is read, then the note of the parent or the watch.       *)
Finds(w) ==
  /\ w \in open /\ asking[w] = Idle /\ waits
  /\ asking' = [asking EXCEPT ![w] = [step |-> "found", card |-> asked]]
  /\ UNCHANGED <<asked, waits, answered, posts, watch, line, promised, telling, notes, told, excused, open, faults>>

FindsEnded(w) ==
  /\ w \in open /\ asking[w] = Idle /\ ~waits /\ line # 0
  /\ Leave({w}, line) /\ promised' = [promised EXCEPT ![w] = @ \cup {line}]
  /\ UNCHANGED <<asked, waits, answered, posts, watch, line, asking, telling, notes, excused, open, faults>>

(* Mutants of Kept: the watchers of the last card of the name stay, or none *)
(* of this one.                                                             *)
KeptAll(k) == watch.watchers
KeptNone(k) == {}
Kept(k) == IF watch.created = k THEN watch.watchers ELSE {}

Watches(w) ==
  /\ asking[w].step = "found"
  /\ LET k == asking[w].card
         late == k \in answered /\ <<IF parent = w THEN "tell" ELSE "answered", k>> \notin posts
     IN /\ promised' = [promised EXCEPT ![w] = @ \cup {k}]
        /\ IF parent = w THEN UNCHANGED watch
           ELSE watch' = [created |-> k, watchers |-> Kept(k) \cup {w}]
        /\ excused' = [excused EXCEPT ![w] = IF late THEN @ \cup {k} ELSE @]
  /\ asking' = [asking EXCEPT ![w] = Idle]
  /\ UNCHANGED <<asked, waits, answered, posts, line, telling, notes, told, open, faults>>
-----------------------------------------------------------------------------
(* queue_task, keep_parent: the note of another window; the host drops it.  *)
(* What hok was to tell the last one by itself goes to the new one.         *)
Queue(p) ==
  /\ tasks < MaxTasks /\ tasks' = tasks + 1
  /\ parent' = p
  /\ excused' = [w \in Windows |->
       IF w = parent THEN excused[w] \cup {k \in promised[w] : ~(OfCard(k) /\ w \in watch.watchers)}
       ELSE excused[w]]
  /\ UNCHANGED <<cards, told, open, faults>>
-----------------------------------------------------------------------------
(* A window closes for good.                                                *)
Closes(w) ==
  /\ faults < MaxFaults /\ faults' = faults + 1
  /\ w \in open /\ open' = open \ {w}
  /\ told' = [told EXCEPT ![w] = {}] /\ excused' = [excused EXCEPT ![w] = {}]
  /\ UNCHANGED <<cards, notes>>

(* The daemon restarts: what its threads had left to tell is lost.          *)
Restart ==
  /\ faults < MaxFaults /\ faults' = faults + 1
  /\ asking' = [w \in Windows |-> Idle]
  /\ telling' = [telling EXCEPT !.left = {}]
  /\ excused' = [w \in Windows |->
       excused[w] \cup (IF w \in telling.left THEN {telling.card} ELSE {})]
  /\ UNCHANGED <<asked, waits, answered, posts, watch, line, promised, notes, told, open>>
-----------------------------------------------------------------------------
Next ==
  \/ Asks \/ Answers \/ Withdraws \/ DropsLine
  \/ \E k \in 1..MaxAsked : Tell(k) \/ AnsweredNow(k)
  \/ \E w \in Windows : TellsWatcher(w) \/ Finds(w) \/ FindsEnded(w) \/ Watches(w) \/ Closes(w)
  \/ \E p \in Windows \cup {NoWindow} : Queue(p)
  \/ Restart

(* hok says what it was answered; the threads go on, each with a bounded    *)
(* work, so one of them at a time is enough.                                *)
Threads ==
  \/ \E k \in 1..MaxAsked : Tell(k) \/ AnsweredNow(k)
  \/ \E w \in Windows : TellsWatcher(w) \/ Watches(w)

Spec == Init /\ [][Next]_vars /\ WF_vars(Threads)
-----------------------------------------------------------------------------
(* A window that was told its watch is kept, or that hok tells it by        *)
(* itself, is told once the card ended.  Not in three cases: the card       *)
(* ended and was told of between the look at hok and the watch; the bundle  *)
(* took a task of another window meanwhile; the daemon restarted with the   *)
(* line to leave.                                                           *)
WatcherTold ==
  []<>(\A w \in open : promised[w] \cap answered \subseteq told[w] \cup excused[w])

(* A window is told of no card but one it asked of, or one of a bundle it   *)
(* queued the last task for: not of another that took the name since.       *)
ToldOfItsCards ==
  \A w \in Windows, k \in 1..MaxAsked :
    k \in told[w] => k \in promised[w]

(* The window that asked of a card is told its end, and no other is.        *)
CardsTold == []ToldOfItsCards /\ WatcherTold
=============================================================================
