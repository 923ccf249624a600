---------------------------- MODULE ToldProofs -----------------------------
(***************************************************************************)
(* What an agent is told, by Telling: the ends of the runs it queued, the  *)
(* cards it asked of and the events of its PR.  For any windows, reviews   *)
(* and comments, and any number of cards, runs, seconds and faults.        *)
(***************************************************************************)
EXTENDS Telling, TLAPS

-----------------------------------------------------------------------------
(* The end of a run (RunEnds).                                             *)

RunsTyped ==
  /\ run \in Nat /\ queue \in Nat /\ run + queue <= MaxRuns
  /\ verdicts \in [R!Tellers -> 0..run]
  /\ ends \in [1..MaxRuns -> 0..1]

(* What a thread has left to tell, the note counts no more, and the other  *)
(* thread has not: who saw the end of a run is the only one to tell it.    *)
OnceSeen ==
  /\ since => run > 0 /\ ends[run] = 0 /\ \A t \in R!Tellers : verdicts[t] # run
  /\ \A t \in R!Tellers : verdicts[t] # 0 => ends[verdicts[t]] = 0
  /\ \A s, t \in R!Tellers : s # t /\ verdicts[s] = verdicts[t] => verdicts[s] = 0
  /\ \A r \in 1..MaxRuns : r > run => ends[r] = 0

RunRight == RunsTyped /\ OnceSeen

LEMMA RunInit == R!Init => RunRight
<1> SUFFICES ASSUME R!Init PROVE RunRight
  OBVIOUS
<1>1. RunsTyped
  BY RunsAssumption DEF R!Init, RunsTyped
<1>2. ~since
  BY DEF R!Init
<1>3. \A t \in R!Tellers : verdicts[t] = 0
  BY DEF R!Init
<1>4. \A r \in 1..MaxRuns : ends[r] = 0
  BY DEF R!Init
<1>5. OnceSeen
  BY <1>2, <1>3, <1>4 DEF OnceSeen
<1> QED
  BY <1>1, <1>5 DEF RunRight

LEMMA RunStep == RunRight /\ [R!Next]_(R!vars) => RunRight'
<1> SUFFICES ASSUME RunRight, [R!Next]_(R!vars) PROVE RunRight'
  OBVIOUS
<1> USE RunsAssumption DEF RunRight, RunsTyped, OnceSeen
<1>1. ASSUME NEW p \in Windows \cup {NoWindow}, R!Queue(p) PROVE RunRight'
  <2>1. run' = run /\ queue' = queue + 1 /\ run + queue < MaxRuns /\ ~since'
        /\ UNCHANGED <<verdicts, ends>>
    BY <1>1 DEF R!Queue
  <2> QED
    BY <2>1
<1>2. CASE R!Starts
  <2>1. /\ run' = run + 1 /\ queue' = queue - 1 /\ queue > 0
        /\ UNCHANGED <<verdicts, ends>>
    BY <1>2 DEF R!Starts
  <2>2. 0..run \subseteq 0..run' /\ run' \in 1..MaxRuns /\ ends[run'] = 0
    BY <2>1
  <2>3. \A t \in R!Tellers : verdicts[t] # run'
    BY <2>1
  <2>4. RunsTyped'
    BY <2>1, <2>2
  <2>5. OnceSeen'
    BY <2>1, <2>2, <2>3
  <2> QED
    BY <2>4, <2>5
<1>3. CASE R!Ends
  BY <1>3 DEF R!Ends, R!note
<1>4. CASE R!Deletes
  BY <1>4 DEF R!Deletes, R!note
<1>5. CASE R!NotesGone
  BY <1>5 DEF R!NotesGone, R!task
<1>6. CASE R!DropsNote
  BY <1>6 DEF R!DropsNote, R!task
<1>7. CASE R!Restart
  BY <1>7 DEF R!Restart, R!task, R!note
<1>8. ASSUME NEW t \in R!Tellers, R!Sees(t) PROVE RunRight'
  <2>1. /\ since /\ verdicts[t] = 0 /\ ~since'
        /\ verdicts' = [verdicts EXCEPT ![t] = run]
        /\ UNCHANGED <<queue, run, ends>>
    BY <1>8 DEF R!Sees, R!task, R!CountsNoMore
  <2>2. \A s \in R!Tellers : verdicts'[s] = IF s = t THEN run ELSE verdicts[s]
    BY <1>8, <2>1
  <2>3. RunsTyped'
    BY <1>8, <2>1
  <2>4. OnceSeen'
    BY <1>8, <2>1, <2>2
  <2> QED
    BY <2>3, <2>4
<1>9. ASSUME NEW t \in R!Tellers, R!Tells(t) PROVE RunRight'
  <2> DEFINE r == verdicts[t]
  <2>1. /\ r # 0 /\ verdicts' = [verdicts EXCEPT ![t] = 0]
        /\ UNCHANGED <<queue, run, since>>
        /\ \/ UNCHANGED ends
           \/ ends' = [ends EXCEPT ![r] = @ + 1]
    BY <1>9 DEF R!Tells, R!task, R!note
  <2>2. r \in 1..run /\ r \in 1..MaxRuns /\ ends[r] = 0
    BY <1>9, <2>1
  <2>3. \A other \in R!Tellers : other # t => verdicts[other] # r
    BY <1>9, <2>1
  <2>4. since => run # r
    BY <1>9, <2>1
  <2> HIDE DEF r
  <2>5. verdicts' \in [R!Tellers -> 0..run] /\ ends' \in [1..MaxRuns -> 0..1]
    BY <1>9, <2>1, <2>2
  <2>6. \A s \in 1..MaxRuns : s # r => ends'[s] = ends[s]
    BY <2>1, <2>2
  <2>7. \A other \in R!Tellers :
          verdicts'[other] = IF other = t THEN 0 ELSE verdicts[other]
    BY <1>9, <2>1
  <2> QED
    BY <1>9, <2>1, <2>2, <2>3, <2>4, <2>5, <2>6, <2>7
<1>10. CASE UNCHANGED R!vars
  BY <1>10 DEF R!vars, R!task, R!note
<1> QED
  BY <1>1, <1>2, <1>3, <1>4, <1>5, <1>6, <1>7, <1>8, <1>9, <1>10 DEF R!Next

(* The end of a run is told once at most, whatever comes between: a pass   *)
(* beside a deletion, a `done` written again (tell_verdict,                *)
(* tell_verdicts).                                                         *)
THEOREM EndsOnce == R!Spec => []R!EndToldOnce
<1>1. RunRight => R!EndToldOnce
  BY RunsAssumption DEF RunRight, RunsTyped, R!EndToldOnce
<1> QED
  BY RunInit, RunStep, <1>1, PTL DEF R!Spec

-----------------------------------------------------------------------------
(* The cards (CardWatch).                                                  *)

CardsTyped ==
  /\ asked \in Nat
  /\ posts \subseteq {"tell", "answered"} \X {asked}
  /\ watch \in [created : 0..asked, watchers : SUBSET Windows]
  /\ line \in 0..asked /\ telling \in [card : 0..asked, left : SUBSET Windows]
  /\ asking \in [Windows -> [step : {"none", "found"}, card : 0..asked]]
  /\ told \in [Windows -> SUBSET (0..asked)] /\ promised \in [Windows -> SUBSET (0..asked)]

(* The watch of the card that goes by the name now, and the line that is   *)
(* being told, are of windows which asked of that card.                    *)
Promises ==
  /\ watch.created = asked => \A w \in watch.watchers : asked \in promised[w]
  /\ \A w \in telling.left : telling.card \in promised[w]
  /\ \A w \in Windows : asking[w].step = "found" => asking[w].card = asked
  /\ \A w \in Windows : told[w] \subseteq promised[w]

CardRight == CardsTyped /\ Promises

LEMMA CardInit == Init => CardRight
  BY ConstantsAssumption DEF Init, CardRight, CardsTyped, Promises, Never, Idle, Nobody

LEMMA CardStep == CardRight /\ [Next]_vars => CardRight'
<1> SUFFICES ASSUME CardRight, [Next]_vars PROVE CardRight'
  OBVIOUS
<1> USE ConstantsAssumption DEF CardRight, CardsTyped, Promises
<1>1. CASE Asks
  <2>1. /\ asked' = asked + 1 /\ posts = {} /\ telling.left = {}
        /\ \A w \in Windows : asking[w].step = "none"
        /\ told' = Nobody /\ promised' = Nobody
        /\ UNCHANGED <<posts, watch, line, asking, telling>>
    BY <1>1 DEF Asks, Idle
  <2>2. 0..asked \subseteq 0..asked'
    BY <2>1
  <2> QED
    BY <2>1, <2>2 DEF Nobody
<1>2. CASE Answers
  BY <1>2 DEF Answers
<1>3. CASE Withdraws
  BY <1>3 DEF Withdraws
<1>4. CASE DropsLine
  BY <1>4 DEF DropsLine
<1>5. ASSUME NEW k \in 1..MaxAsked, Tell(k) PROVE CardRight'
  <2>1. k = asked
    BY <1>5 DEF Tell
  <2> QED
    BY <1>5, <2>1 DEF Tell, Leave
<1>6. ASSUME NEW k \in 1..MaxAsked, AnsweredNow(k) PROVE CardRight'
  <2>1. k = asked
    BY <1>6 DEF AnsweredNow
  <2>2. CASE watch.created = k
    BY <1>6, <2>1, <2>2 DEF AnsweredNow, OfCard, Never
  <2>3. CASE watch.created # k
    BY <1>6, <2>1, <2>3 DEF AnsweredNow, OfCard
  <2> QED
    BY <2>2, <2>3
<1>7. ASSUME NEW w \in Windows, TellsWatcher(w) PROVE CardRight'
  BY <1>7 DEF TellsWatcher, Leave
<1>8. ASSUME NEW w \in Windows, Finds(w) PROVE CardRight'
  BY <1>8 DEF Finds
<1>9. ASSUME NEW w \in Windows, FindsEnded(w) PROVE CardRight'
  BY <1>9 DEF FindsEnded, Leave
<1>10. ASSUME NEW w \in Windows, Watches(w) PROVE CardRight'
  <2>1. asking[w].card = asked
    BY <1>10 DEF Watches
  <2> QED
    BY <1>10, <2>1 DEF Watches, Kept, Idle
<1>11. ASSUME NEW w \in Windows, Closes(w) PROVE CardRight'
  BY <1>11 DEF Closes, cards, notes
<1>12. ASSUME NEW p \in Windows \cup {NoWindow}, Queue(p) PROVE CardRight'
  BY <1>12 DEF Queue, cards
<1>13. CASE Restart
  BY <1>13 DEF Restart, Idle
<1>14. CASE UNCHANGED vars
  BY <1>14 DEF vars, cards, notes
<1> QED
  BY <1>1, <1>2, <1>3, <1>4, <1>5, <1>6, <1>7, <1>8, <1>9, <1>10, <1>11, <1>12, <1>13, <1>14 DEF Next

(* A window is told of no card but one it asked of, or one of a bundle it  *)
(* queued the last task for: not of another that took the name since       *)
(* (watch_card, tell_watchers).                                            *)
THEOREM CardsOfTheirs == Spec => []ToldOfItsCards
<1>1. CardRight => ToldOfItsCards
  BY DEF CardRight, Promises, ToldOfItsCards
<1> QED
  BY CardInit, CardStep, <1>1, PTL DEF Spec

-----------------------------------------------------------------------------
(* The PR (PrWatch).                                                       *)

Times == {P!Never} \cup 0..clock
PrTyped ==
  /\ clock \in Nat /\ posted \in [P!Events -> Times] /\ began \subseteq 0..clock
  /\ step \in {"off", "list", "wait", "pull", "reviews", "comments", "update", "leave"}
  /\ file.since \in Times /\ seen.since \in Times
  /\ look.since \in Times /\ look.looked \in Times
  /\ DOMAIN look = {"since", "looked", "head", "found"}

(* The file has what the watch remembers, and its second is one in which a *)
(* look or the list began.                                                 *)
SinceBegan ==
  /\ step # "off" => seen = file
  /\ IF file.since = P!Never THEN began = {} /\ step \in {"off", "list"} ELSE file.since \in began

(* A look asks for what is later than the last one, and has found by now   *)
(* what was there when it began.                                           *)
Looking == step \in {"pull", "reviews", "comments", "update"}
Old(e) == posted[e] \in 0..look.looked /\ posted[e] # look.looked /\ posted[e] > look.since
LookRight ==
  /\ Looking => look.since = file.since /\ look.looked \in began
  /\ step \in {"comments", "update"} => \A e \in Reviews : Old(e) => e \in look.found
  /\ step = "update" => \A e \in Comments : Old(e) => e \in look.found

(* What the next look does not ask for was found by one before it.         *)
Reached(e) == IF step = "leave" THEN e \in left \cup lost \cup look.found ELSE e \in left \cup lost
Early(e) == posted[e] \in began \/ \A second \in began : posted[e] < second
FoundBefore == \A e \in P!Events : posted[e] \in 0..file.since => Reached(e) \/ Early(e)

PrRight == PrTyped /\ SinceBegan /\ LookRight /\ FoundBefore

LEMMA PrInit == P!Init => PrRight
  BY DEF P!Init, PrRight, PrTyped, SinceBegan, LookRight, FoundBefore, Looking, Times, Early,
    Reached, P!Never, P!NoSeen, P!NoLook

(* What others do, and time, do not matter to a look nor to what was found *)
(* before: what they write has the second of now, and the last look that   *)
(* ended began in this second or before it.                                *)
LEMMA HubGoes ==
  ASSUME PrRight, clock' \in Nat, clock' >= clock,
         posted' \in [P!Events -> Times'],
         \A e \in P!Events : posted'[e] # posted[e] => posted'[e] = clock,
         UNCHANGED <<began, file, seen, left, lost, look, step>>
  PROVE  PrRight'
<1> USE DEF PrRight
<1>1. Times \subseteq Times' /\ 0..clock \subseteq 0..clock'
  BY DEF PrTyped, Times, P!Never
<1>2. PrTyped'
  BY <1>1 DEF PrTyped
<1>3. SinceBegan'
  BY DEF SinceBegan
<1>4. look.looked \in Times /\ \A e \in P!Events : Old(e)' => Old(e)
  BY DEF PrTyped, Old, Times, P!Never
<1>5. LookRight'
  BY <1>4 DEF LookRight, Looking, P!Events
<1>6. ASSUME NEW e \in P!Events, posted'[e] \in 0..file.since PROVE Reached(e)' \/ Early(e)'
  <2>1. CASE posted'[e] = posted[e]
    BY <1>6, <2>1 DEF FoundBefore, Reached, Early
  <2>2. CASE posted'[e] = clock
    <3>1. file.since = clock /\ clock \in began
      BY <1>6, <2>2 DEF PrTyped, SinceBegan, Times, P!Never
    <3> QED
      BY <2>2, <3>1 DEF Early
  <2> QED
    BY <1>6, <2>1, <2>2
<1>7. FoundBefore'
  BY <1>6 DEF FoundBefore
<1> QED
  BY <1>2, <1>3, <1>5, <1>7

(* A second that begins now is no earlier than any event: it makes an      *)
(* early one no late one.                                                  *)
LEMMA SecondAdded ==
  ASSUME PrTyped, NEW e \in P!Events, posted[e] # P!Never,
         posted' = posted, began' \in {began, began \cup {clock}}, Early(e)
  PROVE  Early(e)'
BY DEF PrTyped, Early, Times, P!Never

(* A read of GitHub keeps what the look has, and adds what it asked for.   *)
LEMMA ReadsKeep ==
  ASSUME PrRight, step \in {"pull", "reviews", "comments"},
         step' \in {"reviews", "comments", "update"},
         look'.since = look.since, look'.looked = look.looked, DOMAIN look' = DOMAIN look,
         step' \in {"comments", "update"} => \A e \in Reviews : Old(e) => e \in look'.found,
         step' = "update" => \A e \in Comments : Old(e) => e \in look'.found,
         UNCHANGED <<clock, posted, began, file, seen, left, lost>>
  PROVE  PrRight'
<1> USE DEF PrRight
<1>1. PrTyped' /\ SinceBegan'
  BY DEF PrTyped, SinceBegan, Times
<1>2. \A e \in P!Events : Old(e)' <=> Old(e)
  BY DEF Old
<1>3. LookRight'
  BY <1>2 DEF LookRight, Looking, P!Events
<1>4. FoundBefore'
  BY DEF FoundBefore, Reached, Early
<1> QED
  BY <1>1, <1>3, <1>4

LEMMA PrStep == PrRight /\ [P!Next]_(P!vars) => PrRight'
<1> SUFFICES ASSUME PrRight, [P!Next]_(P!vars) PROVE PrRight'
  OBVIOUS
<1> USE DEF PrRight
<1>1. ASSUME NEW e \in P!Events, P!Write(e) PROVE PrRight'
  <2>1. clock \in Times /\ clock \in Nat /\ posted \in [P!Events -> Times]
    BY DEF PrTyped, Times
  <2>2. /\ posted' = [posted EXCEPT ![e] = clock] /\ clock' = clock
        /\ UNCHANGED <<began, file, seen, left, lost, look, step>>
    BY <1>1 DEF P!Write, P!watch
  <2>3. Times' = Times
    BY <2>2 DEF Times
  <2> QED
    BY <1>1, <2>1, <2>2, <2>3, HubGoes
<1>2. ASSUME \/ \E own \in BOOLEAN : P!Pushes(own)
             \/ P!Tick
             \/ \E e \in P!Events \cup P!Marks : P!Named(e)
             \/ UNCHANGED P!vars
      PROVE  PrRight'
  <2>1. clock \in Nat /\ posted \in [P!Events -> Times]
    BY DEF PrTyped
  <2>2. /\ posted' = posted /\ clock' \in {clock, clock + 1}
        /\ UNCHANGED <<began, file, seen, left, lost, look, step>>
    BY <1>2 DEF P!Pushes, P!Tick, P!Named, P!vars, P!hub, P!watch
  <2>3. Times \subseteq Times'
    BY <2>1, <2>2 DEF Times
  <2> QED
    BY <2>1, <2>2, <2>3, HubGoes
<1>3. CASE P!Starts
  <2>1. step = "off" /\ step' = "list" /\ seen' = file
        /\ UNCHANGED <<clock, posted, began, file, left, lost, look>>
    BY <1>3 DEF P!Starts, P!hub
  <2>2. PrTyped' /\ SinceBegan' /\ LookRight'
    BY <2>1 DEF PrTyped, SinceBegan, LookRight, Looking, Times
  <2>3. FoundBefore'
    BY <2>1 DEF FoundBefore, Reached, Early
  <2> QED
    BY <2>2, <2>3
<1>4. CASE P!Lists
  <2>1. /\ step = "list" /\ step' = "wait" /\ file' = seen' /\ seen = file
        /\ UNCHANGED <<clock, posted, left, lost, look>>
    BY <1>4 DEF P!Lists, P!hub, SinceBegan
  <2>2. CASE file.since = P!Never
    <3>0. seen' = [since |-> clock, head |-> head] /\ began' = began \cup {clock}
      BY <1>4, <2>1, <2>2 DEF P!Lists
    <3>1. began = {} /\ began' = {clock} /\ file'.since = clock /\ clock \in Nat
      BY <2>1, <2>2, <3>0 DEF SinceBegan, PrTyped
    <3>2. PrTyped' /\ SinceBegan' /\ LookRight'
      BY <2>1, <3>1 DEF PrTyped, SinceBegan, LookRight, Looking, Times, P!Never
    <3>3. FoundBefore'
      BY <2>1, <3>1 DEF FoundBefore, Reached, Early
    <3> QED
      BY <3>2, <3>3
  <2>3. CASE file.since # P!Never
    <3>1. began' = began /\ file' = file /\ seen' = seen
      BY <1>4, <2>1, <2>3 DEF P!Lists
    <3>2. PrTyped' /\ SinceBegan' /\ LookRight'
      BY <2>1, <2>3, <3>1 DEF PrTyped, SinceBegan, LookRight, Looking, Times
    <3>3. FoundBefore'
      BY <2>1, <3>1 DEF FoundBefore, Reached, Early
    <3> QED
      BY <3>2, <3>3
  <2> QED
    BY <2>2, <2>3
<1>5. CASE P!LookStarts
  <2>1. /\ step = "wait" /\ step' = "pull" /\ seen = file /\ clock \in Nat
        /\ look' = [since |-> file.since, looked |-> clock, head |-> 0, found |-> {}]
        /\ began' = began \cup {clock}
        /\ UNCHANGED <<clock, posted, file, seen, left, lost>>
    BY <1>5 DEF P!LookStarts, P!hub, P!NoLook, SinceBegan, PrTyped
  <2>2. PrTyped' /\ SinceBegan' /\ LookRight'
    BY <2>1 DEF PrTyped, SinceBegan, LookRight, Looking, Times
  <2>3. ASSUME NEW e \in P!Events, posted[e] \in 0..file.since PROVE Reached(e)' \/ Early(e)'
    <3>1. posted[e] # P!Never /\ (Reached(e) \/ Early(e))
      BY <2>1, <2>3 DEF FoundBefore, P!Never, PrTyped, Times
    <3> QED
      BY <2>1, <3>1, SecondAdded DEF Reached
  <2>4. FoundBefore'
    BY <2>1, <2>3 DEF FoundBefore
  <2> QED
    BY <2>2, <2>4
<1>6. CASE P!ReadsPull \/ P!ReadsReviews \/ P!ReadsComments
  <2>1. CASE P!ReadsPull
    <3>1. step = "pull" /\ step' = "reviews" /\ look' = [look EXCEPT !.head = head]
      BY <2>1 DEF P!ReadsPull, PrTyped
    <3> QED
      BY <2>1, <3>1, ReadsKeep DEF P!ReadsPull, P!hub
  <2>2. CASE P!ReadsReviews
    <3>1. step = "reviews" /\ step' = "comments"
          /\ look' = [look EXCEPT !.found = @ \cup P!Since(Reviews)]
      BY <2>2 DEF P!ReadsReviews
    <3> QED
      BY <2>2, <3>1, ReadsKeep DEF P!ReadsReviews, P!hub, P!Since, Old
  <2>3. CASE P!ReadsComments
    <3>1. step = "comments" /\ step' = "update"
          /\ look' = [look EXCEPT !.found = @ \cup P!Since(Comments)]
      BY <2>3 DEF P!ReadsComments
    <3> QED
      BY <2>3, <3>1, ReadsKeep DEF P!ReadsComments, P!hub, P!Since, Old, LookRight
  <2> QED
    BY <1>6, <2>1, <2>2, <2>3
<1>7. CASE P!LookEnds
  <2>1. /\ step = "update" /\ step' = "leave" /\ seen' = file'
        /\ file'.since = look.looked /\ look.found \subseteq look'.found
        /\ look'.since = look.since /\ look'.looked = look.looked
        /\ DOMAIN look' = DOMAIN look /\ UNCHANGED <<clock, posted, began, left, lost>>
    BY <1>7 DEF P!LookEnds, P!hub, P!Taken, PrTyped
  <2>2. look.since = file.since /\ look.looked \in began /\ look.looked # P!Never
    BY <2>1 DEF LookRight, Looking, PrTyped, P!Never
  <2>3. PrTyped' /\ SinceBegan' /\ LookRight'
    BY <2>1, <2>2 DEF PrTyped, SinceBegan, LookRight, Looking, Times
  <2>4. ASSUME NEW e \in P!Events, posted[e] \in 0..look.looked PROVE Reached(e)' \/ Early(e)'
    <3>1. CASE posted[e] = look.looked
      BY <2>1, <2>2, <3>1 DEF Early
    <3>2. CASE posted[e] # look.looked /\ posted[e] > look.since
      <4>1. Old(e)
        BY <2>4, <3>2 DEF Old
      <4>2. e \in look.found
        BY <2>1, <4>1 DEF LookRight, P!Events
      <4> QED
        BY <2>1, <4>2 DEF Reached
    <3>3. CASE ~(posted[e] > look.since)
      <4>1. posted[e] \in 0..file.since
        BY <2>2, <2>4, <3>3 DEF PrTyped, Times, P!Never
      <4> QED
        BY <2>1, <4>1 DEF FoundBefore, Reached, Early
    <3> QED
      BY <3>1, <3>2, <3>3
  <2>5. FoundBefore'
    BY <2>1, <2>4 DEF FoundBefore
  <2> QED
    BY <2>3, <2>5
<1>8. CASE P!Leaves
  <2>1. /\ step = "leave" /\ step' = "wait" /\ left' = left \cup look.found
        /\ look' = P!NoLook /\ UNCHANGED <<clock, posted, began, file, seen, lost>>
    BY <1>8 DEF P!Leaves, P!hub
  <2>2. PrTyped' /\ SinceBegan' /\ LookRight'
    BY <2>1 DEF PrTyped, SinceBegan, LookRight, Looking, Times, P!NoLook
  <2>3. FoundBefore'
    BY <2>1 DEF FoundBefore, Reached, Early
  <2> QED
    BY <2>2, <2>3
<1>9. CASE P!Raises
  <2>1. /\ step \in {"pull", "reviews", "comments", "leave"} /\ step' = "wait"
        /\ lost' = (IF step = "leave" THEN lost \cup look.found ELSE lost)
        /\ look' = P!NoLook /\ UNCHANGED <<clock, posted, began, file, seen, left>>
    BY <1>9 DEF P!Raises, P!hub
  <2>2. PrTyped' /\ SinceBegan' /\ LookRight'
    BY <2>1 DEF PrTyped, SinceBegan, LookRight, Looking, Times, P!NoLook
  <2>3. FoundBefore'
    BY <2>1 DEF FoundBefore, Reached, Early
  <2> QED
    BY <2>2, <2>3
<1>10. CASE P!Ends
  <2>1. /\ step # "off" /\ step' = "off" /\ seen' = P!NoSeen
        /\ lost' = (IF step = "leave" THEN lost \cup look.found ELSE lost)
        /\ look' = P!NoLook /\ UNCHANGED <<clock, posted, began, file, left>>
    BY <1>10 DEF P!Ends, P!hub
  <2>2. PrTyped' /\ SinceBegan' /\ LookRight'
    BY <2>1 DEF PrTyped, SinceBegan, LookRight, Looking, Times, P!NoLook, P!NoSeen
  <2>3. FoundBefore'
    BY <2>1 DEF FoundBefore, Reached, Early
  <2> QED
    BY <2>2, <2>3
<1> QED
  BY <1>1, <1>2, <1>3, <1>4, <1>5, <1>6, <1>7, <1>8, <1>9, <1>10 DEF P!Next, P!Watch

(* A review or comment that the next look will not find was found by one   *)
(* before it, but one of the very second in which a look began (look,      *)
(* Watch.run).                                                             *)
THEOREM PostsFound == P!Spec => []P!NothingMissed
<1>1. PrRight => P!NothingMissed
  BY DEF PrRight, SinceBegan, FoundBefore, Reached, Early, P!NothingMissed
<1> QED
  BY PrInit, PrStep, <1>1, PTL DEF P!Spec
=============================================================================
