--------------------------- MODULE RunQueueProofs ---------------------------
(***************************************************************************)
(* Theorems about the run queue, for any clients, cores and bounds: types, *)
(* the consistency of the queue with its file, the exclusive cores, the    *)
(* lease, the order of the starts and the memory they take.  Each action   *)
(* that changes the queue goes through Admit, so the facts about one pass  *)
(* of it are lemmas of their own.                                          *)
(***************************************************************************)
EXTENDS RunQueue, FiniteSetTheorems, TLAPS

Inv == TypeOK /\ Consistent

(* A pass over the runs R and the waiting ones W starts `new`: the runs of  *)
(* R stay with their cores and their age, a started run that takes cores    *)
(* gets some that nobody in R holds and nobody else is given, had memory    *)
(* left for it, and goes before no run that arrived earlier and waits.      *)
Passed(R, W, q, new, ended) ==
  /\ running' = R \cup new
  /\ waiting' = W \ new
  /\ saved' = IF new # {} \/ ended THEN R \cup new ELSE saved
  /\ age' \in [Clients -> Ages]
  /\ cpus' \in [Clients -> SUBSET Cores]
  /\ \A c \in new : age'[c] = "ramping"
  /\ \A c \in R \ new : age'[c] = age[c] /\ cpus'[c] = cpus[c]
  /\ \A c \in new : Need(c) > 0 =>
     /\ cpus'[c] \subseteq FreeCores(R)
     /\ cpus'[c] # {}
     /\ \A d \in new \ {c} : Need(d) > 0 => cpus'[c] \cap cpus'[d] = {}
     /\ HasMemory(R, Before(W, q, c), c)
     /\ \A d \in W \ new : ~(q[d] < q[c])
  /\ \A c \in W \ new : Need(c) > 0

(* What a pass of admit leaves alone and what it gives.                     *)
LEMMA AdmitPass ==
  ASSUME TypeOK,
         NEW R \in SUBSET Clients, NEW W \in SUBSET Clients,
         NEW q \in [Clients -> Nat], NEW ended \in BOOLEAN,
         Admit(R, W, q, ended)
  PROVE  \E new \in SUBSET W : Passed(R, W, q, new, ended)
<1> DEFINE core == {c \in W : Need(c) > 0}
<1> DEFINE Given(started, given) ==
        /\ \A c \in started :
             /\ Cardinality(given[c]) = Need(c)
             /\ \A d \in started \ {c} : given[c] \cap given[d] = {}
             /\ Before(W, q, c) \cap core \subseteq started
             /\ HasMemory(R, Before(W, q, c), c)
        /\ LET new == started \cup (W \ core)
           IN  /\ running' = R \cup new
               /\ waiting' = W \ new
               /\ cpus' = [c \in Clients |-> IF c \in started THEN given[c]
                               ELSE IF c \in new THEN Cores
                               ELSE IF c \in R THEN cpus[c] ELSE {}]
               /\ age' = [c \in Clients |-> IF c \in R \ new THEN age[c] ELSE "ramping"]
               /\ saved' = IF new # {} \/ ended THEN R \cup new ELSE saved
<1>0. \E started \in SUBSET core : \E given \in [started -> SUBSET FreeCores(R)] :
        Given(started, given)
  BY DEF Admit
<1>a. PICK started \in SUBSET core : \E given \in [started -> SUBSET FreeCores(R)] :
        Given(started, given)
  BY <1>0
<1>1. PICK given \in [started -> SUBSET FreeCores(R)] : Given(started, given)
  BY <1>a
<1> DEFINE new == started \cup (W \ core)
<1>c. cpus' = [c \in Clients |-> IF c \in started THEN given[c]
                               ELSE IF c \in new THEN Cores
                               ELSE IF c \in R THEN cpus[c] ELSE {}]
  BY <1>1
<1>2. new \in SUBSET W
  OBVIOUS
<1>3. age' \in [Clients -> Ages]
  BY <1>1 DEF TypeOK, Ages
<1>4. FreeCores(R) \subseteq Cores
  BY DEF FreeCores
<1>5. cpus' \in [Clients -> SUBSET Cores]
  <2>1. \A c \in Clients : (IF c \in started THEN given[c]
                               ELSE IF c \in new THEN Cores
                               ELSE IF c \in R THEN cpus[c] ELSE {}) \in SUBSET Cores
    BY <1>1, <1>4 DEF TypeOK
  <2> QED BY <1>1, <2>1
<1>6. \A c \in new : age'[c] = "ramping"
  BY <1>1
<1>7. \A c \in R \ new : age'[c] = age[c] /\ cpus'[c] = cpus[c]
  BY <1>1
<1>8. ASSUME NEW c \in new, Need(c) > 0
      PROVE  /\ cpus'[c] \subseteq FreeCores(R)
             /\ cpus'[c] # {}
             /\ \A d \in new \ {c} : Need(d) > 0 => cpus'[c] \cap cpus'[d] = {}
             /\ HasMemory(R, Before(W, q, c), c)
             /\ \A d \in W \ new : ~(q[d] < q[c])
  <2>1. \A d \in new : Need(d) > 0 => d \in started
    BY <1>2 DEF core
  <2>2. ASSUME NEW d \in started PROVE cpus'[d] = given[d]
    <3>1. d \in Clients
      OBVIOUS
    <3> QED BY <1>c, <3>1
  <2>3. given[c] \subseteq FreeCores(R) /\ given[c] # {}
    <3>1. Cardinality(given[c]) = Need(c) /\ c \in started
      BY <1>1, <1>8, <2>1
    <3>2. Cardinality({}) = 0
      BY FS_EmptySet
    <3> QED BY <1>8, <3>1, <3>2
  <2>4. Before(W, q, c) \cap core \subseteq started /\ HasMemory(R, Before(W, q, c), c)
    BY <1>1, <1>8, <2>1
  <2>5. \A d \in W \ new : ~(q[d] < q[c])
    BY <2>4 DEF Before
  <2> QED BY <1>1, <1>8, <2>1, <2>2, <2>3, <2>4, <2>5
<1> QED
  <2>1. running' = R \cup new /\ waiting' = W \ new
    BY <1>1
  <2>2. saved' = IF new # {} \/ ended THEN R \cup new ELSE saved
    BY <1>1
  <2>3. \A c \in W \ new : Need(c) > 0
    OBVIOUS
  <2> HIDE DEF new
  <2> QED BY <1>2, <1>3, <1>5, <1>6, <1>7, <1>8, <2>1, <2>2, <2>3 DEF Passed

-----------------------------------------------------------------------------
(* Such a pass keeps the queue and the file alike, the cores of the live    *)
(* runs of the file disjoint, and the runs that do not wait as they are.    *)
Kept(R, W) ==
  /\ FileAgrees' /\ SavedDisjoint'
  /\ running' \in SUBSET Clients /\ waiting' \in SUBSET Clients
  /\ saved' \in SUBSET Clients
  /\ cpus' \in [Clients -> SUBSET Cores] /\ age' \in [Clients -> Ages]
  /\ waiting' \subseteq W
  /\ W \subseteq waiting' \cup running' /\ R \subseteq running'
  /\ \A c \in saved \cap alive : Need(c) > 0 /\ c \notin W =>
       c \in saved' /\ cpus'[c] = cpus[c] /\ age'[c] = age[c]

(* A pass of admit over all the live runs of the queue is one.              *)
LEMMA AdmitKeeps ==
  ASSUME TypeOK, Consistent, up, up' = up, alive' = alive,
         NEW R \in SUBSET running, NEW W \in SUBSET Clients,
         NEW q \in [Clients -> Nat], NEW ended \in BOOLEAN,
         running \cap alive \subseteq R, R = running \/ ended,
         Admit(R, W, q, ended)
  PROVE  Kept(R, W)
<1>1. R \in SUBSET Clients /\ saved \in SUBSET Clients
  BY DEF TypeOK
<1>2. PICK new \in SUBSET W : Passed(R, W, q, new, ended)
  BY <1>1, AdmitPass
<1>3. saved \cap alive \subseteq R /\ R \subseteq saved
  BY DEF Consistent, FileAgrees
<1>4. FileAgrees'
  BY <1>2, <1>3 DEF FileAgrees, Consistent, Passed
<1>5. saved' \cap alive \subseteq R \cup new
  BY <1>2, <1>3 DEF Passed
<1>6. ASSUME NEW c \in Holders(saved \cap alive)'
      PROVE  /\ cpus'[c] # {}
             /\ \A d \in Holders(saved \cap alive)' \ {c} : cpus'[c] \cap cpus'[d] = {}
  <2>1. \A e \in Holders(saved \cap alive)' :
          e \in alive /\ e \in R \cup new /\ Need(e) > 0 /\ age'[e] # "lent"
    BY <1>5 DEF Holders
  <2>2. \A e \in Holders(saved \cap alive)' \ new :
          e \in Holders(saved \cap alive) /\ e \in Holders(R) /\ cpus'[e] = cpus[e]
    BY <1>2, <1>3, <2>1 DEF Holders, Passed
  <2>3. \A e \in Holders(R) : cpus[e] \cap FreeCores(R) = {}
    BY DEF FreeCores
  <2>4. CASE c \in new
    BY <1>2, <2>1, <2>2, <2>3, <2>4 DEF Passed
  <2>5. CASE c \notin new
    <3>1. c \in Holders(saved \cap alive) /\ cpus'[c] = cpus[c]
      BY <1>6, <2>2, <2>5
    <3>2. cpus[c] # {}
      BY <3>1 DEF Consistent, SavedDisjoint
    <3>3. ASSUME NEW d \in Holders(saved \cap alive)' \ {c}
          PROVE  cpus'[c] \cap cpus'[d] = {}
      <4>1. CASE d \in new
        BY <1>2, <1>6, <2>1, <2>2, <2>3, <2>5, <4>1 DEF Passed
      <4>2. CASE d \notin new
        BY <2>2, <3>1, <4>2 DEF Consistent, SavedDisjoint
      <4> QED BY <4>1, <4>2
    <3> QED BY <3>1, <3>2, <3>3
  <2> QED BY <2>4, <2>5
<1>7. SavedDisjoint'
  BY <1>6 DEF SavedDisjoint, Holders
<1>8. \A c \in saved \cap alive : Need(c) > 0 /\ c \notin W =>
        c \in saved' /\ cpus'[c] = cpus[c] /\ age'[c] = age[c]
  BY <1>2, <1>3 DEF Passed
<1> QED BY <1>1, <1>2, <1>4, <1>7, <1>8 DEF Kept, Passed

-----------------------------------------------------------------------------
(* The queue starts empty, as its file.                                     *)
LEMMA InvInit == Init => Inv
<1> SUFFICES ASSUME Init PROVE Inv
  OBVIOUS
<1>1. TypeOK
  BY DEF Init, TypeOK, Ages, Stages
<1>2. FileAgrees /\ PinnedIsSaved /\ AskedIsQueued /\ DownIsEmpty
  BY DEF Init, FileAgrees, PinnedIsSaved, AskedIsQueued, DownIsEmpty
<1>3. SavedDisjoint
  BY DEF Init, SavedDisjoint, Holders
<1> QED BY <1>1, <1>2, <1>3 DEF Inv, Consistent

(* A request that waits or starts.                                          *)
LEMMA InvRequest ==
  ASSUME Inv, NEW c \in Clients, Request(c)
  PROVE  Inv'
<1> USE DEF Inv
<1> DEFINE kept  == tickets[Key[c]]
           place == IF kept # 0 THEN kept ELSE stamp + 1
           q     == [queued EXCEPT ![c] = place]
           W     == waiting \cup {c}
<1>1. q \in [Clients -> Nat] /\ W \in SUBSET Clients /\ Key[c] \in Keys
  BY DEF TypeOK, Keys
<1>2. /\ up /\ up' = up /\ alive' = alive /\ pinned' = pinned
      /\ stage' = [stage EXCEPT ![c] = "asking"] /\ queued' = q
      /\ tight' = tight /\ crashes' = crashes
      /\ stage[c] \in {"new", "retrying"}
      /\ tickets' = [tickets EXCEPT ![Key[c]] = 0] /\ stamp' \in Nat
  BY DEF Request, Asks, TypeOK
<1>a. Admit(running, W, q, FALSE)
  BY DEF Request
<1> HIDE DEF q, W, kept, place
<1>3. running \in SUBSET running /\ running \cap alive \subseteq running
  OBVIOUS
<1>4. Kept(running, W)
  BY <1>1, <1>2, <1>a, <1>3, AdmitKeeps
<1>5. TypeOK'
  BY <1>1, <1>2, <1>4 DEF TypeOK, Stages, Kept
<1>6. PinnedIsSaved'
  BY <1>2, <1>4 DEF PinnedIsSaved, AskedIsQueued, Consistent, TypeOK, W, Kept
<1>7. AskedIsQueued'
  BY <1>2, <1>4 DEF AskedIsQueued, Consistent, TypeOK, W, Kept
<1>8. DownIsEmpty'
  BY <1>2 DEF DownIsEmpty
<1> QED BY <1>4, <1>5, <1>6, <1>7, <1>8 DEF Consistent, Kept

(* A handler that finds its client gone.                                    *)
LEMMA InvHandlerLeaves ==
  ASSUME Inv, NEW c \in Clients, HandlerLeaves(c)
  PROVE  Inv'
<1> USE DEF Inv
<1>1. /\ up /\ up' = up /\ alive' = alive /\ pinned' = pinned
      /\ queued' = queued /\ stamp' = stamp /\ tight' = tight /\ crashes' = crashes
      /\ stage[c] = "dropped"
      /\ stage' = [stage EXCEPT ![c] = Left(c, alive)]
  BY DEF HandlerLeaves
<1>2. Left(c, alive) \in {"new", "gone"}
  BY DEF Left
<1>3. CASE c \in waiting
  <2> DEFINE W == waiting \ {c}
  <2>1. /\ tickets' = [tickets EXCEPT ![Key[c]] = queued[c]]
        /\ Admit(running, W, queued, FALSE)
    BY <1>3 DEF HandlerLeaves, KeepPlace
  <2>2. W \in SUBSET Clients /\ queued \in [Clients -> Nat] /\ Key[c] \in Keys
    BY DEF TypeOK, Keys
  <2> HIDE DEF W
  <2>3. running \in SUBSET running /\ running \cap alive \subseteq running
    OBVIOUS
  <2>4. Kept(running, W)
    BY <1>1, <2>1, <2>2, <2>3, AdmitKeeps
  <2>5. TypeOK'
    BY <1>1, <1>2, <2>1, <2>2, <2>4 DEF TypeOK, Stages, Kept
  <2>6. PinnedIsSaved'
    BY <1>1, <1>2, <2>4 DEF PinnedIsSaved, AskedIsQueued, Consistent, TypeOK, W, Kept
  <2>7. AskedIsQueued'
    BY <1>1, <1>2, <2>4 DEF AskedIsQueued, Consistent, TypeOK, W, Kept
  <2>8. DownIsEmpty'
    BY <1>1 DEF DownIsEmpty
  <2> QED BY <2>4, <2>5, <2>6, <2>7, <2>8 DEF Consistent, Kept
<1>4. CASE c \notin waiting
  <2>1. UNCHANGED <<queueVars, tickets>>
    BY <1>4 DEF HandlerLeaves
  <2>2. TypeOK'
    BY <1>1, <1>2, <2>1 DEF TypeOK, queueVars, Stages
  <2> QED BY <1>1, <1>2, <1>4, <2>1, <2>2
          DEF Consistent, FileAgrees, PinnedIsSaved, AskedIsQueued, SavedDisjoint,
              DownIsEmpty, queueVars, Holders, TypeOK
<1> QED BY <1>3, <1>4

(* The pass that gives cores back.                                          *)
LEMMA InvReap ==
  ASSUME Inv, Reap
  PROVE  Inv'
<1> USE DEF Inv
<1> DEFINE R     == running \cap alive
           ended == ~(running \subseteq alive)
<1>1. /\ up /\ up' = up /\ alive' = alive /\ pinned' = pinned /\ stage' = stage
      /\ tickets' = tickets /\ queued' = queued /\ stamp' = stamp
      /\ tight' = tight /\ crashes' = crashes
      /\ Admit(R, waiting, queued, ended)
  BY DEF Reap
<1>2. /\ R \in SUBSET running /\ running \cap alive \subseteq R
      /\ ended \in BOOLEAN /\ (R = running \/ ended)
      /\ waiting \in SUBSET Clients /\ queued \in [Clients -> Nat]
  BY DEF TypeOK
<1> HIDE DEF R, ended
<1>3. Kept(R, waiting)
  BY <1>1, <1>2, AdmitKeeps
<1>4. TypeOK'
  BY <1>1, <1>3 DEF TypeOK, Kept
<1>5. PinnedIsSaved'
  BY <1>1, <1>3 DEF PinnedIsSaved, AskedIsQueued, Consistent, TypeOK, Kept
<1>6. AskedIsQueued'
  BY <1>1, <1>3 DEF AskedIsQueued, Consistent, TypeOK, R, Kept
<1>7. DownIsEmpty'
  BY <1>1 DEF DownIsEmpty
<1> QED BY <1>3, <1>4, <1>5, <1>6, <1>7 DEF Consistent, Kept

(* Every step keeps the types and the consistency of queue and file.        *)
LEMMA InvNext == Inv /\ [Next]_vars => Inv'
<1> SUFFICES ASSUME Inv, [Next]_vars PROVE Inv'
  OBVIOUS
<1> USE DEF Inv
<1>1. ASSUME NEW c \in Clients, RequestNested(c) PROVE Inv'
  <2> DEFINE holder == FindHolder(c)
  <2>1. /\ up /\ c \in alive /\ holder # NoClient
        /\ stage' = [stage EXCEPT ![c] = IF holder = c THEN "pinned" ELSE "nested"]
        /\ pinned' = [pinned EXCEPT ![c] = cpus[holder]]
        /\ UNCHANGED <<up, queueVars, tickets, queued, alive, stamp, tight, crashes>>
        /\ stage[c] \in {"new", "retrying"}
    BY <1>1 DEF RequestNested, Asks
  <2>2. holder \in running
    BY <2>1 DEF FindHolder
  <2> HIDE DEF holder
  <2>3. TypeOK'
    BY <2>1, <2>2 DEF TypeOK, queueVars, Stages
  <2>4. FileAgrees' /\ SavedDisjoint' /\ DownIsEmpty' /\ AskedIsQueued'
    BY <2>1 DEF Consistent, FileAgrees, SavedDisjoint, DownIsEmpty, AskedIsQueued,
                queueVars, Holders, TypeOK
  <2>5. PinnedIsSaved'
    BY <2>1, <2>2 DEF Consistent, FileAgrees, PinnedIsSaved, queueVars, TypeOK
  <2> QED BY <2>3, <2>4, <2>5 DEF Consistent
<1>2. ASSUME NEW c \in Clients, RequestFull(c) PROVE Inv'
  <2>1. TypeOK'
    BY <1>2 DEF RequestFull, Asks, TypeOK, queueVars, Stages
  <2>2. Consistent'
    BY <1>2 DEF RequestFull, Asks, Consistent, FileAgrees, PinnedIsSaved, AskedIsQueued,
                SavedDisjoint, DownIsEmpty, queueVars, Holders, TypeOK
  <2> QED BY <2>1, <2>2
<1>3. ASSUME NEW c \in Clients, Request(c) PROVE Inv'
  BY <1>3, InvRequest
<1>4. ASSUME NEW c \in Clients, Answer(c) PROVE Inv'
  <2>1. TypeOK'
    BY <1>4 DEF Answer, TypeOK, queueVars, Stages
  <2>2. FileAgrees' /\ SavedDisjoint' /\ DownIsEmpty' /\ AskedIsQueued'
    BY <1>4 DEF Answer, Consistent, FileAgrees, SavedDisjoint, DownIsEmpty,
                AskedIsQueued, queueVars, Holders, TypeOK
  <2>3. PinnedIsSaved'
    BY <1>4 DEF Answer, Consistent, FileAgrees, PinnedIsSaved, AskedIsQueued,
                queueVars, TypeOK
  <2> QED BY <2>1, <2>2, <2>3 DEF Consistent
<1>5. ASSUME NEW c \in Clients, ClientDies(c) PROVE Inv'
  <2>1. TypeOK'
    BY <1>5 DEF ClientDies, Left, TypeOK, queueVars, Stages
  <2>2. Consistent'
    BY <1>5 DEF ClientDies, Left, Consistent, FileAgrees, PinnedIsSaved, AskedIsQueued,
                SavedDisjoint, DownIsEmpty, queueVars, Holders, TypeOK
  <2> QED BY <2>1, <2>2
<1>6. ASSUME NEW c \in Clients, HandlerLeaves(c) PROVE Inv'
  BY <1>6, InvHandlerLeaves
<1>7. ASSUME NEW c \in Clients, GiveUp(c) PROVE Inv'
  <2>1. TypeOK'
    BY <1>7 DEF GiveUp, Asks, TypeOK, queueVars, Stages
  <2>2. Consistent'
    BY <1>7 DEF GiveUp, Asks, Consistent, FileAgrees, PinnedIsSaved, AskedIsQueued,
                SavedDisjoint, DownIsEmpty, queueVars, Holders, TypeOK
  <2> QED BY <2>1, <2>2
<1>8. ASSUME NEW c \in Clients, RunEnds(c) PROVE Inv'
  <2>1. TypeOK'
    BY <1>8 DEF RunEnds, TypeOK, queueVars, Stages
  <2>2. Consistent'
    BY <1>8 DEF RunEnds, Consistent, FileAgrees, PinnedIsSaved, AskedIsQueued,
                SavedDisjoint, DownIsEmpty, queueVars, Holders, TypeOK
  <2> QED BY <2>1, <2>2
<1>9. ASSUME NEW c \in Clients, TimePasses(c) PROVE Inv'
  <2>1. TypeOK'
    BY <1>9 DEF TimePasses, TypeOK, Ages
  <2>2. FileAgrees' /\ PinnedIsSaved' /\ DownIsEmpty' /\ AskedIsQueued'
    BY <1>9 DEF TimePasses, Consistent, FileAgrees, PinnedIsSaved, DownIsEmpty,
                AskedIsQueued
  <2>3. SavedDisjoint'
    BY <1>9 DEF TimePasses, Consistent, SavedDisjoint, Holders, TypeOK
  <2> QED BY <2>1, <2>2, <2>3 DEF Consistent
<1>10. CASE Reap
  BY <1>10, InvReap
<1>11. CASE Crash
  <2>1. TypeOK'
    <3>1. \A c \in Clients : Left(c, alive) \in Stages
      BY DEF Left, Stages
    <3>2. stage' \in [Clients -> Stages]
      BY <1>11, <3>1 DEF Crash, TypeOK, Stages
    <3>3. tickets' \in [Keys -> Nat] /\ crashes' \in Nat
      BY <1>11 DEF Crash, TypeOK
    <3> QED BY <1>11, <3>2, <3>3 DEF Crash, TypeOK
  <2>2. Consistent'
    BY <1>11 DEF Crash, Left, Consistent, FileAgrees, PinnedIsSaved, AskedIsQueued,
                 SavedDisjoint, DownIsEmpty, Holders, TypeOK
  <2> QED BY <2>1, <2>2
<1>12. CASE Restart
  <2>1. TypeOK'
    BY <1>12 DEF Restart, TypeOK
  <2>2. FileAgrees' /\ PinnedIsSaved' /\ AskedIsQueued' /\ DownIsEmpty'
    BY <1>12 DEF Restart, Consistent, FileAgrees, PinnedIsSaved, AskedIsQueued,
                 DownIsEmpty
  <2>3. SavedDisjoint'
    BY <1>12 DEF Restart, Consistent, SavedDisjoint, Holders
  <2> QED BY <2>1, <2>2, <2>3 DEF Consistent
<1>13. CASE HostMemory
  <2>1. TypeOK'
    BY <1>13 DEF HostMemory, TypeOK, queueVars
  <2>2. Consistent'
    BY <1>13 DEF HostMemory, Consistent, FileAgrees, PinnedIsSaved, AskedIsQueued,
                 SavedDisjoint, DownIsEmpty, queueVars, Holders
  <2> QED BY <2>1, <2>2
<1>14. ASSUME NEW k \in Keys, TicketExpires(k) PROVE Inv'
  <2>1. TypeOK'
    BY <1>14 DEF TicketExpires, TypeOK, queueVars
  <2>2. Consistent'
    BY <1>14 DEF TicketExpires, Consistent, FileAgrees, PinnedIsSaved, AskedIsQueued,
                 SavedDisjoint, DownIsEmpty, queueVars, Holders
  <2> QED BY <2>1, <2>2
<1>15. CASE UNCHANGED vars
  <2>1. TypeOK'
    BY <1>15 DEF vars, TypeOK
  <2>2. Consistent'
    BY <1>15 DEF vars, Consistent, FileAgrees, PinnedIsSaved, AskedIsQueued,
                 SavedDisjoint, DownIsEmpty, Holders
  <2> QED BY <2>1, <2>2
<1> QED
  BY <1>1, <1>2, <1>3, <1>4, <1>5, <1>6, <1>7, <1>8, <1>9, <1>10, <1>11, <1>12,
     <1>13, <1>14, <1>15 DEF Next

-----------------------------------------------------------------------------
(* The types, and the agreement of the queue, its file and the processes,   *)
(* hold in every state of every instance.                                   *)
THEOREM Consistency == Spec => [](TypeOK /\ Consistent)
<1>1. Spec => []Inv
  BY InvInit, InvNext, PTL DEF Spec
<1> QED BY <1>1, PTL DEF Inv

(* Two live runs that hold cores never share one.                           *)
LEMMA InvExclusive == Inv => ExclusiveCores
<1> SUFFICES ASSUME Inv, NEW c \in Clients, NEW d \in Clients,
                    c # d, Owns(c), Owns(d)
             PROVE  pinned[c] \cap pinned[d] = {}
  BY DEF ExclusiveCores
<1>1. ASSUME NEW e \in Clients, Owns(e)
      PROVE  e \in Holders(saved \cap alive) /\ pinned[e] = cpus[e]
  BY <1>1 DEF Owns, Inv, Consistent, PinnedIsSaved, Holders
<1>2. cpus[c] \cap cpus[d] = {}
  BY <1>1 DEF Inv, Consistent, SavedDisjoint
<1> QED BY <1>1, <1>2

(* The runs of any clients never share a core they hold (get_free_cores,    *)
(* admit, load): the exclusion, from the consistency of queue and file.     *)
THEOREM Exclusion == Spec => []ExclusiveCores
<1>1. Spec => []Inv
  BY InvInit, InvNext, PTL DEF Spec
<1> QED BY <1>1, InvExclusive, PTL

-----------------------------------------------------------------------------
(* A step that changes what one client holds, from or to nothing, is a step *)
(* of the lease: exclusion afterwards is what a grant asks for.             *)
LEMMA OneLease ==
  ASSUME ExclusiveCores', pinned' \in [Clients -> SUBSET Cores],
         NEW c \in Clients,
         \A d \in Clients \ {c} : lease'[d] = lease[d],
         lease[c] = {} \/ lease'[c] = {} \/ lease'[c] = lease[c]
  PROVE  [Leases!Next]_lease
<1>1. /\ lease = [d \in Clients |-> lease[d]]
      /\ lease' = [d \in Clients |-> lease'[d]]
  BY DEF lease
<1>2. CASE lease'[c] = lease[c]
  <2>1. \A d \in Clients : lease'[d] = lease[d]
    BY <1>2
  <2>2. lease' = lease
    BY <2>1 DEF lease
  <2> QED BY <2>2
<1>3. CASE lease[c] # {} /\ lease'[c] = {}
  <2>1. lease' = [lease EXCEPT ![c] = {}]
    BY <1>1, <1>3 DEF lease
  <2> QED BY <1>3, <2>1 DEF Leases!Next, Leases!GiveBack
<1>4. CASE lease[c] = {} /\ lease'[c] # {}
  <2>1. Owns(c)' /\ lease'[c] = pinned'[c]
    BY <1>4 DEF lease
  <2>2. \A d \in Clients \ {c} : lease'[d] \cap lease'[c] = {}
    BY <2>1 DEF lease, ExclusiveCores
  <2>3. \A d \in Clients : lease[d] \cap lease'[c] = {}
    BY <1>4, <2>2
  <2>4. lease' = [lease EXCEPT ![c] = lease'[c]]
    BY <1>1 DEF lease
  <2>5. lease'[c] \in SUBSET Cores
    BY <2>1
  <2> QED BY <1>4, <2>3, <2>4, <2>5 DEF Leases!Next, Leases!Grant
<1> QED BY <1>2, <1>3, <1>4

(* A pass of admit changes no lease: the clients that were answered are in  *)
(* the file, and their runs keep their cores and their age.                 *)
LEMMA AdmitLease ==
  ASSUME Inv, up, up' = up, alive' = alive, pinned' = pinned,
         \A c \in Clients : stage'[c] = "pinned" <=> stage[c] = "pinned",
         NEW R \in SUBSET running, NEW W \in SUBSET Clients,
         NEW q \in [Clients -> Nat], NEW ended \in BOOLEAN,
         running \cap alive \subseteq R, R = running \/ ended,
         \A c \in W : stage[c] # "pinned",
         Admit(R, W, q, ended)
  PROVE  lease' = lease
<1>1. \A c \in saved \cap alive : Need(c) > 0 /\ c \notin W =>
        c \in saved' /\ cpus'[c] = cpus[c] /\ age'[c] = age[c]
  <2>1. TypeOK /\ Consistent
    BY DEF Inv
  <2>2. Kept(R, W)
    BY <2>1, AdmitKeeps
  <2> QED BY <2>2 DEF Kept
<1>2. ASSUME NEW c \in Clients
      PROVE  Owns(c)' <=> Owns(c)
  <2>1. c \in alive /\ stage[c] = "pinned" /\ Need(c) > 0 => age'[c] = age[c]
    BY <1>1 DEF Inv, Consistent, PinnedIsSaved
  <2> QED BY <2>1 DEF Owns
<1> QED BY <1>2 DEF lease

(* A step of the queue is a step of the lease or leaves it alone.           *)
LEMMA LeaseNext == Inv /\ Inv' /\ [Next]_vars => [Leases!Next]_lease
<1> SUFFICES ASSUME Inv, Inv', [Next]_vars PROVE [Leases!Next]_lease
  OBVIOUS
<1>0. ExclusiveCores' /\ pinned' \in [Clients -> SUBSET Cores]
  <2>1. Inv' => ExclusiveCores'
    BY InvExclusive, PTL
  <2> QED BY <2>1 DEF Inv, TypeOK
<1> USE DEF Inv
<1>1. ASSUME NEW c \in Clients, RequestNested(c) PROVE [Leases!Next]_lease
  <2>1. lease[c] = {} /\ \A d \in Clients \ {c} : lease'[d] = lease[d]
    BY <1>1 DEF RequestNested, Asks, lease, Owns, queueVars, TypeOK
  <2> QED BY <1>0, <2>1, OneLease
<1>2. ASSUME NEW c \in Clients, RequestFull(c) PROVE [Leases!Next]_lease
  <2>1. \A d \in Clients : Owns(d)' <=> Owns(d)
    BY <1>2 DEF RequestFull, Asks, Owns, queueVars, TypeOK
  <2>2. lease' = lease
    BY <1>2, <2>1 DEF RequestFull, lease
  <2> QED BY <2>2
<1>3. ASSUME NEW c \in Clients, Request(c) PROVE [Leases!Next]_lease
  <2> DEFINE kept  == tickets[Key[c]]
             place == IF kept # 0 THEN kept ELSE stamp + 1
             q     == [queued EXCEPT ![c] = place]
             W     == waiting \cup {c}
  <2>1. Admit(running, W, q, FALSE)
    BY <1>3 DEF Request
  <2>2. /\ up /\ up' = up /\ alive' = alive /\ pinned' = pinned
        /\ \A d \in Clients : stage'[d] = "pinned" <=> stage[d] = "pinned"
        /\ \A d \in W : stage[d] # "pinned"
    BY <1>3 DEF Request, Asks, TypeOK, Consistent, AskedIsQueued
  <2>3. q \in [Clients -> Nat] /\ W \in SUBSET Clients
    BY DEF TypeOK, Keys
  <2> HIDE DEF q, W, kept, place
  <2>4. running \in SUBSET running /\ running \cap alive \subseteq running
    OBVIOUS
  <2>5. lease' = lease
    BY <2>1, <2>2, <2>3, <2>4, AdmitLease
  <2> QED BY <2>5
<1>4. ASSUME NEW c \in Clients, Answer(c) PROVE [Leases!Next]_lease
  <2>1. lease[c] = {} /\ \A d \in Clients \ {c} : lease'[d] = lease[d]
    BY <1>4 DEF Answer, lease, Owns, queueVars, TypeOK
  <2> QED BY <1>0, <2>1, OneLease
<1>5. ASSUME NEW c \in Clients, ClientDies(c) PROVE [Leases!Next]_lease
  <2>1. \A d \in Clients : Owns(d)' <=> Owns(d)
    BY <1>5 DEF ClientDies, Left, Owns, queueVars, TypeOK
  <2>2. lease' = lease
    BY <1>5, <2>1 DEF ClientDies, lease
  <2> QED BY <2>2
<1>6. ASSUME NEW c \in Clients, HandlerLeaves(c) PROVE [Leases!Next]_lease
  <2> DEFINE W == waiting \ {c}
  <2>1. /\ up /\ up' = up /\ alive' = alive /\ pinned' = pinned
        /\ \A d \in Clients : stage'[d] = "pinned" <=> stage[d] = "pinned"
    BY <1>6 DEF HandlerLeaves, Left, TypeOK
  <2>2. CASE c \in waiting
    <3>1. Admit(running, W, queued, FALSE)
      BY <1>6, <2>2 DEF HandlerLeaves
    <3>2. \A d \in W : stage[d] # "pinned"
      BY DEF TypeOK, Consistent, AskedIsQueued
    <3>3. queued \in [Clients -> Nat] /\ W \in SUBSET Clients
      BY DEF TypeOK
    <3> HIDE DEF W
    <3>4. running \in SUBSET running /\ running \cap alive \subseteq running
      OBVIOUS
    <3>5. lease' = lease
      BY <2>1, <3>1, <3>2, <3>3, <3>4, AdmitLease
    <3> QED BY <3>5
  <2>3. CASE c \notin waiting
    <3>1. UNCHANGED queueVars
      BY <1>6, <2>3 DEF HandlerLeaves
    <3>2. \A d \in Clients : Owns(d)' <=> Owns(d)
      BY <2>1, <3>1 DEF Owns, queueVars
    <3>3. lease' = lease
      BY <2>1, <3>2 DEF lease
    <3> QED BY <3>3
  <2> QED BY <2>2, <2>3
<1>7. ASSUME NEW c \in Clients, GiveUp(c) PROVE [Leases!Next]_lease
  <2>1. \A d \in Clients : Owns(d)' <=> Owns(d)
    BY <1>7 DEF GiveUp, Asks, Owns, queueVars, TypeOK
  <2>2. lease' = lease
    BY <1>7, <2>1 DEF GiveUp, lease
  <2> QED BY <2>2
<1>8. ASSUME NEW c \in Clients, RunEnds(c) PROVE [Leases!Next]_lease
  <2>1. lease'[c] = {} /\ \A d \in Clients \ {c} : lease'[d] = lease[d]
    BY <1>8 DEF RunEnds, lease, Owns, queueVars, TypeOK
  <2> QED BY <1>0, <2>1, OneLease
<1>9. ASSUME NEW c \in Clients, TimePasses(c) PROVE [Leases!Next]_lease
  <2>1. \A d \in Clients \ {c} : lease'[d] = lease[d]
    BY <1>9 DEF TimePasses, lease, Owns, TypeOK
  <2>2. lease'[c] = {} \/ lease'[c] = lease[c]
    BY <1>9 DEF TimePasses, lease, Owns, TypeOK, Ages
  <2> QED BY <1>0, <2>1, <2>2, OneLease
<1>10. CASE Reap
  <2> DEFINE R     == running \cap alive
             ended == ~(running \subseteq alive)
  <2>1. /\ up /\ up' = up /\ alive' = alive /\ pinned' = pinned
        /\ \A d \in Clients : stage'[d] = "pinned" <=> stage[d] = "pinned"
        /\ Admit(R, waiting, queued, ended)
    BY <1>10 DEF Reap
  <2>2. /\ R \in SUBSET running /\ running \cap alive \subseteq R
        /\ ended \in BOOLEAN /\ (R = running \/ ended)
        /\ waiting \in SUBSET Clients /\ queued \in [Clients -> Nat]
        /\ \A d \in waiting : stage[d] # "pinned"
    BY DEF TypeOK, Consistent, AskedIsQueued
  <2> HIDE DEF R, ended
  <2>3. lease' = lease
    BY <2>1, <2>2, AdmitLease
  <2> QED BY <2>3
<1>11. CASE Crash
  <2>1. \A d \in Clients : Owns(d)' <=> Owns(d)
    BY <1>11 DEF Crash, Left, Owns, TypeOK
  <2>2. lease' = lease
    BY <1>11, <2>1 DEF Crash, lease
  <2> QED BY <2>2
<1>12. CASE Restart \/ HostMemory \/ UNCHANGED vars \/ \E k \in Keys : TicketExpires(k)
  <2>1. /\ alive' = alive /\ stage' = stage /\ age' = age /\ pinned' = pinned
    BY <1>12 DEF Restart, HostMemory, TicketExpires, vars, queueVars
  <2>2. lease' = lease
    BY <2>1 DEF lease, Owns
  <2> QED BY <2>2
<1> QED
  BY <1>1, <1>2, <1>3, <1>4, <1>5, <1>6, <1>7, <1>8, <1>9, <1>10, <1>11, <1>12 DEF Next

(* The queue, its file, its handlers and its clients implement the lease.   *)
THEOREM Refinement == Spec => ImplementsLease
<1>1. Init => Leases!Init
  BY DEF Init, Leases!Init, lease, Owns
<1>2. Spec => []Inv
  BY InvInit, InvNext, PTL DEF Spec
<1> QED BY <1>1, <1>2, LeaseNext, PTL DEF Spec, ImplementsLease, Leases!Spec

-----------------------------------------------------------------------------
(* The memory of a set of runs: what a fold over a finite set computes.     *)

(* The client that the fold of SumMemory takes next.                        *)
Pick(s) == CHOOSE x \in s : TRUE

(* h is the table of the sums over the subsets of S.                        *)
SumsOver(S, h) ==
  h = [s \in SUBSET S |-> IF s = {} THEN 0 ELSE Gigabytes(Pick(s)) + h[s \ {Pick(s)}]]

(* The definition of SumMemory, with its table named.                       *)
LEMMA SumIs ==
  ASSUME NEW S
  PROVE  SumMemory(S) = (CHOOSE h : SumsOver(S, h))[S]
BY DEF SumMemory, MapThenSumSet, MapThenFoldSet, SumsOver, Pick

(* Induction over a finite set, as a fact about its subsets: of some of     *)
(* them, one contains no other.                                             *)
LEMMA Smallest ==
  ASSUME NEW S, IsFiniteSet(S), NEW T \in SUBSET SUBSET S, T # {}
  PROVE  \E U \in T : \A V \in T : V \subseteq U => V = U
<1>1. IsWellFoundedOn(StrictSubsetOrdering(S), SUBSET S)
  BY FS_StrictSubsetOrderingWellFounded, FS_FiniteSubsetsOfFinite
<1>2. \E U \in T : \A V \in T : ~(<<V, U>> \in StrictSubsetOrdering(S))
  BY <1>1, WFMin
<1> QED BY <1>2 DEF StrictSubsetOrdering

(* What a run takes is a number (get_need).                                 *)
LEMMA GigabytesNat == \A c \in Clients : Gigabytes(c) \in Nat
BY ConstantsAssumption DEF Gigabytes, GetNeed

(* Of some numbers, one is the least.                                       *)
LEMMA Leasts ==
  ASSUME NEW T \in SUBSET Nat, T # {}
  PROVE  \E n \in T : \A m \in T : n <= m
<1>1. PICK k \in T : TRUE
  OBVIOUS
<1> DEFINE U == {0 .. m : m \in {j \in T : j <= k}}
<1>2. IsFiniteSet(0 .. k)
  BY FS_Interval
<1>a. U \in SUBSET SUBSET (0 .. k)
  OBVIOUS
<1>b. U # {}
  OBVIOUS
<1>3. PICK V \in U : \A W \in U : W \subseteq V => W = V
  <2> DEFINE I == 0 .. k
  <2>1. IsFiniteSet(I) /\ U \in SUBSET SUBSET I
    BY <1>2, <1>a
  <2> HIDE DEF U, I
  <2> QED BY <2>1, <1>b, Smallest
<1>4. PICK n \in T : n <= k /\ V = 0 .. n
  BY <1>3
<1>5. ASSUME NEW m \in T, m < n PROVE FALSE
  <2>1. 0 .. m \in U /\ 0 .. m \subseteq V
    BY <1>4, <1>5
  <2>2. 0 .. m = 0 .. n
    BY <1>3, <1>4, <2>1
  <2> QED BY <1>5, <2>2
<1> QED BY <1>4, <1>5

(* What the fold takes is in the set.                                       *)
LEMMA PickIn == \A s : s # {} => Pick(s) \in s
BY DEF Pick

(* The same table over the sets of at most n clients.                       *)
Small(S, n) == {s \in SUBSET S : Cardinality(s) <= n}
SumsUpTo(S, n, h) ==
  /\ h \in [Small(S, n) -> Nat]
  /\ \A s \in Small(S, n) :
       h[s] = IF s = {} THEN 0 ELSE Gigabytes(Pick(s)) + h[s \ {Pick(s)}]

(* There is such a table: one more client needs only smaller sets.          *)
LEMMA TableUpTo ==
  ASSUME NEW S \in SUBSET Clients, IsFiniteSet(S), NEW n \in Nat
  PROVE  \E h : SumsUpTo(S, n, h)
<1> DEFINE Lacks == {m \in Nat : ~ \E h : SumsUpTo(S, m, h)}
<1>1. \A s \in SUBSET S : IsFiniteSet(s) /\ Cardinality(s) \in Nat
  BY FS_Subset, FS_CardinalityType
<1>2. 0 \notin Lacks
  <2>1. Small(S, 0) = {{}}
    BY <1>1, FS_EmptySet DEF Small
  <2>2. SumsUpTo(S, 0, [s \in Small(S, 0) |-> 0])
    BY <2>1 DEF SumsUpTo
  <2> QED BY <2>2
<1>3. ASSUME NEW m \in Nat, m \notin Lacks
      PROVE  m + 1 \notin Lacks
  <2>1. PICK h : SumsUpTo(S, m, h)
    BY <1>3
  <2> DEFINE g == [s \in Small(S, m + 1) |->
                     IF s \in Small(S, m) THEN h[s]
                     ELSE Gigabytes(Pick(s)) + h[s \ {Pick(s)}]]
  <2>2. ASSUME NEW s \in Small(S, m + 1), s # {}
        PROVE  /\ Pick(s) \in Clients /\ s \ {Pick(s)} \in Small(S, m)
    <3>1. Pick(s) \in s /\ s \in SUBSET S
      BY <2>2, PickIn DEF Small
    <3>2. Cardinality(s \ {Pick(s)}) = Cardinality(s) - 1
      BY <1>1, <3>1, FS_RemoveElement
    <3> QED BY <1>1, <3>1, <3>2 DEF Small
  <2>3. {} \in Small(S, m) /\ Small(S, m) \subseteq Small(S, m + 1)
    BY <1>1, FS_EmptySet DEF Small
  <2>4. \A s \in Small(S, m) : h[s] \in Nat
    BY <2>1 DEF SumsUpTo
  <2>5. \A s \in Small(S, m + 1) : g[s] \in Nat
    <3>1. ASSUME NEW s \in Small(S, m + 1), s \notin Small(S, m)
          PROVE  Gigabytes(Pick(s)) + h[s \ {Pick(s)}] \in Nat
      <4>1. Pick(s) \in Clients /\ s \ {Pick(s)} \in Small(S, m)
        BY <2>2, <2>3, <3>1
      <4>2. Gigabytes(Pick(s)) \in Nat /\ h[s \ {Pick(s)}] \in Nat
        BY <2>4, <4>1, GigabytesNat
      <4> QED BY <4>2
    <3> QED BY <2>4, <3>1
  <2>6. ASSUME NEW s \in Small(S, m + 1)
        PROVE  g[s] = IF s = {} THEN 0 ELSE Gigabytes(Pick(s)) + g[s \ {Pick(s)}]
    <3>1. CASE s \in Small(S, m)
      BY <2>1, <2>2, <2>3, <3>1 DEF SumsUpTo
    <3>2. CASE s \notin Small(S, m)
      BY <2>2, <2>3, <3>2
    <3> QED BY <3>1, <3>2
  <2>7. SumsUpTo(S, m + 1, g)
    BY <2>5, <2>6 DEF SumsUpTo
  <2> QED BY <2>7
<1>4. Lacks = {}
  <2>1. SUFFICES ASSUME Lacks # {} PROVE FALSE
    OBVIOUS
  <2>2. PICK m \in Lacks : \A k \in Lacks : m <= k
    BY <2>1, Leasts
  <2>3. m # 0 /\ m - 1 \in Nat /\ m - 1 \notin Lacks
    BY <1>2, <2>2
  <2> QED BY <1>3, <2>2, <2>3
<1> QED BY <1>4

(* Two tables, of a set and of one of its subsets, agree.                   *)
LEMMA TablesAgree ==
  ASSUME NEW S, IsFiniteSet(S), NEW T \in SUBSET S, NEW g, NEW h,
         SumsOver(S, g), SumsOver(T, h)
  PROVE  \A U \in SUBSET T : g[U] = h[U]
<1> DEFINE Differ == {U \in SUBSET T : g[U] # h[U]}
<1>1. SUFFICES ASSUME Differ # {} PROVE FALSE
  OBVIOUS
<1>2. PICK U \in Differ : \A V \in Differ : V \subseteq U => V = U
  <2>1. Differ \in SUBSET SUBSET S
    OBVIOUS
  <2> HIDE DEF Differ
  <2> QED BY <1>1, <2>1, Smallest
<1> DEFINE V == U \ {Pick(U)}
<1>3. CASE U = {}
  BY <1>2, <1>3 DEF SumsOver
<1>4. CASE U # {}
  <2>1. V \in SUBSET T /\ V \subseteq U /\ V # U
    BY <1>2, <1>4, PickIn
  <2>2. g[V] = h[V]
    BY <1>2, <2>1
  <2>3. /\ g[U] = Gigabytes(Pick(U)) + g[V]
        /\ h[U] = Gigabytes(Pick(U)) + h[V]
    BY <1>2, <1>4 DEF SumsOver
  <2> QED BY <1>2, <2>2, <2>3
<1> QED BY <1>3, <1>4

(* There is a table of the sums over all subsets.                           *)
LEMMA Table ==
  ASSUME NEW S \in SUBSET Clients, IsFiniteSet(S)
  PROVE  \E h : SumsOver(S, h) /\ \A s \in SUBSET S : h[s] \in Nat
<1>1. \A s \in SUBSET S : Cardinality(s) <= Cardinality(S)
  BY FS_Subset
<1>2. Small(S, Cardinality(S)) = SUBSET S
  BY <1>1 DEF Small
<1>3. PICK h : SumsUpTo(S, Cardinality(S), h)
  BY TableUpTo, FS_CardinalityType
<1>4. h \in [SUBSET S -> Nat]
  BY <1>2, <1>3 DEF SumsUpTo
<1>5. \A s \in SUBSET S : h[s] = IF s = {} THEN 0 ELSE Gigabytes(Pick(s)) + h[s \ {Pick(s)}]
  BY <1>2, <1>3 DEF SumsUpTo
<1> QED BY <1>4, <1>5 DEF SumsOver

(* The sum is a number, and that of the rest and what is taken first.       *)
LEMMA SumOf ==
  ASSUME NEW S \in SUBSET Clients, IsFiniteSet(S)
  PROVE  /\ SumMemory(S) \in Nat
         /\ S = {} => SumMemory(S) = 0
         /\ S # {} => SumMemory(S) = Gigabytes(Pick(S)) + SumMemory(S \ {Pick(S)})
<1>1. ASSUME NEW T \in SUBSET S
      PROVE  \E h : SumsOver(T, h) /\ SumMemory(T) = h[T] /\ \A s \in SUBSET T : h[s] \in Nat
  <2>1. IsFiniteSet(T) /\ T \in SUBSET Clients
    BY FS_Subset
  <2>2. PICK g : SumsOver(T, g) /\ \A s \in SUBSET T : g[s] \in Nat
    BY <2>1, Table
  <2> DEFINE h == CHOOSE h : SumsOver(T, h)
  <2>3. SumsOver(T, h)
    BY <2>2
  <2>4. SumMemory(T) = h[T]
    BY SumIs
  <2> HIDE DEF h
  <2>5. \A s \in SUBSET T : g[s] = h[s]
    BY <2>1, <2>2, <2>3, TablesAgree
  <2> QED BY <2>2, <2>3, <2>4, <2>5
<1>2. PICK h : SumsOver(S, h) /\ SumMemory(S) = h[S] /\ \A s \in SUBSET S : h[s] \in Nat
  BY <1>1
<1>3. ASSUME S # {}
      PROVE  SumMemory(S) = Gigabytes(Pick(S)) + SumMemory(S \ {Pick(S)})
  <2> DEFINE T == S \ {Pick(S)}
  <2>1. PICK g : SumsOver(T, g) /\ SumMemory(T) = g[T]
    BY <1>1
  <2>2. h[T] = g[T]
    BY <1>2, <2>1, TablesAgree
  <2>3. h[S] = Gigabytes(Pick(S)) + h[T]
    BY <1>2, <1>3 DEF SumsOver
  <2> QED BY <1>2, <2>1, <2>2, <2>3
<1>4. S = {} => SumMemory(S) = 0
  BY <1>2 DEF SumsOver
<1> QED BY <1>2, <1>3, <1>4

(* The order does not matter: any client may be added last.                 *)
LEMMA SumAdds ==
  ASSUME NEW S \in SUBSET Clients, IsFiniteSet(S), NEW y \in S
  PROVE  SumMemory(S) = Gigabytes(y) + SumMemory(S \ {y})
<1> DEFINE Bad == {T \in SUBSET S : \E z \in T : SumMemory(T) # Gigabytes(z) + SumMemory(T \ {z})}
<1>1. SUFFICES ASSUME Bad # {} PROVE FALSE
  OBVIOUS
<1>2. PICK T \in Bad : \A V \in Bad : V \subseteq T => V = T
  <2>1. Bad \in SUBSET SUBSET S
    OBVIOUS
  <2> HIDE DEF Bad
  <2> QED BY <1>1, <2>1, Smallest
<1>3. PICK z \in T : SumMemory(T) # Gigabytes(z) + SumMemory(T \ {z})
  BY <1>2
<1> DEFINE x == Pick(T)
<1>4. x \in T
  BY <1>3, PickIn
<1>5. ASSUME NEW V \in SUBSET T
      PROVE  IsFiniteSet(V) /\ V \in SUBSET Clients /\ SumMemory(V) \in Nat
  BY <1>2, FS_Subset, SumOf
<1>6. SumMemory(T) = Gigabytes(x) + SumMemory(T \ {x})
  BY <1>4, <1>5, SumOf
<1>7. z # x
  BY <1>3, <1>6
<1> HIDE DEF x
<1>8. /\ T \ {x} \notin Bad /\ T \ {z} \notin Bad
  BY <1>2, <1>3, <1>4
<1> DEFINE R == (T \ {x}) \ {z}
<1>9. SumMemory(T \ {x}) = Gigabytes(z) + SumMemory(R)
  BY <1>2, <1>3, <1>7, <1>8
<1>10. SumMemory(T \ {z}) = Gigabytes(x) + SumMemory((T \ {z}) \ {x})
  BY <1>2, <1>4, <1>7, <1>8
<1>11. (T \ {z}) \ {x} = R
  OBVIOUS
<1>12. SumMemory(R) \in Nat /\ Gigabytes(x) \in Nat /\ Gigabytes(z) \in Nat
  BY <1>3, <1>4, <1>5, GigabytesNat, <1>2
<1> DEFINE GB(c) == Gigabytes(c)
           whole == SumMemory(T)
           noX   == SumMemory(T \ {x})
           noZ   == SumMemory(T \ {z})
           rest  == SumMemory(R)
<1>13. /\ whole # GB(z) + noZ /\ whole = GB(x) + noX
       /\ noX = GB(z) + rest /\ noZ = GB(x) + rest
       /\ rest \in Nat /\ GB(x) \in Nat /\ GB(z) \in Nat
  BY <1>3, <1>6, <1>9, <1>10, <1>11, <1>12
<1> HIDE DEF GB, whole, noX, noZ, rest
<1> QED BY <1>13

(* A larger set takes no less.                                              *)
LEMMA SumGrows ==
  ASSUME NEW S \in SUBSET Clients, IsFiniteSet(S), NEW T \in SUBSET S
  PROVE  SumMemory(T) <= SumMemory(S)
<1> DEFINE Bad == {U \in SUBSET S : T \subseteq U /\ SumMemory(T) > SumMemory(U)}
<1>1. SUFFICES ASSUME Bad # {} PROVE FALSE
  <2>1. SumMemory(S) \in Nat /\ SumMemory(T) \in Nat
    BY FS_Subset, SumOf
  <2>2. S \notin Bad => SumMemory(T) <= SumMemory(S)
    BY <2>1
  <2> QED BY <2>2
<1>2. PICK U \in Bad : \A V \in Bad : V \subseteq U => V = U
  <2>1. Bad \in SUBSET SUBSET S
    OBVIOUS
  <2> HIDE DEF Bad
  <2> QED BY <1>1, <2>1, Smallest
<1>3. \A V \in SUBSET S : IsFiniteSet(V) /\ V \in SUBSET Clients /\ SumMemory(V) \in Nat
  BY FS_Subset, SumOf
<1>4. U # T
  BY <1>2, <1>3
<1>5. PICK y \in U : y \notin T
  BY <1>2, <1>4
<1>6. SumMemory(U) = Gigabytes(y) + SumMemory(U \ {y})
  BY <1>2, <1>3, SumAdds
<1>7. U \ {y} \notin Bad /\ T \subseteq U \ {y} /\ U \ {y} \in SUBSET S
  BY <1>2, <1>5
<1>8. ~(SumMemory(T) > SumMemory(U \ {y}))
  BY <1>7
<1>9. Gigabytes(y) \in Nat /\ SumMemory(U \ {y}) \in Nat /\ SumMemory(T) \in Nat
  BY <1>2, <1>3, <1>7, GigabytesNat
<1> QED BY <1>2, <1>6, <1>8, <1>9

(* Two sets together take no more than each alone.                          *)
LEMMA SumTogether ==
  ASSUME NEW S \in SUBSET Clients, IsFiniteSet(S), NEW A \in SUBSET S, NEW B \in SUBSET S
  PROVE  SumMemory(A \cup B) <= SumMemory(A) + SumMemory(B)
<1> DEFINE Bad == {U \in SUBSET B : SumMemory(A \cup U) > SumMemory(A) + SumMemory(U)}
<1>3. \A V \in SUBSET S : IsFiniteSet(V) /\ V \in SUBSET Clients /\ SumMemory(V) \in Nat
  BY FS_Subset, SumOf
<1>1. SUFFICES ASSUME Bad # {} PROVE FALSE
  <2>1. SumMemory(A \cup B) \in Nat /\ SumMemory(A) \in Nat /\ SumMemory(B) \in Nat
    BY <1>3
  <2>2. ~(SumMemory(A \cup B) > SumMemory(A) + SumMemory(B))
    OBVIOUS
  <2> QED BY <2>1, <2>2
<1>2. PICK U \in Bad : \A V \in Bad : V \subseteq U => V = U
  <2>1. Bad \in SUBSET SUBSET S
    OBVIOUS
  <2> HIDE DEF Bad
  <2> QED BY <1>1, <2>1, Smallest
<1>4. U # {}
  <2>1. SumMemory({}) = 0 /\ SumMemory(A) \in Nat
    BY <1>3, SumOf
  <2>2. SUFFICES ASSUME U = {} PROVE FALSE
    OBVIOUS
  <2>3. A \cup U = A
    BY <2>2
  <2> QED BY <1>2, <2>1, <2>2, <2>3
<1>5. PICK y \in U : TRUE
  BY <1>4
<1> DEFINE W == U \ {y}
<1>6. /\ W \in SUBSET B /\ W \in SUBSET S /\ U \in SUBSET S /\ W \subseteq U /\ W # U
      /\ A \cup U \in SUBSET S /\ A \cup W \in SUBSET S
  BY <1>2, <1>5
<1>7. ~(SumMemory(A \cup W) > SumMemory(A) + SumMemory(W))
  BY <1>2, <1>6
<1>8. SumMemory(U) = Gigabytes(y) + SumMemory(W)
  BY <1>3, <1>5, <1>6, SumAdds
<1>9. /\ Gigabytes(y) \in Nat /\ SumMemory(W) \in Nat /\ SumMemory(A) \in Nat
      /\ SumMemory(U) \in Nat /\ SumMemory(A \cup U) \in Nat /\ SumMemory(A \cup W) \in Nat
  BY <1>3, <1>5, <1>6, GigabytesNat
<1> DEFINE withU == SumMemory(A \cup U)
           withW == SumMemory(A \cup W)
           gb    == Gigabytes(y)
<1>a. withU \in Nat /\ withW \in Nat /\ gb \in Nat
  BY <1>9
<1>10. withU <= gb + withW
  <2>1. CASE y \in A
    <3>1. A \cup U = A \cup W
      BY <2>1
    <3>2. withU = withW
      BY <3>1
    <3> HIDE DEF withU, withW, gb
    <3> QED BY <1>a, <3>2
  <2>2. CASE y \notin A
    <3>1. (A \cup U) \ {y} = A \cup W /\ y \in A \cup U
      BY <1>5, <2>2
    <3>2. SumMemory(A \cup U) = Gigabytes(y) + SumMemory((A \cup U) \ {y})
      BY <1>3, <1>6, <3>1, SumAdds
    <3>3. withU = gb + withW
      BY <3>1, <3>2
    <3> HIDE DEF withU, withW, gb
    <3> QED BY <1>a, <3>3
  <2> QED BY <2>1, <2>2
<1> HIDE DEF W
<1> QED BY <1>2, <1>7, <1>8, <1>9, <1>10

-----------------------------------------------------------------------------
(* The memory of the runs with cores of R, whose ages are a.                *)
HoldersAt(R, a) == {c \in R : Need(c) > 0 /\ a[c] # "lent"}
CoreRuns(R) == {c \in R : Need(c) > 0}
FitsAt(R, a) == Cardinality(HoldersAt(R, a)) >= 2 => SumMemory(CoreRuns(R)) <= Memory

(* Fewer runs, of which fewer hold cores, still fit.                        *)
LEMMA FewerFit ==
  ASSUME NEW A \in SUBSET Clients, NEW B \in SUBSET A, NEW a, NEW b,
         FitsAt(A, a), HoldersAt(B, b) \subseteq HoldersAt(A, a)
  PROVE  FitsAt(B, b)
<1>1. \A S \in SUBSET Clients : IsFiniteSet(S) /\ Cardinality(S) \in Nat /\ SumMemory(S) \in Nat
  BY ConstantsAssumption, FS_Subset, FS_CardinalityType, SumOf
<1>2. HoldersAt(A, a) \in SUBSET Clients /\ HoldersAt(B, b) \in SUBSET Clients
  BY DEF HoldersAt
<1>3. Cardinality(HoldersAt(B, b)) <= Cardinality(HoldersAt(A, a))
  BY <1>1, <1>2, FS_Subset
<1>4. CoreRuns(A) \in SUBSET Clients /\ CoreRuns(B) \in SUBSET CoreRuns(A)
  BY DEF CoreRuns
<1>5. SumMemory(CoreRuns(B)) <= SumMemory(CoreRuns(A))
  BY <1>1, <1>4, SumGrows
<1>6. /\ SumMemory(CoreRuns(A)) \in Nat /\ SumMemory(CoreRuns(B)) \in Nat
      /\ Cardinality(HoldersAt(A, a)) \in Nat /\ Cardinality(HoldersAt(B, b)) \in Nat
  BY <1>1, <1>2, <1>4
<1> QED BY <1>3, <1>5, <1>6, ConstantsAssumption DEF FitsAt

(* Of some clients with places of their own, one came last.                 *)
LEMMA LastOne ==
  ASSUME NEW S \in SUBSET Clients, S # {}, NEW q \in [Clients -> Nat]
  PROVE  \E c \in S : \A d \in S : q[d] <= q[c]
<1> DEFINE After(c) == {d \in S : q[d] > q[c]}
           T == {After(c) : c \in S}
<1>1. PICK U \in T : \A V \in T : V \subseteq U => V = U
  <2>1. T \in SUBSET SUBSET Clients /\ T # {}
    OBVIOUS
  <2> HIDE DEF T
  <2> QED BY <2>1, ConstantsAssumption, Smallest
<1>2. PICK c \in S : U = After(c)
  BY <1>1
<1>3. ASSUME NEW d \in S, q[d] > q[c] PROVE FALSE
  <2>1. After(d) \subseteq After(c) /\ d \in After(c) /\ d \notin After(d)
    BY <1>3
  <2> QED BY <1>1, <1>2, <2>1
<1>4. \A d \in S : q[d] \in Nat /\ q[c] \in Nat
  OBVIOUS
<1> QED BY <1>3, <1>4

(* What a pass of admit starts fits with what runs.                         *)
LEMMA AdmitFits ==
  ASSUME NEW R \in SUBSET Clients, NEW W \in SUBSET Clients,
         NEW q \in [Clients -> Nat], NEW ended \in BOOLEAN, NEW new \in SUBSET W,
         \A c, d \in W : c # d => q[c] # q[d],
         FitsAt(R, age), Passed(R, W, q, new, ended)
  PROVE  FitsAt(running', age')
<1> DEFINE S == CoreRuns(new)
<1>1. \A A \in SUBSET Clients : IsFiniteSet(A) /\ Cardinality(A) \in Nat /\ SumMemory(A) \in Nat
  BY ConstantsAssumption, FS_Subset, FS_CardinalityType, SumOf
<1>2. running' = R \cup new /\ running' \in SUBSET Clients
  BY DEF Passed
<1>3. HoldersAt(running', age') \subseteq Holders(R) \cup S
  BY <1>2 DEF Passed, HoldersAt, Holders, CoreRuns
<1>4. CASE S = {}
  <2>1. HoldersAt(running', age') \subseteq HoldersAt(R, age)
    BY <1>3, <1>4 DEF HoldersAt, Holders
  <2>2. CoreRuns(running') = CoreRuns(R)
    BY <1>2, <1>4 DEF CoreRuns
  <2>3. /\ HoldersAt(R, age) \in SUBSET Clients
        /\ HoldersAt(running', age') \in SUBSET HoldersAt(R, age)
    BY <2>1 DEF HoldersAt
  <2>4. Cardinality(HoldersAt(running', age')) <= Cardinality(HoldersAt(R, age))
    BY <1>1, <2>3, FS_Subset
  <2>5. /\ Cardinality(HoldersAt(R, age)) \in Nat
        /\ Cardinality(HoldersAt(running', age')) \in Nat
    BY <1>1, <2>3
  <2> QED BY <2>2, <2>4, <2>5 DEF FitsAt
<1>5. CASE S # {}
  <2>1. S \in SUBSET Clients
    BY DEF CoreRuns
  <2>2. PICK last \in S : \A d \in S : q[d] <= q[last]
    BY <1>5, <2>1, LastOne
  <2> DEFINE before  == Before(W, q, last)
             settled == {d \in R : age[d] # "ramping"}
             ramping == {d \in R : age[d] = "ramping"} \cup before
  <2>3. \A d \in S : d # last => d \in before /\ Need(d) > 0
    BY <2>2 DEF Before, CoreRuns
  <2>4. HasMemory(R, before, last)
    BY <2>2 DEF Passed, CoreRuns
  <2>5. CASE Holders(R) = {} /\ \A d \in before : Need(d) = 0
    <3>1. S \subseteq {last}
      BY <2>3, <2>5
    <3>2. HoldersAt(running', age') \in SUBSET {last}
      BY <1>3, <2>5, <3>1
    <3>3. Cardinality(HoldersAt(running', age')) <= Cardinality({last})
      BY <3>2, FS_Singleton, FS_Subset
    <3>4. Cardinality({last}) = 1 /\ Cardinality(HoldersAt(running', age')) \in Nat
      BY <1>1, <1>2, FS_Singleton DEF HoldersAt
    <3> QED BY <3>3, <3>4 DEF FitsAt
  <2>6. CASE Memory - SumMemory(settled) - SumMemory(ramping) >= Gigabytes(last)
    <3> DEFINE all == settled \cup ramping
    <3>1. /\ settled \in SUBSET Clients /\ ramping \in SUBSET Clients
          /\ all \in SUBSET Clients /\ {last} \in SUBSET Clients
          /\ all \cup {last} \in SUBSET Clients
      BY <2>1 DEF Before
    <3>2. CoreRuns(running') \in SUBSET (all \cup {last})
      BY <1>2, <2>3 DEF CoreRuns
    <3> HIDE DEF settled, ramping
    <3>3. SumMemory(CoreRuns(running')) <= SumMemory(all \cup {last})
      BY <1>1, <3>1, <3>2, SumGrows
    <3> HIDE DEF all
    <3>4. SumMemory(all \cup {last}) <= SumMemory(all) + SumMemory({last})
      BY <3>1, ConstantsAssumption, SumTogether
    <3>5. SumMemory(all) <= SumMemory(settled) + SumMemory(ramping)
      BY <3>1, ConstantsAssumption, SumTogether DEF all
    <3>6. SumMemory({last}) = Gigabytes(last)
      <4>1. SumMemory({last}) = Gigabytes(last) + SumMemory({last} \ {last})
        BY <1>1, <3>1, SumAdds
      <4>2. {last} \ {last} = {} /\ SumMemory({}) = 0
        BY <1>1, SumOf
      <4>3. Gigabytes(last) \in Nat
        BY <2>1, GigabytesNat
      <4> DEFINE none == SumMemory({last} \ {last})
                 one  == SumMemory({last})
                 gb   == Gigabytes(last)
      <4>4. none = 0 /\ one = gb + none /\ gb \in Nat
        BY <4>1, <4>2, <4>3
      <4> HIDE DEF none, one, gb
      <4>5. one = gb
        BY <4>4
      <4> QED BY <4>5 DEF one, gb
    <3> DEFINE core == SumMemory(CoreRuns(running'))
               more == SumMemory(all \cup {last})
               sAll == SumMemory(all)
               old  == SumMemory(settled)
               young == SumMemory(ramping)
               own  == Gigabytes(last)
    <3>7. /\ core \in Nat /\ more \in Nat /\ sAll \in Nat /\ old \in Nat /\ young \in Nat
          /\ own \in Nat /\ Memory \in Nat
      BY <1>1, <1>2, <2>1, <3>1, GigabytesNat, ConstantsAssumption DEF CoreRuns
    <3>8. core <= more /\ more <= sAll + own /\ sAll <= old + young
          /\ Memory - old - young >= own
      BY <2>6, <3>3, <3>4, <3>5, <3>6
    <3>9. core <= Memory
      <4> HIDE DEF core, more, sAll, old, young, own
      <4> QED BY <3>7, <3>8
    <3> QED BY <3>9 DEF FitsAt
  <2> QED BY <2>4, <2>5, <2>6 DEF HasMemory
<1> QED BY <1>4, <1>5

-----------------------------------------------------------------------------
(* Places in the queue are given once: two runs that wait, or a run that    *)
(* waits and a ticket, have different ones, none later than the last given. *)
PlacesDiffer ==
  /\ \A c \in waiting : queued[c] > 0 /\ queued[c] <= stamp
  /\ \A k \in Keys : tickets[k] <= stamp
  /\ \A c, d \in waiting : c # d => queued[c] # queued[d]
  /\ \A c \in waiting, k \in Keys : tickets[k] # queued[c]
  /\ \A k, l \in Keys : k # l /\ tickets[k] = tickets[l] => tickets[k] = 0

(* What asks has its outer run behind its own request.                      *)
OutersRun ==
  \A c \in Clients :
    stage[c] \in {"asking", "dropped"} /\ Outer[c] # NoClient =>
      stage[Outer[c]] \in {"pinned", "nested", "free", "gone"}

(* What the queue starts and what a restart finds fits in the memory.       *)
Fits == FitsAt(running, age) /\ FitsAt(saved \cap alive, age)

OrderInv == Inv /\ PlacesDiffer /\ OutersRun /\ Fits /\ NestedNeverWaits

(* The queue starts empty.                                                  *)
LEMMA OrderInit == Init => OrderInv
<1> SUFFICES ASSUME Init PROVE OrderInv
  OBVIOUS
<1>1. HoldersAt({}, age) = {} /\ {} \cap alive = {}
  BY DEF HoldersAt
<1>2. Fits
  BY <1>1, FS_EmptySet DEF Fits, FitsAt, Init
<1>3. Inv
  BY InvInit
<1>4. PlacesDiffer /\ OutersRun /\ NestedNeverWaits
  BY DEF Init, PlacesDiffer, OutersRun, NestedNeverWaits
<1> QED BY <1>2, <1>3, <1>4 DEF OrderInv

(* A pass over R and W keeps the memory, and lets no run past an earlier    *)
(* one.                                                                     *)
LEMMA PassKeeps ==
  ASSUME OrderInv, Inv', up, up' = up, alive' = alive,
         NEW R \in SUBSET running, NEW W \in SUBSET Clients,
         NEW q \in [Clients -> Nat], NEW ended \in BOOLEAN,
         \A c, d \in W : c # d => q[c] # q[d],
         Admit(R, W, q, ended)
  PROVE  /\ Fits'
         /\ waiting' \subseteq W /\ running' \subseteq R \cup W
         /\ \A c \in running' \ running, d \in waiting' :
              Need(c) > 0 /\ Need(d) > 0 => q[c] < q[d]
         /\ \A d \in waiting' : Need(d) > 0
<1>1. R \in SUBSET Clients /\ running \in SUBSET Clients
  BY DEF OrderInv, Inv, TypeOK
<1>2. PICK new \in SUBSET W : Passed(R, W, q, new, ended)
  BY <1>1, AdmitPass DEF OrderInv, Inv
<1>3. FitsAt(R, age)
  <2>1. HoldersAt(R, age) \subseteq HoldersAt(running, age)
    BY DEF HoldersAt
  <2> QED BY <1>1, <2>1, FewerFit DEF OrderInv, Fits
<1>4. FitsAt(running', age')
  BY <1>1, <1>2, <1>3, AdmitFits
<1>5. FitsAt(saved' \cap alive', age')
  <2>1. saved' \cap alive' \in SUBSET running' /\ running' \in SUBSET Clients
    BY DEF Inv, TypeOK, Consistent, FileAgrees
  <2>2. HoldersAt(saved' \cap alive', age') \subseteq HoldersAt(running', age')
    BY <2>1 DEF HoldersAt
  <2> QED BY <1>4, <2>1, <2>2, FewerFit
<1>6. waiting' = W \ new /\ running' = R \cup new
  BY <1>2 DEF Passed
<1>7. ASSUME NEW c \in running' \ running, NEW d \in waiting', Need(c) > 0, Need(d) > 0
      PROVE  q[c] < q[d]
  <2>1. c \in new /\ c \in W /\ d \in W /\ d \notin new /\ c # d
    BY <1>6, <1>7
  <2>2. ~(q[d] < q[c]) /\ q[c] # q[d] /\ q[c] \in Nat /\ q[d] \in Nat
    BY <1>2, <1>6, <1>7, <2>1 DEF Passed
  <2> QED BY <2>2
<1>8. \A d \in waiting' : Need(d) > 0
  BY <1>2, <1>6 DEF Passed
<1> QED BY <1>4, <1>5, <1>6, <1>7, <1>8 DEF Fits

(* What a step starts arrived before what still waits for cores.            *)
InOrder ==
  \A c \in running' \ running, d \in waiting' :
    Need(c) > 0 /\ Need(d) > 0 => queued'[c] < queued'[d]

(* What waits is not started by a run of the same pass.                     *)
LEMMA PassNested ==
  ASSUME OutersRun', AskedIsQueued', alive' = alive, NoClient \notin Clients,
         waiting' \in SUBSET Clients, Outer \in [Clients -> Clients \cup {NoClient}],
         running \in SUBSET Clients, NEW W \in SUBSET Clients,
         waiting' \subseteq W, running' \subseteq running \cup W,
         \A e \in W : stage'[e] \in {"asking", "dropped"},
         \A d \in W : Outer[d] \in running \cap alive /\ Need(Outer[d]) > 0 => Need(d) = 0
  PROVE  NestedNeverWaits'
<1> SUFFICES ASSUME NEW d \in waiting', Outer[d] \in running' \cap alive',
                    Need(Outer[d]) > 0
             PROVE  Need(d) = 0
  BY DEF NestedNeverWaits
<1>1. Outer[d] \in Clients /\ stage'[d] \in {"asking", "dropped"}
  OBVIOUS
<1>2. stage'[Outer[d]] \in {"pinned", "nested", "free", "gone"}
  BY <1>1 DEF OutersRun
<1>3. Outer[d] \notin W
  BY <1>2
<1> QED BY <1>3

(* A request takes a place nobody has, behind what runs its client.         *)
LEMMA OrderRequest ==
  ASSUME OrderInv, Inv', NEW c \in Clients, Request(c)
  PROVE  OrderInv' /\ InOrder
<1> USE DEF OrderInv
<1> DEFINE kept  == tickets[Key[c]]
           place == IF kept # 0 THEN kept ELSE stamp + 1
           q     == [queued EXCEPT ![c] = place]
           W     == waiting \cup {c}
<1>0. TypeOK /\ Consistent /\ TypeOK' /\ Consistent'
  BY DEF Inv
<1>1. /\ q \in [Clients -> Nat] /\ W \in SUBSET Clients /\ Key[c] \in Keys
      /\ running \in SUBSET Clients /\ waiting \in SUBSET Clients
      /\ stamp \in Nat /\ kept \in Nat /\ place \in Nat
  BY <1>0 DEF TypeOK, Keys
<1>2. /\ up /\ up' = up /\ alive' = alive
      /\ stage' = [stage EXCEPT ![c] = "asking"] /\ queued' = q
      /\ stage[c] \in {"new", "retrying"}
      /\ Outer[c] # NoClient => stage[Outer[c]] \in {"pinned", "nested", "free", "gone"}
      /\ tickets' = [tickets EXCEPT ![Key[c]] = 0]
      /\ stamp' = IF kept # 0 THEN stamp ELSE stamp + 1
      /\ FindHolder(c) = NoClient
      /\ Admit(running, W, q, FALSE)
  BY DEF Request, Asks
<1>3. c \notin waiting /\ \A d \in waiting : stage[d] \in {"asking", "dropped"}
  BY <1>0, <1>1, <1>2 DEF Consistent, AskedIsQueued
<1>4. place > 0 /\ place <= stamp' /\ stamp <= stamp'
  BY <1>1, <1>2 DEF PlacesDiffer
<1>5. /\ \A d \in waiting : queued[d] # place /\ queued[d] \in Nat /\ queued[d] <= stamp
      /\ \A k \in Keys \ {Key[c]} : tickets[k] # place
      /\ \A k \in Keys : tickets[k] \in Nat /\ tickets[k] <= stamp
  BY <1>0, <1>1 DEF PlacesDiffer, TypeOK
<1>6. /\ q[c] = place /\ \A d \in waiting : q[d] = queued[d]
      /\ tickets'[Key[c]] = 0 /\ \A k \in Keys \ {Key[c]} : tickets'[k] = tickets[k]
  BY <1>0, <1>1, <1>2, <1>3 DEF TypeOK
<1> HIDE DEF q, place, kept
<1>7. \A d, e \in W : d # e => q[d] # q[e]
  BY <1>5, <1>6 DEF PlacesDiffer
<1>8. /\ Fits'
      /\ waiting' \subseteq W /\ running' \subseteq running \cup W
      /\ \A b \in running' \ running, d \in waiting' :
           Need(b) > 0 /\ Need(d) > 0 => q[b] < q[d]
  <2> HIDE DEF W
  <2> QED BY <1>1, <1>2, <1>7, PassKeeps
<1>9. PlacesDiffer'
  <2>1. \A d \in W : queued'[d] > 0 /\ queued'[d] <= stamp'
    BY <1>1, <1>2, <1>4, <1>5, <1>6 DEF PlacesDiffer
  <2>2. \A k \in Keys : tickets'[k] <= stamp'
    BY <1>1, <1>2, <1>4, <1>5, <1>6
  <2>3. \A d \in W, k \in Keys : tickets'[k] # queued'[d]
    BY <1>2, <1>4, <1>5, <1>6, <2>1 DEF PlacesDiffer
  <2>4. \A k, l \in Keys : k # l /\ tickets'[k] = tickets'[l] => tickets'[k] = 0
    BY <1>6 DEF PlacesDiffer
  <2> QED BY <1>2, <1>7, <1>8, <2>1, <2>2, <2>3, <2>4 DEF PlacesDiffer
<1>10. OutersRun'
  BY <1>0, <1>1, <1>2, ConstantsAssumption DEF OutersRun, TypeOK
<1>11. NestedNeverWaits'
  <2>1. \A e \in W : stage'[e] \in {"asking", "dropped"}
    BY <1>0, <1>1, <1>2, <1>3 DEF TypeOK
  <2>2. \A d \in W : Outer[d] \in running \cap alive /\ Need(Outer[d]) > 0 => Need(d) = 0
    <3>1. \A d \in waiting : Outer[d] \in running \cap alive /\ Need(Outer[d]) > 0 => Need(d) = 0
      BY DEF NestedNeverWaits
    <3>2. ~(Outer[c] \in running \cap alive /\ Need(Outer[c]) > 0)
      BY <1>1, <1>2, ConstantsAssumption DEF FindHolder
    <3> QED BY <3>1, <3>2
  <2>3. AskedIsQueued' /\ waiting' \in SUBSET Clients
    BY <1>0 DEF Consistent, TypeOK
  <2> HIDE DEF W
  <2> QED BY <1>1, <1>2, <1>8, <1>10, <2>1, <2>2, <2>3, ConstantsAssumption, PassNested
<1> QED BY <1>2, <1>8, <1>9, <1>10, <1>11 DEF InOrder

(* A place that is left is kept by the ticket alone.                        *)
LEMMA OrderHandlerLeaves ==
  ASSUME OrderInv, Inv', NEW c \in Clients, HandlerLeaves(c)
  PROVE  OrderInv' /\ InOrder
<1> USE DEF OrderInv
<1> DEFINE W == waiting \ {c}
<1>0. TypeOK /\ Consistent /\ TypeOK' /\ Consistent'
  BY DEF Inv
<1>1. /\ queued \in [Clients -> Nat] /\ W \in SUBSET Clients /\ Key[c] \in Keys
      /\ running \in SUBSET Clients /\ waiting \in SUBSET Clients
  BY <1>0 DEF TypeOK, Keys
<1>2. /\ up /\ up' = up /\ alive' = alive /\ stamp' = stamp
      /\ stage' = [stage EXCEPT ![c] = Left(c, alive)] /\ queued' = queued
      /\ stage[c] = "dropped" /\ Left(c, alive) \in {"new", "gone"}
  BY DEF HandlerLeaves, Left
<1>3. OutersRun'
  BY <1>0, <1>1, <1>2, ConstantsAssumption DEF OutersRun, TypeOK
<1>4. CASE c \notin waiting
  <2>1. UNCHANGED <<queueVars, tickets>>
    BY <1>4 DEF HandlerLeaves
  <2>2. PlacesDiffer' /\ Fits' /\ NestedNeverWaits' /\ InOrder
    BY <1>2, <2>1 DEF PlacesDiffer, Fits, NestedNeverWaits, InOrder, queueVars
  <2> QED BY <1>3, <2>2
<1>5. CASE c \in waiting
  <2>1. /\ tickets' = [tickets EXCEPT ![Key[c]] = queued[c]]
        /\ Admit(running, W, queued, FALSE)
    BY <1>5 DEF HandlerLeaves, KeepPlace
  <2>2. \A d, e \in W : d # e => queued[d] # queued[e]
    BY DEF PlacesDiffer
  <2>3. /\ Fits'
        /\ waiting' \subseteq W /\ running' \subseteq running \cup W
        /\ \A b \in running' \ running, d \in waiting' :
             Need(b) > 0 /\ Need(d) > 0 => queued[b] < queued[d]
    <3> HIDE DEF W
    <3> QED BY <1>1, <1>2, <2>1, <2>2, PassKeeps
  <2>4. PlacesDiffer'
    <3>1. /\ tickets'[Key[c]] = queued[c]
          /\ \A k \in Keys \ {Key[c]} : tickets'[k] = tickets[k]
      BY <1>0, <1>1, <2>1 DEF TypeOK
    <3> QED BY <1>2, <1>5, <2>3, <3>1 DEF PlacesDiffer
  <2>5. NestedNeverWaits'
    <3>1. \A e \in W : stage'[e] \in {"asking", "dropped"}
      BY <1>0, <1>2 DEF Consistent, AskedIsQueued, TypeOK
    <3>2. \A d \in W : Outer[d] \in running \cap alive /\ Need(Outer[d]) > 0 => Need(d) = 0
      BY DEF NestedNeverWaits
    <3>3. AskedIsQueued' /\ waiting' \in SUBSET Clients
      BY <1>0 DEF Consistent, TypeOK
    <3> HIDE DEF W
    <3> QED BY <1>1, <1>2, <1>3, <2>3, <3>1, <3>2, <3>3, ConstantsAssumption, PassNested
  <2> QED BY <1>2, <1>3, <2>3, <2>4, <2>5 DEF InOrder
<1> QED BY <1>4, <1>5

(* The pass that gives cores back.                                          *)
LEMMA OrderReap ==
  ASSUME OrderInv, Inv', Reap
  PROVE  OrderInv' /\ InOrder
<1> USE DEF OrderInv
<1> DEFINE R     == running \cap alive
           ended == ~(running \subseteq alive)
<1>0. TypeOK /\ Consistent /\ TypeOK' /\ Consistent'
  BY DEF Inv
<1>1. /\ queued \in [Clients -> Nat] /\ R \in SUBSET running /\ ended \in BOOLEAN
      /\ running \in SUBSET Clients /\ waiting \in SUBSET Clients
  BY <1>0 DEF TypeOK
<1>2. /\ up /\ up' = up /\ alive' = alive /\ stamp' = stamp /\ stage' = stage
      /\ queued' = queued /\ tickets' = tickets
      /\ Admit(R, waiting, queued, ended)
  BY DEF Reap
<1>3. \A d, e \in waiting : d # e => queued[d] # queued[e]
  BY DEF PlacesDiffer
<1>4. /\ Fits'
      /\ waiting' \subseteq waiting /\ running' \subseteq R \cup waiting
      /\ \A b \in running' \ running, d \in waiting' :
           Need(b) > 0 /\ Need(d) > 0 => queued[b] < queued[d]
  <2> DEFINE W == waiting
  <2>1. W \in SUBSET Clients /\ \A d, e \in W : d # e => queued[d] # queued[e]
    BY <1>1, <1>3
  <2>2. PICK gone \in BOOLEAN, P \in SUBSET running : P = R /\ Admit(P, W, queued, gone)
    BY <1>1, <1>2
  <2> HIDE DEF R, ended, W
  <2>3. /\ Fits'
        /\ waiting' \subseteq W /\ running' \subseteq P \cup W
        /\ \A b \in running' \ running, d \in waiting' :
             Need(b) > 0 /\ Need(d) > 0 => queued[b] < queued[d]
    <3>1. /\ OrderInv /\ Inv' /\ up /\ up' = up /\ alive' = alive
          /\ Admit(P, W, queued, gone)
      BY <1>2, <2>2
    <3>2. queued \in [Clients -> Nat] /\ W \in SUBSET Clients
      BY <1>1, <2>1
    <3>3. \A d, e \in W : d # e => queued[d] # queued[e]
      BY <2>1
    <3> HIDE DEF OrderInv
    <3> QED BY <3>1, <3>2, <3>3, PassKeeps, ZenonT(100)
  <2> QED BY <2>2, <2>3 DEF W
<1>5. PlacesDiffer'
  BY <1>2, <1>4 DEF PlacesDiffer
<1>6. OutersRun'
  BY <1>2 DEF OutersRun
<1>7. NestedNeverWaits'
  <2>1. \A e \in waiting : stage'[e] \in {"asking", "dropped"}
    BY <1>0, <1>1, <1>2 DEF Consistent, AskedIsQueued
  <2>2. \A d \in waiting : Outer[d] \in running \cap alive /\ Need(Outer[d]) > 0 => Need(d) = 0
    BY DEF NestedNeverWaits
  <2>3. AskedIsQueued' /\ waiting' \in SUBSET Clients
    BY <1>0 DEF Consistent, TypeOK
  <2>4. running' \subseteq running \cup waiting
    BY <1>1, <1>4
  <2> QED BY <1>1, <1>2, <1>4, <1>6, <2>1, <2>2, <2>3, <2>4, ConstantsAssumption, PassNested
<1> QED BY <1>2, <1>4, <1>5, <1>6, <1>7 DEF InOrder

(* A step that starts nothing and adds nothing to the queue keeps it all.   *)
LEMMA OrderQuiet ==
  ASSUME OrderInv, Inv', running' \in SUBSET running, waiting' \in SUBSET waiting,
         saved' = saved, alive' \in SUBSET alive, queued' = queued, stamp' = stamp,
         \A k \in Keys : tickets'[k] = tickets[k] \/ tickets'[k] = 0,
         \A c \in Clients : age'[c] = age[c] \/ age[c] = "ramping" \/ age'[c] = "lent",
         OutersRun'
  PROVE  OrderInv' /\ InOrder
<1> USE DEF OrderInv
<1>1. /\ running \in SUBSET Clients /\ saved \cap alive \in SUBSET Clients
      /\ saved' \cap alive' \in SUBSET (saved \cap alive)
  BY DEF Inv, TypeOK
<1>2. \A A, B \in SUBSET Clients : B \subseteq A => HoldersAt(B, age') \subseteq HoldersAt(A, age)
  BY DEF HoldersAt
<1>3. FitsAt(running', age')
  <2>1. HoldersAt(running', age') \subseteq HoldersAt(running, age)
    BY <1>1, <1>2
  <2> QED BY <1>1, <2>1, FewerFit DEF Fits
<1>4. FitsAt(saved' \cap alive', age')
  <2>1. HoldersAt(saved' \cap alive', age') \subseteq HoldersAt(saved \cap alive, age)
    BY <1>1, <1>2
  <2> QED BY <1>1, <2>1, FewerFit DEF Fits
<1>5. PlacesDiffer'
  BY DEF PlacesDiffer, Inv, TypeOK
<1>6. NestedNeverWaits' /\ InOrder
  BY DEF NestedNeverWaits, InOrder
<1> QED BY <1>3, <1>4, <1>5, <1>6 DEF Fits

(* Every step keeps the order and the memory.                               *)
LEMMA OrderNext == OrderInv /\ [Next]_vars => OrderInv' /\ InOrder
<1> SUFFICES ASSUME OrderInv, [Next]_vars PROVE OrderInv' /\ InOrder
  OBVIOUS
<1>0. TypeOK /\ Consistent /\ Inv' /\ OutersRun
  BY InvNext DEF Inv, OrderInv
<1>1. ASSUME NEW c \in Clients, RequestNested(c) PROVE OrderInv' /\ InOrder
  <2>1. OutersRun'
    BY <1>0, <1>1, ConstantsAssumption DEF RequestNested, Asks, OutersRun, TypeOK
  <2> QED BY <1>0, <1>1, <2>1, OrderQuiet DEF RequestNested, queueVars
<1>2. ASSUME NEW c \in Clients, RequestFull(c) PROVE OrderInv' /\ InOrder
  <2>1. OutersRun'
    BY <1>0, <1>2, ConstantsAssumption DEF RequestFull, Asks, OutersRun, TypeOK
  <2> QED BY <1>0, <1>2, <2>1, OrderQuiet DEF RequestFull, queueVars
<1>3. ASSUME NEW c \in Clients, Request(c) PROVE OrderInv' /\ InOrder
  BY <1>0, <1>3, OrderRequest
<1>4. ASSUME NEW c \in Clients, Answer(c) PROVE OrderInv' /\ InOrder
  <2>1. OutersRun'
    BY <1>0, <1>4, ConstantsAssumption DEF Answer, OutersRun, TypeOK
  <2> QED BY <1>0, <1>4, <2>1, OrderQuiet DEF Answer, queueVars
<1>5. ASSUME NEW c \in Clients, ClientDies(c) PROVE OrderInv' /\ InOrder
  <2>1. OutersRun'
    BY <1>0, <1>5, ConstantsAssumption DEF ClientDies, Left, OutersRun, TypeOK
  <2> QED BY <1>0, <1>5, <2>1, OrderQuiet DEF ClientDies, queueVars
<1>6. ASSUME NEW c \in Clients, HandlerLeaves(c) PROVE OrderInv' /\ InOrder
  BY <1>0, <1>6, OrderHandlerLeaves
<1>7. ASSUME NEW c \in Clients, GiveUp(c) PROVE OrderInv' /\ InOrder
  <2>1. OutersRun'
    BY <1>0, <1>7, ConstantsAssumption DEF GiveUp, Asks, OutersRun, TypeOK
  <2> QED BY <1>0, <1>7, <2>1, OrderQuiet DEF GiveUp, queueVars
<1>8. ASSUME NEW c \in Clients, RunEnds(c) PROVE OrderInv' /\ InOrder
  <2>1. OutersRun'
    BY <1>0, <1>8, ConstantsAssumption DEF RunEnds, OutersRun, TypeOK
  <2> QED BY <1>0, <1>8, <2>1, OrderQuiet DEF RunEnds, queueVars
<1>9. ASSUME NEW c \in Clients, TimePasses(c) PROVE OrderInv' /\ InOrder
  <2>1. OutersRun'
    BY <1>0, <1>9 DEF TimePasses, OutersRun
  <2>2. \A d \in Clients : age'[d] = age[d] \/ age[d] = "ramping" \/ age'[d] = "lent"
    BY <1>0, <1>9 DEF TimePasses, TypeOK
  <2> QED BY <1>0, <1>9, <2>1, <2>2, OrderQuiet DEF TimePasses
<1>10. CASE Reap
  BY <1>0, <1>10, OrderReap
<1>11. CASE Crash
  <2>1. OutersRun'
    BY <1>0, <1>11, ConstantsAssumption DEF Crash, Left, OutersRun, TypeOK
  <2>2. \A k \in Keys : tickets'[k] = 0
    BY <1>11 DEF Crash
  <2> QED BY <1>0, <1>11, <2>1, <2>2, OrderQuiet DEF Crash
<1>12. CASE Restart
  <2>1. /\ waiting = {} /\ waiting' = {} /\ running' = saved \cap alive
        /\ UNCHANGED <<tickets, saved, queued, age, stage, alive, stamp>>
    BY <1>0, <1>12 DEF Restart, Consistent, DownIsEmpty
  <2>2. Fits'
    BY <2>1 DEF OrderInv, Fits
  <2>3. PlacesDiffer' /\ OutersRun'
    BY <2>1 DEF OrderInv, PlacesDiffer, OutersRun
  <2>4. NestedNeverWaits' /\ InOrder
    BY <2>1 DEF NestedNeverWaits, InOrder
  <2> QED BY <1>0, <2>2, <2>3, <2>4 DEF OrderInv
<1>13. CASE HostMemory \/ UNCHANGED vars
  <2>1. /\ UNCHANGED <<running, waiting, saved, alive, queued, stamp, age, stage, tickets>>
    BY <1>13 DEF HostMemory, vars, queueVars
  <2>2. OutersRun'
    BY <1>0, <2>1 DEF OutersRun
  <2> QED BY <1>0, <2>1, <2>2, OrderQuiet
<1>14. ASSUME NEW k \in Keys, TicketExpires(k) PROVE OrderInv' /\ InOrder
  <2>1. OutersRun'
    BY <1>0, <1>14 DEF TicketExpires, OutersRun
  <2>2. \A l \in Keys : tickets'[l] = tickets[l] \/ tickets'[l] = 0
    BY <1>0, <1>14 DEF TicketExpires, TypeOK
  <2> QED BY <1>0, <1>14, <2>1, <2>2, OrderQuiet DEF TicketExpires, queueVars
<1> QED
  BY <1>1, <1>2, <1>3, <1>4, <1>5, <1>6, <1>7, <1>8, <1>9, <1>10, <1>11, <1>12,
     <1>13, <1>14 DEF Next

-----------------------------------------------------------------------------
(* No run takes cores past one that arrived earlier and waits (admit), in   *)
(* any number of requests, departures and returns on a ticket.              *)
THEOREM StartsInOrder == Spec => ArrivalOrder
<1>1. Spec => []OrderInv
  BY OrderInit, OrderNext, PTL DEF Spec
<1>2. OrderInv /\ [Next]_vars => [InOrder]_vars
  BY OrderNext
<1> QED BY <1>1, <1>2, PTL DEF Spec, ArrivalOrder, InOrder

(* The runs of the queue fit in the memory while two of them hold cores,    *)
(* for any needs (get_blocker): a sum over any set of runs, by an induction *)
(* over the set.                                                            *)
THEOREM RunsFit == Spec => []MemoryFits
<1>1. Spec => []OrderInv
  BY OrderInit, OrderNext, PTL DEF Spec
<1>2. OrderInv => MemoryFits
  <2>1. HoldersAt(running, age) = Holders(running)
    BY DEF HoldersAt, Holders
  <2> QED BY <2>1 DEF OrderInv, Fits, FitsAt, MemoryFits, CoreRuns
<1> QED BY <1>1, <1>2, PTL

(* A command that a run started never waits for the cores of that run       *)
(* (find_holder).                                                           *)
THEOREM NestedStarts == Spec => []NestedNeverWaits
<1>1. Spec => []OrderInv
  BY OrderInit, OrderNext, PTL DEF Spec
<1> QED BY <1>1, PTL DEF OrderInv
=============================================================================
