-------------------------- MODULE AgentQueueProofs --------------------------
(***************************************************************************)
(* Theorems about the queue of agents, for any bundles, tasks and bounds:  *)
(* types, a new task that leaves the queue stays in reach of the pass that *)
(* queues it again, and a task an agent took never goes back.              *)
(***************************************************************************)
EXTENDS AgentQueue, SequenceTheorems, FiniteSetTheorems, TLAPS

-----------------------------------------------------------------------------
(* Sequences                                                                *)

(* h holds what is left of the first tasks of Q, up to the n-th.            *)
Leaves(Q, gone, n, h) ==
  h = [i \in 0..n |->
        IF i = 0 THEN <<>>
        ELSE IF Q[i] \in gone THEN h[i - 1] ELSE Append(h[i - 1], Q[i])]

(* The definition of Without, with its table named.                         *)
LEMMA WithoutIs ==
  ASSUME NEW Q, NEW gone
  PROVE  Without(Q, gone) = (CHOOSE h : Leaves(Q, gone, Len(Q), h))[Len(Q)]
BY DEF Without, Leaves

(* Induction over a finite set, as a fact about its subsets: of some of     *)
(* them, one contains no other.                                             *)
LEMMA Smallest ==
  ASSUME NEW S, IsFiniteSet(S), NEW T \in SUBSET SUBSET S, T # {}
  PROVE  \E U \in T : \A V \in T : V \subseteq U => V = U
<1>1. IsWellFoundedOn(StrictSubsetOrdering(S), SUBSET S)
  BY FS_StrictSubsetOrderingWellFounded, FS_FiniteSubsetsOfFinite
<1>2. \E U \in T : \A V \in T : ~(<<V, U>> \in StrictSubsetOrdering(S))
  BY <1>1, WFMin
<1> QED BY <1>2 DEF StrictSubsetOrdering

(* Of some numbers, one is the least.                                       *)
LEMMA Least ==
  ASSUME NEW T \in SUBSET Nat, T # {}
  PROVE  \E n \in T : \A m \in T : n <= m
<1>1. PICK k \in T : TRUE
  OBVIOUS
<1> DEFINE U == {0 .. m : m \in {j \in T : j <= k}}
<1>2. IsFiniteSet(0 .. k)
  BY FS_Interval
<1>a. U \in SUBSET SUBSET (0 .. k)
  OBVIOUS
<1>b. U # {}
  OBVIOUS
<1>3. PICK V \in U : \A W \in U : W \subseteq V => W = V
  <2> DEFINE I == 0 .. k
  <2>1. IsFiniteSet(I) /\ U \in SUBSET SUBSET I
    BY <1>2, <1>a
  <2> HIDE DEF U, I
  <2> QED BY <2>1, <1>b, Smallest
<1>4. PICK n \in T : n <= k /\ V = 0 .. n
  BY <1>3
<1>5. ASSUME NEW m \in T, m < n PROVE FALSE
  <2>1. 0 .. m \in U /\ 0 .. m \subseteq V
    BY <1>4, <1>5
  <2>2. 0 .. m = 0 .. n
    BY <1>3, <1>4, <2>1
  <2> QED BY <1>5, <2>2
<1> QED BY <1>4, <1>5

(* There is a table for each length.                                        *)
LEMMA LeavesExist ==
  ASSUME NEW Q, NEW gone, NEW n \in Nat
  PROVE  \E h : Leaves(Q, gone, n, h)
<1> DEFINE Lacks == {m \in Nat : ~ \E h : Leaves(Q, gone, m, h)}
<1>2. 0 \notin Lacks
  <2>2. Leaves(Q, gone, 0, [i \in 0..0 |-> <<>>])
    BY DEF Leaves
  <2> QED BY <2>2
<1>3. ASSUME NEW m \in Nat, m \notin Lacks
      PROVE  m + 1 \notin Lacks
  <2>1. PICK h : Leaves(Q, gone, m, h)
    BY <1>3
  <2> DEFINE last == IF Q[m + 1] \in gone THEN h[m] ELSE Append(h[m], Q[m + 1])
             g == [i \in 0..(m + 1) |-> IF i = m + 1 THEN last ELSE h[i]]
  <2>2. \A i \in 0..m : h[i] = IF i = 0 THEN <<>>
        ELSE IF Q[i] \in gone THEN h[i - 1] ELSE Append(h[i - 1], Q[i])
    BY <2>1 DEF Leaves
  <2>3. ASSUME NEW i \in 0..(m + 1)
        PROVE g[i] = IF i = 0 THEN <<>>
        ELSE IF Q[i] \in gone THEN g[i - 1] ELSE Append(g[i - 1], Q[i])
    <3>1. CASE i = m + 1
      <4>1. g[i] = last /\ g[i - 1] = h[m] /\ i # 0
        BY <3>1
      <4> QED BY <3>1, <4>1
    <3>2. CASE i # m + 1
      <4>1. i \in 0..m /\ g[i] = h[i] /\ (i # 0 => g[i - 1] = h[i - 1])
        BY <3>2
      <4> HIDE DEF g
      <4> QED BY <4>1, <2>2
    <3> QED BY <3>1, <3>2
  <2>4. Leaves(Q, gone, m + 1, g)
    BY <2>3 DEF Leaves
  <2> QED BY <2>4
<1>4. Lacks = {}
  <2>1. SUFFICES ASSUME Lacks # {} PROVE FALSE
    OBVIOUS
  <2>2. PICK m \in Lacks : \A k \in Lacks : m <= k
    BY <2>1, Least
  <2>3. m # 0 /\ m - 1 \in Nat /\ m - 1 \notin Lacks
    BY <1>2, <2>2
  <2> QED BY <1>3, <2>2, <2>3
<1> QED BY <1>4

(* What is left of an injective queue: the tasks not gone, once each.       *)
LEMMA WithoutKeeps ==
  ASSUME NEW T, NEW Q \in Seq(T), NEW gone, IsInjective(Q)
  PROVE  /\ Without(Q, gone) \in Seq(T)
         /\ IsInjective(Without(Q, gone))
         /\ ToSet(Without(Q, gone)) = ToSet(Q) \ gone
<1> DEFINE h == CHOOSE h : Leaves(Q, gone, Len(Q), h)
<1> DEFINE Good(i) == /\ h[i] \in Seq(T) /\ IsInjective(h[i])
                      /\ ToSet(h[i]) = {Q[j] : j \in 1..i} \ gone
<1> DEFINE Bad == {i \in 0..Len(Q) : ~Good(i)}
<1>1. Len(Q) \in Nat /\ Q \in [1..Len(Q) -> T] /\ DOMAIN Q = 1..Len(Q)
  BY LenProperties
<1>2. Leaves(Q, gone, Len(Q), h)
  BY <1>1, LeavesExist
<1>3. \A i \in 0..Len(Q) : h[i] = IF i = 0 THEN <<>>
        ELSE IF Q[i] \in gone THEN h[i - 1] ELSE Append(h[i - 1], Q[i])
  BY <1>2 DEF Leaves
<1> HIDE DEF h
<1>4. Good(0)
  <2>1. h[0] = <<>> 
    BY <1>1, <1>3
  <2> QED BY <2>1, EmptySeq DEF IsInjective, ToSet
<1>5. ASSUME NEW i \in 1..Len(Q), Good(i - 1)
      PROVE  Good(i)
  <2>1. {Q[j] : j \in 1..i} = {Q[j] : j \in 1..(i - 1)} \cup {Q[i]}
    BY <1>1
  <2>2. CASE Q[i] \in gone
    <3>1. h[i] = h[i - 1]
      BY <1>1, <1>3, <2>2
    <3> QED BY <1>5, <2>1, <2>2, <3>1
  <2>3. CASE Q[i] \notin gone
    <3> DEFINE s == h[i - 1]
               n == Len(s)
    <3>1. h[i] = Append(s, Q[i]) /\ Q[i] \in T
      <4>1. i \in 0..Len(Q) /\ i # 0 /\ i \in 1..Len(Q)
        BY <1>1
      <4>2. h[i] = Append(s, Q[i])
        BY <1>3, <2>3, <4>1
      <4> QED BY <1>1, <4>1, <4>2
    <3>2. s \in Seq(T) /\ n \in Nat /\ DOMAIN s = 1..n
      BY <1>5, LenProperties
    <3>3. /\ h[i] \in Seq(T) /\ DOMAIN h[i] = 1..(n + 1)
          /\ \A k \in 1..n : h[i][k] = s[k]
          /\ h[i][n + 1] = Q[i]
      BY <3>1, <3>2, AppendProperties, LenProperties
    <3>4. Q[i] \notin ToSet(s)
      <4>1. Q[i] \notin {Q[j] : j \in 1..(i - 1)}
        BY <1>1 DEF IsInjective
      <4> QED BY <4>1, <1>5
    <3> HIDE DEF s, n
    <3>5. IsInjective(h[i])
      <4>1. \A k, l \in 1..n : s[k] = s[l] => k = l
        BY <1>5, <3>2 DEF IsInjective, s
      <4>2. \A k \in 1..n : s[k] # Q[i]
        BY <3>2, <3>4 DEF ToSet
      <4>3. \A k, l \in 1..(n + 1) : h[i][k] = h[i][l] => k = l
        <5> TAKE k, l \in 1..(n + 1)
        <5>1. k = n + 1 \/ k \in 1..n
          BY <3>2
        <5>2. l = n + 1 \/ l \in 1..n
          BY <3>2
        <5> QED BY <3>3, <4>1, <4>2, <5>1, <5>2
      <4> QED BY <3>3, <4>3 DEF IsInjective
    <3>6. ToSet(h[i]) = ToSet(s) \cup {Q[i]}
      <4>1. 1..(n + 1) = 1..n \cup {n + 1}
        BY <3>2
      <4>2. ToSet(h[i]) = {h[i][k] : k \in 1..n} \cup {h[i][n + 1]}
        BY <3>3, <4>1 DEF ToSet
      <4>3. {h[i][k] : k \in 1..n} = {s[k] : k \in 1..n}
        BY <3>3
      <4> QED BY <3>2, <3>3, <4>2, <4>3 DEF ToSet
    <3> QED BY <1>5, <2>1, <2>3, <3>3, <3>5, <3>6 DEF s
  <2> QED BY <2>2, <2>3
<1>6. Bad = {}
  <2>1. SUFFICES ASSUME Bad # {} PROVE FALSE
    OBVIOUS
  <2>2. PICK i \in Bad : \A k \in Bad : i <= k
    <3>1. Bad \in SUBSET Nat
      BY <1>1
    <3> HIDE DEF Bad
    <3> QED BY <2>1, <3>1, Least
  <2>3. i \in 1..Len(Q) /\ i - 1 \in 0..Len(Q)
    BY <1>1, <1>4, <2>2
  <2>4. Good(i - 1)
    <3>1. i - 1 \notin Bad
      <4>1. ~(i <= i - 1)
        BY <2>3, <1>1
      <4> HIDE DEF Bad
      <4> QED BY <2>2, <4>1
    <3> HIDE DEF Good
    <3> QED BY <2>3, <3>1
  <2>5. Good(i)
    BY <1>5, <2>3, <2>4
  <2> QED BY <2>2, <2>5
<1>7. Good(Len(Q))
  <2>1. Len(Q) \in 0..Len(Q)
    BY <1>1
  <2> HIDE DEF Good
  <2> QED BY <1>6, <2>1
<1>8. ToSet(Q) = {Q[j] : j \in 1..Len(Q)}
  BY <1>1 DEF ToSet
<1>9. Without(Q, gone) = h[Len(Q)]
  BY WithoutIs DEF h
<1> QED BY <1>7, <1>8, <1>9
(* A finite set as a sequence: each element once.                           *)
LEMMA SetToSeqHolds ==
  ASSUME NEW S, IsFiniteSet(S)
  PROVE  /\ SetToSeq(S) \in Seq(S)
         /\ IsInjective(SetToSeq(S))
         /\ ToSet(SetToSeq(S)) = S
<1> DEFINE n == Cardinality(S)
<1>1. n \in Nat /\ ExistsBijection(1..n, S)
  BY FS_CardinalityType
<1> HIDE DEF n
<1>2. \E f \in [1..n -> S] : IsInjective(f)
  BY <1>1 DEF ExistsBijection, Bijection, Injection
<1> DEFINE f == SetToSeq(S)
<1>3. f \in [1..n -> S] /\ IsInjective(f)
  BY <1>2 DEF SetToSeq, n
<1> HIDE DEF f
<1>4. f \in Seq(S)
  BY <1>1, <1>3
<1>5. ToSet(f) = S
  <2>1. IsFiniteSet(1..n) /\ Cardinality(1..n) = n
    BY <1>1, FS_Interval
  <2>2. f \in Injection(1..n, S)
    BY <1>3 DEF Injection
  <2>3. f \in Surjection(1..n, S)
    BY <2>1, <2>2, FS_Injection DEF n
  <2> QED BY <1>3, <2>3 DEF Surjection, ToSet
<1> QED BY <1>3, <1>4, <1>5 DEF f

(* Two injective sequences with no element in common.                       *)
LEMMA ConcatKeeps ==
  ASSUME NEW T, NEW s \in Seq(T), NEW u \in Seq(T), IsInjective(s), IsInjective(u),
         ToSet(s) \cap ToSet(u) = {}
  PROVE  /\ s \o u \in Seq(T)
         /\ IsInjective(s \o u)
         /\ ToSet(s \o u) = ToSet(s) \cup ToSet(u)
<1> DEFINE m == Len(s)
           n == Len(u)
           v == s \o u
<1>1. /\ m \in Nat /\ n \in Nat
      /\ DOMAIN s = 1..m /\ DOMAIN u = 1..n
  BY LenProperties
<1>2. /\ v \in Seq(T) /\ Len(v) = m + n
      /\ \A i \in 1..(m + n) : v[i] = IF i <= m THEN s[i] ELSE u[i - m]
  BY ConcatProperties
<1>3. DOMAIN v = 1..(m + n)
  BY <1>2, LenProperties
<1> HIDE DEF m, n, v
<1>4. /\ \A i \in 1..m : i \in 1..(m + n) /\ v[i] = s[i]
      /\ \A i \in 1..n : i + m \in 1..(m + n) /\ v[i + m] = u[i]
      /\ \A i \in 1..(m + n) : i \in 1..m \/ (i - m \in 1..n /\ v[i] = u[i - m])
  <2>1. ASSUME NEW i \in 1..m PROVE i \in 1..(m + n) /\ v[i] = s[i]
    BY <1>1, <1>2
  <2>2. ASSUME NEW i \in 1..n PROVE i + m \in 1..(m + n) /\ v[i + m] = u[i]
    <3>1. i + m \in 1..(m + n) /\ ~(i + m <= m) /\ (i + m) - m = i
      BY <1>1
    <3> QED BY <1>2, <3>1
  <2>3. ASSUME NEW i \in 1..(m + n), i \notin 1..m
        PROVE  i - m \in 1..n /\ v[i] = u[i - m]
    <3>1. ~(i <= m) /\ i - m \in 1..n
      BY <1>1, <2>3
    <3> QED BY <1>2, <3>1
  <2> QED BY <2>1, <2>2, <2>3
<1>5. ToSet(v) = ToSet(s) \cup ToSet(u)
  <2>1. ToSet(s) \subseteq ToSet(v)
    BY <1>1, <1>3, <1>4 DEF ToSet
  <2>2. ToSet(u) \subseteq ToSet(v)
    BY <1>1, <1>3, <1>4 DEF ToSet
  <2>3. ToSet(v) \subseteq ToSet(s) \cup ToSet(u)
    BY <1>1, <1>3, <1>4 DEF ToSet
  <2> QED BY <2>1, <2>2, <2>3
<1>6. IsInjective(v)
  <2>1. SUFFICES ASSUME NEW i \in 1..(m + n), NEW j \in 1..(m + n), v[i] = v[j]
                 PROVE  i = j
    BY <1>3 DEF IsInjective
  <2>2. \A k \in 1..m, l \in 1..n : s[k] # u[l]
    BY <1>1 DEF ToSet
  <2>3. \A k, l \in 1..m : s[k] = s[l] => k = l
    BY <1>1 DEF IsInjective
  <2>4. \A k, l \in 1..n : u[k] = u[l] => k = l
    BY <1>1 DEF IsInjective
  <2>5. CASE i \in 1..m /\ j \in 1..m
    BY <2>1, <2>3, <2>5, <1>4
  <2>6. CASE i \in 1..m /\ j \notin 1..m
    BY <2>1, <2>2, <2>6, <1>4
  <2>7. CASE i \notin 1..m /\ j \in 1..m
    BY <2>1, <2>2, <2>7, <1>4
  <2>8. CASE i \notin 1..m /\ j \notin 1..m
    <3>1. i - m = j - m
      BY <2>1, <2>4, <2>8, <1>4
    <3> QED BY <3>1, <1>1
  <2> QED BY <2>5, <2>6, <2>7, <2>8
<1> QED BY <1>2, <1>5, <1>6 DEF v

(* A part of a sequence.                                                    *)
LEMMA SubSeqKeeps ==
  ASSUME NEW T, NEW s \in Seq(T), IsInjective(s),
         NEW m \in 1..(Len(s) + 1), NEW n \in 0..Len(s)
  PROVE  /\ SubSeq(s, m, n) \in Seq(T)
         /\ IsInjective(SubSeq(s, m, n))
         /\ ToSet(SubSeq(s, m, n)) = {s[i] : i \in m..n}
<1> DEFINE v == SubSeq(s, m, n)
           k == IF m <= n THEN n - m + 1 ELSE 0
<1>1. /\ Len(s) \in Nat /\ DOMAIN s = 1..Len(s)
      /\ m \in Int /\ n \in Int /\ m..n \subseteq 1..Len(s)
  BY LenProperties
<1>2. \A i \in m..n : s[i] \in T
  BY <1>1, LenProperties
<1>3. /\ v \in Seq(T) /\ Len(v) = k
      /\ \A i \in 1..(n - m + 1) : v[i] = s[m + i - 1]
  BY <1>1, <1>2, SubSeqProperties
<1>4. DOMAIN v = 1..k
  BY <1>3, LenProperties
<1> HIDE DEF v
<1>5. \A i \in 1..k : m + i - 1 \in m..n /\ v[i] = s[m + i - 1]
  BY <1>1, <1>3
<1>6. \A j \in m..n : j - m + 1 \in 1..k /\ v[j - m + 1] = s[j]
  BY <1>1, <1>3
<1> HIDE DEF k
<1>7. ToSet(v) = {s[i] : i \in m..n}
  <2>1. ToSet(v) \subseteq {s[i] : i \in m..n}
    BY <1>4, <1>5 DEF ToSet
  <2>2. {s[i] : i \in m..n} \subseteq ToSet(v)
    BY <1>4, <1>6 DEF ToSet
  <2> QED BY <2>1, <2>2
<1>8. IsInjective(v)
  <2>1. SUFFICES ASSUME NEW i \in 1..k, NEW j \in 1..k, v[i] = v[j]
                 PROVE  i = j
    BY <1>4 DEF IsInjective
  <2>2. m + i - 1 = m + j - 1
    BY <1>1, <1>5, <2>1 DEF IsInjective
  <2>3. i \in Int /\ j \in Int
    OBVIOUS
  <2> QED BY <1>1, <2>2, <2>3
<1> QED BY <1>3, <1>7, <1>8 DEF v

(* A new element in a sequence.                                             *)
LEMMA InsertKeeps ==
  ASSUME NEW T, NEW s \in Seq(T), IsInjective(s), NEW e \in T, e \notin ToSet(s),
         NEW i \in 1..(Len(s) + 1)
  PROVE  /\ InsertAt(s, i, e) \in Seq(T)
         /\ IsInjective(InsertAt(s, i, e))
         /\ ToSet(InsertAt(s, i, e)) = ToSet(s) \cup {e}
<1> DEFINE before == SubSeq(s, 1, i - 1)
           after  == SubSeq(s, i, Len(s))
           one    == <<e>>
<1>1. Len(s) \in Nat /\ DOMAIN s = 1..Len(s)
  BY LenProperties
<1>2. /\ before \in Seq(T) /\ IsInjective(before)
      /\ ToSet(before) = {s[j] : j \in 1..(i - 1)}
  <2>1. 1 \in 1..(Len(s) + 1) /\ i - 1 \in 0..Len(s)
    BY <1>1
  <2> HIDE DEF before
  <2> QED BY <2>1, SubSeqKeeps DEF before
<1>3. /\ after \in Seq(T) /\ IsInjective(after)
      /\ ToSet(after) = {s[j] : j \in i..Len(s)}
  <2>1. Len(s) \in 0..Len(s)
    BY <1>1
  <2> HIDE DEF after
  <2> QED BY <2>1, SubSeqKeeps DEF after
<1>4. one \in Seq(T) /\ IsInjective(one) /\ ToSet(one) = {e}
  BY DEF IsInjective, ToSet
<1> HIDE DEF before, after, one
<1>5. ToSet(s) = ToSet(before) \cup ToSet(after)
  <2>1. 1..Len(s) = 1..(i - 1) \cup i..Len(s)
    BY <1>1
  <2> QED BY <1>1, <1>2, <1>3, <2>1 DEF ToSet
<1>6. ToSet(before) \cap ToSet(after) = {}
  <2>1. \A j \in 1..(i - 1), k \in i..Len(s) :
          j \in DOMAIN s /\ k \in DOMAIN s /\ j # k
    BY <1>1
  <2>2. \A j \in 1..(i - 1), k \in i..Len(s) : s[j] # s[k]
    BY <2>1 DEF IsInjective
  <2> QED BY <1>2, <1>3, <2>2
<1>7. /\ before \o one \in Seq(T) /\ IsInjective(before \o one)
      /\ ToSet(before \o one) = ToSet(before) \cup {e}
  BY <1>2, <1>4, <1>5, ConcatKeeps
<1>8. /\ (before \o one) \o after \in Seq(T)
      /\ IsInjective((before \o one) \o after)
      /\ ToSet((before \o one) \o after) = ToSet(before \o one) \cup ToSet(after)
  <2> DEFINE w == before \o one
  <2>1. w \in Seq(T) /\ IsInjective(w) /\ ToSet(w) \cap ToSet(after) = {}
    BY <1>5, <1>6, <1>7
  <2> HIDE DEF w
  <2>2. /\ w \o after \in Seq(T) /\ IsInjective(w \o after)
        /\ ToSet(w \o after) = ToSet(w) \cup ToSet(after)
    BY <2>1, <1>3, ConcatKeeps
  <2> QED BY <2>2 DEF w
<1> QED BY <1>5, <1>7, <1>8 DEF InsertAt, before, after, one
-----------------------------------------------------------------------------
(* The invariant                                                            *)

(* A task is in the folder of its bundle only, and a new one nowhere; the   *)
(* session of a bundle begins before anything runs in its terminal.         *)
Placed ==
  /\ \A b \in Bundles : task[b] # NoTask => Bundle[task[b]] = b
  /\ \A t \in Tasks : fate[t] = "new" => t \notin ToSet(queue) /\ task[Bundle[t]] # t
  /\ \A b \in Bundles : InTerminal(b) => session[b]

(* A task an agent took and a pass still reads in the queue shows that it   *)
(* was taken, and one in a folder with no session was not.                  *)
TakenSeen ==
  /\ \A t \in Tasks \ hidden : fate[t] = "taken" /\ t \in ToSet(queue) => Started(t)
  /\ \A b \in Bundles : task[b] # NoTask /\ ~session[b] => fate[task[b]] # "taken"

Inv == TypeOK /\ Placed /\ TakenSeen /\ FreshKept

LEMMA InvInit == Init => Inv
<1> SUFFICES ASSUME Init PROVE Inv
  OBVIOUS
<1> USE ConstantsAssumption
<1>1. TypeOK
  BY DEF Init, TypeOK, IsInjective, Terminals
<1>2. Placed
  BY DEF Init, Placed, ToSet, InTerminal
<1>3. TakenSeen
  BY DEF Init, TakenSeen, ToSet
<1>4. FreshKept
  BY DEF Init, FreshKept
<1> QED BY <1>1, <1>2, <1>3, <1>4 DEF Inv

-----------------------------------------------------------------------------
(* What a pass reads                                                        *)

(* The queue of a pass: the stranded tasks, and those of the queue that no  *)
(* agent runs, each once.                                                   *)
LEMMA ConsideredHolds ==
  ASSUME Inv
  PROVE  /\ Considered \in Seq(Tasks)
         /\ IsInjective(Considered)
         /\ ToSet(Considered) =
              {task[b] : b \in Stranded} \cup {t \in ToSet(queue) : ~Started(t)}
<1> USE ConstantsAssumption
<1> DEFINE S == {task[b] : b \in Stranded}
           gone == {t \in Tasks : Started(t)}
           rest == Without(queue, gone)
<1>1. queue \in Seq(Tasks) /\ IsInjective(queue) /\ ToSet(queue) \subseteq Tasks
  BY LenProperties DEF Inv, TypeOK, ToSet
<1>2. S \subseteq Tasks
  BY DEF Inv, TypeOK, Stranded, Untaken
<1>3. IsFiniteSet(S)
  <2>1. IsFiniteSet(Stranded)
    BY FS_Subset DEF Stranded
  <2>2. [b \in Stranded |-> task[b]] \in Surjection(Stranded, S)
    BY DEF Surjection
  <2> HIDE DEF S
  <2> QED BY <2>1, <2>2, FS_Surjection
<1>4. /\ rest \in Seq(Tasks) /\ IsInjective(rest)
      /\ ToSet(rest) = ToSet(queue) \ gone
  <2> HIDE DEF gone
  <2> QED BY <1>1, WithoutKeeps
<1> DEFINE first == SetToSeq(S)
<1> HIDE DEF S
<1>5. first \in Seq(S) /\ IsInjective(first) /\ ToSet(first) = S
  BY <1>3, SetToSeqHolds
<1> HIDE DEF first
<1>6. first \in Seq(Tasks)
  BY <1>2, <1>5, SeqMonotonic
<1>7. S \cap ToSet(queue) = {}
  <2>1. ASSUME NEW b \in Stranded, task[b] \in ToSet(queue) PROVE FALSE
    <3>1. Bundle[task[b]] = b
      BY DEF Inv, Placed, Stranded, Untaken
    <3>2. b \in Queued
      BY <2>1, <3>1 DEF Queued
    <3> QED BY <3>2 DEF Stranded, Untaken
  <2> QED BY <2>1 DEF S
<1> HIDE DEF rest, gone
<1>8. ToSet(first) \cap ToSet(rest) = {}
  BY <1>4, <1>5, <1>7
<1>9. /\ first \o rest \in Seq(Tasks) /\ IsInjective(first \o rest)
      /\ ToSet(first \o rest) = ToSet(first) \cup ToSet(rest)
  BY <1>4, <1>5, <1>6, <1>8, ConcatKeeps
<1>10. Considered = first \o rest
  BY DEF Considered, first, rest, gone, S
<1>11. ToSet(queue) \ gone = {t \in ToSet(queue) : ~Started(t)}
  BY <1>1 DEF gone
<1> QED BY <1>4, <1>5, <1>9, <1>10, <1>11 DEF S

(* The first tasks of a queue are of different bundles.                     *)
LEMMA FirstsDiffer ==
  ASSUME NEW Q \in Seq(Tasks)
  PROVE  /\ Firsts(Q) \subseteq ToSet(Q)
         /\ \A t, u \in Firsts(Q) : Bundle[t] = Bundle[u] => t = u
<1> DEFINE I == {i \in DOMAIN Q : \A j \in 1..(i - 1) : Bundle[Q[j]] # Bundle[Q[i]]}
<1>1. DOMAIN Q = 1..Len(Q) /\ Len(Q) \in Nat
  BY LenProperties
<1>2. Firsts(Q) = {Q[i] : i \in I}
  BY DEF Firsts
<1>3. \A i, k \in I : Bundle[Q[i]] = Bundle[Q[k]] => i = k
  <2>1. SUFFICES ASSUME NEW i \in I, NEW k \in I, Bundle[Q[i]] = Bundle[Q[k]], i # k
                 PROVE  FALSE
    OBVIOUS
  <2>2. CASE i < k
    <3>1. i \in 1..(k - 1)
      BY <1>1, <2>2
    <3> QED BY <2>1, <3>1
  <2>3. CASE k < i
    <3>1. k \in 1..(i - 1)
      BY <1>1, <2>3
    <3> QED BY <2>1, <3>1
  <2>4. i \in Int /\ k \in Int
    BY <1>1
  <2> QED BY <2>1, <2>2, <2>3, <2>4
<1>4. I \subseteq DOMAIN Q
  OBVIOUS
<1> HIDE DEF I
<1> QED BY <1>2, <1>3, <1>4 DEF ToSet
-----------------------------------------------------------------------------
(* What a pass writes                                                       *)

(* A pass tells, launches or hands the tasks of `new`, at most one of each  *)
(* bundle and none that a terminal shows to be taken, and writes their      *)
(* files: the session of a bundle stays for a resume or a handed task only. *)
Wrote(handed, launched, told, new) ==
  /\ new = handed \cup launched \cup told /\ new \subseteq Tasks
  /\ told \subseteq Resumes
  /\ handed \cap told = {} /\ launched \cap told = {} /\ launched \cap handed = {}
  /\ \A t \in new : \/ t \in ToSet(queue) /\ ~Started(t)
                    \/ Bundle[t] \in Stranded /\ task[Bundle[t]] = t
  /\ \A t \in told \cup handed : session[Bundle[t]]
  /\ \A t \in launched : ~InTerminal(Bundle[t])
  /\ \A b \in Bundles : (\A t \in new : Bundle[t] # b) =>
       task'[b] = task[b] /\ (session'[b] <=> session[b])
  /\ \A t \in new :
       /\ task'[Bundle[t]] = t
       /\ session'[Bundle[t]] <=> session[Bundle[t]] /\ t \in Resumes \cup handed

LEMMA PassWrites ==
  ASSUME Inv, NEW ready \in SUBSET Firsts(Considered),
         NEW handed, handed = Handed(ready),
         NEW launched, launched = Launched(Considered, ready),
         NEW told, told = Told(ready),
         NEW new, new = handed \cup launched \cup told,
         WriteTasks(new, handed, told)
  PROVE  /\ Wrote(handed, launched, told, new)
         /\ task' \in [Bundles -> Tasks \cup {NoTask}]
         /\ session' \in [Bundles -> BOOLEAN] /\ lock' \in [Bundles -> BOOLEAN]
         /\ done' \in [Bundles -> BOOLEAN] /\ pause' \in [Bundles -> BOOLEAN]
<1> USE ConstantsAssumption
<1> DEFINE Of(b) == {t \in new : Bundle[t] = b}
           moved == {b \in Bundles : Of(b) # {} /\ (session[b] \/ task[b] \notin Of(b))}
<1>1. /\ Considered \in Seq(Tasks)
      /\ ToSet(Considered) = {task[b] : b \in Stranded} \cup {t \in ToSet(queue) : ~Started(t)}
  BY ConsideredHolds
<1>2. /\ ready \subseteq ToSet(Considered)
      /\ \A t, u \in ready : Bundle[t] = Bundle[u] => t = u
  <2> DEFINE Q == Considered
  <2>1. Q \in Seq(Tasks) /\ ready \subseteq Firsts(Q)
    BY <1>1
  <2> HIDE DEF Q
  <2>2. ready \subseteq ToSet(Q) /\ \A t, u \in ready : Bundle[t] = Bundle[u] => t = u
    BY <2>1, FirstsDiffer
  <2> QED BY <2>2 DEF Q
<1>3. ToSet(Considered) \subseteq Tasks
  BY <1>1, LenProperties DEF ToSet
<1>4. /\ launched \subseteq Startable(ready) /\ Startable(ready) \subseteq ready
      /\ handed \subseteq ready /\ told \subseteq ready /\ new \subseteq ready
  <2>1. launched \subseteq Startable(ready)
    BY DEF Launched
  <2>2. Startable(ready) \subseteq ready
    BY DEF Startable
  <2>3. handed \subseteq ready
    BY DEF Handed
  <2>4. told \subseteq ready
    BY DEF Told
  <2> QED BY <2>1, <2>2, <2>3, <2>4
<1>5. /\ told \subseteq Resumes
      /\ handed \cap told = {} /\ launched \cap told = {} /\ launched \cap handed = {}
      /\ \A t \in told \cup handed : session[Bundle[t]]
      /\ \A t \in launched : ~InTerminal(Bundle[t])
  <2>1. told \subseteq Resumes /\ \A t \in told : session[Bundle[t]]
    BY DEF Told
  <2>2. handed \cap told = {} /\ \A t \in handed : InTerminal(Bundle[t])
    BY DEF Handed, TerminalReady, InTerminal
  <2>3. \A t \in Startable(ready) : t \notin Told(ready) /\ ~InTerminal(Bundle[t])
    BY DEF Startable
  <2>4. \A t \in handed : session[Bundle[t]]
    <3>1. \A t \in handed : Bundle[t] \in Bundles
      BY <1>2, <1>3, <1>4
    <3> QED BY <2>2, <3>1 DEF Inv, Placed
  <2> QED BY <1>4, <2>1, <2>2, <2>3, <2>4
<1>6. \A t \in new : \/ t \in ToSet(queue) /\ ~Started(t)
                     \/ Bundle[t] \in Stranded /\ task[Bundle[t]] = t
  <2>1. \A b \in Stranded : Bundle[task[b]] = b
    BY DEF Inv, Placed, Stranded, Untaken
  <2> QED BY <1>1, <1>2, <1>4, <2>1
<1>7. /\ task' = [b \in Bundles |-> IF Of(b) = {} THEN task[b] ELSE CHOOSE t \in Of(b) : TRUE]
      /\ session' = [b \in Bundles |->
           session[b] /\ (b \in moved => \E t \in Of(b) : KeepsSession(t, handed))]
      /\ lock' = [b \in Bundles |-> lock[b] /\ (b \in moved => Of(b) \subseteq told)]
      /\ done' = [b \in Bundles |-> done[b] /\ b \notin moved]
      /\ pause' = [b \in Bundles |-> pause[b] /\ b \notin moved]
  BY DEF WriteTasks
<1>8. new \subseteq Tasks
  BY <1>2, <1>3, <1>4
<1>9. \A b \in Bundles : (\A t \in new : Bundle[t] # b) =>
        task'[b] = task[b] /\ (session'[b] <=> session[b])
  <2> TAKE b \in Bundles
  <2> HAVE \A t \in new : Bundle[t] # b
  <2>1. Of(b) = {} /\ b \notin moved
    OBVIOUS
  <2> HIDE DEF Of, moved
  <2> QED BY <1>7, <2>1 DEF Inv, TypeOK
<1>10. ASSUME NEW t \in new
       PROVE  /\ task'[Bundle[t]] = t
              /\ session'[Bundle[t]] <=> session[Bundle[t]] /\ t \in Resumes \cup handed
  <2> DEFINE b == Bundle[t]
  <2>1. b \in Bundles
    BY <1>8
  <2>2. Of(b) = {t}
    BY <1>2, <1>4
  <2>3. b \in moved <=> session[b] \/ task[b] # t
    BY <2>1, <2>2
  <2> HIDE DEF Of, moved, b
  <2>4. task'[b] = t
    BY <1>7, <2>1, <2>2
  <2>5. session'[b] <=> session[b] /\ (b \in moved => t \in Resumes \cup handed)
    BY <1>7, <2>1, <2>2 DEF KeepsSession
  <2> QED BY <2>3, <2>4, <2>5 DEF b
<1>11. /\ task' \in [Bundles -> Tasks \cup {NoTask}]
       /\ session' \in [Bundles -> BOOLEAN] /\ lock' \in [Bundles -> BOOLEAN]
       /\ done' \in [Bundles -> BOOLEAN] /\ pause' \in [Bundles -> BOOLEAN]
  <2>1. task' \in [Bundles -> Tasks \cup {NoTask}]
    <3>1. \A b \in Bundles : Of(b) # {} => (CHOOSE t \in Of(b) : TRUE) \in Tasks
      BY <1>8
    <3> HIDE DEF Of
    <3> QED BY <1>7, <3>1 DEF Inv, TypeOK
  <2> HIDE DEF Of, moved
  <2>2. session' \in [Bundles -> BOOLEAN]
    BY <1>7 DEF Inv, TypeOK
  <2>3. lock' \in [Bundles -> BOOLEAN] /\ done' \in [Bundles -> BOOLEAN]
        /\ pause' \in [Bundles -> BOOLEAN]
    BY <1>7 DEF Inv, TypeOK
  <2> QED BY <2>1, <2>2, <2>3
<1>12. \A t \in new : /\ task'[Bundle[t]] = t
                      /\ session'[Bundle[t]] <=>
                           session[Bundle[t]] /\ t \in Resumes \cup handed
  BY <1>10
<1> HIDE DEF Of, moved
<1>13. Wrote(handed, launched, told, new)
  BY <1>5, <1>6, <1>8, <1>9, <1>12 DEF Wrote
<1> QED BY <1>11, <1>13

(* What a pass makes of the tasks.                                          *)
Fates(handed, launched, told, replaced, saved) ==
  fate' = [t \in Tasks |->
    IF t \in handed THEN "handed"
    ELSE IF t \in told THEN "taken"
    ELSE IF t \in launched THEN "launched"
    ELSE IF t \in replaced /\ fate[t] \in {"launched", "handed"} THEN "dropped"
    ELSE IF saved /\ \E b \in Stranded : task[b] = t THEN "queued"
    ELSE fate[t]]
(* The tasks whose files a pass replaces.                                   *)
Replaced(new) == {task[Bundle[t]] : t \in new} \ (new \cup {NoTask})

(* No task that an agent took goes back.                                    *)
NoneBack == \A t \in Tasks \ hidden : fate[t] = "taken" => fate'[t] = "taken"

LEMMA PassKeepsTasks ==
  ASSUME Inv, NEW saved \in BOOLEAN,
         NEW handed, NEW launched, NEW told, NEW new,
         Wrote(handed, launched, told, new),
         fate' \in [Tasks -> {"new", "queued", "launched", "handed", "taken", "dropped"}],
         Fates(handed, launched, told, Replaced(new), saved),
         saved => /\ ToSet(queue') = ToSet(Considered) \ new
                  /\ hidden' = hidden,
         ~saved => /\ queue' = queue
                    /\ hidden' = hidden \cup
                                   {t \in Replaced(new) \cap ToSet(queue) : fate[t] = "taken"},
         \A b \in Bundles : terminal'[b] = terminal[b] \/ terminal'[b] = "spawning",
         task' \in [Bundles -> Tasks \cup {NoTask}], session' \in [Bundles -> BOOLEAN]
  PROVE  Placed' /\ TakenSeen' /\ FreshKept' /\ NoneBack
<1> USE ConstantsAssumption
<1>1. /\ ToSet(queue) \subseteq Tasks
      /\ task \in [Bundles -> Tasks \cup {NoTask}] /\ NoTask \notin Tasks
      /\ \A t \in Tasks : Bundle[t] \in Bundles
  BY LenProperties DEF Inv, TypeOK, ToSet
<1>2. ToSet(Considered) = {task[b] : b \in Stranded} \cup {t \in ToSet(queue) : ~Started(t)}
  BY ConsideredHolds
<1>3. \A b \in Stranded : /\ b \in Bundles /\ task[b] \in Tasks /\ ~session[b]
                          /\ Bundle[task[b]] = b
  BY <1>1 DEF Inv, Placed, Stranded, Untaken
<1>4. \A t \in Tasks : fate'[t] =
    IF t \in handed THEN "handed"
    ELSE IF t \in told THEN "taken"
    ELSE IF t \in launched THEN "launched"
    ELSE IF t \in Replaced(new) /\ fate[t] \in {"launched", "handed"} THEN "dropped"
    ELSE IF saved /\ \E b \in Stranded : task[b] = t THEN "queued"
    ELSE fate[t]
  BY DEF Fates
<1>5. \A t \in new : t \in Tasks /\ (t \in ToSet(queue) \/ task[Bundle[t]] = t)
  BY DEF Wrote
<1>6. \A t \in ToSet(queue') : t \in Tasks /\ (t \in ToSet(queue) \/ task[Bundle[t]] = t)
  BY <1>1, <1>2, <1>3
(* The task of a bundle is the one the pass wrote, or the one that was there. *)
<1>7. \A b \in Bundles :
        \/ /\ task'[b] = task[b] /\ (session'[b] <=> session[b])
           /\ \A t \in new : Bundle[t] # b
        \/ task'[b] \in new /\ Bundle[task'[b]] = b
  BY DEF Wrote
<1>8. \A t \in Tasks : t \in new => Bundle[t] \in Bundles /\ task'[Bundle[t]] = t
  BY <1>1 DEF Wrote
<1>9. \A t \in told : t \in new /\ session'[Bundle[t]]
  BY DEF Wrote
(* Before the pass, a task it takes was not taken, or is a hidden one.      *)
<1>10. \A t \in new : fate[t] = "taken" => t \in hidden
  BY <1>3, <1>5 DEF Wrote, Inv, TakenSeen
<1>11. Placed'
  <2>1. \A b \in Bundles : task'[b] # NoTask => Bundle[task'[b]] = b
    BY <1>7 DEF Inv, Placed
  <2>2. ASSUME NEW t \in Tasks, fate'[t] = "new"
        PROVE  t \notin ToSet(queue') /\ task'[Bundle[t]] # t
    <3>1. fate[t] = "new" /\ t \notin new
      BY <1>4, <2>2 DEF Wrote
    <3>2. t \notin ToSet(queue) /\ task[Bundle[t]] # t
      BY <3>1 DEF Inv, Placed
    <3> QED BY <1>1, <1>6, <1>7, <3>1, <3>2
  <2>3. ASSUME NEW b \in Bundles, terminal'[b] \in {"starting", "busy", "idle"}
        PROVE  session'[b]
    <3>1. terminal[b] \in {"starting", "busy", "idle"} /\ session[b]
      BY <2>3 DEF Inv, Placed, InTerminal
    <3>2. ASSUME NEW t \in new, Bundle[t] = b PROVE session'[b]
      <4>1. t \notin launched
        BY <3>1, <3>2 DEF Wrote, InTerminal
      <4> QED BY <3>1, <3>2, <4>1 DEF Wrote
    <3> QED BY <3>1, <3>2 DEF Wrote
  <2> QED BY <2>1, <2>2, <2>3 DEF Placed, InTerminal
<1>12. TakenSeen'
  <2>1. ASSUME NEW t \in Tasks, t \notin hidden', fate'[t] = "taken", t \in ToSet(queue')
        PROVE  session'[Bundle[t]] /\ task'[Bundle[t]] = t
    <3>1. t \notin hidden
      BY <2>1
    <3>2. CASE t \in told
      BY <1>8, <1>9, <3>2
    <3>3. CASE t \notin told
      <4>1. fate[t] = "taken" /\ ~(saved /\ \E b \in Stranded : task[b] = t)
        BY <1>4, <2>1, <3>3
      <4>2. t \notin new
        BY <1>10, <3>1, <4>1
      <4>3. ~saved /\ t \in ToSet(queue)
        <5>1. SUFFICES ASSUME saved PROVE FALSE
          BY <2>1
        <5>2. t \in ToSet(queue) /\ ~Started(t)
          BY <1>2, <2>1, <4>1, <5>1
        <5> QED BY <3>1, <4>1, <5>2 DEF Inv, TakenSeen
      <4>4. session[Bundle[t]] /\ task[Bundle[t]] = t
        BY <3>1, <4>1, <4>3 DEF Inv, TakenSeen, Started
      <4>5. \A u \in new : Bundle[u] # Bundle[t]
        <5>1. SUFFICES ASSUME NEW u \in new, Bundle[u] = Bundle[t] PROVE FALSE
          OBVIOUS
        <5>2. t \in Replaced(new)
          BY <1>1, <4>2, <4>4, <5>1 DEF Replaced
        <5> QED BY <2>1, <4>1, <4>3, <5>2
      <4> QED BY <1>1, <4>4, <4>5 DEF Wrote
    <3> QED BY <3>2, <3>3
  <2>2. ASSUME NEW b \in Bundles, task'[b] # NoTask, ~session'[b], fate'[task'[b]] = "taken"
        PROVE  FALSE
    <3> DEFINE t == task'[b]
    <3>1. t \in Tasks /\ Bundle[t] = b
      BY <1>11, <2>2 DEF Placed
    <3>2. t \notin told
      BY <1>9, <2>2, <3>1
    <3>3. t \notin new
      BY <1>4, <2>2, <3>1, <3>2 DEF Wrote
    <3>4. task[b] = t /\ ~session[b]
      BY <1>7, <2>2, <3>3
    <3>5. fate[t] = "taken"
      BY <1>4, <2>2, <3>1, <3>2
    <3> QED BY <2>2, <3>4, <3>5 DEF Inv, TakenSeen
  <2> QED BY <2>1, <2>2 DEF TakenSeen, Started
<1>13. FreshKept'
  <2>1. SUFFICES ASSUME NEW t \in Tasks \ Resumes, fate'[t] = "launched"
                 PROVE  task'[Bundle[t]] = t /\ ~session'[Bundle[t]]
    BY DEF FreshKept, IsKept
  <2>2. CASE t \in launched
    BY <1>8, <2>1, <2>2 DEF Wrote
  <2>3. CASE t \notin launched
    <3>1. /\ fate[t] = "launched" /\ t \notin Replaced(new) /\ t \notin new
      <4>1. t \notin handed /\ t \notin told
        BY <1>4, <2>1
      <4>2. t \notin new
        BY <2>3, <4>1 DEF Wrote
      <4>3. fate[t] = "launched"
        BY <1>4, <2>1, <2>3, <4>1
      <4>4. t \notin Replaced(new)
        BY <1>4, <2>1, <2>3, <4>1, <4>3
      <4> QED BY <4>2, <4>3, <4>4
    <3>2. task[Bundle[t]] = t /\ ~session[Bundle[t]]
      BY <3>1 DEF Inv, FreshKept, IsKept
    <3>3. \A u \in new : Bundle[u] # Bundle[t]
      BY <1>1, <3>1, <3>2 DEF Replaced
    <3> QED BY <1>1, <3>2, <3>3 DEF Wrote
  <2> QED BY <2>2, <2>3
<1>14. NoneBack
  <2>1. SUFFICES ASSUME NEW t \in Tasks \ hidden, fate[t] = "taken" PROVE fate'[t] = "taken"
    BY DEF NoneBack
  <2>2. t \notin new
    BY <1>10, <2>1
  <2>3. \A b \in Stranded : task[b] # t
    BY <1>1, <1>3, <2>1 DEF Inv, TakenSeen
  <2> QED BY <1>4, <2>1, <2>2, <2>3 DEF Wrote
<1> QED BY <1>11, <1>12, <1>13, <1>14
LEMMA PassKeeps ==
  ASSUME Inv, NEW saved \in BOOLEAN, saved \/ faults < MaxFaults,
         NEW ready \in SUBSET Firsts(Considered), Pass(Considered, ready, saved)
  PROVE  Inv' /\ NoneBack
<1> USE ConstantsAssumption
<1> DEFINE Q == Considered
           handed == Handed(ready)
           launched == Launched(Q, ready)
           told == Told(ready)
           new == handed \cup launched \cup told
           opened == {Bundle[t] : t \in launched}
<1>1. Q \in Seq(Tasks) /\ IsInjective(Q)
  BY ConsideredHolds
<1>2. WriteTasks(new, handed, told)
  BY DEF Pass
<1>3. /\ Wrote(handed, launched, told, new)
      /\ task' \in [Bundles -> Tasks \cup {NoTask}]
      /\ session' \in [Bundles -> BOOLEAN] /\ lock' \in [Bundles -> BOOLEAN]
      /\ done' \in [Bundles -> BOOLEAN] /\ pause' \in [Bundles -> BOOLEAN]
  <2> HIDE DEF handed, launched, told, new
  <2>1. new = handed \cup launched \cup told
    BY DEF new
  <2>2. handed = Handed(ready) /\ launched = Launched(Considered, ready) /\ told = Told(ready)
    BY DEF handed, launched, told
  <2> QED BY <1>2, <2>1, <2>2, PassWrites
<1>4. /\ Fates(handed, launched, told, Replaced(new), saved)
      /\ terminal' = [b \in Bundles |-> IF b \in opened /\ terminal[b] = "none"
                                        THEN "spawning" ELSE terminal[b]]
      /\ closer' = [b \in Bundles |-> IF closer[b] = "asked" THEN "chosen" ELSE closer[b]]
      /\ losses' = losses
  BY DEF Pass, Fates, Replaced
<1>5. saved => /\ queue' = Without(Q, new)
               /\ launches' = [b \in Bundles |-> IF b \in Alive \cup opened THEN "fresh"
                                                 ELSE "none"]
               /\ relaunches' = [b \in Bundles |->
                    IF b \in Stranded THEN relaunches[b] + 1
                    ELSE IF task[b] # NoTask /\ session[b] THEN 0 ELSE relaunches[b]]
               /\ hidden' = hidden /\ faults' = faults
  BY DEF Pass
<1>6. ~saved => /\ hidden' = hidden \cup {t \in Replaced(new) \cap ToSet(queue) : fate[t] = "taken"}
                /\ faults' = faults + 1
                /\ queue' = queue /\ launches' = launches /\ relaunches' = relaunches
  BY DEF Pass, Replaced, state
<1> HIDE DEF handed, launched, told, new, opened, Q
<1>7. saved => /\ queue' \in Seq(Tasks) /\ IsInjective(queue')
               /\ ToSet(queue') = ToSet(Q) \ new
  BY <1>1, <1>5, WithoutKeeps
<1>8. fate' \in [Tasks -> {"new", "queued", "launched", "handed", "taken", "dropped"}]
  BY <1>4 DEF Fates, Inv, TypeOK
<1>9. TypeOK'
  <2>1. queue' \in Seq(Tasks) /\ IsInjective(queue')
    BY <1>6, <1>7 DEF Inv, TypeOK
  <2>2. launches' \in [Bundles -> {"none", "fresh", "old"}]
    BY <1>5, <1>6 DEF Inv, TypeOK
  <2>3. relaunches' \in [Bundles -> 0..MaxRelaunches]
    <3>1. \A b \in Stranded : relaunches[b] < MaxRelaunches
      BY DEF Stranded, Untaken
    <3>2. MaxRelaunches \in Nat /\ relaunches \in [Bundles -> 0..MaxRelaunches]
      BY DEF Inv, TypeOK
    <3>3. CASE saved
      <4>1. \A b \in Bundles :
              (IF b \in Stranded THEN relaunches[b] + 1
               ELSE IF task[b] # NoTask /\ session[b] THEN 0 ELSE relaunches[b])
                \in 0..MaxRelaunches
        BY <3>1, <3>2
      <4> QED BY <1>5, <3>3, <4>1
    <3> QED BY <1>6, <3>2, <3>3
  <2>4. terminal' \in [Bundles -> Terminals]
    BY <1>4 DEF Inv, TypeOK, Terminals
  <2>5. closer' \in [Bundles -> {"none", "asked", "chosen", "closing"}]
    BY <1>4 DEF Inv, TypeOK
  <2>6. hidden' \subseteq Tasks
    <3>1. ToSet(queue) \subseteq Tasks
      BY LenProperties DEF Inv, TypeOK, ToSet
    <3> QED BY <1>5, <1>6, <3>1 DEF Inv, TypeOK
  <2>7. losses' \in 0..MaxLosses /\ faults' \in 0..MaxFaults
    BY <1>4, <1>5, <1>6 DEF Inv, TypeOK
  <2> QED BY <1>3, <1>8, <2>1, <2>2, <2>3, <2>4, <2>5, <2>6, <2>7 DEF TypeOK
<1>10. \A b \in Bundles : terminal'[b] = terminal[b] \/ terminal'[b] = "spawning"
  BY <1>4
<1>11. Placed' /\ TakenSeen' /\ FreshKept' /\ NoneBack
  <2>1. saved => /\ ToSet(queue') = ToSet(Considered) \ new /\ hidden' = hidden
    BY <1>5, <1>7 DEF Q
  <2> QED BY <1>3, <1>4, <1>6, <1>8, <1>10, <2>1, PassKeepsTasks
<1> QED BY <1>9, <1>11 DEF Inv

-----------------------------------------------------------------------------
(* The other actions                                                        *)

(* A new task goes into the queue.                                          *)
LEMMA QueueAtKeeps ==
  ASSUME Inv, NEW t \in Tasks, fate[t] = "new", NEW place \in 1..(Len(queue) + 1),
         QueueAt(t, place), UNCHANGED <<launches, files, pause, terminal, bounds>>,
         closer' \in [Bundles -> {"none", "asked", "chosen", "closing"}]
  PROVE  Inv' /\ NoneBack
<1> USE ConstantsAssumption
<1>1. /\ queue' = InsertAt(queue, place, t)
      /\ fate' = [fate EXCEPT ![t] = "queued"]
      /\ relaunches' = [relaunches EXCEPT ![Bundle[t]] = 0]
      /\ UNCHANGED <<launches, task, session, lock, done, pause, terminal, hidden, losses, faults>>
  BY DEF QueueAt, files, bounds
<1>2. t \notin ToSet(queue)
  BY DEF Inv, Placed
<1>3. /\ queue' \in Seq(Tasks) /\ IsInjective(queue')
      /\ ToSet(queue') = ToSet(queue) \cup {t}
  BY <1>1, <1>2, InsertKeeps DEF Inv, TypeOK
<1>4. \A u \in Tasks : fate'[u] = IF u = t THEN "queued" ELSE fate[u]
  BY <1>1 DEF Inv, TypeOK
<1>5. TypeOK'
  BY <1>1, <1>3 DEF Inv, TypeOK
<1>6. Placed'
  BY <1>1, <1>3, <1>4 DEF Inv, TypeOK, Placed, InTerminal
<1>7. TakenSeen'
  BY <1>1, <1>3, <1>4 DEF Inv, TypeOK, TakenSeen, Started
<1>8. FreshKept'
  BY <1>1, <1>4 DEF Inv, FreshKept, IsKept
<1>9. NoneBack
  BY <1>4 DEF NoneBack
<1> QED BY <1>5, <1>6, <1>7, <1>8, <1>9 DEF Inv

(* A task leaves the queue.                                                 *)
LEMMA UnqueueKeeps ==
  ASSUME Inv, NEW t \in Tasks, Unqueue(t)
  PROVE  Inv' /\ NoneBack
<1> USE ConstantsAssumption
<1>1. /\ queue' = Without(queue, {t})
      /\ fate' = [fate EXCEPT ![t] = IF @ = "queued" THEN "dropped" ELSE @]
      /\ relaunches' = [relaunches EXCEPT ![Bundle[t]] = MaxRelaunches]
      /\ UNCHANGED <<launches, task, session, lock, done, pause, terminal, closer, hidden,
                     losses, faults>>
  BY DEF Unqueue, files, bounds
<1>2. /\ queue' \in Seq(Tasks) /\ IsInjective(queue')
      /\ ToSet(queue') = ToSet(queue) \ {t}
  <2> DEFINE gone == {t}
  <2>1. queue \in Seq(Tasks) /\ IsInjective(queue) /\ queue' = Without(queue, gone)
    BY <1>1 DEF Inv, TypeOK
  <2> HIDE DEF gone
  <2>2. /\ queue' \in Seq(Tasks) /\ IsInjective(queue')
        /\ ToSet(queue') = ToSet(queue) \ gone
    BY <2>1, WithoutKeeps
  <2> QED BY <2>2 DEF gone
<1>3. \A u \in Tasks : fate'[u] = IF u = t /\ fate[u] = "queued" THEN "dropped" ELSE fate[u]
  BY <1>1 DEF Inv, TypeOK
<1>4. TypeOK'
  BY <1>1, <1>2 DEF Inv, TypeOK
<1>5. Placed'
  BY <1>1, <1>2, <1>3 DEF Inv, TypeOK, Placed, InTerminal
<1>6. TakenSeen'
  <2>1. \A u \in Tasks : fate'[u] = "taken" => fate[u] = "taken"
    BY <1>3
  <2>2. \A c \in Bundles : task[c] # NoTask => task[c] \in Tasks
    BY DEF Inv, TypeOK
  <2> QED BY <1>1, <1>2, <2>1, <2>2 DEF Inv, TakenSeen, Started
<1>7. FreshKept'
  BY <1>1, <1>3 DEF Inv, FreshKept, IsKept
<1>8. NoneBack
  BY <1>3 DEF NoneBack
<1> QED BY <1>4, <1>5, <1>6, <1>7, <1>8 DEF Inv

(* A terminal takes the task of its bundle, in its session.                 *)
LEMMA TerminalTakes ==
  ASSUME Inv, NEW b \in Bundles, TerminalStarts(b) \/ TakeTask(b)
  PROVE  Inv' /\ NoneBack
<1> USE ConstantsAssumption
<1>1. /\ session' = [session EXCEPT ![b] = TRUE]
      /\ fate' = [fate EXCEPT ![task[b]] = "taken"]
      /\ terminal' \in [Bundles -> Terminals] /\ lock' \in [Bundles -> BOOLEAN]
      /\ UNCHANGED <<queue, launches, relaunches, task, done, pause, closer, hidden,
                     losses, faults>>
      /\ \A c \in Bundles \ {b} : terminal'[c] = terminal[c]
  <2>1. CASE TerminalStarts(b)
    BY <2>1 DEF TerminalStarts, To, Inv, TypeOK, Terminals, state, bounds
  <2>2. CASE TakeTask(b)
    <3>1. session[b]
      BY <2>2 DEF TakeTask, Inv, Placed, InTerminal
    <3>2. session' = [session EXCEPT ![b] = TRUE]
      BY <2>2, <3>1 DEF TakeTask, Inv, TypeOK
    <3> QED BY <2>2, <3>2 DEF TakeTask, To, Inv, TypeOK, Terminals, state, bounds
  <2> QED BY <2>1, <2>2
<1>2. \A u \in Tasks : fate'[u] = IF u = task[b] THEN "taken" ELSE fate[u]
  BY <1>1 DEF Inv, TypeOK
<1>3. \A c \in Bundles : session'[c] <=> session[c] \/ c = b
  BY <1>1 DEF Inv, TypeOK
<1>4. TypeOK'
  BY <1>1 DEF Inv, TypeOK
<1>5. Placed'
  BY <1>1, <1>2, <1>3 DEF Inv, TypeOK, Placed, InTerminal
<1>6. TakenSeen'
  BY <1>1, <1>2, <1>3 DEF Inv, TypeOK, Placed, TakenSeen, Started
<1>7. FreshKept'
  BY <1>1, <1>2, <1>3 DEF Inv, TypeOK, FreshKept, IsKept
<1>8. NoneBack
  BY <1>2 DEF NoneBack
<1> QED BY <1>4, <1>5, <1>6, <1>7, <1>8 DEF Inv

(* A step that leaves the queue, the tasks and their fate alone, and begins *)
(* nothing in a terminal but after the session.                             *)
LEMMA QuietKeeps ==
  ASSUME Inv, TypeOK', UNCHANGED <<queue, task, session, fate, hidden>>,
         \A b \in Bundles : InTerminal(b)' => InTerminal(b)
  PROVE  Inv' /\ NoneBack
<1>1. Placed'
  BY DEF Inv, Placed
<1>2. TakenSeen'
  BY DEF Inv, TakenSeen, Started
<1>3. FreshKept'
  BY DEF Inv, FreshKept, IsKept
<1> QED BY <1>1, <1>2, <1>3 DEF Inv, NoneBack
LEMMA TerminalSteps ==
  ASSUME Inv, NEW b \in Bundles,
         \/ SpawnOpens(b) \/ RunBegins(b) \/ UpFails(b) \/ TurnEnds(b) \/ TurnBegins(b)
         \/ TerminalLost(b) \/ LaunchAges(b)
  PROVE  Inv' /\ NoneBack
<1> USE ConstantsAssumption
<1> USE DEF state, files, bounds, To
<1>1. CASE SpawnOpens(b)
  <2>1. TypeOK'
    BY <1>1 DEF SpawnOpens, Inv, TypeOK, Terminals
  <2>2. \A c \in Bundles : InTerminal(c)' => InTerminal(c)
    BY <1>1 DEF SpawnOpens, Inv, TypeOK, InTerminal
  <2> QED BY <1>1, <2>1, <2>2, QuietKeeps DEF SpawnOpens
<1>2. CASE RunBegins(b)
  <2>1. TypeOK'
    BY <1>2 DEF RunBegins, Inv, TypeOK, Terminals
  <2>2. \A c \in Bundles : InTerminal(c)' => InTerminal(c)
    BY <1>2 DEF RunBegins, Inv, TypeOK, InTerminal
  <2> QED BY <1>2, <2>1, <2>2, QuietKeeps DEF RunBegins
<1>3. CASE UpFails(b)
  <2>1. TypeOK'
    BY <1>3 DEF UpFails, Inv, TypeOK, Terminals
  <2>2. \A c \in Bundles : InTerminal(c)' => InTerminal(c)
    BY <1>3 DEF UpFails, Inv, TypeOK, InTerminal
  <2> QED BY <1>3, <2>1, <2>2, QuietKeeps DEF UpFails
<1>4. CASE TurnEnds(b)
  <2>1. TypeOK'
    <3>1. PICK verdict \in BOOLEAN :
            done' = [done EXCEPT ![b] = @ \/ (verdict /\ lock[b])]
      BY <1>4 DEF TurnEnds
    <3>2. done' \in [Bundles -> BOOLEAN]
      BY <3>1 DEF Inv, TypeOK
    <3> QED BY <1>4, <3>2 DEF TurnEnds, Inv, TypeOK, Terminals
  <2>2. \A c \in Bundles : InTerminal(c)' => InTerminal(c)
    BY <1>4 DEF TurnEnds, Inv, TypeOK, InTerminal
  <2> QED BY <1>4, <2>1, <2>2, QuietKeeps DEF TurnEnds
<1>5. CASE TurnBegins(b)
  <2>1. TypeOK'
    BY <1>5 DEF TurnBegins, Inv, TypeOK, Terminals
  <2>2. \A c \in Bundles : InTerminal(c)' => InTerminal(c)
    BY <1>5 DEF TurnBegins, Inv, TypeOK, InTerminal
  <2> QED BY <1>5, <2>1, <2>2, QuietKeeps DEF TurnBegins
<1>6. CASE TerminalLost(b)
  <2>1. TypeOK'
    BY <1>6 DEF TerminalLost, Inv, TypeOK, Terminals
  <2>2. \A c \in Bundles : InTerminal(c)' => InTerminal(c)
    BY <1>6 DEF TerminalLost, Inv, TypeOK, InTerminal
  <2> QED BY <1>6, <2>1, <2>2, QuietKeeps DEF TerminalLost
<1>7. CASE LaunchAges(b)
  <2>1. TypeOK'
    BY <1>7 DEF LaunchAges, Inv, TypeOK
  <2>2. \A c \in Bundles : InTerminal(c)' => InTerminal(c)
    BY <1>7 DEF LaunchAges, InTerminal
  <2> QED BY <1>7, <2>1, <2>2, QuietKeeps DEF LaunchAges
<1> QED BY <1>1, <1>2, <1>3, <1>4, <1>5, <1>6, <1>7

LEMMA DaemonSteps ==
  ASSUME Inv,
         \/ Restart
         \/ \E b \in Bundles : FreeDone(b) \/ CloseWindow(b) \/ Pauses(b) \/ Closes(b)
  PROVE  Inv' /\ NoneBack
<1> USE ConstantsAssumption
<1> USE DEF state, files, bounds, To
<1>1. CASE Restart
  <2>1. TypeOK'
    BY <1>1 DEF Restart, Inv, TypeOK, Terminals
  <2>2. \A c \in Bundles : InTerminal(c)' => InTerminal(c)
    BY <1>1 DEF Restart, InTerminal
  <2> QED BY <1>1, <2>1, <2>2, QuietKeeps DEF Restart
<1>2. ASSUME NEW b \in Bundles, FreeDone(b) \/ CloseWindow(b) \/ Pauses(b)
      PROVE  Inv' /\ NoneBack
  <2>1. TypeOK'
    BY <1>2 DEF FreeDone, CloseWindow, Pauses, Inv, TypeOK
  <2>2. \A c \in Bundles : InTerminal(c)' => InTerminal(c)
    BY <1>2 DEF FreeDone, CloseWindow, Pauses, InTerminal
  <2> QED BY <1>2, <2>1, <2>2, QuietKeeps DEF FreeDone, CloseWindow, Pauses
<1>3. ASSUME NEW b \in Bundles, Closes(b)
      PROVE  Inv' /\ NoneBack
  <2>1. TypeOK'
    BY <1>3 DEF Closes, Unpause, Inv, TypeOK, Terminals
  <2>2. \A c \in Bundles : InTerminal(c)' => InTerminal(c)
    BY <1>3 DEF Closes, Inv, TypeOK, InTerminal
  <2> QED BY <1>3, <2>1, <2>2, QuietKeeps DEF Closes
<1> QED BY <1>1, <1>2, <1>3

LEMMA InvNext == Inv /\ [Next]_vars => Inv' /\ NoneBack
<1> USE ConstantsAssumption
<1> SUFFICES ASSUME Inv, [Next]_vars PROVE Inv' /\ NoneBack
  OBVIOUS
<1>1. ASSUME NEW t \in Tasks, Enqueue(t)
      PROVE  Inv' /\ NoneBack
  <2>1. PICK place \in 1..(Len(queue) + 1) : QueueAt(t, place)
    BY <1>1 DEF Enqueue
  <2> QED BY <1>1, <2>1, QueueAtKeeps DEF Enqueue, Inv, TypeOK
<1>2. ASSUME NEW t \in Tasks, Requeue(t) \/ RequeueFailed(t)
      PROVE  Inv' /\ NoneBack
  <2>1. Requeue(t)
    BY <1>2 DEF RequeueFailed
  <2>2. Len(queue) \in Nat
    BY LenProperties DEF Inv, TypeOK
  <2>3. Len(queue) + 1 \in 1..(Len(queue) + 1)
    BY <2>2
  <2>4. closer' \in [Bundles -> {"none", "asked", "chosen", "closing"}]
    BY <2>1 DEF Requeue, Inv, TypeOK
  <2> QED BY <2>1, <2>3, <2>4, QueueAtKeeps DEF Requeue
<1>3. CASE PassEnds
  <2>1. PICK ready \in SUBSET Firsts(Considered) : Pass(Considered, ready, TRUE)
    BY <1>3 DEF PassEnds
  <2> QED BY <2>1, PassKeeps
<1>4. CASE PassDies
  <2>1. faults < MaxFaults
        /\ \E ready \in SUBSET Firsts(Considered) : Pass(Considered, ready, FALSE)
    BY <1>4 DEF PassDies
  <2>2. PICK ready \in SUBSET Firsts(Considered) : Pass(Considered, ready, FALSE)
    BY <2>1
  <2> QED BY <2>1, <2>2, PassKeeps
<1>5. CASE Restart
  BY <1>5, DaemonSteps
<1>6. ASSUME NEW b \in Bundles,
             \/ SpawnOpens(b) \/ RunBegins(b) \/ UpFails(b) \/ TurnEnds(b) \/ TurnBegins(b)
             \/ TerminalLost(b) \/ LaunchAges(b)
      PROVE  Inv' /\ NoneBack
  BY <1>6, TerminalSteps
<1>7. ASSUME NEW b \in Bundles, TerminalStarts(b) \/ TakeTask(b)
      PROVE  Inv' /\ NoneBack
  BY <1>7, TerminalTakes
<1>8. ASSUME NEW b \in Bundles, FreeDone(b) \/ CloseWindow(b) \/ Pauses(b) \/ Closes(b)
      PROVE  Inv' /\ NoneBack
  BY <1>8, DaemonSteps
<1>9. CASE UNCHANGED vars
  <2>1. TypeOK'
    BY <1>9 DEF vars, state, files, bounds, Inv, TypeOK
  <2>2. \A c \in Bundles : InTerminal(c)' => InTerminal(c)
    BY <1>9 DEF vars, InTerminal
  <2> QED BY <1>9, <2>1, <2>2, QuietKeeps DEF vars, state, files, bounds
<1>10. ASSUME NEW t \in Tasks, Unqueue(t)
       PROVE  Inv' /\ NoneBack
  BY <1>10, UnqueueKeeps
<1> QED BY <1>1, <1>2, <1>3, <1>4, <1>5, <1>6, <1>7, <1>8, <1>9, <1>10 DEF Next

-----------------------------------------------------------------------------
(* Theorems                                                                 *)

LEMMA InvAlways == Spec => []Inv
<1>1. Inv /\ [Next]_vars => Inv'
  BY InvNext
<1> QED BY <1>1, InvInit, PTL DEF Spec

(* The queue holds a task once, whatever passes die: launch_queued puts a   *)
(* stranded task back only when its bundle has nothing queued, and          *)
(* MAX_RELAUNCHES times at most.                                            *)
THEOREM QueueTyped == Spec => []TypeOK
<1>1. Inv => TypeOK
  BY DEF Inv
<1> QED BY <1>1, InvAlways, PTL

(* A new task that left the queue for a terminal stays in its folder with   *)
(* no session, where a pass sees that no terminal took it, whatever dies in *)
(* between.                                                                 *)
THEOREM FreshStays == Spec => []FreshKept
<1>1. Inv => FreshKept
  BY DEF Inv
<1> QED BY <1>1, InvAlways, PTL

(* A task an agent took goes back to no queue and no terminal, but one that *)
(* two passes that died hid.                                                *)
THEOREM TakenOnce == Spec => RunsOnce
<1>1. Inv /\ [Next]_vars =>
        [\A t \in Tasks \ hidden : fate[t] = "taken" => fate'[t] = "taken"]_vars
  BY InvNext DEF NoneBack
<1> QED BY <1>1, InvAlways, PTL DEF Spec, RunsOnce
=============================================================================
