------------------------------ MODULE CoreLease ------------------------------
(***************************************************************************)
(* What the run queue promises of the cores, and nothing of how: a client  *)
(* is granted cores no other client holds, and keeps exactly those until   *)
(* it gives them back, by its end or after the hour it holds them.         *)
(***************************************************************************)
CONSTANTS Clients, Cores
VARIABLE lease

Init == lease = [c \in Clients |-> {}]

Grant(c, S) ==
  /\ lease[c] = {} /\ S # {}
  /\ \A d \in Clients : lease[d] \cap S = {}
  /\ lease' = [lease EXCEPT ![c] = S]

GiveBack(c) ==
  /\ lease[c] # {}
  /\ lease' = [lease EXCEPT ![c] = {}]

Next == \E c \in Clients : GiveBack(c) \/ \E S \in SUBSET Cores : Grant(c, S)

Spec == Init /\ [][Next]_lease
=============================================================================
