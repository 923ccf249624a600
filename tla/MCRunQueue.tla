----------------------------- MODULE MCRunQueue -----------------------------
(* Instances of the run queue for the model checker.                        *)
EXTENDS RunQueue, TLC

CONSTANTS c1, c2, c3, c4, b1, b2, k1, k2, k3, core1, core2, core3

TwoCores   == {core1, core2}
ThreeCores == {core1, core2, core3}
Alike      == Permutations(Cores)

(* Crash: c1 and c2, a shell, ask for the same command of one bundle, and   *)
(* c3 takes two cores, on a host with memory for c1 and c2, or c3 alone.    *)
CrashClients == {c1, c2, c3}
CrashKind    == c1 :> "odoo" @@ c2 :> "odoo" @@ c3 :> "hoot"
CrashWorkers == c1 :> 1 @@ c2 :> 1 @@ c3 :> 2
CrashBundle  == c1 :> b1 @@ c2 :> b1 @@ c3 :> b2
CrashKey     == c1 :> k1 @@ c2 :> k1 @@ c3 :> k2
CrashOuter   == [c \in CrashClients |-> NoClient]
CrashShell   == [c \in CrashClients |-> c = c2]

(* Mixed: the command of c1 starts c2; c3, of another bundle, takes two     *)
(* cores and c4 is a server.                                                *)
MixedClients == {c1, c2, c3, c4}
MixedKind    == c1 :> "odoo" @@ c2 :> "odoo" @@ c3 :> "hoot" @@ c4 :> "server"
MixedWorkers == c1 :> 1 @@ c2 :> 1 @@ c3 :> 2 @@ c4 :> 1
MixedBundle  == c1 :> b1 @@ c2 :> b1 @@ c3 :> b2 @@ c4 :> b1
MixedKey     == c1 :> k1 @@ c2 :> k1 @@ c3 :> k2 @@ c4 :> k3
MixedOuter   == [c \in MixedClients |-> IF c = c2 THEN c1 ELSE NoClient]
MixedShell   == [c \in MixedClients |-> FALSE]
=============================================================================
