----------------------------- MODULE WorkerRelay -----------------------------
(***************************************************************************)
(* The streams of one bundle to the workers (Workers.relay and             *)
(* Workers.stream, bundle-ctl/workers.py).  A `follow` runs its ssh in a   *)
(* scope of its own, which a restart of the daemon leaves running; the     *)
(* other verbs run theirs under the daemon, which takes them along.  Each  *)
(* count is of one bundle, so the module has one bundle; which worker a    *)
(* stream goes to decides nothing here.                                    *)
(***************************************************************************)
EXTENDS Integers, FiniteSets, FiniteSetsExt

CONSTANTS
  Requests,     (* connections of the bundle to POST /worker                *)
  MaxFollows,   (* MAX_FOLLOWS                                              *)
  MaxRelays,    (* MAX_RELAYS                                               *)
  MaxRestarts   (* bound: restarts of the daemon                            *)

VARIABLES
  follow,    (* a follow: "opening" until its ssh runs, "closing" once it ended *)
  relay,     (* a stream of another verb: "none", "open"                    *)
  handled,   (* the requests a thread of this daemon serves                 *)
  follows,   (* Workers.follows of the bundle                               *)
  relays,    (* Workers.relays of the bundle                                *)
  restarts

vars == <<follow, relay, handled, follows, relays, restarts>>

Idle(r) == follow[r] = "none" /\ relay[r] = "none"

(* count_follows: the processes of the host that are an ssh by now, and not *)
(* a systemd-run that asks for its scope.                                   *)
CountFollows == Cardinality({r \in Requests : follow[r] = "running"})

(* Mutant of CountBoth: the ssh alone, as they outlive everything.          *)
CountSeen == CountFollows
CountBoth == Max({follows, CountFollows})

CanFollow == CountBoth < MaxFollows
CanRelay  == relays < MaxRelays

-----------------------------------------------------------------------------
Init ==
  /\ follow = [r \in Requests |-> "none"]
  /\ relay = [r \in Requests |-> "none"]
  /\ handled = {}
  /\ follows = 0 /\ relays = 0 /\ restarts = 0

(* relay of a follow, counted under the lock; Refused changes nothing.      *)
Follow(r) ==
  /\ Idle(r) /\ CanFollow
  /\ follows' = follows + 1
  /\ follow' = [follow EXCEPT ![r] = "opening"]
  /\ handled' = handled \cup {r}
  /\ UNCHANGED <<relay, relays, restarts>>

(* systemd-run has its scope and becomes the ssh.                           *)
SshStarts(r) ==
  /\ follow[r] = "opening"
  /\ follow' = [follow EXCEPT ![r] = "running"]
  /\ UNCHANGED <<relay, handled, follows, relays, restarts>>

(* The ssh, or the systemd-run before it, ends: on its job, on an error, on *)
(* a client that left.  With no handler nothing else is left of it.         *)
SshEnds(r) ==
  /\ follow[r] \in {"opening", "running"}
  /\ follow' = [follow EXCEPT ![r] = IF r \in handled THEN "closing" ELSE "none"]
  /\ UNCHANGED <<relay, handled, follows, relays, restarts>>

(* Mutant of Uncount: the count of a follow is not given back.              *)
UncountNever == follows
Uncount == follows - 1

(* The `finally` of relay.                                                  *)
FollowEnds(r) ==
  /\ follow[r] = "closing"
  /\ follows' = Uncount
  /\ follow' = [follow EXCEPT ![r] = "none"]
  /\ handled' = handled \ {r}
  /\ UNCHANGED <<relay, relays, restarts>>

Relay(r) ==
  /\ Idle(r) /\ CanRelay
  /\ relays' = relays + 1
  /\ relay' = [relay EXCEPT ![r] = "open"]
  /\ handled' = handled \cup {r}
  /\ UNCHANGED <<follow, follows, restarts>>

(* The verb is done, its worker gone, its upload too long or idle for       *)
(* UPLOAD_IDLE: the same `finally`.                                         *)
RelayEnds(r) ==
  /\ relay[r] = "open"
  /\ relays' = relays - 1
  /\ relay' = [relay EXCEPT ![r] = "none"]
  /\ handled' = handled \ {r}
  /\ UNCHANGED <<follow, follows, restarts>>

(* The daemon restarts: its threads and counts go, and the ssh of its own   *)
(* control group; a follow that asks for its scope may be in it already.    *)
Restart ==
  /\ restarts < MaxRestarts
  /\ restarts' = restarts + 1
  /\ follows' = 0 /\ relays' = 0 /\ handled' = {}
  /\ relay' = [r \in Requests |-> "none"]
  /\ \E scoped \in SUBSET {r \in Requests : follow[r] = "opening"} :
       follow' = [r \in Requests |->
                    IF follow[r] = "running" \/ r \in scoped THEN follow[r] ELSE "none"]

Next ==
  \/ \E r \in Requests :
       \/ Follow(r) \/ SshStarts(r) \/ SshEnds(r) \/ FollowEnds(r)
       \/ Relay(r) \/ RelayEnds(r)
  \/ Restart

Spec == Init /\ [][Next]_vars

-----------------------------------------------------------------------------
(* The follows that take a session of the connection.                       *)
Following == {r \in Requests : follow[r] \in {"opening", "running"}}

(* The follows one daemon serves stay within MAX_FOLLOWS (Workers.relay),   *)
(* though opening an ssh takes long enough for the next request to come     *)
(* before its process shows.                                                *)
OwnFollowLimit == Cardinality(Following \cap handled) <= MaxFollows

(* Nothing is left counted: a bundle is refused a stream only while as many *)
(* of the same kind are open or closing, restarts included.                 *)
RefusedOnlyWhenFull ==
  /\ ~CanFollow => Cardinality({r \in Requests : follow[r] # "none"}) >= MaxFollows
  /\ ~CanRelay => Cardinality({r \in Requests : relay[r] # "none"}) >= MaxRelays

(* The counts say neither too little nor too much (Workers.relay).          *)
FollowsCounted == OwnFollowLimit /\ RefusedOnlyWhenFull
=============================================================================
