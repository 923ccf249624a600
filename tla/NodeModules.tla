---------------------------- MODULE NodeModules ----------------------------
(***************************************************************************)
(* The store of node_modules of bundle-ctl/daemon.py: one tree for each    *)
(* package.json of the web tooling, built by npm, linked by the bundles    *)
(* on that package.json (devcontainer/initialize.py, scripts/utils.py).    *)
(* A look of the daemon builds the tree of a base whose head moved, the    *)
(* host builds at once, a bundle asks and Seb says yes to a card.          *)
(*                                                                         *)
(* A head is the number of its commit; a package.json is a value.          *)
(***************************************************************************)
EXTENDS Integers, FiniteSets

CONSTANTS
    Bases, Packages, Bundles, Nothing,
    First,      \* the package.json of each base at first
    MaxCommits, \* bound: the commits to the bases on GitHub
    MaxFaults   \* bound: restarts, npm that fail, GitHub that does not answer, refs moved here

VARIABLES
    github,   \* the head of each base on GitHub and its package.json
    ref,      \* the same in the shared .git of the host
    heads,    \* package_heads: the head at the last look
    store,    \* the trees of the store: how much of each is there
    jobs,     \* the packages whose job waits for work_lock
    npm,      \* the package npm installs in the folder of its own
    card,     \* the package.json on the card of each base
    own,      \* the package.json each bundle has checked out
    link,     \* what its node_modules links to
    commits, faults, failed

vars == <<github, ref, heads, store, jobs, npm, card, own, link, commits, faults, failed>>

Whole(p) == store[p] = "whole"

Init ==
    /\ github = [b \in Bases |-> [head |-> 0, package |-> First]]
    /\ ref = github
    /\ heads = [b \in Bases |-> Nothing]
    /\ store = [p \in Packages |-> "none"]
    /\ jobs = {} /\ npm = Nothing
    /\ card = [b \in Bases |-> Nothing]
    /\ own = [u \in Bundles |-> First] /\ link = [u \in Bundles |-> Nothing]
    /\ commits = 0 /\ faults = 0 /\ failed = {}

Fault == faults < MaxFaults /\ faults' = faults + 1

-----------------------------------------------------------------------------
(* External: the bases move on GitHub, a fetch of any bundle brings them   *)
(* here, and a bundle may move the refs of the shared .git itself.         *)
Commit(b, p) ==
    /\ commits < MaxCommits /\ commits' = commits + 1
    /\ github' = [github EXCEPT ![b] = [head |-> commits + 1, package |-> p]]
    /\ UNCHANGED <<ref, heads, store, jobs, npm, card, own, link, faults, failed>>

Fetch(b) ==
    /\ ref[b] # github[b] /\ ref' = [ref EXCEPT ![b] = github[b]]
    /\ UNCHANGED <<github, heads, store, jobs, npm, card, own, link, commits, faults, failed>>

RefMoves(b, p) ==
    /\ Fault /\ ref' = [ref EXCEPT ![b] = [head |-> 0 - faults - 1, package |-> p]]
    /\ UNCHANGED <<github, heads, store, jobs, npm, card, own, link, commits, failed>>

-----------------------------------------------------------------------------
(* build_node_modules: the head is a sign, the package.json comes from     *)
(* GitHub; with no answer the next look asks again.                        *)
\* Mutant of Kept: the head counts as seen before GitHub answered.
KeptFirst(b, answers) == ref[b].head
Kept(b, answers) == IF answers THEN ref[b].head ELSE heads[b]

\* Mutant of ReadGithub: the package.json of the shared .git.
ReadRef(b) == ref[b].package
ReadGithub(b) == github[b].package

Look(b) ==
    /\ heads[b] # ref[b].head
    /\ \E answers \in BOOLEAN :
        /\ IF answers THEN UNCHANGED faults ELSE Fault
        /\ heads' = [heads EXCEPT ![b] = Kept(b, answers)]
        /\ jobs' = IF answers /\ ~Whole(ReadGithub(b)) THEN jobs \union {ReadGithub(b)} ELSE jobs
    /\ UNCHANGED <<github, ref, store, npm, card, own, link, commits, failed>>

(* node_modules: at once for the host, on a card for a bundle of the base. *)
HostAsks(b) ==
    /\ ~Whole(ref[b].package)
    /\ jobs' = jobs \union {ref[b].package}
    /\ UNCHANGED <<github, ref, heads, store, npm, card, own, link, commits, faults, failed>>

BundleAsks(b) ==
    /\ ~Whole(ref[b].package)
    /\ card' = [card EXCEPT ![b] = ref[b].package]
    /\ UNCHANGED <<github, ref, heads, store, jobs, npm, own, link, commits, faults, failed>>

(* The yes builds the package.json of the card, and the card goes.         *)
SendNodeModules(b) ==
    /\ card[b] # Nothing
    /\ jobs' = jobs \union {card[b]} /\ card' = [card EXCEPT ![b] = Nothing]
    /\ UNCHANGED <<github, ref, heads, store, npm, own, link, commits, faults, failed>>

-----------------------------------------------------------------------------
(* refresh_node_modules, one job at a time: npm works in a folder of its   *)
(* own, which goes in the store once whole, unless a tree came first.      *)
JobBegins ==
    /\ npm = Nothing
    /\ \E p \in jobs : jobs' = jobs \ {p} /\ npm' = IF Whole(p) THEN Nothing ELSE p
    /\ UNCHANGED <<github, ref, heads, store, card, own, link, commits, faults, failed>>

\* Mutant of Installing: npm works in the folder of the store.
InstallsThere(p) == [store EXCEPT ![p] = "part"]
Installing(p) == store

NpmGoesOn ==
    /\ npm # Nothing /\ store' = Installing(npm) /\ store' # store
    /\ UNCHANGED <<github, ref, heads, jobs, npm, card, own, link, commits, faults, failed>>

NpmEnds ==
    /\ npm # Nothing
    /\ store' = [store EXCEPT ![npm] = "whole"] /\ npm' = Nothing
    /\ UNCHANGED <<github, ref, heads, jobs, card, own, link, commits, faults, failed>>

NpmFails ==
    /\ npm # Nothing /\ Fault /\ failed' = failed \union {npm} /\ npm' = Nothing
    /\ UNCHANGED <<github, ref, heads, store, jobs, card, own, link, commits>>

(* A restart ends npm and forgets the jobs and the heads; the folder npm   *)
(* worked in stays beside the store, under a name of its own.              *)
Restart ==
    /\ Fault /\ jobs' = {} /\ npm' = Nothing /\ heads' = [b \in Bases |-> Nothing]
    /\ UNCHANGED <<github, ref, store, card, own, link, commits, failed>>

-----------------------------------------------------------------------------
(* link_node_modules before each start of a container: the link follows    *)
(* the package.json the bundle has, whether the store has its tree or not. *)
Checkout(u, p) ==
    /\ own[u] # p /\ own' = [own EXCEPT ![u] = p]
    /\ UNCHANGED <<github, ref, heads, store, jobs, npm, card, link, commits, faults, failed>>

LinkNodeModules(u) ==
    /\ link[u] # own[u] /\ link' = [link EXCEPT ![u] = own[u]]
    /\ UNCHANGED <<github, ref, heads, store, jobs, npm, card, own, commits, faults, failed>>

Next ==
    \/ \E b \in Bases, p \in Packages : Commit(b, p) \/ RefMoves(b, p)
    \/ \E b \in Bases : Fetch(b) \/ Look(b) \/ HostAsks(b) \/ BundleAsks(b) \/ SendNodeModules(b)
    \/ JobBegins \/ NpmGoesOn \/ NpmEnds \/ NpmFails \/ Restart
    \/ \E u \in Bundles, p \in Packages : Checkout(u, p)
    \/ \E u \in Bundles : LinkNodeModules(u)

(* The daemon looks every REVIEW_CHECK, some bundle fetches its base, a    *)
(* job begins and npm ends; nobody need ask nor say yes.                   *)
Fairness ==
    /\ \A b \in Bases : WF_vars(Look(b)) /\ WF_vars(Fetch(b))
    /\ WF_vars(JobBegins) /\ WF_vars(NpmEnds)

Spec == Init /\ [][Next]_vars /\ Fairness

-----------------------------------------------------------------------------
(* What a bundle loads through its link is a whole tree or nothing, through *)
(* npm that fails and restarts ("A tree in the store never changes").       *)
LinkedIsWhole == \A u \in Bundles : link[u] # Nothing => store[link[u]] # "part"

(* Each tree of the store, and each that npm installs, is of a package.json *)
(* that GitHub had on a base, that the host asked, or that was on a card    *)
(* Seb said yes to: a ref moved in the shared .git builds nothing by itself. *)
Vouched == [][\A p \in jobs' \ jobs :
    \/ \E b \in Bases : github[b].package = p
    \/ \E b \in Bases : card[b] = p \/ HostAsks(b)]_vars

(* What is built and linked comes from the package.json that was vouched for. *)
StoreSafe == []LinkedIsWhole /\ Vouched

(* The tree of the package.json that a base stays at comes by itself,       *)
(* whatever the refs here did and whenever GitHub or the daemon was down,   *)
(* unless an npm of it failed.                                              *)
TreeComes ==
    \A b \in Bases, p \in Packages :
        <>[](github[b].package = p) => []<>(Whole(p) \/ p \in failed)
=============================================================================
