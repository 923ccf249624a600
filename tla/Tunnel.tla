------------------------------- MODULE Tunnel -------------------------------
(***************************************************************************)
(* What an agent on a worker has here: its two records, its stand-in and   *)
(* its tunnel (remote_agent.py start, keep, finish, drop_start), and the   *)
(* agent that no bundle here has any more (daemon.py ask_orphans).         *)
(* RemoteAgent has the tasks, the work tree and the moves; here each call  *)
(* is split where another thread can come between its steps.  One bundle   *)
(* and one worker: everything here is named after the bundle.              *)
(*                                                                         *)
(* The threads: the pass of the daemon (keep_remote_agents, then           *)
(* ask_orphans), a start, a move back, and the yes to a card.              *)
(***************************************************************************)
EXTENDS Integers, FiniteSets

CONSTANTS
    MaxJobs,   \* bound: the jobs started
    MaxDrops,  \* bound: how often the link drops
    MaxFaults  \* bound: restarts, folders removed, starts that fail

VARIABLES
    folder,    \* the folder of the bundle is there
    json,      \* .agent/remote.json: a job, 0 for none
    record,    \* the copy of the daemon, state/remote/BUNDLE.json
    starting,  \* .agent/remote-starting
    standIn,   \* the stand-in runs
    ended,     \* /run/standin/ended: the job whose end came here
    tunnel,    \* the unit of the tunnel is active
    recent,    \* a tunnel was tried in the last PAIR_RETRY
    link,      \* the worker is reached
    jobs,      \* the jobs that run on the worker
    made,      \* how many jobs were started
    pass, start, mover, yes, \* the threads: where each is, on which job
    lock,      \* finishing[bundle]: who has it
    orphan,    \* orphans[worker, bundle]
    card,      \* the job on the card, 0 for none
    drops, faults

files == <<json, record, starting, ended>>
here == <<standIn, tunnel>>
threads == <<pass, start, mover, yes, lock>>
bounds == <<made, drops, faults>>
asks == <<orphan, card>>
vars == <<folder, files, here, recent, link, jobs, threads, asks, bounds>>

Idle == [at |-> "idle", job |-> 0]
At(place, job) == [at |-> place, job |-> job]

Init ==
    /\ folder = TRUE /\ json = 0 /\ record = 0 /\ starting = FALSE
    /\ standIn = FALSE /\ ended = 0 /\ tunnel = FALSE /\ recent = FALSE /\ link = TRUE
    /\ jobs = {} /\ made = 0
    /\ pass = Idle /\ start = Idle /\ mover = Idle /\ yes = Idle /\ lock = "free"
    /\ orphan = "no" /\ card = 0 /\ drops = 0 /\ faults = 0

(* read_remote: the record, when the remote.json of the bundle agrees.     *)
Remote == IF folder /\ record = json THEN record ELSE 0
IsRemote == Remote # 0 \/ (folder /\ starting)

-----------------------------------------------------------------------------
(* start, in the order of its writes.                                      *)
StartBegins ==
    /\ start = Idle /\ folder /\ ~IsRemote /\ mover = Idle /\ made < MaxJobs
    /\ starting' = TRUE /\ start' = At("standIn", 0)
    /\ UNCHANGED <<folder, json, record, ended, here, recent, link, jobs, pass, mover, yes, lock, asks, bounds>>

StartStandIn ==
    /\ start.at = "standIn" /\ standIn' = TRUE /\ start' = At("send", 0)
    /\ UNCHANGED <<folder, files, tunnel, recent, link, jobs, pass, mover, yes, lock, asks, bounds>>

(* External: the worker has one tree of a bundle, and takes one agent of   *)
(* it at a time.                                                           *)
Takes == link /\ standIn /\ jobs = {}

StartSends ==
    /\ start.at = "send" /\ Takes
    /\ made' = made + 1 /\ jobs' = jobs \union {made + 1}
    /\ start' = At("write", made + 1)
    /\ UNCHANGED <<folder, files, here, recent, link, pass, mover, yes, lock, asks, drops, faults>>

(* A start that raises removes the stand-in by its name, and its file.     *)
StartFails ==
    /\ start.at = "send"
    /\ Takes => faults < MaxFaults
    /\ faults' = IF Takes THEN faults + 1 ELSE faults
    /\ starting' = FALSE /\ standIn' = FALSE /\ tunnel' = FALSE /\ start' = Idle
    /\ UNCHANGED <<folder, json, record, ended, recent, link, jobs, pass, mover, yes, lock, asks, made, drops>>

(* A start takes far longer than keep between its read and its writes.     *)
StartWrites ==
    /\ start.at = "write" /\ pass.at \notin {"look", "write"}
    /\ IF folder
       THEN /\ json' = start.job /\ record' = start.job /\ ended' = 0
            /\ jobs' = jobs /\ standIn' = standIn /\ start' = At("open", start.job)
       ELSE /\ jobs' = jobs \ {start.job} /\ standIn' = FALSE /\ start' = Idle
            /\ UNCHANGED <<json, record, ended>>
    /\ starting' = FALSE
    /\ tunnel' = (tunnel /\ standIn') /\ recent' = FALSE
    /\ UNCHANGED <<folder, link, pass, mover, yes, lock, asks, bounds>>

(* open_tunnel: pair.py joins the ssh and the end in the stand-in, and     *)
(* ends with either.                                                       *)
Opened(job) == link /\ standIn /\ job \in jobs

StartOpens ==
    /\ start.at = "open" /\ tunnel' = (tunnel \/ Opened(start.job)) /\ start' = Idle
    /\ UNCHANGED <<folder, files, standIn, recent, link, jobs, pass, mover, yes, lock, asks, bounds>>

(* drop_start: a start that no job of the daemon runs, and no record.      *)
DropsStart ==
    /\ pass = Idle /\ folder /\ starting /\ json = 0 /\ start = Idle
    /\ starting' = FALSE /\ standIn' = FALSE /\ tunnel' = FALSE
    /\ UNCHANGED <<folder, json, record, ended, recent, link, jobs, threads, asks, bounds>>

-----------------------------------------------------------------------------
(* The worker.  The end of a job comes through its tunnel, which ends; a   *)
(* job that ends with no tunnel says nothing here.                         *)
JobEnds(j) ==
    /\ jobs' = jobs \ {j}
    /\ IF tunnel /\ j = record /\ link
       THEN ended' \in {j, ended} /\ tunnel' = FALSE
       ELSE UNCHANGED <<ended, tunnel>>
    /\ UNCHANGED <<folder, json, record, starting, standIn, recent, link, threads, asks, bounds>>

LinkDrops ==
    /\ link /\ drops < MaxDrops /\ drops' = drops + 1
    /\ link' = FALSE /\ tunnel' = FALSE
    /\ UNCHANGED <<folder, files, standIn, recent, jobs, threads, asks, made, faults>>

LinkBack ==
    /\ ~link /\ link' = TRUE
    /\ UNCHANGED <<folder, files, here, recent, jobs, threads, asks, bounds>>

RetryOver ==
    /\ recent /\ recent' = FALSE
    /\ UNCHANGED <<folder, files, here, link, jobs, threads, asks, bounds>>

-----------------------------------------------------------------------------
(* keep: one pass on the agent.  It reads the record and the end, asks     *)
(* systemd and the link, writes both files again, and starts what is not   *)
(* up.  is_gone, asked by a pass that opened nothing: the worker, reached, *)
(* lists no agent of the bundle.                                           *)
\* Mutant of Gone: the answers of the worker are never looked at.
GoneNever(job) == FALSE
Gone(job) == link /\ jobs = {} /\ mover = Idle

PassReads ==
    /\ pass = Idle /\ Remote # 0
    /\ pass' = At(IF ended # 0 THEN "finish" ELSE "look", Remote)
    /\ UNCHANGED <<folder, files, here, recent, link, jobs, start, mover, yes, lock, asks, bounds>>

\* Mutant of MayOpen: the tunnel is tried once for each start.
MayOpenOnce == ~tunnel /\ ~recent /\ link /\ drops = 0
MayOpen == ~tunnel /\ ~recent /\ link

PassLooks ==
    /\ pass.at = "look"
    /\ pass' = CASE MayOpen -> At("write", pass.job)
                 [] ~MayOpen /\ Gone(pass.job) -> At("finish", pass.job)
                 [] OTHER -> Idle
    /\ UNCHANGED <<folder, files, here, recent, link, jobs, start, mover, yes, lock, asks, bounds>>

PassWrites ==
    /\ pass.at = "write"
    /\ IF folder
       THEN /\ json' = pass.job /\ record' = pass.job /\ recent' = TRUE
            /\ pass' = At(IF standIn THEN "open" ELSE "standIn", pass.job)
       ELSE pass' = Idle /\ UNCHANGED <<json, record, recent>>
    /\ UNCHANGED <<folder, starting, ended, here, link, jobs, start, mover, yes, lock, asks, bounds>>

PassStandIn ==
    /\ pass.at = "standIn" /\ standIn' = folder /\ pass' = IF folder THEN At("open", pass.job) ELSE Idle
    /\ UNCHANGED <<folder, files, tunnel, recent, link, jobs, start, mover, yes, lock, asks, bounds>>

PassOpens ==
    /\ pass.at = "open" /\ tunnel' = (tunnel \/ Opened(pass.job)) /\ pass' = Idle
    /\ UNCHANGED <<folder, files, standIn, recent, link, jobs, start, mover, yes, lock, asks, bounds>>

-----------------------------------------------------------------------------
(* finish, by the pass or by a move: under its lock it reads the record    *)
(* again; whoever is second finds none.  The tunnel, the stand-in, the     *)
(* record and the files of the bundle go one after the other.              *)
Thread(who) == IF who = "pass" THEN pass ELSE mover
Go(who, to) ==
    IF who = "pass" THEN pass' = to /\ mover' = mover ELSE mover' = to /\ pass' = pass

FinishBegins(who) ==
    /\ Thread(who).at = "finish" /\ lock = "free"
    /\ IF Remote = 0
       THEN Go(who, Idle) /\ lock' = lock
       ELSE Go(who, At("stop", Remote)) /\ lock' = who
    /\ UNCHANGED <<folder, files, here, recent, link, jobs, start, yes, asks, bounds>>

FinishStops(who) ==
    /\ Thread(who).at = "stop" /\ tunnel' = FALSE /\ Go(who, At("remove", Thread(who).job))
    /\ UNCHANGED <<folder, files, standIn, recent, link, jobs, start, yes, lock, asks, bounds>>

FinishRemoves(who) ==
    /\ Thread(who).at = "remove" /\ standIn' = FALSE /\ tunnel' = FALSE
    /\ Go(who, At("forget", Thread(who).job))
    /\ UNCHANGED <<folder, files, recent, link, jobs, start, yes, lock, asks, bounds>>

FinishForgets(who) ==
    /\ Thread(who).at = "forget" /\ record' = 0 /\ Go(who, At("clean", Thread(who).job))
    /\ UNCHANGED <<folder, json, starting, ended, here, recent, link, jobs, start, yes, lock, asks, bounds>>

FinishCleans(who) ==
    /\ Thread(who).at = "clean" /\ json' = 0 /\ ended' = 0 /\ lock' = "free" /\ Go(who, Idle)
    /\ UNCHANGED <<folder, record, starting, here, recent, link, jobs, start, yes, asks, bounds>>

(* move_back asks claude to stop, waits for the end, and cancels the job   *)
(* after STOP_WAIT: it then takes the end whatever the worker did.         *)
MoveBegins ==
    /\ mover = Idle /\ Remote # 0 /\ start = Idle
    /\ mover' = At("wait", Remote)
    /\ UNCHANGED <<folder, files, here, recent, link, jobs, pass, start, yes, lock, asks, bounds>>

MoveCancels ==
    /\ mover.at = "wait" /\ ended = 0 /\ link /\ mover.job \in jobs
    /\ jobs' = jobs \ {mover.job}
    /\ UNCHANGED <<folder, files, here, recent, link, threads, asks, bounds>>

MoveEnds ==
    /\ mover.at = "wait" /\ (ended # 0 \/ mover.job \notin jobs \/ ~link)
    /\ mover' = At("finish", mover.job)
    /\ UNCHANGED <<folder, files, here, recent, link, jobs, pass, start, yes, lock, asks, bounds>>

-----------------------------------------------------------------------------
(* ask_orphans, on the same thread as keep: an agent the worker lists for  *)
(* REMOTE_GONE_AFTER that the bundle does not have gets one card, which    *)
(* names the job of the record, or a line when there is none.              *)
\* Mutant of IsKnown: a bundle with a record has its agent.
IsKnownByFolder == folder /\ json # 0 /\ ended = 0 /\ tunnel
IsKnown == IsRemote \/ start # Idle \/ mover # Idle

(* hold_orphan: the worker lists no job, so the record of its start names  *)
(* the one to cancel.                                                      *)
HoldOrphan == record

OrphanAsked ==
    /\ pass = Idle
    /\ LET listed == link /\ jobs # {} /\ ~IsKnown
       IN  \/ listed /\ orphan = "no" /\ orphan' = "seen" /\ card' = card
           \/ listed /\ orphan = "old" /\ orphan' = "asked" /\ card' = HoldOrphan
           \/ ~listed /\ orphan \in {"seen", "old"} /\ orphan' = "no" /\ card' = card
    /\ UNCHANGED <<folder, files, here, recent, link, jobs, threads, bounds>>

OrphanAges ==
    /\ orphan = "seen" /\ orphan' = "old"
    /\ UNCHANGED <<folder, files, here, recent, link, jobs, threads, card, bounds>>

(* send_orphan, on the thread of the request.                              *)
YesCancels ==
    /\ yes = Idle /\ card # 0 /\ link
    /\ jobs' = jobs \ {card} /\ card' = 0 /\ yes' = At("check", card)
    /\ tunnel' = (tunnel /\ record # card)
    /\ UNCHANGED <<folder, files, standIn, recent, link, pass, start, mover, lock, orphan, bounds>>

MayDrop(job) == record = job /\ ~IsRemote

YesChecks ==
    /\ yes.at = "check"
    /\ yes' = IF MayDrop(yes.job) THEN At("stop", yes.job) ELSE Idle
    /\ UNCHANGED <<folder, files, here, recent, link, jobs, pass, start, mover, lock, asks, bounds>>

YesDrops ==
    /\ yes.at = "stop" /\ tunnel' = FALSE /\ standIn' = FALSE /\ yes' = At("forget", yes.job)
    /\ UNCHANGED <<folder, files, recent, link, jobs, pass, start, mover, lock, asks, bounds>>

YesForgets ==
    /\ yes.at = "forget" /\ record' = 0 /\ yes' = Idle
    /\ UNCHANGED <<folder, json, starting, ended, here, recent, link, jobs, pass, start, mover, lock, asks, bounds>>

-----------------------------------------------------------------------------
(* The folder of a bundle is removed by hand, or by a deletion whose move  *)
(* back failed; the bundle may be made again.                              *)
FolderGoes ==
    /\ folder /\ faults < MaxFaults /\ faults' = faults + 1
    /\ folder' = FALSE /\ json' = 0 /\ starting' = FALSE
    /\ UNCHANGED <<record, ended, here, recent, link, jobs, threads, asks, made, drops>>

FolderBack ==
    /\ ~folder /\ folder' = TRUE
    /\ UNCHANGED <<files, here, recent, link, jobs, threads, asks, bounds>>

(* A restart ends the threads; the stand-in and the tunnel have scopes of  *)
(* their own.                                                              *)
Restart ==
    /\ faults < MaxFaults /\ faults' = faults + 1
    /\ pass' = Idle /\ start' = Idle /\ mover' = Idle /\ yes' = Idle /\ lock' = "free"
    /\ orphan' = "no"
    /\ UNCHANGED <<folder, files, here, recent, link, jobs, card, made, drops>>

Start == StartBegins \/ StartStandIn \/ StartSends \/ StartFails \/ StartWrites \/ StartOpens
Pass == PassReads \/ PassLooks \/ PassWrites \/ PassStandIn \/ PassOpens \/ DropsStart
Finish(who) ==
    \/ FinishBegins(who) \/ FinishStops(who) \/ FinishRemoves(who)
    \/ FinishForgets(who) \/ FinishCleans(who)
Yes == YesCancels \/ YesChecks \/ YesDrops \/ YesForgets

Next ==
    \/ Start \/ Pass \/ Finish("pass") \/ Finish("mover")
    \/ MoveBegins \/ MoveCancels \/ MoveEnds
    \/ OrphanAsked \/ OrphanAges \/ Yes
    \/ \E j \in jobs : JobEnds(j)
    \/ LinkDrops \/ LinkBack \/ RetryOver
    \/ FolderGoes \/ FolderBack \/ Restart

(* The threads go on and PAIR_RETRY passes; nobody need say yes, no job    *)
(* need end, and no link need come back.                                   *)
Fairness ==
    /\ WF_vars(Start) /\ SF_vars(StartWrites) /\ WF_vars(Pass) /\ WF_vars(Finish("pass")) /\ WF_vars(Finish("mover"))
    /\ WF_vars(MoveCancels) /\ WF_vars(MoveEnds) /\ WF_vars(RetryOver)

Spec == Init /\ [][Next]_vars /\ Fairness

-----------------------------------------------------------------------------
(* The job on a card is of no agent the bundle has, also when the bundle   *)
(* came back, or its next agent runs, between the card and the yes.        *)
CardOfNone == card # 0 /\ card \in jobs => Remote # card

(* An agent that goes on with its link up has a tunnel again and again:    *)
(* after a drop, a restart, a stand-in that went.                          *)
TunnelBack ==
    <>[](link /\ Remote # 0 /\ Remote \in jobs /\ mover = Idle) => []<>tunnel

(* The end of each job comes to its records, also when it came while the   *)
(* tunnel was down and nothing said it here: no bundle waits on it for     *)
(* ever, while its worker is reached and runs no other agent of it.  A     *)
(* pass that opens the tunnel again does not ask the worker: the passes    *)
(* that do come within PAIR_RETRY of the last one.                         *)
EndComes ==
    []<><<PassLooks /\ ~MayOpen>>_vars => []<>(Remote = 0 \/ Remote \in jobs \/ ~link \/ jobs # {})

(* finish: "once per bundle, whoever calls first"; README.md of bundle-ctl: *)
(* "the start writes it, the end of the job drops it".  What the end       *)
(* removed stays away: no stand-in runs for no record and no start.        *)
NoStandInLeft ==
    standIn /\ pass = Idle /\ mover = Idle /\ start = Idle /\ yes = Idle
        => record # 0 \/ starting

(* The agent on the worker is reached again, and its end is.                *)
TunnelsRight == []CardOfNone /\ TunnelBack /\ EndComes
=============================================================================
