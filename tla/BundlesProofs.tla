---------------------------- MODULE BundlesProofs ----------------------------
(***************************************************************************)
(* The folders of bundles, as MCBundles takes them: a deletion loses       *)
(* nothing it was not shown and leaves no task waiting for a bundle that   *)
(* went (Deletion), what counts as made is whole (Build), and what is      *)
(* linked was vouched for (NodeModules).  For every set of commits, repos, *)
(* bases, packages and bundles, and every number of uses, requests, tasks, *)
(* faults and restarts.                                                    *)
(***************************************************************************)
EXTENDS MCBundles, SequenceTheorems, TLAPS

-----------------------------------------------------------------------------
(* A deletion (Deletion).                                                   *)

Steps == {"waiting", "open", "look", "check", "script", "ps", "rm", "trees", "folder"}
JobSet ==
  [kind : {"none", "spawn", "delete", "idle"}, step : Steps, drop : SUBSET Commits,
   since : Nat, parked : BOOLEAN, force : BOOLEAN, seen : BOOLEAN]

(* The records of the bundle, which its steps update field by field.        *)
JobRecords == jobs \in Seq(JobSet) /\ job \in JobSet
ItemRecord == item \in [on : BOOLEAN, parked : BOOLEAN, build : BOOLEAN, early : BOOLEAN]
ContainerRecord ==
  container \in [state : {"none", "running", "stopped"}, fresh : BOOLEAN]
AskRecords ==
  /\ deletion \in [on : BOOLEAN, drop : SUBSET Commits]
  /\ held \in [on : BOOLEAN, drop : SUBSET Commits]
ScanRecord ==
  /\ scan \in [on : BOOLEAN, since : Nat, parked : BOOLEAN] /\ uses \in Nat
  /\ local \subseteq Commits /\ shared \subseteq Commits

Records == JobRecords /\ ItemRecord /\ ContainerRecord /\ AskRecords /\ ScanRecord

(* The job that runs, by its step.                                          *)
StepsHold ==
  /\ job.step \in {"check", "script", "ps", "rm", "trees", "folder"} => job.kind \in Deletions
  /\ job.step = "look" => job.kind = "idle"
  /\ job.kind = "idle" => job.step \notin {"waiting", "open"}

(* From the check, or from the look of the script at an unused bundle, what *)
(* the branch holds is named by the yes, not Seb's, or was made since.      *)
Looked ==
  job.step \in {"ps", "rm", "trees"} \/ (job.step = "script" /\ job.force) =>
    /\ local \cap Own \subseteq job.drop \cup late
    /\ dirty => File \in late

(* A task queued before a deletion was decided meets the job of an unused   *)
(* bundle only, which saw it parked, and has its build past the second look.*)
TaskMeets ==
  item.on /\ item.early =>
    /\ \A i \in DOMAIN jobs : jobs[i].kind # "delete" /\ (jobs[i].kind = "idle" => jobs[i].parked)
    /\ job.kind # "delete" /\ (job.kind = "idle" => job.parked)
    /\ scan.on => scan.parked
    /\ job.kind = "idle" /\ job.step # "look" => item.build

(* A yes has no task, and what an unused bundle loses is there.             *)
YesAlone ==
  /\ deletion.on => ~item.on
  /\ job.kind = "idle" /\ job.step # "look" => tree # "gone"

(* Past the look of the script at the containers, one that is there was     *)
(* made since.                                                              *)
ContainerSeen ==
  (job.step = "rm" /\ ~job.seen) \/ job.step \in {"trees", "folder"} =>
    container.state = "none" \/ container.fresh

(* The check kept the session, and no launch begins another.                *)
SessionSeen ==
  job.step \in {"script", "ps", "rm", "trees", "folder"} => (session => kept)

Decided ==
  /\ StepsHold /\ Looked /\ TaskMeets /\ YesAlone /\ ContainerSeen /\ SessionSeen
  /\ NothingUnseenLost /\ EarlyTaskKept

Inv == Records /\ Decided
-------------------------------------------------------------------------------
(* The jobs that wait once one more does.                                   *)
LEMMA JobAdded ==
  ASSUME NEW S, NEW q \in Seq(S), NEW x \in S
  PROVE  /\ Append(q, x) \in Seq(S)
         /\ DOMAIN q \subseteq DOMAIN Append(q, x)
         /\ \A k \in DOMAIN q : Append(q, x)[k] = q[k]
         /\ \A k \in DOMAIN Append(q, x) :
              Append(q, x)[k] = x \/ (k \in DOMAIN q /\ Append(q, x)[k] = q[k])
         /\ \E k \in DOMAIN Append(q, x) : Append(q, x)[k] = x
<1>1. Append(q, x) \in Seq(S) /\ Len(Append(q, x)) = Len(q) + 1
  OBVIOUS
<1>2. \A k \in 1..Len(q) : Append(q, x)[k] = q[k]
  OBVIOUS
<1>3. Append(q, x)[Len(q) + 1] = x
  OBVIOUS
<1>4. DOMAIN q = 1..Len(q) /\ DOMAIN Append(q, x) = 1..(Len(q) + 1) /\ Len(q) \in Nat
  BY <1>1
<1> QED BY <1>1, <1>2, <1>3, <1>4

(* Those that wait once one of them begins.                                 *)
LEMMA JobTaken ==
  ASSUME NEW S, NEW q \in Seq(S), NEW i \in DOMAIN q
  PROVE  LET rest == SubSeq(q, 1, i - 1) \o SubSeq(q, i + 1, Len(q))
         IN  /\ rest \in Seq(S)
             /\ \A k \in DOMAIN rest : \E n \in DOMAIN q : rest[k] = q[n]
<1> DEFINE a == SubSeq(q, 1, i - 1)
           b == SubSeq(q, i + 1, Len(q))
           rest == a \o b
<1>1. i \in 1..Len(q) /\ Len(q) \in Nat /\ DOMAIN q = 1..Len(q)
  OBVIOUS
<1>2. a \in Seq(S) /\ Len(a) = i - 1 /\ \A k \in 1..(i - 1) : a[k] = q[k]
  BY <1>1
<1>3. b \in Seq(S) /\ Len(b) = Len(q) - i /\ \A k \in 1..(Len(q) - i) : b[k] = q[i + k]
  BY <1>1
<1> HIDE DEF a, b
<1>4. rest \in Seq(S) /\ Len(rest) = Len(a) + Len(b)
  BY <1>2, <1>3, ConcatProperties
<1>5. \A k \in 1..(Len(a) + Len(b)) :
        rest[k] = IF k <= Len(a) THEN a[k] ELSE b[k - Len(a)]
  BY <1>2, <1>3, ConcatProperties
<1> HIDE DEF rest
<1>6. DOMAIN rest = 1..Len(rest)
  BY <1>4
<1>7. ASSUME NEW k \in DOMAIN rest PROVE \E n \in DOMAIN q : rest[k] = q[n]
  <2>1. k \in 1..(Len(q) - 1)
    BY <1>1, <1>2, <1>3, <1>4, <1>6
  <2>2. CASE k < i
    BY <2>1, <2>2, <1>1, <1>2, <1>5
  <2>3. CASE k >= i
    <3>1. PICK n \in 1..Len(b) : k = Len(a) + n
      <4>1. k - (i - 1) \in 1..Len(b) /\ k = Len(a) + (k - (i - 1))
        BY <2>1, <2>3, <1>1, <1>2, <1>3
      <4> QED BY <4>1
    <3>2. rest[k] = b[n] /\ b[n] = q[i + n]
      <4>1. Len(a) \in Nat /\ Len(b) \in Nat
        BY <1>1, <1>2, <1>3
      <4>2. k \in 1..(Len(a) + Len(b)) /\ ~(k <= Len(a)) /\ k - Len(a) = n
        BY <3>1, <4>1
      <4>3. rest[k] = b[n]
        BY <4>2, <1>5
      <4> QED BY <4>3, <1>3
    <3>3. i + n \in DOMAIN q
      BY <1>1, <1>3
    <3> QED BY <3>2, <3>3
  <2> QED BY <2>1, <2>2, <2>3, <1>1
<1> QED BY <1>4, <1>7 DEF a, b, rest

-------------------------------------------------------------------------------
(* Who works in the bundle, asks for its deletion or queues a task: a       *)
(* commit or an edit past the check is `late`, and a task queued past a     *)
(* deletion is not `early`.                                                 *)
LEMMA UsersKeep ==
  ASSUME Inv, (\E c \in Commits : Commit(c)) \/ Edit \/ Push \/ ClosePR \/
           OpenByHand \/ (\E stops \in BOOLEAN : WindowCloses(stops)) \/
           (\E drop \in SUBSET Branch : Ask(drop)) \/ Yes \/ Unpark \/
           (\E parked \in BOOLEAN : Enqueue(parked))
  PROVE  Inv'
<1>1. ASSUME NEW c \in Commits, Commit(c) PROVE Inv'
  <2>1. Records'
    BY Inv, <1>1, ConstantsAssumption DEF Inv, Records, JobRecords, ItemRecord,
       ContainerRecord, AskRecords, ScanRecord, JobSet, Steps, Commits, Branch, Commit,
       IsRunning, Used, Later, Checked, here, state, line, files, work, bounds
  <2>2. Decided'
    BY Inv, <1>1, ConstantsAssumption, <2>1 DEF Inv, Decided, StepsHold, Looked,
       TaskMeets, YesAlone, ContainerSeen, SessionSeen, NothingUnseenLost,
       EarlyTaskKept, Records, JobRecords, ItemRecord, ContainerRecord, AskRecords,
       ScanRecord, JobSet, Steps, Deletions, IsRunning, Commit, Branch, Used, Later,
       Checked, here, state, line, files, work, bounds
  <2> QED BY <2>1, <2>2 DEF Inv
<1>2. ASSUME Edit PROVE Inv'
  <2>1. Records'
    BY Inv, <1>2, ConstantsAssumption DEF Inv, Records, JobRecords, ItemRecord,
       ContainerRecord, AskRecords, ScanRecord, JobSet, Steps, Commits, Branch, Edit,
       IsRunning, Used, Later, Checked, File, here, state, line, files, work, bounds
  <2>2. Decided'
    BY Inv, <1>2, ConstantsAssumption, <2>1 DEF Inv, Decided, StepsHold, Looked,
       TaskMeets, YesAlone, ContainerSeen, SessionSeen, NothingUnseenLost,
       EarlyTaskKept, Records, JobRecords, ItemRecord, ContainerRecord, AskRecords,
       ScanRecord, JobSet, Steps, Deletions, IsRunning, Edit, Used, Later, Checked,
       File, here, state, line, files, work, bounds
  <2> QED BY <2>1, <2>2 DEF Inv
<1>3. ASSUME Push PROVE Inv'
  <2>1. Records'
    BY Inv, <1>3, ConstantsAssumption DEF Inv, Records, JobRecords, ItemRecord,
       ContainerRecord, AskRecords, ScanRecord, JobSet, Steps, Commits, Branch, Push,
       here, state, line, files, bounds, work
  <2>2. Decided'
    BY Inv, <1>3, ConstantsAssumption, <2>1 DEF Inv, Decided, StepsHold, Looked,
       TaskMeets, YesAlone, ContainerSeen, SessionSeen, NothingUnseenLost,
       EarlyTaskKept, Records, JobRecords, ItemRecord, ContainerRecord, AskRecords,
       ScanRecord, JobSet, Steps, Deletions, IsRunning, Push, Branch, here, state, line,
       files, bounds, work
  <2> QED BY <2>1, <2>2 DEF Inv
<1>4. ASSUME ClosePR PROVE Inv'
  <2>1. Records'
    BY Inv, <1>4, ConstantsAssumption DEF Inv, Records, JobRecords, ItemRecord,
       ContainerRecord, AskRecords, ScanRecord, JobSet, Steps, Commits, Branch, ClosePR,
       here, state, line, files, bounds, work
  <2>2. Decided'
    BY Inv, <1>4, ConstantsAssumption, <2>1 DEF Inv, Decided, StepsHold, Looked,
       TaskMeets, YesAlone, ContainerSeen, SessionSeen, NothingUnseenLost,
       EarlyTaskKept, Records, JobRecords, ItemRecord, ContainerRecord, AskRecords,
       ScanRecord, JobSet, Steps, Deletions, IsRunning, ClosePR, here, state, line,
       files, bounds, work
  <2> QED BY <2>1, <2>2 DEF Inv
<1>5. ASSUME OpenByHand PROVE Inv'
  <2>1. PICK b \in BOOLEAN : b = (container.fresh \/ container.state = "none")
    OBVIOUS
  <2>2. /\ container' = [state |-> "running", fresh |-> b]
        /\ UNCHANGED <<jobs, job, item, deletion, held, scan, local, shared, dirty, late,
                       lost, tree, session, kept>>
    BY <1>5, <2>1 DEF OpenByHand, Opened, work, state, line, files
  <2>3. uses' \in Nat
    BY <1>5, Inv DEF OpenByHand, Used, bounds, Inv, Records, ScanRecord
  <2>4. Records'
    BY Inv, <2>2, <2>3 DEF Inv, Records, JobRecords, ItemRecord, ContainerRecord,
       AskRecords, ScanRecord
  <2>5. ContainerSeen'
    BY Inv, <2>1, <2>2 DEF Inv, Decided, ContainerSeen
  <2>6. Decided'
    BY Inv, <2>2, <2>5 DEF Inv, Decided, StepsHold, Looked, TaskMeets, YesAlone,
       SessionSeen, NothingUnseenLost, EarlyTaskKept
  <2> QED BY <2>4, <2>6 DEF Inv
<1>6. ASSUME NEW stops \in BOOLEAN, WindowCloses(stops) PROVE Inv'
  <2>1. Records'
    <3>1. JobRecords'
      BY Inv, <1>6, ConstantsAssumption DEF Inv, Records, JobRecords, ScanRecord,
         AskRecords, JobSet, Steps, Commits, Branch, WindowCloses, Stopped, IsRunning,
         work, state, line, files, bounds, here
    <3>2. ItemRecord'
      BY Inv, <1>6, ConstantsAssumption DEF Inv, Records, ItemRecord, JobSet, Steps,
         Commits, Branch, WindowCloses, Stopped, IsRunning, work, state, line, files,
         bounds, here
    <3>3. ContainerRecord'
      BY Inv, <1>6, ConstantsAssumption DEF Inv, Records, ContainerRecord, JobSet,
         Steps, Commits, Branch, WindowCloses, Stopped, IsRunning, work, state, line,
         files, bounds, here
    <3>4. AskRecords'
      BY Inv, <1>6, ConstantsAssumption DEF Inv, Records, AskRecords, JobSet, Steps,
         Commits, Branch, WindowCloses, Stopped, IsRunning, work, state, line, files,
         bounds, here
    <3>5. ScanRecord'
      BY Inv, <1>6, ConstantsAssumption DEF Inv, Records, ScanRecord, JobSet, Steps,
         Commits, Branch, WindowCloses, Stopped, IsRunning, work, state, line, files,
         bounds, here
    <3> QED BY <3>1, <3>2, <3>3, <3>4, <3>5 DEF Records
  <2>2. Decided'
    BY Inv, <1>6, ConstantsAssumption, <2>1 DEF Inv, Decided, StepsHold, Looked,
       TaskMeets, YesAlone, ContainerSeen, SessionSeen, NothingUnseenLost,
       EarlyTaskKept, Records, JobRecords, ItemRecord, ContainerRecord, AskRecords,
       ScanRecord, JobSet, Steps, Deletions, IsRunning, WindowCloses, Stopped, work,
       state, line, files, bounds, here
  <2> QED BY <2>1, <2>2 DEF Inv
<1>7. ASSUME NEW drop \in SUBSET Branch, Ask(drop) PROVE Inv'
  <2>1. Records'
    BY Inv, <1>7, ConstantsAssumption DEF Inv, Records, JobRecords, ItemRecord,
       ContainerRecord, AskRecords, ScanRecord, JobSet, Steps, Commits, Branch, Ask,
       GetDropped, MayGo, CheckUncommitted, HoldsOwnWork, NeedsForce, work, here,
       state, line, files, bounds
  <2>2. Decided'
    BY Inv, <1>7, ConstantsAssumption, <2>1 DEF Inv, Decided, StepsHold, Looked,
       TaskMeets, YesAlone, ContainerSeen, SessionSeen, NothingUnseenLost,
       EarlyTaskKept, Records, JobRecords, ItemRecord, ContainerRecord, AskRecords,
       ScanRecord, JobSet, Steps, Deletions, IsRunning, Ask, GetDropped, Branch, MayGo,
       CheckUncommitted, HoldsOwnWork, NeedsForce, work, here, state, line, files,
       bounds
  <2> QED BY <2>1, <2>2 DEF Inv
<1>8. ASSUME Yes PROVE Inv'
  <2>1. /\ \/ item' = item /\ deletion' = deletion
           \/ item' = NoItem /\ deletion' = [on |-> TRUE, drop |-> held.drop]
        /\ held' = NoRequest
        /\ UNCHANGED <<jobs, job, container, scan, uses, local, shared, dirty, late, lost,
                       tree, session, kept>>
    BY <1>8 DEF Yes, work, here, state, line, files, bounds
  <2>2. ItemRecord' /\ (item'.on => item' = item /\ deletion' = deletion)
    <3>1. NoItem \in [on : BOOLEAN, parked : BOOLEAN, build : BOOLEAN, early : BOOLEAN]
          /\ NoItem.on = FALSE
      BY DEF NoItem
    <3>2. CASE item' = item /\ deletion' = deletion
      BY <3>2, Inv DEF Inv, Records, ItemRecord
    <3>3. CASE item' = NoItem
      BY <3>1, <3>3 DEF ItemRecord
    <3> QED BY <2>1, <3>2, <3>3
  <2>3. AskRecords'
    <3>1. NoRequest \in [on : BOOLEAN, drop : SUBSET Commits]
      BY DEF NoRequest
    <3>2. CASE deletion' = deletion
      BY Inv, <2>1, <3>1, <3>2 DEF Inv, Records, AskRecords
    <3>3. CASE deletion' = [on |-> TRUE, drop |-> held.drop]
      <4>1. held.drop \in SUBSET Commits
        BY Inv DEF Inv, Records, AskRecords
      <4> QED BY <2>1, <3>1, <3>3, <4>1 DEF AskRecords
    <3> QED BY <2>1, <3>2, <3>3
  <2>4. Records'
    BY Inv, <2>1, <2>2, <2>3 DEF Inv, Records, JobRecords, ContainerRecord, ScanRecord
  <2>5. Decided'
    BY Inv, <2>1, <2>2 DEF Inv, Decided, StepsHold, Looked, TaskMeets, YesAlone,
       ContainerSeen, SessionSeen, NothingUnseenLost, EarlyTaskKept
  <2> QED BY <2>4, <2>5 DEF Inv
<1>9. ASSUME Unpark PROVE Inv'
  <2>1. Records'
    <3>1. JobRecords'
      BY Inv, <1>9, ConstantsAssumption DEF Inv, Records, JobRecords, ScanRecord,
         AskRecords, JobSet, Steps, Commits, Branch, Unpark, work, here, line, files,
         bounds, state
    <3>2. ItemRecord'
      BY Inv, <1>9, ConstantsAssumption DEF Inv, Records, ItemRecord, JobSet, Steps,
         Commits, Branch, Unpark, work, here, line, files, bounds, state
    <3>3. ContainerRecord'
      BY Inv, <1>9, ConstantsAssumption DEF Inv, Records, ContainerRecord, JobSet,
         Steps, Commits, Branch, Unpark, work, here, line, files, bounds, state
    <3>4. AskRecords'
      BY Inv, <1>9, ConstantsAssumption DEF Inv, Records, AskRecords, JobSet, Steps,
         Commits, Branch, Unpark, work, here, line, files, bounds, state
    <3>5. ScanRecord'
      BY Inv, <1>9, ConstantsAssumption DEF Inv, Records, ScanRecord, JobSet, Steps,
         Commits, Branch, Unpark, work, here, line, files, bounds, state
    <3> QED BY <3>1, <3>2, <3>3, <3>4, <3>5 DEF Records
  <2>2. Decided'
    BY Inv, <1>9, ConstantsAssumption, <2>1 DEF Inv, Decided, StepsHold, Looked,
       TaskMeets, YesAlone, ContainerSeen, SessionSeen, NothingUnseenLost,
       EarlyTaskKept, Records, JobRecords, ItemRecord, ContainerRecord, AskRecords,
       ScanRecord, JobSet, Steps, Deletions, IsRunning, Unpark, work, here, line, files,
       bounds, state
  <2> QED BY <2>1, <2>2 DEF Inv
<1>10. ASSUME NEW parked \in BOOLEAN, Enqueue(parked) PROVE Inv'
  <2>1. Records'
    BY Inv, <1>10, ConstantsAssumption DEF Inv, Records, JobRecords, ItemRecord,
       ContainerRecord, AskRecords, ScanRecord, JobSet, Steps, Commits, Branch, Enqueue,
       IsDeleting, Deletions, AfterTask, NoRequest, work, here, line, files, state,
       bounds
  <2>2. Decided'
    BY Inv, <1>10, ConstantsAssumption, <2>1 DEF Inv, Decided, StepsHold, Looked,
       TaskMeets, YesAlone, ContainerSeen, SessionSeen, NothingUnseenLost,
       EarlyTaskKept, Records, JobRecords, ItemRecord, ContainerRecord, AskRecords,
       ScanRecord, JobSet, Steps, Deletions, IsRunning, Enqueue, IsDeleting, AfterTask,
       NoRequest, work, here, line, files, state, bounds
  <2> QED BY <2>1, <2>2 DEF Inv
<1> QED BY <1>1, <1>2, <1>3, <1>4, <1>5, <1>6, <1>7, <1>8, <1>9, <1>10

(* Agents and windows: a launch takes the task and waits for a deletion,    *)
(* and a container made anew is `fresh`.                                    *)
LEMMA AgentsKeep ==
  ASSUME Inv, DropTask \/ Launch \/ CloseDeleted \/ EndTurn \/ TerminalUp \/
           Build \/ RemoteEnds \/ TimePasses
  PROVE  Inv'
<1>1. ASSUME DropTask PROVE Inv'
  <2>1. Records'
    BY Inv, <1>1, ConstantsAssumption DEF Inv, Records, JobRecords, ItemRecord,
       ContainerRecord, AskRecords, ScanRecord, JobSet, Steps, Commits, Branch,
       DropTask, NoItem, work, here, line, files, bounds, state
  <2>2. Decided'
    BY Inv, <1>1, ConstantsAssumption, <2>1 DEF Inv, Decided, StepsHold, Looked,
       TaskMeets, YesAlone, ContainerSeen, SessionSeen, NothingUnseenLost,
       EarlyTaskKept, Records, JobRecords, ItemRecord, ContainerRecord, AskRecords,
       ScanRecord, JobSet, Steps, Deletions, IsRunning, DropTask, NoItem, work, here,
       line, files, bounds, state
  <2> QED BY <2>1, <2>2 DEF Inv
<1>2. ASSUME Launch PROVE Inv'
  <2>1. Records'
    <3>1. JobRecords'
      <4>1. NewJob("spawn", {}, 0, FALSE) \in JobSet
        BY DEF NewJob, JobSet, Steps
      <4>2. jobs' \in {jobs, Append(jobs, NewJob("spawn", {}, 0, FALSE))} /\ job' = job
        BY <1>2 DEF Launch
      <4>3. jobs \in Seq(JobSet) /\ job \in JobSet
        BY DEF Inv, Records, JobRecords
      <4>4. Append(jobs, NewJob("spawn", {}, 0, FALSE)) \in Seq(JobSet)
        BY <4>1, <4>3, JobAdded
      <4> QED BY <4>2, <4>3, <4>4 DEF JobRecords
    <3>2. ItemRecord'
      BY Inv, <1>2, ConstantsAssumption, JobAdded DEF Inv, Records, ItemRecord, JobSet,
         Steps, Commits, Branch, Launch, IsDeleting, Deletions, IsSpawning, IsRunning,
         Used, NoItem, NewJob, here, work, state, line, files, bounds
    <3>3. ContainerRecord'
      BY Inv, <1>2, ConstantsAssumption, JobAdded DEF Inv, Records, ContainerRecord,
         JobSet, Steps, Commits, Branch, Launch, IsDeleting, Deletions, IsSpawning,
         IsRunning, Used, NoItem, NewJob, here, work, state, line, files, bounds
    <3>4. AskRecords'
      BY Inv, <1>2, ConstantsAssumption, JobAdded DEF Inv, Records, AskRecords, JobSet,
         Steps, Commits, Branch, Launch, IsDeleting, Deletions, IsSpawning, IsRunning,
         Used, NoItem, NewJob, here, work, state, line, files, bounds
    <3>5. ScanRecord'
      BY Inv, <1>2, ConstantsAssumption, JobAdded DEF Inv, Records, ScanRecord, JobSet,
         Steps, Commits, Branch, Launch, IsDeleting, Deletions, IsSpawning, IsRunning,
         Used, NoItem, NewJob, here, work, state, line, files, bounds
    <3> QED BY <3>1, <3>2, <3>3, <3>4, <3>5 DEF Records
  <2>2. Decided'
    BY Inv, <1>2, ConstantsAssumption, JobAdded, <2>1 DEF Inv, Decided, StepsHold,
       Looked, TaskMeets, YesAlone, ContainerSeen, SessionSeen, NothingUnseenLost,
       EarlyTaskKept, Records, JobRecords, ItemRecord, ContainerRecord, AskRecords,
       ScanRecord, JobSet, Steps, Deletions, IsRunning, Launch, IsDeleting, IsSpawning,
       Used, NoItem, NewJob, here, work, state, line, files, bounds
  <2> QED BY <2>1, <2>2 DEF Inv
<1>3. ASSUME CloseDeleted PROVE Inv'
  <2>1. Records'
    BY Inv, <1>3, ConstantsAssumption DEF Inv, Records, JobRecords, ItemRecord,
       ContainerRecord, AskRecords, ScanRecord, JobSet, Steps, Commits, Branch,
       CloseDeleted, IsRunning, ComesBack, Stopped, work, state, line, files, bounds,
       here
  <2>2. Decided'
    BY Inv, <1>3, ConstantsAssumption, <2>1 DEF Inv, Decided, StepsHold, Looked,
       TaskMeets, YesAlone, ContainerSeen, SessionSeen, NothingUnseenLost,
       EarlyTaskKept, Records, JobRecords, ItemRecord, ContainerRecord, AskRecords,
       ScanRecord, JobSet, Steps, Deletions, IsRunning, CloseDeleted, ComesBack,
       Stopped, work, state, line, files, bounds, here
  <2> QED BY <2>1, <2>2 DEF Inv
<1>4. ASSUME EndTurn PROVE Inv'
  <2>1. Records'
    BY Inv, <1>4, ConstantsAssumption DEF Inv, Records, JobRecords, ItemRecord,
       ContainerRecord, AskRecords, ScanRecord, JobSet, Steps, Commits, Branch, EndTurn,
       work, state, line, files, bounds, here
  <2>2. Decided'
    BY Inv, <1>4, ConstantsAssumption, <2>1 DEF Inv, Decided, StepsHold, Looked,
       TaskMeets, YesAlone, ContainerSeen, SessionSeen, NothingUnseenLost,
       EarlyTaskKept, Records, JobRecords, ItemRecord, ContainerRecord, AskRecords,
       ScanRecord, JobSet, Steps, Deletions, IsRunning, EndTurn, work, state, line,
       files, bounds, here
  <2> QED BY <2>1, <2>2 DEF Inv
<1>5. ASSUME TerminalUp PROVE Inv'
  <2>1. PICK b \in BOOLEAN : b = (container.fresh \/ container.state = "none")
    OBVIOUS
  <2>2. /\ container' = [state |-> "running", fresh |-> b]
        /\ UNCHANGED <<jobs, job, item, deletion, held, scan, local, shared, dirty, late,
                       lost, tree, session, kept>>
    BY <1>5, <2>1 DEF TerminalUp, Opened, work, state, line, files
  <2>3. uses' \in Nat
    BY <1>5, Inv DEF TerminalUp, Used, bounds, Inv, Records, ScanRecord
  <2>4. Records'
    BY Inv, <2>2, <2>3 DEF Inv, Records, JobRecords, ItemRecord, ContainerRecord,
       AskRecords, ScanRecord
  <2>5. ContainerSeen'
    BY Inv, <2>1, <2>2 DEF Inv, Decided, ContainerSeen
  <2>6. Decided'
    BY Inv, <2>2, <2>5 DEF Inv, Decided, StepsHold, Looked, TaskMeets, YesAlone,
       SessionSeen, NothingUnseenLost, EarlyTaskKept
  <2> QED BY <2>4, <2>6 DEF Inv
<1>6. ASSUME Build PROVE Inv'
  <2>1. Records'
    BY Inv, <1>6, ConstantsAssumption DEF Inv, Records, JobRecords, ItemRecord,
       ContainerRecord, AskRecords, ScanRecord, JobSet, Steps, Commits, Branch, Build,
       IsRunning, Used, work, here, state, line, files, bounds
  <2>2. Decided'
    BY Inv, <1>6, ConstantsAssumption, <2>1 DEF Inv, Decided, StepsHold, Looked,
       TaskMeets, YesAlone, ContainerSeen, SessionSeen, NothingUnseenLost,
       EarlyTaskKept, Records, JobRecords, ItemRecord, ContainerRecord, AskRecords,
       ScanRecord, JobSet, Steps, Deletions, IsRunning, Build, Used, work, here, state,
       line, files, bounds
  <2> QED BY <2>1, <2>2 DEF Inv
<1>7. ASSUME RemoteEnds PROVE Inv'
  <2>1. Records'
    BY Inv, <1>7, ConstantsAssumption DEF Inv, Records, JobRecords, ItemRecord,
       ContainerRecord, AskRecords, ScanRecord, JobSet, Steps, Commits, Branch,
       RemoteEnds, work, state, line, files, bounds, here
  <2>2. Decided'
    BY Inv, <1>7, ConstantsAssumption, <2>1 DEF Inv, Decided, StepsHold, Looked,
       TaskMeets, YesAlone, ContainerSeen, SessionSeen, NothingUnseenLost,
       EarlyTaskKept, Records, JobRecords, ItemRecord, ContainerRecord, AskRecords,
       ScanRecord, JobSet, Steps, Deletions, IsRunning, RemoteEnds, work, state, line,
       files, bounds, here
  <2> QED BY <2>1, <2>2 DEF Inv
<1>8. ASSUME TimePasses PROVE Inv'
  <2>1. Records'
    BY Inv, <1>8, ConstantsAssumption DEF Inv, Records, JobRecords, ItemRecord,
       ContainerRecord, AskRecords, ScanRecord, JobSet, Steps, Commits, Branch,
       TimePasses, IsRunning, work, here, state, line, files, bounds
  <2>2. Decided'
    BY Inv, <1>8, ConstantsAssumption, <2>1 DEF Inv, Decided, StepsHold, Looked,
       TaskMeets, YesAlone, ContainerSeen, SessionSeen, NothingUnseenLost,
       EarlyTaskKept, Records, JobRecords, ItemRecord, ContainerRecord, AskRecords,
       ScanRecord, JobSet, Steps, Deletions, IsRunning, TimePasses, work, here, state,
       line, files, bounds
  <2> QED BY <2>1, <2>2 DEF Inv
<1> QED BY <1>1, <1>2, <1>3, <1>4, <1>5, <1>6, <1>7, <1>8

(* What decides a deletion: a yes has no task, and the look at an unused    *)
(* bundle notes the parked one.                                             *)
LEMMA DaemonKeeps ==
  ASSUME Inv, DeleteStopped \/ IdleLooks \/ IdleStarts \/ OpenTerminal \/
           Restart
  PROVE  Inv'
<1>1. ASSUME DeleteStopped PROVE Inv'
  <2>1. Records'
    BY Inv, <1>1, ConstantsAssumption, JobAdded DEF Inv, Records, JobRecords,
       ItemRecord, ContainerRecord, AskRecords, ScanRecord, JobSet, Steps, Commits,
       Branch, DeleteStopped, IsRunning, NewJob, NoRequest, work, here, files, bounds,
       state, line
  <2>2. Decided'
    BY Inv, <1>1, ConstantsAssumption, JobAdded, <2>1 DEF Inv, Decided, StepsHold,
       Looked, TaskMeets, YesAlone, ContainerSeen, SessionSeen, NothingUnseenLost,
       EarlyTaskKept, Records, JobRecords, ItemRecord, ContainerRecord, AskRecords,
       ScanRecord, JobSet, Steps, Deletions, IsRunning, DeleteStopped, NewJob,
       NoRequest, work, here, files, bounds, state, line
  <2> QED BY <2>1, <2>2 DEF Inv
<1>2. ASSUME IdleLooks PROVE Inv'
  <2>1. Records'
    BY Inv, <1>2, ConstantsAssumption DEF Inv, Records, JobRecords, ItemRecord,
       ContainerRecord, AskRecords, ScanRecord, JobSet, Steps, Commits, Branch,
       IdleLooks, IsDeleting, Deletions, IsRunning, work, here, state, line, files,
       bounds
  <2>2. Decided'
    BY Inv, <1>2, ConstantsAssumption, <2>1 DEF Inv, Decided, StepsHold, Looked,
       TaskMeets, YesAlone, ContainerSeen, SessionSeen, NothingUnseenLost,
       EarlyTaskKept, Records, JobRecords, ItemRecord, ContainerRecord, AskRecords,
       ScanRecord, JobSet, Steps, Deletions, IsRunning, IdleLooks, IsDeleting, work,
       here, state, line, files, bounds
  <2> QED BY <2>1, <2>2 DEF Inv
<1>3. ASSUME IdleStarts PROVE Inv'
  <2>1. Records'
    BY Inv, <1>3, ConstantsAssumption, JobAdded DEF Inv, Records, JobRecords,
       ItemRecord, ContainerRecord, AskRecords, ScanRecord, JobSet, Steps, Commits,
       Branch, IdleStarts, NoScan, NewJob, work, here, state, files, bounds, line
  <2>2. Decided'
    BY Inv, <1>3, ConstantsAssumption, JobAdded, <2>1 DEF Inv, Decided, StepsHold,
       Looked, TaskMeets, YesAlone, ContainerSeen, SessionSeen, NothingUnseenLost,
       EarlyTaskKept, Records, JobRecords, ItemRecord, ContainerRecord, AskRecords,
       ScanRecord, JobSet, Steps, Deletions, IsRunning, IdleStarts, NoScan, NewJob,
       work, here, state, files, bounds, line
  <2> QED BY <2>1, <2>2 DEF Inv
<1>4. ASSUME OpenTerminal PROVE Inv'
  <2>1. Records'
    BY Inv, <1>4, ConstantsAssumption DEF Inv, Records, JobRecords, ItemRecord,
       ContainerRecord, AskRecords, ScanRecord, JobSet, Steps, Commits, Branch,
       OpenTerminal, At, bounds, NoJob, NewJob, work, state, files, here, line
  <2>2. Decided'
    BY Inv, <1>4, ConstantsAssumption, <2>1 DEF Inv, Decided, StepsHold, Looked,
       TaskMeets, YesAlone, ContainerSeen, SessionSeen, NothingUnseenLost,
       EarlyTaskKept, Records, JobRecords, ItemRecord, ContainerRecord, AskRecords,
       ScanRecord, JobSet, Steps, Deletions, IsRunning, OpenTerminal, At, bounds, NoJob,
       NewJob, work, state, files, here, line
  <2> QED BY <2>1, <2>2 DEF Inv
<1>5. ASSUME Restart PROVE Inv'
  <2>1. Records'
    BY Inv, <1>5, ConstantsAssumption DEF Inv, Records, JobRecords, ItemRecord,
       ContainerRecord, AskRecords, ScanRecord, JobSet, Steps, Commits, Branch, Restart,
       NoJob, NewJob, NoScan, work, here, state, files, line, bounds
  <2>2. Decided'
    BY Inv, <1>5, ConstantsAssumption, <2>1 DEF Inv, Decided, StepsHold, Looked,
       TaskMeets, YesAlone, ContainerSeen, SessionSeen, NothingUnseenLost,
       EarlyTaskKept, Records, JobRecords, ItemRecord, ContainerRecord, AskRecords,
       ScanRecord, JobSet, Steps, Deletions, IsRunning, Restart, NoJob, NewJob, NoScan,
       work, here, state, files, line, bounds
  <2> QED BY <2>1, <2>2 DEF Inv
<1> QED BY <1>1, <1>2, <1>3, <1>4, <1>5

(* A job that ends leaves nothing to say of it.                             *)
LEMMA JobEnds ==
  ASSUME Inv, job' = NoJob,
         UNCHANGED <<jobs, item, container, deletion, held, scan, uses, local, shared,
                     tree, lost>>
  PROVE  Inv'
<1>1. NoJob \in JobSet
  BY DEF NoJob, NewJob, JobSet, Steps
<1>2. Records'
  BY Inv, <1>1 DEF Inv, Records, JobRecords, ItemRecord, ContainerRecord, AskRecords,
     ScanRecord
<1>3. Decided'
  BY Inv DEF Inv, Decided, StepsHold, Looked, TaskMeets, YesAlone, ContainerSeen,
     SessionSeen, NothingUnseenLost, EarlyTaskKept, NoJob, NewJob, Deletions
<1> QED BY <1>2, <1>3 DEF Inv

(* Nor does one that is refused, which takes back the build of the parked   *)
(* task only while its bundle is there.                                     *)
LEMMA RefusedKeeps ==
  ASSUME Inv, Refused, job.step # "look",
         UNCHANGED <<jobs, container, held, scan, uses, local, shared, tree, lost>>
  PROVE  Inv'
<1>1. CASE item' = item
  BY <1>1, Inv, JobEnds DEF Refused
<1>2. CASE item' # item
  <2>1. job.kind = "idle" /\ item' = [item EXCEPT !.build = FALSE] /\ job' = NoJob
    BY <1>2 DEF Refused
  <2>2. tree # "gone"
    BY <2>1, Inv DEF Inv, Decided, YesAlone
  <2>3. ItemRecord' /\ item'.on = item.on /\ item'.early = item.early
    BY <2>1, Inv DEF Inv, Records, ItemRecord
  <2>4. NoJob \in JobSet
    BY DEF NoJob, NewJob, JobSet, Steps
  <2>5. Records'
    BY Inv, <2>1, <2>3, <2>4 DEF Inv, Records, JobRecords, ContainerRecord, AskRecords,
       ScanRecord, Refused
  <2>6. Decided'
    BY Inv, <2>1, <2>2, <2>3 DEF Inv, Decided, StepsHold, Looked, TaskMeets, YesAlone,
       ContainerSeen, SessionSeen, NothingUnseenLost, EarlyTaskKept, NoJob, NewJob,
       Deletions, Refused
  <2> QED BY <2>5, <2>6 DEF Inv
<1> QED BY <1>1, <1>2

(* A job waits no more.                                                     *)
LEMMA BeginKeeps ==
  ASSUME Inv, NEW i \in DOMAIN jobs, Begin(i)
  PROVE  Inv'
<1>1. /\ job = NoJob
      /\ jobs' = SubSeq(jobs, 1, i - 1) \o SubSeq(jobs, i + 1, Len(jobs))
      /\ UNCHANGED <<item, container, deletion, held, scan, uses, local, shared, dirty,
                     late, lost, tree, session, kept>>
  BY DEF Begin, work, here, state, files, bounds
<1>2. /\ jobs' \in Seq(JobSet)
      /\ \A k \in DOMAIN jobs' : \E n \in DOMAIN jobs : jobs'[k] = jobs[n]
  BY <1>1, Inv, JobTaken DEF Inv, Records, JobRecords
<1>3. jobs[i] \in JobSet
  BY Inv DEF Inv, Records, JobRecords
<1>4. /\ job' \in JobSet /\ job'.kind = jobs[i].kind /\ job'.parked = jobs[i].parked
      /\ job'.step = IF jobs[i].kind = "idle" THEN "look"
                     ELSE IF jobs[i].kind = "delete" THEN "check" ELSE "open"
  BY <1>3 DEF Begin, JobSet, Steps
<1>5. Records'
  BY Inv, <1>1, <1>2, <1>4 DEF Inv, Records, JobRecords, ItemRecord, ContainerRecord,
     AskRecords, ScanRecord
<1>6. TaskMeets'
  <2>1. SUFFICES ASSUME item.on, item.early
                 PROVE  TaskMeets'
    BY <1>1 DEF TaskMeets
  <2>2. \A n \in DOMAIN jobs :
          jobs[n].kind # "delete" /\ (jobs[n].kind = "idle" => jobs[n].parked)
    BY <2>1, Inv DEF Inv, Decided, TaskMeets
  <2>3. \A k \in DOMAIN jobs' :
          jobs'[k].kind # "delete" /\ (jobs'[k].kind = "idle" => jobs'[k].parked)
    BY <2>2, <1>2
  <2>4. job'.kind # "delete" /\ (job'.kind = "idle" => job'.parked /\ job'.step = "look")
    BY <2>2, <1>4
  <2>5. scan.on => scan.parked
    BY <2>1, Inv DEF Inv, Decided, TaskMeets
  <2> QED BY <1>1, <2>3, <2>4, <2>5 DEF TaskMeets
<1>7. Decided'
  BY Inv, <1>1, <1>3, <1>4, <1>6 DEF Inv, Decided, StepsHold, Looked, YesAlone,
     ContainerSeen, SessionSeen, NothingUnseenLost, EarlyTaskKept, Deletions, JobSet
<1> QED BY <1>5, <1>7 DEF Inv

(* The second look at an unused bundle: a task that was parked still is, or *)
(* the bundle is kept; past it, the task has its build.                     *)
LEMMA IdleAgainKeeps ==
  ASSUME Inv, IdleAgain
  PROVE  Inv'
<1>1. /\ job.step = "look" /\ job.kind = "idle" /\ job \in JobSet
      /\ UNCHANGED <<jobs, container, deletion, held, scan, uses, local, shared, dirty,
                     late, lost, tree, session, kept>>
  BY Inv DEF IdleAgain, At, Inv, Records, JobRecords, Decided, StepsHold, work, here,
     files, bounds
<1>2. CASE tree = "gone" \/ IsRunning \/ uses # job.since \/ LeftQueue
  BY <1>1, <1>2, Inv, JobEnds DEF IdleAgain
<1>3. CASE ~(tree = "gone" \/ IsRunning \/ uses # job.since \/ LeftQueue)
  <2>1. /\ job' = [job EXCEPT !.step = "check"]
        /\ item' = [item EXCEPT !.build = @ \/ job.parked]
    BY <1>3 DEF IdleAgain, Goes
  <2>2. /\ job' \in JobSet /\ job'.step = "check" /\ job'.kind = "idle"
        /\ job'.parked = job.parked
    BY <1>1, <2>1 DEF JobSet, Steps
  <2>3. /\ ItemRecord' /\ item'.on = item.on /\ item'.early = item.early
        /\ item'.build <=> item.build \/ job.parked
    <3>1. item.build \in BOOLEAN /\ job.parked \in BOOLEAN
      BY Inv, <1>1 DEF Inv, Records, ItemRecord, JobSet
    <3>2. PICK b \in BOOLEAN : b = (item.build \/ job.parked)
      BY <3>1
    <3>3. item' = [item EXCEPT !.build = b]
      BY <2>1, <3>2
    <3> QED BY <3>2, <3>3, Inv DEF Inv, Records, ItemRecord
  <2>4. Records'
    BY Inv, <1>1, <2>2, <2>3 DEF Inv, Records, JobRecords, ContainerRecord, AskRecords,
       ScanRecord
  <2>5. TaskMeets'
    BY Inv, <1>1, <2>2, <2>3 DEF Inv, Decided, TaskMeets
  <2>6. Decided'
    BY Inv, <1>1, <1>3, <2>2, <2>3, <2>5 DEF Inv, Decided, StepsHold, Looked, YesAlone,
       ContainerSeen, SessionSeen, NothingUnseenLost, EarlyTaskKept, Deletions
  <2> QED BY <2>4, <2>6 DEF Inv
<1> QED BY <1>2, <1>3

(* The check of the job: what may go is named by the yes, or is not Seb's.  *)
LEMMA JobChecksKeeps ==
  ASSUME Inv, JobChecks
  PROVE  Inv'
<1>1. /\ job.step = "check" /\ job.kind \in Deletions /\ job \in JobSet
      /\ UNCHANGED <<jobs, container, held, scan, uses, local, shared, dirty, lost, tree,
                     session>>
  BY Inv DEF JobChecks, At, Inv, Records, JobRecords, Decided, StepsHold, here, bounds
<1>2. CASE ~JobMayGo
  BY <1>1, <1>2, Inv, RefusedKeeps DEF JobChecks
<1>3. CASE JobMayGo
  <2>1. JobForce \in BOOLEAN
    BY DEF JobForce, NeedsForce
  <2>2. PICK f \in BOOLEAN : f = JobForce
    BY <2>1
  <2>3. /\ job' = [job EXCEPT !.step = "script", !.force = f] /\ UNCHANGED state
        /\ kept' = (kept \/ session) /\ late' = {}
    BY <1>3, <2>2 DEF JobChecks, KeepLastAnswer
  <2>4. /\ job' \in JobSet /\ job'.step = "script" /\ job'.kind = job.kind
        /\ job'.parked = job.parked /\ job'.drop = job.drop /\ job'.force = f
    BY <1>1, <2>3 DEF JobSet, Steps
  <2>5. Records'
    BY Inv, <1>1, <2>3, <2>4 DEF Inv, Records, JobRecords, ItemRecord, ContainerRecord,
       AskRecords, ScanRecord, state
  <2>6. f => local \cap Own \subseteq job.drop /\ ~dirty
    <3>1. CASE job.kind = "delete"
      BY <1>3, <2>2, <3>1 DEF JobMayGo, CheckUncommitted, JobForce, MayGo, HoldsOwnWork
    <3>2. CASE job.kind = "idle"
      BY <1>3, <2>2, <3>2 DEF JobMayGo, CheckUncommitted, JobForce, MayGo, HoldsOwnWork
    <3> QED BY <1>1, <3>1, <3>2 DEF Deletions
  <2>7. Looked'
    BY <1>1, <2>3, <2>4, <2>6 DEF Looked
  <2>8. TaskMeets'
    BY Inv, <1>1, <2>3, <2>4 DEF Inv, Decided, TaskMeets, state
  <2>9. Decided'
    BY Inv, <1>1, <2>3, <2>4, <2>7, <2>8 DEF Inv, Decided, StepsHold, YesAlone,
       ContainerSeen, SessionSeen, NothingUnseenLost, EarlyTaskKept, Deletions, state
  <2> QED BY <2>5, <2>9 DEF Inv
<1> QED BY <1>2, <1>3

(* The script refuses what is not committed nor pushed, unless --force.     *)
LEMMA ScriptLooksKeeps ==
  ASSUME Inv, ScriptLooks
  PROVE  Inv'
<1>1. /\ job.step = "script" /\ job.kind \in Deletions /\ job \in JobSet
      /\ UNCHANGED <<jobs, container, held, scan, uses, local, shared, dirty, late, lost,
                     tree, session, kept>>
  BY Inv DEF ScriptLooks, At, Inv, Records, JobRecords, Decided, StepsHold, work, here,
     files, bounds
<1>2. CASE ~remote /\ ~job.force /\ GetUnsavedWork
  BY <1>1, <1>2, Inv, RefusedKeeps DEF ScriptLooks
<1>3. CASE remote
  BY <1>1, <1>3, Inv, JobEnds DEF ScriptLooks, state
<1>4. CASE ~remote /\ (job.force \/ ~GetUnsavedWork)
  <2>1. job' = [job EXCEPT !.step = "ps"] /\ UNCHANGED state
    BY <1>4 DEF ScriptLooks, Goes
  <2>2. /\ job' \in JobSet /\ job'.step = "ps" /\ job'.kind = job.kind
        /\ job'.parked = job.parked /\ job'.drop = job.drop
    BY <1>1, <2>1 DEF JobSet, Steps
  <2>3. Records'
    BY Inv, <1>1, <2>1, <2>2 DEF Inv, Records, JobRecords, ItemRecord, ContainerRecord,
       AskRecords, ScanRecord, state
  <2>4. Looked'
    BY Inv, <1>1, <1>4, <2>2 DEF Inv, Decided, Looked, GetUnsavedWork
  <2>5. TaskMeets'
    BY Inv, <1>1, <2>1, <2>2 DEF Inv, Decided, TaskMeets, state
  <2>6. Decided'
    BY Inv, <1>1, <2>1, <2>2, <2>4, <2>5 DEF Inv, Decided, StepsHold, YesAlone,
       ContainerSeen, SessionSeen, NothingUnseenLost, EarlyTaskKept, Deletions, state
  <2> QED BY <2>3, <2>6 DEF Inv
<1> QED BY <1>2, <1>3, <1>4

(* It notes the containers that are there, and ends when one runs.          *)
LEMMA ScriptPsKeeps ==
  ASSUME Inv, ScriptPs
  PROVE  Inv'
<1>1. /\ job.step = "ps" /\ job.kind \in Deletions /\ job \in JobSet
      /\ UNCHANGED <<jobs, deletion, item, held, scan, uses, local, shared, dirty, late,
                     lost, tree, session, kept>>
  BY Inv DEF ScriptPs, At, Inv, Records, JobRecords, Decided, StepsHold, work, state,
     files, bounds
<1>2. CASE IsRunning
  BY <1>1, <1>2, Inv, JobEnds DEF ScriptPs
<1>3. CASE ~IsRunning
  <2>1. PICK s \in BOOLEAN : s = (container.state # "none")
    OBVIOUS
  <2>2. /\ job' = [job EXCEPT !.step = "rm", !.seen = s]
        /\ container' = [container EXCEPT !.fresh = FALSE]
    BY <1>3, <2>1 DEF ScriptPs
  <2>3. /\ job' \in JobSet /\ job'.step = "rm" /\ job'.kind = job.kind
        /\ job'.parked = job.parked /\ job'.drop = job.drop /\ job'.seen = s
    BY <1>1, <2>2 DEF JobSet, Steps
  <2>4. ContainerRecord' /\ container'.state = container.state
    BY Inv, <2>2 DEF Inv, Records, ContainerRecord
  <2>5. Records'
    BY Inv, <1>1, <2>3, <2>4 DEF Inv, Records, JobRecords, ItemRecord, AskRecords,
       ScanRecord
  <2>6. Looked' /\ ContainerSeen'
    BY Inv, <1>1, <2>1, <2>3, <2>4 DEF Inv, Decided, Looked, ContainerSeen
  <2>7. TaskMeets'
    BY Inv, <1>1, <2>3 DEF Inv, Decided, TaskMeets
  <2>8. Decided'
    BY Inv, <1>1, <2>3, <2>6, <2>7 DEF Inv, Decided, StepsHold, YesAlone, SessionSeen,
       NothingUnseenLost, EarlyTaskKept, Deletions
  <2> QED BY <2>5, <2>8 DEF Inv
<1> QED BY <1>2, <1>3

(* `podman rm` of the containers it noted, which fails when one runs.       *)
LEMMA ScriptRemovesKeeps ==
  ASSUME Inv, ScriptRemoves
  PROVE  Inv'
<1>1. /\ job.step = "rm" /\ job.kind \in Deletions /\ job \in JobSet
      /\ UNCHANGED <<jobs, held, scan, uses, local, shared, dirty, late, lost, tree,
                     session, kept>>
  BY Inv DEF ScriptRemoves, At, Inv, Records, JobRecords, Decided, StepsHold, work,
     files, bounds
<1>2. CASE job.seen /\ IsRunning
  BY <1>1, <1>2, Inv, RefusedKeeps DEF ScriptRemoves
<1>3. CASE ~(job.seen /\ IsRunning)
  <2>1. /\ job' = [job EXCEPT !.step = "trees"] /\ UNCHANGED state
        /\ container' = IF job.seen THEN NoContainer ELSE container
    BY <1>3 DEF ScriptRemoves, Goes
  <2>2. /\ job' \in JobSet /\ job'.step = "trees" /\ job'.kind = job.kind
        /\ job'.parked = job.parked /\ job'.drop = job.drop
    BY <1>1, <2>1 DEF JobSet, Steps
  <2>3. ContainerRecord'
    BY Inv, <2>1 DEF Inv, Records, ContainerRecord, NoContainer
  <2>4. Records'
    BY Inv, <1>1, <2>1, <2>2, <2>3 DEF Inv, Records, JobRecords, ItemRecord, AskRecords,
       ScanRecord, state
  <2>5. Looked' /\ ContainerSeen'
    BY Inv, <1>1, <2>1, <2>2 DEF Inv, Decided, Looked, ContainerSeen, NoContainer
  <2>6. TaskMeets'
    BY Inv, <1>1, <2>1, <2>2 DEF Inv, Decided, TaskMeets, state
  <2>7. Decided'
    BY Inv, <1>1, <2>1, <2>2, <2>5, <2>6 DEF Inv, Decided, StepsHold, YesAlone,
       SessionSeen, NothingUnseenLost, EarlyTaskKept, Deletions, state
  <2> QED BY <2>4, <2>7 DEF Inv
<1> QED BY <1>2, <1>3

(* The worktree and the branch go: what they hold is in the yes, or in what *)
(* was made since.                                                          *)
LEMMA ScriptTreesKeeps ==
  ASSUME Inv, ScriptTrees
  PROVE  Inv'
<1>1. /\ job.step = "trees" /\ job.kind \in Deletions /\ job \in JobSet
      /\ UNCHANGED <<jobs, held, scan, uses, container, session, kept>>
  BY Inv DEF ScriptTrees, At, Inv, Records, JobRecords, Decided, StepsHold, here, bounds
<1>2. CASE dirty /\ ~job.force
  BY <1>1, <1>2, Inv, RefusedKeeps DEF ScriptTrees, work
<1>3. CASE ~(dirty /\ ~job.force)
  <2>1. /\ job' = [job EXCEPT !.step = "folder"] /\ UNCHANGED state
        /\ local' = {} /\ shared' = {} /\ dirty' = FALSE /\ late' = {}
        /\ tree' = IF tree = "made" THEN "half" ELSE tree
        /\ lost' = lost \cup (((local \cap Own) \cup (IF dirty THEN {File} ELSE {}))
                             \ (job.drop \cup late))
    BY <1>3 DEF ScriptTrees, Goes
  <2>2. /\ job' \in JobSet /\ job'.step = "folder" /\ job'.kind = job.kind
        /\ job'.parked = job.parked /\ job'.drop = job.drop
    BY <1>1, <2>1 DEF JobSet, Steps
  <2>3. Records'
    BY Inv, <1>1, <2>1, <2>2 DEF Inv, Records, JobRecords, ItemRecord, ContainerRecord,
       AskRecords, ScanRecord, state
  <2>4. NothingUnseenLost'
    BY Inv, <1>1, <2>1 DEF Inv, Decided, Looked, NothingUnseenLost
  <2>5. TaskMeets'
    BY Inv, <1>1, <2>1, <2>2 DEF Inv, Decided, TaskMeets, state
  <2>6. Decided'
    BY Inv, <1>1, <2>1, <2>2, <2>4, <2>5 DEF Inv, Decided, StepsHold, YesAlone, Looked,
       ContainerSeen, SessionSeen, EarlyTaskKept, Deletions, state
  <2> QED BY <2>3, <2>6 DEF Inv
<1> QED BY <1>2, <1>3

(* The folder goes: a task that was there before has its build.             *)
LEMMA ScriptFolderKeeps ==
  ASSUME Inv, ScriptFolder
  PROVE  Inv'
<1>1. /\ job.step = "folder" /\ job.kind \in Deletions /\ job' = NoJob
      /\ tree' = "gone" /\ session' = FALSE
      /\ UNCHANGED <<jobs, item, container, deletion, held, scan, uses, local, shared,
                     dirty, late, lost, kept>>
  BY Inv DEF ScriptFolder, At, Inv, Decided, StepsHold, work, state, bounds
<1>2. NoJob \in JobSet
  BY DEF NoJob, NewJob, JobSet, Steps
<1>3. Records'
  BY Inv, <1>1, <1>2 DEF Inv, Records, JobRecords, ItemRecord, ContainerRecord,
     AskRecords, ScanRecord
<1>4. EarlyTaskKept'
  BY Inv, <1>1 DEF Inv, Decided, TaskMeets, EarlyTaskKept, Deletions
<1>5. Decided'
  BY Inv, <1>1, <1>4 DEF Inv, Decided, StepsHold, Looked, TaskMeets, YesAlone,
     ContainerSeen, SessionSeen, NothingUnseenLost, NoJob, NewJob, Deletions
<1> QED BY <1>3, <1>5 DEF Inv

-------------------------------------------------------------------------------
(* No job runs at first, and no task waits.                                 *)
LEMMA InitDecided ==
  ASSUME Init
  PROVE  Inv
<1>1. NoJob \in JobSet
  BY DEF NoJob, NewJob, JobSet, Steps
<1>2. JobRecords
  BY <1>1 DEF Init, JobRecords
<1>3. ItemRecord /\ ContainerRecord /\ AskRecords
  BY DEF Init, ItemRecord, ContainerRecord, AskRecords, NoItem, NoContainer, NoRequest
<1>4. ScanRecord
  BY DEF Init, ScanRecord, NoScan, Commits
<1>5. Decided
  BY DEF Init, Decided, StepsHold, Looked, TaskMeets, YesAlone, ContainerSeen,
     SessionSeen, NothingUnseenLost, EarlyTaskKept, NoJob, NewJob, NoItem, NoRequest,
     Deletions
<1> QED BY <1>2, <1>3, <1>4, <1>5 DEF Inv, Records

(* Every step keeps it.                                                     *)
LEMMA NextDecided ==
  ASSUME Inv, [Next]_vars
  PROVE  Inv'
<1>1. CASE Next
  BY <1>1, Inv, UsersKeep, AgentsKeep, DaemonKeeps, BeginKeeps, IdleAgainKeeps,
     JobChecksKeeps, ScriptLooksKeeps, ScriptPsKeeps, ScriptRemovesKeeps,
     ScriptTreesKeeps, ScriptFolderKeeps DEF Next, Users, Daemon
<1>2. CASE UNCHANGED vars
  <2>1. Records'
    BY <1>2, Inv DEF vars, work, here, state, line, files, bounds, Inv, Records,
       JobRecords, ItemRecord, ContainerRecord, AskRecords, ScanRecord
  <2>2. Decided'
    BY <1>2, Inv DEF vars, work, here, state, line, files, bounds, Inv, Decided,
       StepsHold, Looked, TaskMeets, YesAlone, ContainerSeen, SessionSeen,
       NothingUnseenLost, EarlyTaskKept
  <2> QED BY <2>1, <2>2 DEF Inv
<1> QED BY <1>1, <1>2

(* The worktrees and the folder go in two steps of the script, past its     *)
(* `podman rm`.                                                             *)
LEMMA TreesStep ==
  ASSUME Inv, [Next]_vars, tree' # tree, tree' \in {"half", "gone"}
  PROVE  ~(IsRunning /\ ~container.fresh)
<1>1. ScriptTrees \/ ScriptFolder
  BY DEF vars, work, here, state, line, files, bounds, Next, Users, Daemon, Commit, Edit,
     Push, ClosePR, OpenByHand, WindowCloses, Ask, Yes, Unpark, Enqueue, DropTask,
     Launch, CloseDeleted, DeleteStopped, IdleLooks, IdleStarts, Begin, OpenTerminal,
     IdleAgain, JobChecks, ScriptLooks, ScriptPs, ScriptRemoves, Restart, EndTurn,
     TerminalUp, Build, RemoteEnds, TimePasses
<1>2. job.step \in {"trees", "folder"}
  BY <1>1 DEF ScriptTrees, ScriptFolder, At
<1> QED BY Inv, <1>2 DEF Inv, Decided, ContainerSeen, IsRunning

(* A session goes with its folder, by the last step of the script.          *)
LEMMA SessionStep ==
  ASSUME Inv, [Next]_vars, session, ~session'
  PROVE  kept
<1>1. ScriptFolder
  BY DEF vars, work, here, state, line, files, bounds, Next, Users, Daemon, Commit, Edit,
     Push, ClosePR, OpenByHand, WindowCloses, Ask, Yes, Unpark, Enqueue, DropTask,
     Launch, CloseDeleted, DeleteStopped, IdleLooks, IdleStarts, Begin, OpenTerminal,
     IdleAgain, JobChecks, ScriptLooks, ScriptPs, ScriptRemoves, ScriptTrees, Restart,
     EndTurn, TerminalUp, Build, RemoteEnds, TimePasses
<1>2. job.step = "folder"
  BY <1>1 DEF ScriptFolder, At
<1> QED BY Inv, <1>2 DEF Inv, Decided, SessionSeen

-------------------------------------------------------------------------------
(* A deletion takes what its yes or its look showed, and no waiting task.   *)
THEOREM NothingShownLost == Spec => []LosesNothing
<1>1. Init => Inv
  BY InitDecided
<1>2. Inv /\ [Next]_vars => Inv'
  BY NextDecided
<1>3. Inv => LosesNothing
  BY DEF Inv, Decided, LosesNothing
<1> QED BY <1>1, <1>2, <1>3, PTL DEF Spec

(* What a deletion takes goes once nothing uses it: the worktrees under no  *)
(* container that runs but one made meanwhile, a session once it is kept.   *)
THEOREM GoesInOrder == Spec => DeletesInOrder
<1>1. Init => Inv
  BY InitDecided
<1>2. Inv /\ [Next]_vars => Inv'
  BY NextDecided
<1>3. Inv /\ [Next]_vars =>
        [(tree' # tree /\ tree' \in {"half", "gone"}) =>
           ~(IsRunning /\ ~container.fresh)]_vars
  BY TreesStep
<1>4. Inv /\ [Next]_vars => [session /\ ~session' => kept]_vars
  BY SessionStep
<1> QED BY <1>1, <1>2, <1>3, <1>4, PTL
      DEF Spec, DeletesInOrder, NoTreeUnderContainer, SessionKept
-----------------------------------------------------------------------------
(* The making of a bundle (Build).                                          *)

(* The records of a bundle, which its steps update field by field.          *)
Kinds == {"ask", "build", "worker", "spawn", "terminal", "remote", "reopen", "delete"}
BuildJobSet ==
  [kind : Kinds, script : B!Scripts \cup {"none"}, parked : BOOLEAN, seen : SUBSET Repos]
ItemSet ==
  [on : BOOLEAN, build : B!Scripts \cup {"none"}, resume : BOOLEAN, parked : BOOLEAN,
   local : BOOLEAN]
ScriptPhases == {"folder", "repos", "tooling", "mark", "end"}

(* What runs is a script or a deletion, by its phase.                       *)
RunRecord ==
  \/ run = B!NoRun
  \/ /\ run \in [job : BuildJobSet, phase : ScriptPhases, todo : SUBSET Repos]
     /\ run.job.kind \in B!Builders
  \/ /\ run \in [job : BuildJobSet, phase : {"delete"}, todo : {{}}]
     /\ run.job.kind = "delete"
LineRecords == buildJobs \subseteq BuildJobSet /\ RunRecord
BuildItemRecord == buildItem \in ItemSet
BundleRecords ==
  /\ repo \in [Repos -> {"none", "cut", "there"}] /\ buildWork \subseteq Repos
  /\ folder \in BOOLEAN /\ agentDir \in BOOLEAN /\ tooling \in BOOLEAN /\ made \in BOOLEAN
  /\ builds \in B!Scripts \cup {"none"} /\ agent \in {"none", "starting", "here", "worker"}
  /\ building \in BOOLEAN /\ again \in BOOLEAN /\ crossed \in BOOLEAN /\ buildIdle \in BOOLEAN

BuildRecords == LineRecords /\ BuildItemRecord /\ BundleRecords

(* A create, a fetch and a `bctl build` are asked of a bundle with no       *)
(* unpushed commit.                                                         *)
Seen(j) == j.kind \in {"ask", "build"} => j.seen = {}
SeenNothing == (\A j \in buildJobs : Seen(j)) /\ Seen(run.job)

(* How far the script is tells what is there; one that works on a bundle    *)
(* with the mark began on it so.                                            *)
ScriptOn ==
  /\ run.phase = "folder" => run.todo = Repos
  /\ run.phase = "repos" => \A r \in Repos \ run.todo : repo[r] = "there"
  /\ run.phase \in {"tooling", "mark", "end"} => \A r \in Repos : repo[r] = "there"
  /\ run.phase = "mark" => tooling
  /\ run.phase = "end" => made
  /\ run.phase \in {"folder", "repos", "tooling", "mark"} /\ made => again

(* Who is to start here finds the bundle, or a script to make it with: a    *)
(* task without one of its own, an agent, the terminal that was asked, and  *)
(* so does any bare folder.                                                 *)
CanBuild == made \/ builds # "none" \/ crossed
StartsRight ==
  /\ buildItem.on /\ buildItem.build = "none" => CanBuild
  /\ agent \in {"starting", "here"} => CanBuild
  /\ \A j \in buildJobs : j.kind = "terminal" => CanBuild
  /\ B!IsBare => CanBuild
  /\ ~folder => ~agentDir

(* At most one start waits: its agent is starting, in a folder.             *)
OneStart ==
  /\ \A j \in buildJobs : j.kind \in {"spawn", "remote"} => agent = "starting" /\ folder
  /\ \A j, k \in buildJobs : {j.kind, k.kind} \subseteq {"spawn", "remote"} => j = k

(* A worker gets a bundle that is made, from when its start waits.          *)
WorkerMade ==
  /\ \A j \in buildJobs : j.kind = "remote" => made \/ crossed
  /\ agent = "worker" => made \/ crossed

(* Nobody is in a bundle that is unused, nor in one that is being deleted.  *)
DeletesIdle ==
  /\ buildIdle => agent = "none"
  /\ run.phase = "delete" => agent = "none" /\ CanBuild

BuildRules ==
  /\ SeenNothing /\ ScriptOn /\ StartsRight /\ OneStart /\ WorkerMade /\ DeletesIdle
  /\ MadeRight /\ WorkKept

BuildInv == BuildRecords /\ BuildRules

-------------------------------------------------------------------------------
(* A job that is asked: what it saw, and the jobs that wait then.           *)
LEMMA BuildJobAdded ==
  ASSUME BuildInv, NEW kind \in Kinds, NEW script \in B!Scripts \cup {"none"},
         NEW parked \in BOOLEAN,
         kind \in {"ask", "build"} => buildWork = {},
         buildJobs' = buildJobs \cup {B!Job(kind, script, parked)}
  PROVE  \E j \in BuildJobSet : buildJobs' = buildJobs \cup {j} /\ j.kind = kind /\ Seen(j)
<1> DEFINE asked == B!Job(kind, script, parked)
<1>1. asked \in BuildJobSet /\ asked.kind = kind /\ asked.seen = buildWork
  BY DEF B!Job, BuildJobSet, BuildInv, BuildRecords, BundleRecords
<1> QED BY <1>1 DEF Seen

LEMMA InitMade == B!Init => BuildInv
<1> SUFFICES ASSUME B!Init PROVE BuildInv
  OBVIOUS
<1> USE DEF B!Init, B!NoRun, B!NoJob, B!None
<1>1. LineRecords /\ BundleRecords
  BY DEF LineRecords, RunRecord, BundleRecords, B!Scripts
<1>2. BuildItemRecord
  BY DEF BuildItemRecord, ItemSet, B!NoItem, B!Scripts
<1>3. SeenNothing /\ ScriptOn /\ StartsRight /\ OneStart /\ WorkerMade /\ DeletesIdle
  BY DEF SeenNothing, Seen, ScriptOn, StartsRight, CanBuild, OneStart, WorkerMade, DeletesIdle,
         B!NoItem, B!IsBare
<1>4. MadeRight /\ WorkKept
  BY DEF MadeRight, B!MadeRight, B!MadeWhole, B!AgentCanBuild, B!WorkerGetsMade, B!BuildingRight,
         WorkKept, B!WorkKept
<1> QED BY <1>1, <1>2, <1>3, <1>4 DEF BuildInv, BuildRecords, BuildRules

(* Every step of the daemon, of its scripts and of who uses the bundle.     *)
LEMMA NextMade ==
  ASSUME BuildInv, B!Next
  PROVE  BuildInv'
<1> USE DEF BuildInv, BuildRecords, LineRecords, RunRecord, BuildItemRecord, BundleRecords,
           BuildRules, BuildJobSet, Kinds,
         ItemSet, ScriptPhases, SeenNothing, Seen, ScriptOn, CanBuild, StartsRight, OneStart,
         WorkerMade, DeletesIdle, MadeRight, WorkKept, B!MadeRight, B!MadeWhole, B!AgentCanBuild,
         B!WorkerGetsMade, B!BuildingRight, B!WorkKept, B!tree, B!branch, B!state, B!line,
         B!ghosts, B!bounds, B!None, B!NoItem, B!NewItem, B!NoJob, B!NoRun, B!Running, B!Of,
         B!Scripts, B!Builders, B!IsBare, B!IsDeleting, B!IsParked, B!Used, B!Ask, B!IsUnbuilt,
         B!GetAgentWorker, B!Starts, B!Begins, B!At, B!Goes, B!SameState, B!Resets, B!ItemAfter,
         B!Frees, B!EndsScript, B!BuildingAfter
<1>1. ASSUME NEW s \in B!Scripts, B!AsksBundle(s) PROVE BuildInv'
  <2>1. PICK j \in BuildJobSet : buildJobs' = buildJobs \cup {j} /\ j.kind = "ask" /\ Seen(j)
    BY <1>1, BuildJobAdded DEF B!CheckUnpushed, B!AsksBundle
  <2>2. LineRecords'
    BY <1>1, <2>1 DEF B!AsksBundle
  <2>3. BuildItemRecord'
    BY <1>1, <2>1 DEF B!AsksBundle
  <2>4. BundleRecords'
    BY <1>1, <2>1 DEF B!AsksBundle
  <2>5. SeenNothing' /\ WorkKept'
    BY <1>1, <2>1 DEF B!AsksBundle
  <2>6. ScriptOn'
    BY <1>1, <2>1 DEF B!AsksBundle
  <2>7. StartsRight'
    BY <1>1, <2>1 DEF B!AsksBundle
  <2>8. OneStart'
    BY <1>1, <2>1 DEF B!AsksBundle
  <2>9. WorkerMade'
    BY <1>1, <2>1 DEF B!AsksBundle
  <2>10. DeletesIdle'
    BY <1>1, <2>1 DEF B!AsksBundle
  <2>11. MadeRight'
    BY <1>1, <2>1 DEF B!AsksBundle
  <2> QED BY <2>2, <2>3, <2>4, <2>5, <2>6, <2>7, <2>8, <2>9, <2>10, <2>11
<1>2. ASSUME NEW s \in B!Scripts, B!AsksTask(s) PROVE BuildInv'
  <2>1. BuildRecords'
    BY <1>2 DEF B!AsksTask
  <2>2. BuildRules'
    BY <1>2 DEF B!AsksTask
  <2> QED BY <2>1, <2>2
<1>3. ASSUME B!QueuesTask PROVE BuildInv'
  <2>1. BuildRecords'
    BY <1>3 DEF B!QueuesTask
  <2>2. BuildRules'
    BY <1>3 DEF B!QueuesTask
  <2> QED BY <2>1, <2>2
<1>4. ASSUME B!OpensTerminal PROVE BuildInv'
  <2>1. PICK j \in BuildJobSet : buildJobs' = buildJobs \cup {j} /\ j.kind = "terminal" /\ Seen(j)
    BY <1>4, BuildJobAdded DEF B!CheckUnpushed, B!OpensTerminal
  <2>2. LineRecords'
    BY <1>4, <2>1 DEF B!OpensTerminal
  <2>3. BuildItemRecord'
    BY <1>4, <2>1 DEF B!OpensTerminal
  <2>4. BundleRecords'
    BY <1>4, <2>1 DEF B!OpensTerminal
  <2>5. BuildRules'
    <3>1. SeenNothing'
      BY <1>4, <2>1 DEF B!OpensTerminal
    <3>2. ScriptOn'
      BY <1>4, <2>1 DEF B!OpensTerminal
    <3>3. StartsRight'
      BY <1>4, <2>1 DEF B!OpensTerminal
    <3>4. OneStart'
      BY <1>4, <2>1 DEF B!OpensTerminal
    <3>5. WorkerMade'
      BY <1>4, <2>1 DEF B!OpensTerminal
    <3>6. DeletesIdle'
      BY <1>4, <2>1 DEF B!OpensTerminal
    <3>7. MadeRight'
      BY <1>4, <2>1 DEF B!OpensTerminal
    <3>8. WorkKept'
      BY <1>4, <2>1 DEF B!OpensTerminal
    <3> QED BY <3>1, <3>2, <3>3, <3>4, <3>5, <3>6, <3>7, <3>8
  <2> QED BY <2>2, <2>3, <2>4, <2>5
<1>5. ASSUME B!Reopens PROVE BuildInv'
  <2>1. PICK j \in BuildJobSet : buildJobs' = buildJobs \cup {j} /\ j.kind = "reopen" /\ Seen(j)
    BY <1>5, BuildJobAdded DEF B!CheckUnpushed, B!Reopens
  <2>2. LineRecords'
    BY <1>5, <2>1 DEF B!Reopens
  <2>3. BuildItemRecord'
    BY <1>5, <2>1 DEF B!Reopens
  <2>4. BundleRecords'
    BY <1>5, <2>1 DEF B!Reopens
  <2>5. BuildRules'
    <3>1. SeenNothing'
      BY <1>5, <2>1 DEF B!Reopens
    <3>2. ScriptOn'
      BY <1>5, <2>1 DEF B!Reopens
    <3>3. StartsRight'
      BY <1>5, <2>1 DEF B!Reopens
    <3>4. OneStart'
      BY <1>5, <2>1 DEF B!Reopens
    <3>5. WorkerMade'
      BY <1>5, <2>1 DEF B!Reopens
    <3>6. DeletesIdle'
      BY <1>5, <2>1 DEF B!Reopens
    <3>7. MadeRight'
      BY <1>5, <2>1 DEF B!Reopens
    <3>8. WorkKept'
      BY <1>5, <2>1 DEF B!Reopens
    <3> QED BY <3>1, <3>2, <3>3, <3>4, <3>5, <3>6, <3>7, <3>8
  <2> QED BY <2>2, <2>3, <2>4, <2>5
<1>6. ASSUME B!Parks PROVE BuildInv'
  <2>1. LineRecords'
    BY <1>6 DEF B!Parks
  <2>2. BuildItemRecord'
    BY <1>6 DEF B!Parks
  <2>3. BundleRecords'
    BY <1>6 DEF B!Parks
  <2>4. BuildRules'
    BY <1>6 DEF B!Parks
  <2> QED BY <2>1, <2>2, <2>3, <2>4
<1>7. ASSUME B!Resumes PROVE BuildInv'
  <2>1. LineRecords'
    BY <1>7 DEF B!Resumes
  <2>2. BuildItemRecord'
    BY <1>7 DEF B!Resumes
  <2>3. BundleRecords'
    BY <1>7 DEF B!Resumes
  <2>4. BuildRules'
    BY <1>7 DEF B!Resumes
  <2> QED BY <2>1, <2>2, <2>3, <2>4
<1>8. ASSUME B!Unqueues PROVE BuildInv'
  BY <1>8 DEF B!Unqueues
<1>9. ASSUME B!PassDrops PROVE BuildInv'
  BY <1>9 DEF B!PassDrops
<1>10. ASSUME B!PassBuilds PROVE BuildInv'
  <2>1. PICK j \in BuildJobSet : buildJobs' = buildJobs \cup {j} /\ j.kind = "worker" /\ Seen(j)
    BY <1>10, BuildJobAdded DEF B!CheckUnpushed, B!PassBuilds
  <2>2. LineRecords'
    BY <1>10, <2>1 DEF B!PassBuilds
  <2>3. BuildItemRecord'
    BY <1>10, <2>1 DEF B!PassBuilds
  <2>4. BundleRecords'
    BY <1>10, <2>1 DEF B!PassBuilds
  <2>5. BuildRules'
    <3>1. SeenNothing'
      BY <1>10, <2>1 DEF B!PassBuilds
    <3>2. ScriptOn'
      BY <1>10, <2>1 DEF B!PassBuilds
    <3>3. StartsRight'
      BY <1>10, <2>1 DEF B!PassBuilds
    <3>4. OneStart'
      BY <1>10, <2>1 DEF B!PassBuilds
    <3>5. WorkerMade'
      BY <1>10, <2>1 DEF B!PassBuilds
    <3>6. DeletesIdle'
      BY <1>10, <2>1 DEF B!PassBuilds
    <3>7. MadeRight'
      BY <1>10, <2>1 DEF B!PassBuilds
    <3>8. WorkKept'
      BY <1>10, <2>1 DEF B!PassBuilds
    <3> QED BY <3>1, <3>2, <3>3, <3>4, <3>5, <3>6, <3>7, <3>8
  <2> QED BY <2>2, <2>3, <2>4, <2>5
<1>11. ASSUME B!PassSends PROVE BuildInv'
  <2>1. PICK j \in BuildJobSet : buildJobs' = buildJobs \cup {j} /\ j.kind = "remote" /\ Seen(j)
    BY <1>11, BuildJobAdded DEF B!CheckUnpushed, B!PassSends
  <2>2. LineRecords'
    BY <1>11, <2>1 DEF B!PassSends
  <2>3. BuildItemRecord'
    BY <1>11, <2>1 DEF B!PassSends
  <2>4. BundleRecords'
    BY <1>11, <2>1 DEF B!PassSends
  <2>5. SeenNothing' /\ WorkKept'
    BY <1>11, <2>1 DEF B!PassSends
  <2>6. ScriptOn'
    BY <1>11, <2>1 DEF B!PassSends
  <2>7. StartsRight'
    BY <1>11, <2>1 DEF B!PassSends
  <2>8. OneStart'
    BY <1>11, <2>1 DEF B!PassSends
  <2>9. WorkerMade'
    BY <1>11, <2>1 DEF B!PassSends
  <2>10. DeletesIdle'
    BY <1>11, <2>1 DEF B!PassSends
  <2>11. MadeRight'
    BY <1>11, <2>1 DEF B!PassSends
  <2> QED BY <2>2, <2>3, <2>4, <2>5, <2>6, <2>7, <2>8, <2>9, <2>10, <2>11
<1>12. ASSUME B!PassStarts PROVE BuildInv'
  <2>1. PICK j \in BuildJobSet : buildJobs' = buildJobs \cup {j} /\ j.kind = "spawn" /\ Seen(j)
    BY <1>12, BuildJobAdded DEF B!CheckUnpushed, B!PassStarts
  <2>2. LineRecords'
    BY <1>12, <2>1 DEF B!PassStarts
  <2>3. BuildItemRecord'
    BY <1>12, <2>1 DEF B!PassStarts
  <2>4. BundleRecords'
    BY <1>12, <2>1 DEF B!PassStarts
  <2>5. SeenNothing' /\ WorkKept'
    BY <1>12, <2>1 DEF B!PassStarts
  <2>6. ScriptOn'
    BY <1>12, <2>1 DEF B!PassStarts
  <2>7. StartsRight'
    BY <1>12, <2>1 DEF B!PassStarts
  <2>8. OneStart'
    BY <1>12, <2>1 DEF B!PassStarts
  <2>9. WorkerMade'
    BY <1>12, <2>1 DEF B!PassStarts
  <2>10. DeletesIdle'
    BY <1>12, <2>1 DEF B!PassStarts
  <2>11. MadeRight'
    BY <1>12, <2>1 DEF B!PassStarts
  <2> QED BY <2>2, <2>3, <2>4, <2>5, <2>6, <2>7, <2>8, <2>9, <2>10, <2>11
<1>13. ASSUME B!AgentBuilds PROVE BuildInv'
  <2>1. CASE buildItem' = B!NewItem(builds, TRUE, FALSE, FALSE) /\ UNCHANGED buildJobs
    <3>1. LineRecords' /\ BuildItemRecord' /\ BundleRecords'
      BY <1>13, <2>1 DEF B!AgentBuilds
    <3>2. BuildRules'
      BY <1>13, <2>1 DEF B!AgentBuilds
    <3> QED BY <3>1, <3>2
  <2>2. CASE B!CheckUnpushed /\ buildJobs' = buildJobs \cup {B!Job("build", builds, FALSE)}
                /\ UNCHANGED buildItem
    <3>1. PICK j \in BuildJobSet : buildJobs' = buildJobs \cup {j} /\ j.kind = "build" /\ Seen(j)
      BY <2>2, BuildJobAdded DEF B!CheckUnpushed
    <3>2. LineRecords'
      BY <1>13, <2>2, <3>1 DEF B!AgentBuilds
    <3>3. BuildItemRecord' /\ BundleRecords'
      BY <1>13, <2>2 DEF B!AgentBuilds
    <3>4. BuildRules'
      BY <1>13, <2>2, <3>1 DEF B!AgentBuilds
    <3> QED BY <3>2, <3>3, <3>4
  <2> QED BY <1>13, <2>1, <2>2 DEF B!AgentBuilds
<1>14. ASSUME B!AgentEnds PROVE BuildInv'
  <2>1. LineRecords'
    BY <1>14 DEF B!AgentEnds
  <2>2. BuildItemRecord'
    BY <1>14 DEF B!AgentEnds
  <2>3. BundleRecords'
    BY <1>14 DEF B!AgentEnds
  <2>4. BuildRules'
    BY <1>14 DEF B!AgentEnds
  <2> QED BY <2>1, <2>2, <2>3, <2>4
<1>15. ASSUME NEW r \in Repos, B!Commits(r) PROVE BuildInv'
  <2>1. LineRecords'
    BY <1>15 DEF B!Commits
  <2>2. BuildItemRecord'
    BY <1>15 DEF B!Commits
  <2>3. BundleRecords'
    BY <1>15 DEF B!Commits
  <2>4. BuildRules'
    BY <1>15 DEF B!Commits
  <2> QED BY <2>1, <2>2, <2>3, <2>4
<1>16. ASSUME B!Pushes PROVE BuildInv'
  BY <1>16 DEF B!Pushes
<1>17. ASSUME B!TimePasses PROVE BuildInv'
  BY <1>17 DEF B!TimePasses
<1>18. ASSUME NEW j \in buildJobs, B!RunsScript(j) PROVE BuildInv'
  BY <1>18 DEF B!RunsScript
<1>19. ASSUME NEW j \in buildJobs, B!RunsSpawn(j) PROVE BuildInv'
  <2>1. LineRecords'
    BY <1>19 DEF B!RunsSpawn
  <2>2. BuildItemRecord'
    BY <1>19 DEF B!RunsSpawn
  <2>3. BundleRecords'
    BY <1>19 DEF B!RunsSpawn
  <2>4. BuildRules'
    BY <1>19 DEF B!RunsSpawn
  <2> QED BY <2>1, <2>2, <2>3, <2>4
<1>20. ASSUME NEW j \in buildJobs, B!RunsTerminal(j) PROVE BuildInv'
  <2>1. LineRecords'
    BY <1>20 DEF B!RunsTerminal
  <2>2. BuildItemRecord'
    BY <1>20 DEF B!RunsTerminal
  <2>3. BundleRecords'
    BY <1>20 DEF B!RunsTerminal
  <2>4. BuildRules'
    BY <1>20 DEF B!RunsTerminal
  <2> QED BY <2>1, <2>2, <2>3, <2>4
<1>21. ASSUME NEW j \in buildJobs, B!RunsRemote(j) PROVE BuildInv'
  <2>1. LineRecords' /\ BundleRecords'
    BY <1>21 DEF B!RunsRemote
  <2>2. BuildItemRecord'
    <3>1. B!NewItem("none", TRUE, FALSE, TRUE) \in ItemSet
      OBVIOUS
    <3> QED BY <1>21, <3>1 DEF B!RunsRemote
  <2>3. BuildRules'
    BY <1>21 DEF B!RunsRemote
  <2> QED BY <2>1, <2>2, <2>3
<1>22. ASSUME NEW j \in buildJobs, B!RunsReopen(j) PROVE BuildInv'
  <2>1. LineRecords'
    BY <1>22 DEF B!RunsReopen
  <2>2. BuildItemRecord'
    BY <1>22 DEF B!RunsReopen
  <2>3. BundleRecords'
    BY <1>22 DEF B!RunsReopen
  <2>4. SeenNothing' /\ WorkKept'
    BY <1>22 DEF B!RunsReopen
  <2>5. ScriptOn'
    BY <1>22 DEF B!RunsReopen
  <2>6. StartsRight'
    BY <1>22 DEF B!RunsReopen
  <2>7. OneStart'
    BY <1>22 DEF B!RunsReopen
  <2>8. WorkerMade'
    BY <1>22 DEF B!RunsReopen
  <2>9. DeletesIdle'
    BY <1>22 DEF B!RunsReopen
  <2>10. MadeRight'
    BY <1>22 DEF B!RunsReopen
  <2> QED BY <2>1, <2>2, <2>3, <2>4, <2>5, <2>6, <2>7, <2>8, <2>9, <2>10
<1>23. ASSUME B!PreparesFolder PROVE BuildInv'
  <2>1. LineRecords'
    BY <1>23 DEF B!PreparesFolder
  <2>2. BuildItemRecord'
    BY <1>23 DEF B!PreparesFolder
  <2>3. BundleRecords'
    BY <1>23 DEF B!PreparesFolder
  <2>4. SeenNothing' /\ WorkKept'
    BY <1>23 DEF B!PreparesFolder
  <2>5. ScriptOn'
    BY <1>23 DEF B!PreparesFolder
  <2>6. StartsRight'
    BY <1>23 DEF B!PreparesFolder
  <2>7. OneStart'
    BY <1>23 DEF B!PreparesFolder
  <2>8. WorkerMade'
    BY <1>23 DEF B!PreparesFolder
  <2>9. DeletesIdle'
    BY <1>23 DEF B!PreparesFolder
  <2>10. MadeRight'
    BY <1>23 DEF B!PreparesFolder
  <2> QED BY <2>1, <2>2, <2>3, <2>4, <2>5, <2>6, <2>7, <2>8, <2>9, <2>10
<1>24. ASSUME NEW r \in Repos, B!AddsWorktree(r) PROVE BuildInv'
  <2>1. LineRecords' /\ BuildItemRecord' /\ BundleRecords'
    BY <1>24 DEF B!AddsWorktree
  <2>2. SeenNothing' /\ ScriptOn' /\ StartsRight' /\ OneStart' /\ WorkerMade' /\ DeletesIdle'
    BY <1>24 DEF B!AddsWorktree
  <2>3. MadeRight'
    BY <1>24 DEF B!AddsWorktree
  <2>4. WorkKept'
    <3>1. run.job.kind = "worker" \/ r \notin run.job.seen
      BY <1>24 DEF B!AddsWorktree
    <3>2. buildLost' \subseteq buildLost \cup {<<run.job.kind, r \in run.job.seen>>}
      BY <1>24 DEF B!AddsWorktree
    <3>3. ASSUME NEW l, l = <<run.job.kind, r \in run.job.seen>>, l[1] # "worker" PROVE ~l[2]
      BY <3>1, <3>3
    <3> QED BY <3>2, <3>3
  <2> QED BY <2>1, <2>2, <2>3, <2>4
<1>25. ASSUME B!ClearsTooling PROVE BuildInv'
  <2>1. LineRecords'
    BY <1>25 DEF B!ClearsTooling
  <2>2. BuildItemRecord'
    BY <1>25 DEF B!ClearsTooling
  <2>3. BundleRecords'
    BY <1>25 DEF B!ClearsTooling
  <2>4. BuildRules'
    BY <1>25 DEF B!ClearsTooling
  <2> QED BY <2>1, <2>2, <2>3, <2>4
<1>26. ASSUME B!AddsTooling PROVE BuildInv'
  BY <1>26 DEF B!AddsTooling
<1>27. ASSUME B!Marks PROVE BuildInv'
  BY <1>27 DEF B!Marks
<1>28. ASSUME B!ScriptDone PROVE BuildInv'
  <2>1. LineRecords'
    BY <1>28 DEF B!ScriptDone
  <2>2. BuildItemRecord'
    BY <1>28 DEF B!ScriptDone
  <2>3. BundleRecords'
    BY <1>28 DEF B!ScriptDone
  <2>4. BuildRules'
    <3>1. SeenNothing'
      BY <1>28 DEF B!ScriptDone
    <3>2. ScriptOn'
      BY <1>28 DEF B!ScriptDone
    <3>3. StartsRight'
      BY <1>28 DEF B!ScriptDone
    <3>4. OneStart'
      BY <1>28 DEF B!ScriptDone
    <3>5. WorkerMade'
      BY <1>28 DEF B!ScriptDone
    <3>6. DeletesIdle'
      BY <1>28 DEF B!ScriptDone
    <3>7. MadeRight'
      BY <1>28 DEF B!ScriptDone
    <3>8. WorkKept'
      BY <1>28 DEF B!ScriptDone
    <3> QED BY <3>1, <3>2, <3>3, <3>4, <3>5, <3>6, <3>7, <3>8
  <2> QED BY <2>1, <2>2, <2>3, <2>4
<1>29. ASSUME B!ScriptFails PROVE BuildInv'
  <2>1. LineRecords'
    BY <1>29 DEF B!ScriptFails
  <2>2. BuildItemRecord'
    BY <1>29 DEF B!ScriptFails
  <2>3. BundleRecords'
    BY <1>29 DEF B!ScriptFails
  <2>4. BuildRules'
    <3>1. SeenNothing'
      BY <1>29 DEF B!ScriptFails
    <3>2. ScriptOn'
      BY <1>29 DEF B!ScriptFails
    <3>3. StartsRight'
      BY <1>29 DEF B!ScriptFails
    <3>4. OneStart'
      BY <1>29 DEF B!ScriptFails
    <3>5. WorkerMade'
      BY <1>29 DEF B!ScriptFails
    <3>6. DeletesIdle'
      BY <1>29 DEF B!ScriptFails
    <3>7. MadeRight'
      BY <1>29 DEF B!ScriptFails
    <3>8. WorkKept'
      BY <1>29 DEF B!ScriptFails
    <3> QED BY <3>1, <3>2, <3>3, <3>4, <3>5, <3>6, <3>7, <3>8
  <2> QED BY <2>1, <2>2, <2>3, <2>4
<1>30. ASSUME B!DropsIdle PROVE BuildInv'
  <2>1. PICK j \in BuildJobSet : buildJobs' = buildJobs \cup {j} /\ j.kind = "delete" /\ Seen(j)
    BY <1>30, BuildJobAdded DEF B!CheckUnpushed, B!DropsIdle
  <2>2. LineRecords'
    BY <1>30, <2>1 DEF B!DropsIdle
  <2>3. BuildItemRecord'
    BY <1>30, <2>1 DEF B!DropsIdle
  <2>4. BundleRecords'
    BY <1>30, <2>1 DEF B!DropsIdle
  <2>5. BuildRules'
    BY <1>30, <2>1 DEF B!DropsIdle
  <2> QED BY <2>2, <2>3, <2>4, <2>5
<1>31. ASSUME NEW j \in buildJobs, B!RunsDeletion(j) PROVE BuildInv'
  BY <1>31 DEF B!RunsDeletion
<1>32. ASSUME B!Deletes PROVE BuildInv'
  <2>1. LineRecords'
    BY <1>32 DEF B!Deletes
  <2>2. BuildItemRecord'
    BY <1>32 DEF B!Deletes
  <2>3. BundleRecords'
    <3>1. repo' \in [Repos -> {"none", "cut", "there"}] /\ buildWork' \subseteq Repos
      BY <1>32 DEF B!Deletes
    <3>2. /\ folder' \in BOOLEAN /\ agentDir' \in BOOLEAN
          /\ tooling' \in BOOLEAN /\ made' \in BOOLEAN
      BY <1>32 DEF B!Deletes
    <3>3. builds' \in B!Scripts \cup {"none"} /\ crossed' \in BOOLEAN
      BY <1>32 DEF B!Deletes
    <3>4. UNCHANGED <<agent, building, again, buildIdle>>
      BY <1>32 DEF B!Deletes
    <3> QED BY <3>1, <3>2, <3>3, <3>4
  <2>4. BuildRules'
    <3>1. SeenNothing'
      BY <1>32 DEF B!Deletes
    <3>2. ScriptOn'
      BY <1>32 DEF B!Deletes
    <3>3. StartsRight'
      BY <1>32 DEF B!Deletes
    <3>4. OneStart'
      BY <1>32 DEF B!Deletes
    <3>5. WorkerMade'
      BY <1>32 DEF B!Deletes
    <3>6. DeletesIdle'
      BY <1>32 DEF B!Deletes
    <3>7. MadeRight'
      BY <1>32 DEF B!Deletes
    <3>8. WorkKept'
      BY <1>32 DEF B!Deletes
    <3> QED BY <3>1, <3>2, <3>3, <3>4, <3>5, <3>6, <3>7, <3>8
  <2> QED BY <2>1, <2>2, <2>3, <2>4
<1>33. ASSUME B!Restart PROVE BuildInv'
  <2>1. LineRecords' /\ BuildItemRecord'
    BY <1>33 DEF B!Restart
  <2>2. BundleRecords'
    <3>1. repo' \in [Repos -> {"none", "cut", "there"}]
      BY <1>33 DEF B!Restart
    <3> QED BY <1>33, <3>1 DEF B!Restart
  <2>3. BuildRules'
    BY <1>33 DEF B!Restart
  <2> QED BY <2>1, <2>2, <2>3
<1> QED
  BY <1>1, <1>2, <1>3, <1>4, <1>5, <1>6, <1>7, <1>8, <1>9, <1>10, <1>11, <1>12, <1>13,
     <1>14, <1>15, <1>16, <1>17, <1>18, <1>19, <1>20, <1>21, <1>22, <1>23, <1>24, <1>25, <1>26,
     <1>27, <1>28, <1>29, <1>30, <1>31, <1>32, <1>33
     DEF B!Next, B!Pass, B!Runs, B!Script, B!OthersAct

LEMMA StepMade ==
  ASSUME BuildInv, [B!Next]_(B!vars)
  PROVE  BuildInv'
<1>1. CASE UNCHANGED B!vars
  BY <1>1 DEF B!vars, B!tree, B!branch, B!state, B!line, B!ghosts, B!bounds, BuildInv,
     BuildRecords, LineRecords, RunRecord, BuildItemRecord, BundleRecords, BuildRules, SeenNothing,
     ScriptOn, StartsRight, CanBuild, OneStart, WorkerMade, DeletesIdle, MadeRight, B!MadeRight,
     B!MadeWhole, B!AgentCanBuild, B!WorkerGetsMade, B!BuildingRight, B!Of, B!Running, B!IsBare,
     WorkKept, B!WorkKept
<1> QED BY <1>1, NextMade

(* No create, fetch or `bctl build` resets a commit no remote has, made     *)
(* before it was asked, however long its job waited (check_unpushed).       *)
THEOREM NoWorkReset == B!Spec => []WorkKept
<1>1. BuildInv => WorkKept
  BY DEF BuildInv, BuildRules
<1> QED BY InitMade, StepMade, <1>1, PTL DEF B!Spec

(* Who finds a bundle made, or not made, is right, whatever script failed,  *)
(* deletion or restart came between (is_made, set_rebuild).                 *)
THEOREM MarkIsTrue == B!Spec => []MadeRight
<1>1. BuildInv => MadeRight
  BY DEF BuildInv, BuildRules
<1> QED BY InitMade, StepMade, <1>1, PTL DEF B!Spec

-------------------------------------------------------------------------------
(* The store holds whole trees, and what is installed or linked names a     *)
(* package.json.                                                            *)
StoreInv ==
  /\ store \in [Packages -> {"none", "whole"}]
  /\ npm \in Packages \cup {Nothing}
  /\ npmJobs \subseteq Packages
  /\ own \in [Bundles -> Packages]
  /\ link \in [Bundles -> Packages \cup {Nothing}]
  /\ card \in [Bases -> Packages \cup {Nothing}]
  /\ github \in [Bases -> [head : Int, package : Packages]]
  /\ ref \in [Bases -> [head : Int, package : Packages]]
  /\ npmCommits \in Nat /\ npmFaults \in Nat

LEMMA StoreInit == N!Init => StoreInv
  BY PackagesAssumption DEF N!Init, StoreInv

LEMMA StoreStep ==
  ASSUME StoreInv, [N!Next]_(N!vars)
  PROVE  StoreInv'
<1> USE PackagesAssumption DEF StoreInv, N!Whole, N!Fault, N!Installing
<1>1. ASSUME NEW b \in Bases, NEW p \in Packages, N!Commit(b, p) \/ N!RefMoves(b, p)
      PROVE  StoreInv'
  <2>1. [head |-> npmCommits + 1, package |-> p] \in [head : Int, package : Packages]
    OBVIOUS
  <2>2. [head |-> 0 - npmFaults - 1, package |-> p] \in [head : Int, package : Packages]
    OBVIOUS
  <2>3. CASE N!Commit(b, p)
    BY <2>1, <2>3 DEF N!Commit
  <2>4. CASE N!RefMoves(b, p)
    BY <2>2, <2>4 DEF N!RefMoves
  <2> QED BY <1>1, <2>3, <2>4
<1>2. ASSUME NEW b \in Bases, N!Fetch(b) PROVE StoreInv'
  BY <1>2 DEF N!Fetch
<1>3. ASSUME NEW b \in Bases, N!Look(b) PROVE StoreInv'
  BY <1>3 DEF N!Look, N!ReadGithub
<1>4. ASSUME NEW b \in Bases, N!HostAsks(b) \/ N!BundleAsks(b) \/ N!SendNodeModules(b)
      PROVE  StoreInv'
  BY <1>4 DEF N!HostAsks, N!BundleAsks, N!SendNodeModules
<1>5. CASE N!JobBegins
  BY <1>5 DEF N!JobBegins
<1>6. CASE N!NpmGoesOn \/ N!NpmEnds \/ N!NpmFails \/ N!Restart
  BY <1>6 DEF N!NpmGoesOn, N!NpmEnds, N!NpmFails, N!Restart
<1>7. ASSUME NEW u \in Bundles, NEW p \in Packages, N!Checkout(u, p) PROVE StoreInv'
  BY <1>7 DEF N!Checkout
<1>8. ASSUME NEW u \in Bundles, N!LinkNodeModules(u) PROVE StoreInv'
  BY <1>8 DEF N!LinkNodeModules
<1>9. CASE UNCHANGED N!vars
  BY <1>9 DEF N!vars
<1> QED BY <1>1, <1>2, <1>3, <1>4, <1>5, <1>6, <1>7, <1>8, <1>9 DEF N!Next

(* A package that joins the jobs is vouched for.                            *)
Voucher(p) ==
  \/ \E b \in Bases : github[b].package = p
  \/ \E b \in Bases : card[b] = p \/ N!HostAsks(b)

LEMMA JobVouched ==
  ASSUME StoreInv, N!Next, NEW p \in npmJobs' \ npmJobs
  PROVE  Voucher(p)
<1>1. ASSUME NEW b \in Bases, N!Look(b) PROVE Voucher(p)
  BY <1>1 DEF N!Look, N!ReadGithub, Voucher
<1>2. ASSUME NEW b \in Bases, N!SendNodeModules(b) PROVE Voucher(p)
  BY <1>2 DEF N!SendNodeModules, Voucher
<1>3. ASSUME NEW b \in Bases, N!HostAsks(b) PROVE Voucher(p)
  BY <1>3 DEF Voucher
<1>4. \/ \E b \in Bases : N!Look(b) \/ N!SendNodeModules(b) \/ N!HostAsks(b)
      \/ npmJobs' \subseteq npmJobs
  BY DEF N!Next, N!Commit, N!RefMoves, N!Fetch, N!BundleAsks, N!JobBegins, N!NpmGoesOn, N!NpmEnds,
         N!NpmFails, N!Restart, N!Checkout, N!LinkNodeModules
<1> QED BY <1>1, <1>2, <1>3, <1>4

(* What is built comes from GitHub, the host or a card Seb said yes to, and *)
(* what a bundle links to is whole or not there (read_github_package,       *)
(* link_node_modules).                                                      *)
THEOREM StoreIsVouched == N!Spec => StoreSafe
<1>1. StoreInv => N!LinkedIsWhole
  BY DEF StoreInv, N!LinkedIsWhole
<1>2. StoreInv /\ [N!Next]_(N!vars) =>
        [\A p \in npmJobs' \ npmJobs : Voucher(p)]_(N!vars)
  BY JobVouched
<1> QED BY StoreInit, StoreStep, <1>1, <1>2, PTL
    DEF N!Spec, StoreSafe, N!StoreSafe, N!Vouched, Voucher
-----------------------------------------------------------------------------
(* The parts side by side (MCBundles): a step of the run is a step of one   *)
(* of them, and none of the others sees it.                                 *)
LEMMA PartsStep ==
  ASSUME [MCNext]_all
  PROVE  [Next]_vars /\ [B!Next]_(B!vars) /\ [N!Next]_(N!vars)
<1>1. UNCHANGED buildVars => UNCHANGED B!vars
  BY DEF buildVars, B!vars, B!tree, B!branch, B!state, B!line, B!ghosts, B!bounds
<1>2. UNCHANGED npmVars => UNCHANGED N!vars
  BY DEF npmVars, N!vars
<1>3. \/ Next /\ UNCHANGED <<buildVars, npmVars>>
      \/ B!Next /\ UNCHANGED <<vars, npmVars>>
      \/ N!Next /\ UNCHANGED <<vars, buildVars>>
      \/ UNCHANGED <<vars, buildVars, npmVars>>
  BY DEF MCNext, DeletionStep, BuildStep, NpmStep, all
<1> QED
  BY <1>1, <1>2, <1>3

(* The invariants and the action properties of the run hold of its own      *)
(* specification, for every value of the constants: each part keeps its own *)
(* whatever the other parts do.                                             *)
THEOREM BundlesRight ==
  MCSpec => [](LosesNothing /\ WorkKept /\ MadeRight) /\ DeletesInOrder /\ StoreSafe
<1>1. MCInit => Init /\ B!Init /\ N!Init
  BY DEF MCInit
<1>2. MCSpec => []Inv
  <2>1. Init => Inv
    BY InitDecided
  <2>2. Inv /\ [Next]_vars => Inv'
    BY NextDecided
  <2> QED
    BY <1>1, <2>1, <2>2, PartsStep, PTL DEF MCSpec
<1>3. MCSpec => [][Next]_vars /\ [][N!Next]_(N!vars)
  BY PartsStep, PTL DEF MCSpec
<1>4. MCSpec => []LosesNothing /\ DeletesInOrder
  <2>1. Inv => LosesNothing
    BY DEF Inv, Decided, LosesNothing
  <2>2. Inv /\ [Next]_vars =>
          [(tree' # tree /\ tree' \in {"half", "gone"}) =>
             ~(IsRunning /\ ~container.fresh)]_vars
    BY TreesStep
  <2>3. Inv /\ [Next]_vars => [session /\ ~session' => kept]_vars
    BY SessionStep
  <2> QED
    BY <1>2, <1>3, <2>1, <2>2, <2>3, PTL DEF DeletesInOrder, NoTreeUnderContainer, SessionKept
<1>5. MCSpec => []WorkKept /\ []MadeRight
  <2>1. BuildInv => WorkKept /\ MadeRight
    BY DEF BuildInv, BuildRules
  <2> QED
    BY <1>1, <2>1, InitMade, StepMade, PartsStep, PTL DEF MCSpec
<1>6. MCSpec => StoreSafe
  <2>1. StoreInv => N!LinkedIsWhole
    BY DEF StoreInv, N!LinkedIsWhole
  <2>2. StoreInv /\ [N!Next]_(N!vars) =>
          [\A p \in npmJobs' \ npmJobs : Voucher(p)]_(N!vars)
    BY JobVouched
  <2>3. MCSpec => []StoreInv
    BY <1>1, <1>3, StoreInit, StoreStep, PTL DEF MCSpec
  <2> QED
    BY <1>3, <2>1, <2>2, <2>3, PTL DEF StoreSafe, N!StoreSafe, N!Vouched, Voucher
<1> QED
  BY <1>4, <1>5, <1>6, PTL
===============================================================================
