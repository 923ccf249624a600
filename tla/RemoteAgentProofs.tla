------------------------- MODULE RemoteAgentProofs -------------------------
(***************************************************************************)
(* The agent of a bundle and its work tree are known wherever a start, a   *)
(* move, an end or a restart of the daemon left them, and none begins here *)
(* while one works on the worker, for every number of jobs, losses, tasks  *)
(* and faults.                                                             *)
(***************************************************************************)
EXTENDS RemoteAgent, TLAPS

(* A job the worker does not run, or that nothing here could name.          *)
Past(j) == ~Lives(j) \/ j \in abandoned

(* A start has a job of the worker once it answered, and a file that counts *)
(* until it ends, so that no other begins.                                  *)
StartHolds ==
  /\ starter.at \in {"no", "waits", "packs"} => starter.job = NoJob
  /\ starter.at \in {"answered", "noted", "recorded"} =>
       starter.job \in Jobs /\ job[starter.job] # "none"
  /\ starter.at # "no" => starting \in {"fresh", "old"}

(* The record is of the job that remote.json names, and neither names a job *)
(* before it is noted, nor keeps it once finish dropped it.                 *)
RecordHolds ==
  /\ record # NoJob => remote = record /\ job[record] # "none"
  /\ starter.at \in {"waits", "packs", "answered", "noted"} => record = NoJob
  /\ starter.at \in {"answered", "noted"} => finish.at = "no"
  /\ starter.at = "noted" => remote = starter.job /\ ~ended
  /\ finish.at = "taken" => record # NoJob
  /\ finish.at = "dropped" => record = NoJob

(* The lock of the bundle: a mover that finishes still has it.              *)
OneWorks ==
  /\ ~(StarterWorks /\ MoverWorks)
  /\ finish.at # "no" /\ finish.by = "mover" => mover.at \in {"waits", "cancelled"}

(* What the daemon takes for an end is one.                                 *)
EndsTrue ==
  /\ ended /\ record # NoJob => ~Lives(record)
  /\ mover.at = "cancelled" \/ finish.at = "taken" => record = NoJob \/ Past(record)
  /\ starter.at = "recorded" => starter.job = record \/ Past(starter.job)

(* Unless a restart cut a start or a finish: work on the worker has its job *)
(* or its loss, and a tree that was sent is no longer there.                *)
TreeHolds ==
  cut \subseteq {"move"} =>
    /\ tree = "worker" => record # NoJob \/ starter.at \in {"answered", "noted"} \/ losses > 0
    /\ tree = "worker" /\ finish.at = "taken" => losses > 0
    /\ sent => tree # "worker" /\ (record # NoJob \/ finish.at = "dropped")

Known == StartHolds /\ RecordHolds /\ OneWorks /\ EndsTrue /\ TreeHolds /\ JobsKept

Inv == TypeOK /\ Known

(* The parts of TypeOK: the files that are there or not, those with a value,*)
(* and the threads of the daemon.                                           *)
Flags ==
  /\ here \in BOOLEAN /\ done \in BOOLEAN /\ moving \in BOOLEAN /\ ending \in BOOLEAN
  /\ sent \in BOOLEAN /\ ended \in BOOLEAN /\ link \in BOOLEAN /\ tunnel \in BOOLEAN

Values ==
  /\ queue \subseteq Items /\ where \in {"local", "away"}
  /\ starting \in {"none", "fresh", "old", "stale"}
  /\ remote \in Jobs \cup {NoJob} /\ record \in Jobs \cup {NoJob}
  /\ losses \in 0..(MaxLosses - 1)
  /\ starter \in [at : {"no", "waits", "packs", "answered", "noted", "recorded"},
                   job : Jobs \cup {NoJob}]
  /\ job \in [Jobs -> {"none", "runs", "stops", "ended"}]
  /\ tree \in {"here", "worker", "back"}
  /\ abandoned \subseteq Jobs /\ cut \subseteq {"start", "move", "finish"}
  /\ tasks \in 0..MaxTasks /\ faults \in 0..MaxFaults

Threads ==
  /\ mover \in [at : {"no", "asked", "waits", "cancelled", "opens"},
                 kind : Kinds, goesOn : BOOLEAN]
  /\ finish \in [at : {"no", "taken", "dropped"}, by : {"keeper", "mover"}, lost : BOOLEAN]
-------------------------------------------------------------------------------
(* A pass of the queue, and an agent here, leave what is known of the       *)
(* worker.                                                                  *)
LEMMA QueueKeeps ==
  ASSUME Inv, Enqueue \/ (\E item \in Items : Send(item)) \/
           (\E item \in Items : LaunchHere(item)) \/ HereEnds \/
           (\E item \in Items : TypeRemote(item))
  PROVE  Inv'
<1>1. ASSUME Enqueue PROVE Inv'
  <2>1. TypeOK'
    BY Inv, <1>1, ConstantsAssumption DEF Inv, TypeOK, Enqueue, start, names, files,
       worker, ghosts, bounds, Kinds, Items
  <2>2. Known'
    BY Inv, <1>1, ConstantsAssumption, <2>1 DEF Inv, Known, StartHolds, RecordHolds,
       OneWorks, EndsTrue, TreeHolds, JobsKept, Past, TypeOK, Enqueue, start, names,
       files, worker, ghosts, bounds, Named, StarterWorks, MoverWorks, Lives
  <2> QED BY <2>1, <2>2 DEF Inv
<1>2. ASSUME NEW item \in Items, Send(item) PROVE Inv'
  <2>1. TypeOK'
    <3>1. Flags'
      BY Inv, <1>2, ConstantsAssumption DEF Flags, Inv, TypeOK, Send, IsRemote, Named,
         names, files, worker, ghosts, bounds, start, Items
    <3>2. Values'
      BY Inv, <1>2, ConstantsAssumption DEF Values, Inv, TypeOK, Send, IsRemote, Named,
         names, files, worker, ghosts, bounds, start, Items
    <3>3. Threads'
      BY Inv, <1>2, ConstantsAssumption DEF Threads, Inv, TypeOK, Send, IsRemote, Named,
         names, files, worker, ghosts, bounds, start, Kinds
    <3> QED BY <3>1, <3>2, <3>3 DEF TypeOK, Flags, Values, Threads
  <2>2. Known'
    BY Inv, <1>2, ConstantsAssumption, <2>1 DEF Inv, Known, StartHolds, RecordHolds,
       OneWorks, EndsTrue, TreeHolds, JobsKept, Past, TypeOK, Send, IsRemote, Named,
       names, files, worker, ghosts, bounds, start, StarterWorks, MoverWorks, Lives
  <2> QED BY <2>1, <2>2 DEF Inv
<1>3. ASSUME NEW item \in Items, LaunchHere(item) PROVE Inv'
  <2>1. TypeOK'
    <3>1. Flags'
      BY Inv, <1>3, ConstantsAssumption DEF Flags, Inv, TypeOK, LaunchHere, IsRemote,
         Named, StarterWorks, MoverWorks, start, names, files, worker, ghosts, bounds,
         Items
    <3>2. Values'
      BY Inv, <1>3, ConstantsAssumption DEF Values, Inv, TypeOK, LaunchHere, IsRemote,
         Named, StarterWorks, MoverWorks, start, names, files, worker, ghosts, bounds,
         Items
    <3>3. Threads'
      BY Inv, <1>3, ConstantsAssumption DEF Threads, Inv, TypeOK, LaunchHere, IsRemote,
         Named, StarterWorks, MoverWorks, start, names, files, worker, ghosts, bounds,
         Kinds
    <3> QED BY <3>1, <3>2, <3>3 DEF TypeOK, Flags, Values, Threads
  <2>2. Known'
    BY Inv, <1>3, ConstantsAssumption, <2>1 DEF Inv, Known, StartHolds, RecordHolds,
       OneWorks, EndsTrue, TreeHolds, JobsKept, Past, TypeOK, LaunchHere, IsRemote,
       Named, StarterWorks, MoverWorks, start, names, files, worker, ghosts, bounds,
       Lives
  <2> QED BY <2>1, <2>2 DEF Inv
<1>4. ASSUME HereEnds PROVE Inv'
  <2>1. TypeOK'
    <3>1. Flags'
      BY Inv, <1>4, ConstantsAssumption DEF Flags, Inv, TypeOK, HereEnds, start, names,
         files, worker, ghosts, bounds, Items
    <3>2. Values'
      BY Inv, <1>4, ConstantsAssumption DEF Values, Inv, TypeOK, HereEnds, start, names,
         files, worker, ghosts, bounds, Items
    <3>3. Threads'
      BY Inv, <1>4, ConstantsAssumption DEF Threads, Inv, TypeOK, HereEnds, start,
         names, files, worker, ghosts, bounds, Kinds
    <3> QED BY <3>1, <3>2, <3>3 DEF TypeOK, Flags, Values, Threads
  <2>2. Known'
    BY Inv, <1>4, ConstantsAssumption, <2>1 DEF Inv, Known, StartHolds, RecordHolds,
       OneWorks, EndsTrue, TreeHolds, JobsKept, Past, TypeOK, HereEnds, start, names,
       files, worker, ghosts, bounds, Named, StarterWorks, MoverWorks, Lives
  <2> QED BY <2>1, <2>2 DEF Inv
<1>5. ASSUME NEW item \in Items, TypeRemote(item) PROVE Inv'
  <2>1. TypeOK'
    <3>1. Flags'
      BY Inv, <1>5, ConstantsAssumption DEF Flags, Inv, TypeOK, TypeRemote, Named,
         start, names, files, worker, ghosts, bounds, Items
    <3>2. Values'
      BY Inv, <1>5, ConstantsAssumption DEF Values, Inv, TypeOK, TypeRemote, Named,
         start, names, files, worker, ghosts, bounds, Items
    <3>3. Threads'
      BY Inv, <1>5, ConstantsAssumption DEF Threads, Inv, TypeOK, TypeRemote, Named,
         start, names, files, worker, ghosts, bounds, Kinds
    <3> QED BY <3>1, <3>2, <3>3 DEF TypeOK, Flags, Values, Threads
  <2>2. Known'
    BY Inv, <1>5, ConstantsAssumption, <2>1 DEF Inv, Known, StartHolds, RecordHolds,
       OneWorks, EndsTrue, TreeHolds, JobsKept, Past, TypeOK, TypeRemote, Named, start,
       names, files, worker, ghosts, bounds, StarterWorks, MoverWorks, Lives
  <2> QED BY <2>1, <2>2 DEF Inv
<1> QED BY <1>1, <1>2, <1>3, <1>4, <1>5

(* A start names its job before it counts on it: it was never given before, *)
(* and no finish takes remote.json from under it.                           *)
LEMMA StartKeeps ==
  ASSUME Inv, StarterBegins \/ StartFails \/ (\E j \in Jobs : JobStarts(j)) \/
           (\E j \in Jobs : AnswerLost(j)) \/ StartCancels \/ Notes \/ Records
           \/ StartEnds \/ StartAges
  PROVE  Inv'
<1>1. ASSUME StarterBegins PROVE Inv'
  <2>1. TypeOK'
    BY Inv, <1>1, ConstantsAssumption DEF Inv, TypeOK, StarterBegins, MoverWorks, names,
       files, worker, ghosts, bounds, start, Kinds, Items
  <2>2. Known'
    BY Inv, <1>1, ConstantsAssumption, <2>1 DEF Inv, Known, StartHolds, RecordHolds,
       OneWorks, EndsTrue, TreeHolds, JobsKept, Past, TypeOK, StarterBegins, MoverWorks,
       names, files, worker, ghosts, bounds, start, Named, StarterWorks, Lives
  <2> QED BY <2>1, <2>2 DEF Inv
<1>2. ASSUME StartFails PROVE Inv'
  <2>1. TypeOK'
    BY Inv, <1>2, ConstantsAssumption DEF Inv, TypeOK, StartFails, Raises, NoStart,
       names, files, worker, ghosts, bounds, start, Kinds, Items
  <2>2. Known'
    BY Inv, <1>2, ConstantsAssumption, <2>1 DEF Inv, Known, StartHolds, RecordHolds,
       OneWorks, EndsTrue, TreeHolds, JobsKept, Past, TypeOK, StartFails, Raises,
       NoStart, names, files, worker, ghosts, bounds, start, Named, StarterWorks,
       MoverWorks, Lives
  <2> QED BY <2>1, <2>2 DEF Inv
<1>3. ASSUME NEW j \in Jobs, JobStarts(j) PROVE Inv'
  <2>1. TypeOK'
    BY Inv, <1>3, ConstantsAssumption DEF Inv, TypeOK, JobStarts, NextJob, names, files,
       ghosts, bounds, start, worker, Kinds, Items
  <2>2. Known'
    BY Inv, <1>3, ConstantsAssumption, <2>1 DEF Inv, Known, StartHolds, RecordHolds,
       OneWorks, EndsTrue, TreeHolds, JobsKept, Past, TypeOK, JobStarts, NextJob, names,
       files, ghosts, bounds, start, worker, Named, StarterWorks, MoverWorks, Lives
  <2> QED BY <2>1, <2>2 DEF Inv
<1>4. ASSUME NEW j \in Jobs, AnswerLost(j) PROVE Inv'
  <2>1. TypeOK'
    BY Inv, <1>4, ConstantsAssumption DEF Inv, TypeOK, AnswerLost, NextJob, Faulty,
       Raises, NoStart, names, files, start, worker, ghosts, bounds, Kinds, Items
  <2>2. Known'
    BY Inv, <1>4, ConstantsAssumption, <2>1 DEF Inv, Known, StartHolds, RecordHolds,
       OneWorks, EndsTrue, TreeHolds, JobsKept, Past, TypeOK, AnswerLost, NextJob,
       Faulty, Raises, NoStart, names, files, start, worker, ghosts, bounds, Named,
       StarterWorks, MoverWorks, Lives
  <2> QED BY <2>1, <2>2 DEF Inv
<1>5. ASSUME StartCancels PROVE Inv'
  <2>1. TypeOK'
    <3>1. Flags'
      BY Inv, <1>5, ConstantsAssumption DEF Flags, Inv, TypeOK, StartCancels, Faulty,
         Raises, NoStart, names, files, start, worker, ghosts, bounds, Items
    <3>2. Values'
      BY Inv, <1>5, ConstantsAssumption DEF Inv, Known, StartHolds, TypeOK, Values,
         StartCancels, Faulty, Raises, NoStart, names, files, start, worker, ghosts,
         bounds, Items
    <3>3. Threads'
      BY Inv, <1>5, ConstantsAssumption DEF Threads, Inv, TypeOK, StartCancels, Faulty,
         Raises, NoStart, names, files, start, worker, ghosts, bounds, Kinds
    <3> QED BY <3>1, <3>2, <3>3 DEF TypeOK, Flags, Values, Threads
  <2>2. Known'
    BY Inv, <1>5, ConstantsAssumption, <2>1 DEF Inv, Known, StartHolds, RecordHolds,
       OneWorks, EndsTrue, TreeHolds, JobsKept, Past, TypeOK, StartCancels, Faulty,
       Raises, NoStart, names, files, start, worker, ghosts, bounds, Named,
       StarterWorks, MoverWorks, Lives
  <2> QED BY <2>1, <2>2 DEF Inv
<1>6. ASSUME Notes PROVE Inv'
  <2>1. TypeOK'
    <3>1. Flags'
      BY Inv, <1>6, ConstantsAssumption DEF Flags, Inv, TypeOK, Notes, worker, ghosts,
         bounds, start, names, files, Items
    <3>2. Values'
      BY Inv, <1>6, ConstantsAssumption DEF Values, Inv, TypeOK, Notes, worker, ghosts,
         bounds, start, names, files, Items
    <3>3. Threads'
      BY Inv, <1>6, ConstantsAssumption DEF Threads, Inv, TypeOK, Notes, worker, ghosts,
         bounds, start, names, files, Kinds
    <3> QED BY <3>1, <3>2, <3>3 DEF TypeOK, Flags, Values, Threads
  <2>2. Known'
    BY Inv, <1>6, ConstantsAssumption, <2>1 DEF Inv, Known, StartHolds, RecordHolds,
       OneWorks, EndsTrue, TreeHolds, JobsKept, Past, TypeOK, Notes, worker, ghosts,
       bounds, start, names, files, Named, StarterWorks, MoverWorks, Lives
  <2> QED BY <2>1, <2>2 DEF Inv
<1>7. ASSUME Records PROVE Inv'
  <2>1. TypeOK'
    BY Inv, <1>7, ConstantsAssumption DEF Inv, TypeOK, Records, files, worker, ghosts,
       bounds, start, names, Kinds, Items
  <2>2. Known'
    BY Inv, <1>7, ConstantsAssumption, <2>1 DEF Inv, Known, StartHolds, RecordHolds,
       OneWorks, EndsTrue, TreeHolds, JobsKept, Past, TypeOK, Records, files, worker,
       ghosts, bounds, start, names, Named, StarterWorks, MoverWorks, Lives
  <2> QED BY <2>1, <2>2 DEF Inv
<1>8. ASSUME StartEnds PROVE Inv'
  <2>1. TypeOK'
    BY Inv, <1>8, ConstantsAssumption DEF Inv, TypeOK, StartEnds, NoStart, Named, names,
       files, ghosts, bounds, start, worker, Kinds, Items
  <2>2. Known'
    BY Inv, <1>8, ConstantsAssumption, <2>1 DEF Inv, Known, StartHolds, RecordHolds,
       OneWorks, EndsTrue, TreeHolds, JobsKept, Past, TypeOK, StartEnds, NoStart, Named,
       names, files, ghosts, bounds, start, worker, StarterWorks, MoverWorks, Lives
  <2> QED BY <2>1, <2>2 DEF Inv
<1>9. ASSUME StartAges PROVE Inv'
  <2>1. TypeOK'
    BY Inv, <1>9, ConstantsAssumption DEF Inv, TypeOK, StartAges, names, files, worker,
       ghosts, bounds, start, Kinds, Items
  <2>2. Known'
    BY Inv, <1>9, ConstantsAssumption, <2>1 DEF Inv, Known, StartHolds, RecordHolds,
       OneWorks, EndsTrue, TreeHolds, JobsKept, Past, TypeOK, StartAges, names, files,
       worker, ghosts, bounds, start, Named, StarterWorks, MoverWorks, Lives
  <2> QED BY <2>1, <2>2 DEF Inv
<1> QED BY <1>1, <1>2, <1>3, <1>4, <1>5, <1>6, <1>7, <1>8, <1>9

(* The worker, its stand-in and the tunnel: an end that is told is one.     *)
LEMMA WorkerKeeps ==
  ASSUME Inv, JobVerdict \/ (\E j \in Jobs : JobExits(j)) \/ JobSends \/
           (\E j \in Jobs : JobLost(j)) \/ JobTells \/ LinkDrops \/ LinkBack
  PROVE  Inv'
<1>1. ASSUME JobVerdict PROVE Inv'
  <2>1. TypeOK'
    BY Inv, <1>1, ConstantsAssumption DEF Inv, TypeOK, JobVerdict, Named, start, names,
       files, worker, ghosts, bounds, Kinds, Items
  <2>2. Known'
    BY Inv, <1>1, ConstantsAssumption, <2>1 DEF Inv, Known, StartHolds, RecordHolds,
       OneWorks, EndsTrue, TreeHolds, JobsKept, Past, TypeOK, JobVerdict, Named, start,
       names, files, worker, ghosts, bounds, StarterWorks, MoverWorks, Lives
  <2> QED BY <2>1, <2>2 DEF Inv
<1>2. ASSUME NEW j \in Jobs, JobExits(j) PROVE Inv'
  <2>1. TypeOK'
    BY Inv, <1>2, ConstantsAssumption DEF Inv, TypeOK, JobExits, Named, start, names,
       files, ghosts, bounds, worker, Kinds, Items
  <2>2. Known'
    BY Inv, <1>2, ConstantsAssumption, <2>1 DEF Inv, Known, StartHolds, RecordHolds,
       OneWorks, EndsTrue, TreeHolds, JobsKept, Past, TypeOK, JobExits, Named, start,
       names, files, ghosts, bounds, worker, StarterWorks, MoverWorks, Lives
  <2> QED BY <2>1, <2>2 DEF Inv
<1>3. ASSUME JobSends PROVE Inv'
  <2>1. TypeOK'
    BY Inv, <1>3, ConstantsAssumption DEF Inv, TypeOK, JobSends, Named, start, names,
       ghosts, bounds, files, worker, Kinds, Items
  <2>2. Known'
    BY Inv, <1>3, ConstantsAssumption, <2>1 DEF Inv, Known, StartHolds, RecordHolds,
       OneWorks, EndsTrue, TreeHolds, JobsKept, Past, TypeOK, JobSends, Named, start,
       names, ghosts, bounds, files, worker, StarterWorks, MoverWorks, Lives
  <2> QED BY <2>1, <2>2 DEF Inv
<1>4. ASSUME NEW j \in Jobs, JobLost(j) PROVE Inv'
  <2>1. TypeOK'
    BY Inv, <1>4, ConstantsAssumption DEF Inv, TypeOK, JobLost, Lives, Faulty, start,
       names, files, ghosts, worker, bounds, Kinds, Items
  <2>2. Known'
    BY Inv, <1>4, ConstantsAssumption, <2>1 DEF Inv, Known, StartHolds, RecordHolds,
       OneWorks, EndsTrue, TreeHolds, JobsKept, Past, TypeOK, JobLost, Lives, Faulty,
       start, names, files, ghosts, worker, bounds, Named, StarterWorks, MoverWorks
  <2> QED BY <2>1, <2>2 DEF Inv
<1>5. ASSUME JobTells PROVE Inv'
  <2>1. TypeOK'
    BY Inv, <1>5, ConstantsAssumption DEF Inv, TypeOK, JobTells, Named, Lives, start,
       names, worker, ghosts, bounds, files, Kinds, Items
  <2>2. Known'
    BY Inv, <1>5, ConstantsAssumption, <2>1 DEF Inv, Known, StartHolds, RecordHolds,
       OneWorks, EndsTrue, TreeHolds, JobsKept, Past, TypeOK, JobTells, Named, Lives,
       start, names, worker, ghosts, bounds, files, StarterWorks, MoverWorks
  <2> QED BY <2>1, <2>2 DEF Inv
<1>6. ASSUME LinkDrops PROVE Inv'
  <2>1. TypeOK'
    <3>1. Flags'
      BY Inv, <1>6, ConstantsAssumption DEF Flags, Inv, TypeOK, LinkDrops, Faulty,
         start, names, files, ghosts, worker, bounds, Items
    <3>2. Values'
      BY Inv, <1>6, ConstantsAssumption DEF Values, Inv, TypeOK, LinkDrops, Faulty,
         start, names, files, ghosts, worker, bounds, Items
    <3>3. Threads'
      BY Inv, <1>6, ConstantsAssumption DEF Threads, Inv, TypeOK, LinkDrops, Faulty,
         start, names, files, ghosts, worker, bounds, Kinds
    <3> QED BY <3>1, <3>2, <3>3 DEF TypeOK, Flags, Values, Threads
  <2>2. Known'
    BY Inv, <1>6, ConstantsAssumption, <2>1 DEF Inv, Known, StartHolds, RecordHolds,
       OneWorks, EndsTrue, TreeHolds, JobsKept, Past, TypeOK, LinkDrops, Faulty, start,
       names, files, ghosts, worker, bounds, Named, StarterWorks, MoverWorks, Lives
  <2> QED BY <2>1, <2>2 DEF Inv
<1>7. ASSUME LinkBack PROVE Inv'
  <2>1. TypeOK'
    BY Inv, <1>7, ConstantsAssumption DEF Inv, TypeOK, LinkBack, start, names, files,
       ghosts, bounds, worker, Kinds, Items
  <2>2. Known'
    BY Inv, <1>7, ConstantsAssumption, <2>1 DEF Inv, Known, StartHolds, RecordHolds,
       OneWorks, EndsTrue, TreeHolds, JobsKept, Past, TypeOK, LinkBack, start, names,
       files, ghosts, bounds, worker, Named, StarterWorks, MoverWorks, Lives
  <2> QED BY <2>1, <2>2 DEF Inv
<1> QED BY <1>1, <1>2, <1>3, <1>4, <1>5, <1>6, <1>7

(* finish drops the record of a job that ended, with its tree or its loss.  *)
LEMMA KeeperKeeps ==
  ASSUME Inv, FinishDrops \/ FinishEnds \/ KeepFinishes \/ KeepTunnels \/
           GoneFinishes \/ KeepEnds \/ LeaveEnds \/ CloseRemote \/
           StartDropped
  PROVE  Inv'
<1>1. ASSUME FinishDrops PROVE Inv'
  <2>1. TypeOK'
    <3>1. Flags'
      BY Inv, <1>1, ConstantsAssumption DEF Flags, Inv, TypeOK, FinishDrops, start,
         files, ghosts, bounds, names, worker, Items
    <3>2. Values'
      BY Inv, <1>1, ConstantsAssumption DEF Values, Inv, TypeOK, FinishDrops, start,
         files, ghosts, bounds, names, worker, Items
    <3>3. Threads'
      BY Inv, <1>1, ConstantsAssumption DEF Threads, Inv, TypeOK, FinishDrops, start,
         files, ghosts, bounds, names, worker, Kinds
    <3> QED BY <3>1, <3>2, <3>3 DEF TypeOK, Flags, Values, Threads
  <2>2. Known'
    BY Inv, <1>1, ConstantsAssumption, <2>1 DEF Inv, Known, StartHolds, RecordHolds,
       OneWorks, EndsTrue, TreeHolds, JobsKept, Past, TypeOK, FinishDrops, start, files,
       ghosts, bounds, names, worker, Named, StarterWorks, MoverWorks, Lives
  <2> QED BY <2>1, <2>2 DEF Inv
<1>2. ASSUME FinishEnds PROVE Inv'
  <2>1. TypeOK'
    <3>1. Flags'
      BY Inv, <1>2, ConstantsAssumption DEF Flags, Inv, TypeOK, FinishEnds, NoFinish,
         start, worker, ghosts, bounds, names, files, Items
    <3>2. Values'
      BY Inv, <1>2, ConstantsAssumption DEF Values, Inv, TypeOK, FinishEnds, NoFinish,
         start, worker, ghosts, bounds, names, files, Items
    <3>3. Threads'
      BY Inv, <1>2, ConstantsAssumption DEF Threads, Inv, TypeOK, FinishEnds, NoFinish,
         start, worker, ghosts, bounds, names, files, Kinds
    <3> QED BY <3>1, <3>2, <3>3 DEF TypeOK, Flags, Values, Threads
  <2>2. Known'
    <3>1. StartHolds'
      BY Inv, <1>2, ConstantsAssumption, <2>1 DEF Inv, Known, RecordHolds, StartHolds,
         Past, Lives, Named, TypeOK, FinishEnds, NoFinish, start, worker, ghosts,
         bounds, names, files, StarterWorks, MoverWorks
    <3>2. RecordHolds'
      BY Inv, <1>2, ConstantsAssumption, <2>1 DEF Inv, Known, RecordHolds, Past, Lives,
         Named, TypeOK, FinishEnds, NoFinish, start, worker, ghosts, bounds, names,
         files, StarterWorks, MoverWorks
    <3>3. OneWorks'
      BY Inv, <1>2, ConstantsAssumption, <2>1 DEF Inv, Known, RecordHolds, OneWorks,
         Past, Lives, Named, TypeOK, FinishEnds, NoFinish, start, worker, ghosts,
         bounds, names, files, StarterWorks, MoverWorks
    <3>4. EndsTrue'
      <4>1. /\ record = NoJob /\ record' = NoJob
            /\ job' = job /\ abandoned' = abandoned /\ starter' = starter
        BY Inv, <1>2 DEF Inv, Known, RecordHolds, FinishEnds, start, worker, ghosts
      <4> QED BY Inv, <4>1 DEF Inv, Known, EndsTrue, Past, Lives
    <3>5. TreeHolds'
      BY Inv, <1>2, ConstantsAssumption, <2>1 DEF Inv, Known, RecordHolds, TreeHolds,
         Past, Lives, Named, TypeOK, FinishEnds, NoFinish, start, worker, ghosts,
         bounds, names, files, StarterWorks, MoverWorks
    <3>6. JobsKept'
      BY Inv, <1>2, ConstantsAssumption, <2>1 DEF Inv, Known, RecordHolds, JobsKept,
         Past, Lives, Named, TypeOK, FinishEnds, NoFinish, start, worker, ghosts,
         bounds, names, files, StarterWorks, MoverWorks
    <3> QED BY <3>1, <3>2, <3>3, <3>4, <3>5, <3>6 DEF Known
  <2> QED BY <2>1, <2>2 DEF Inv
<1>3. ASSUME KeepFinishes PROVE Inv'
  <2>1. TypeOK'
    BY Inv, <1>3, ConstantsAssumption DEF Inv, TypeOK, KeepFinishes, Named, Finishes,
       TakesEnd, Merges, Loses, MaxKept, start, names, worker, ghosts, bounds, files,
       Kinds, Items
  <2>2. Known'
    BY Inv, <1>3, ConstantsAssumption, <2>1 DEF Inv, Known, StartHolds, RecordHolds,
       OneWorks, EndsTrue, TreeHolds, JobsKept, Past, TypeOK, KeepFinishes, Named,
       Finishes, TakesEnd, Merges, Loses, MaxKept, start, names, worker, ghosts, bounds,
       files, StarterWorks, MoverWorks, Lives
  <2> QED BY <2>1, <2>2 DEF Inv
<1>4. ASSUME KeepTunnels PROVE Inv'
  <2>1. TypeOK'
    BY Inv, <1>4, ConstantsAssumption DEF Inv, TypeOK, KeepTunnels, KeeperFree, Named,
       start, names, files, ghosts, bounds, worker, Kinds, Items
  <2>2. Known'
    BY Inv, <1>4, ConstantsAssumption, <2>1 DEF Inv, Known, StartHolds, RecordHolds,
       OneWorks, EndsTrue, TreeHolds, JobsKept, Past, TypeOK, KeepTunnels, KeeperFree,
       Named, start, names, files, ghosts, bounds, worker, StarterWorks, MoverWorks,
       Lives
  <2> QED BY <2>1, <2>2 DEF Inv
<1>5. ASSUME GoneFinishes PROVE Inv'
  <2>1. TypeOK'
    BY Inv, <1>5, ConstantsAssumption DEF Inv, TypeOK, GoneFinishes, Named, Missing,
       Lives, MovesBack, Finishes, TakesEnd, Merges, Loses, MaxKept, start, names,
       worker, ghosts, bounds, files, Kinds, Items
  <2>2. Known'
    BY Inv, <1>5, ConstantsAssumption, <2>1 DEF Inv, Known, StartHolds, RecordHolds,
       OneWorks, EndsTrue, TreeHolds, JobsKept, Past, TypeOK, GoneFinishes, Named,
       Missing, Lives, MovesBack, Finishes, TakesEnd, Merges, Loses, MaxKept, start,
       names, worker, ghosts, bounds, files, StarterWorks, MoverWorks
  <2> QED BY <2>1, <2>2 DEF Inv
<1>6. ASSUME KeepEnds PROVE Inv'
  <2>1. TypeOK'
    BY Inv, <1>6, ConstantsAssumption DEF Inv, TypeOK, KeepEnds, KeeperFree, Ends,
       Named, Stopped, start, names, ghosts, bounds, files, worker, Kinds, Items
  <2>2. Known'
    BY Inv, <1>6, ConstantsAssumption, <2>1 DEF Inv, Known, StartHolds, RecordHolds,
       OneWorks, EndsTrue, TreeHolds, JobsKept, Past, TypeOK, KeepEnds, KeeperFree,
       Ends, Named, Stopped, start, names, ghosts, bounds, files, worker, StarterWorks,
       MoverWorks, Lives
  <2> QED BY <2>1, <2>2 DEF Inv
<1>7. ASSUME LeaveEnds PROVE Inv'
  <2>1. TypeOK'
    BY Inv, <1>7, ConstantsAssumption DEF Inv, TypeOK, LeaveEnds, KeeperFree, MovesBack,
       Ends, Named, Stopped, start, names, ghosts, bounds, files, worker, Kinds, Items
  <2>2. Known'
    BY Inv, <1>7, ConstantsAssumption, <2>1 DEF Inv, Known, StartHolds, RecordHolds,
       OneWorks, EndsTrue, TreeHolds, JobsKept, Past, TypeOK, LeaveEnds, KeeperFree,
       MovesBack, Ends, Named, Stopped, start, names, ghosts, bounds, files, worker,
       StarterWorks, MoverWorks, Lives
  <2> QED BY <2>1, <2>2 DEF Inv
<1>8. ASSUME CloseRemote PROVE Inv'
  <2>1. TypeOK'
    BY Inv, <1>8, ConstantsAssumption DEF Inv, TypeOK, CloseRemote, MovesBack, Ends,
       Named, Stopped, start, names, ghosts, bounds, files, worker, Kinds, Items
  <2>2. Known'
    BY Inv, <1>8, ConstantsAssumption, <2>1 DEF Inv, Known, StartHolds, RecordHolds,
       OneWorks, EndsTrue, TreeHolds, JobsKept, Past, TypeOK, CloseRemote, MovesBack,
       Ends, Named, Stopped, start, names, ghosts, bounds, files, worker, StarterWorks,
       MoverWorks, Lives
  <2> QED BY <2>1, <2>2 DEF Inv
<1>9. ASSUME StartDropped PROVE Inv'
  <2>1. TypeOK'
    BY Inv, <1>9, ConstantsAssumption DEF Inv, TypeOK, StartDropped, KeeperFree,
       Droppable, names, files, worker, ghosts, bounds, start, Kinds, Items
  <2>2. Known'
    BY Inv, <1>9, ConstantsAssumption, <2>1 DEF Inv, Known, StartHolds, RecordHolds,
       OneWorks, EndsTrue, TreeHolds, JobsKept, Past, TypeOK, StartDropped, KeeperFree,
       Droppable, names, files, worker, ghosts, bounds, start, Named, StarterWorks,
       MoverWorks, Lives
  <2> QED BY <2>1, <2>2 DEF Inv
<1> QED BY <1>1, <1>2, <1>3, <1>4, <1>5, <1>6, <1>7, <1>8, <1>9

(* A move back finishes a job that ended or was cancelled; a restart notes  *)
(* what it cut.                                                             *)
LEMMA MoverKeeps ==
  ASSUME Inv, (\E kind \in Kinds : Moves(kind)) \/ (\E to \in {"local",
           "away"} : Places(to)) \/ MoverBegins \/ MoverFinishes \/
           MoverCancels \/ MoverGivesUp \/ MoverOpens \/ Restart
  PROVE  Inv'
<1>1. ASSUME NEW kind \in Kinds, Moves(kind) PROVE Inv'
  <2>1. TypeOK'
    BY Inv, <1>1, ConstantsAssumption DEF Inv, TypeOK, Moves, IsRemote, Named,
       KeeperFree, start, names, files, worker, ghosts, bounds, Kinds, Items
  <2>2. Known'
    BY Inv, <1>1, ConstantsAssumption, <2>1 DEF Inv, Known, StartHolds, RecordHolds,
       OneWorks, EndsTrue, TreeHolds, JobsKept, Past, TypeOK, Moves, IsRemote, Named,
       KeeperFree, start, names, files, worker, ghosts, bounds, StarterWorks,
       MoverWorks, Lives
  <2> QED BY <2>1, <2>2 DEF Inv
<1>2. ASSUME NEW to \in {"local", "away"}, Places(to) PROVE Inv'
  <2>1. TypeOK'
    BY Inv, <1>2, ConstantsAssumption DEF Inv, TypeOK, Places, IsRemote, Named, start,
       names, files, worker, ghosts, bounds, Kinds, Items
  <2>2. Known'
    BY Inv, <1>2, ConstantsAssumption, <2>1 DEF Inv, Known, StartHolds, RecordHolds,
       OneWorks, EndsTrue, TreeHolds, JobsKept, Past, TypeOK, Places, IsRemote, Named,
       start, names, files, worker, ghosts, bounds, StarterWorks, MoverWorks, Lives
  <2> QED BY <2>1, <2>2 DEF Inv
<1>3. ASSUME MoverBegins PROVE Inv'
  <2>1. TypeOK'
    <3>1. Flags'
      BY Inv, <1>3, ConstantsAssumption DEF Flags, Inv, TypeOK, MoverBegins,
         StarterWorks, Named, Stopped, NoMove, start, names, ghosts, bounds, files,
         worker, Items
    <3>2. Values'
      BY Inv, <1>3, ConstantsAssumption DEF Values, Inv, TypeOK, MoverBegins,
         StarterWorks, Named, Stopped, NoMove, start, names, ghosts, bounds, files,
         worker, Items
    <3>3. Threads'
      <4>1. mover' \in {NoMove, [mover EXCEPT !.at = "waits"]} /\ finish' = finish
        BY <1>3 DEF MoverBegins
      <4>2. mover' = NoMove \/ mover' = [mover EXCEPT !.at = "waits"]
        BY <4>1
      <4>3. NoMove \in [at : {"no", "asked", "waits", "cancelled", "opens"},
                       kind : Kinds, goesOn : BOOLEAN]
        BY DEF NoMove, Kinds
      <4> QED BY Inv, <4>1, <4>2, <4>3 DEF Inv, TypeOK, Threads
    <3> QED BY <3>1, <3>2, <3>3 DEF TypeOK, Flags, Values, Threads
  <2>2. Known'
    BY Inv, <1>3, ConstantsAssumption, <2>1 DEF Inv, Known, StartHolds, RecordHolds,
       OneWorks, EndsTrue, TreeHolds, JobsKept, Past, TypeOK, MoverBegins, StarterWorks,
       Named, Stopped, NoMove, start, names, ghosts, bounds, files, worker, MoverWorks,
       Lives
  <2> QED BY <2>1, <2>2 DEF Inv
<1>4. ASSUME MoverFinishes PROVE Inv'
  <2>1. TypeOK'
    <3>1. Flags'
      BY Inv, <1>4, ConstantsAssumption DEF Flags, Inv, TypeOK, MoverFinishes,
         MoverEnds, Named, Finishes, TakesEnd, Merges, Loses, MaxKept, start, names,
         worker, ghosts, bounds, files, Items
    <3>2. Values'
      BY Inv, <1>4, ConstantsAssumption DEF Values, Inv, TypeOK, MoverFinishes,
         MoverEnds, Named, Finishes, TakesEnd, Merges, Loses, MaxKept, start, names,
         worker, ghosts, bounds, files, Items
    <3>3. Threads'
      <4>1. MoverEnds
        BY <1>4 DEF MoverFinishes
      <4>2. CASE Named
        <5>1. mover' = mover
          BY <4>1, <4>2 DEF MoverEnds
        <5>2. finish' = [at |-> "taken", by |-> "mover", lost |-> ~sent]
          BY <4>1, <4>2 DEF MoverEnds, Finishes
        <5> QED BY Inv, <5>1, <5>2 DEF Inv, TypeOK, Threads
      <4>3. CASE ~Named
        <5>1. mover' = [mover EXCEPT !.at = "opens"] /\ finish' = finish
          BY <4>1, <4>3 DEF MoverEnds
        <5> QED BY Inv, <5>1 DEF Inv, TypeOK, Threads
      <4> QED BY <4>2, <4>3
    <3> QED BY <3>1, <3>2, <3>3 DEF TypeOK, Flags, Values, Threads
  <2>2. Known'
    BY Inv, <1>4, ConstantsAssumption, <2>1 DEF Inv, Known, StartHolds, RecordHolds,
       OneWorks, EndsTrue, TreeHolds, JobsKept, Past, TypeOK, MoverFinishes, MoverEnds,
       Named, Finishes, TakesEnd, Merges, Loses, MaxKept, start, names, worker, ghosts,
       bounds, files, StarterWorks, MoverWorks, Lives
  <2> QED BY <2>1, <2>2 DEF Inv
<1>5. ASSUME MoverCancels PROVE Inv'
  <2>1. TypeOK'
    BY Inv, <1>5, ConstantsAssumption DEF Inv, TypeOK, MoverCancels, Named, Lives,
       start, names, files, bounds, worker, ghosts, Kinds, Items
  <2>2. Known'
    BY Inv, <1>5, ConstantsAssumption, <2>1 DEF Inv, Known, StartHolds, RecordHolds,
       OneWorks, EndsTrue, TreeHolds, JobsKept, Past, TypeOK, MoverCancels, Named,
       Lives, start, names, files, bounds, worker, ghosts, StarterWorks, MoverWorks
  <2> QED BY <2>1, <2>2 DEF Inv
<1>6. ASSUME MoverGivesUp PROVE Inv'
  <2>1. TypeOK'
    <3>1. Flags'
      BY Inv, <1>6, ConstantsAssumption DEF Flags, Inv, TypeOK, MoverGivesUp, Deadline,
         MoverEnds, Named, Finishes, TakesEnd, Merges, Loses, MaxKept, start, names,
         worker, ghosts, bounds, files, Items
    <3>2. Values'
      BY Inv, <1>6, ConstantsAssumption DEF Values, Inv, TypeOK, MoverGivesUp, Deadline,
         MoverEnds, Named, Finishes, TakesEnd, Merges, Loses, MaxKept, start, names,
         worker, ghosts, bounds, files, Items
    <3>3. Threads'
      <4>1. MoverEnds
        BY <1>6 DEF MoverGivesUp
      <4>2. CASE Named
        <5>1. mover' = mover
          BY <4>1, <4>2 DEF MoverEnds
        <5>2. finish' = [at |-> "taken", by |-> "mover", lost |-> ~sent]
          BY <4>1, <4>2 DEF MoverEnds, Finishes
        <5> QED BY Inv, <5>1, <5>2 DEF Inv, TypeOK, Threads
      <4>3. CASE ~Named
        <5>1. mover' = [mover EXCEPT !.at = "opens"] /\ finish' = finish
          BY <4>1, <4>3 DEF MoverEnds
        <5> QED BY Inv, <5>1 DEF Inv, TypeOK, Threads
      <4> QED BY <4>2, <4>3
    <3> QED BY <3>1, <3>2, <3>3 DEF TypeOK, Flags, Values, Threads
  <2>2. Known'
    BY Inv, <1>6, ConstantsAssumption, <2>1 DEF Inv, Known, StartHolds, RecordHolds,
       OneWorks, EndsTrue, TreeHolds, JobsKept, Past, TypeOK, MoverGivesUp, Deadline,
       MoverEnds, Named, Finishes, TakesEnd, Merges, Loses, MaxKept, start, names,
       worker, ghosts, bounds, files, StarterWorks, MoverWorks, Lives
  <2> QED BY <2>1, <2>2 DEF Inv
<1>7. ASSUME MoverOpens PROVE Inv'
  <2>1. TypeOK'
    <3>1. Flags'
      BY Inv, <1>7, ConstantsAssumption DEF Flags, Inv, TypeOK, MoverOpens, NoMove,
         start, names, files, worker, ghosts, bounds, Items
    <3>2. Values'
      <4>1. queue' \subseteq Items /\ where' \in {"local", "away"}
        BY Inv, <1>7 DEF Values, Inv, TypeOK, MoverOpens, Items
      <4>2. UNCHANGED <<start, names, files, worker, tree, ghosts, bounds>>
        BY <1>7 DEF MoverOpens
      <4> QED
        BY Inv, <4>1, <4>2 DEF Values, Inv, TypeOK, start, names, files, worker, ghosts,
           bounds
    <3>3. Threads'
      BY Inv, <1>7, ConstantsAssumption DEF Threads, Inv, TypeOK, MoverOpens, NoMove,
         start, names, files, worker, ghosts, bounds, Kinds
    <3> QED BY <3>1, <3>2, <3>3 DEF TypeOK, Flags, Values, Threads
  <2>2. Known'
    BY Inv, <1>7, ConstantsAssumption, <2>1 DEF Inv, Known, StartHolds, RecordHolds,
       OneWorks, EndsTrue, TreeHolds, JobsKept, Past, TypeOK, MoverOpens, NoMove, start,
       names, files, worker, ghosts, bounds, Named, StarterWorks, MoverWorks, Lives
  <2> QED BY <2>1, <2>2 DEF Inv
<1>8. ASSUME Restart PROVE Inv'
  <2>1. TypeOK'
    <3>1. Flags'
      BY Inv, <1>8, ConstantsAssumption DEF Flags, Inv, TypeOK, Restart, Faulty,
         NoStart, NoMove, NoFinish, names, files, worker, start, ghosts, bounds, Items
    <3>2. Values'
      <4>1. abandoned' \subseteq Jobs /\ cut' \subseteq {"start", "move", "finish"}
        BY Inv, <1>8 DEF Inv, Known, TypeOK, StartHolds, Restart
      <4>2. starter' = NoStart
        BY <1>8 DEF Restart
      <4> QED BY Inv, <1>8, ConstantsAssumption, <4>1, <4>2 DEF Inv, TypeOK, Values, Restart,
         Faulty, NoStart, NoMove, NoFinish, names, files, worker, start, ghosts, bounds,
         Items
    <3>3. Threads'
      BY Inv, <1>8, ConstantsAssumption DEF Threads, Inv, TypeOK, Restart, Faulty,
         NoStart, NoMove, NoFinish, names, files, worker, start, ghosts, bounds, Kinds
    <3> QED BY <3>1, <3>2, <3>3 DEF TypeOK, Flags, Values, Threads
  <2>2. Known'
    BY Inv, <1>8, ConstantsAssumption, <2>1 DEF Inv, Known, StartHolds, RecordHolds,
       OneWorks, EndsTrue, TreeHolds, JobsKept, Past, TypeOK, Restart, Faulty, NoStart,
       NoMove, NoFinish, names, files, worker, start, ghosts, bounds, Named,
       StarterWorks, MoverWorks, Lives
  <2> QED BY <2>1, <2>2 DEF Inv
<1> QED BY <1>1, <1>2, <1>3, <1>4, <1>5, <1>6, <1>7, <1>8

-------------------------------------------------------------------------------
(* Nothing runs at the start.                                               *)
LEMMA InitKnown ==
  ASSUME Init
  PROVE  Inv
<1>1. TypeOK
  <2>1. Flags
    BY DEF Init, Flags
  <2>2. Values
    BY ConstantsAssumption DEF Init, Values, NoStart, Items
  <2>3. Threads
    BY DEF Init, Threads, NoMove, NoFinish, Kinds
  <2> QED BY <2>1, <2>2, <2>3 DEF TypeOK, Flags, Values, Threads
<1>2. Known
  BY ConstantsAssumption DEF Init, Known, StartHolds, RecordHolds, OneWorks, EndsTrue,
     TreeHolds, JobsKept, Lives, StarterWorks, MoverWorks, NoStart, NoMove, NoFinish
<1> QED BY <1>1, <1>2 DEF Inv

(* Every step of the daemon and of the worker keeps the agent known.        *)
LEMMA NextKnown ==
  ASSUME Inv, [Next]_vars
  PROVE  Inv'
<1>1. CASE Next
  BY <1>1, Inv, QueueKeeps, StartKeeps, WorkerKeeps, KeeperKeeps, MoverKeeps
     DEF Next, Starting, Moving, Finishing, Keeping
<1>2. CASE UNCHANGED vars
  BY <1>2, Inv DEF vars, start, names, files, worker, ghosts, bounds, Inv, TypeOK,
     Known, StartHolds, RecordHolds, OneWorks, EndsTrue, TreeHolds, JobsKept, Past,
     Lives, Named, StarterWorks, MoverWorks, Items, Kinds
<1> QED BY <1>1, <1>2

(* What is known is what NothingForgotten asks.                             *)
LEMMA KnownIsKept ==
  ASSUME Inv
  PROVE  NothingForgotten
<1>1. TreeKept
  BY Inv DEF Inv, Known, TreeHolds, RecordHolds, TreeKept, Named, StarterWorks
<1> QED BY <1>1, Inv DEF Inv, Known, NothingForgotten

(* An agent that nothing but `abandoned` names works neither under a record *)
(* nor under a start: so none works where a terminal may start its own.     *)
LEMMA NoneWorks ==
  ASSUME Inv, ~Named, ~StarterWorks
  PROVE  \A j \in Jobs \ abandoned : ~Lives(j)
<1>1. starter.job = NoJob
  BY Inv DEF Inv, TypeOK, Known, StartHolds, StarterWorks
<1> QED BY Inv, <1>1, ConstantsAssumption DEF Inv, Known, JobsKept

(* A terminal begins an agent here by a launch or at the end of a move, and *)
(* either has the lock of the bundle and no record of another.              *)
LEMMA StepBeginsAlone ==
  ASSUME Inv, [Next]_vars, ~here, here'
  PROVE  \A j \in Jobs \ abandoned : ~Lives(j)
<1>1. CASE \E item \in Items : LaunchHere(item)
  BY <1>1, Inv, NoneWorks DEF LaunchHere, IsRemote
<1>2. CASE MoverOpens
  <2>1. remote = NoJob
    BY <1>2 DEF MoverOpens
  <2>2. ~Named
    BY <2>1 DEF Named
  <2>3. ~StarterWorks
    BY Inv, <1>2 DEF Inv, Known, OneWorks, MoverOpens, MoverWorks
  <2> QED BY Inv, <2>2, <2>3, NoneWorks
<1>3. CASE ~(\E item \in Items : LaunchHere(item)) /\ ~MoverOpens
  <2>1. here' = here \/ here' = FALSE
    BY <1>3 DEF Next, vars, Starting, Moving, Finishing, Keeping, Enqueue, Send, HereEnds,
       TypeRemote, StarterBegins, StartFails, StartCancels, Notes, Records, StartEnds,
       MoverBegins, MoverFinishes, MoverCancels, MoverGivesUp, FinishDrops, FinishEnds,
       KeepFinishes, KeepTunnels, GoneFinishes, KeepEnds, LeaveEnds, StartDropped,
       CloseRemote, StartAges, JobStarts, AnswerLost, JobExits, JobLost, JobVerdict,
       JobSends, JobTells, LinkDrops, LinkBack, Restart, Moves, Places
  <2> QED BY <2>1
<1> QED BY <1>1, <1>2, <1>3

-------------------------------------------------------------------------------
(* The agent on the worker and its work are never forgotten: each job that  *)
(* lives there has its record or its start, and work that stayed there has  *)
(* its job or its loss, wherever a move, an end or a restart left them.     *)
THEOREM AgentKept == Spec => []NothingForgotten
<1>1. Init => Inv
  BY InitKnown
<1>2. Inv /\ [Next]_vars => Inv'
  BY NextKnown
<1>3. Inv => NothingForgotten
  BY KnownIsKept
<1> QED BY <1>1, <1>2, <1>3, PTL DEF Spec

(* No agent begins here while one of the bundle works on the worker, but    *)
(* one nothing here could name.                                             *)
THEOREM OneAgent == Spec => BeginsAlone
<1>1. Init => Inv
  BY InitKnown
<1>2. Inv /\ [Next]_vars => Inv'
  BY NextKnown
<1>3. Inv /\ [Next]_vars =>
        [~here /\ here' => \A j \in Jobs \ abandoned : ~Lives(j)]_vars
  BY StepBeginsAlone
<1> QED BY <1>1, <1>2, <1>3, PTL DEF Spec, BeginsAlone
=============================================================================
