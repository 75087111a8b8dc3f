------------------------ MODULE ScenarioRunnerProofs ------------------------
(***************************************************************************)
(* What the runner promises, for every number of terminals, scenarios,     *)
(* payloads, starts and archives: RecordLoads, RestoredExactly, HomeKept,  *)
(* ResumeIsExact and AttemptKept.  All of it rests on the lock: while one  *)
(* process is past its entry every other one is idle, so what it has       *)
(* computed stays true until it acts on it.  FilesInv is what may be found *)
(* after a crash at any step, PointInv what a process may rely on at each  *)
(* step of its command.  What else the script does by itself comes last:   *)
(* the reset of a version 1 record, however often it fails and is          *)
(* repeated, and the judgement of evidence.                                *)
(***************************************************************************)
EXTENDS ScenarioRunner, LegacyReset, EvidenceCheck, SumTheorems, SequenceTheorems, TLAPS

\* The steps of the commands
Points == {"idle", "opened", "record", "preserve", "seal", "stage", "activate", "clear",
           "rebuild", "publish", "archive", "records", "describe", "restore", "return",
           "discard", "forget"}

Tasks == [pc : Points, cmd : {"none", "start", "resume", "verify", "reset"},
          scenario : Scenarios \cup {None}, mem : StateRecords \cup {None}, archive : Nat]

Places == Trees \cup {NoDir}

ArchiveRecords ==
  [scenario : Scenarios, attempt : Nat, edition : Editions, was : Places,
   saved : Trees, inventory : Trees,
   blocked : BOOLEAN, described : BOOLEAN, verification : BOOLEAN]

FileTypes ==
  /\ state \in StateRecords \cup {None}
  /\ work \in [Scenarios -> Places]
  /\ backup \in [Scenarios -> Places]
  /\ home \in [Scenarios -> Homes \cup {NoDir}]
  /\ archives \in Seq(ArchiveRecords)
  /\ edition \in Editions
  /\ starts \in Nat

\* Whoever does anything has the lock.
Locked == \A p \in Procs : task[p] # Idle => holder = p

\* A scenario of which nothing is recorded is as the participant left it.
Elsewhere ==
  \A s \in Scenarios :
    state = None \/ state.scenario # s => work[s] = home[s] /\ backup[s] = NoDir

\* The own directory went whole into an archive.
OwnArchived(s) == \E n \in DOMAIN archives : archives[n].scenario = s /\ archives[n].saved = home[s]

\* What the record says of the directory of its scenario.
Recorded ==
  state # None =>
    LET s == state.scenario IN
      /\ Loads(state)
      /\ state.existed <=> home[s] # NoDir
      /\ state.sealed \in {NoDir, home[s]}
      /\ backup[s] \in {NoDir, home[s], Spoilt}
      /\ state.sealed = NoDir => backup[s] \in {NoDir, home[s]}
      /\ state.existed /\ backup[s] = NoDir =>
           work[s] = home[s] \/ (state.moved /\ OwnArchived(s))

\* A record before anything was moved.
Fresh(m) == m.phase = "staging" /\ ~m.moved /\ m.sealed = NoDir

\* What a process holds agrees with the record, which may be older.
Begun(m) ==
  /\ state # None /\ m \in StateRecords
  /\ m.scenario = state.scenario /\ m.existed = state.existed
  /\ m.sealed \in {NoDir, home[m.scenario]}
  /\ m.sealed = NoDir => state.sealed = NoDir
  /\ state.moved => m.moved
  /\ m.moved => m.existed

\* A directory that existed is in the backup, and known by its hash.
SafelyAway(m) ==
  m.existed => m.moved /\ m.sealed # NoDir /\ backup[m.scenario] # NoDir

\* The steps after the record is written
Underway == Points \ {"idle", "opened", "record"}
Moving == {"stage", "activate", "clear", "rebuild", "publish"}

\* What a process may rely on where it stands.
PointInv(p) ==
  LET m == task[p].mem
      s == m.scenario
  IN /\ At(p, "opened") => task[p].scenario \in Scenarios
     /\ At(p, "record") => state = None /\ m \in StateRecords /\ Fresh(m)
     /\ At(p, "record") => (m.existed <=> home[s] # NoDir)
     /\ At(p, "preserve") => m = state /\ Fresh(m) /\ backup[s] = NoDir
     /\ At(p, "seal") => m = state /\ Fresh(m) /\ m.existed /\ backup[s] = home[s]
     /\ task[p].pc \in {"archive", "records", "describe"} => m = state
     /\ At(p, "archive") => ~NothingMovedYet(m)
     /\ task[p].pc \in Underway => Begun(m)
     /\ task[p].pc \in Moving => SafelyAway(m)
     /\ At(p, "return") => m.existed /\ backup[s] = home[s]
     /\ task[p].pc \in {"discard", "forget"} => work[s] = home[s]
     /\ At(p, "forget") => backup[s] = NoDir

\* An archive has the files of the tree it was made of that are no payloads of its
\* edition.  One that may be resumed has the inventory too, and no file besides.
Complete(a) ==
  /\ a.was # NoDir => Holds(a, a.was)
  /\ ~a.blocked =>
       /\ a.was \in Trees /\ a.inventory = a.was
       /\ \A f \in Paths : a.saved[f] \in {Gone, a.was[f]}

ArchivesComplete == \A n \in DOMAIN archives : Complete(archives[n])

\* What a resume checked at its start still holds.
ResumeInv(p) ==
  LET n == task[p].archive IN
    /\ task[p].cmd = "resume" => n \in DOMAIN archives
    /\ task[p].cmd = "resume" /\ ~At(p, "opened") =>
         ~archives[n].blocked /\ archives[n].edition = edition
    /\ task[p].pc \in {"clear", "rebuild", "publish"} => task[p].cmd = "resume"
    /\ At(p, "publish") => work[task[p].mem.scenario] = archives[n].was

\* What survives a crash
FilesInv == FileTypes /\ Elsewhere /\ Recorded /\ ArchivesComplete

\* What the commands rely on
TasksInv ==
  /\ task \in [Procs -> Tasks]
  /\ Locked
  /\ \A p \in Procs : PointInv(p) /\ ResumeInv(p)

RunnerInv == FilesInv /\ TasksInv
-----------------------------------------------------------------------------
(* What Goto and Leave do to the tasks: only p was doing anything. *)

LEMMA GotoStep ==
  ASSUME TasksInv, NEW p \in Procs, ~At(p, "idle"),
         NEW pc \in Points, NEW mem \in StateRecords \cup {None}, Goto(p, pc, mem)
  PROVE  /\ task'[p].pc = pc /\ task'[p].mem = mem /\ task'[p].cmd = task[p].cmd
         /\ task'[p].scenario = task[p].scenario /\ task'[p].archive = task[p].archive
         /\ PointInv(p)' /\ ResumeInv(p)' => TasksInv'
<1>1. /\ task' \in [Procs -> Tasks] /\ task'[p] = [task[p] EXCEPT !.pc = pc, !.mem = mem]
      /\ \A q \in Procs \ {p} : task'[q] = task[q]
  BY ZenonT(30) DEF Goto, TasksInv, Tasks
<1>2. holder = p /\ \A q \in Procs \ {p} : task[q] = Idle
  BY DEF TasksInv, Locked, At, Idle
<1>3. Locked'
  BY <1>1, <1>2 DEF Locked, Goto
<1>4. \A q \in Procs \ {p} : (PointInv(q) /\ ResumeInv(q))'
  BY <1>1, <1>2 DEF PointInv, ResumeInv, Idle, At, Underway, Moving
<1>5. task[p] \in Tasks
  BY DEF TasksInv
<1> QED
  BY <1>1, <1>3, <1>4, <1>5 DEF Tasks, TasksInv

LEMMA LeaveStep ==
  ASSUME TasksInv, NEW p \in Procs, ~At(p, "idle"), Leave(p)
  PROVE  TasksInv'
<1>1. task' \in [Procs -> Tasks] /\ \A q \in Procs : task'[q] = Idle
  BY DEF Leave, TasksInv, Tasks, Idle, Locked, At, Points
<1> QED
  BY <1>1 DEF TasksInv, Locked, PointInv, ResumeInv, Idle, At, Underway, Moving

\* A resume goes on with the archive it checked.
LEMMA ResumeGoesOn ==
  ASSUME TasksInv, NEW p \in Procs, ~At(p, "idle"), ~At(p, "opened"),
         NEW pc \in Points \ {"clear", "rebuild", "publish"},
         NEW mem \in StateRecords \cup {None}, Goto(p, pc, mem), UNCHANGED edition,
         \A n \in DOMAIN archives :
           /\ n \in DOMAIN archives' /\ archives'[n].blocked = archives[n].blocked
           /\ archives'[n].edition = archives[n].edition
  PROVE  ResumeInv(p)'
BY GotoStep DEF TasksInv, ResumeInv, At

-----------------------------------------------------------------------------
(* Trees stay trees. *)

LEMMA TreeFacts ==
  ASSUME RunnerAssumption
  PROVE  /\ Empty \in Trees
         /\ \A e \in Editions : Staged(e) \in Trees
         /\ \A t \in Trees : Parts(t) \subseteq Trees
         /\ Homes \cup Edits \cup {Spoilt} \subseteq Trees
BY DEF RunnerAssumption, Empty, Staged, Parts, Trees

LEMMA RecoveredTree ==
  ASSUME RunnerAssumption, NEW a \in ArchiveRecords, edition \in Editions
  PROVE  Recovered(a) \in Trees
BY TreeFacts DEF Recovered, ArchiveRecords, Trees, RunnerAssumption

\* The tree an archive gives back is the one it was made of.
LEMMA RecoveredExactly ==
  ASSUME RunnerAssumption, NEW a \in ArchiveRecords, Complete(a), ~a.blocked, a.edition = edition
  PROVE  Recovered(a) = a.was
<1>1. a.was \in Trees /\ a.inventory = a.was /\ a.was # NoDir
  BY DEF Complete, RunnerAssumption
<1>2. ASSUME NEW f \in Paths
      PROVE  a.was[f] = IF a.inventory[f] = Gone THEN Gone
                        ELSE IF a.saved[f] # Gone THEN a.saved[f] ELSE Staged(edition)[f]
  BY <1>1 DEF Complete, Holds, Staged
<1> QED
  BY <1>1, <1>2 DEF Recovered, Trees

\* What Collect and Relocate put into an archive is enough.
LEMMA ArchiveComplete ==
  ASSUME RunnerAssumption, NEW m \in StateRecords, NEW t \in Places, NEW kept \in SUBSET Paths,
         NeedsWhole(t) => kept = {f \in Paths : t[f] # Gone},
         ~NeedsWhole(t) => kept = Changed(m, t)
  PROVE  Archive(m, t, kept) \in ArchiveRecords /\ Complete(Archive(m, t, kept))
<1> DEFINE a == Archive(m, t, kept)
<1>1. t = NoDir => kept = {}
  BY DEF NeedsWhole, Changed
<1>2. Copied(t, kept) \in Trees
  BY <1>1, TreeFacts DEF Copied, Trees, Places, RunnerAssumption
<1>3. a \in ArchiveRecords
  BY <1>2, TreeFacts DEF Archive, ArchiveRecords, StateRecords, Places, CanCapture
<1>4. a.was = t /\ a.edition = m.edition
      /\ \A f \in Paths : a.saved[f] = IF f \in kept THEN t[f] ELSE Gone
  BY DEF Archive, Copied
<1>5. ASSUME t # NoDir, NEW f \in Paths \ kept, t[f] # Gone
      PROVE  f \in Range(Stage) /\ t[f] = m.edition
  <2>1. ~NeedsWhole(t) /\ f \notin Changed(m, t)
    BY <1>5
  <2>2. t[f] \notin Linked \cup Hollow \cup {Gone}
    BY <1>5, <2>1 DEF NeedsWhole, RunnerAssumption
  <2> QED
    BY <1>5, <2>1, <2>2 DEF Changed, Unchanged
<1>6. a.was # NoDir => Holds(a, a.was)
  BY <1>4, <1>5 DEF Holds
<1>7. ~a.blocked => t \in Trees /\ a.inventory = t
  BY DEF Archive, CanCapture, Places
<1> HIDE DEF a
<1>8. Complete(a)
  BY <1>4, <1>6, <1>7 DEF Complete
<1> QED
  BY <1>3, <1>8 DEF a

-----------------------------------------------------------------------------
LEMMA FilesKept ==
  ASSUME FilesInv, UNCHANGED <<state, work, backup, archives, home, edition, starts>>
  PROVE  FilesInv'
BY DEF FilesInv, FileTypes, Elsewhere, Recorded, ArchivesComplete, Complete, OwnArchived, Loads,
       Staged

LEMMA EnterStep ==
  ASSUME RunnerAssumption, RunnerInv, NEW p \in Procs, NEW s \in Scenarios,
         NEW cmd \in {"start", "resume", "verify", "reset"}, NEW n \in Nat,
         cmd = "resume" => n \in DOMAIN archives, Enter(p, cmd, s, n)
  PROVE  RunnerInv'
<1>1. FilesInv'
  BY FilesKept DEF RunnerInv, Enter, files, history
<1>2. \A q \in Procs : task[q] = Idle
  BY DEF RunnerInv, TasksInv, Locked, Enter, LockIsFree, RunnerAssumption
<1>3. /\ task' \in [Procs -> Tasks] /\ \A q \in Procs \ {p} : task'[q] = Idle
      /\ task'[p] = [pc |-> "opened", cmd |-> cmd, scenario |-> s, mem |-> None, archive |-> n]
  BY <1>2 DEF RunnerInv, TasksInv, Enter, Tasks, Points, Idle
<1>4. Locked'
  BY <1>3 DEF Locked, Enter
<1>5. \A q \in Procs : (PointInv(q) /\ ResumeInv(q))'
  BY <1>3 DEF PointInv, ResumeInv, Idle, At, Underway, Moving, Enter, files
<1> QED
  BY <1>1, <1>3, <1>4, <1>5 DEF RunnerInv, TasksInv

LEMMA CrashStep ==
  ASSUME RunnerInv, NEW p \in Procs, Crash(p)
  PROVE  RunnerInv'
<1>1. Leave(p)
  BY DEF RunnerInv, TasksInv, Locked, Crash, Leave, At, Idle
<1> QED
  BY <1>1, LeaveStep, FilesKept DEF RunnerInv, Crash, files, history

LEMMA InspectStep ==
  ASSUME RunnerAssumption, RunnerInv, NEW p \in Procs, Inspect(p)
  PROVE  RunnerInv'
<1> DEFINE s == task[p].scenario
           m == Plan(s, starts + 1)
<1>1. s \in Scenarios /\ state = None
  BY DEF RunnerInv, TasksInv, PointInv, Inspect, MayStart, NothingActive
<1>2. m \in StateRecords /\ Fresh(m) /\ m.scenario = s
  BY <1>1 DEF RunnerInv, FilesInv, FileTypes, Plan, StateRecords, Fresh
<1>3. m.existed <=> home[s] # NoDir
  BY <1>1 DEF RunnerInv, FilesInv, Elsewhere, Plan
<1>4. FilesInv'
  BY DEF RunnerInv, FilesInv, FileTypes, Elsewhere, Recorded, ArchivesComplete, Complete,
         OwnArchived, Loads, Staged, Inspect, files
<1>5. /\ task'[p].pc = "record" /\ task'[p].mem = m /\ task'[p].cmd = task[p].cmd
      /\ task'[p].scenario = task[p].scenario /\ task'[p].archive = task[p].archive
      /\ PointInv(p)' /\ ResumeInv(p)' => TasksInv'
  <2> HIDE DEF m
  <2> QED
  BY <1>2, GotoStep DEF RunnerInv, Inspect, At, Points, m
<1>6. PointInv(p)'
  <2> HIDE DEF m
  <2> QED
    BY <1>1, <1>2, <1>3, <1>5 DEF PointInv, At, Underway, Moving, Inspect
<1>7. ResumeInv(p)'
  BY <1>5 DEF RunnerInv, TasksInv, ResumeInv, Inspect, MayStart, MayResume, Resumable, At, files
<1> QED
  BY <1>4, <1>5, <1>6, <1>7 DEF RunnerInv

LEMMA RefuseStep ==
  ASSUME RunnerInv, NEW p \in Procs, Refuse(p)
  PROVE  RunnerInv'
BY LeaveStep, FilesKept DEF RunnerInv, Refuse, At, files, history

-----------------------------------------------------------------------------
(* start *)

LEMMA RecordStep ==
  ASSUME RunnerAssumption, RunnerInv, NEW p \in Procs, Record(p)
  PROVE  RunnerInv'
<1> DEFINE m == task[p].mem
<1> ~At(p, "idle") /\ ~At(p, "opened") /\ "preserve" \in Points
  BY DEF Record, At, Points
<1>1. state = None /\ m \in StateRecords /\ Fresh(m) /\ (m.existed <=> home[m.scenario] # NoDir)
  BY DEF RunnerInv, TasksInv, PointInv, Record
<1>2. CASE state' = m /\ Goto(p, "preserve", m)
  <2>1. /\ UNCHANGED <<work, backup, archives, records, home, edition, starts>>
        /\ state' = m
    BY <1>2 DEF Record, files, history
  <2>2. m.scenario \in Scenarios /\ m # None
    BY <1>1 DEF StateRecords, RunnerAssumption
  <2>3. \A s \in Scenarios : work[s] = home[s] /\ backup[s] = NoDir
    BY <1>1 DEF RunnerInv, FilesInv, Elsewhere
  <2>4. FileTypes' /\ Elsewhere' /\ ArchivesComplete'
    BY <1>1, <2>1, <2>3 DEF RunnerInv, FilesInv, FileTypes, Elsewhere, ArchivesComplete,
       Complete, Holds, Staged
  <2>5. Recorded'
    BY <1>1, <2>1, <2>2, <2>3 DEF Recorded, Loads, Fresh
  <2>6. Begun(m)'
    BY <1>1, <1>2, <2>1, <2>2, GotoStep DEF RunnerInv, Begun, Fresh
  <2>7. PointInv(p)'
    BY <1>1, <1>2, <2>1, <2>2, <2>3, <2>6, GotoStep DEF RunnerInv, PointInv, At, Underway, Moving
  <2>8. ResumeInv(p)'
    BY <1>1, <1>2, <2>1, ResumeGoesOn DEF RunnerInv, Points
  <2> QED
    BY <1>1, <1>2, <2>4, <2>5, <2>7, <2>8, GotoStep DEF RunnerInv, FilesInv
<1>3. CASE UNCHANGED state /\ Leave(p)
  BY <1>3, LeaveStep, FilesKept DEF RunnerInv, Record, files, history
<1> QED
  BY <1>2, <1>3 DEF Record

LEMMA PreserveStep ==
  ASSUME RunnerAssumption, RunnerInv, NEW p \in Procs, Preserve(p)
  PROVE  RunnerInv'
<1> DEFINE m == task[p].mem
           s == m.scenario
<1> ~At(p, "idle") /\ ~At(p, "opened") /\ {"stage", "seal", "restore"} \subseteq Points
  BY DEF Preserve, At, Points
<1>1. m = state /\ Fresh(m) /\ backup[s] = NoDir /\ Begun(m)
  BY DEF RunnerInv, TasksInv, PointInv, Preserve, At, Underway, Points
<1>2. UNCHANGED <<state, archives, records, home, edition, starts>>
  BY DEF Preserve, history
<1>3. m \in StateRecords /\ state # None /\ s \in Scenarios
  BY <1>1 DEF Begun, StateRecords
<1>4. Loads(state) /\ (m.existed <=> home[s] # NoDir) /\ (m.existed => work[s] = home[s])
  BY <1>1, <1>3 DEF RunnerInv, FilesInv, Recorded, Fresh
<1>5. task'[p].mem = m => Begun(m)'
  BY <1>1, <1>2 DEF Begun
<1>6. CASE ~m.existed /\ Goto(p, "stage", m) /\ UNCHANGED <<work, backup>>
  <2>1. FilesInv'
    BY <1>2, <1>6, FilesKept DEF RunnerInv
  <2>2. PointInv(p)'
    BY <1>3, <1>5, <1>6, GotoStep DEF RunnerInv, PointInv, At, Underway, Moving, SafelyAway
  <2> QED
    BY <1>2, <1>3, <1>6, <2>1, <2>2, GotoStep, ResumeGoesOn DEF RunnerInv
<1>7. CASE m.existed /\ Goto(p, "restore", m) /\ UNCHANGED <<work, backup>>
  <2>1. FilesInv'
    BY <1>2, <1>7, FilesKept DEF RunnerInv
  <2>2. PointInv(p)'
    BY <1>3, <1>5, <1>7, GotoStep DEF RunnerInv, PointInv, At, Underway, Moving, SafelyAway
  <2> QED
    BY <1>2, <1>3, <1>7, <2>1, <2>2, GotoStep, ResumeGoesOn DEF RunnerInv
<1>8. CASE /\ m.existed
           /\ work' = [work EXCEPT ![s] = NoDir]
           /\ backup' = [backup EXCEPT ![s] = work[s]]
           /\ Goto(p, "seal", m)
  <2>1. FileTypes'
    BY <1>2, <1>3, <1>8 DEF RunnerInv, FilesInv, FileTypes, Places
  <2>2. backup'[s] = home[s] /\ \A q \in Scenarios \ {s} : work'[q] = work[q] /\ backup'[q] = backup[q]
    BY <1>3, <1>4, <1>8 DEF RunnerInv, FilesInv, FileTypes
  <2>3. Elsewhere' /\ ArchivesComplete'
    BY <1>1, <1>2, <1>3, <2>2 DEF RunnerInv, FilesInv, Elsewhere, ArchivesComplete, Complete,
       Holds, Staged
  <2>4. Recorded'
    BY <1>1, <1>2, <1>3, <1>4, <1>8, <2>2 DEF Recorded, Loads, Fresh
  <2>5. PointInv(p)'
    BY <1>1, <1>2, <1>3, <1>5, <1>8, <2>2, GotoStep DEF RunnerInv, PointInv, At, Underway, Moving,
       SafelyAway
  <2> QED
    BY <1>2, <1>3, <1>8, <2>1, <2>3, <2>4, <2>5, GotoStep, ResumeGoesOn DEF RunnerInv, FilesInv
<1> QED
  BY <1>6, <1>7, <1>8 DEF Preserve

\* The work directory may become anything while the own one is in the backup.
LEMMA WorkChanged ==
  ASSUME FilesInv, state # None, state.existed => backup[state.scenario] # NoDir,
         NEW t \in Places, work' = [work EXCEPT ![state.scenario] = t],
         UNCHANGED <<state, backup, archives, home, edition, starts>>
  PROVE  FilesInv' /\ work'[state.scenario] = t
<1>1. state.scenario \in Scenarios
  BY DEF FilesInv, FileTypes, StateRecords
<1>2. FileTypes' /\ work'[state.scenario] = t
  BY <1>1 DEF FilesInv, FileTypes
<1>3. Elsewhere' /\ Recorded'
  BY <1>1 DEF FilesInv, FileTypes, Elsewhere, Recorded, Loads
<1> QED
  BY <1>2, <1>3 DEF FilesInv, ArchivesComplete, Complete, Holds, Staged

\* A later record of the same start may replace the earlier one.
LEMMA RecordReplaced ==
  ASSUME FilesInv, NEW m, Begun(m), Loads(m), SafelyAway(m), state' = m, m # None,
         UNCHANGED <<work, backup, archives, home, edition, starts>>
  PROVE  FilesInv'
<1>1. m.scenario = state.scenario /\ state # None
  BY DEF Begun
<1>2. FileTypes' /\ Elsewhere' /\ ArchivesComplete'
  BY <1>1 DEF FilesInv, FileTypes, Elsewhere, ArchivesComplete, Complete, Holds, Staged, Begun
<1>3. Recorded'
  BY <1>1 DEF FilesInv, Recorded, Begun, SafelyAway, Loads
<1> QED
  BY <1>2, <1>3 DEF FilesInv

LEMMA NoneIsNoRecord ==
  ASSUME RunnerAssumption
  PROVE  \A m \in StateRecords : m # None
BY DEF RunnerAssumption

LEMMA SealStep ==
  ASSUME RunnerAssumption, RunnerInv, NEW p \in Procs, Seal(p)
  PROVE  RunnerInv'
<1> DEFINE m == task[p].mem
           s == m.scenario
           sealed == [m EXCEPT !.moved = TRUE, !.sealed = backup[s]]
<1> ~At(p, "idle") /\ ~At(p, "opened") /\ {"stage", "restore"} \subseteq Points
  BY DEF Seal, At, Points
<1>1. m = state /\ Fresh(m) /\ m.existed /\ backup[s] = home[s] /\ Begun(m)
  BY DEF RunnerInv, TasksInv, PointInv, Seal, At, Underway, Points
<1>2. UNCHANGED <<work, backup, archives, records, home, edition, starts>>
  BY DEF Seal, files, history
<1>3. m \in StateRecords /\ state # None /\ s \in Scenarios
  BY <1>1 DEF Begun, StateRecords
<1>4. Loads(state) /\ home[s] # NoDir /\ home[s] \in Homes
  BY <1>1, <1>3 DEF RunnerInv, FilesInv, FileTypes, Recorded, Fresh
<1>5. sealed \in StateRecords /\ sealed.scenario = s /\ sealed.existed
      /\ sealed.moved /\ sealed.sealed = home[s] /\ sealed.phase = "staging"
  BY <1>1, <1>3, <1>4 DEF StateRecords, Fresh
<1> HIDE DEF sealed
<1>6. Begun(sealed) /\ SafelyAway(sealed) /\ Loads(sealed)
  BY <1>1, <1>3, <1>4, <1>5 DEF Begun, SafelyAway, Loads
<1>7. CASE state' = sealed /\ Goto(p, "stage", sealed)
  <2>1. FilesInv'
    BY <1>2, <1>5, <1>6, <1>7, RecordReplaced, NoneIsNoRecord DEF RunnerInv
  <2>2. PointInv(p)'
    BY <1>2, <1>5, <1>6, <1>7, GotoStep, NoneIsNoRecord DEF RunnerInv, PointInv, At, Underway,
       Moving, SafelyAway, Begun
  <2> QED
    BY <1>2, <1>5, <1>7, <2>1, <2>2, GotoStep, ResumeGoesOn DEF RunnerInv, Points
<1>8. CASE UNCHANGED state /\ Goto(p, "restore", sealed)
  <2>1. FilesInv'
    BY <1>2, <1>8, FilesKept DEF RunnerInv
  <2>2. PointInv(p)'
    BY <1>2, <1>5, <1>6, <1>8, GotoStep DEF RunnerInv, PointInv, At, Underway, Moving, Begun
  <2> QED
    BY <1>2, <1>5, <1>8, <2>1, <2>2, GotoStep, ResumeGoesOn DEF RunnerInv, Points
<1>9. CASE UNCHANGED state /\ Goto(p, "restore", m)
  <2>1. FilesInv'
    BY <1>2, <1>9, FilesKept DEF RunnerInv
  <2>2. PointInv(p)'
    BY <1>1, <1>2, <1>3, <1>9, GotoStep DEF RunnerInv, PointInv, At, Underway, Moving, Begun
  <2> QED
    BY <1>2, <1>3, <1>9, <2>1, <2>2, GotoStep, ResumeGoesOn DEF RunnerInv, Points
<1> QED
  BY <1>7, <1>8, <1>9 DEF Seal, sealed

LEMMA StagePayloadStep ==
  ASSUME RunnerAssumption, RunnerInv, NEW p \in Procs, StagePayload(p)
  PROVE  RunnerInv'
<1> DEFINE m == task[p].mem
           s == m.scenario
           staged == [m EXCEPT !.staged = TRUE]
<1> ~At(p, "idle") /\ ~At(p, "opened") /\ {"activate", "restore"} \subseteq Points
  BY DEF StagePayload, At, Points
<1>1. Begun(m) /\ SafelyAway(m)
  BY DEF RunnerInv, TasksInv, PointInv, StagePayload, At, Underway, Moving, Points
<1>2. UNCHANGED <<state, backup, archives, records, home, edition, starts>>
  BY DEF StagePayload, history
<1>3. m \in StateRecords /\ state # None /\ s \in Scenarios /\ m.edition \in Editions
  BY <1>1 DEF Begun, StateRecords
<1>4. ASSUME NEW f, work' = [work EXCEPT ![s] = [Directory(s) EXCEPT ![f] = m.edition]],
             UNCHANGED <<task, holder>>
      PROVE  RunnerInv'
  <2>1. [Directory(s) EXCEPT ![f] = m.edition] \in Places
    BY <1>3, TreeFacts DEF Directory, RunnerInv, FilesInv, FileTypes, Places, Trees, RunnerAssumption
  <2>2. FilesInv'
    BY <1>1, <1>2, <1>3, <1>4, <2>1, WorkChanged DEF RunnerInv, Begun, SafelyAway
  <2>3. TasksInv'
    <3>1. holder = p /\ task[p].pc = "stage" /\ \A q \in Procs \ {p} : task[q] = Idle
      BY DEF RunnerInv, TasksInv, Locked, At, Idle, StagePayload
    <3>2. PointInv(p)'
      BY <1>1, <1>2, <1>4, <3>1 DEF PointInv, At, Underway, Moving, Begun, SafelyAway
    <3>3. \A q \in Procs \ {p} : (PointInv(q) /\ ResumeInv(q))'
      BY <1>4, <3>1 DEF PointInv, ResumeInv, Idle, At, Underway, Moving
    <3>4. ResumeInv(p)'
      BY <1>2, <1>4, <3>1 DEF RunnerInv, TasksInv, ResumeInv, At
    <3> QED
      BY <1>4, <3>2, <3>3, <3>4 DEF RunnerInv, TasksInv, Locked, Tasks
  <2> QED
    BY <2>2, <2>3 DEF RunnerInv
<1>5. CASE Goto(p, "activate", staged) /\ UNCHANGED work
  <2>1. /\ staged \in StateRecords /\ staged.scenario = s /\ staged.existed = m.existed
        /\ staged.moved = m.moved /\ staged.sealed = m.sealed
    BY <1>3 DEF StateRecords
  <2> HIDE DEF staged
  <2>2. PointInv(p)'
    BY <1>1, <1>2, <1>5, <2>1, GotoStep DEF RunnerInv, PointInv, At, Underway, Moving, Begun,
       SafelyAway
  <2> QED
    BY <1>2, <1>5, <2>1, <2>2, GotoStep, ResumeGoesOn, FilesKept DEF RunnerInv, Points
<1>6. CASE Goto(p, "restore", m) /\ UNCHANGED work
  <2>1. PointInv(p)'
    BY <1>1, <1>2, <1>6, GotoStep DEF RunnerInv, PointInv, At, Underway, Moving, Begun
  <2> QED
    BY <1>2, <1>3, <1>6, <2>1, GotoStep, ResumeGoesOn, FilesKept DEF RunnerInv, Points
<1> QED
  BY <1>4, <1>5, <1>6 DEF StagePayload

LEMMA SafelyAwayLoads ==
  ASSUME FilesInv, NEW m, Begun(m), SafelyAway(m)
  PROVE  Loads(m)
BY DEF FilesInv, Recorded, Begun, SafelyAway, Loads

LEMMA ActivateStep ==
  ASSUME RunnerAssumption, RunnerInv, NEW p \in Procs, Activate(p)
  PROVE  RunnerInv'
<1> DEFINE held == task[p].mem
           resumes == task[p].cmd = "resume"
           m == IF resumes THEN held ELSE [held EXCEPT !.phase = "active"]
<1> ~At(p, "idle") /\ ~At(p, "opened") /\ {"clear", "restore"} \subseteq Points
  BY DEF Activate, At, Points
<1>1. Begun(held) /\ SafelyAway(held)
  BY DEF RunnerInv, TasksInv, PointInv, Activate, At, Underway, Moving, Points
<1>2. UNCHANGED <<work, backup, archives, records, home, edition, starts>>
  BY DEF Activate, files
<1>3. held \in StateRecords
  BY <1>1 DEF Begun
<1>4. /\ m \in StateRecords /\ m.scenario = held.scenario /\ m.existed = held.existed
      /\ m.moved = held.moved /\ m.sealed = held.sealed
  BY <1>3 DEF StateRecords
<1> HIDE DEF m
<1>5. Begun(m) /\ SafelyAway(m) /\ Loads(m)
  <2>1. Begun(m) /\ SafelyAway(m)
    BY <1>1, <1>4 DEF Begun, SafelyAway
  <2> QED
    BY <2>1, SafelyAwayLoads DEF RunnerInv
<1>6. CASE state' = m /\ IF resumes THEN Goto(p, "clear", m) ELSE Leave(p)
  <2>1. FilesInv'
    BY <1>2, <1>4, <1>5, <1>6, RecordReplaced, NoneIsNoRecord DEF RunnerInv
  <2>2. CASE ~resumes
    BY <1>6, <2>1, <2>2, LeaveStep DEF RunnerInv
  <2>3. CASE resumes
    <3>1. PointInv(p)'
      BY <1>2, <1>4, <1>5, <1>6, <2>3, GotoStep, NoneIsNoRecord
      DEF RunnerInv, PointInv, At, Underway, Moving, Begun, SafelyAway
    <3>2. ResumeInv(p)'
      BY <1>2, <1>4, <1>6, <2>3, GotoStep DEF RunnerInv, TasksInv, ResumeInv, At
    <3> QED
      BY <1>4, <1>6, <2>1, <2>3, <3>1, <3>2, GotoStep DEF RunnerInv
  <2> QED
    BY <2>2, <2>3
<1>7. CASE UNCHANGED state /\ Goto(p, "restore", m)
  <2>1. PointInv(p)'
    BY <1>2, <1>4, <1>5, <1>7, GotoStep DEF RunnerInv, PointInv, At, Underway, Moving, Begun
  <2> QED
    BY <1>2, <1>4, <1>7, <2>1, GotoStep, ResumeGoesOn, FilesKept DEF RunnerInv, Points
<1> QED
  BY <1>6, <1>7 DEF Activate, m

-----------------------------------------------------------------------------
(* resume *)

LEMMA ClearStep ==
  ASSUME RunnerAssumption, RunnerInv, NEW p \in Procs, Clear(p)
  PROVE  RunnerInv'
<1> DEFINE m == task[p].mem
           s == m.scenario
<1> ~At(p, "idle") /\ ~At(p, "opened") /\ {"rebuild", "restore"} \subseteq Points
  BY DEF Clear, At, Points
<1>1. Begun(m) /\ SafelyAway(m) /\ task[p].cmd = "resume"
  BY DEF RunnerInv, TasksInv, PointInv, ResumeInv, Clear, At, Underway, Moving, Points
<1>2. UNCHANGED <<state, backup, archives, records, home, edition, starts>>
  BY DEF Clear, history
<1>3. m \in StateRecords /\ state # None /\ s \in Scenarios
  BY <1>1 DEF Begun, StateRecords
<1>4. CASE work' = [work EXCEPT ![s] = NoDir] /\ Goto(p, "rebuild", m)
  <2>1. FilesInv'
    BY <1>1, <1>2, <1>3, <1>4, WorkChanged DEF RunnerInv, Begun, SafelyAway, Places
  <2>2. PointInv(p)'
    BY <1>1, <1>2, <1>3, <1>4, GotoStep DEF RunnerInv, PointInv, At, Underway, Moving, Begun,
       SafelyAway
  <2>3. ResumeInv(p)'
    BY <1>1, <1>2, <1>3, <1>4, GotoStep DEF RunnerInv, TasksInv, ResumeInv, At
  <2> QED
    BY <1>3, <1>4, <2>1, <2>2, <2>3, GotoStep DEF RunnerInv
<1>5. ASSUME NEW t \in Parts(Directory(s)), work' = [work EXCEPT ![s] = t], Goto(p, "restore", m)
      PROVE  RunnerInv'
  <2>1. Directory(s) \in Trees
    BY <1>3, TreeFacts DEF Directory, RunnerInv, FilesInv, FileTypes, Places
  <2>2. FilesInv'
    BY <1>1, <1>2, <1>3, <1>5, <2>1, TreeFacts, WorkChanged
    DEF RunnerInv, Begun, SafelyAway, Places
  <2>3. PointInv(p)'
    BY <1>1, <1>2, <1>3, <1>5, GotoStep DEF RunnerInv, PointInv, At, Underway, Moving, Begun
  <2> QED
    BY <1>2, <1>3, <1>5, <2>2, <2>3, GotoStep, ResumeGoesOn DEF RunnerInv, Points
<1> QED
  BY <1>4, <1>5 DEF Clear

LEMMA RebuildStep ==
  ASSUME RunnerAssumption, RunnerInv, NEW p \in Procs, Rebuild(p)
  PROVE  RunnerInv'
<1> DEFINE m == task[p].mem
           s == m.scenario
           a == archives[task[p].archive]
<1> ~At(p, "idle") /\ ~At(p, "opened") /\ {"publish", "restore"} \subseteq Points
  BY DEF Rebuild, At, Points
<1>1. Begun(m) /\ SafelyAway(m) /\ task[p].cmd = "resume" /\ task[p].archive \in DOMAIN archives
      /\ ~a.blocked /\ a.edition = edition
  BY DEF RunnerInv, TasksInv, PointInv, ResumeInv, Rebuild, At, Underway, Moving, Points
<1>2. UNCHANGED <<state, backup, archives, records, home, edition, starts>>
  BY DEF Rebuild, history
<1>3. m \in StateRecords /\ state # None /\ s \in Scenarios
  BY <1>1 DEF Begun, StateRecords
<1>4. a \in ArchiveRecords /\ Complete(a)
  BY <1>1 DEF RunnerInv, FilesInv, FileTypes, ArchivesComplete
<1>5. Recovered(a) = a.was /\ Recovered(a) \in Trees
  BY <1>1, <1>4, RecoveredExactly DEF Complete
<1>6. CASE work' = [work EXCEPT ![s] = Recovered(a)] /\ Goto(p, "publish", m)
  <2>1. FilesInv' /\ work'[s] = a.was
    BY <1>1, <1>2, <1>3, <1>5, <1>6, WorkChanged DEF RunnerInv, Begun, SafelyAway, Places
  <2>2. PointInv(p)'
    BY <1>1, <1>2, <1>3, <1>6, GotoStep DEF RunnerInv, PointInv, At, Underway, Moving, Begun,
       SafelyAway
  <2>3. ResumeInv(p)'
    BY <1>1, <1>2, <1>3, <1>6, <2>1, GotoStep DEF RunnerInv, ResumeInv, At
  <2> QED
    BY <1>3, <1>6, <2>1, <2>2, <2>3, GotoStep DEF RunnerInv
<1>7. ASSUME NEW t \in Parts(Recovered(a)), work' = [work EXCEPT ![s] = t], Goto(p, "restore", m)
      PROVE  RunnerInv'
  <2>1. FilesInv'
    BY <1>1, <1>2, <1>3, <1>5, <1>7, TreeFacts, WorkChanged
    DEF RunnerInv, Begun, SafelyAway, Places
  <2>2. PointInv(p)'
    BY <1>1, <1>2, <1>3, <1>7, GotoStep DEF RunnerInv, PointInv, At, Underway, Moving, Begun
  <2> QED
    BY <1>2, <1>3, <1>7, <2>1, <2>2, GotoStep, ResumeGoesOn DEF RunnerInv, Points
<1> QED
  BY <1>6, <1>7 DEF Rebuild

LEMMA PublishStep ==
  ASSUME RunnerAssumption, RunnerInv, NEW p \in Procs, Publish(p)
  PROVE  RunnerInv'
<1> DEFINE held == task[p].mem
           m == [held EXCEPT !.phase = "active"]
<1> ~At(p, "idle") /\ ~At(p, "opened") /\ "restore" \in Points
  BY DEF Publish, At, Points
<1>1. Begun(held) /\ SafelyAway(held)
  BY DEF RunnerInv, TasksInv, PointInv, Publish, At, Underway, Moving, Points
<1>2. UNCHANGED <<work, backup, archives, records, home, edition, starts>>
  BY DEF Publish, files
<1>3. held \in StateRecords
  BY <1>1 DEF Begun
<1>4. /\ m \in StateRecords /\ m.scenario = held.scenario /\ m.existed = held.existed
      /\ m.moved = held.moved /\ m.sealed = held.sealed
  BY <1>3 DEF StateRecords
<1> HIDE DEF m
<1>5. Begun(m) /\ SafelyAway(m) /\ Loads(m)
  <2>1. Begun(m) /\ SafelyAway(m)
    BY <1>1, <1>4 DEF Begun, SafelyAway
  <2> QED
    BY <2>1, SafelyAwayLoads DEF RunnerInv
<1>6. CASE state' = m /\ Leave(p)
  BY <1>2, <1>4, <1>5, <1>6, RecordReplaced, NoneIsNoRecord, LeaveStep DEF RunnerInv
<1>7. CASE UNCHANGED state /\ Goto(p, "restore", m)
  <2>1. PointInv(p)'
    BY <1>2, <1>4, <1>5, <1>7, GotoStep DEF RunnerInv, PointInv, At, Underway, Moving, Begun
  <2> QED
    BY <1>2, <1>4, <1>7, <2>1, GotoStep, ResumeGoesOn, FilesKept DEF RunnerInv, Points
<1> QED
  BY <1>6, <1>7 DEF Publish, m


-----------------------------------------------------------------------------
(* verify and reset *)

LEMMA VerifyStep ==
  ASSUME RunnerInv, NEW p \in Procs, Verify(p)
  PROVE  RunnerInv'
BY LeaveStep, FilesKept DEF RunnerInv, Verify, At, history

LEMMA ExamineStep ==
  ASSUME RunnerAssumption, RunnerInv, NEW p \in Procs, Examine(p)
  PROVE  RunnerInv'
<1> ~At(p, "idle") /\ At(p, "opened") /\ {"archive", "restore"} \subseteq Points
  BY DEF Examine, At, Points
<1>1. state \in StateRecords /\ Loads(state) /\ state # None
  BY DEF Examine, MayReset, RunnerInv, FilesInv, FileTypes
<1>2. Begun(state)
  BY <1>1 DEF Begun, RunnerInv, FilesInv, Recorded, Loads
<1>3. UNCHANGED <<state, work, backup, archives, home, edition, starts>>
  BY DEF Examine, files, history
<1>5. CASE Goto(p, "archive", state) /\ ~NothingMovedYet(state)
  <2>1. PointInv(p)'
    BY <1>1, <1>2, <1>3, <1>5, GotoStep DEF RunnerInv, PointInv, At, Underway, Moving, Begun,
       NothingMovedYet
  <2>2. ResumeInv(p)'
    BY <1>1, <1>3, <1>5, GotoStep DEF Examine, RunnerInv, ResumeInv, At
  <2> QED
    BY <1>1, <1>3, <1>5, <2>1, <2>2, GotoStep, FilesKept DEF RunnerInv
<1>6. CASE Goto(p, "restore", state)
  <2>1. PointInv(p)'
    BY <1>1, <1>2, <1>3, <1>6, GotoStep DEF RunnerInv, PointInv, At, Underway, Moving, Begun
  <2>2. ResumeInv(p)'
    BY <1>1, <1>3, <1>6, GotoStep DEF Examine, RunnerInv, ResumeInv, At
  <2> QED
    BY <1>1, <1>3, <1>6, <2>1, <2>2, GotoStep, FilesKept DEF RunnerInv
<1> QED
  BY <1>5, <1>6 DEF Examine

LEMMA ArchivesKept ==
  ASSUME FilesInv, archives' \in Seq(ArchiveRecords),
         \A n \in DOMAIN archives :
           /\ n \in DOMAIN archives' /\ archives'[n].scenario = archives[n].scenario
           /\ archives'[n].saved = archives[n].saved,
         \A n \in DOMAIN archives' : Complete(archives'[n]),
         UNCHANGED <<state, work, backup, home, edition, starts>>
  PROVE  FilesInv'
<1>1. FileTypes' /\ Elsewhere' /\ ArchivesComplete'
  BY DEF FilesInv, FileTypes, Elsewhere, ArchivesComplete, Complete, Holds, Staged
<1>2. \A s \in Scenarios : OwnArchived(s) => OwnArchived(s)'
  BY DEF OwnArchived
<1>3. state # None => state.scenario \in Scenarios
  BY DEF FilesInv, FileTypes, StateRecords
<1>4. Recorded'
  BY <1>2, <1>3 DEF FilesInv, Recorded, Loads
<1> QED
  BY <1>1, <1>4 DEF FilesInv

LEMMA Appended ==
  ASSUME archives \in Seq(ArchiveRecords), NEW a \in ArchiveRecords,
         archives' = Append(archives, a)
  PROVE  /\ archives' \in Seq(ArchiveRecords)
         /\ \A n \in DOMAIN archives : n \in DOMAIN archives' /\ archives'[n] = archives[n]
         /\ \A n \in DOMAIN archives' : n \in DOMAIN archives \/ archives'[n] = a
         /\ \E n \in DOMAIN archives' : archives'[n] = a
<1>1. archives' \in Seq(ArchiveRecords) /\ Len(archives') = Len(archives) + 1
      /\ archives'[Len(archives) + 1] = a
      /\ \A n \in 1..Len(archives) : archives'[n] = archives[n]
  OBVIOUS
<1>2. DOMAIN archives = 1..Len(archives) /\ DOMAIN archives' = 1..(Len(archives) + 1)
      /\ Len(archives) \in Nat
  BY <1>1
<1> QED
  BY <1>1, <1>2

LEMMA CollectStep ==
  ASSUME RunnerAssumption, RunnerInv, NEW p \in Procs, Collect(p)
  PROVE  RunnerInv'
<1> DEFINE m == task[p].mem
           t == work[m.scenario]
           a == Archive(m, t, Changed(m, t))
<1> ~At(p, "idle") /\ ~At(p, "opened") /\ "records" \in Points
  BY DEF Collect, At, Points
<1>1. Begun(m) /\ m = state
  BY DEF RunnerInv, TasksInv, PointInv, Collect, At, Underway, Points
<1>2. UNCHANGED <<state, work, backup, records, home, edition, starts>>
  BY DEF Collect, history
<1>3. m \in StateRecords /\ m.scenario \in Scenarios /\ t \in Places /\ Changed(m, t) \in SUBSET Paths
  BY <1>1 DEF Begun, StateRecords, RunnerInv, FilesInv, FileTypes, Changed
<1>4. a \in ArchiveRecords /\ Complete(a)
  BY <1>3, ArchiveComplete DEF Collect
<1> HIDE DEF a
<1>5. CASE archives' = Append(archives, a) /\ Goto(p, "records", m)
  <2>1. /\ archives' \in Seq(ArchiveRecords)
        /\ \A n \in DOMAIN archives : n \in DOMAIN archives' /\ archives'[n] = archives[n]
        /\ \A n \in DOMAIN archives' : Complete(archives'[n])
    BY <1>4, <1>5, Appended DEF RunnerInv, FilesInv, FileTypes, ArchivesComplete
  <2>2. FilesInv'
    BY <1>2, <2>1, ArchivesKept DEF RunnerInv
  <2>3. PointInv(p)'
    BY <1>1, <1>2, <1>3, <1>5, GotoStep DEF RunnerInv, PointInv, At, Underway, Moving, Begun
  <2> QED
    BY <1>2, <1>3, <1>5, <2>1, <2>2, <2>3, GotoStep, ResumeGoesOn DEF RunnerInv, Points
<1>6. CASE UNCHANGED archives /\ Leave(p)
  BY <1>2, <1>6, LeaveStep, FilesKept DEF RunnerInv
<1> QED
  BY <1>5, <1>6 DEF Collect, a

LEMMA RelocateStep ==
  ASSUME RunnerAssumption, RunnerInv, NEW p \in Procs, Relocate(p)
  PROVE  RunnerInv'
<1> DEFINE m == task[p].mem
           s == m.scenario
           t == work[s]
           kept == {f \in Paths : t[f] # Gone}
           a == Archive(m, t, kept)
<1> ~At(p, "idle") /\ ~At(p, "opened") /\ "records" \in Points
  BY DEF Relocate, At, Points
<1>1. Begun(m) /\ m = state /\ ~NothingMovedYet(m)
  BY DEF RunnerInv, TasksInv, PointInv, Relocate, At, Underway, Points
<1>2. UNCHANGED <<state, backup, records, home, edition, starts>>
  BY DEF Relocate, history
<1>3. m \in StateRecords /\ m # None /\ s \in Scenarios /\ t \in Places
  BY <1>1 DEF Begun, StateRecords, RunnerInv, FilesInv, FileTypes
<1>4. a \in ArchiveRecords /\ Complete(a) /\ a.scenario = s /\ a.saved = t
  <2>1. a \in ArchiveRecords /\ Complete(a)
    BY <1>3, ArchiveComplete DEF Relocate
  <2>2. t \in Trees
    BY <1>3 DEF Relocate, NeedsWhole, Places
  <2>3. Copied(t, kept) = t
    BY <2>2 DEF Copied, Trees
  <2> HIDE DEF kept
  <2> QED
    BY <2>1, <2>3 DEF Archive
<1> HIDE DEF a
<1>5. CASE /\ archives' = Append(archives, a)
           /\ work' = [work EXCEPT ![s] = NoDir]
           /\ Goto(p, "records", m)
  <2>1. /\ archives' \in Seq(ArchiveRecords)
        /\ \A n \in DOMAIN archives : n \in DOMAIN archives' /\ archives'[n] = archives[n]
        /\ \A n \in DOMAIN archives' : Complete(archives'[n])
        /\ \E n \in DOMAIN archives' : archives'[n] = a
    BY <1>4, <1>5, Appended DEF RunnerInv, FilesInv, FileTypes, ArchivesComplete
  <2>2. FileTypes' /\ Elsewhere' /\ ArchivesComplete'
    BY <1>1, <1>2, <1>3, <1>5, <2>1 DEF RunnerInv, FilesInv, FileTypes, Elsewhere,
       ArchivesComplete, Complete, Holds, Staged, Places
  <2>3. m.existed /\ backup[s] = NoDir =>
          /\ state.moved
          /\ \E n \in DOMAIN archives' : archives'[n].scenario = s /\ archives'[n].saved = home[s]
    <3>1. m.existed /\ backup[s] = NoDir => state.moved
      BY <1>1, <1>3 DEF NothingMovedYet, RunnerInv, FilesInv, Recorded, Loads, StateRecords
    <3>2. m.existed /\ backup[s] = NoDir => t = home[s] \/ OwnArchived(s)
      BY <1>1, <1>3 DEF RunnerInv, FilesInv, Recorded
    <3> QED
      BY <1>2, <1>4, <2>1, <3>1, <3>2 DEF OwnArchived
  <2>4. Recorded'
    BY <1>1, <1>2, <2>3 DEF RunnerInv, FilesInv, Recorded, Loads, OwnArchived
  <2>5. PointInv(p)'
    BY <1>1, <1>2, <1>3, <1>5, GotoStep DEF RunnerInv, PointInv, At, Underway, Moving, Begun
  <2> QED
    BY <1>2, <1>3, <1>5, <2>1, <2>2, <2>4, <2>5, GotoStep, ResumeGoesOn
    DEF RunnerInv, FilesInv, Points
<1>6. CASE UNCHANGED <<archives, work>> /\ Leave(p)
  BY <1>2, <1>6, LeaveStep, FilesKept DEF RunnerInv
<1> QED
  BY <1>5, <1>6 DEF Relocate, a


\* An archive gains its records or its description, and no more.
LEMMA Completed ==
  ASSUME FilesInv, NEW n,
         \/ archives' = [archives EXCEPT ![n].verification = TRUE]
         \/ archives' = [archives EXCEPT ![n].described = TRUE]
         \/ archives' = archives
  PROVE  /\ archives' \in Seq(ArchiveRecords)
         /\ \A k \in DOMAIN archives :
              /\ k \in DOMAIN archives' /\ archives'[k].scenario = archives[k].scenario
              /\ archives'[k].attempt = archives[k].attempt
              /\ archives'[k].was = archives[k].was
              /\ archives'[k].saved = archives[k].saved
              /\ archives'[k].blocked = archives[k].blocked
              /\ archives'[k].edition = archives[k].edition
         /\ \A k \in DOMAIN archives' : Complete(archives'[k])
<1>1. archives \in Seq(ArchiveRecords) /\ DOMAIN archives' = DOMAIN archives
  BY DEF FilesInv, FileTypes
<1>2. ASSUME NEW k \in DOMAIN archives
      PROVE  /\ archives'[k] \in ArchiveRecords
             /\ archives'[k].scenario = archives[k].scenario
             /\ archives'[k].attempt = archives[k].attempt
             /\ archives'[k].was = archives[k].was
             /\ archives'[k].blocked = archives[k].blocked
             /\ archives'[k].edition = archives[k].edition
             /\ archives'[k].saved = archives[k].saved
             /\ archives'[k].inventory = archives[k].inventory
  <2>1. archives[k] \in ArchiveRecords
    BY <1>1
  <2>2. archives'[k] \in {archives[k], [archives[k] EXCEPT !.verification = TRUE],
                          [archives[k] EXCEPT !.described = TRUE]}
    BY <1>1
  <2> QED
    BY <2>1, <2>2 DEF ArchiveRecords
<1>3. archives' \in Seq(ArchiveRecords)
  <2>1. DOMAIN archives' = 1..Len(archives) /\ Len(archives) \in Nat
        /\ archives' = [k \in DOMAIN archives |-> archives'[k]]
    BY <1>1
  <2> QED
    BY <1>1, <1>2, <2>1
<1>4. \A k \in DOMAIN archives' : Complete(archives'[k])
  BY <1>1, <1>2 DEF FilesInv, ArchivesComplete, Complete, Holds, Staged
<1> QED
  BY <1>1, <1>2, <1>3, <1>4

LEMMA MoveRecordsStep ==
  ASSUME RunnerAssumption, RunnerInv, NEW p \in Procs, MoveRecords(p)
  PROVE  RunnerInv'
<1> DEFINE m == task[p].mem
<1> ~At(p, "idle") /\ ~At(p, "opened") /\ "describe" \in Points
  BY DEF MoveRecords, At, Points
<1>1. Begun(m) /\ m = state /\ m \in StateRecords
  BY DEF RunnerInv, TasksInv, PointInv, MoveRecords, At, Underway, Points, Begun
<1>2. UNCHANGED <<state, work, backup, home, edition, starts>> /\ Goto(p, "describe", m)
  BY DEF MoveRecords, history
<1>3. \/ archives' = [archives EXCEPT ![Len(archives)].verification = TRUE]
      \/ archives' = archives
  BY DEF MoveRecords
<1>4. FilesInv'
  BY <1>2, <1>3, Completed, ArchivesKept DEF RunnerInv
<1>5. PointInv(p)'
  BY <1>1, <1>2, GotoStep DEF RunnerInv, PointInv, At, Underway, Moving, Begun
<1>6. ResumeInv(p)'
  BY <1>1, <1>2, <1>3, Completed, ResumeGoesOn DEF RunnerInv, Points
<1> QED
  BY <1>1, <1>2, <1>4, <1>5, <1>6, GotoStep DEF RunnerInv

LEMMA DescribeStep ==
  ASSUME RunnerAssumption, RunnerInv, NEW p \in Procs, Describe(p)
  PROVE  RunnerInv'
<1> DEFINE m == task[p].mem
<1> ~At(p, "idle") /\ ~At(p, "opened") /\ "restore" \in Points
  BY DEF Describe, At, Points
<1>1. Begun(m) /\ m = state /\ m \in StateRecords
  BY DEF RunnerInv, TasksInv, PointInv, Describe, At, Underway, Points, Begun
<1>2. UNCHANGED <<state, work, backup, home, edition, starts>> /\ Goto(p, "restore", m)
  BY DEF Describe, history
<1>3. \/ archives' = [archives EXCEPT ![Len(archives)].described = TRUE]
      \/ archives' = archives
  BY DEF Describe
<1>4. FilesInv'
  BY <1>2, <1>3, Completed, ArchivesKept DEF RunnerInv
<1>5. PointInv(p)'
  BY <1>1, <1>2, GotoStep DEF RunnerInv, PointInv, At, Underway, Moving, Begun
<1>6. ResumeInv(p)'
  BY <1>1, <1>2, <1>3, Completed, ResumeGoesOn DEF RunnerInv, Points
<1> QED
  BY <1>1, <1>2, <1>4, <1>5, <1>6, GotoStep DEF RunnerInv


LEMMA RestoreStep ==
  ASSUME RunnerAssumption, RunnerInv, NEW p \in Procs, Restore(p)
  PROVE  RunnerInv'
<1> DEFINE m == task[p].mem
           s == m.scenario
<1> ~At(p, "idle") /\ ~At(p, "opened") /\ {"return", "discard"} \subseteq Points
  BY DEF Restore, At, Points
<1>1. Begun(m)
  BY DEF RunnerInv, TasksInv, PointInv, Restore, At, Underway, Points
<1>2. UNCHANGED <<state, backup, archives, records, home, edition, starts>>
  BY DEF Restore, history
<1>3. /\ m \in StateRecords /\ state # None /\ s = state.scenario /\ s \in Scenarios
      /\ m.existed = state.existed
  BY <1>1 DEF Begun, StateRecords
<1>4. /\ m.existed <=> home[s] # NoDir
      /\ backup[s] \in {NoDir, home[s], Spoilt}
      /\ m.sealed = NoDir => backup[s] \in {NoDir, home[s]}
      /\ m.sealed \in {NoDir, home[s]}
      /\ m.existed /\ backup[s] = NoDir /\ ~m.moved => work[s] = home[s]
  BY <1>1, <1>3 DEF RunnerInv, FilesInv, Recorded, Begun
<1>5. CASE work' = work /\ Leave(p)
  BY <1>2, <1>5, LeaveStep, FilesKept DEF RunnerInv
<1>6. CASE /\ m.existed => backup[s] # NoDir
           /\ work[s] # NoDir /\ Leave(p)
           /\ \E t \in Parts(work[s]) : work' = [work EXCEPT ![s] = t]
  <2>1. work[s] \in Trees
    BY <1>3, <1>6, TreeFacts DEF RunnerInv, FilesInv, FileTypes, Places
  <2>2. PICK t \in Places : work' = [work EXCEPT ![s] = t]
    BY <1>6, <2>1, TreeFacts DEF Places
  <2>3. FilesInv'
    BY <1>2, <1>3, <1>6, <2>2, WorkChanged DEF RunnerInv
  <2> QED
    BY <1>6, <2>3, LeaveStep DEF RunnerInv
<1>7. ASSUME m.existed => backup[s] # NoDir, work' = [work EXCEPT ![s] = NoDir],
             NEW next \in {"return", "discard"}, Goto(p, next, m),
             next = "return" => m.existed /\ backup[s] = home[s],
             next = "discard" => ~m.existed
      PROVE  RunnerInv'
  <2>1. FilesInv' /\ work'[s] = NoDir
    BY <1>2, <1>3, <1>7, WorkChanged DEF RunnerInv, Places
  <2>2. task'[p].pc = next /\ task'[p].mem = m
    BY <1>3, <1>7, GotoStep DEF RunnerInv
  <2>3. Begun(m)'
    BY <1>1, <1>2, <2>2 DEF Begun
  <2>4. next = "return" => backup'[s] = home'[s]
    BY <1>2, <1>7
  <2>5. next = "discard" => work'[s] = home'[s]
    BY <1>2, <1>4, <1>7, <2>1
  <2>6. PointInv(p)'
    BY <1>7, <2>2, <2>3, <2>4, <2>5 DEF PointInv, At, Underway, Moving
  <2>7. ResumeInv(p)'
    BY <1>2, <1>3, <1>7, ResumeGoesOn DEF RunnerInv, Points
  <2> QED
    BY <1>3, <1>7, <2>1, <2>6, <2>7, GotoStep DEF RunnerInv
<1>8. CASE /\ m.existed /\ backup[s] = NoDir /\ ~m.moved /\ work' = work
           /\ Goto(p, "discard", m)
  <2>1. task'[p].pc = "discard" /\ task'[p].mem = m
    BY <1>3, <1>8, GotoStep DEF RunnerInv
  <2>2. Begun(m)'
    BY <1>1, <1>2, <2>1 DEF Begun
  <2>3. work'[s] = home'[s]
    BY <1>2, <1>4, <1>8
  <2>4. PointInv(p)'
    BY <2>1, <2>2, <2>3 DEF PointInv, At, Underway, Moving
  <2> QED
    BY <1>2, <1>3, <1>8, <2>4, GotoStep, ResumeGoesOn, FilesKept DEF RunnerInv, Points
<1>9. m.existed /\ backup[s] # NoDir /\ SealHolds(m) => backup[s] = home[s]
  BY <1>4 DEF SealHolds
<1> QED
  BY <1>5, <1>6, <1>7, <1>8, <1>9 DEF Restore

LEMMA ReturnStep ==
  ASSUME RunnerAssumption, RunnerInv, NEW p \in Procs, Return(p)
  PROVE  RunnerInv'
<1> DEFINE m == task[p].mem
           s == m.scenario
<1> ~At(p, "idle") /\ ~At(p, "opened") /\ "discard" \in Points
  BY DEF Return, At, Points
<1>1. Begun(m) /\ m.existed /\ backup[s] = home[s]
  BY DEF RunnerInv, TasksInv, PointInv, Return, At, Underway, Points
<1>2. UNCHANGED <<state, archives, records, home, edition, starts>>
  BY DEF Return, history
<1>3. m \in StateRecords /\ state # None /\ s = state.scenario /\ s \in Scenarios
  BY <1>1 DEF Begun, StateRecords
<1>4. CASE /\ work' = [work EXCEPT ![s] = backup[s]]
           /\ backup' = [backup EXCEPT ![s] = NoDir]
           /\ Goto(p, "discard", m)
  <2>1. FileTypes' /\ work'[s] = home[s] /\ backup'[s] = NoDir
    BY <1>1, <1>2, <1>3, <1>4 DEF RunnerInv, FilesInv, FileTypes, Places
  <2>2. Elsewhere' /\ ArchivesComplete'
    BY <1>2, <1>3, <1>4 DEF RunnerInv, FilesInv, FileTypes, Elsewhere, ArchivesComplete,
       Complete, Holds, Staged
  <2>3. Recorded'
    BY <1>2, <1>3, <2>1 DEF RunnerInv, FilesInv, Recorded, Loads
  <2>4. PointInv(p)'
    BY <1>1, <1>2, <1>3, <1>4, <2>1, GotoStep
    DEF RunnerInv, PointInv, At, Underway, Moving, Begun
  <2> QED
    BY <1>2, <1>3, <1>4, <2>1, <2>2, <2>3, <2>4, GotoStep, ResumeGoesOn
    DEF RunnerInv, FilesInv, Points
<1>5. CASE UNCHANGED <<work, backup>> /\ Leave(p)
  BY <1>2, <1>5, LeaveStep, FilesKept DEF RunnerInv
<1> QED
  BY <1>4, <1>5 DEF Return

LEMMA DiscardStep ==
  ASSUME RunnerAssumption, RunnerInv, NEW p \in Procs, Discard(p)
  PROVE  RunnerInv'
<1> DEFINE m == task[p].mem
           s == m.scenario
<1> ~At(p, "idle") /\ ~At(p, "opened") /\ "forget" \in Points
  BY DEF Discard, At, Points
<1>1. Begun(m) /\ work[s] = home[s]
  BY DEF RunnerInv, TasksInv, PointInv, Discard, At, Underway, Points
<1>2. UNCHANGED <<state, work, archives, records, home, edition, starts>>
  BY DEF Discard, history
<1>3. m \in StateRecords /\ state # None /\ s = state.scenario /\ s \in Scenarios
  BY <1>1 DEF Begun, StateRecords
<1>4. CASE backup' = [backup EXCEPT ![s] = NoDir] /\ Goto(p, "forget", m)
  <2>1. FileTypes' /\ backup'[s] = NoDir
    BY <1>2, <1>3, <1>4 DEF RunnerInv, FilesInv, FileTypes, Places
  <2>2. Elsewhere' /\ ArchivesComplete'
    BY <1>2, <1>3, <1>4 DEF RunnerInv, FilesInv, FileTypes, Elsewhere, ArchivesComplete,
       Complete, Holds, Staged
  <2>3. Recorded'
    BY <1>1, <1>2, <1>3, <2>1 DEF RunnerInv, FilesInv, Recorded, Loads
  <2>4. PointInv(p)'
    BY <1>1, <1>2, <1>3, <1>4, <2>1, GotoStep
    DEF RunnerInv, PointInv, At, Underway, Moving, Begun
  <2> QED
    BY <1>2, <1>3, <1>4, <2>1, <2>2, <2>3, <2>4, GotoStep, ResumeGoesOn
    DEF RunnerInv, FilesInv, Points
<1>5. CASE UNCHANGED backup /\ Leave(p)
  BY <1>2, <1>5, LeaveStep, FilesKept DEF RunnerInv
<1> QED
  BY <1>4, <1>5 DEF Discard

LEMMA ForgetStep ==
  ASSUME RunnerAssumption, RunnerInv, NEW p \in Procs, Forget(p)
  PROVE  RunnerInv'
<1> DEFINE m == task[p].mem
           s == m.scenario
<1> ~At(p, "idle")
  BY DEF Forget, At
<1>1. Begun(m) /\ work[s] = home[s] /\ backup[s] = NoDir
  BY DEF RunnerInv, TasksInv, PointInv, Forget, At, Underway, Points
<1>2. UNCHANGED <<work, backup, archives, home, edition, starts>> /\ Leave(p)
  BY DEF Forget, files, history
<1>3. CASE state' = None
  <2>1. Elsewhere'
    BY <1>1, <1>2, <1>3 DEF RunnerInv, FilesInv, Elsewhere, Begun
  <2>2. FilesInv'
    BY <1>2, <1>3, <2>1 DEF RunnerInv, FilesInv, FileTypes, Recorded, ArchivesComplete, Complete,
       Holds, Staged
  <2> QED
    BY <1>2, <2>2, LeaveStep DEF RunnerInv
<1>4. CASE state' = state
  BY <1>2, <1>4, LeaveStep, FilesKept DEF RunnerInv
<1> QED
  BY <1>3, <1>4 DEF Forget

-----------------------------------------------------------------------------
(* Between commands nobody relies on anything. *)

LEMMA QuietStep ==
  ASSUME RunnerAssumption, TasksInv, Quiet, UNCHANGED <<task, holder>>
  PROVE  TasksInv'
<1>1. \A q \in Procs : task[q].pc = "idle" /\ task[q].cmd = "none"
  BY DEF TasksInv, Locked, Quiet, At, Idle, RunnerAssumption
<1> QED
  BY <1>1 DEF TasksInv, Locked, PointInv, ResumeInv, At, Underway, Moving, Tasks

LEMMA EditStep ==
  ASSUME RunnerAssumption, RunnerInv, Edit
  PROVE  RunnerInv'
<1>1. FilesInv'
  BY TreeFacts, WorkChanged DEF RunnerInv, Edit, Places
<1> QED
  BY <1>1, QuietStep DEF RunnerInv, Edit

LEMMA UpdateStep ==
  ASSUME RunnerAssumption, RunnerInv, Update
  PROVE  RunnerInv'
<1>1. FilesInv'
  BY DEF RunnerInv, FilesInv, FileTypes, Elsewhere, Recorded, ArchivesComplete, Complete,
     OwnArchived, Loads, Staged, Update, files
<1> QED
  BY <1>1, QuietStep DEF RunnerInv, Update

LEMMA SpoilStep ==
  ASSUME RunnerAssumption, RunnerInv, Spoil
  PROVE  RunnerInv'
<1> DEFINE s == state.scenario
<1>1. s \in Scenarios
  BY DEF RunnerInv, FilesInv, FileTypes, StateRecords, Spoil
<1>2. UNCHANGED <<state, work, archives, home, edition, starts>>
  BY DEF Spoil, history
<1>3. FileTypes' /\ backup'[s] = Spoilt /\ Spoilt # NoDir
  BY <1>1, <1>2, TreeFacts DEF RunnerInv, FilesInv, FileTypes, Spoil, Places, RunnerAssumption
<1>4. Elsewhere' /\ ArchivesComplete'
  BY <1>1, <1>2 DEF RunnerInv, FilesInv, FileTypes, Elsewhere, ArchivesComplete, Complete,
     Holds, Staged, Spoil
<1>5. Recorded'
  BY <1>1, <1>2, <1>3 DEF RunnerInv, FilesInv, Recorded, Loads, Spoil
<1> QED
  BY <1>3, <1>4, <1>5, QuietStep DEF RunnerInv, FilesInv, Spoil


-----------------------------------------------------------------------------
LEMMA InitRunner ==
  ASSUME RunnerAssumption, Init
  PROVE  RunnerInv
<1>1. home \in [Scenarios -> Homes \cup {NoDir}] /\ work \in [Scenarios -> Places]
  BY TreeFacts DEF Init, Places
<1>2. FilesInv
  BY <1>1 DEF Init, FilesInv, FileTypes, Elsewhere, Recorded, ArchivesComplete, RunnerAssumption,
     Places
<1>3. TasksInv
  BY DEF Init, TasksInv, Tasks, Points, Locked, PointInv, ResumeInv, Idle, At, Underway, Moving
<1> QED
  BY <1>2, <1>3 DEF RunnerInv

LEMMA NextRunner ==
  ASSUME RunnerAssumption, RunnerInv, [Next]_vars
  PROVE  RunnerInv'
<1>1. ASSUME NEW p \in Procs, NEW s \in Scenarios, NEW cmd \in {"start", "verify", "reset"},
             Enter(p, cmd, s, 0)
      PROVE  RunnerInv'
  BY <1>1, EnterStep
<1>2. ASSUME NEW p \in Procs, NEW s \in Scenarios, NEW n \in DOMAIN archives,
             Enter(p, "resume", s, n)
      PROVE  RunnerInv'
  <2>1. n \in Nat
    BY DEF RunnerInv, FilesInv, FileTypes
  <2> QED
    BY <1>2, <2>1, EnterStep
<1>3. ASSUME NEW p \in Procs, Step(p)
      PROVE  RunnerInv'
  BY <1>3, InspectStep, RefuseStep, RecordStep, PreserveStep, SealStep, StagePayloadStep,
     ActivateStep, ClearStep, RebuildStep, PublishStep, VerifyStep, ExamineStep, CollectStep,
     RelocateStep, MoveRecordsStep, DescribeStep, RestoreStep, ReturnStep, DiscardStep,
     ForgetStep
  DEF Step
<1>4. ASSUME NEW p \in Procs, Crash(p)
      PROVE  RunnerInv'
  BY <1>4, CrashStep
<1>5. CASE Edit \/ Update \/ Spoil
  BY <1>5, EditStep, UpdateStep, SpoilStep
<1>6. CASE UNCHANGED vars
  <2>1. FilesInv'
    BY <1>6, FilesKept DEF RunnerInv, vars
  <2>2. TasksInv'
    BY <1>6 DEF RunnerInv, TasksInv, Locked, PointInv, ResumeInv, At, Fresh, Begun, SafelyAway,
       NothingMovedYet, vars
  <2> QED
    BY <2>1, <2>2 DEF RunnerInv
<1> QED
  BY <1>1, <1>2, <1>3, <1>4, <1>5, <1>6 DEF Next

LEMMA RunnerInvariant == Spec => []RunnerInv
<1>1. Init => RunnerInv
  BY RunnerAssumption, InitRunner
<1>2. RunnerInv /\ [Next]_vars => RunnerInv'
  BY RunnerAssumption, NextRunner
<1> QED
  BY <1>1, <1>2, PTL DEF Spec

\* What one command has recorded, the next one can read: the record of a start
\* that was killed or rolled back half-way included (ScenarioState.from_json()).
THEOREM RecordLoadsAlways == Spec => []RecordLoads
<1>1. RunnerInv => RecordLoads
  BY DEF RunnerInv, FilesInv, Recorded, RecordLoads
<1> QED
  BY <1>1, RunnerInvariant, PTL

\* When nothing is recorded, every work directory is as it was before the start
\* and no backup is left, whatever was killed or failed and whether or not a
\* sealed backup was edited by hand
\* (cmd_start() with its rollback, cmd_reset(), restore_work_directory()).
THEOREM RestoredExactlyAlways == Spec => []RestoredExactly
<1>1. RunnerInv => RestoredExactly
  BY DEF RunnerInv, FilesInv, Elsewhere, RestoredExactly
<1> QED
  BY <1>1, RunnerInvariant, PTL

\* The participant's own directory is in place, in the backup or whole in an
\* archive, at every step of every command
\* (preserve_pre_start_work_directory(), _relocate_work_tree()).
THEOREM HomeKeptAlways == Spec => []HomeKept
<1>1. ASSUME RunnerInv, NEW s \in Scenarios
      PROVE  \/ home[s] \in {NoDir, work[s], backup[s]}
             \/ backup[s] = Spoilt
             \/ \E n \in DOMAIN archives : archives[n].scenario = s /\ archives[n].saved = home[s]
  BY <1>1 DEF RunnerInv, FilesInv, Elsewhere, Recorded, OwnArchived
<1>2. RunnerInv => HomeKept
  BY <1>1 DEF HomeKept
<1> QED
  BY <1>2, RunnerInvariant, PTL

\* Where a step begins
LEMMA StepPoint ==
  ASSUME NEW q \in Procs, Step(q)
  PROVE  ~At(q, "idle") /\ (At(q, "publish") => Publish(q))
<1>1. CASE Inspect(q) \/ Refuse(q) \/ Verify(q) \/ Examine(q)
  <2>1. At(q, "opened")
    BY <1>1 DEF Inspect, Refuse, Verify, Examine
  <2> QED
    BY <2>1 DEF At
<1>2. CASE Record(q) \/ Preserve(q) \/ Seal(q) \/ StagePayload(q)
  <2>1. At(q, "record") \/ At(q, "preserve") \/ At(q, "seal") \/ At(q, "stage")
    BY <1>2 DEF Record, Preserve, Seal, StagePayload
  <2> QED
    BY <2>1 DEF At
<1>3. CASE Activate(q) \/ Clear(q) \/ Rebuild(q) \/ Publish(q)
  <2>1. At(q, "activate") \/ At(q, "clear") \/ At(q, "rebuild") \/ (At(q, "publish") /\ Publish(q))
    BY <1>3 DEF Activate, Clear, Rebuild, Publish
  <2> QED
    BY <2>1 DEF At
<1>4. CASE Collect(q) \/ Relocate(q) \/ MoveRecords(q) \/ Describe(q)
  <2>1. At(q, "archive") \/ At(q, "records") \/ At(q, "describe")
    BY <1>4 DEF Collect, Relocate, MoveRecords, Describe
  <2> QED
    BY <2>1 DEF At
<1>5. CASE Restore(q) \/ Return(q) \/ Discard(q) \/ Forget(q)
  <2>1. At(q, "restore") \/ At(q, "return") \/ At(q, "discard") \/ At(q, "forget")
    BY <1>5 DEF Restore, Return, Discard, Forget
  <2> QED
    BY <2>1 DEF At
<1> QED
  BY <1>1, <1>2, <1>3, <1>4, <1>5 DEF Step

\* A resume becomes active only with the very tree its archive was made of: the
\* files that were not copied come from the same edition, and no other process
\* touches the directory in between (cmd_resume(), rebuild_archived_tree()).
THEOREM ResumeIsExactAlways == Spec => ResumeIsExact
<1>1. ASSUME RunnerAssumption, RunnerInv, [Next]_vars, NEW p \in Procs, At(p, "publish"),
             state' # state
      PROVE  work'[state'.scenario] = archives[task[p].archive].was
  <2>1. holder = p /\ \A q \in Procs \ {p} : At(q, "idle")
    BY <1>1 DEF RunnerInv, TasksInv, Locked, At, Idle
  <2>2. Publish(p)
    <3>1. \A q \in Procs : Step(q) => q = p /\ Publish(p)
      BY <1>1, <2>1, StepPoint
    <3> QED
      BY <1>1, <3>1 DEF Next, Enter, Crash, Edit, Update, Spoil, vars, history
  <2>3. Begun(task[p].mem) /\ work[task[p].mem.scenario] = archives[task[p].archive].was
    BY <1>1 DEF RunnerInv, TasksInv, PointInv, ResumeInv, At, Underway, Points
  <2>4. state'.scenario = task[p].mem.scenario /\ work' = work
    BY <1>1, <2>2, <2>3 DEF Publish, files, Begun, StateRecords
  <2> QED
    BY <2>3, <2>4
<1>2. RunnerInv /\ [Next]_vars =>
        [\A p \in Procs : At(p, "publish") /\ state' # state =>
           work'[state'.scenario] = archives[task[p].archive].was]_vars
  BY <1>1, RunnerAssumption
<1> QED
  BY <1>2, RunnerInvariant, PTL DEF Spec, ResumeIsExact


-----------------------------------------------------------------------------
(* AttemptKept.  What a reset or a roll-back takes out of the work directory *)
(* was either never made active or has been archived, or is what start had   *)
(* put there; so no attempt's last tree is ever the only copy of itself when *)
(* a file operation destroys it.                                             *)

\* The last tree of attempt n is in an archive, or is nothing but payloads.
Kept(n) ==
  \/ draft[n] = NoDir
  \/ \E i \in DOMAIN archives : archives[i].attempt = n /\ Holds(archives[i], draft[n])
  \/ \E e \in Editions : draft[n] = Staged(e)

\* Attempt n is the active one and stands in the work directory.
InWork(n) ==
  /\ state # None /\ state.attempt = n /\ state.phase = "active"
  /\ work[state.scenario] = draft[n]

DraftsInv ==
  /\ starts <= MaxStarts
  /\ draft \in [1..MaxStarts -> Places]
  /\ \A n \in 1..MaxStarts : Kept(n) \/ InWork(n)
  /\ \A n \in 1..MaxStarts : n > starts => draft[n] = NoDir
  /\ state # None =>
       /\ state.attempt \in 1..starts
       /\ state.phase = "active" => state.staged
       /\ state.phase = "staging" => draft[state.attempt] = NoDir

\* The steps of a reset that has archived what there was to archive
Afterwards == {"records", "describe", "restore", "return", "discard", "forget"}

AttemptInv(p) ==
  LET m == task[p].mem IN
    /\ At(p, "record") => m.attempt \in 1..starts /\ draft[m.attempt] = NoDir
    /\ task[p].pc \in Underway => m.attempt = state.attempt
    /\ task[p].pc \in {"preserve", "seal"} \cup Moving =>
         state.phase = "staging" /\ m.phase = "staging"
    /\ task[p].pc \in Moving \ {"stage"} => m.staged
    /\ task[p].pc \in Afterwards /\ state.phase = "active" => Kept(state.attempt)

AttemptsInv == DraftsInv /\ \A p \in Procs : AttemptInv(p)


\* No archive is lost or made another.
ArchivesStay ==
  \A i \in DOMAIN archives :
    /\ i \in DOMAIN archives' /\ archives'[i].attempt = archives[i].attempt
    /\ archives'[i].saved = archives[i].saved /\ archives'[i].edition = archives[i].edition

LEMMA KeptStays ==
  ASSUME NEW n, Kept(n), ArchivesStay, UNCHANGED draft
  PROVE  \/ draft'[n] = NoDir
         \/ \E i \in DOMAIN archives' : archives'[i].attempt = n /\ Holds(archives'[i], draft'[n])
         \/ \E e \in Editions : draft'[n] = Staged(e)
BY DEF Kept, Holds, ArchivesStay

LEMMA DraftsStay ==
  ASSUME DraftsInv, ArchivesStay, UNCHANGED <<state, draft, starts>>,
         state # None => \/ work'[state.scenario] = work[state.scenario]
                         \/ state.phase = "staging"
                         \/ Kept(state.attempt)'
  PROVE  DraftsInv'
<1>1. ASSUME NEW n \in 1..MaxStarts
      PROVE  (Kept(n) \/ InWork(n))'
  <2>1. CASE Kept(n)
    BY <2>1, KeptStays DEF Kept
  <2>2. CASE InWork(n)
    BY <2>2 DEF InWork, Kept
  <2> QED
    BY <2>1, <2>2 DEF DraftsInv
<1> QED
  BY <1>1 DEF DraftsInv

LEMMA StillStaging ==
  ASSUME DraftsInv, UNCHANGED <<archives, draft, starts>>, state = None \/ state.phase = "staging",
         state'.attempt \in 1..starts, state'.phase = "staging", draft[state'.attempt] = NoDir
  PROVE  DraftsInv'
<1>1. \A n \in 1..MaxStarts : Kept(n)'
  BY DEF DraftsInv, Kept, InWork, Staged
<1> QED
  BY <1>1 DEF DraftsInv

LEMMA BecomesActive ==
  ASSUME RunnerAssumption, FilesInv, DraftsInv, UNCHANGED <<work, archives, starts>>,
         state # None, state.phase = "staging", NEW m \in StateRecords, state' = m, m # None,
         m.attempt = state.attempt, m.scenario = state.scenario, m.phase = "active", m.staged,
         draft' = [draft EXCEPT ![m.attempt] = work[m.scenario]]
  PROVE  DraftsInv'
<1>1. m.attempt \in 1..starts /\ m.attempt \in 1..MaxStarts /\ work[m.scenario] \in Places
  BY DEF FilesInv, FileTypes, DraftsInv, StateRecords, RunnerAssumption
<1>2. /\ draft' \in [1..MaxStarts -> Places] /\ draft'[m.attempt] = work[m.scenario]
      /\ \A n \in 1..MaxStarts : n # m.attempt => draft'[n] = draft[n]
  BY <1>1 DEF DraftsInv
<1>3. \A n \in 1..MaxStarts : n # m.attempt => Kept(n)'
  BY <1>2 DEF DraftsInv, Kept, InWork, Staged
<1>4. InWork(m.attempt)'
  BY <1>2 DEF InWork
<1>5. \A n \in 1..MaxStarts : (Kept(n) \/ InWork(n))'
  BY <1>3, <1>4 DEF InWork
<1>6. \A n \in 1..MaxStarts : n > starts => draft'[n] = NoDir
  BY <1>1, <1>2 DEF DraftsInv, FilesInv, FileTypes
<1> QED
  BY <1>1, <1>2, <1>5, <1>6 DEF DraftsInv

\* The other processes are idle, and stay so.
LEMMA AttemptGoto ==
  ASSUME RunnerInv, AttemptsInv, NEW p \in Procs, ~At(p, "idle"), ~At(p, "opened"),
         NEW pc \in Underway, NEW mem \in StateRecords \cup {None}, Goto(p, pc, mem),
         DraftsInv', mem.attempt = state'.attempt,
         pc \in {"preserve", "seal"} \cup Moving =>
           state'.phase = "staging" /\ mem.phase = "staging",
         pc \in Moving \ {"stage"} => mem.staged,
         pc \in Afterwards /\ state'.phase = "active" => Kept(state.attempt)'
  PROVE  AttemptsInv'
<1>1. task'[p].pc = pc /\ task'[p].mem = mem
  BY GotoStep DEF RunnerInv, Underway
<1>2. \A q \in Procs \ {p} : task'[q] = Idle
  BY DEF RunnerInv, TasksInv, Locked, Goto, At, Idle
<1>3. \A q \in Procs \ {p} : AttemptInv(q)'
  BY <1>2 DEF AttemptInv, Idle, At, Underway, Moving, Afterwards
<1>4. AttemptInv(p)'
  BY <1>1 DEF AttemptInv, At, Underway
<1> QED
  BY <1>3, <1>4 DEF AttemptsInv

LEMMA AttemptLeave ==
  ASSUME RunnerInv, NEW p \in Procs, ~At(p, "idle"), Leave(p), DraftsInv'
  PROVE  AttemptsInv'
<1>1. \A q \in Procs : task'[q] = Idle
  BY DEF RunnerInv, TasksInv, Locked, Leave, At, Idle
<1>2. \A q \in Procs : AttemptInv(q)'
  BY <1>1 DEF AttemptInv, Idle, At, Underway, Moving, Afterwards
<1> QED
  BY <1>2 DEF AttemptsInv


-----------------------------------------------------------------------------
(* The steps of a start and of a resume *)

LEMMA AttemptEnter ==
  ASSUME RunnerAssumption, RunnerInv, AttemptsInv, NEW p \in Procs, NEW s \in Scenarios,
         NEW cmd, NEW n, Enter(p, cmd, s, n)
  PROVE  AttemptsInv'
<1>1. DraftsInv'
  BY DraftsStay DEF AttemptsInv, Enter, files, history, ArchivesStay
<1>2. \A q \in Procs : task[q] = Idle
  BY DEF RunnerInv, TasksInv, Locked, Enter, LockIsFree, RunnerAssumption
<1>3. \A q \in Procs : task'[q].pc \in {"idle", "opened"}
  BY <1>2 DEF RunnerInv, TasksInv, Enter, Idle
<1> QED
  BY <1>1, <1>3 DEF AttemptsInv, AttemptInv, At, Underway, Moving, Afterwards

LEMMA AttemptCrash ==
  ASSUME RunnerInv, AttemptsInv, NEW p \in Procs, Crash(p)
  PROVE  AttemptsInv'
<1>1. Leave(p)
  BY DEF RunnerInv, TasksInv, Locked, Crash, Leave, At, Idle
<1>2. DraftsInv'
  BY DraftsStay DEF AttemptsInv, Crash, files, history, ArchivesStay
<1> QED
  BY <1>1, <1>2, AttemptLeave DEF Crash

LEMMA AttemptRefuse ==
  ASSUME RunnerInv, AttemptsInv, NEW p \in Procs, Refuse(p) \/ Verify(p)
  PROVE  AttemptsInv'
<1>1. DraftsInv'
  BY DraftsStay DEF AttemptsInv, Refuse, Verify, files, history, ArchivesStay
<1> QED
  BY <1>1, AttemptLeave DEF Refuse, Verify, At

LEMMA AttemptInspect ==
  ASSUME RunnerAssumption, RunnerInv, AttemptsInv, NEW p \in Procs, Inspect(p)
  PROVE  AttemptsInv'
<1> DEFINE m == Plan(task[p].scenario, starts + 1)
<1>1. state = None /\ starts \in Nat /\ starts + 1 \in 1..MaxStarts /\ draft[starts + 1] = NoDir
  BY DEF Inspect, MayStart, NothingActive, RunnerInv, FilesInv, FileTypes, AttemptsInv, DraftsInv,
     RunnerAssumption
<1>2. UNCHANGED <<state, work, archives, draft>> /\ starts' = starts + 1
  BY DEF Inspect, files
<1>3. DraftsInv'
  BY <1>1, <1>2 DEF AttemptsInv, DraftsInv, Kept, InWork, Staged, RunnerAssumption
<1>4. task[p].scenario \in Scenarios
  BY DEF RunnerInv, TasksInv, PointInv, Inspect
<1>5. m \in StateRecords /\ m.attempt = starts + 1
  BY <1>1, <1>4 DEF Plan, StateRecords, RunnerInv, FilesInv, FileTypes
<1> HIDE DEF m
<1>6. task'[p].pc = "record" /\ task'[p].mem = m
  BY <1>5, GotoStep DEF RunnerInv, Inspect, At, Points, m
<1>7. \A q \in Procs \ {p} : task'[q] = Idle
  BY DEF RunnerInv, TasksInv, Locked, Inspect, Goto, At, Idle
<1>8. AttemptInv(p)'
  BY <1>1, <1>2, <1>5, <1>6 DEF AttemptInv, At, Underway, Moving, Afterwards
<1>9. \A q \in Procs \ {p} : AttemptInv(q)'
  BY <1>7 DEF AttemptInv, Idle, At, Underway, Moving, Afterwards
<1> QED
  BY <1>3, <1>8, <1>9 DEF AttemptsInv

\* What a process knows of its record and of the attempt
LEMMA AttemptKnown ==
  ASSUME RunnerInv, AttemptsInv, NEW p \in Procs, task[p].pc \in Underway
  PROVE  LET m == task[p].mem IN
           /\ Begun(m) /\ m \in StateRecords /\ state # None /\ m.attempt = state.attempt
           /\ m.scenario = state.scenario
           /\ state.attempt \in 1..starts /\ state \in StateRecords
           /\ task[p].pc \in {"preserve", "seal"} \cup Moving =>
                state.phase = "staging" /\ m.phase = "staging"
           /\ task[p].pc \in Moving \ {"stage"} => m.staged
           /\ task[p].pc \in Afterwards /\ state.phase = "active" => Kept(state.attempt)
BY DEF RunnerInv, TasksInv, PointInv, AttemptsInv, AttemptInv, DraftsInv, Begun, FilesInv,
   FileTypes

LEMMA AttemptRecord ==
  ASSUME RunnerAssumption, RunnerInv, AttemptsInv, NEW p \in Procs, Record(p)
  PROVE  AttemptsInv'
<1> DEFINE m == task[p].mem
<1>1. /\ state = None /\ m \in StateRecords /\ m.phase = "staging"
      /\ m.attempt \in 1..starts /\ draft[m.attempt] = NoDir
  BY DEF Record, RunnerInv, TasksInv, PointInv, AttemptsInv, AttemptInv, Fresh
<1>2. UNCHANGED <<work, archives, draft, starts>> /\ ~At(p, "idle") /\ ~At(p, "opened")
  BY DEF Record, files, history, At
<1>3. CASE state' = m /\ Goto(p, "preserve", m)
  <2>1. DraftsInv'
    BY <1>1, <1>2, <1>3, StillStaging DEF AttemptsInv
  <2> QED
    BY <1>1, <1>2, <1>3, <2>1, AttemptGoto DEF Underway, Points, Moving, Afterwards
<1>4. CASE UNCHANGED state /\ Leave(p)
  <2>1. DraftsInv'
    BY <1>2, <1>4, DraftsStay DEF AttemptsInv, ArchivesStay
  <2> QED
    BY <1>2, <1>4, <2>1, AttemptLeave
<1> QED
  BY <1>3, <1>4 DEF Record

LEMMA AttemptPreserve ==
  ASSUME RunnerInv, AttemptsInv, NEW p \in Procs, Preserve(p)
  PROVE  AttemptsInv'
<1> DEFINE m == task[p].mem
<1>1. ~At(p, "idle") /\ ~At(p, "opened") /\ task[p].pc \in Underway
  BY DEF Preserve, At, Underway, Points
<1>2. m \in StateRecords /\ m.attempt = state.attempt /\ state.phase = "staging"
      /\ m.phase = "staging"
  BY <1>1, AttemptKnown DEF Preserve, At
<1>3. UNCHANGED <<state, archives, draft, starts>>
  BY DEF Preserve, history
<1>4. DraftsInv'
  BY <1>2, <1>3, DraftsStay DEF AttemptsInv, ArchivesStay
<1>5. \E pc \in {"stage", "seal", "restore"} : Goto(p, pc, m)
  BY DEF Preserve
<1> QED
  BY <1>1, <1>2, <1>3, <1>4, <1>5, AttemptGoto DEF Underway, Points, Moving, Afterwards

LEMMA AttemptSeal ==
  ASSUME RunnerInv, AttemptsInv, NEW p \in Procs, Seal(p)
  PROVE  AttemptsInv'
<1> DEFINE m == task[p].mem
           sealed == [m EXCEPT !.moved = TRUE, !.sealed = backup[m.scenario]]
<1>1. ~At(p, "idle") /\ ~At(p, "opened") /\ task[p].pc \in Underway
  BY DEF Seal, At, Underway, Points
<1>2. /\ m \in StateRecords /\ m.attempt = state.attempt /\ state.phase = "staging"
      /\ m.phase = "staging" /\ state # None /\ state.attempt \in 1..starts
  BY <1>1, AttemptKnown DEF Seal, At
<1>3. draft[m.attempt] = NoDir
  BY <1>2 DEF AttemptsInv, DraftsInv
<1>4. m = state /\ m.existed /\ backup[m.scenario] = home[m.scenario]
  BY DEF RunnerInv, TasksInv, PointInv, Seal
<1>5. sealed.attempt = m.attempt /\ sealed.phase = "staging" /\ sealed \in StateRecords
  BY <1>2, <1>4 DEF StateRecords, RunnerInv, FilesInv, FileTypes
<1> HIDE DEF sealed
<1>6. UNCHANGED <<work, archives, draft, starts>>
  BY DEF Seal, files, history
<1>7. CASE state' = sealed /\ Goto(p, "stage", sealed)
  <2>1. DraftsInv'
    BY <1>2, <1>3, <1>5, <1>6, <1>7, StillStaging DEF AttemptsInv
  <2> QED
    BY <1>1, <1>2, <1>5, <1>6, <1>7, <2>1, AttemptGoto DEF Underway, Points, Moving, Afterwards
<1>8. CASE UNCHANGED state /\ (Goto(p, "restore", sealed) \/ Goto(p, "restore", m))
  <2>1. DraftsInv'
    BY <1>6, <1>8, DraftsStay DEF AttemptsInv, ArchivesStay
  <2> QED
    BY <1>1, <1>2, <1>5, <1>6, <1>8, <2>1, AttemptGoto DEF Underway, Points, Moving, Afterwards
<1> QED
  BY <1>7, <1>8 DEF Seal, sealed

LEMMA AttemptStage ==
  ASSUME RunnerInv, AttemptsInv, NEW p \in Procs, StagePayload(p)
  PROVE  AttemptsInv'
<1> DEFINE m == task[p].mem
           staged == [m EXCEPT !.staged = TRUE]
<1>1. ~At(p, "idle") /\ ~At(p, "opened") /\ task[p].pc \in Underway
  BY DEF StagePayload, At, Underway, Points
<1>2. m \in StateRecords /\ m.attempt = state.attempt /\ state.phase = "staging"
      /\ m.phase = "staging"
  BY <1>1, AttemptKnown DEF StagePayload, At, Moving
<1>3. UNCHANGED <<state, archives, draft, starts>>
  BY DEF StagePayload, history
<1>4. DraftsInv'
  BY <1>2, <1>3, DraftsStay DEF AttemptsInv, ArchivesStay
<1>5. /\ staged \in StateRecords /\ staged.attempt = m.attempt /\ staged.phase = "staging"
      /\ staged.staged
  BY <1>2 DEF StateRecords
<1> HIDE DEF staged
<1>6. CASE UNCHANGED task
  BY <1>2, <1>3, <1>4, <1>6 DEF AttemptsInv, AttemptInv, At, Underway, Moving, Afterwards, Kept,
     Staged
<1>7. CASE Goto(p, "activate", staged) \/ Goto(p, "restore", m)
  BY <1>1, <1>2, <1>3, <1>4, <1>5, <1>7, AttemptGoto DEF Underway, Points, Moving, Afterwards
<1> QED
  BY <1>6, <1>7 DEF StagePayload, staged


LEMMA AttemptActivate ==
  ASSUME RunnerAssumption, RunnerInv, AttemptsInv, NEW p \in Procs, Activate(p)
  PROVE  AttemptsInv'
<1> DEFINE held == task[p].mem
           resumes == task[p].cmd = "resume"
           m == IF resumes THEN held ELSE [held EXCEPT !.phase = "active"]
<1>1. ~At(p, "idle") /\ ~At(p, "opened") /\ task[p].pc \in Underway
  BY DEF Activate, At, Underway, Points
<1>2. /\ held \in StateRecords /\ held.attempt = state.attempt /\ state.phase = "staging"
      /\ held.phase = "staging" /\ held.staged /\ state # None
      /\ held.scenario = state.scenario /\ state.attempt \in 1..starts
  BY <1>1, AttemptKnown DEF Activate, At, Moving
<1>3. /\ m \in StateRecords /\ m.attempt = held.attempt /\ m.staged /\ m # None
      /\ m.scenario = held.scenario
      /\ IF resumes THEN m.phase = "staging" ELSE m.phase = "active"
  BY <1>2, NoneIsNoRecord DEF StateRecords
<1> HIDE DEF m
<1>4. UNCHANGED <<work, archives, starts>>
  BY DEF Activate, files
<1>5. draft[m.attempt] = NoDir
  BY <1>2, <1>3 DEF AttemptsInv, DraftsInv
<1>6. CASE resumes /\ state' = m /\ UNCHANGED draft /\ Goto(p, "clear", m)
  <2>1. DraftsInv'
    BY <1>2, <1>3, <1>4, <1>5, <1>6, StillStaging DEF AttemptsInv
  <2> QED
    BY <1>1, <1>3, <1>6, <2>1, AttemptGoto DEF Underway, Points, Moving, Afterwards
<1>7. CASE /\ ~resumes /\ state' = m /\ Leave(p)
           /\ draft' = [draft EXCEPT ![m.attempt] = work[m.scenario]]
  <2>1. DraftsInv'
    BY <1>2, <1>3, <1>4, <1>7, BecomesActive DEF AttemptsInv, RunnerInv
  <2> QED
    BY <1>1, <1>7, <2>1, AttemptLeave
<1>8. CASE UNCHANGED <<state, draft>> /\ Goto(p, "restore", m)
  <2>1. DraftsInv'
    BY <1>4, <1>8, DraftsStay DEF AttemptsInv, ArchivesStay
  <2> QED
    BY <1>1, <1>2, <1>3, <1>8, <2>1, AttemptGoto DEF Underway, Points, Moving, Afterwards
<1> QED
  BY <1>6, <1>7, <1>8 DEF Activate, m

LEMMA AttemptRebuild ==
  ASSUME RunnerInv, AttemptsInv, NEW p \in Procs, Clear(p) \/ Rebuild(p)
  PROVE  AttemptsInv'
<1> DEFINE m == task[p].mem
<1>1. ~At(p, "idle") /\ ~At(p, "opened") /\ task[p].pc \in Underway
      /\ task[p].pc \in Moving \ {"stage"}
  BY DEF Clear, Rebuild, At, Underway, Points, Moving
<1>2. m \in StateRecords /\ m.attempt = state.attempt /\ state.phase = "staging"
      /\ m.phase = "staging" /\ m.staged
  BY <1>1, AttemptKnown
<1>3. UNCHANGED <<state, archives, draft, starts>>
  BY DEF Clear, Rebuild, history
<1>4. DraftsInv'
  BY <1>2, <1>3, DraftsStay DEF AttemptsInv, ArchivesStay
<1>5. \E pc \in {"rebuild", "publish", "restore"} : Goto(p, pc, m)
  BY DEF Clear, Rebuild
<1> QED
  BY <1>1, <1>2, <1>3, <1>4, <1>5, AttemptGoto DEF Underway, Points, Moving, Afterwards

LEMMA AttemptPublish ==
  ASSUME RunnerAssumption, RunnerInv, AttemptsInv, NEW p \in Procs, Publish(p)
  PROVE  AttemptsInv'
<1> DEFINE held == task[p].mem
           m == [held EXCEPT !.phase = "active"]
<1>1. ~At(p, "idle") /\ ~At(p, "opened") /\ task[p].pc \in Underway
  BY DEF Publish, At, Underway, Points
<1>2. /\ held \in StateRecords /\ held.attempt = state.attempt /\ state.phase = "staging"
      /\ held.staged /\ state # None /\ held.scenario = state.scenario
  BY <1>1, AttemptKnown DEF Publish, At, Moving
<1>3. /\ m \in StateRecords /\ m.attempt = held.attempt /\ m.staged /\ m # None
      /\ m.scenario = held.scenario /\ m.phase = "active"
  BY <1>2, NoneIsNoRecord DEF StateRecords
<1> HIDE DEF m
<1>4. UNCHANGED <<work, archives, starts>>
  BY DEF Publish, files
<1>5. CASE /\ state' = m /\ Leave(p)
           /\ draft' = [draft EXCEPT ![m.attempt] = work[m.scenario]]
  <2>1. DraftsInv'
    BY <1>2, <1>3, <1>4, <1>5, BecomesActive DEF AttemptsInv, RunnerInv
  <2> QED
    BY <1>1, <1>5, <2>1, AttemptLeave
<1>6. CASE UNCHANGED <<state, draft>> /\ Goto(p, "restore", m)
  <2>1. DraftsInv'
    BY <1>4, <1>6, DraftsStay DEF AttemptsInv, ArchivesStay
  <2> QED
    BY <1>1, <1>2, <1>3, <1>6, <2>1, AttemptGoto DEF Underway, Points, Moving, Afterwards
<1> QED
  BY <1>5, <1>6 DEF Publish, m

-----------------------------------------------------------------------------
(* The steps of a reset *)

\* Only what start put there is not worth an archive.
LEMMA NothingWorthKeeping ==
  ASSUME RunnerAssumption, NEW m, NEW t \in Places, ~WorthKeeping(m, t)
  PROVE  t = Staged(m.edition)
<1>1. t \in Trees /\ \A f \in Paths : t[f] = Staged(m.edition)[f]
  BY DEF WorthKeeping, NeedsWhole, Untouched, Changed, Unchanged, Staged, Places,
     RunnerAssumption
<1> QED
  BY <1>1 DEF Trees, Staged

LEMMA AttemptExamine ==
  ASSUME RunnerInv, AttemptsInv, NEW p \in Procs, Examine(p)
  PROVE  AttemptsInv'
<1> DEFINE t == work[state.scenario]
<1>1. state \in StateRecords /\ state # None /\ state.scenario \in Scenarios /\ t \in Places
      /\ state.edition \in Editions
  BY DEF Examine, MayReset, RunnerInv, FilesInv, FileTypes, StateRecords
<1>2. UNCHANGED <<state, work, archives, draft, starts>>
  BY DEF Examine, files, history
<1>3. DraftsInv'
  BY <1>2, DraftsStay DEF AttemptsInv, ArchivesStay
<1>4. state.attempt \in 1..MaxStarts
  BY <1>1, RunnerAssumption DEF AttemptsInv, DraftsInv, RunnerInv, FilesInv, FileTypes,
     RunnerAssumption
<1>5. CASE Goto(p, "archive", state)
  <2>1. task'[p].pc = "archive" /\ task'[p].mem = state
    BY <1>1, <1>5, GotoStep DEF RunnerInv, Examine, At, Points
  <2>2. AttemptInv(p)'
    BY <1>2, <2>1 DEF AttemptInv, At, Underway, Points, Moving, Afterwards
  <2>3. \A q \in Procs \ {p} : AttemptInv(q)'
    <3>1. \A q \in Procs \ {p} : task'[q] = Idle
      BY <1>5 DEF RunnerInv, TasksInv, Locked, Goto, Examine, At, Idle
    <3> QED
      BY <3>1 DEF AttemptInv, Idle, At, Underway, Moving, Afterwards
  <2> QED
    BY <1>3, <2>2, <2>3 DEF AttemptsInv
<1>6. CASE /\ Goto(p, "restore", state)
           /\ NothingMovedYet(state) \/ ~WorthKeeping(state, t)
  <2>1. state.phase = "active" => Kept(state.attempt)
    <3>1. CASE NothingMovedYet(state)
      BY <3>1 DEF NothingMovedYet
    <3>2. CASE ~WorthKeeping(state, t)
      BY <1>1, <1>4, <3>2, RunnerAssumption, NothingWorthKeeping DEF AttemptsInv, DraftsInv, Kept, InWork
    <3> QED
      BY <1>6, <3>1, <3>2
  <2>2. task'[p].pc = "restore" /\ task'[p].mem = state
    BY <1>1, <1>6, GotoStep DEF RunnerInv, Examine, At, Points
  <2>3. AttemptInv(p)'
    BY <1>2, <2>1, <2>2 DEF AttemptInv, At, Underway, Points, Moving, Afterwards, Kept, Holds, Staged
  <2>4. \A q \in Procs \ {p} : AttemptInv(q)'
    <3>1. \A q \in Procs \ {p} : task'[q] = Idle
      BY <1>6 DEF RunnerInv, TasksInv, Locked, Goto, Examine, At, Idle
    <3> QED
      BY <3>1 DEF AttemptInv, Idle, At, Underway, Moving, Afterwards
  <2> QED
    BY <1>3, <2>3, <2>4 DEF AttemptsInv
<1> QED
  BY <1>5, <1>6 DEF Examine

LEMMA AttemptArchive ==
  ASSUME RunnerAssumption, RunnerInv, AttemptsInv, NEW p \in Procs, Collect(p) \/ Relocate(p)
  PROVE  AttemptsInv'
<1> DEFINE m == task[p].mem
           t == work[m.scenario]
<1>1. ~At(p, "idle") /\ ~At(p, "opened") /\ task[p].pc \in Underway
  BY DEF Collect, Relocate, At, Underway, Points
<1>2. /\ m \in StateRecords /\ m.attempt = state.attempt /\ state # None
      /\ m.scenario = state.scenario /\ state.attempt \in 1..starts
  BY <1>1, AttemptKnown
<1>3. UNCHANGED <<state, draft, starts>> /\ t \in Places /\ state.attempt \in 1..MaxStarts
  BY <1>2 DEF Collect, Relocate, history, RunnerInv, FilesInv, FileTypes, AttemptsInv, DraftsInv,
     RunnerAssumption, StateRecords
<1>4. CASE UNCHANGED <<archives, work>> /\ Leave(p)
  <2>1. DraftsInv'
    BY <1>3, <1>4, DraftsStay DEF AttemptsInv, ArchivesStay
  <2> QED
    BY <1>1, <1>4, <2>1, AttemptLeave
<1>5. ASSUME NEW kept \in SUBSET Paths, archives' = Append(archives, Archive(m, t, kept)),
             Goto(p, "records", m), NeedsWhole(t) => kept = {f \in Paths : t[f] # Gone},
             ~NeedsWhole(t) => kept = Changed(m, t)
      PROVE  AttemptsInv'
  <2> DEFINE a == Archive(m, t, kept)
  <2>1. a \in ArchiveRecords /\ a.attempt = state.attempt /\ (t # NoDir => Holds(a, t))
    <3>1. a \in ArchiveRecords /\ Complete(a)
      BY <1>2, <1>3, <1>5, ArchiveComplete
    <3>2. a.attempt = m.attempt /\ a.was = t
      BY DEF Archive
    <3> QED
      BY <1>2, <3>1, <3>2 DEF Complete
  <2> HIDE DEF a
  <2>2. ArchivesStay /\ \E n \in DOMAIN archives' : archives'[n] = a
    BY <1>5, <2>1, Appended DEF ArchivesStay, RunnerInv, FilesInv, FileTypes, a
  <2>3. state.phase = "active" => Kept(state.attempt)'
    <3>1. CASE Kept(state.attempt)
      BY <1>3, <2>2, <3>1, KeptStays DEF Kept
    <3>2. CASE InWork(state.attempt)
      BY <1>2, <1>3, <2>1, <2>2, <3>2 DEF InWork, Kept
    <3> QED
      BY <1>3, <3>1, <3>2 DEF AttemptsInv, DraftsInv
  <2>4. state.phase \in {"staging", "active"}
    BY <1>2 DEF RunnerInv, FilesInv, FileTypes, StateRecords
  <2>5. DraftsInv'
    BY <1>3, <2>2, <2>3, <2>4, DraftsStay DEF AttemptsInv
  <2> QED
    BY <1>1, <1>2, <1>3, <1>5, <2>3, <2>5, AttemptGoto DEF Underway, Points, Moving, Afterwards
<1>6. CASE Collect(p)
  <2>1. Changed(m, t) \in SUBSET Paths
    BY DEF Changed
  <2> QED
    BY <1>4, <1>5, <1>6, <2>1 DEF Collect
<1>7. CASE Relocate(p)
  BY <1>4, <1>5, <1>7 DEF Relocate
<1> QED
  BY <1>6, <1>7

LEMMA AttemptDescribe ==
  ASSUME RunnerInv, AttemptsInv, NEW p \in Procs, MoveRecords(p) \/ Describe(p)
  PROVE  AttemptsInv'
<1> DEFINE m == task[p].mem
<1>1. ~At(p, "idle") /\ ~At(p, "opened") /\ task[p].pc \in Underway /\ task[p].pc \in Afterwards
  BY DEF MoveRecords, Describe, At, Underway, Points, Afterwards
<1>2. /\ m \in StateRecords /\ m.attempt = state.attempt
      /\ state.phase = "active" => Kept(state.attempt)
  BY <1>1, AttemptKnown
<1>3. UNCHANGED <<state, work, draft, starts>>
  BY DEF MoveRecords, Describe, history
<1>4. ArchivesStay
  BY Completed DEF MoveRecords, Describe, RunnerInv, ArchivesStay
<1>5. DraftsInv'
  BY <1>3, <1>4, DraftsStay DEF AttemptsInv
<1>6. state.phase = "active" => Kept(state.attempt)'
  BY <1>2, <1>3, <1>4, KeptStays DEF Kept
<1>7. Goto(p, "describe", m) \/ Goto(p, "restore", m)
  BY DEF MoveRecords, Describe
<1> QED
  BY <1>1, <1>2, <1>3, <1>5, <1>6, <1>7, AttemptGoto DEF Underway, Points, Moving, Afterwards

LEMMA AttemptRestore ==
  ASSUME RunnerInv, AttemptsInv, NEW p \in Procs, Restore(p) \/ Return(p) \/ Discard(p)
  PROVE  AttemptsInv'
<1> DEFINE m == task[p].mem
<1>1. ~At(p, "idle") /\ ~At(p, "opened") /\ task[p].pc \in Underway /\ task[p].pc \in Afterwards
  BY DEF Restore, Return, Discard, At, Underway, Points, Afterwards
<1>2. /\ m \in StateRecords /\ m.attempt = state.attempt
      /\ state.phase = "active" => Kept(state.attempt)
      /\ state.phase \in {"staging", "active"}
  BY <1>1, AttemptKnown DEF StateRecords
<1>3. UNCHANGED <<state, archives, draft, starts>>
  BY DEF Restore, Return, Discard, history
<1>4. state.phase = "active" => Kept(state.attempt)'
  BY <1>2, <1>3 DEF Kept, Holds, Staged
<1>5. DraftsInv'
  BY <1>2, <1>3, <1>4, DraftsStay DEF AttemptsInv, ArchivesStay
<1>6. Leave(p) \/ \E pc \in {"return", "discard", "forget"} : Goto(p, pc, m)
  BY DEF Restore, Return, Discard
<1>7. CASE Leave(p)
  BY <1>1, <1>5, <1>7, AttemptLeave
<1>8. CASE \E pc \in {"return", "discard", "forget"} : Goto(p, pc, m)
  BY <1>1, <1>2, <1>3, <1>4, <1>5, <1>8, AttemptGoto DEF Underway, Points, Moving, Afterwards
<1> QED
  BY <1>6, <1>7, <1>8

LEMMA AttemptForget ==
  ASSUME RunnerInv, AttemptsInv, NEW p \in Procs, Forget(p)
  PROVE  AttemptsInv'
<1>1. ~At(p, "idle") /\ task[p].pc \in Underway /\ task[p].pc \in Afterwards
  BY DEF Forget, At, Underway, Points, Afterwards
<1>2. state.phase = "active" => Kept(state.attempt)
  BY <1>1, AttemptKnown
<1>3. UNCHANGED <<work, archives, draft, starts>> /\ Leave(p)
  BY DEF Forget, files, history
<1>4. CASE state' = None
  <2>1. \A n \in 1..MaxStarts : Kept(n)'
    <3>1. \A n \in 1..MaxStarts : Kept(n)
      BY <1>2 DEF AttemptsInv, DraftsInv, InWork
    <3>2. ArchivesStay
      BY <1>3 DEF ArchivesStay
    <3> QED
      BY <1>3, <3>1, <3>2, KeptStays DEF Kept
  <2>2. DraftsInv'
    BY <1>3, <1>4, <2>1 DEF AttemptsInv, DraftsInv
  <2> QED
    BY <1>1, <1>3, <2>2, AttemptLeave
<1>5. CASE state' = state
  <2>1. DraftsInv'
    BY <1>3, <1>5, DraftsStay DEF AttemptsInv, ArchivesStay
  <2> QED
    BY <1>1, <1>3, <2>1, AttemptLeave
<1> QED
  BY <1>4, <1>5 DEF Forget


-----------------------------------------------------------------------------
LEMMA AttemptQuiet ==
  ASSUME Quiet, UNCHANGED task, DraftsInv'
  PROVE  AttemptsInv'
BY DEF Quiet, At, AttemptsInv, AttemptInv, Underway, Moving, Afterwards

LEMMA AttemptEdit ==
  ASSUME RunnerAssumption, RunnerInv, AttemptsInv, Edit
  PROVE  AttemptsInv'
<1> DEFINE n == state.attempt
           s == state.scenario
<1>1. /\ state # None /\ state.phase = "active" /\ s \in Scenarios
      /\ n \in 1..starts /\ n \in 1..MaxStarts
  BY DEF Edit, RunnerInv, FilesInv, FileTypes, StateRecords, AttemptsInv, DraftsInv,
     RunnerAssumption
<1>2. PICK t \in Edits : work' = [work EXCEPT ![s] = t] /\ draft' = [draft EXCEPT ![n] = t]
  BY DEF Edit
<1>3. UNCHANGED <<state, archives, starts>>
  BY DEF Edit
<1>4. work'[s] = t /\ draft' \in [1..MaxStarts -> Places] /\ draft'[n] = t
      /\ \A k \in 1..MaxStarts : k # n => draft'[k] = draft[k]
  BY <1>1, <1>2, TreeFacts DEF RunnerInv, FilesInv, FileTypes, AttemptsInv, DraftsInv, Places
<1>5. ASSUME NEW k \in 1..MaxStarts
      PROVE  (Kept(k) \/ InWork(k))'
  <2>1. CASE k = n
    BY <1>1, <1>3, <1>4, <2>1 DEF InWork
  <2>2. CASE k # n
    BY <1>3, <1>4, <2>2 DEF AttemptsInv, DraftsInv, Kept, InWork, Staged
  <2> QED
    BY <2>1, <2>2
<1>6. ASSUME NEW k \in 1..MaxStarts, k > starts
      PROVE  draft'[k] = NoDir
  <2>1. starts \in Nat
    BY DEF RunnerInv, FilesInv, FileTypes
  <2>2. draft[k] = NoDir
    BY <1>6 DEF AttemptsInv, DraftsInv
  <2>3. k # n
    BY <1>1, <1>6, <2>1
  <2> QED BY <1>4, <2>2, <2>3
<1>7. DraftsInv'
  BY <1>1, <1>3, <1>4, <1>5, <1>6 DEF AttemptsInv, DraftsInv
<1> QED
  BY <1>7, AttemptQuiet DEF Edit

LEMMA AttemptUnseen ==
  ASSUME AttemptsInv, Update \/ Spoil \/ UNCHANGED vars
  PROVE  AttemptsInv'
<1>1. UNCHANGED <<state, work, archives, task, draft, starts>>
  BY DEF Update, Spoil, vars, files, history
<1>2. DraftsInv'
  BY <1>1, DraftsStay DEF AttemptsInv, ArchivesStay
<1> QED
  BY <1>1, <1>2 DEF AttemptsInv, AttemptInv, At, Kept, Holds, Staged

LEMMA AttemptInit ==
  ASSUME RunnerAssumption, Init
  PROVE  AttemptsInv
<1>1. DraftsInv
  BY DEF Init, DraftsInv, Kept, Places, RunnerAssumption
<1> QED
  BY <1>1 DEF Init, AttemptsInv, AttemptInv, Idle, At, Underway, Moving, Afterwards

LEMMA AttemptNext ==
  ASSUME RunnerAssumption, RunnerInv, AttemptsInv, [Next]_vars
  PROVE  AttemptsInv'
<1>1. ASSUME NEW p \in Procs, NEW s \in Scenarios, NEW cmd, NEW n, Enter(p, cmd, s, n)
      PROVE  AttemptsInv'
  BY <1>1, AttemptEnter
<1>2. ASSUME NEW p \in Procs, Step(p)
      PROVE  AttemptsInv'
  BY <1>2, AttemptInspect, AttemptRefuse, AttemptRecord, AttemptPreserve, AttemptSeal,
     AttemptStage, AttemptActivate, AttemptRebuild, AttemptPublish, AttemptExamine,
     AttemptArchive, AttemptDescribe, AttemptRestore, AttemptForget
  DEF Step
<1>3. ASSUME NEW p \in Procs, Crash(p)
      PROVE  AttemptsInv'
  BY <1>3, AttemptCrash
<1>4. CASE Edit \/ Update \/ Spoil \/ UNCHANGED vars
  BY <1>4, AttemptEdit, AttemptUnseen
<1> QED
  BY <1>1, <1>2, <1>3, <1>4 DEF Next

LEMMA AttemptsInvariant == Spec => []AttemptsInv
<1>1. Init => AttemptsInv
  BY RunnerAssumption, AttemptInit
<1>2. RunnerInv /\ AttemptsInv /\ [Next]_vars => AttemptsInv'
  BY RunnerAssumption, AttemptNext
<1> QED
  BY <1>1, <1>2, RunnerInvariant, PTL DEF Spec

\* diff, status and reset look at different things, but see the same.
LEMMA ReportsAgreeAlways ==
  ASSUME RunnerAssumption, NEW m, m.edition = edition, m.edition \in Editions, m.staged,
         NEW t \in Places, CanCapture(t)
  PROVE  ReportsAgree(m, t)
<1>1. t # NoDir /\ t \in Trees /\ \A f \in Paths : t[f] \notin Linked
  BY DEF CanCapture, Places
<1>2. Gone # m.edition /\ Hollow \subseteq Nested
  BY DEF RunnerAssumption
<1>3. WorthKeeping(m, t) => Differing(t) # {}
  <2> SUFFICES ASSUME \A f \in Paths : t[f] = Staged(edition)[f]
               PROVE  ~WorthKeeping(m, t)
    BY DEF Differing
  <2>1. \A f \in Paths : t[f] \notin Linked \cup Nested
    BY DEF RunnerAssumption, Staged
  <2> QED
    BY <1>1, <2>1 DEF WorthKeeping, NeedsWhole, Untouched, Changed, Unchanged, Staged, Paths
<1>4. Differing(t) # {} => WorthKeeping(m, t)
  <2> SUFFICES ASSUME ~WorthKeeping(m, t) PROVE \A f \in Paths : t[f] = Staged(edition)[f]
    BY DEF Differing
  <2> QED
    BY NothingWorthKeeping
<1> DEFINE counts == StatusCounts(m, t)
           listed == {f \in Differing(t) : f \in Range(Stage) \/ t[f] \notin Hollow}
<1>5. UNION {counts[k] : k \in DOMAIN counts} = listed
  <2>1. /\ counts.modified =
             {f \in Range(Stage) : t[f] \notin Linked \cup Nested \cup {Gone, m.edition}}
        /\ counts.missing = {f \in Range(Stage) : t[f] \in Linked \cup Nested \cup {Gone}}
        /\ counts.added = Changed(m, t) \ Range(Stage)
        /\ DOMAIN counts = {"modified", "missing", "added"}
    BY DEF StatusCounts
  <2> HIDE DEF counts
  <2>2. UNION {counts[k] : k \in DOMAIN counts} =
          counts.modified \cup counts.missing \cup counts.added
    BY <2>1
  <2>3. m.edition \notin Linked \cup Nested
    BY DEF RunnerAssumption
  <2>4. \A f \in Range(Stage) : f \in listed <=> f \in counts.modified \cup counts.missing
    BY <1>1, <1>2, <2>1, <2>3 DEF Differing, Staged, Paths
  <2>5. \A f \in Paths \ Range(Stage) : f \in listed <=> f \in counts.added
    BY <1>1, <1>2, <2>1 DEF Differing, Changed, Unchanged, Staged
  <2>6. listed \subseteq Paths /\ counts.added \subseteq Paths \ Range(Stage)
        /\ counts.modified \cup counts.missing \subseteq Range(Stage)
        /\ Range(Stage) \subseteq Paths
    BY <1>1, <2>1 DEF Differing, Changed, Paths
  <2> HIDE DEF listed
  <2> QED
    BY <2>2, <2>4, <2>5, <2>6
<1> QED
  BY <1>3, <1>4, <1>5 DEF ReportsAgree

\* Whatever is killed, fails or is tried again, and however the participant's
\* work changes between a start and its reset, the last tree of every attempt
\* is in place, or an archive has the files of it that are no payloads, or it is
\* what start had put there; and diff reports a change exactly when reset would
\* archive one, and status what diff does, but for empty directories
\* (archive_attempt(), cmd_diff(), cmd_status()).
THEOREM AttemptKeptAlways == Spec => []AttemptKept
<1>1. ASSUME RunnerAssumption, RunnerInv, AttemptsInv
      PROVE  AttemptKept
  <2>1. ASSUME state # None, state.phase = "active", DefinitionUnchanged(state),
               CanCapture(work[state.scenario])
        PROVE  ReportsAgree(state, work[state.scenario])
    BY <1>1, <2>1, ReportsAgreeAlways DEF RunnerInv, FilesInv, FileTypes, StateRecords,
       AttemptsInv, DraftsInv, DefinitionUnchanged
  <2>2. ASSUME NEW n \in 1..MaxStarts, draft[n] # NoDir
        PROVE  \/ state # None /\ state.attempt = n /\ work[state.scenario] = draft[n]
               \/ \E i \in DOMAIN archives : archives[i].attempt = n /\ Holds(archives[i], draft[n])
               \/ \E e \in Editions : draft[n] = Staged(e)
    BY <1>1, <2>2 DEF AttemptsInv, DraftsInv, Kept, InWork
  <2> QED
    BY <2>1, <2>2 DEF AttemptKept
<1>2. RunnerInv /\ AttemptsInv => AttemptKept
  BY <1>1, RunnerAssumption
<1> QED
  BY <1>2, RunnerInvariant, AttemptsInvariant, PTL

-----------------------------------------------------------------------------
\* The reset of a version 1 record

ContentKinds == {"none", "own", "staged", "edited", "link"}
Later == {"directories", "backups", "state"}

LegacyTypeOK ==
  /\ recorded \in BOOLEAN /\ dirMade \in BOOLEAN
  /\ before \subseteq TargetSet /\ (dirMade => before = {})
  /\ contents \in [TargetSet -> ContentKinds]
  /\ copies \in [TargetSet -> {"none", "own", "spoilt"}]
  /\ resetAt \in {"idle", "archive"} \cup TargetSet \cup Later

Restored(t) == contents[t] = IF t \in before THEN "own" ELSE "none"

\* A running reset has restored the targets before the one it stands at; then it has
\* restored all of them.
RestoredSoFar ==
  /\ resetAt \in TargetSet =>
       \E n \in DOMAIN Targets :
         resetAt = Targets[n] /\ \A k \in 1..(n - 1) : Restored(Targets[k])
  /\ resetAt \in Later => \A t \in TargetSet : Restored(t)

BackupsGoLast ==
  /\ \A t \in TargetSet \ before : copies[t] = "none"
  /\ resetAt = "state" => \A t \in TargetSet : copies[t] = "none"
  /\ ~recorded => /\ resetAt = "idle"
                  /\ \A t \in TargetSet : Restored(t) /\ copies[t] = "none"

LegacyInv == LegacyTypeOK /\ RestoredSoFar /\ BackupsGoLast /\ LegacyRestored

\* A target is none of the steps of a reset.
LEMMA TargetsApart == \A t \in TargetSet : t \notin StepsOfReset
BY TargetsAssumption DEF TargetSet

\* Where the reset goes on to, from one target or from the archive
LEMMA PlaceAfter ==
  ASSUME NEW n \in 0..Len(Targets), \A k \in 1..n : Restored(Targets[k])'
  PROVE  LET p == Place(n + 1)
         IN  /\ p \in TargetSet \cup {"directories"}
             /\ p \in TargetSet => \E m \in DOMAIN Targets :
                  p = Targets[m] /\ \A k \in 1..(m - 1) : Restored(Targets[k])'
             /\ p = "directories" => \A t \in TargetSet : Restored(t)'
<1>1. Targets \in Seq(STRING) /\ DOMAIN Targets = 1..Len(Targets) /\ Len(Targets) \in Nat
  BY TargetsAssumption
<1>2. CASE n + 1 > Len(Targets)
  <2>1. Place(n + 1) = "directories" /\ "directories" \notin TargetSet
    BY <1>2, TargetsApart DEF Place, StepsOfReset
  <2>2. \A t \in TargetSet : \E k \in 1..n : t = Targets[k]
    BY <1>1, <1>2 DEF TargetSet
  <2> QED BY <2>1, <2>2
<1>3. CASE n + 1 =< Len(Targets)
  <2>1. Place(n + 1) = Targets[n + 1] /\ n + 1 \in DOMAIN Targets
    BY <1>1, <1>3 DEF Place
  <2>2. Targets[n + 1] \in TargetSet /\ Targets[n + 1] # "directories"
    BY <2>1, TargetsAssumption DEF TargetSet, StepsOfReset
  <2>3. (n + 1) - 1 = n
    OBVIOUS
  <2> QED BY <2>1, <2>2, <2>3
<1> QED BY <1>1, <1>2, <1>3

LEMMA FollowingIsNext ==
  ASSUME NEW n \in DOMAIN Targets
  PROVE  Following(Targets[n]) = Place(n + 1)
<1>1. (CHOOSE k \in DOMAIN Targets : Targets[k] = Targets[n]) = n
  BY TargetsAssumption
<1> QED BY <1>1 DEF Following

LEMMA ArchiveKeeps ==
  ASSUME LegacyInv, ArchiveLegacy
  PROVE  LegacyInv'
<1>1. /\ UNCHANGED <<recorded, before, dirMade, copies>> /\ recorded
      /\ resetAt = "archive"
  BY DEF ArchiveLegacy, LegacyInv, BackupsGoLast
<1>2. /\ contents' \in [TargetSet -> ContentKinds]
      /\ saved \subseteq saved'
      /\ \A t \in TargetSet : \/ contents'[t] = contents[t]
                              \/ contents'[t] = "none" /\ <<t, contents[t]>> \in saved'
  <2>1. contents \in [TargetSet -> ContentKinds]
    BY DEF LegacyInv, LegacyTypeOK
  <2>2. CASE UNCHANGED contents
    BY <2>1, <2>2 DEF ArchiveLegacy, Archived, Saving
  <2>3. CASE /\ Saving({t \in TargetSet : contents[t] # "none"})
             /\ contents' = [t \in TargetSet |-> "none"]
    <3>1. contents' \in [TargetSet -> ContentKinds] /\ saved \subseteq saved'
      BY <2>3 DEF Saving, ContentKinds
    <3>2. ASSUME NEW t \in TargetSet, contents[t] # "none" PROVE <<t, contents[t]>> \in saved'
      BY <2>3, <3>2 DEF Saving
    <3> QED BY <2>3, <3>1, <3>2
  <2> QED BY <2>2, <2>3 DEF ArchiveLegacy, Archived
<1>3. CASE Archived /\ resetAt' = Place(1)
  <2>1. \A t \in TargetSet : contents'[t] \in {"edited", "link"} => <<t, contents'[t]>> \in saved'
    BY <1>3 DEF Archived, Saving, LegacyInv, LegacyTypeOK
  <2>2. /\ resetAt' \in TargetSet \cup {"directories"}
        /\ resetAt' \in TargetSet => \E m \in DOMAIN Targets :
             resetAt' = Targets[m] /\ \A k \in 1..(m - 1) : Restored(Targets[k])'
        /\ resetAt' = "directories" => \A t \in TargetSet : Restored(t)'
    BY <1>3, PlaceAfter, TargetsAssumption
  <2>3. \A t \in before : contents'[t] = "own" \/ copies'[t] # "none" \/ <<t, "own">> \in saved'
    BY <1>1, <1>2 DEF LegacyInv, LegacyTypeOK, LegacyRestored
  <2>4. LegacyTypeOK'
    BY <1>1, <1>2, <2>2 DEF LegacyInv, LegacyTypeOK, Later
  <2>5. resetAt' # "state" /\ RestoredSoFar'
    BY <1>1, <2>2, TargetsApart DEF RestoredSoFar, Later, StepsOfReset
  <2> QED BY <1>1, <2>1, <2>3, <2>4, <2>5 DEF LegacyInv, BackupsGoLast, LegacyRestored
<1>4. CASE Stop /\ UNCHANGED <<saved, contents>>
  BY <1>1, <1>4, TargetsApart DEF Stop, LegacyInv, LegacyTypeOK, RestoredSoFar, BackupsGoLast, LegacyRestored, Restored, Later, StepsOfReset
<1> QED BY <1>3, <1>4 DEF ArchiveLegacy

LEMMA RestoreKeeps ==
  ASSUME LegacyInv, RestoreTarget
  PROVE  LegacyInv'
<1> DEFINE c == IF resetAt \in before THEN "own" ELSE "none"
<1>1. /\ UNCHANGED <<recorded, before, dirMade, copies, saved>> /\ recorded
      /\ resetAt \in TargetSet /\ resetAt \notin StepsOfReset
  BY TargetsApart DEF RestoreTarget, LegacyInv, BackupsGoLast, StepsOfReset
<1>2. CASE Stop /\ UNCHANGED contents
  BY <1>1, <1>2, TargetsApart DEF Stop, LegacyInv, LegacyTypeOK, RestoredSoFar, BackupsGoLast, LegacyRestored, Restored, Later, StepsOfReset
<1>3. CASE /\ IF resetAt \in before THEN RestoreExisting(resetAt)
              ELSE contents' = [contents EXCEPT ![resetAt] = "none"]
           /\ resetAt' = Following(resetAt)
  <2>1. contents' = [contents EXCEPT ![resetAt] = c]
    BY <1>1, <1>3 DEF RestoreExisting, HasBackup, LegacyInv, LegacyTypeOK
  <2>2. /\ contents' \in [TargetSet -> ContentKinds]
        /\ contents'[resetAt] = c
        /\ \A t \in TargetSet \ {resetAt} : contents'[t] = contents[t]
    BY <1>1, <2>1 DEF LegacyInv, LegacyTypeOK, ContentKinds
  <2>3. Restored(resetAt)' \/ resetAt' # resetAt
    BY <1>1, <2>2 DEF Restored
  <2>4. PICK n \in DOMAIN Targets :
          resetAt = Targets[n] /\ \A k \in 1..(n - 1) : Restored(Targets[k])
    BY <1>1 DEF LegacyInv, RestoredSoFar
  <2>5. \A t \in TargetSet : t = resetAt \/ Restored(t) => contents'[t] = IF t \in before' THEN "own" ELSE "none"
    BY <1>1, <2>2 DEF Restored
  <2>6. DOMAIN Targets = 1..Len(Targets) /\ Len(Targets) \in Nat
    BY TargetsAssumption
  <2>7. \A k \in 1..n : Restored(Targets[k])'
    BY <2>4, <2>5, <2>6 DEF Restored, TargetSet
  <2>8. /\ resetAt' \in TargetSet \cup {"directories"}
        /\ resetAt' \in TargetSet => \E m \in DOMAIN Targets :
             resetAt' = Targets[m] /\ \A k \in 1..(m - 1) : Restored(Targets[k])'
        /\ resetAt' = "directories" => \A t \in TargetSet : Restored(t)'
    <3>1. n \in 0..Len(Targets) /\ resetAt' = Place(n + 1)
      BY <1>3, <2>4, <2>6, FollowingIsNext
    <3> QED BY <2>7, <3>1, PlaceAfter
  <2>9. RestoredSoFar' /\ resetAt' # "state"
    BY <2>8, TargetsApart DEF RestoredSoFar, Later, StepsOfReset
  <2>10. LegacyTypeOK'
    BY <1>1, <2>2, <2>8 DEF LegacyInv, LegacyTypeOK, Later
  <2>11. LegacyRestored'
    BY <1>1, <2>2, TargetsApart DEF LegacyInv, LegacyTypeOK, LegacyRestored, StepsOfReset
  <2> QED BY <1>1, <2>9, <2>10, <2>11 DEF LegacyInv, BackupsGoLast
<1> QED BY <1>2, <1>3 DEF RestoreTarget

LEMMA LaterStepsKeep ==
  ASSUME LegacyInv, RemoveCreatedDirs \/ DropBackups \/ ClearLegacy
  PROVE  LegacyInv'
<1>1. \A t \in TargetSet : Restored(t)
  BY DEF RemoveCreatedDirs, DropBackups, ClearLegacy, LegacyInv, RestoredSoFar, Later
<1>2. CASE RemoveCreatedDirs
  <2>1. contents' = contents
    <3>1. ASSUME dirMade PROVE \A t \in TargetSet : contents[t] = "none"
      BY <1>1, <3>1 DEF LegacyInv, LegacyTypeOK, Restored
    <3> QED BY <1>2, <3>1 DEF RemoveCreatedDirs, LegacyInv, LegacyTypeOK
  <2> QED BY <1>1, <1>2, <2>1, TargetsApart DEF RemoveCreatedDirs, Stop, LegacyInv, LegacyTypeOK, RestoredSoFar, BackupsGoLast, LegacyRestored, Restored, Later, StepsOfReset
<1>3. CASE DropBackups
  <2>1. /\ UNCHANGED <<recorded, before, dirMade, contents, saved>>
        /\ copies' \in [TargetSet -> {"none", "own", "spoilt"}]
        /\ \A t \in TargetSet : copies'[t] \in {"none", copies[t]}
        /\ \/ resetAt' = "idle"
           \/ resetAt' = "state" /\ \A t \in TargetSet : copies'[t] = "none"
    <3>1. copies \in [TargetSet -> {"none", "own", "spoilt"}]
      BY DEF LegacyInv, LegacyTypeOK
    <3>2. CASE copies' = [t \in TargetSet |-> "none"] /\ resetAt' = "state"
      BY <1>3, <3>2 DEF DropBackups
    <3>3. ASSUME NEW gone \in SUBSET TargetSet,
                 copies' = [t \in TargetSet |-> IF t \in gone THEN "none" ELSE copies[t]],
                 resetAt' = "idle"
          PROVE  /\ copies' \in [TargetSet -> {"none", "own", "spoilt"}]
                 /\ \A t \in TargetSet : copies'[t] \in {"none", copies[t]}
      BY <3>1, <3>3
    <3> QED BY <1>3, <3>2, <3>3 DEF DropBackups, Stop
  <2>2. \A t \in TargetSet : Restored(t)'
    BY <1>1, <2>1 DEF Restored
  <2>3. LegacyTypeOK' /\ RestoredSoFar'
    BY <2>1, <2>2, TargetsApart DEF LegacyInv, LegacyTypeOK, RestoredSoFar, Later, StepsOfReset
  <2>4. BackupsGoLast'
    BY <1>3, <2>1, <2>2 DEF LegacyInv, BackupsGoLast, DropBackups
  <2>5. LegacyRestored'
    BY <1>3, <2>1, <2>2, <1>1 DEF LegacyInv, BackupsGoLast, LegacyRestored, LegacyTypeOK, DropBackups, Restored
  <2> QED BY <2>3, <2>4, <2>5 DEF LegacyInv
<1>4. CASE ClearLegacy
  BY <1>1, <1>4, TargetsApart DEF ClearLegacy, Stop, LegacyInv, LegacyTypeOK, RestoredSoFar, BackupsGoLast, LegacyRestored, Restored, Later, StepsOfReset
<1> QED BY <1>2, <1>3, <1>4

LEMMA LegacyStep == LegacyInv /\ [LegacyNext]_legacyVars => LegacyInv'
<1> SUFFICES ASSUME LegacyInv, [LegacyNext]_legacyVars PROVE LegacyInv'
  OBVIOUS
<1>1. CASE BeginReset \/ KillReset
  BY <1>1, TargetsApart DEF BeginReset, KillReset, Stop, LegacyInv, LegacyTypeOK, RestoredSoFar, BackupsGoLast, LegacyRestored, Restored, Later, StepsOfReset
<1>2. ASSUME NEW t \in TargetSet, Rework(t) PROVE LegacyInv'
  <2>1. /\ UNCHANGED <<recorded, before, dirMade, saved, resetAt>> /\ recorded /\ resetAt = "idle"
        /\ contents' \in [TargetSet -> ContentKinds]
        /\ copies' \in [TargetSet -> {"none", "own", "spoilt"}]
        /\ \A s \in TargetSet : copies'[s] = "none" <=> copies[s] = "none"
        /\ \A s \in before : contents'[s] = contents[s] \/ copies'[s] # "none"
    BY <1>2 DEF Rework, LegacyInv, LegacyTypeOK, ContentKinds
  <2> QED BY <2>1, TargetsApart DEF LegacyInv, LegacyTypeOK, RestoredSoFar, BackupsGoLast, LegacyRestored, Later, StepsOfReset
<1>3. CASE UNCHANGED legacyVars
  BY <1>3 DEF legacyVars, LegacyInv, LegacyTypeOK, RestoredSoFar, BackupsGoLast, LegacyRestored, Restored
<1> QED BY <1>1, <1>2, <1>3, ArchiveKeeps, RestoreKeeps, LaterStepsKeep DEF LegacyNext

\* However often the reset of a version 1 record fails, is killed and repeated, it
\* restores what start found and loses nothing (restore_targets).
THEOREM LegacyAlwaysRestored ==
  LegacyInit /\ [][LegacyNext]_legacyVars => []LegacyRestored
<1>1. LegacyInit => LegacyInv
  <2> SUFFICES ASSUME LegacyInit PROVE LegacyInv
    OBVIOUS
  <2>1. LegacyTypeOK
    BY DEF LegacyInit, LegacyTypeOK, ContentKinds
  <2>2. \A t \in before : contents[t] = "own" \/ copies[t] # "none"
    BY DEF LegacyInit
  <2> QED BY <2>1, <2>2, TargetsApart DEF LegacyInit, LegacyInv, RestoredSoFar, BackupsGoLast, LegacyRestored, Later, StepsOfReset
<1>2. LegacyInv => LegacyRestored
  BY DEF LegacyInv
<1> QED BY <1>1, <1>2, LegacyStep, PTL

-----------------------------------------------------------------------------
\* The judgement of evidence

DocumentInv == document \in Seq(Lines)

LEMMA LineFields ==
  ASSUME NEW d \in Seq(Lines), NEW k \in DOMAIN d
  PROVE  /\ d[k].level \in Nat /\ d[k].words \in Nat /\ d[k].chars \in Nat
         /\ d[k].starts = BlockStart => d[k].level = BlockLevel
<1>1. d[k] \in Lines
  OBVIOUS
<1> QED BY <1>1, EvidenceAssumption

\* The body of a block ends before the next one.
LEMMA BodiesApart ==
  ASSUME NEW d \in Seq(Lines), NEW b \in Blocks(d), NEW c \in Blocks(d), b < c
  PROVE  \A k \in BodyLines(d, b, BlockLevel) : b < k /\ k < c
<1>1. DOMAIN d = 1..Len(d) /\ Len(d) \in Nat /\ b \in 1..Len(d) /\ c \in 1..Len(d)
  BY DEF Blocks
<1>2. EndsBody(d, c, BlockLevel)
  BY LineFields, EvidenceAssumption DEF Blocks, EndsBody
<1>3. ASSUME NEW k \in BodyLines(d, b, BlockLevel), k >= c PROVE FALSE
  <2>1. k \in (b + 1)..Len(d) /\ \A j \in (b + 1)..k : ~EndsBody(d, j, BlockLevel)
    BY DEF BodyLines
  <2>2. c \in (b + 1)..k
    BY <1>1, <1>3, <2>1
  <2> QED BY <1>2, <2>1, <2>2
<1>4. \A k \in BodyLines(d, b, BlockLevel) : k \in (b + 1)..Len(d)
  BY DEF BodyLines
<1> QED BY <1>1, <1>3, <1>4

LEMMA BodyInDocument ==
  ASSUME NEW d \in Seq(Lines), NEW b \in Blocks(d)
  PROVE  BodyLines(d, b, BlockLevel) \subseteq DOMAIN d
<1>1. DOMAIN d = 1..Len(d) /\ Len(d) \in Nat /\ b \in 1..Len(d)
  BY DEF Blocks
<1> QED BY <1>1 DEF BodyLines

\* Of finitely many lines one is the longest.
LEMMA LongestIsOne ==
  ASSUME NEW d \in Seq(Lines), NEW found \in SUBSET DOMAIN d, found # {}
  PROVE  Longest(d, found) \in found
<1> DEFINE best(T) == {k \in T : \A j \in T : d[j].chars =< d[k].chars}
           D == {T \in SUBSET found : T # {} => best(T) # {}}
<1>1. IsFiniteSet(found)
  <2>1. IsFiniteSet(1..Len(d)) /\ found \subseteq 1..Len(d)
    BY FS_Interval
  <2> QED BY <2>1, FS_Subset
<1>2. \A k \in found : d[k].chars \in Nat
  BY LineFields
<1>3. ASSUME NEW T \in SUBSET found, \A U \in SUBSET T : U # T => U \in D
      PROVE  T \in D
  <2> SUFFICES ASSUME T # {} PROVE best(T) # {}
    OBVIOUS
  <2>1. PICK x \in T : TRUE
    OBVIOUS
  <2>2. T \ {x} \in D
    BY <1>3, <2>1
  <2>3. CASE T = {x}
    <3>1. x \in best(T)
      BY <1>2, <2>3
    <3> QED BY <3>1
  <2>4. CASE T # {x}
    <3>1. PICK y \in T \ {x} : \A j \in T \ {x} : d[j].chars =< d[y].chars
      BY <2>1, <2>2, <2>4
    <3>2. CASE d[x].chars =< d[y].chars
      <4>1. y \in best(T)
        BY <3>1, <3>2
      <4> QED BY <4>1
    <3>3. CASE ~(d[x].chars =< d[y].chars)
      <4>1. \A j \in T : d[j].chars =< d[x].chars
        BY <1>2, <3>1, <3>3
      <4>2. x \in best(T)
        BY <2>1, <4>1
      <4> QED BY <4>2
    <3> QED BY <3>2, <3>3
  <2> QED BY <2>3, <2>4
<1> HIDE DEF D
<1>4. found \in D
  BY <1>1, <1>3, SubsetInduction
<1>5. best(found) # {}
  BY <1>4 DEF D
<1>6. best(found) \in SUBSET Nat
  OBVIOUS
<1>7. PICK m \in best(found) : \A j \in best(found) : m =< j
  <2> HIDE DEF best
  <2> QED BY <1>5, <1>6, LeastNumber
<1>8. Min(best(found)) \in best(found)
  BY <1>7 DEF Min
<1> QED BY <1>8 DEF Longest

\* Bodies that have nothing in common have their words together.
LEMMA WordsOfBodies ==
  ASSUME NEW d \in Seq(Lines), NEW S \in SUBSET Blocks(d),
         \A b \in S : Words(d, BodyLines(d, b, BlockLevel)) >= MinWords
  PROVE  Words(d, DOMAIN d) >= MinWords * Cardinality(S)
<1> DEFINE w == [k \in DOMAIN d |-> d[k].words]
           body(b) == BodyLines(d, b, BlockLevel)
           all(T) == UNION {body(b) : b \in T}
           D == {T \in SUBSET S : SumFunctionOnSet(w, all(T)) >= MinWords * Cardinality(T)}
<1>1. IsFiniteSet(DOMAIN d) /\ IsFiniteSet(S)
  <2>1. IsFiniteSet(1..Len(d)) /\ DOMAIN d = 1..Len(d) /\ S \subseteq 1..Len(d)
    BY FS_Interval DEF Blocks
  <2> QED BY <2>1, FS_Subset
<1>2. \A k \in DOMAIN d : w[k] \in Nat
  BY LineFields
<1>3. MinWords \in Nat
  BY EvidenceAssumption DEF EvidenceParses
<1>4. \A b \in S : body(b) \subseteq DOMAIN d
  BY BodyInDocument
<1>5. \A b, c \in S : b # c => body(b) \cap body(c) = {}
  <2> SUFFICES ASSUME NEW b \in S, NEW c \in S, b # c PROVE body(b) \cap body(c) = {}
    OBVIOUS
  <2>1. b \in Nat /\ c \in Nat
    BY DEF Blocks
  <2>2. CASE b < c
    <3>1. \A k \in body(b) : k < c
      BY <2>2, BodiesApart
    <3>2. \A k \in body(c) : k \in (c + 1)..Len(d)
      BY DEF BodyLines
    <3> QED BY <2>1, <3>1, <3>2
  <2>3. CASE c < b
    <3>1. \A k \in body(c) : k < b
      BY <2>3, BodiesApart
    <3>2. \A k \in body(b) : k \in (b + 1)..Len(d)
      BY DEF BodyLines
    <3> QED BY <2>1, <3>1, <3>2
  <2> QED BY <2>1, <2>2, <2>3
<1>6. \A b \in S : SumFunctionOnSet(w, body(b)) >= MinWords
  BY DEF Words
<1> HIDE DEF w, body
<1>7. \A A \in SUBSET DOMAIN d : IsFiniteSet(A) /\ SumFunctionOnSet(w, A) \in Nat
  BY <1>1, <1>2, FS_Subset, SumGrows
<1>8. ASSUME NEW T \in SUBSET S, \A U \in SUBSET T : U # T => U \in D
      PROVE  T \in D
  <2>1. CASE T = {}
    <3>1. all(T) = {} /\ Cardinality(T) = 0
      BY <2>1, FS_EmptySet
    <3>2. SumFunctionOnSet(w, all(T)) = 0
      BY <3>1, SumEmpty
    <3> QED BY <1>3, <3>1, <3>2
  <2>2. CASE T # {}
    <3>1. PICK x \in T : TRUE
      BY <2>2
    <3>2. T \ {x} \in D /\ IsFiniteSet(T) /\ IsFiniteSet(T \ {x})
      BY <1>1, <1>8, <3>1, FS_Subset
    <3>3. /\ all(T) = all(T \ {x}) \cup body(x)
          /\ all(T \ {x}) \cap body(x) = {}
          /\ all(T \ {x}) \subseteq DOMAIN d /\ body(x) \subseteq DOMAIN d
      BY <1>4, <1>5, <3>1
    <3>4. Cardinality(T) = Cardinality(T \ {x}) + 1 /\ Cardinality(T \ {x}) \in Nat
      BY <3>1, <3>2, FS_RemoveElement, FS_CardinalityType
    <3>5. SumFunctionOnSet(w, all(T)) = SumFunctionOnSet(w, all(T \ {x})) + SumFunctionOnSet(w, body(x))
      <4>1. PICK A, B : A = all(T \ {x}) /\ B = body(x)
        OBVIOUS
      <4> HIDE DEF all
      <4>2. /\ IsFiniteSet(A) /\ IsFiniteSet(B) /\ A \cap B = {}
            /\ \A k \in A \cup B : w[k] \in Int
        <5>1. /\ all(T \ {x}) \cap body(x) = {}
              /\ all(T \ {x}) \in SUBSET DOMAIN d /\ body(x) \in SUBSET DOMAIN d
          BY <3>3
        <5>2. A \in SUBSET DOMAIN d /\ B \in SUBSET DOMAIN d /\ A \cap B = {}
          BY <4>1, <5>1
        <5> QED BY <1>2, <1>7, <5>2
      <4>3. SumFunctionOnSet(w, A \cup B) = SumFunctionOnSet(w, A) + SumFunctionOnSet(w, B)
        BY <4>2, SumUnion
      <4> QED BY <3>3, <4>1, <4>3
    <3>6. SumFunctionOnSet(w, all(T \ {x})) >= MinWords * Cardinality(T \ {x})
      BY <3>2
    <3>7. /\ SumFunctionOnSet(w, all(T \ {x})) \in Nat
          /\ SumFunctionOnSet(w, body(x)) \in Nat /\ SumFunctionOnSet(w, body(x)) >= MinWords
      BY <1>6, <1>7, <3>1, <3>3
    <3> HIDE DEF all
    <3>8. \A n, m, p, q \in Nat : (p >= m * n /\ q >= m) => p + q >= m * (n + 1)
      <4> TAKE n, m, p, q \in Nat
      <4>1. m * (n + 1) = m * n + m /\ m * n \in Nat
        BY SMTT(30)
      <4> QED BY <4>1
    <3> QED BY <1>3, <3>4, <3>5, <3>6, <3>7, <3>8
  <2> QED BY <2>1, <2>2
<1> HIDE DEF D
<1>9. S \in D
  BY <1>1, <1>8, SubsetInduction
<1>10. all(S) \subseteq DOMAIN d
  BY <1>4
<1>11. SumFunctionOnSet(w, all(S)) =< SumFunctionOnSet(w, DOMAIN d)
  <2> HIDE DEF all
  <2> QED BY <1>1, <1>2, <1>10, SumGrows
<1>12. Cardinality(S) \in Nat /\ MinWords * Cardinality(S) \in Nat
  BY <1>1, <1>3, FS_CardinalityType
<1>13. SumFunctionOnSet(w, all(S)) >= MinWords * Cardinality(S)
  BY <1>9 DEF D
<1>14. SumFunctionOnSet(w, all(S)) \in Nat /\ SumFunctionOnSet(w, DOMAIN d) \in Nat
  <2> HIDE DEF all
  <2> QED BY <1>7, <1>10
<1> HIDE DEF all
<1>15. SumFunctionOnSet(w, DOMAIN d) >= MinWords * Cardinality(S)
  BY <1>11, <1>12, <1>13, <1>14
<1> QED BY <1>15 DEF Words, w

LEMMA PassingIsDistinct ==
  ASSUME NEW d \in Seq(Lines), BlocksPass(d)
  PROVE  LET fields == {k \in DOMAIN d : /\ d[k].starts = Field
                                         /\ d[k].chars >= MinChars
                                         /\ d[k].mentions}
         IN  /\ Cardinality(Blocks(d)) >= MinBlocks
             /\ Cardinality(fields) >= Cardinality(Blocks(d))
             /\ \A b, c \in Blocks(d) : b < c => \E k \in fields : b < k /\ k < c
             /\ Words(d, DOMAIN d) >= MinWords * Cardinality(Blocks(d))
<1> DEFINE fields == {k \in DOMAIN d : /\ d[k].starts = Field
                                       /\ d[k].chars >= MinChars
                                       /\ d[k].mentions}
           body(b) == BodyLines(d, b, BlockLevel)
           line(b) == Longest(d, {k \in body(b) : d[k].starts = Field})
           f == [b \in Blocks(d) |-> line(b)]
<1>1. ASSUME NEW b \in Blocks(d) PROVE line(b) \in fields /\ line(b) \in body(b)
  <2>1. PICK found \in SUBSET DOMAIN d : found = {k \in body(b) : d[k].starts = Field}
    BY BodyInDocument
  <2>2. found # {} /\ d[Longest(d, found)].chars >= MinChars /\ d[Longest(d, found)].mentions
    BY <2>1 DEF BlocksPass, FieldPasses
  <2>3. Longest(d, found) \in found
    BY <2>2, LongestIsOne
  <2> QED BY <2>1, <2>2, <2>3
<1>2. \A b, c \in Blocks(d) : b < c => b < line(b) /\ line(b) < c
  BY <1>1, BodiesApart
<1> HIDE DEF line
<1>3. \A b \in Blocks(d) : b \in Nat
  BY DEF Blocks
<1>4. \A b \in Blocks(d) : line(b) \in Nat /\ b < line(b)
  BY <1>1, <1>3 DEF BodyLines
<1>5. f \in Injection(Blocks(d), fields)
  <2>1. f \in [Blocks(d) -> fields]
    BY <1>1
  <2>2. ASSUME NEW b \in Blocks(d), NEW c \in Blocks(d), b # c PROVE f[b] # f[c]
    <3>1. b < c \/ c < b
      BY <1>3, <2>2
    <3> QED BY <1>2, <1>3, <1>4, <3>1
  <2> QED BY <2>1, <2>2 DEF Injection, IsInjective
<1>6. IsFiniteSet(Blocks(d)) /\ IsFiniteSet(fields)
  <2>1. IsFiniteSet(1..Len(d)) /\ DOMAIN d = 1..Len(d)
    BY FS_Interval
  <2>2. Blocks(d) \subseteq DOMAIN d /\ fields \subseteq DOMAIN d
    BY DEF Blocks
  <2> QED BY <2>1, <2>2, FS_Subset
<1> HIDE DEF f
<1>7. Cardinality(Blocks(d)) =< Cardinality(fields)
  BY <1>5, <1>6, FS_Injection
<1>8. Cardinality(Blocks(d)) \in Nat /\ Cardinality(fields) \in Nat
  BY <1>6, FS_CardinalityType
<1>9. Words(d, DOMAIN d) >= MinWords * Cardinality(Blocks(d))
  BY WordsOfBodies DEF BlocksPass, BodyPasses
<1> HIDE DEF fields
<1>10. Cardinality(fields) >= Cardinality(Blocks(d))
  BY <1>7, <1>8
<1>11. \A b, c \in Blocks(d) : b < c => \E k \in fields : b < k /\ k < c
  BY <1>1, <1>2
<1>12. Cardinality(Blocks(d)) >= MinBlocks
  BY DEF BlocksPass
<1> QED BY <1>9, <1>10, <1>11, <1>12 DEF fields

\* Whatever the participant writes, a document passes only on evidence that is not counted
\* twice: as many fields as blocks, one between any two, and the words of every block its
\* own (workshop.py: _judge_blocks, _judge_body, _judge_field).
THEOREM EvidenceAlwaysDistinct ==
  EvidenceInit /\ [][EvidenceNext]_evidenceVars => []EvidenceIsDistinct
<1>1. EvidenceInit => DocumentInv
  BY DEF EvidenceInit, DocumentInv
<1>2. DocumentInv /\ [EvidenceNext]_evidenceVars => DocumentInv'
  BY DEF DocumentInv, EvidenceNext, WriteLine, evidenceVars
<1>3. DocumentInv => EvidenceIsDistinct
  BY PassingIsDistinct DEF DocumentInv, EvidenceIsDistinct, EvidencePasses
<1> QED BY <1>1, <1>2, <1>3, PTL

=============================================================================
