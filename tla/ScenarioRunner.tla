--------------------------- MODULE ScenarioRunner ---------------------------
(***************************************************************************)
(* scripts/workshop.py: the lifecycle of a scenario in one checkout, as a  *)
(* sequence of durable file operations that may fail or be cut off.  start *)
(* moves the participant's work directory aside and stages the payloads,   *)
(* reset archives the attempt and puts the directory back, resume rebuilds *)
(* an archived attempt.  A tree maps every path of a work directory to its *)
(* contents; an action is one operation on the file system together with   *)
(* what the process computes before the next one.                          *)
(***************************************************************************)
EXTENDS Integers, Sequences, FiniteSetsExt

CONSTANTS Procs,       \* terminals that run the tool
          Scenarios,
          Stage,       \* manifest.stage: the paths of the payloads, in order
          Extra,       \* the paths a participant may add
          Editions,    \* editions of the scenarios' definitions and payloads
          FirstEdition,
          Unreadable,  \* editions whose catalogue or manifest does not parse
          Incomplete,  \* editions that lack a declared artifact or payload
          Contents,    \* what may stand at a path
          Homes,       \* work directories that may exist before a start
          Edits,       \* what a participant may make of an active one
          Linked,      \* contents that no inventory can describe
          Nested,      \* directories the participant made
          Hollow,      \* those of them that hold no file
          Spoilt,      \* a backup that somebody edited by hand
          None,
          NoDir,       \* no such directory
          MaxStarts,   \* bounds: starts and resumes,
          MaxArchives  \*         archives

Paths == Range(Stage) \cup Extra
Gone == "gone"   \* no such path

\* _parse_stage() refuses a target that is named twice.
StageParses == \A i, j \in DOMAIN Stage : Stage[i] = Stage[j] => i = j

\* A work directory
Trees == [Paths -> Contents]

\* ScenarioState: what is recorded of a scenario.  sealed stands for the hash of the
\* moved directory, staged for the hashes of the payloads.
StateRecords ==
  [scenario : Scenarios, phase : {"staging", "active"}, attempt : Nat, edition : Editions,
   existed : BOOLEAN, moved : BOOLEAN, sealed : Homes \cup {NoDir}, staged : BOOLEAN]

ASSUME RunnerAssumption ==
  /\ StageParses
  /\ Editions \cup {Gone} \subseteq Contents /\ Gone \notin Editions
  /\ Homes \cup Edits \cup {Spoilt} \subseteq Trees
  /\ Hollow \subseteq Nested
  /\ (Linked \cup Nested) \cap (Editions \cup {Gone}) = {}
  /\ NoDir \notin Trees /\ None \notin StateRecords
  /\ FirstEdition \in Editions /\ Unreadable \cup Incomplete \subseteq Editions
  /\ None \notin Procs /\ None \notin Scenarios
  /\ MaxStarts \in Nat /\ MaxArchives \in Nat

VARIABLES state,     \* state.json: what is recorded of the scenario, or None
          work,      \* the work directory of each scenario
          backup,    \* its pre-start-work directory
          archives,  \* the attempt archives, in the order of their making
          records,   \* attempts with verification records in their own directory
          edition,   \* the edition in the checkout
          holder,    \* the process that has locked lifecycle.lock
          task,      \* what each process is doing
          starts,    \* started_at: attempts are numbered
          home,      \* history: the participant's own directory,
          draft      \* history: and each attempt as it was last left

vars == <<state, work, backup, archives, records, edition, holder, task, starts,
          home, draft>>
files == <<work, backup, archives, records>>
history == <<edition, starts, home, draft>>

-----------------------------------------------------------------------------

\* A freshly staged tree: the payloads of an edition.
Staged(e) == [f \in Paths |-> IF f \in Range(Stage) THEN e ELSE Gone]

Empty == [f \in Paths |-> Gone]

\* What is left of a tree when its removal or its writing stops half-way.
Parts(t) == {[f \in Paths |-> IF f \in kept THEN t[f] ELSE Gone] : kept \in SUBSET Paths}

\* A path that holds what start put there needs no copy; before the state is
\* complete nothing is known to be unchanged (target_status).
Unchanged(m, t, f) == f \in Range(Stage) /\ m.staged /\ t[f] = m.edition

\* Some entries can only be kept by moving the whole directory.
NeedsWhole(t) == t # NoDir /\ \E f \in Paths : t[f] \in Linked \cup Nested

\* capture_work_tree() refuses links and what is no directory.
CanCapture(t) == t # NoDir /\ \A f \in Paths : t[f] \notin Linked

\* collect_attempt_files(): the files that are not as start left them.  Links and
\* directories are none, and a deleted file is not there to be collected.
Changed(m, t) ==
  IF t = NoDir THEN {}
  ELSE {f \in Paths : t[f] \notin Linked \cup Hollow \cup {Gone} /\ ~Unchanged(m, t, f)}

\* No file distinguishes the work directory from a fresh one.
Untouched(m, t) ==
  /\ t # NoDir
  /\ Changed(m, t) = {}
  /\ \A f \in Range(Stage) : Unchanged(m, t, f)

\* archive_attempt() makes an archive, verification records or not.
WorthKeeping(m, t) == ~Untouched(m, t) \/ NeedsWhole(t)

\* cmd_diff(): what differs from the pristine payloads, directories included
Differing(t) == {f \in Paths : t[f] # Staged(edition)[f]}

\* cmd_status(): staged targets that were changed, that are missing or something else
\* by now, and the files the participant added
StatusCounts(m, t) ==
  [modified |-> {f \in Range(Stage) : t[f] \notin Linked \cup Nested \cup {Gone, m.edition}},
   missing |-> {f \in Range(Stage) : t[f] \in Linked \cup Nested \cup {Gone}},
   added |-> Changed(m, t) \ Range(Stage)]

\* attempt.json stands, the attempt was active and its tree described, the
\* checkout still has its edition, and every file is there.
Resumable(a, s) ==
  /\ a.described /\ ~a.blocked
  /\ a.scenario = s
  /\ a.edition = edition

\* For mutation: deleted payloads come back.
RecoveredAll(a) ==
  [f \in Paths |-> IF a.saved[f] # Gone THEN a.saved[f] ELSE Staged(edition)[f]]

\* The tree an archive gives back: its own copies, else the pristine payload.
Recovered(a) ==
  [f \in Paths |-> IF a.inventory[f] = Gone THEN Gone
                   ELSE IF a.saved[f] # Gone THEN a.saved[f] ELSE Staged(edition)[f]]
-----------------------------------------------------------------------------

Idle == [pc |-> "idle", cmd |-> "none", scenario |-> None, mem |-> None, archive |-> 0]

Init ==
  /\ state = None
  /\ home \in [Scenarios -> Homes \cup {NoDir}]
  /\ work = home
  /\ backup = [s \in Scenarios |-> NoDir]
  /\ archives = <<>>
  /\ records = {}
  /\ edition = FirstEdition
  /\ holder = None
  /\ task = [p \in Procs |-> Idle]
  /\ starts = 0
  /\ draft = [n \in 1..MaxStarts |-> NoDir]

\* For mutation: the lock does not keep another process out.
LockIsShared(p) == TRUE

\* flock(LOCK_EX | LOCK_NB) succeeds.
LockIsFree(p) == holder = None

At(p, pc) == task[p].pc = pc

\* Process p goes on at pc; the locals in mem are what it now holds.
Goto(p, pc, mem) ==
  /\ task' = [task EXCEPT ![p].pc = pc, ![p].mem = mem]
  /\ UNCHANGED holder

\* The command ends, in one way or another; the context manager unlocks.
Leave(p) ==
  /\ task' = [task EXCEPT ![p] = Idle]
  /\ holder' = None

\* main(): a locked command is entered; a competing one is turned away.
Enter(p, cmd, s, n) ==
  /\ At(p, "idle")
  /\ LockIsFree(p)
  /\ holder' = p
  /\ task' = [task EXCEPT ![p] = [Idle EXCEPT !.pc = "opened", !.cmd = cmd,
                                              !.scenario = s, !.archive = n]]
  /\ UNCHANGED <<state, files, history>>

\* The process is killed: the operating system releases the lock.
Crash(p) ==
  /\ ~At(p, "idle")
  /\ task' = [task EXCEPT ![p] = Idle]
  /\ holder' = IF holder = p THEN None ELSE holder
  /\ UNCHANGED <<state, files, history>>

\* load_state() finds no state file.
NothingActive == state = None

\* ScenarioState.from_json() accepts the record: a moved directory existed,
\* and an active state that had one has moved and hashed it.
Loads(m) ==
  /\ m.moved => m.existed
  /\ m.sealed # NoDir => m.existed
  /\ m.phase = "active" /\ m.existed => m.moved /\ m.sealed # NoDir

\* parse_manifest() finds nothing to object to in any manifest.
ManifestsParse(e) == e \notin Unreadable

\* load_catalogue()
CatalogueLoads == ManifestsParse(edition)

\* validate_scenario_artifacts(): what the manifest names is there.
ArtifactsThere == edition \notin Incomplete

\* The catalogue and the manifest are the ones bound into the record.
DefinitionUnchanged(m) == m.edition = edition

\* inspect_work_directory_for_start(): an earlier backup is never overwritten.
NoEarlierBackup(s) == backup[s] = NoDir

\* What start records before it touches anything.
Plan(s, n) ==
  [scenario |-> s, phase |-> "staging", attempt |-> n, edition |-> edition,
   existed |-> work[s] # NoDir, moved |-> FALSE, sealed |-> NoDir, staged |-> FALSE]

\* cmd_resume() up to its start: the archive must be one that can come back.
MayResume(p) == Resumable(archives[task[p].archive], task[p].scenario)

\* cmd_start(): every check comes first.
MayStart(p) ==
  LET s == task[p].scenario IN
    /\ CatalogueLoads
    /\ NothingActive
    /\ ArtifactsThere
    /\ NoEarlierBackup(s)
    /\ task[p].cmd = "resume" => MayResume(p)

\* cmd_verify(): the scenario is fully staged, its definition is the one that
\* was started, and its tree can be described.
MayVerify(p) ==
  /\ CatalogueLoads
  /\ state # None /\ Loads(state)
  /\ state.scenario = task[p].scenario
  /\ state.phase = "active"
  /\ DefinitionUnchanged(state)
  /\ CanCapture(work[state.scenario])

\* cmd_reset() reads the state first, and neither catalogue nor manifest.
MayReset(p) ==
  state # None /\ Loads(state) /\ state.scenario = task[p].scenario

Inspect(p) ==
  /\ At(p, "opened") /\ task[p].cmd \in {"start", "resume"}
  /\ MayStart(p)
  /\ starts < MaxStarts
  /\ Goto(p, "record", Plan(task[p].scenario, starts + 1))
  /\ starts' = starts + 1
  /\ UNCHANGED <<state, files, edition, home, draft>>

\* The modules a scenario imports may not be installed: only reset does not ask.
MissesImports(p) == task[p].cmd # "reset"

\* A check fails: nothing has been touched.
Refuse(p) ==
  /\ At(p, "opened")
  /\ \/ MissesImports(p)
     \/ ~ CASE task[p].cmd \in {"start", "resume"} -> MayStart(p)
            [] task[p].cmd = "verify" -> MayVerify(p)
            [] OTHER -> MayReset(p)
  /\ Leave(p)
  /\ UNCHANGED <<state, files, history>>
-----------------------------------------------------------------------------
(* start.  Whatever fails between the two saves is rolled back. *)

\* For mutation: the record is left for the end of the staging.
RecordLater(p) ==
  /\ At(p, "record")
  /\ UNCHANGED state
  /\ Goto(p, "preserve", task[p].mem)
  /\ UNCHANGED <<files, history>>

\* save_state(): the recovery record is durable before anything is touched.
\* When it cannot be written the command ends with nothing done.
Record(p) ==
  /\ At(p, "record")
  /\ \/ state' = task[p].mem /\ Goto(p, "preserve", task[p].mem)
     \/ UNCHANGED state /\ Leave(p)
  /\ UNCHANGED <<files, history>>

\* preserve_pre_start_work_directory(): the directory is renamed away.
Preserve(p) ==
  LET m == task[p].mem IN
    /\ At(p, "preserve")
    /\ \/ /\ ~m.existed
          /\ Goto(p, "stage", m)
          /\ UNCHANGED <<work, backup>>
       \/ /\ m.existed
          /\ work' = [work EXCEPT ![m.scenario] = NoDir]
          /\ backup' = [backup EXCEPT ![m.scenario] = work[m.scenario]]
          /\ Goto(p, "seal", m)
       \/ m.existed /\ Goto(p, "restore", m) /\ UNCHANGED <<work, backup>>
    /\ UNCHANGED <<state, archives, records, history>>

\* For mutation: the move is not recorded as one.
SealUnmoved(p) ==
  LET m == task[p].mem
      sealed == [m EXCEPT !.sealed = backup[m.scenario]]
  IN /\ At(p, "seal")
     /\ state' = sealed /\ Goto(p, "stage", sealed)
     /\ UNCHANGED <<files, history>>

\* Its hash and the move are recorded; hashing and saving may both fail.
Seal(p) ==
  LET m == task[p].mem
      sealed == [m EXCEPT !.moved = TRUE, !.sealed = backup[m.scenario]]
  IN /\ At(p, "seal")
     /\ \/ state' = sealed /\ Goto(p, "stage", sealed)
        \/ UNCHANGED state /\ Goto(p, "restore", sealed)
        \/ UNCHANGED state /\ Goto(p, "restore", m)
     /\ UNCHANGED <<files, history>>

Directory(s) == IF work[s] = NoDir THEN Empty ELSE work[s]

\* apply_payloads(): each payload is written atomically, in their order.
StagePayload(p) ==
  LET m == task[p].mem
      s == m.scenario
      left == {i \in DOMAIN Stage : Directory(s)[Stage[i]] # m.edition}
  IN /\ At(p, "stage")
     /\ \/ /\ left # {}
           /\ work' = [work EXCEPT ![s] = [Directory(s) EXCEPT ![Stage[Min(left)]] = m.edition]]
           /\ UNCHANGED <<task, holder>>
        \/ left = {} /\ Goto(p, "activate", [m EXCEPT !.staged = TRUE]) /\ UNCHANGED work
        \/ left # {} /\ Goto(p, "restore", m) /\ UNCHANGED work
     /\ UNCHANGED <<state, backup, archives, records, history>>

\* The scenario becomes active, unless a resume goes on from here.
Activate(p) ==
  LET resumes == task[p].cmd = "resume"
      m == IF resumes THEN task[p].mem ELSE [task[p].mem EXCEPT !.phase = "active"]
  IN /\ At(p, "activate")
     /\ \/ /\ state' = m
           /\ IF resumes THEN Goto(p, "clear", m) ELSE Leave(p)
           /\ draft' = IF resumes THEN draft
                       ELSE [draft EXCEPT ![m.attempt] = work[m.scenario]]
        \/ UNCHANGED <<state, draft>> /\ Goto(p, "restore", m)
     /\ UNCHANGED <<files, edition, starts, home>>

-----------------------------------------------------------------------------
(* resume.  The archive was checked before the start. *)

\* cmd_resume(): the staged directory makes room for the archived tree.
Clear(p) ==
  LET m == task[p].mem IN
    /\ At(p, "clear")
    /\ \/ work' = [work EXCEPT ![m.scenario] = NoDir] /\ Goto(p, "rebuild", m)
       \/ \E t \in Parts(Directory(m.scenario)) :
            work' = [work EXCEPT ![m.scenario] = t] /\ Goto(p, "restore", m)
    /\ UNCHANGED <<state, backup, archives, records, history>>

\* The inventory is written entry by entry; the result is compared with it.
Rebuild(p) ==
  LET m == task[p].mem
      tree == Recovered(archives[task[p].archive])
  IN /\ At(p, "rebuild")
     /\ \/ work' = [work EXCEPT ![m.scenario] = tree] /\ Goto(p, "publish", m)
        \/ \E t \in Parts(tree) :
             work' = [work EXCEPT ![m.scenario] = t] /\ Goto(p, "restore", m)
     /\ UNCHANGED <<state, backup, archives, records, history>>

\* Only a complete tree becomes an active scenario.
Publish(p) ==
  LET m == [task[p].mem EXCEPT !.phase = "active"] IN
    /\ At(p, "publish")
    /\ \/ /\ state' = m
          /\ draft' = [draft EXCEPT ![m.attempt] = work[m.scenario]]
          /\ Leave(p)
       \/ UNCHANGED <<state, draft>> /\ Goto(p, "restore", m)
    /\ UNCHANGED <<files, edition, starts, home>>

-----------------------------------------------------------------------------
(* verify --record. *)

\* save_verification_record(): one atomic file, which may fail to be written.
SaveRecord == records' \in {records, records \cup {state.attempt}}

\* cmd_verify(), without --record it saves nothing
Verify(p) ==
  /\ At(p, "opened") /\ task[p].cmd = "verify"
  /\ MayVerify(p)
  /\ SaveRecord
  /\ Leave(p)
  /\ UNCHANGED <<state, work, backup, archives, history>>

-----------------------------------------------------------------------------
(* reset: archive, restore, forget. *)

\* archive_attempt() has nothing to do while start had moved nothing yet.
NothingMovedYet(m) ==
  m.phase = "staging" /\ m.existed /\ ~m.moved /\ backup[m.scenario] = NoDir

\* records_for_archive()
HasRecord(m) == m.attempt \in records

\* cmd_reset(), archive_attempt(): is there anything to keep?
Examine(p) ==
  /\ At(p, "opened") /\ task[p].cmd = "reset"
  /\ MayReset(p)
  /\ LET t == work[state.scenario]
         worthKeeping == /\ ~NothingMovedYet(state)
                         /\ WorthKeeping(state, t) \/ HasRecord(state)
     IN Goto(p, IF worthKeeping THEN "archive" ELSE "restore", state)
  /\ UNCHANGED <<state, files, history>>

\* The bound on archives; _new_archive_dir() has one of its own, 99 a second.
CanArchive == Len(archives) < MaxArchives

\* For mutation: what the participant added is left behind.
CopiedTargets(t, kept) ==
  [f \in Paths |-> IF f \in kept \cap Range(Stage) THEN t[f] ELSE Gone]

\* The files of a tree that an archive holds
Copied(t, kept) == [f \in Paths |-> IF f \in kept THEN t[f] ELSE Gone]

\* attempt_metadata() and the files in the archive with it; was is history, the
\* directory as it stood.
Archive(m, t, kept) ==
  [scenario |-> m.scenario, attempt |-> m.attempt, edition |-> m.edition, was |-> t,
   saved |-> Copied(t, kept),
   inventory |-> IF CanCapture(t) THEN t ELSE Empty,
   blocked |-> ~CanCapture(t) \/ m.phase # "active",
   described |-> FALSE, verification |-> FALSE]

\* archive_attempt(): the changed files are copied.  Nothing is restored unless
\* this succeeds.
Collect(p) ==
  LET m == task[p].mem
      t == work[m.scenario]
  IN /\ At(p, "archive") /\ ~NeedsWhole(t)
     /\ \/ /\ CanArchive
           /\ archives' = Append(archives, Archive(m, t, Changed(m, t)))
           /\ Goto(p, "records", m)
        \/ UNCHANGED archives /\ Leave(p)
     /\ UNCHANGED <<state, work, backup, records, history>>

\* _relocate_work_tree(): the directory itself becomes the archive.
Relocate(p) ==
  LET m == task[p].mem
      t == work[m.scenario]
  IN /\ At(p, "archive") /\ NeedsWhole(t)
     /\ \/ /\ CanArchive
           /\ archives' = Append(archives, Archive(m, t, {f \in Paths : t[f] # Gone}))
           /\ work' = [work EXCEPT ![m.scenario] = NoDir]
           /\ Goto(p, "records", m)
        \/ UNCHANGED <<archives, work>> /\ Leave(p)
     /\ UNCHANGED <<state, backup, records, history>>

\* finish_attempt_archive(): the records move along, or stay with a warning.
MoveRecords(p) ==
  LET m == task[p].mem
      n == Len(archives)
  IN /\ At(p, "records")
     /\ \/ /\ HasRecord(m)
           /\ records' = records \ {m.attempt}
           /\ archives' = [archives EXCEPT ![n].verification = TRUE]
        \/ UNCHANGED <<records, archives>>
     /\ Goto(p, "describe", m)
     /\ UNCHANGED <<state, work, backup, history>>

\* attempt.json makes the archive resumable; reset goes on without it.
Describe(p) ==
  /\ At(p, "describe")
  /\ \/ archives' = [archives EXCEPT ![Len(archives)].described = TRUE]
     \/ UNCHANGED archives
  /\ Goto(p, "restore", task[p].mem)
  /\ UNCHANGED <<state, work, backup, records, history>>

\* A backup is only put back when it is what start sealed.
SealHolds(m) == m.sealed \in {NoDir, backup[m.scenario]}

\* restore_work_directory(), for reset and for the rollback of start and
\* resume: it goes by what the process holds.  _remove_work_entry() may stop
\* half-way.
Restore(p) ==
  LET m == task[p].mem
      s == m.scenario
      Remove(next) ==
        \/ work' = [work EXCEPT ![s] = NoDir] /\ Goto(p, next, m)
        \/ /\ work[s] # NoDir
           /\ \E t \in Parts(work[s]) : work' = [work EXCEPT ![s] = t]
           /\ Leave(p)
  IN /\ At(p, "restore")
     /\ \/ m.existed /\ backup[s] # NoDir /\ SealHolds(m) /\ Remove("return")
        \/ m.existed /\ backup[s] # NoDir /\ ~SealHolds(m) /\ Leave(p) /\ UNCHANGED work
        \/ /\ m.existed /\ backup[s] = NoDir
           /\ IF m.phase = "staging" /\ ~m.moved /\ work[s] # NoDir
              THEN Goto(p, "discard", m)
              ELSE Leave(p)
           /\ UNCHANGED work
        \/ ~m.existed /\ Remove("discard")
     /\ UNCHANGED <<state, backup, archives, records, history>>

\* The backup is renamed to the work directory.
Return(p) ==
  LET m == task[p].mem
      s == m.scenario
  IN /\ At(p, "return")
     /\ \/ /\ work' = [work EXCEPT ![s] = backup[s]]
           /\ backup' = [backup EXCEPT ![s] = NoDir]
           /\ Goto(p, "discard", m)
        \/ UNCHANGED <<work, backup>> /\ Leave(p)
     /\ UNCHANGED <<state, archives, records, history>>

\* _discard_backups(): whatever else lies in the backup directory goes.
Discard(p) ==
  LET m == task[p].mem IN
    /\ At(p, "discard")
    /\ \/ backup' = [backup EXCEPT ![m.scenario] = NoDir] /\ Goto(p, "forget", m)
       \/ UNCHANGED backup /\ Leave(p)
    /\ UNCHANGED <<state, work, archives, records, history>>

\* clear_state(): the state goes last.
Forget(p) ==
  /\ At(p, "forget")
  /\ state' \in {None, state}
  /\ Leave(p)
  /\ UNCHANGED <<files, history>>

-----------------------------------------------------------------------------
(* What happens between commands. *)

Quiet == holder = None /\ \A p \in Procs : At(p, "idle")

\* The participant works on the active scenario.  Nobody edits while a command
\* runs, nor after a reset that put the own directory back and then stopped.
Edit ==
  /\ Quiet
  /\ state # None
  /\ state.phase = "active"
  /\ state.existed => backup[state.scenario] # NoDir
  /\ \E t \in Edits :
       /\ work' = [work EXCEPT ![state.scenario] = t]
       /\ draft' = [draft EXCEPT ![state.attempt] = t]
  /\ UNCHANGED <<state, backup, archives, records, edition, holder, task, starts, home>>

\* The checkout moves to another edition of the scenarios; the bound is one move.
Update ==
  /\ Quiet
  /\ edition = FirstEdition
  /\ edition' \in Editions \ {FirstEdition}
  /\ UNCHANGED <<state, files, holder, task, starts, home, draft>>

\* Somebody edits a sealed backup by hand.
Spoil ==
  /\ Quiet
  /\ state # None
  /\ state.sealed # NoDir /\ backup[state.scenario] = state.sealed
  /\ backup' = [backup EXCEPT ![state.scenario] = Spoilt]
  /\ UNCHANGED <<state, work, archives, records, holder, task, history>>

Step(p) ==
  \/ Inspect(p) \/ Refuse(p)
  \/ Record(p) \/ Preserve(p) \/ Seal(p) \/ StagePayload(p) \/ Activate(p)
  \/ Clear(p) \/ Rebuild(p) \/ Publish(p)
  \/ Verify(p)
  \/ Examine(p) \/ Collect(p) \/ Relocate(p) \/ MoveRecords(p) \/ Describe(p)
  \/ Restore(p) \/ Return(p) \/ Discard(p) \/ Forget(p)

Next ==
  \/ \E p \in Procs, s \in Scenarios :
       \/ \E cmd \in {"start", "verify", "reset"} : Enter(p, cmd, s, 0)
       \/ \E n \in DOMAIN archives : Enter(p, "resume", s, n)
  \/ \E p \in Procs : Step(p) \/ Crash(p)
  \/ Edit \/ Update \/ Spoil

Spec == Init /\ [][Next]_vars

-----------------------------------------------------------------------------
\* When nothing is recorded, every work directory is what the participant had
\* there and no backup is left: the record is durable before the first file is
\* touched (workshop.py:2602) and goes when the last is back, whatever failed
\* or was killed in between.  A sealed backup may have been edited by hand: then
\* nothing is put back, and the record stays.
RestoredExactly ==
  state = None => \A s \in Scenarios : work[s] = home[s] /\ backup[s] = NoDir

\* The participant's own directory is always somewhere: in place, in the
\* backup, or moved whole into an archive; unless somebody edited the backup.
HomeKept ==
  \A s \in Scenarios :
    \/ home[s] \in {NoDir, work[s], backup[s]}
    \/ backup[s] = Spoilt
    \/ \E n \in DOMAIN archives : archives[n].scenario = s /\ archives[n].saved = home[s]

\* An archive has of a tree whatever is not a payload of its edition.
Holds(a, t) ==
  \A f \in Paths :
    t[f] # Gone => a.saved[f] = t[f] \/ (f \in Range(Stage) /\ t[f] = a.edition)

\* diff, status and reset read the directory each in its own way.  diff sees just
\* when reset would archive something, and status what diff sees, except for the
\* empty directories, which it does not list.
ReportsAgree(m, t) ==
  LET counts == StatusCounts(m, t)
      listed == {f \in Differing(t) : f \in Range(Stage) \/ t[f] \notin Hollow}
  IN /\ Differing(t) # {} <=> WorthKeeping(m, t)
     /\ UNION {counts[k] : k \in DOMAIN counts} = listed

\* What the participant made of an attempt is never lost: it is in the work
\* directory, or the files in an archive of the attempt are all of it that start
\* did not put there; and what diff reports is what reset would archive.
AttemptKept ==
  /\ state # None /\ state.phase = "active" /\ CatalogueLoads /\ DefinitionUnchanged(state)
     /\ CanCapture(work[state.scenario])
       => ReportsAgree(state, work[state.scenario])
  /\ \A n \in 1..MaxStarts : draft[n] # NoDir =>
      \/ state # None /\ state.attempt = n /\ work[state.scenario] = draft[n]
      \/ \E i \in DOMAIN archives : archives[i].attempt = n /\ Holds(archives[i], draft[n])
      \/ \E e \in Editions : draft[n] = Staged(e)

\* Resuming an archive brings back exactly the tree that was archived, the
\* files that were not copied included, and deleted files stay deleted.
ResumeIsExact ==
  [][\A p \in Procs :
       At(p, "publish") /\ state' # state =>
         work'[state'.scenario] = archives[task[p].archive].was]_vars

\* What the tool recorded, it reads again, whatever failed in between: no
\* command ever refuses the record of an earlier one as invalid.
RecordLoads == state # None => Loads(state)

\* After any interruption the recorded scenario can be reset: its backup is
\* there, or it had none, or nothing was moved yet.
ResetRecovers ==
  Quiet /\ state # None /\ state.existed /\ backup[state.scenario] = NoDir =>
    state.phase = "staging" /\ ~state.moved /\ work[state.scenario] # NoDir
=============================================================================
