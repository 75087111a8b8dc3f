---------------------------- MODULE LegacyReset -----------------------------
(***************************************************************************)
(* reset of a checkout whose state.json still has schema version 1         *)
(* (scripts/workshop.py): that start wrote into the work directory itself, *)
(* after a copy of every target that existed.  reset restores the targets  *)
(* one by one; it may fail or be cut off at each, and is then run again.   *)
(***************************************************************************)
EXTENDS Integers, Sequences, FiniteSets

CONSTANTS Targets   \* the recorded targets, in their order

\* Where a reset may stand beside a target
StepsOfReset == {"idle", "archive", "directories", "backups", "state"}

\* The targets are the paths of different files.
ASSUME TargetsAssumption ==
  /\ Targets \in Seq(STRING)
  /\ \A i, j \in DOMAIN Targets : Targets[i] = Targets[j] => i = j
  /\ \A i \in DOMAIN Targets : Targets[i] \notin StepsOfReset

VARIABLES recorded,   \* state.json is there
          before,     \* existed_before: the targets that start found
          dirMade,    \* created_dirs: start made the work directory
          contents,   \* what stands at each target
          copies,     \* the backup of each target
          saved,      \* what the attempt archives have of each target
          resetAt     \* where a running reset stands: idle, a target, a step

legacyVars == <<recorded, before, dirMade, contents, copies, saved, resetAt>>

TargetSet == {Targets[i] : i \in DOMAIN Targets}

\* TargetRecord.from_json(): whoever existed has a backup location, the others none.
\* A version 1 start copied a target before it wrote over it.
LegacyInit ==
  /\ recorded = TRUE
  /\ before \in SUBSET TargetSet
  /\ dirMade \in BOOLEAN /\ (dirMade => before = {})
  /\ copies \in [TargetSet -> {"none", "own"}]
  /\ contents \in [TargetSet -> {"none", "own", "staged"}]
  /\ \A t \in TargetSet :
       IF t \notin before THEN copies[t] = "none" /\ contents[t] # "own"
       ELSE IF copies[t] = "none" THEN contents[t] = "own" ELSE contents[t] # "none"
  /\ saved = {}
  /\ resetAt = "idle"

\* The command stops here; what it changed stays.
Stop == resetAt' = "idle"

BeginReset ==
  /\ resetAt = "idle" /\ recorded
  /\ resetAt' = "archive"
  /\ UNCHANGED <<recorded, before, dirMade, contents, copies, saved>>

Saving(ts) == saved' = saved \cup {<<t, contents[t]>> : t \in ts}

\* The target with number i, or the created directories after the last
Place(i) == IF i > Len(Targets) THEN "directories" ELSE Targets[i]

\* archive_attempt(): changed files are copied, unless something in the directory, a
\* link among the targets for one, calls for moving all of it.
Archived ==
  \/ /\ \A t \in TargetSet : contents[t] # "link"
     /\ Saving({t \in TargetSet : contents[t] = "edited"})
     /\ UNCHANGED contents
  \/ /\ Saving({t \in TargetSet : contents[t] # "none"})
     /\ contents' = [t \in TargetSet |-> "none"]

ArchiveLegacy ==
  /\ resetAt = "archive"
  /\ \/ Archived /\ resetAt' = Place(1)
     \/ Stop /\ UNCHANGED <<saved, contents>>
  /\ UNCHANGED <<recorded, before, dirMade, copies>>

\* For mutation: a backup is put back whatever it has become.
HasBackupUnchecked(t) == copies[t] # "none"

\* The backup is there and has the recorded hash.
HasBackup(t) == copies[t] = "own"

\* _restore_existing(): from the backup, or nothing was written over the target
\* yet; a backup that was edited is refused.
RestoreExisting(t) ==
  \/ HasBackup(t) /\ contents' = [contents EXCEPT ![t] = copies[t]]
  \/ copies[t] = "none" /\ contents[t] = "own" /\ UNCHANGED contents

Following(t) == Place((CHOOSE k \in DOMAIN Targets : Targets[k] = t) + 1)

RestoreTarget ==
  /\ resetAt \in TargetSet
  /\ \/ /\ contents[resetAt] # "link"
        /\ IF resetAt \in before THEN RestoreExisting(resetAt)
           ELSE contents' = [contents EXCEPT ![resetAt] = "none"]
        /\ resetAt' = Following(resetAt)
     \/ Stop /\ UNCHANGED contents
  /\ UNCHANGED <<recorded, before, dirMade, copies, saved>>

\* Exactly the directories start made are removed, with all that is in them.
RemoveCreatedDirs ==
  /\ resetAt = "directories"
  /\ \/ /\ contents' = IF dirMade THEN [t \in TargetSet |-> "none"] ELSE contents
        /\ resetAt' = "backups"
     \/ Stop /\ UNCHANGED contents
  /\ UNCHANGED <<recorded, before, dirMade, copies, saved>>

\* The backups go, all of them, or some before the removal fails.
DropBackups ==
  /\ resetAt = "backups"
  /\ \/ copies' = [t \in TargetSet |-> "none"] /\ resetAt' = "state"
     \/ /\ \E gone \in SUBSET TargetSet :
             copies' = [t \in TargetSet |-> IF t \in gone THEN "none" ELSE copies[t]]
        /\ Stop
  /\ UNCHANGED <<recorded, before, dirMade, contents, saved>>

ClearLegacy ==
  /\ resetAt = "state"
  /\ recorded' \in BOOLEAN
  /\ Stop
  /\ UNCHANGED <<before, dirMade, contents, copies, saved>>

KillReset ==
  /\ resetAt # "idle"
  /\ Stop
  /\ UNCHANGED <<recorded, before, dirMade, contents, copies, saved>>

\* The participant changes, links or deletes a target that start wrote, or edits a
\* backup.  Who has no backup is not touched: its own contents would be new ones.
Rework(t) ==
  /\ resetAt = "idle" /\ recorded
  /\ \/ /\ t \in before => copies[t] # "none"
        /\ contents' = [contents EXCEPT ![t] = "none"]
        /\ UNCHANGED copies
     \/ /\ t \in before => copies[t] # "none"
        /\ \E c \in {"edited", "link"} : contents' = [contents EXCEPT ![t] = c]
        /\ UNCHANGED copies
     \/ /\ copies[t] = "own"
        /\ copies' = [copies EXCEPT ![t] = "spoilt"]
        /\ UNCHANGED contents
  /\ UNCHANGED <<recorded, before, dirMade, saved, resetAt>>

LegacyNext ==
  \/ BeginReset \/ ArchiveLegacy \/ RestoreTarget \/ RemoveCreatedDirs
  \/ DropBackups \/ ClearLegacy \/ KillReset
  \/ \E t \in TargetSet : Rework(t)

-----------------------------------------------------------------------------
\* Properties

\* However often a reset of an old checkout fails, is killed and repeated: once the
\* state is gone every target is what it was before the start and no backup is left;
\* until then the participant's own contents are in place, in their backup or in an
\* archive; and nothing written since is overwritten that no archive has.
LegacyRestored ==
  /\ ~recorded => \A t \in TargetSet :
       /\ contents[t] = IF t \in before THEN "own" ELSE "none"
       /\ copies[t] = "none"
  /\ \A t \in before : \/ contents[t] = "own" \/ copies[t] # "none"
                       \/ <<t, "own">> \in saved
  /\ resetAt \notin {"idle", "archive"} =>
       \A t \in TargetSet :
         contents[t] \in {"edited", "link"} => <<t, contents[t]>> \in saved

=============================================================================
