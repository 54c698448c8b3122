--------------------------- MODULE SqliteBackups ----------------------------
(***************************************************************************)
(* Retention of the console's database backups                             *)
(* (app/scripts/lib/sqlite-backups.mjs), as functions of the set of backup *)
(* files.  A file has the time it was written, its size, and its name:     *)
(* managed files are ghostroute-<date>.db, the others are the backups a    *)
(* full repair leaves (ghostroute.db.backup-<date>).                       *)
(***************************************************************************)
EXTENDS Integers, FiniteSets, FiniteSetsExt, SequencesExt

CONSTANTS BackupTicks,  \* GHOSTROUTE_BACKUP_RETENTION_DAYS
          MaxFiles,     \* GHOSTROUTE_DB_BACKUP_MAX_FILES
          MaxBytes,     \* GHOSTROUTE_DB_BACKUP_MAX_TOTAL_BYTES
          UtcTicks,     \* length of a UTC day
          UtcShift      \* Moscow midnight, in ticks after UTC midnight

ASSUME BackupAssumption ==
  /\ {BackupTicks, MaxFiles, MaxBytes, UtcTicks} \subseteq Nat \ {0}
  /\ UtcShift \in 0..UtcTicks-1

UtcDay(t) == (t + UtcShift) \div UtcTicks

\* Only a managed name counts as the day's backup.
BackedUpToday(files, now) ==
  \E f \in files : f.managed /\ UtcDay(f.at) = UtcDay(now)

\* The day's backup, unless there is one, the database is larger than all
\* backups may be, or the disk has no room.
Created(files, now, size, room) ==
  IF BackedUpToday(files, now) \/ size > MaxBytes \/ ~room
    THEN files
    ELSE files \cup {[at |-> now, size |-> size, managed |-> TRUE]}

Aged(files, now) == {f \in files : f.at >= now - BackupTicks}

\* Mutant: the oldest files are kept first.
OldestFirst(files) ==
  CHOOSE q \in SetToSeqs(files) : \A i, j \in DOMAIN q : i < j => q[i].at <= q[j].at

\* Of two files of one instant the managed one is listed first.
ListedFirst(a, b) == a.at > b.at \/ (a.at = b.at /\ (a.managed \/ ~b.managed))
NewestFirst(files) ==
  CHOOSE q \in SetToSeqs(files) :
    \A i, j \in DOMAIN q : i < j => ListedFirst(q[i], q[j])

TotalSize(files) == MapThenSumSet(LAMBDA f : f.size, files)

\* Mutant: a file is dropped only when there are too many already.
KeepOneMore(kept, f) ==
  IF /\ Cardinality(kept) <= MaxFiles
     /\ TotalSize(kept) + f.size <= MaxBytes
    THEN kept \cup {f} ELSE kept

\* A file that does not fit is deleted; a later, smaller one may still fit.
Keep(kept, f) ==
  IF /\ Cardinality(kept) + 1 <= MaxFiles
     /\ TotalSize(kept) + f.size <= MaxBytes
    THEN kept \cup {f} ELSE kept

Retained(files, now, size, room) ==
  FoldLeft(Keep, {}, NewestFirst(Aged(Created(files, now, size, room), now)))
=============================================================================
