----------------------------- MODULE ProjectLock -----------------------------
(***************************************************************************)
(* ProjectLockManager.ts, process.ts and StorageMigrationEngine.ts: the    *)
(* file server processes that open one project file.  Each is forked by    *)
(* WindowManager.openFile, migrates a legacy archive, takes the lock file, *)
(* opens the database, serves saves, and is closed, killed or crashes at   *)
(* any point.  A process identifier may be used again once its process is  *)
(* gone.                                                                   *)
(*                                                                         *)
(* Every await in the code that reads or changes the lock file or the      *)
(* project file ends a step here.  A process on another host shows only by *)
(* the lock file it left before.  Bound: MaxEdits saves.                   *)
(***************************************************************************)
EXTENDS Naturals

CONSTANTS Procs,       (* process identifiers on this host                  *)
          MaxEdits,
          NoLock,      (* there is no lock file                             *)
          Garbled,     (* the lock file does not parse                      *)
          None         (* nothing read, no backup, no process of this host  *)

(* A lock file of another host names an identifier, which may also be that *)
(* of a process here.                                                      *)
Foreign(p) == [remote |-> p]
Remotes    == {Foreign(p) : p \in Procs \cup {None}}
Unreadable == {NoLock, Garbled}
Locks      == Procs \cup Remotes \cup Unreadable

ASSUME LockAssumption ==
  /\ MaxEdits \in Nat
  /\ Procs \cap (Remotes \cup Unreadable \cup {None}) = {}
  /\ Remotes \cap (Unreadable \cup {None}) = {}
  /\ NoLock # Garbled /\ None \notin Unreadable

Formats  == {"absent", "legacy", "v4"}
Contents == [format : Formats, edits : 0 .. MaxEdits]

ASSUME NoBackupAssumption == None \notin Contents

VARIABLES
  pc,          (* what each process is about to do                          *)
  seen,        (* the lock a process read and has not judged yet            *)
  backup,      (* the safety backup of a migrating process                  *)
  staging,     (* whether <path>.tmp exists                                 *)
  lock,        (* the lock file                                             *)
  file,        (* the project file: its format and the saves it holds       *)
  live,        (* processes whose open database is the file at the path     *)
  acked,       (* history: saves reported as done                           *)
  overlapped   (* history: two openings, or an opening and a repeated       *)
               (*   release, were under way at once                         *)

vars == <<pc, seen, backup, staging, lock, file, live, acked, overlapped>>

Migrating == {"backup", "extract", "stage", "cutover"}
Acquiring == {"read", "judge", "unlink", "publish"}
Releasing == {"release", "remove"}
Again     == {"releaseAgain", "removeAgain"}
Steps     == {"none", "spawned", "open", "serving", "closed", "failed"}
             \cup Migrating \cup Acquiring \cup Releasing \cup Again

Critical(p)  == pc[p] \in Migrating \cup Acquiring \cup Again \cup {"open"}
MarkOverlap(p) == overlapped' = (overlapped \/ \E q \in Procs \ {p} : Critical(q))

Goto(p, step) == pc' = [pc EXCEPT ![p] = step]
Empty         == [format |-> "v4", edits |-> 0]

Init ==
  /\ pc         = [p \in Procs |-> "none"]
  /\ seen       = [p \in Procs |-> None]
  /\ backup     = [p \in Procs |-> None]
  /\ staging    = FALSE
  /\ lock       \in Locks
  /\ file       \in [format : Formats, edits : {0}]
  /\ live       = {}
  /\ acked      = 0
  /\ overlapped = FALSE

-----------------------------------------------------------------------------
(* Starting: the window manager forks a process and sends it `start'.      *)
Spawn(p) ==
  /\ pc[p] = "none"
  /\ Goto(p, "spawned")
  /\ UNCHANGED <<seen, backup, staging, lock, file, live, acked, overlapped>>

(* Mutant of Detect: any existing file is migrated.                        *)
DetectAnyFile(p) ==
  /\ pc[p] = "spawned"
  /\ Goto(p, IF file.format # "absent" THEN "backup" ELSE "read")
  /\ MarkOverlap(p)
  /\ UNCHANGED <<seen, backup, staging, lock, file, live, acked>>

Detect(p) ==
  /\ pc[p] = "spawned"
  /\ Goto(p, IF file.format = "legacy" THEN "backup" ELSE "read")
  /\ MarkOverlap(p)
  /\ UNCHANGED <<seen, backup, staging, lock, file, live, acked>>

(* The migration.  Replacing the file at the path leaves every open        *)
(* database on a file nobody will find again.                              *)
Replace(content) == file' = content /\ live' = {}

(* catch of executeMigration: it takes away <path>.tmp, whoever made it,   *)
(* and copies the backup over anything that is not a legacy archive.  The  *)
(* copy is made in place: a database that is open there stays the file at  *)
(* the path, with the content of the backup.                               *)
RollBack(p) ==
  /\ staging' = FALSE
  /\ backup'  = [backup EXCEPT ![p] = None]
  /\ Goto(p, "failed")
  /\ IF backup[p] # None /\ file.format # "legacy"
     THEN file' = backup[p]
     ELSE UNCHANGED file
  /\ UNCHANGED <<seen, lock, live, acked, overlapped>>

MigrationFails(p) == pc[p] \in Migrating /\ RollBack(p)

Backup(p) ==
  /\ pc[p] = "backup"
  /\ backup' = [backup EXCEPT ![p] = file]
  /\ Goto(p, "extract")
  /\ UNCHANGED <<seen, staging, lock, file, live, acked, overlapped>>

Extract(p) ==
  /\ pc[p] = "extract"
  /\ file.format = "legacy"
  /\ Goto(p, "stage")
  /\ UNCHANGED <<seen, backup, staging, lock, file, live, acked, overlapped>>

Stage(p) ==
  /\ pc[p] = "stage"
  /\ staging' = TRUE
  /\ Goto(p, "cutover")
  /\ UNCHANGED <<seen, backup, lock, file, live, acked, overlapped>>

Cutover(p) ==
  /\ pc[p] = "cutover"
  /\ staging
  /\ staging' = FALSE
  /\ backup'  = [backup EXCEPT ![p] = None]
  /\ Replace(Empty)
  /\ Goto(p, "read")
  /\ UNCHANGED <<seen, lock, acked, overlapped>>

-----------------------------------------------------------------------------
(* ProjectLockManager.acquire, from SqliteStorageEngine.initialize.        *)
ReadLock(p) ==
  /\ pc[p] = "read"
  /\ seen' = [seen EXCEPT ![p] = lock]
  /\ Goto(p, "judge")
  /\ UNCHANGED <<backup, staging, lock, file, live, acked, overlapped>>

Dead(q) == pc[q] = "none"

(* Ownership goes by the identifier alone, whatever host the lock names.   *)
OwnLocks(p) == {p, Foreign(p)}

Verdict(p) ==
  CASE seen[p] \in Unreadable \cup OwnLocks(p) -> "publish"
    [] seen[p] \in Remotes \ OwnLocks(p)       -> "failed"
    [] OTHER -> IF Dead(seen[p]) THEN "unlink" ELSE "failed"

Judge(p) ==
  /\ pc[p] = "judge"
  /\ Goto(p, Verdict(p))
  /\ seen' = [seen EXCEPT ![p] = None]
  /\ UNCHANGED <<backup, staging, lock, file, live, acked, overlapped>>

(* A failed unlink is ignored.                                             *)
Unlink(p) ==
  /\ pc[p] = "unlink"
  /\ lock' \in {lock, NoLock}
  /\ Goto(p, "publish")
  /\ UNCHANGED <<seen, backup, staging, file, live, acked, overlapped>>

Publish(p) ==
  /\ pc[p] = "publish"
  /\ lock' = p
  /\ Goto(p, "open")
  /\ UNCHANGED <<seen, backup, staging, file, live, acked, overlapped>>

(* The temporary lock file cannot be written or renamed.                   *)
PublishFails(p) ==
  /\ pc[p] = "publish"
  /\ Goto(p, "failed")
  /\ UNCHANGED <<seen, backup, staging, lock, file, live, acked, overlapped>>

OpenDatabase(p) ==
  /\ pc[p] = "open"
  /\ file.format # "legacy"
  /\ file' = [file EXCEPT !.format = "v4"]
  /\ live' = live \cup {p}
  /\ Goto(p, "serving")
  /\ UNCHANGED <<seen, backup, staging, lock, acked, overlapped>>

(* The process reports the error and lives on; nothing releases the lock.  *)
OpenFails(p) ==
  /\ pc[p] = "open"
  /\ Goto(p, "failed")
  /\ UNCHANGED <<seen, backup, staging, lock, file, live, acked, overlapped>>

-----------------------------------------------------------------------------
(* Serving and closing.                                                    *)
Save(p) ==
  /\ pc[p] = "serving"
  /\ acked < MaxEdits
  /\ acked' = acked + 1
  /\ file'  = IF p \in live THEN [file EXCEPT !.edits = @ + 1] ELSE file
  /\ UNCHANGED <<pc, seen, backup, staging, lock, live, overlapped>>

(* Mutant of PrepareClose: the lock is released with the database open.    *)
PrepareCloseOpen(p) ==
  /\ pc[p] = "serving"
  /\ Goto(p, "release")
  /\ UNCHANGED <<seen, backup, staging, lock, file, live, acked, overlapped>>

PrepareClose(p) ==
  /\ pc[p] = "serving"
  /\ live' = live \ {p}
  /\ Goto(p, "release")
  /\ UNCHANGED <<seen, backup, staging, lock, file, acked, overlapped>>

(* The first answer timed out and the window is closed again while the     *)
(* HTTP server of the process is still closing.                            *)
PrepareCloseAgain(p) ==
  /\ pc[p] = "closed"
  /\ Goto(p, "releaseAgain")
  /\ MarkOverlap(p)
  /\ UNCHANGED <<seen, backup, staging, lock, file, live, acked>>

Owned(p) == lock \in Unreadable \cup OwnLocks(p)

(* Mutant of Release: the owner of the lock file is not looked at.         *)
ReleaseUnchecked(p) ==
  /\ \/ pc[p] = "release" /\ Goto(p, "remove")
     \/ pc[p] = "releaseAgain" /\ Goto(p, "removeAgain")
  /\ UNCHANGED <<seen, backup, staging, lock, file, live, acked, overlapped>>

Release(p) ==
  /\ \/ pc[p] = "release" /\ Goto(p, IF Owned(p) THEN "remove" ELSE "closed")
     \/ pc[p] = "releaseAgain" /\ Goto(p, IF Owned(p) THEN "removeAgain" ELSE "closed")
  /\ UNCHANGED <<seen, backup, staging, lock, file, live, acked, overlapped>>

(* An unlink that fails is ignored.                                        *)
Remove(p) ==
  /\ pc[p] \in {"remove", "removeAgain"}
  /\ lock' \in {lock, NoLock}
  /\ Goto(p, "closed")
  /\ UNCHANGED <<seen, backup, staging, file, live, acked, overlapped>>

(* The window is gone, the process exits or crashes; files stay.           *)
Die(p) ==
  /\ pc[p] # "none"
  /\ Goto(p, "none")
  /\ seen'   = [seen EXCEPT ![p] = None]
  /\ backup' = [backup EXCEPT ![p] = None]
  /\ live'   = live \ {p}
  /\ UNCHANGED <<staging, lock, file, acked, overlapped>>

Migrate(p) == \/ Backup(p) \/ Extract(p) \/ Stage(p) \/ Cutover(p) \/ MigrationFails(p)
Acquire(p) == \/ ReadLock(p) \/ Judge(p) \/ Unlink(p) \/ Publish(p) \/ PublishFails(p)
Close(p)   == \/ PrepareClose(p) \/ PrepareCloseAgain(p) \/ Release(p) \/ Remove(p)

Next == \E p \in Procs :
  \/ Spawn(p) \/ Detect(p) \/ Migrate(p) \/ Acquire(p)
  \/ OpenDatabase(p) \/ OpenFails(p) \/ Save(p) \/ Close(p) \/ Die(p)

Spec == Init /\ [][Next]_vars

-----------------------------------------------------------------------------
(* Between the publication of its lock and the end of its release.         *)
Holding(p) == pc[p] \in {"open", "serving"} \cup Releasing

(* Every variable has its type, what a process read or backed up is kept   *)
(* only while it is used, and an open database belongs to a serving        *)
(* process: a process that gives up its lock has closed its database.      *)
LockTypeOK ==
  /\ pc      \in [Procs -> Steps]
  /\ seen    \in [Procs -> Locks \cup {None}]
  /\ backup  \in [Procs -> Contents \cup {None}]
  /\ staging \in BOOLEAN
  /\ lock    \in Locks
  /\ file    \in Contents
  /\ live    \subseteq {p \in Procs : pc[p] = "serving"}
  /\ acked   \in 0 .. MaxEdits
  /\ overlapped \in BOOLEAN
  /\ \A p \in Procs : /\ seen[p] # None <=> pc[p] = "judge"
                      /\ backup[p] # None => pc[p] \in Migrating

(* As long as no two openings (or an opening and a repeated release) were  *)
(* under way at once, a process that holds the project finds its own       *)
(* identifier in the lock file from the publication of the lock until it   *)
(* removes it, whatever stale locks were recovered, processes crashed,     *)
(* identifiers reused and releases repeated.  No two processes hold then.  *)
LockCoversHolder == ~overlapped => \A p \in Procs : Holding(p) => lock = p

(* Under the same condition no save that was answered is lost: neither the *)
(* cutover of a migration nor its rollback replaces a file that holds it,  *)
(* although the migration runs before the lock is taken.                   *)
AckedSavesKept == ~overlapped => file.edits = acked

(* The inductive invariant.  Saves in the file and in backups are saves    *)
(* that were answered.                                                     *)
EditsBounded ==
  /\ file.edits <= acked
  /\ \A p \in Procs : backup[p] # None => backup[p].edits <= acked

OneCritical == \A p, q \in Procs : Critical(p) /\ Critical(q) => p = q

(* A process that goes by a lock it read earlier is right about it: the    *)
(* only other holder there can be is the one it read, and there is none    *)
(* once it has decided to replace or remove the lock file.                 *)
ReadStillGood ==
  \A p, q \in Procs : p # q /\ Holding(q) =>
    /\ pc[p] = "judge" => seen[p] = q
    /\ pc[p] \notin {"unlink", "publish", "removeAgain"}

(* A migration has a legacy archive before it; a serving process has its   *)
(* database at the path.                                                   *)
FormatFits ==
  /\ \A p \in Procs : pc[p] \in Migrating => file.format = "legacy"
  /\ \A p \in Procs : pc[p] = "serving" => p \in live /\ file.format = "v4"
  /\ file.format # "v4" => file.edits = 0

LockInv ==
  /\ LockTypeOK
  /\ EditsBounded
  /\ LockCoversHolder
  /\ AckedSavesKept
  /\ ~overlapped => OneCritical /\ ReadStillGood /\ FormatFits

(* What the header of ProjectLockManager.ts and the design catalogue       *)
(* promise: a single writer, without any condition.                        *)
SingleWriter ==
  \A p, q \in Procs : pc[p] = "serving" /\ pc[q] = "serving" => p = q

(* What ADR-002 promises of the migration engine: legacy archives are      *)
(* migrated non-destructively.                                             *)
MigrationNonDestructive == file.edits = acked
=============================================================================
