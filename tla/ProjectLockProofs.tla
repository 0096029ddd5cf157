-------------------------- MODULE ProjectLockProofs --------------------------
(* Proofs about ProjectLock: what the lock file protects, for every set of   *)
(* process identifiers and every bound on the saves.                         *)
EXTENDS ProjectLock, TLAPS

(* A step of process p moves p and no other process.                         *)
LEMMA GotoEffect ==
  ASSUME LockTypeOK, NEW p \in Procs, NEW step \in Steps, Goto(p, step)
  PROVE  /\ pc' \in [Procs -> Steps]
         /\ pc'[p] = step
         /\ \A q \in Procs \ {p} : pc'[q] = pc[q]
BY DEF LockTypeOK, Goto

(* What an overlap recorded by p means for the other processes.              *)
LEMMA Unoverlapped ==
  ASSUME LockTypeOK, NEW p \in Procs, MarkOverlap(p)
  PROVE  /\ overlapped' \in BOOLEAN
         /\ ~overlapped' => ~overlapped /\ \A q \in Procs \ {p} : ~Critical(q)
BY DEF MarkOverlap

(* The parts of the invariant that hold only while nothing overlapped.       *)
Solo == /\ \A p \in Procs : Holding(p) => lock = p
        /\ file.edits = acked
        /\ OneCritical
        /\ ReadStillGood
        /\ FormatFits

(* The invariant in those terms.                                            *)
LEMMA SoloParts ==
  LockInv <=> LockTypeOK /\ EditsBounded /\ (~overlapped => Solo)
BY DEF LockInv, Solo, LockCoversHolder, AckedSavesKept

(* The same of the next state.                                               *)
LEMMA NextSoloParts ==
  LockTypeOK' /\ EditsBounded' /\ (~overlapped' => Solo') => LockInv'
BY DEF LockInv, Solo, LockCoversHolder, AckedSavesKept

(* A forked process holds nothing yet.                                       *)
LEMMA SpawnKeeps ==
  ASSUME LockInv, NEW p \in Procs, Spawn(p)
  PROVE  LockInv'
<1>1. /\ pc' \in [Procs -> Steps] /\ pc'[p] = "spawned"
      /\ \A q \in Procs \ {p} : pc'[q] = pc[q]
  <2>1. "spawned" \in Steps /\ Goto(p, "spawned")
    BY DEF Spawn, Steps
  <2> QED
    BY <2>1, GotoEffect, SoloParts
<1>2. LockTypeOK' /\ EditsBounded'
  BY <1>1, SoloParts DEF LockTypeOK, EditsBounded, Spawn, Migrating
<1>3. ASSUME ~overlapped' PROVE Solo'
  BY <1>3, <1>1, SoloParts
  DEF Solo, OneCritical, Critical, ReadStillGood, Holding, FormatFits, Spawn, Migrating,
      Acquiring, Releasing, Again
<1> QED
  BY <1>2, <1>3, NextSoloParts

(* A process that starts an opening finds no other opening under way, or an  *)
(* overlap is recorded.  A legacy archive sends it to the migration.         *)
LEMMA DetectKeeps ==
  ASSUME LockInv, NEW p \in Procs, Detect(p)
  PROVE  LockInv'
<1> DEFINE step == IF file.format = "legacy" THEN "backup" ELSE "read"
<1>1. /\ pc' \in [Procs -> Steps] /\ pc'[p] = step
      /\ \A q \in Procs \ {p} : pc'[q] = pc[q]
  <2>1. step \in Steps /\ Goto(p, step)
    BY DEF Detect, Migrating, Acquiring, Steps
  <2> QED
    BY <2>1, GotoEffect, SoloParts
<1>2. /\ overlapped' \in BOOLEAN
      /\ ~overlapped' => ~overlapped /\ \A q \in Procs \ {p} : ~Critical(q)
  BY Unoverlapped, SoloParts DEF Detect
<1>3. LockTypeOK' /\ EditsBounded'
  BY <1>1, <1>2, SoloParts DEF LockTypeOK, EditsBounded, Detect, Migrating
<1>4. ASSUME ~overlapped' PROVE Solo'
  BY <1>4, <1>1, <1>2, SoloParts
  DEF Solo, OneCritical, Critical, ReadStillGood, Holding, FormatFits, Detect, Migrating,
      Releasing
<1> QED
  BY <1>3, <1>4, NextSoloParts

(* The backup holds what the file holds.                                     *)
LEMMA BackupKeeps ==
  ASSUME LockInv, NEW p \in Procs, Backup(p)
  PROVE  LockInv'
<1>1. /\ pc' \in [Procs -> Steps] /\ pc'[p] = "extract"
      /\ \A q \in Procs \ {p} : pc'[q] = pc[q]
  <2>1. "extract" \in Steps /\ Goto(p, "extract")
    BY DEF Backup, Migrating, Steps
  <2> QED
    BY <2>1, GotoEffect, SoloParts
<1>2. LockTypeOK' /\ EditsBounded'
  BY <1>1, SoloParts DEF LockTypeOK, EditsBounded, Backup, Migrating
<1>3. ASSUME ~overlapped' PROVE Solo'
  BY <1>3, <1>1, SoloParts
  DEF Solo, OneCritical, Critical, ReadStillGood, Holding, FormatFits, Backup, Migrating,
      Releasing
<1> QED
  BY <1>2, <1>3, NextSoloParts

(* Only a legacy archive can be extracted.                                   *)
LEMMA ExtractKeeps ==
  ASSUME LockInv, NEW p \in Procs, Extract(p)
  PROVE  LockInv'
<1>1. /\ pc' \in [Procs -> Steps] /\ pc'[p] = "stage"
      /\ \A q \in Procs \ {p} : pc'[q] = pc[q]
  <2>1. "stage" \in Steps /\ Goto(p, "stage")
    BY DEF Extract, Migrating, Steps
  <2> QED
    BY <2>1, GotoEffect, SoloParts
<1>2. LockTypeOK' /\ EditsBounded'
  BY <1>1, SoloParts DEF LockTypeOK, EditsBounded, Extract, Migrating
<1>3. ASSUME ~overlapped' PROVE Solo'
  BY <1>3, <1>1, SoloParts
  DEF Solo, OneCritical, Critical, ReadStillGood, Holding, FormatFits, LockTypeOK, Extract,
      Releasing, Steps
<1> QED
  BY <1>2, <1>3, NextSoloParts

(* Only the staging file changes.                                            *)
LEMMA StageKeeps ==
  ASSUME LockInv, NEW p \in Procs, Stage(p)
  PROVE  LockInv'
<1>1. /\ pc' \in [Procs -> Steps] /\ pc'[p] = "cutover"
      /\ \A q \in Procs \ {p} : pc'[q] = pc[q]
  <2>1. "cutover" \in Steps /\ Goto(p, "cutover")
    BY DEF Stage, Migrating, Steps
  <2> QED
    BY <2>1, GotoEffect, SoloParts
<1>2. LockTypeOK' /\ EditsBounded'
  BY <1>1, SoloParts DEF LockTypeOK, EditsBounded, Stage, Migrating
<1>3. ASSUME ~overlapped' PROVE Solo'
  BY <1>3, <1>1, SoloParts
  DEF Solo, OneCritical, Critical, ReadStillGood, Holding, FormatFits, Stage, Migrating,
      Releasing
<1> QED
  BY <1>2, <1>3, NextSoloParts

(* The archive that is replaced holds no save and no process serves it.      *)
LEMMA CutoverKeeps ==
  ASSUME LockInv, NEW p \in Procs, Cutover(p)
  PROVE  LockInv'
<1>1. /\ pc' \in [Procs -> Steps] /\ pc'[p] = "read"
      /\ \A q \in Procs \ {p} : pc'[q] = pc[q]
  <2>1. "read" \in Steps /\ Goto(p, "read")
    BY DEF Cutover, Acquiring, Steps
  <2> QED
    BY <2>1, GotoEffect, SoloParts
<1>2. Empty \in Contents /\ Empty.edits = 0
  BY LockAssumption DEF Empty, Contents, Formats
<1>3. LockTypeOK' /\ EditsBounded'
  <2>1. file' = Empty /\ live' = {}
    BY DEF Cutover, Replace
  <2>2. acked \in Nat
    BY SoloParts DEF LockTypeOK
  <2>3. /\ backup' \in [Procs -> Contents \cup {None}]
        /\ \A q \in Procs : backup'[q] = IF q = p THEN None ELSE backup[q]
    BY SoloParts DEF LockTypeOK, Cutover
  <2>4. seen' = seen /\ lock' = lock /\ acked' = acked /\ overlapped' = overlapped
        /\ staging' = FALSE
    BY DEF Cutover
  <2>5. LockTypeOK'
    BY <1>1, <1>2, <2>1, <2>3, <2>4, SoloParts DEF LockTypeOK, Cutover
  <2>6. EditsBounded'
    BY <1>2, <2>1, <2>2, <2>3, <2>4, SoloParts DEF EditsBounded
  <2> QED
    BY <2>5, <2>6
<1>4. ASSUME ~overlapped' PROVE Solo'
  BY <1>4, <1>1, <1>2, SoloParts
  DEF Solo, OneCritical, Critical, ReadStillGood, Holding, FormatFits, Cutover, Replace,
      Migrating, Releasing
<1> QED
  BY <1>3, <1>4, NextSoloParts

(* An archive that is still a legacy archive is not touched by the rollback. *)
LEMMA MigrationFailsKeeps ==
  ASSUME LockInv, NEW p \in Procs, MigrationFails(p)
  PROVE  LockInv'
<1>1. /\ pc' \in [Procs -> Steps] /\ pc'[p] = "failed"
      /\ \A q \in Procs \ {p} : pc'[q] = pc[q]
  <2>1. "failed" \in Steps /\ Goto(p, "failed")
    BY DEF MigrationFails, RollBack, Steps
  <2> QED
    BY <2>1, GotoEffect, SoloParts
<1>2. file' \in {file, backup[p]} /\ file' \in Contents /\ file'.edits <= acked
  <2>1. file \in Contents /\ file.edits <= acked
    BY SoloParts DEF LockTypeOK, EditsBounded
  <2>2. backup[p] # None => backup[p] \in Contents /\ backup[p].edits <= acked
    BY SoloParts DEF LockTypeOK, EditsBounded
  <2> QED
    BY <2>1, <2>2 DEF MigrationFails, RollBack, Replace
<1>3. live' \subseteq live
  BY DEF MigrationFails, RollBack, Replace
<1>4. LockTypeOK' /\ EditsBounded'
  BY <1>1, <1>2, <1>3, SoloParts
  DEF LockTypeOK, EditsBounded, MigrationFails, RollBack, Migrating
<1>5. ASSUME ~overlapped' PROVE Solo'
  BY <1>5, <1>1, SoloParts
  DEF Solo, OneCritical, Critical, ReadStillGood, Holding, FormatFits, MigrationFails,
      RollBack, Releasing
<1> QED
  BY <1>4, <1>5, NextSoloParts

(* The lock read is the lock of the only process that can hold.              *)
LEMMA ReadLockKeeps ==
  ASSUME LockInv, NEW p \in Procs, ReadLock(p)
  PROVE  LockInv'
<1>1. /\ pc' \in [Procs -> Steps] /\ pc'[p] = "judge"
      /\ \A q \in Procs \ {p} : pc'[q] = pc[q]
  <2>1. "judge" \in Steps /\ Goto(p, "judge")
    BY DEF ReadLock, Acquiring, Steps
  <2> QED
    BY <2>1, GotoEffect, SoloParts
<1>2. LockTypeOK' /\ EditsBounded'
  BY <1>1, SoloParts, LockAssumption
  DEF LockTypeOK, EditsBounded, ReadLock, Locks, Migrating
<1>3. ASSUME ~overlapped' PROVE Solo'
  BY <1>3, <1>1, SoloParts
  DEF Solo, OneCritical, Critical, ReadStillGood, Holding, FormatFits, LockTypeOK, ReadLock,
      Migrating, Releasing, Steps
<1> QED
  BY <1>2, <1>3, NextSoloParts

(* A lock that is absent, unreadable or of a dead process has no holder, and *)
(* none can appear while only this process is opening.                       *)
LEMMA JudgeKeeps ==
  ASSUME LockInv, NEW p \in Procs, Judge(p)
  PROVE  LockInv'
<1>0. /\ Verdict(p) \in {"publish", "failed", "unlink"}
      /\ Verdict(p) # "failed" =>
           seen[p] \in Unreadable \cup OwnLocks(p) \/ (seen[p] \in Procs /\ Dead(seen[p]))
  <2>1. seen[p] \in Procs \cup Remotes \cup Unreadable
    BY SoloParts DEF LockTypeOK, Judge, Locks
  <2>2. CASE seen[p] \in Unreadable \cup OwnLocks(p)
    BY <2>2, LockAssumption DEF Verdict
  <2>3. CASE seen[p] \in Remotes \ OwnLocks(p)
    <3>1. seen[p] \notin Unreadable \cup OwnLocks(p)
      BY <2>3, LockAssumption
    <3> QED
      BY <2>3, <3>1 DEF Verdict
  <2>4. CASE seen[p] \notin Unreadable \cup OwnLocks(p) \cup Remotes
    BY <2>1, <2>4 DEF Verdict
  <2> QED
    BY <2>2, <2>3, <2>4
<1>1. /\ pc' \in [Procs -> Steps] /\ pc'[p] = Verdict(p)
      /\ \A q \in Procs \ {p} : pc'[q] = pc[q]
  <2>1. Verdict(p) \in Steps /\ Goto(p, Verdict(p))
    BY <1>0 DEF Judge, Acquiring, Steps
  <2> QED
    BY <2>1, GotoEffect, SoloParts
<1>2. ASSUME ~overlapped, Verdict(p) # "failed", NEW q \in Procs \ {p}
      PROVE  ~Holding(q)
  <2>1. q \notin Unreadable \cup OwnLocks(p)
    BY LockAssumption DEF OwnLocks, Remotes
  <2> QED
    BY <1>0, <1>2, <2>1, SoloParts DEF Solo, ReadStillGood, Judge, Dead, Holding, Releasing
<1>3. LockTypeOK' /\ EditsBounded'
  BY <1>0, <1>1, SoloParts DEF LockTypeOK, EditsBounded, Judge, Migrating
<1>4. ASSUME ~overlapped' PROVE Solo'
  BY <1>4, <1>0, <1>1, <1>2, SoloParts
  DEF Solo, OneCritical, Critical, ReadStillGood, Holding, FormatFits, LockTypeOK, Judge,
      Migrating, Releasing, Steps
<1> QED
  BY <1>3, <1>4, NextSoloParts

(* Nobody holds the lock that is removed as stale.                           *)
LEMMA UnlinkKeeps ==
  ASSUME LockInv, NEW p \in Procs, Unlink(p)
  PROVE  LockInv'
<1>1. /\ pc' \in [Procs -> Steps] /\ pc'[p] = "publish"
      /\ \A q \in Procs \ {p} : pc'[q] = pc[q]
  <2>1. "publish" \in Steps /\ Goto(p, "publish")
    BY DEF Unlink, Acquiring, Steps
  <2> QED
    BY <2>1, GotoEffect, SoloParts
<1>2. LockTypeOK' /\ EditsBounded'
  BY <1>1, SoloParts DEF LockTypeOK, EditsBounded, Unlink, Locks, Unreadable, Migrating
<1>3. ASSUME ~overlapped' PROVE Solo'
  BY <1>3, <1>1, SoloParts
  DEF Solo, OneCritical, Critical, ReadStillGood, Holding, FormatFits, LockTypeOK, Unlink,
      Migrating, Releasing, Steps
<1> QED
  BY <1>2, <1>3, NextSoloParts

(* The process becomes the only holder.                                      *)
LEMMA PublishKeeps ==
  ASSUME LockInv, NEW p \in Procs, Publish(p)
  PROVE  LockInv'
<1>1. /\ pc' \in [Procs -> Steps] /\ pc'[p] = "open"
      /\ \A q \in Procs \ {p} : pc'[q] = pc[q]
  <2>1. "open" \in Steps /\ Goto(p, "open")
    BY DEF Publish, Steps
  <2> QED
    BY <2>1, GotoEffect, SoloParts
<1>2. LockTypeOK' /\ EditsBounded'
  BY <1>1, SoloParts DEF LockTypeOK, EditsBounded, Publish, Locks, Migrating
<1>3. ASSUME ~overlapped' PROVE Solo'
  BY <1>3, <1>1, SoloParts
  DEF Solo, OneCritical, Critical, ReadStillGood, Holding, FormatFits, LockTypeOK, Publish,
      Migrating, Releasing, Steps
<1> QED
  BY <1>2, <1>3, NextSoloParts

(* The lock file stays as it is.                                             *)
LEMMA PublishFailsKeeps ==
  ASSUME LockInv, NEW p \in Procs, PublishFails(p)
  PROVE  LockInv'
<1>1. /\ pc' \in [Procs -> Steps] /\ pc'[p] = "failed"
      /\ \A q \in Procs \ {p} : pc'[q] = pc[q]
  <2>1. "failed" \in Steps /\ Goto(p, "failed")
    BY DEF PublishFails, Steps
  <2> QED
    BY <2>1, GotoEffect, SoloParts
<1>2. LockTypeOK' /\ EditsBounded'
  BY <1>1, SoloParts DEF LockTypeOK, EditsBounded, PublishFails, Migrating
<1>3. ASSUME ~overlapped' PROVE Solo'
  BY <1>3, <1>1, SoloParts
  DEF Solo, OneCritical, Critical, ReadStillGood, Holding, FormatFits, LockTypeOK,
      PublishFails, Migrating, Releasing, Steps
<1> QED
  BY <1>2, <1>3, NextSoloParts

(* The holder opens the file at the path.                                    *)
LEMMA OpenDatabaseKeeps ==
  ASSUME LockInv, NEW p \in Procs, OpenDatabase(p)
  PROVE  LockInv'
<1>1. /\ pc' \in [Procs -> Steps] /\ pc'[p] = "serving"
      /\ \A q \in Procs \ {p} : pc'[q] = pc[q]
  <2>1. "serving" \in Steps /\ Goto(p, "serving")
    BY DEF OpenDatabase, Steps
  <2> QED
    BY <2>1, GotoEffect, SoloParts
<1>2. LockTypeOK' /\ EditsBounded'
  BY <1>1, SoloParts
  DEF LockTypeOK, EditsBounded, OpenDatabase, Contents, Formats, Migrating
<1>3. ASSUME ~overlapped' PROVE Solo'
  BY <1>3, <1>1, SoloParts
  DEF Solo, OneCritical, Critical, ReadStillGood, Holding, FormatFits, OpenDatabase,
      Migrating
<1> QED
  BY <1>2, <1>3, NextSoloParts

(* The lock file stays as it is.                                             *)
LEMMA OpenFailsKeeps ==
  ASSUME LockInv, NEW p \in Procs, OpenFails(p)
  PROVE  LockInv'
<1>1. /\ pc' \in [Procs -> Steps] /\ pc'[p] = "failed"
      /\ \A q \in Procs \ {p} : pc'[q] = pc[q]
  <2>1. "failed" \in Steps /\ Goto(p, "failed")
    BY DEF OpenFails, Steps
  <2> QED
    BY <2>1, GotoEffect, SoloParts
<1>2. LockTypeOK' /\ EditsBounded'
  BY <1>1, SoloParts DEF LockTypeOK, EditsBounded, OpenFails, Migrating
<1>3. ASSUME ~overlapped' PROVE Solo'
  BY <1>3, <1>1, SoloParts
  DEF Solo, OneCritical, Critical, ReadStillGood, Holding, FormatFits, OpenFails, Migrating
<1> QED
  BY <1>2, <1>3, NextSoloParts

(* The database of a serving process is the file at the path.                *)
LEMMA SaveKeeps ==
  ASSUME LockInv, NEW p \in Procs, Save(p)
  PROVE  LockInv'
<1>2. LockTypeOK' /\ EditsBounded'
  BY SoloParts, LockAssumption DEF LockTypeOK, EditsBounded, Save, Contents
<1>3. ASSUME ~overlapped' PROVE Solo'
  BY <1>3, SoloParts
  DEF Solo, OneCritical, Critical, ReadStillGood, Holding, FormatFits, Save
<1> QED
  BY <1>2, <1>3, NextSoloParts

(* The database is closed before the release.                                *)
LEMMA PrepareCloseKeeps ==
  ASSUME LockInv, NEW p \in Procs, PrepareClose(p)
  PROVE  LockInv'
<1>1. /\ pc' \in [Procs -> Steps] /\ pc'[p] = "release"
      /\ \A q \in Procs \ {p} : pc'[q] = pc[q]
  <2>1. "release" \in Steps /\ Goto(p, "release")
    BY DEF PrepareClose, Releasing, Steps
  <2> QED
    BY <2>1, GotoEffect, SoloParts
<1>2. LockTypeOK' /\ EditsBounded'
  BY <1>1, SoloParts DEF LockTypeOK, EditsBounded, PrepareClose, Migrating
<1>3. ASSUME ~overlapped' PROVE Solo'
  BY <1>3, <1>1, SoloParts
  DEF Solo, OneCritical, Critical, ReadStillGood, Holding, FormatFits, PrepareClose,
      Migrating, Acquiring, Again
<1> QED
  BY <1>2, <1>3, NextSoloParts

(* A repeated release counts as an opening for the record of overlaps.       *)
LEMMA PrepareCloseAgainKeeps ==
  ASSUME LockInv, NEW p \in Procs, PrepareCloseAgain(p)
  PROVE  LockInv'
<1>1. /\ pc' \in [Procs -> Steps] /\ pc'[p] = "releaseAgain"
      /\ \A q \in Procs \ {p} : pc'[q] = pc[q]
  <2>1. "releaseAgain" \in Steps /\ Goto(p, "releaseAgain")
    BY DEF PrepareCloseAgain, Again, Steps
  <2> QED
    BY <2>1, GotoEffect, SoloParts
<1>2. /\ overlapped' \in BOOLEAN
      /\ ~overlapped' => ~overlapped /\ \A q \in Procs \ {p} : ~Critical(q)
  BY Unoverlapped, SoloParts DEF PrepareCloseAgain
<1>3. LockTypeOK' /\ EditsBounded'
  BY <1>1, <1>2, SoloParts DEF LockTypeOK, EditsBounded, PrepareCloseAgain, Migrating
<1>4. ASSUME ~overlapped' PROVE Solo'
  BY <1>4, <1>1, <1>2, SoloParts
  DEF Solo, OneCritical, Critical, ReadStillGood, Holding, FormatFits, PrepareCloseAgain,
      Migrating, Releasing
<1> QED
  BY <1>3, <1>4, NextSoloParts

(* A repeated release goes on only when the lock file has no other owner.    *)
LEMMA ReleaseKeeps ==
  ASSUME LockInv, NEW p \in Procs, Release(p)
  PROVE  LockInv'
<1>0. PICK step \in {"remove", "removeAgain", "closed"} :
        /\ Goto(p, step)
        /\ step = "removeAgain" => Owned(p) /\ pc[p] = "releaseAgain"
        /\ step = "remove" => pc[p] = "release"
        /\ pc[p] \in {"release", "releaseAgain"}
  BY DEF Release
<1>1. /\ pc' \in [Procs -> Steps] /\ pc'[p] = step
      /\ \A q \in Procs \ {p} : pc'[q] = pc[q]
  <2>1. step \in Steps /\ Goto(p, step)
    BY <1>0 DEF Release, Releasing, Again, Steps
  <2> QED
    BY <2>1, GotoEffect, SoloParts
<1>2. LockTypeOK' /\ EditsBounded'
  BY <1>0, <1>1, SoloParts DEF LockTypeOK, EditsBounded, Release, Migrating
<1>3. ASSUME ~overlapped' PROVE Solo'
  <2>1. \A q \in Procs \ {p} : q \notin Unreadable \cup OwnLocks(p)
    BY LockAssumption DEF OwnLocks, Remotes
  <2> QED
    BY <1>3, <1>0, <1>1, <2>1, SoloParts
    DEF Solo, OneCritical, Critical, ReadStillGood, Holding, FormatFits, Release, Owned,
        Migrating, Acquiring, Releasing, Again
<1> QED
  BY <1>2, <1>3, NextSoloParts

(* What is removed is the own lock file, or one nobody holds.                *)
LEMMA RemoveKeeps ==
  ASSUME LockInv, NEW p \in Procs, Remove(p)
  PROVE  LockInv'
<1>1. /\ pc' \in [Procs -> Steps] /\ pc'[p] = "closed"
      /\ \A q \in Procs \ {p} : pc'[q] = pc[q]
  <2>1. "closed" \in Steps /\ Goto(p, "closed")
    BY DEF Remove, Steps
  <2> QED
    BY <2>1, GotoEffect, SoloParts
<1>2. LockTypeOK' /\ EditsBounded'
  BY <1>1, SoloParts DEF LockTypeOK, EditsBounded, Remove, Locks, Unreadable, Migrating
<1>3. ASSUME ~overlapped' PROVE Solo'
  BY <1>3, <1>1, SoloParts
  DEF Solo, OneCritical, Critical, ReadStillGood, Holding, FormatFits, Remove, Migrating,
      Acquiring, Releasing, Again
<1> QED
  BY <1>2, <1>3, NextSoloParts

(* A process that is gone holds nothing.                                     *)
LEMMA DieKeeps ==
  ASSUME LockInv, NEW p \in Procs, Die(p)
  PROVE  LockInv'
<1>1. /\ pc' \in [Procs -> Steps] /\ pc'[p] = "none"
      /\ \A q \in Procs \ {p} : pc'[q] = pc[q]
  <2>1. "none" \in Steps /\ Goto(p, "none")
    BY DEF Die, Steps
  <2> QED
    BY <2>1, GotoEffect, SoloParts
<1>2. LockTypeOK' /\ EditsBounded'
  BY <1>1, SoloParts DEF LockTypeOK, EditsBounded, Die
<1>3. ASSUME ~overlapped' PROVE Solo'
  BY <1>3, <1>1, SoloParts
  DEF Solo, OneCritical, Critical, ReadStillGood, Holding, FormatFits, Die, Migrating,
      Acquiring, Releasing, Again
<1> QED
  BY <1>2, <1>3, NextSoloParts

-----------------------------------------------------------------------------
(* The initial states have the invariant.                                    *)
LEMMA InitLock == Init => LockInv
<1> SUFFICES ASSUME Init PROVE LockInv
  OBVIOUS
<1>1. file \in Contents /\ file.edits = 0
  BY LockAssumption DEF Init, Contents
<1>2. LockTypeOK
  <2>1. acked \in 0 .. MaxEdits /\ lock \in Locks
    BY LockAssumption DEF Init
  <2>2. pc \in [Procs -> Steps] /\ \A p \in Procs : pc[p] = "none"
    BY DEF Init, Steps
  <2> QED
    BY <1>1, <2>1, <2>2 DEF LockTypeOK, Init
<1> QED
  BY <1>1, <1>2
  DEF LockInv, Init, EditsBounded, LockCoversHolder, AckedSavesKept, OneCritical, Critical,
      ReadStillGood, Holding, FormatFits, Migrating, Acquiring, Releasing, Again

(* Every step keeps the invariant.                                           *)
LEMMA NextLock == LockInv /\ [Next]_vars => LockInv'
<1> SUFFICES ASSUME LockInv, [Next]_vars PROVE LockInv'
  OBVIOUS
<1>1. ASSUME NEW p \in Procs, Migrate(p) PROVE LockInv'
  BY <1>1, BackupKeeps, ExtractKeeps, StageKeeps, CutoverKeeps, MigrationFailsKeeps
  DEF Migrate
<1>2. ASSUME NEW p \in Procs, Acquire(p) PROVE LockInv'
  BY <1>2, ReadLockKeeps, JudgeKeeps, UnlinkKeeps, PublishKeeps, PublishFailsKeeps
  DEF Acquire
<1>3. ASSUME NEW p \in Procs, Close(p) PROVE LockInv'
  BY <1>3, PrepareCloseKeeps, PrepareCloseAgainKeeps, ReleaseKeeps, RemoveKeeps DEF Close
<1>4. CASE UNCHANGED vars
  BY <1>4
  DEF vars, LockInv, LockTypeOK, EditsBounded, LockCoversHolder, AckedSavesKept,
      OneCritical, Critical, ReadStillGood, Holding, FormatFits
<1> QED
  BY <1>1, <1>2, <1>3, <1>4, SpawnKeeps, DetectKeeps, OpenDatabaseKeeps, OpenFailsKeeps,
     SaveKeeps, DieKeeps
  DEF Next

(* The inductive invariant holds in every reachable state.                   *)
THEOREM LockInvariance == Spec => []LockInv
BY InitLock, NextLock, PTL DEF Spec

(* Types, and the database of a process that gives up its lock is closed.    *)
THEOREM LockTypeCorrect == Spec => []LockTypeOK
<1>1. LockInv => LockTypeOK
  BY DEF LockInv
<1> QED
  BY <1>1, LockInvariance, PTL

(* Without overlapping openings the lock file names the process that holds   *)
(* the project, whichever process that is and whatever crashed before it.    *)
THEOREM LockNamesHolder == Spec => []LockCoversHolder
<1>1. LockInv => LockCoversHolder
  BY DEF LockInv
<1> QED
  BY <1>1, LockInvariance, PTL

(* Without overlapping openings the single writer the header of              *)
(* ProjectLockManager.ts promises is what there is.                          *)
THEOREM SingleWriterWithoutOverlap == Spec => [](~overlapped => SingleWriter)
<1>1. LockInv => (~overlapped => SingleWriter)
  BY DEF LockInv, LockCoversHolder, SingleWriter, Holding
<1> QED
  BY <1>1, LockInvariance, PTL

(* Without overlapping openings no answered save is lost by a migration.     *)
THEOREM AnsweredSavesStay == Spec => []AckedSavesKept
<1>1. LockInv => AckedSavesKept
  BY DEF LockInv
<1> QED
  BY <1>1, LockInvariance, PTL

=============================================================================
