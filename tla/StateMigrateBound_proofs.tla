----------------------- MODULE StateMigrateBound_proofs -----------------------
(***************************************************************************)
(* What the migrator binds, for every set of entries and every bound:      *)
(* whole archives (CompleteIsBound) of a database and the key that          *)
(* decrypts it (NoMixedGenerations).                                       *)
(*                                                                         *)
(* The argument follows the content of an entry.  What is canonical is     *)
(* whole, and so is what a manifest binds (Contents): it was canonical, or *)
(* staged from a source (Staged), and a source that is half removed is     *)
(* never staged (Torn), because a half removed entry is canonical too, or  *)
(* belongs to the transaction that removes it.  The loops of the           *)
(* transaction put what the manifest binds into the archives (Archiving),  *)
(* which never change.  A pair is verified before it is bound and after it *)
(* is recovered (Verified).                                                *)
(***************************************************************************)
EXTENDS StateMigrate_proofs

Linked == {"links", "unstage", "putComplete", "swapComplete"}
Tidying == {"tidyStage", "tidyLinks"}

WholeIn(f) == \A n \in Names : f[n] # None => f[n].whole
Contents ==
    /\ WholeIn(canonical) /\ WholeIn(marker.auth) /\ WholeIn(manifest.auth)
    /\ marker.schema = 1 =>
         \A n \in Names : \A s \in Slots :
           backup[n][s] # None => backup[n][s].whole

(* What is staged when a manifest is built.                                *)
Staged ==
    /\ ~stageDir => \A n \in Names : stage[n] = None
    /\ pc \in {"copy", "legacy", "recover"} => stageDir
    /\ pc \in {"copy", "legacy"} => \A n \in todo : canonical[n] = None
    /\ pc = "copy" =>
         /\ todo \cap archiveOnly = {}
         /\ \A n \in Sources \ archiveOnly :
              canonical[n] = None /\ n \notin todo => stage[n] = root[n]
         /\ \A n \in Names : stage[n] # None =>
              n \in Sources \ archiveOnly /\ canonical[n] = None
    /\ pc = "legacy" => marker.schema = 1
    /\ pc = "legacy" =>
         \A n \in Names : stage[n] # None =>
           /\ n \in marker.names /\ canonical[n] = None
           /\ n \notin todo => stage[n] = Selected[n]

(* An entry of the root that is being removed.                             *)
HalfRemoved(n) == root[n] \in Entries /\ ~root[n].whole
HalfRemovedOK(n) ==
    /\ ~Prepared => canonical[n] # None /\ marker.schema # 2
    /\ Prepared => marker.arch[n] # None
    /\ pc \in Preparing => manifest.arch[n] # None
    /\ pc = "archive" => n \in todo
    /\ pc \notin Linked \cup Tidying \cup {"legacy"}
    /\ result \notin {"ok", "used"}
Removals ==
    /\ \A n \in Names : HalfRemoved(n) => HalfRemovedOK(n)
    /\ result \in {"ok", "used"} => pc = "off"

(* Authorities and sources are in the archives.                            *)
AuthArchived(m) ==
    \A n \in Names : m.auth[n] # None => backup[n][m.authSlot[n]] = m.auth[n]
ArchArchived(m, S) ==
    \A n \in S : m.arch[n] # None => backup[n][m.archSlot[n]] = m.arch[n]
Archiving ==
    /\ pc = "archive" => ArchArchived(manifest, Names \ todo)
    /\ pc \in Linked => AuthArchived(manifest) /\ ArchArchived(manifest, Names)
    /\ Complete => AuthArchived(marker) /\ ArchArchived(marker, Names)

(* Database and key that were verified together.                           *)
Verified ==
    /\ marker.schema = 2 => Decryptable(marker.auth)
    /\ manifest.schema = 2 => Decryptable(manifest.auth)
    /\ pc \in {"snapshot", "archive"} \cup Linked \cup Tidying =>
         Decryptable(canonical)
    /\ result = "ok" => Decryptable(canonical)
    /\ ~canonDir => \A n \in Names : canonical[n] = None
    /\ pc = "recover" => canonDir

BoundInv == Contents /\ Staged /\ Removals /\ Archiving /\ Verified

-----------------------------------------------------------------------------
(* Where a step leads to, and from where.                                  *)

Building ==
    \/ RestoreLost \/ Supersede \/ LegacyPrepare \/ Prepare \/ TidyDone

(* A place of the program is reached by one action, or was reached already. *)
Arrivals ==
    /\ pc' = "copy" => Classify \/ \E n \in Names : StageSource(n)
    /\ pc' = "legacy" => LegacyStart \/ \E n \in Names : LegacyStage(n)
    /\ pc' \in Preparing =>
         \/ Building
         \/ pc \in Preparing /\ UNCHANGED manifest
    /\ pc' = "recover" =>
         \/ MakeDirectories
         \/ pc = "recover" /\ UNCHANGED <<canonDir, stageDir>>
    /\ pc' = "snapshot" => pc = "snapshot" \/ VerifyRecovered
    /\ pc' = "archive" => SnapshotsDone \/ \E n \in Names : ArchiveSource(n)
    /\ pc' \in Linked =>
         \/ ArchivesDone
         \/ pc \in Linked /\ UNCHANGED manifest
    /\ pc' \in Tidying => Tidy \/ pc \in Tidying

(* Which steps enter each loop of the transaction.                         *)
LEMMA ArrivalSteps ==
  ASSUME Next
  PROVE  Arrivals
<1> USE DEF Arrivals, Preparing, Linked, Tidying, Refuse, Halt, Goto
<1>1. CASE MainStep
  BY <1>1 DEF MainStep, Start, Resume, RefuseTransientLink, RefuseDanglingLink,
     DropMarkerTemp, RestoreLost, Supersede, Tidy, RefuseIncoherentCanonical,
     FreshLayout, LegacyStart, LegacyPrepare, MigrateStart, RemoveStageDir,
     Classify, Prepare, WriteMarkerTemp, SwapPrepared, SwapComplete,
     TidyStageRemoved, TidyDone, Finish, memory, Building
<1>2. CASE ExecuteStep
  BY <1>2 DEF ExecuteStep, MakeDirectories, VerifyRecovered, SnapshotsDone,
     ArchivesDone, LinksDone, StageRemoved, memory
<1>3. ASSUME NEW n \in Names, EntryStep(n)
      PROVE  Arrivals
  BY <1>3 DEF EntryStep, RetireTransientLink, LegacyStage, RemoveStageEntry,
     StageSource, RecoverPresent, RecoverCopy, RecoverCommit, RefuseRecovery,
     CopySnapshot, ArchiveSource, RefuseArchive, MakeLink, data, memory, disk,
     staging
<1>4. CASE Crash BY <1>4 DEF Crash
<1>5. CASE Environment
  BY <1>5 DEF Environment, AppWrites, RollbackWrites, OldTransientLink,
     ConnectorLinks, LoseCanonical, Idle
<1> QED BY <1>1, <1>2, <1>3, <1>4, <1>5 DEF Next, Migrator

(* The manifests, in memory and on disk.                                   *)
ManifestsChange ==
    /\ \/ UNCHANGED manifest
       \/ manifest' = NoMarker /\ pc' = "off"
       \/ Resume
       \/ Building /\ pc' = "putPrepared"
    /\ UNCHANGED marker \/ SwapPrepared \/ SwapComplete

(* Where the manifest in memory and the marker on disk come from.          *)
LEMMA ManifestSteps ==
  ASSUME Next
  PROVE  ManifestsChange
<1> USE DEF ManifestsChange, Refuse, Halt, Goto, disk, data, staging, archives,
     markers, memory, decided, history, budgets, Building
<1>1. CASE MainStep
  BY <1>1 DEF MainStep, Start, Resume, RefuseTransientLink, RefuseDanglingLink,
     DropMarkerTemp, RestoreLost, Supersede, Tidy, RefuseIncoherentCanonical,
     FreshLayout, LegacyStart, LegacyPrepare, MigrateStart, RemoveStageDir,
     Classify, Prepare, WriteMarkerTemp, SwapPrepared, SwapComplete,
     TidyStageRemoved, TidyDone, Finish
<1>2. CASE ExecuteStep
  BY <1>2 DEF ExecuteStep, MakeDirectories, VerifyRecovered, SnapshotsDone,
     ArchivesDone, LinksDone, StageRemoved
<1>3. ASSUME NEW n \in Names, EntryStep(n)
      PROVE  ManifestsChange
  BY <1>3 DEF EntryStep, RetireTransientLink, LegacyStage, RemoveStageEntry,
     StageSource, RecoverPresent, RecoverCopy, RecoverCommit, RefuseRecovery,
     CopySnapshot, ArchiveSource, RefuseArchive, MakeLink
<1>4. CASE Crash BY <1>4 DEF Crash
<1>5. CASE Environment
  BY <1>5 DEF Environment, AppWrites, RollbackWrites, OldTransientLink,
     ConnectorLinks, LoseCanonical, Idle
<1> QED BY <1>1, <1>2, <1>3, <1>4, <1>5 DEF Next, Migrator

(* Staging.                                                                *)
StagingChanges ==
    /\ \/ UNCHANGED stage
       \/ \E n \in Names :
            LegacyStage(n) \/ RemoveStageEntry(n) \/ StageSource(n)
              \/ RecoverCopy(n) \/ RecoverCommit(n)
    /\ UNCHANGED stageDir \/ stageDir' = TRUE \/ RemoveStageDir

(* What creates, fills and empties the staging directory.                  *)
LEMMA StagingSteps ==
  ASSUME Next
  PROVE  StagingChanges
<1> USE DEF StagingChanges, Refuse, Halt, Goto, disk, data, staging, archives,
     markers, memory, decided, history, budgets
<1>1. CASE MainStep
  BY <1>1 DEF MainStep, Start, Resume, RefuseTransientLink, RefuseDanglingLink,
     DropMarkerTemp, RestoreLost, Supersede, Tidy, RefuseIncoherentCanonical,
     FreshLayout, LegacyStart, LegacyPrepare, MigrateStart, RemoveStageDir,
     Classify, Prepare, WriteMarkerTemp, SwapPrepared, SwapComplete,
     TidyStageRemoved, TidyDone, Finish
<1>2. CASE ExecuteStep
  BY <1>2 DEF ExecuteStep, MakeDirectories, VerifyRecovered, SnapshotsDone,
     ArchivesDone, LinksDone, StageRemoved
<1>3. ASSUME NEW n \in Names, EntryStep(n)
      PROVE  StagingChanges
  BY <1>3 DEF EntryStep, RetireTransientLink, LegacyStage, RemoveStageEntry,
     StageSource, RecoverPresent, RecoverCopy, RecoverCommit, RefuseRecovery,
     CopySnapshot, ArchiveSource, RefuseArchive, MakeLink
<1>4. CASE Crash BY <1>4 DEF Crash
<1>5. CASE Environment
  BY <1>5 DEF Environment, AppWrites, RollbackWrites, OldTransientLink,
     ConnectorLinks, LoseCanonical, Idle
<1> QED BY <1>1, <1>2, <1>3, <1>4, <1>5 DEF Next, Migrator

(* The end of a run.                                                       *)
Ends ==
    /\ result' = "ok" =>
         \/ SwapComplete
         \/ FreshLayout /\ UNCHANGED <<data, marker>>
         \/ TidyDone /\ UNCHANGED data
    /\ result' = "used" => result \in {"ok", "used"}
    /\ result' \in {"ok", "used"} => pc' = "off"

(* Which steps end a run well.                                             *)
LEMMA EndSteps ==
  ASSUME Next, result \in {"ok", "used"} => pc = "off"
  PROVE  Ends
<1> USE DEF Ends, Refuse, Halt, Goto, disk, data, staging, archives,
     markers, memory, decided, history, budgets, NoSources
<1>1. CASE MainStep
  <2>1. CASE TidyDone
    <3>1. /\ UNCHANGED data /\ pc = "tidyLinks"
          /\ \/ result' = "ok" /\ pc' = "off"
             \/ UNCHANGED result
      BY <2>1 DEF TidyDone, Finish
    <3> HIDE DEF data
    <3> QED BY <2>1, <3>1
  <2>2. CASE FreshLayout
    BY <2>2 DEF FreshLayout, Finish
  <2>3. CASE SwapComplete
    <3>1. pc' = "off" /\ result' = "ok" BY <2>3 DEF SwapComplete
    <3> QED BY <2>3, <3>1
  <2>4. CASE ~TidyDone /\ ~FreshLayout /\ ~SwapComplete
    <3>1. pc # "off" \/ result' \notin {"ok", "used"}
      BY <1>1, <2>4 DEF MainStep, Start, Resume, RefuseTransientLink,
         RefuseDanglingLink, DropMarkerTemp, RestoreLost, Supersede, Tidy,
         RefuseIncoherentCanonical, LegacyStart, LegacyPrepare, MigrateStart,
         RemoveStageDir, Classify, Prepare, WriteMarkerTemp, SwapPrepared,
         TidyStageRemoved, CanonicalOnly
    <3>2. result' \notin {"ok", "used"} \/ UNCHANGED result
      BY <1>1, <2>4 DEF MainStep, Start, Resume, RefuseTransientLink,
         RefuseDanglingLink, DropMarkerTemp, RestoreLost, Supersede, Tidy,
         RefuseIncoherentCanonical, LegacyStart, LegacyPrepare, MigrateStart,
         RemoveStageDir, Classify, Prepare, WriteMarkerTemp, SwapPrepared,
         TidyStageRemoved, CanonicalOnly
    <3> QED BY <3>1, <3>2
  <2> QED BY <2>1, <2>2, <2>3, <2>4
<1>2. CASE ExecuteStep
  BY <1>2 DEF ExecuteStep, MakeDirectories, VerifyRecovered, SnapshotsDone,
     ArchivesDone, LinksDone, StageRemoved
<1>3. ASSUME NEW n \in Names, EntryStep(n)
      PROVE  Ends
  BY <1>3 DEF EntryStep, RetireTransientLink, LegacyStage, RemoveStageEntry,
     StageSource, RecoverPresent, RecoverCopy, RecoverCommit, RefuseRecovery,
     CopySnapshot, ArchiveSource, RefuseArchive, MakeLink
<1>4. CASE Crash BY <1>4 DEF Crash
<1>5. CASE Environment
  BY <1>5 DEF Environment, AppWrites, RollbackWrites, OldTransientLink,
     ConnectorLinks, LoseCanonical, Idle
<1> QED BY <1>1, <1>2, <1>3, <1>4, <1>5 DEF Next, Migrator

-----------------------------------------------------------------------------
(* What is bound.                                                          *)

(* What Manifest binds: canonical entries, completed by the staged ones.   *)
LEMMA ManifestBinds ==
  ASSUME NEW S, NEW only, NEW n \in Names
  PROVE  /\ Manifest(S, only).auth[n] =
              IF canonical[n] # None THEN canonical[n]
              ELSE IF n \in S \ only THEN stage[n] ELSE None
         /\ Manifest(S, only).arch[n] = IF n \in S THEN root[n] ELSE None
         /\ Manifest(S, only).schema = 2
BY DEF Manifest, Over

(* What the upgrade of a schema 1 marker binds.                            *)
LEMMA LegacyBinds ==
  ASSUME NEW n \in Names
  PROVE  /\ LegacyManifest.auth[n] = IF stage[n] # None THEN stage[n] ELSE canonical[n]
         /\ LegacyManifest.schema = 2
BY DEF LegacyManifest, Over

(* A half removed source is not what stands for an entry that is not       *)
(* canonical, so what Prepare binds is whole.                              *)
LEMMA PreparedWhole ==
  ASSUME IInv, BoundInv, Prepare, pc' = "putPrepared"
  PROVE  WholeIn(manifest'.auth) /\ Decryptable(manifest'.auth)
<1>1. /\ pc = "copy" /\ todo = {} /\ manifest' = Manifest(Sources, archiveOnly)
      /\ Coherent(Over(canonical, stage)) /\ ~Prepared
  <2>1. ~Prepared BY DEF Prepare, IInv, Control, ManifestOK, Executing
  <2> QED BY <2>1 DEF Prepare, Refuse, Halt
<1>2. ASSUME NEW n \in Names, canonical[n] = None, stage[n] # None
      PROVE  n \in Sources \ archiveOnly /\ stage[n] = root[n] /\ stage[n].whole
  <2>1. n \in Sources \ archiveOnly /\ stage[n] = root[n]
    BY <1>1, <1>2 DEF BoundInv, Staged
  <2>2. ~HalfRemoved(n) BY <1>1, <1>2 DEF BoundInv, Removals, HalfRemovedOK
  <2> QED BY <2>1, <2>2 DEF HalfRemoved, Sources, NamesIn
<1>3. ASSUME NEW n \in Names
      PROVE  manifest'.auth[n] = Over(canonical, stage)[n]
  BY <1>1, <1>2, <1>3, ManifestBinds DEF Over
<1>4. WholeIn(manifest'.auth)
  BY <1>2, <1>3 DEF WholeIn, Over, BoundInv, Contents
<1>5. Decryptable(manifest'.auth)
  BY <1>1, <1>3, NamesAssumption DEF Decryptable, Coherent
<1> QED BY <1>4, <1>5

(* LegacyPrepare binds whole entries: canonical ones, and staged copies of the *)
(* archives the marker names.                                              *)
LEMMA LegacyWhole ==
  ASSUME IInv, BoundInv, LegacyPrepare, pc' = "putPrepared"
  PROVE  WholeIn(manifest'.auth) /\ Decryptable(manifest'.auth)
<1>1. /\ pc = "legacy" /\ todo = {} /\ manifest' = LegacyManifest
      /\ Coherent(Over(canonical, stage)) /\ marker.schema = 1
  <2>1. marker.schema = 1 BY DEF LegacyPrepare, BoundInv, Staged
  <2> QED BY <2>1 DEF LegacyPrepare, Refuse, Halt
<1>2. ASSUME NEW n \in Names, stage[n] # None
      PROVE  canonical[n] = None /\ stage[n].whole
  <2>1. canonical[n] = None /\ stage[n] = Candidate(n)
    BY <1>1, <1>2 DEF BoundInv, Staged, Selected
  <2>2. /\ Archived(n) # {}
        /\ \E s \in Archived(n) : Candidate(n) = backup[n][s]
    BY <1>2, <2>1, GreatestSlot DEF Candidate, Archived
  <2> QED BY <1>1, <2>1, <2>2 DEF BoundInv, Contents, Archived
<1>3. ASSUME NEW n \in Names
      PROVE  manifest'.auth[n] = Over(canonical, stage)[n]
  BY <1>1, <1>2, <1>3, LegacyBinds DEF Over
<1>4. WholeIn(manifest'.auth)
  BY <1>2, <1>3 DEF WholeIn, Over, BoundInv, Contents
<1>5. Decryptable(manifest'.auth)
  BY <1>1, <1>3, NamesAssumption DEF Decryptable, Coherent
<1> QED BY <1>4, <1>5

(* Every manifest binds whole entries, and a pair that was verified.       *)
LEMMA BuildingBinds ==
  ASSUME IInv, BoundInv, Building, pc' = "putPrepared"
  PROVE  WholeIn(manifest'.auth) /\ Decryptable(manifest'.auth)
<1>1. CASE RestoreLost
  <2>1. manifest'.auth = marker.auth /\ marker.schema = 2
    BY <1>1 DEF RestoreLost, IInv, TypeOK, DiskTypeOK, Markers
  <2> QED BY <2>1 DEF BoundInv, Contents, Verified
<1>2. CASE Supersede \/ TidyDone
  <2>1. manifest' = Manifest({}, {})
    BY <1>2 DEF Supersede, TidyDone, Finish, Halt
  <2>2. ASSUME NEW n \in Names PROVE manifest'.auth[n] = canonical[n]
    BY <2>1, <2>2, ManifestBinds
  <2>3. Decryptable(canonical)
    <3>1. CASE Supersede BY <3>1 DEF Supersede, Decryptable, Coherent
    <3>2. CASE TidyDone BY <3>2 DEF TidyDone, BoundInv, Verified, Tidying
    <3> QED BY <1>2, <3>1, <3>2
  <2> QED BY <2>2, <2>3, NamesAssumption
          DEF WholeIn, Decryptable, BoundInv, Contents
<1> QED BY <1>1, <1>2, PreparedWhole, LegacyWhole DEF Building

(* The absent marker binds nothing.                                        *)
LEMMA NoMarkerBinds == WholeIn(NoMarker.auth) /\ NoMarker.schema = 0
BY DEF NoMarker, Unbound, Nothing, WholeIn

-----------------------------------------------------------------------------
(* The applications, between runs.                                         *)

Writes(n, v) ==
    /\ canonical' = [canonical EXCEPT ![n] = v]
    /\ v = None => result \in {"ok", "used"}
    /\ canonDir \/ canonDir' = TRUE
    /\ canonDir' \in {canonDir, TRUE}
Loss == Complete /\ canonical' = Nothing /\ canonDir' = FALSE
Between ==
    /\ pc = "off" /\ pc' = "off"
    /\ UNCHANGED <<stage, stageDir, backup, marker, manifest>>
    /\ \/ UNCHANGED canonical /\ UNCHANGED canonDir
       \/ \E n \in Names : \E v \in WholeOf(n) \cup {None} : Writes(n, v)
       \/ Loss
    /\ \A n \in Names : root'[n] \in {root[n], None, Link} \cup WholeOf(n)

(* Every step of the applications, and of an older package, is one of those. *)
LEMMA BetweenStep ==
  ASSUME IInv, Environment
  PROVE  Between
<1> USE DEF Between, Idle, memory, staging, archives, markers
<1>1. /\ root \in [Names -> Entries \cup {None, Link}]
      /\ canonDir \in BOOLEAN
  BY DEF IInv, TypeOK, DiskTypeOK
<1>2. ASSUME NEW n \in Names, NEW v \in WholeOf(n) \cup {None}, AppWrites(n, v)
      PROVE  Between
  BY <1>1, <1>2 DEF AppWrites, Writes
<1>3. ASSUME NEW n \in Names, NEW v \in WholeOf(n) \cup {None}, RollbackWrites(n, v)
      PROVE  Between
  BY <1>1, <1>3 DEF RollbackWrites, Writes
<1>4. ASSUME NEW n \in Names, OldTransientLink(n)
      PROVE  Between
  BY <1>1, <1>4 DEF OldTransientLink
<1>5. ASSUME NEW S \in SUBSET Connectors, ConnectorLinks(S)
      PROVE  Between
  BY <1>1, <1>5 DEF ConnectorLinks, data
<1>6. CASE LoseCanonical
  BY <1>1, <1>6 DEF LoseCanonical, Loss
<1> QED BY <1>2, <1>3, <1>4, <1>5, <1>6 DEF Environment

(* Where canonical entries come from.                                      *)
LEMMA CanonicalChanges ==
  ASSUME IInv, Next
  PROVE  \/ UNCHANGED canonical
         \/ \E n \in Names : RecoverCommit(n)
         \/ Between
<1>1. CASE pc # "off" BY <1>1, CanonicalSteps
<1>2. CASE pc = "off" /\ ~Environment
  BY <1>2 DEF Next, Migrator, MainStep, ExecuteStep, EntryStep, Start, Resume,
     RefuseTransientLink, RefuseDanglingLink, DropMarkerTemp, RestoreLost,
     Supersede, Tidy, RefuseIncoherentCanonical, FreshLayout, LegacyStart,
     LegacyPrepare, MigrateStart, RemoveStageDir, Classify, Prepare,
     WriteMarkerTemp, SwapPrepared, SwapComplete, TidyStageRemoved, TidyDone,
     CanonicalOnly, NoSources, MakeDirectories, VerifyRecovered, SnapshotsDone,
     ArchivesDone, LinksDone, StageRemoved, RetireTransientLink, LegacyStage,
     RemoveStageEntry, StageSource, RecoverPresent, RecoverCopy, RecoverCommit,
     RefuseRecovery, CopySnapshot, ArchiveSource, RefuseArchive, MakeLink,
     Crash, disk, data
<1>3. CASE Environment BY <1>3, BetweenStep
<1> QED BY <1>1, <1>2, <1>3

(* What an application writes is whole.                                    *)
LEMMA WholeOfIsWhole ==
  ASSUME NEW n \in Names, NEW e \in WholeOf(n)
  PROVE  e \in Entries /\ e.whole
BY WholeType DEF WholeOf, Whole

(* What a run binds it has verified; what it commits is what it bound.     *)
LEMMA ContentsStep ==
  ASSUME IInv, BoundInv, Next
  PROVE  Contents'
<1> USE DEF BoundInv, Contents
<1>1. WholeIn(canonical')
  <2>1. CASE UNCHANGED canonical BY <2>1 DEF WholeIn
  <2>2. ASSUME NEW n \in Names, RecoverCommit(n) PROVE WholeIn(canonical')
    <3>1. /\ canonical' = [canonical EXCEPT ![n] = manifest.auth[n]]
          /\ canonical \in Stored
      BY <2>2 DEF RecoverCommit, IInv, TypeOK, DiskTypeOK
    <3> QED BY <3>1 DEF WholeIn, Stored
  <2>3. CASE Between
    <3>1. canonical \in Stored BY DEF IInv, TypeOK, DiskTypeOK
    <3>2. ASSUME NEW n \in Names, NEW v \in WholeOf(n) \cup {None}, Writes(n, v)
          PROVE  WholeIn(canonical')
      <4>1. v = None \/ v.whole BY WholeOfIsWhole
      <4> QED BY <3>1, <3>2, <4>1 DEF WholeIn, Stored, Writes
    <3>3. CASE Loss BY <3>3 DEF Loss, WholeIn, Nothing
    <3> QED BY <2>1, <2>3, <3>2, <3>3 DEF Between
  <2> QED BY <2>1, <2>2, <2>3, CanonicalChanges
<1>2. WholeIn(marker'.auth)
  <2>1. CASE SwapPrepared BY <2>1 DEF SwapPrepared
  <2>2. CASE SwapComplete
    <3>1. marker'.auth = manifest.auth
      BY <2>2 DEF SwapComplete, IInv, TypeOK, RunTypeOK, Markers
    <3> QED BY <3>1
  <2> QED BY <2>1, <2>2, ManifestSteps DEF ManifestsChange
<1>3. WholeIn(manifest'.auth)
  BY ManifestSteps, NoMarkerBinds, BuildingBinds DEF ManifestsChange, Resume
<1>4. ASSUME marker'.schema = 1, NEW n \in Names, NEW s \in Slots,
             backup'[n][s] # None
      PROVE  backup'[n][s].whole
  <2>1. marker.schema = 1 /\ UNCHANGED marker
    <3>1. ~SwapPrepared
      BY <1>4 DEF SwapPrepared, IInv, Control, ManifestOK, Preparing
    <3>2. ~SwapComplete
      <4>1. SwapComplete => manifest.schema = 2
        BY DEF SwapComplete, IInv, Control, ManifestOK, Executing
      <4> QED BY <1>4, <4>1 DEF SwapComplete, IInv, TypeOK, RunTypeOK, Markers
    <3> QED BY <1>4, <3>1, <3>2, ManifestSteps DEF ManifestsChange
  <2>2. UNCHANGED backup
    <3>1. pc \notin {"snapshot", "archive"}
      BY <2>1 DEF IInv, Control, ManifestOK, Executing
    <3> QED BY <3>1, ArchiveSteps DEF CopySnapshot, ArchiveSource
  <2> QED BY <1>4, <2>1, <2>2
<1> QED BY <1>1, <1>2, <1>3, <1>4

(* What is staged is what LegacyStage and StageSource copy.                *)
LEMMA StagedStep ==
  ASSUME IInv, BoundInv, Next
  PROVE  Staged'
<1> USE DEF BoundInv, Staged
<1>0. /\ stage \in Stored /\ canonical \in Stored /\ stageDir \in BOOLEAN
      /\ root \in [Names -> Entries \cup {None, Link}]
  BY DEF IInv, TypeOK, DiskTypeOK
<1>1. ASSUME ~stageDir', NEW n \in Names PROVE stage'[n] = None
  <2>1. CASE RemoveStageDir
    BY <1>0, <2>1, NoneAssumption DEF RemoveStageDir, NamesIn, Stored
  <2>2. CASE UNCHANGED stageDir
    <3>1. pc \notin {"copy", "legacy", "recover"} /\ \A m \in Names : stage[m] = None
      BY <1>1, <2>2
    <3>2. UNCHANGED stage
      BY <3>1, StagingSteps, NoneAssumption
         DEF StagingChanges, LegacyStage, StageSource, RecoverCopy, RecoverCommit,
             RemoveStageEntry, NamesIn
    <3> QED BY <3>1, <3>2
  <2> QED BY <1>1, <2>1, <2>2, StagingSteps DEF StagingChanges
<1>2. ASSUME pc' \in {"copy", "legacy", "recover"} PROVE stageDir'
  BY <1>2, ArrivalSteps
     DEF Arrivals, Classify, Refuse, Halt, StageSource, LegacyStart, LegacyStage,
         MakeDirectories
<1>3. ASSUME pc' = "copy"
      PROVE  /\ \A n \in todo' : canonical'[n] = None
             /\ todo' \cap archiveOnly' = {}
             /\ \A n \in Sources' \ archiveOnly' :
                  canonical'[n] = None /\ n \notin todo' => stage'[n] = root'[n]
             /\ \A n \in Names : stage'[n] # None =>
                  n \in Sources' \ archiveOnly' /\ canonical'[n] = None
  <2>1. CASE Classify
    <3>1. /\ ~stageDir /\ archiveOnly' = ArchiveOnly
          /\ todo' = {n \in Sources \ ArchiveOnly : canonical[n] = None}
          /\ UNCHANGED <<data, stage>>
      BY <1>3, <2>1 DEF Classify, Refuse, Halt, Goto
    <3> QED BY <3>1 DEF data, Sources, NamesIn
  <2>2. ASSUME NEW m \in Names, StageSource(m) PROVE <1>3!2
    <3>1. /\ pc = "copy" /\ m \in todo /\ todo \subseteq Sources
          /\ UNCHANGED <<data, archiveOnly>>
      BY <2>2 DEF StageSource, decided, IInv, Control, LoopsOK
    <3>2. Sources' = Sources BY <3>1 DEF Sources, NamesIn, data
    <3>3. m \in Sources \ archiveOnly /\ canonical[m] = None BY <3>1
    <3>4. CASE stage[m] = None
      <4>1. stage' = [stage EXCEPT ![m] = Torn(root[m])] /\ todo' = todo
        BY <2>2, <3>4 DEF StageSource
      <4> QED BY <1>0, <3>1, <3>2, <3>3, <4>1 DEF data, Stored
    <3>5. CASE stage[m] # None
      <4>1. stage' = [stage EXCEPT ![m] = root[m]] /\ todo' = todo \ {m}
        BY <2>2, <3>5 DEF StageSource
      <4> QED BY <1>0, <3>1, <3>2, <3>3, <4>1 DEF data, Stored
    <3> QED BY <3>4, <3>5
  <2> QED BY <1>3, <2>1, <2>2, ArrivalSteps DEF Arrivals
<1>4. ASSUME pc' = "legacy"
      PROVE  /\ marker'.schema = 1
             /\ \A n \in todo' : canonical'[n] = None
             /\ \A n \in Names : stage'[n] # None =>
                  /\ n \in marker'.names /\ canonical'[n] = None
                  /\ n \notin todo' => stage'[n] = Selected'[n]
  <2>1. CASE LegacyStart
    <3>1. /\ LegacyCoherent /\ marker.schema = 1
          /\ todo' = marker.names \ NamesIn(canonical)
          /\ UNCHANGED <<data, stage, markers>>
      BY <1>4, <2>1 DEF LegacyStart, LegacyPending, Refuse, Halt, Goto
    <3>2. marker.names \subseteq Names BY DEF IInv, TypeOK, DiskTypeOK, Markers
    <3>3. \A n \in NamesIn(stage) : n \in marker.names /\ canonical[n] = None
      BY <3>1 DEF LegacyCoherent
    <3> QED BY <1>0, <3>1, <3>2, <3>3, NoneAssumption
            DEF data, markers, NamesIn, Stored
  <2>2. ASSUME NEW m \in Names, LegacyStage(m) PROVE <1>4!2
    <3>1. /\ pc = "legacy" /\ m \in todo /\ todo \subseteq marker.names
          /\ UNCHANGED <<data, archives, markers>>
      BY <2>2 DEF LegacyStage, IInv, Control, LoopsOK
    <3>2. Selected' = Selected
      BY <3>1 DEF Selected, Candidate, Archived, archives, markers
    <3>3. \/ stage[m] = Selected[m] /\ todo' = todo \ {m} /\ UNCHANGED stage
          \/ /\ \E v \in {None, Torn(Selected[m]), Selected[m]} :
                   stage' = [stage EXCEPT ![m] = v]
             /\ todo' = todo
      BY <2>2 DEF LegacyStage
    <3> HIDE DEF Selected
    <3> QED BY <1>0, <3>1, <3>2, <3>3 DEF data, markers, Stored
  <2> QED BY <1>4, <2>1, <2>2, ArrivalSteps DEF Arrivals
<1> QED BY <1>1, <1>2, <1>3, <1>4

(* Only archive_exact leaves an entry half removed, and it comes back for  *)
(* it before the transaction ends.                                         *)
LEMMA HalfRemovedBefore ==
  ASSUME IInv, BoundInv, Next, NEW n \in Names, HalfRemoved(n)'
  PROVE  \/ HalfRemoved(n) /\ UNCHANGED root
         \/ HalfRemoved(n) /\ Between
         \/ HalfRemoved(n) /\ \E m \in Names \ {n} :
              RetireTransientLink(m) \/ ArchiveSource(m) \/ MakeLink(m)
         \/ /\ ArchiveSource(n) /\ UNCHANGED todo
            /\ manifest.arch[n] # None /\ Prepared /\ marker = manifest
<1> USE NoneAssumption DEF HalfRemoved
<1>0. root \in [Names -> Entries \cup {None, Link}]
  BY DEF IInv, TypeOK, DiskTypeOK
<1>1. CASE pc = "off"
  <2>1. CASE Environment
    <3>1. Between BY <2>1, BetweenStep
    <3>2. root'[n] = root[n] BY <3>1, WholeOfIsWhole DEF Between
    <3> QED BY <3>1, <3>2
  <2>2. CASE ~Environment
    <3>1. UNCHANGED root
      BY <1>1, <2>2 DEF Next, Migrator, MainStep, ExecuteStep, EntryStep, Start,
         Resume, RefuseTransientLink, RefuseDanglingLink, DropMarkerTemp,
         RestoreLost, Supersede, Tidy, RefuseIncoherentCanonical, FreshLayout,
         LegacyStart, LegacyPrepare, MigrateStart, RemoveStageDir, Classify,
         Prepare, WriteMarkerTemp, SwapPrepared, SwapComplete,
         TidyStageRemoved, TidyDone, CanonicalOnly, NoSources,
         MakeDirectories, VerifyRecovered, SnapshotsDone, ArchivesDone,
         LinksDone, StageRemoved, RetireTransientLink, LegacyStage,
         RemoveStageEntry, StageSource, RecoverPresent, RecoverCopy,
         RecoverCommit, RefuseRecovery, CopySnapshot, ArchiveSource,
         RefuseArchive, MakeLink, Crash, disk, data
    <3> QED BY <3>1
  <2> QED BY <2>1, <2>2
<1>2. ASSUME NEW m \in Names, RetireTransientLink(m) \/ MakeLink(m), ~UNCHANGED root
      PROVE  m # n /\ HalfRemoved(n)
  <2>1. root' = [root EXCEPT ![m] = None] \/ root' = [root EXCEPT ![m] = Link]
    BY <1>2 DEF RetireTransientLink, MakeLink, Refuse, disk, data
  <2> QED BY <1>0, <2>1
<1>3. ASSUME NEW m \in Names, ArchiveSource(m), m # n PROVE HalfRemoved(n)
  <2>1. root'[n] = root[n] BY <1>0, <1>3 DEF ArchiveSource
  <2> QED BY <2>1
<1>4. CASE ArchiveSource(n) /\ ~UNCHANGED root
  <2>1. /\ pc = "archive" /\ n \in todo /\ todo \subseteq NamesIn(manifest.arch)
        /\ Prepared /\ marker = manifest
    BY <1>4 DEF ArchiveSource, IInv, Control, LoopsOK, ManifestOK, Executing, Prepared
  <2>2. UNCHANGED todo BY <1>0, <1>4 DEF ArchiveSource
  <2> QED BY <1>4, <2>1, <2>2 DEF NamesIn
<1> QED BY <1>1, <1>2, <1>3, <1>4, RootSteps

(* A half removed entry stays recoverable: it is canonical too, or the     *)
(* transaction that removes it has archived it.                            *)
LEMMA RemovalsStep ==
  ASSUME IInv, BoundInv, Next
  PROVE  Removals'
<1> USE DEF BoundInv, Removals
<1>1. Ends /\ Arrivals /\ ManifestsChange
  BY EndSteps, ArrivalSteps, ManifestSteps
<1>2. SUFFICES ASSUME NEW n \in Names, HalfRemoved(n)'
               PROVE  HalfRemovedOK(n)'
  BY <1>1 DEF Ends
<1>3. CASE /\ ArchiveSource(n) /\ UNCHANGED todo
           /\ manifest.arch[n] # None /\ Prepared /\ marker = manifest
  <2>1. /\ pc = "archive" /\ pc' = "archive" /\ n \in todo
        /\ UNCHANGED <<marker, result>>
    BY <1>3 DEF ArchiveSource, markers, history
  <2> QED BY <1>3, <2>1 DEF HalfRemovedOK, Prepared, Preparing, Linked, Tidying
<1>4. CASE HalfRemoved(n)
  <2>0. /\ n \in Sources /\ HalfRemovedOK(n)
        /\ n \in Names /\ marker \in Markers /\ manifest \in Markers
    BY <1>4 DEF Sources, NamesIn, HalfRemoved, IInv, TypeOK, DiskTypeOK, RunTypeOK
  <2>1. ~Prepared' => canonical'[n] # None /\ marker'.schema # 2
    <3>1. CASE SwapPrepared
      BY <3>1 DEF SwapPrepared, IInv, Control, ManifestOK, Preparing, Prepared
    <3>2. ~SwapComplete BY <2>0 DEF HalfRemovedOK, SwapComplete, Linked
    <3>3. CASE UNCHANGED marker
      <4> SUFFICES ASSUME ~Prepared PROVE canonical'[n] # None
        BY <2>0, <3>3 DEF Prepared, HalfRemovedOK
      <4>1. ASSUME NEW m \in Names, RecoverCommit(m) PROVE FALSE
        BY <4>1 DEF RecoverCommit, IInv, Control, ManifestOK, Executing, Prepared
      <4>2. CASE Between
        <5>1. ~Complete BY <2>0 DEF HalfRemovedOK, Complete
        <5>2. ASSUME NEW m \in Names, NEW v \in WholeOf(m) \cup {None}, Writes(m, v)
              PROVE  canonical'[n] # None
          <6>1. v # None BY <2>0, <5>2 DEF HalfRemovedOK, Writes
          <6>2. canonical \in Stored BY DEF IInv, TypeOK, DiskTypeOK
          <6> QED BY <2>0, <5>2, <6>1, <6>2 DEF HalfRemovedOK, Writes, Stored
        <5> QED BY <2>0, <4>2, <5>1, <5>2 DEF Between, Loss, HalfRemovedOK
      <4> QED BY <2>0, <4>1, <4>2, CanonicalChanges DEF HalfRemovedOK
    <3> QED BY <1>1, <3>1, <3>2, <3>3 DEF ManifestsChange
  <2>2. Prepared' => marker'.arch[n] # None
    <3>1. CASE SwapPrepared
      BY <2>0, <3>1 DEF SwapPrepared, HalfRemovedOK, Preparing
    <3>2. ~SwapComplete BY <2>0 DEF HalfRemovedOK, SwapComplete, Linked
    <3> QED BY <1>1, <2>0, <3>1, <3>2 DEF ManifestsChange, HalfRemovedOK, Prepared
  <2>3. pc' \in Preparing => manifest'.arch[n] # None
    <3>1. CASE pc \in Preparing /\ UNCHANGED manifest
      BY <2>0, <3>1 DEF HalfRemovedOK
    <3>2. CASE Building /\ pc' \in Preparing
      <4>1. ~RestoreLost BY <2>0 DEF RestoreLost, NoSources
      <4>2. ~Supersede BY <2>0 DEF Supersede, CanonicalOnly, NoSources
      <4>3. ~LegacyPrepare /\ ~TidyDone
        BY <2>0 DEF HalfRemovedOK, LegacyPrepare, TidyDone, Tidying
      <4>4. manifest' = Manifest(Sources, archiveOnly)
        BY <3>2, <4>1, <4>2, <4>3 DEF Building, Prepare, Refuse, Halt, Preparing
      <4> QED BY <1>4, <2>0, <4>4, ManifestBinds, NoneAssumption DEF HalfRemoved
    <3> QED BY <1>1, <3>1, <3>2 DEF Arrivals
  <2>4. pc' = "archive" => n \in todo'
    <3>1. CASE SnapshotsDone
      <4>1. /\ todo' = NamesIn(manifest.arch) /\ marker = manifest /\ Prepared
        BY <3>1 DEF SnapshotsDone, Goto, IInv, Control, ManifestOK, Executing,
                    Prepared
      <4> QED BY <2>0, <4>1 DEF HalfRemovedOK, NamesIn, Markers, Stored
    <3>2. ASSUME NEW m \in Names, ArchiveSource(m) PROVE n \in todo'
      <4>1. n \in todo BY <2>0, <3>2 DEF HalfRemovedOK, ArchiveSource
      <4>2. m = n => todo' = todo
        <5>1. HalfRemoved(n)' BY <1>2
        <5>2. root \in [Names -> Entries \cup {None, Link}]
          BY DEF IInv, TypeOK, DiskTypeOK
        <5> QED BY <2>0, <3>2, <5>1, <5>2, NoneAssumption
                DEF ArchiveSource, HalfRemoved
      <4> QED BY <3>2, <4>1, <4>2 DEF ArchiveSource
    <3> QED BY <1>1, <3>1, <3>2 DEF Arrivals
  <2>5. pc' \notin Linked \cup Tidying \cup {"legacy"}
    <3>1. ~Tidy /\ ~LegacyStart
      BY <2>0 DEF Tidy, CanonicalOnly, NoSources, LegacyStart
    <3>2. pc' # "legacy"
      BY <1>1, <2>0, <3>1 DEF Arrivals, HalfRemovedOK, LegacyStage
    <3>3. pc' \in Linked => pc = "archive" /\ todo = {}
      BY <1>1, <2>0 DEF Arrivals, HalfRemovedOK, ArchivesDone
    <3> QED BY <1>1, <2>0, <3>1, <3>2, <3>3 DEF Arrivals, HalfRemovedOK
  <2>6. result' \notin {"ok", "used"}
    <3>1. ~SwapComplete /\ ~TidyDone
      BY <2>0 DEF HalfRemovedOK, SwapComplete, TidyDone, Linked, Tidying
    <3> QED BY <1>1, <2>0, <3>1 DEF Ends, FreshLayout, NoSources, HalfRemovedOK
  <2> QED BY <2>1, <2>2, <2>3, <2>4, <2>5, <2>6 DEF HalfRemovedOK
<1> QED BY <1>2, <1>3, <1>4, HalfRemovedBefore

(* The transaction archives what it binds, and archives never change.      *)
LEMMA ArchivedStays ==
  ASSUME IInv, Next, NEW m \in Markers, Destined(m), m.schema = 2
  PROVE  /\ AuthArchived(m) => AuthArchived(m)'
         /\ \A S \in SUBSET Names : ArchArchived(m, S) => ArchArchived(m, S)'
<1>1. ArchivesKept BY ArchivesKeptStep
<1>2. \A n \in Names : m.auth[n] # None => n \in m.names
  BY StoredNames DEF Markers, Destined
<1> QED BY <1>1, <1>2
        DEF ArchivesKept, AuthArchived, ArchArchived, Destined, Markers

(* The loops put each bound entry into its archive before completion.      *)
LEMMA ArchivingStep ==
  ASSUME IInv, BoundInv, Next
  PROVE  Archiving'
<1> USE DEF BoundInv, Archiving
<1>1. Arrivals /\ ManifestsChange BY ArrivalSteps, ManifestSteps
<1>2. /\ manifest \in Markers /\ Destined(manifest)
      /\ marker \in Markers /\ Destined(marker)
      /\ root \in [Names -> Entries \cup {None, Link}]
      /\ backup \in [Names -> [Slots -> Entries \cup {None}]]
  BY DEF IInv, TypeOK, DiskTypeOK, RunTypeOK
<1>3. pc \in Linked \cup {"archive"} => manifest.schema = 2
  BY DEF IInv, Control, ManifestOK, Executing, Linked
<1>4. ASSUME pc' = "archive" PROVE ArchArchived(manifest, Names \ todo)'
  <2>1. CASE SnapshotsDone
    <3>1. todo' = NamesIn(manifest.arch) /\ UNCHANGED manifest
      BY <2>1 DEF SnapshotsDone, Goto
    <3> QED BY <1>2, <3>1, StoredNames DEF ArchArchived, Markers
  <2>2. ASSUME NEW n \in Names, ArchiveSource(n)
        PROVE  ArchArchived(manifest, Names \ todo)'
    <3>1. /\ pc = "archive" /\ n \in todo /\ UNCHANGED manifest
          /\ todo' = todo \/ todo' = todo \ {n}
      BY <2>2 DEF ArchiveSource
    <3>2. ArchArchived(manifest, Names \ todo) BY <3>1
    <3>3. \A m \in Names \ todo : manifest.arch[m] # None =>
            backup'[m][manifest.archSlot[m]] = manifest.arch[m]
      BY <1>2, <1>3, <3>1, <3>2, ArchivedStays DEF ArchArchived
    <3>4. todo' # todo => backup'[n][manifest.archSlot[n]] = manifest.arch[n]
      <4>1. manifest.arch[n] # None
        BY <3>1, NoneAssumption DEF IInv, Control, LoopsOK, NamesIn
      <4>2. manifest.archSlot[n] \in Slots BY <1>2, <4>1 DEF Destined
      <4> QED BY <1>2, <2>2, <4>2 DEF ArchiveSource, ArchiveHolds
    <3> QED BY <3>1, <3>3, <3>4 DEF ArchArchived
  <2> QED BY <1>1, <1>4, <2>1, <2>2 DEF Arrivals
<1>5. ASSUME pc' \in Linked
      PROVE  AuthArchived(manifest)' /\ ArchArchived(manifest, Names)'
  <2>1. CASE pc \in Linked /\ UNCHANGED manifest
    BY <1>2, <1>3, <2>1, ArchivedStays DEF AuthArchived, ArchArchived
  <2>2. CASE ArchivesDone
    <3>1. /\ pc = "archive" /\ todo = {}
          /\ UNCHANGED <<manifest, backup>>
          /\ \A n \in manifest.names :
               backup[n][manifest.authSlot[n]] = manifest.auth[n]
      BY <1>5, <2>2 DEF ArchivesDone, Refuse, Halt, Linked, disk, archives
    <3>2. \A n \in Names : manifest.auth[n] # None => n \in manifest.names
      BY <1>2, <1>3, <3>1, StoredNames DEF Markers, Destined
    <3> QED BY <3>1, <3>2 DEF AuthArchived, ArchArchived
  <2> QED BY <1>1, <1>5, <2>1, <2>2 DEF Arrivals
<1>6. ASSUME Complete' PROVE AuthArchived(marker)' /\ ArchArchived(marker, Names)'
  <2>1. ~SwapPrepared
    BY <1>6 DEF SwapPrepared, Complete, IInv, Control, ManifestOK, Preparing
  <2>2. CASE SwapComplete
    <3>1. /\ pc = "swapComplete" /\ UNCHANGED backup
          /\ marker' = [manifest EXCEPT !.phase = "complete"]
      BY <2>2 DEF SwapComplete, archives
    <3>2. AuthArchived(manifest) /\ ArchArchived(manifest, Names)
      BY <3>1 DEF Linked
    <3> QED BY <1>2, <3>1, <3>2 DEF AuthArchived, ArchArchived, Markers
  <2>3. CASE UNCHANGED marker
    BY <1>2, <1>6, <2>3, ArchivedStays DEF Complete, AuthArchived, ArchArchived
  <2> QED BY <1>1, <2>1, <2>2, <2>3 DEF ManifestsChange
<1> QED BY <1>4, <1>5, <1>6

(* Database and key are verified before they are bound, and again when     *)
(* they are recovered.                                                     *)
LEMMA VerifiedStep ==
  ASSUME IInv, BoundInv, Next
  PROVE  Verified'
<1> USE DEF BoundInv, Verified
<1>1. Ends /\ Arrivals /\ ManifestsChange
  BY EndSteps, ArrivalSteps, ManifestSteps DEF Removals
<1>2. manifest \in Markers /\ marker \in Markers /\ canonical \in Stored
  BY DEF IInv, TypeOK, DiskTypeOK, RunTypeOK
<1>3. ASSUME marker'.schema = 2 PROVE Decryptable(marker'.auth)
  <2>1. CASE SwapPrepared
    BY <2>1 DEF SwapPrepared, IInv, Control, ManifestOK, Preparing
  <2>2. CASE SwapComplete
    <3>1. marker'.auth = manifest.auth /\ manifest.schema = 2
      BY <1>2, <2>2
         DEF SwapComplete, Markers, IInv, Control, ManifestOK, Executing
    <3> QED BY <3>1
  <2> QED BY <1>1, <1>3, <2>1, <2>2 DEF ManifestsChange
<1>4. ASSUME manifest'.schema = 2 PROVE Decryptable(manifest'.auth)
  BY <1>1, <1>4, NoMarkerBinds, BuildingBinds DEF ManifestsChange, Resume
<1>5. ASSUME pc' \in {"snapshot", "archive"} \cup Linked \cup Tidying
      PROVE  Decryptable(canonical')
  <2>1. UNCHANGED canonical
    <3>1. ASSUME NEW n \in Names, RecoverCommit(n) PROVE FALSE
      BY <1>5, <3>1 DEF RecoverCommit, Linked, Tidying
    <3>2. ~Between BY <1>5 DEF Between, Linked, Tidying
    <3> QED BY <3>1, <3>2, CanonicalChanges
  <2>2. CASE VerifyRecovered /\ pc' = "snapshot"
    BY <2>1, <2>2 DEF VerifyRecovered, Refuse, Halt, Coherent, Decryptable
  <2>3. CASE Tidy
    BY <2>1, <2>3 DEF Tidy, Coherent, Decryptable
  <2>4. CASE pc \in {"snapshot", "archive"} \cup Linked \cup Tidying
    BY <2>1, <2>4
  <2> QED BY <1>1, <1>5, <2>2, <2>3, <2>4
          DEF Arrivals, SnapshotsDone, ArchiveSource, ArchivesDone
<1>6. ASSUME result' = "ok" PROVE Decryptable(canonical')
  <2>1. CASE SwapComplete
    BY <2>1 DEF SwapComplete, data, Linked
  <2>2. CASE FreshLayout /\ UNCHANGED data
    BY <2>2, NamesAssumption DEF FreshLayout, data, Decryptable
  <2>3. CASE TidyDone /\ UNCHANGED data
    BY <2>3 DEF TidyDone, data, Tidying
  <2> QED BY <1>1, <1>6, <2>1, <2>2, <2>3 DEF Ends
<1>7. /\ ~canonDir' => \A n \in Names : canonical'[n] = None
      /\ pc' = "recover" => canonDir'
  <2>1. CASE Between
    <3>1. ASSUME NEW n \in Names, NEW v \in WholeOf(n) \cup {None}, Writes(n, v)
          PROVE  canonDir'
      BY <3>1 DEF Writes
    <3>2. pc' # "recover" BY <2>1 DEF Between
    <3>3. CASE Loss
      BY <3>2, <3>3 DEF Loss, Nothing
    <3> QED BY <2>1, <3>1, <3>2, <3>3 DEF Between
  <2>2. CASE ~Between
    <3>1. UNCHANGED canonDir \/ canonDir' = TRUE
      BY <2>2, BetweenStep DEF Next, Migrator, MainStep, ExecuteStep, EntryStep, Start,
         Resume, RefuseTransientLink, RefuseDanglingLink, DropMarkerTemp,
         RestoreLost, Supersede, Tidy, RefuseIncoherentCanonical, FreshLayout,
         LegacyStart, LegacyPrepare, MigrateStart, RemoveStageDir, Classify,
         Prepare, WriteMarkerTemp, SwapPrepared, SwapComplete,
         TidyStageRemoved, TidyDone, Finish, Refuse,
         MakeDirectories, VerifyRecovered, SnapshotsDone, ArchivesDone,
         LinksDone, StageRemoved, RetireTransientLink, LegacyStage,
         RemoveStageEntry, StageSource, RecoverPresent, RecoverCopy,
         RecoverCommit, RefuseRecovery, CopySnapshot, ArchiveSource,
         RefuseArchive, MakeLink, Crash, disk, data
    <3>2. CASE UNCHANGED canonical
      BY <1>1, <3>1, <3>2 DEF Arrivals, MakeDirectories
    <3>3. ASSUME NEW n \in Names, RecoverCommit(n) PROVE canonDir' /\ canonDir
      BY <3>3 DEF RecoverCommit
    <3> QED BY <1>1, <2>2, <3>1, <3>2, <3>3, CanonicalChanges
            DEF Arrivals, MakeDirectories
  <2> QED BY <2>1, <2>2
<1> QED BY <1>3, <1>4, <1>5, <1>6, <1>7

-----------------------------------------------------------------------------
(* Initially nothing is staged for a manifest, half removed or bound.      *)
LEMMA InitBound == Init => BoundInv
<1> SUFFICES ASSUME Init PROVE BoundInv OBVIOUS
<1> USE NoneAssumption
<1>0. IInv BY InitIInv
<1>1. /\ pc = "off" /\ manifest = NoMarker /\ result = "none"
      /\ canonDir = (NamesIn(canonical) # {})
  BY DEF Init
<1>2. /\ canonical \in Stored /\ stage \in Stored
      /\ root \in [Names -> Entries \cup {None, Link}]
  BY <1>0 DEF IInv, TypeOK, DiskTypeOK
<1>3. \A f \in Bundles : WholeIn(f) /\ \A n \in Names : f[n] # None => f[n] \in Entries
  BY WholeOfIsWhole DEF Bundles, WholeIn
<1>4. WholeIn(marker.auth) /\ marker.schema \in 0 .. 1
  <2>1. marker = NoMarker \/ \E S : marker = LegacyMarker(S)
    BY DEF Init, InitBundles, InitInterim, InitCommitLoop, InitTornCleanup,
           InitLegacy
  <2> QED BY <2>1 DEF NoMarker, LegacyMarker, Unbound, WholeIn, Nothing
<1>5. WholeIn(canonical)
  <2>1. CASE InitBundles \/ InitInterim \/ InitTornCleanup
    BY <1>3, <2>1 DEF InitBundles, InitInterim, InitTornCleanup
  <2>2. CASE InitCommitLoop
    BY <1>3, <2>2 DEF InitCommitLoop, WholeIn
  <2>3. CASE InitLegacy BY <1>3, <2>3 DEF InitLegacy, WholeIn
  <2> QED BY <2>1, <2>2, <2>3 DEF Init
<1>6. ASSUME marker.schema = 1, NEW n \in Names, NEW s \in Slots,
             backup[n][s] # None
      PROVE  backup[n][s].whole
  <2>1. InitLegacy
    BY <1>6 DEF Init, InitBundles, InitInterim, InitCommitLoop, InitTornCleanup,
                NoMarker, Unbound
  <2>2. PICK f \in Bundles :
          backup = [m \in Names |-> [t \in Slots |-> IF t = 1 THEN f[m] ELSE None]]
    BY <2>1 DEF InitLegacy
  <2>3. backup[n][s] = f[n] BY <1>6, <2>2
  <2> QED BY <1>3, <1>6, <2>3 DEF WholeIn
<1>7. Contents BY <1>1, <1>4, <1>5, <1>6, NoMarkerBinds DEF Contents
<1>8. Staged
  <2>1. ~stageDir => \A n \in Names : stage[n] = None
    BY <1>2 DEF Init, InitBundles, InitInterim, InitCommitLoop, InitTornCleanup,
                InitLegacy, Nothing, NamesIn, Stored
  <2> QED BY <1>1, <2>1 DEF Staged
<1>9. Removals
  <2>1. ASSUME NEW n \in Names, HalfRemoved(n) PROVE canonical[n] # None
    <3>1. InitTornCleanup
      BY <1>3, <2>1 DEF Init, InitBundles, InitInterim, InitCommitLoop,
                        InitLegacy, HalfRemoved, Nothing, WholeIn
    <3> QED BY <2>1, <3>1 DEF InitTornCleanup, HalfRemoved, Nothing, NamesIn
  <2> QED BY <1>1, <1>4, <2>1
          DEF Removals, HalfRemovedOK, Prepared, Preparing, Linked, Tidying
<1>10. Archiving
  BY <1>1, <1>4 DEF Archiving, Complete, Linked
<1>11. Verified
  <2>1. ~canonDir => \A n \in Names : canonical[n] = None
    BY <1>1, <1>2 DEF NamesIn, Stored
  <2> QED BY <1>1, <1>4, <2>1, NoMarkerBinds DEF Verified, Linked, Tidying
<1> QED BY <1>7, <1>8, <1>9, <1>10, <1>11 DEF BoundInv

(* The invariant holds in every reachable state.                           *)
THEOREM BoundInvariance == Spec => []BoundInv
<1>1. ASSUME IInv, BoundInv, [Next]_vars PROVE BoundInv'
  <2>1. CASE Next
    BY <1>1, <2>1, ContentsStep, StagedStep, RemovalsStep, ArchivingStep,
       VerifiedStep DEF BoundInv
  <2>2. CASE UNCHANGED vars
    <3> USE <2>2 DEF vars, disk, data, staging, archives, markers, memory,
                     decided, history, budgets
    <3>1. Contents' BY <1>1 DEF BoundInv, Contents
    <3>2. Staged'
      <4>1. Selected' = Selected BY DEF Selected, Candidate, Archived
      <4>2. Sources' = Sources BY DEF Sources, NamesIn
      <4> QED BY <1>1, <4>1, <4>2 DEF BoundInv, Staged
    <3>3. Removals'
      BY <1>1 DEF BoundInv, Removals, HalfRemoved, HalfRemovedOK, Prepared
    <3>4. Archiving'
      BY <1>1 DEF BoundInv, Archiving, AuthArchived, ArchArchived, Complete
    <3>5. Verified' BY <1>1 DEF BoundInv, Verified
    <3> QED BY <3>1, <3>2, <3>3, <3>4, <3>5 DEF BoundInv
  <2> QED BY <1>1, <2>1, <2>2
<1> QED BY <1>1, InitBound, Invariance, PTL DEF Spec

(* Under a complete marker every authority and every migrated source is in *)
(* BACKUP under the recorded name with the recorded content, however often *)
(* runs were interrupted and whatever was written or lost since.           *)
THEOREM ArchivesBound == Spec => []CompleteIsBound
<1>1. BoundInv => CompleteIsBound
  BY DEF BoundInv, Contents, WholeIn, Archiving, AuthArchived, ArchArchived,
         CompleteIsBound
<1> QED BY <1>1, BoundInvariance, PTL

(* No manifest binds, and no run that ends well leaves, a database with    *)
(* another key than the one that decrypts it.                              *)
THEOREM GenerationsMatch == Spec => []NoMixedGenerations
<1>1. BoundInv => NoMixedGenerations
  BY DEF BoundInv, Verified, NoMixedGenerations
<1> QED BY <1>1, BoundInvariance, PTL
=============================================================================
