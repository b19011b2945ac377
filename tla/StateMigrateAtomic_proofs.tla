---------------------- MODULE StateMigrateAtomic_proofs ----------------------
(***************************************************************************)
(* What a transaction of the migrator, and a run that ends well, achieve,  *)
(* for every set of entries and every bound, as long as no older package   *)
(* writes to an interrupted transaction (MidwayRollback): the migrator     *)
(* implements AtomicMigration, a complete marker describes canonical       *)
(* state, the root shows canonical state, the next run is idle, and only   *)
(* the two wedges stop a transaction from being resumed.                   *)
(*                                                                         *)
(* phase, plan, state and archive of the abstract transaction are read off *)
(* the marker, the canonical directory and BACKUP.  Replacing MARKER is    *)
(* Prepare or Complete, a commit of recover_canonical_entry is Commit, the *)
(* steps of the snapshot and archive loops are Archive, and every other    *)
(* step of the migrator is invisible.  What has to be known beyond IInv    *)
(* and BoundInv is that canonical state never leaves the plan while it is  *)
(* carried out (Plans).                                                    *)
(***************************************************************************)
EXTENDS StateMigrateBound_proofs

Includes(f) == \A n \in Names : canonical[n] # None => f[n] = canonical[n]
Plans ==
    /\ pc \in Preparing => Includes(manifest.auth)
    /\ Prepared => Includes(marker.auth)
    /\ marker.phase = "prepared" => marker.schema = 2
    /\ result \in {"ok", "used"} => ~Prepared

-----------------------------------------------------------------------------
(* Nothing changes under a prepared marker while no run is active: the     *)
(* application runs after runs that ended well, which leave no such marker. *)
LEMMA PreparedRests ==
  ASSUME ~MidwayRollback, Plans, Next, Prepared, pc = "off"
  PROVE  UNCHANGED <<root, canonical>>
<1>1. CASE ~Environment
  BY <1>1 DEF Next, Migrator, MainStep, ExecuteStep, EntryStep, Start, Resume,
     RefuseTransientLink, RefuseDanglingLink, DropMarkerTemp, RestoreLost,
     Supersede, Tidy, RefuseIncoherentCanonical, FreshLayout, LegacyStart,
     LegacyPrepare, MigrateStart, RemoveStageDir, Classify, Prepare,
     WriteMarkerTemp, SwapPrepared, SwapComplete, TidyStageRemoved, TidyDone,
     CanonicalOnly, NoSources, MakeDirectories, VerifyRecovered, SnapshotsDone,
     ArchivesDone, LinksDone, StageRemoved, RetireTransientLink, LegacyStage,
     RemoveStageEntry, StageSource, RecoverPresent, RecoverCopy, RecoverCommit,
     RefuseRecovery, CopySnapshot, ArchiveSource, RefuseArchive, MakeLink,
     Crash, disk, data
<1>2. CASE Environment
  <2>1. result \notin {"ok", "used"} /\ ~Complete
    BY DEF Plans, Prepared, Complete
  <2> QED BY <1>2, <2>1 DEF Environment, AppWrites, RollbackWrites,
             ConnectorLinks, OldTransientLink, LoseCanonical, data
<1> QED BY <1>1, <1>2

(* Under a prepared marker canonical state changes only by a commit.       *)
LEMMA PreparedCommits ==
  ASSUME ~MidwayRollback, Plans, Next, Prepared \/ pc # "off"
  PROVE  UNCHANGED canonical \/ \E n \in Names : RecoverCommit(n)
BY PreparedRests, CanonicalSteps

(* A manifest that is built includes what is canonical already.            *)
LEMMA BuildingIncludes ==
  ASSUME IInv, BoundInv, Building, pc' = "putPrepared"
  PROVE  Includes(manifest.auth)'
<1>1. UNCHANGED canonical
  BY DEF Building, RestoreLost, Supersede, LegacyPrepare, Prepare, TidyDone,
         Refuse, Finish, Halt, disk, data
<1>2. CASE RestoreLost
  BY <1>1, <1>2 DEF RestoreLost, BoundInv, Verified, Includes
<1>3. ASSUME NEW S, NEW only, manifest' = Manifest(S, only)
      PROVE  Includes(manifest.auth)'
  BY <1>1, <1>3, ManifestBinds DEF Includes
<1>4. CASE Supersede BY <1>3, <1>4 DEF Supersede
<1>5. CASE Prepare BY <1>3, <1>5 DEF Prepare, Refuse, Halt
<1>6. CASE TidyDone BY <1>3, <1>6 DEF TidyDone, Finish, Halt
<1>7. CASE LegacyPrepare
  <2>1. pc = "legacy" /\ manifest' = LegacyManifest
    BY <1>7 DEF LegacyPrepare, Refuse, Halt
  <2>2. \A n \in Names : stage[n] # None => canonical[n] = None
    BY <2>1 DEF BoundInv, Staged
  <2> QED BY <1>1, <2>1, <2>2, LegacyBinds DEF Includes
<1> QED BY <1>2, <1>4, <1>5, <1>6, <1>7 DEF Building

(* The plan of a transaction is kept until it is complete.                 *)
LEMMA PlansStep ==
  ASSUME ~MidwayRollback, IInv, BoundInv, Plans, Next
  PROVE  Plans'
<1>1. Ends /\ Arrivals /\ ManifestsChange
  BY EndSteps, ArrivalSteps, ManifestSteps DEF BoundInv, Removals
<1>2. /\ pc \in Preparing \cup Executing =>
           manifest.schema = 2 /\ manifest.phase = "prepared"
      /\ pc \in Executing => marker = manifest
      /\ Prepared => pc \in {"off", "main"} \cup Executing
      /\ marker \in Markers /\ manifest \in Markers /\ canonical \in Stored
  BY DEF IInv, Control, ManifestOK, TypeOK, DiskTypeOK, RunTypeOK
<1>3. ASSUME pc' \in Preparing PROVE Includes(manifest.auth)'
  <2>1. CASE Building
    <3>1. pc' = "putPrepared"
      BY <1>3, <2>1 DEF Building, RestoreLost, Supersede, LegacyPrepare, Prepare,
                        TidyDone, Refuse, Finish, Halt, Preparing
    <3> QED BY <2>1, <3>1, BuildingIncludes DEF Includes
  <2>2. CASE pc \in Preparing /\ UNCHANGED manifest
    <3>1. UNCHANGED canonical
      BY <2>2, CanonicalSteps DEF Preparing, RecoverCommit
    <3> QED BY <2>2, <3>1 DEF Plans, Includes
  <2> QED BY <1>1, <1>3, <2>1, <2>2 DEF Arrivals
<1>4. SwapComplete => marker'.phase = "complete"
  BY <1>2 DEF SwapComplete, Markers
<1>5. ASSUME Prepared' PROVE Includes(marker.auth)'
  <2>1. CASE SwapPrepared
    BY <2>1 DEF SwapPrepared, data, Plans, Includes, Preparing
  <2>2. CASE UNCHANGED marker
    <3>1. Prepared BY <1>5, <2>2 DEF Prepared
    <3>2. CASE UNCHANGED canonical BY <2>2, <3>1, <3>2 DEF Plans, Includes
    <3>3. ASSUME NEW n \in Names, RecoverCommit(n) PROVE Includes(marker.auth)'
      <4>1. /\ canonical' = [canonical EXCEPT ![n] = marker.auth[n]]
            /\ UNCHANGED marker
        BY <1>2, <3>3 DEF RecoverCommit, Executing, markers
      <4> QED BY <1>2, <3>1, <4>1 DEF Plans, Includes, Stored
    <3> QED BY <3>1, <3>2, <3>3, PreparedCommits
  <2> QED BY <1>1, <1>4, <1>5, <2>1, <2>2 DEF ManifestsChange, Prepared
<1>6. marker'.phase = "prepared" => marker'.schema = 2
  BY <1>1, <1>2, <1>4 DEF ManifestsChange, SwapPrepared, Preparing, Plans
<1>7. ASSUME result' \in {"ok", "used"} PROVE ~Prepared'
  <2>1. CASE SwapComplete BY <1>4, <2>1 DEF Prepared
  <2>2. CASE FreshLayout /\ UNCHANGED <<data, marker>>
    BY <2>2 DEF FreshLayout, Prepared
  <2>3. CASE TidyDone
    <3>1. ~Prepared /\ (UNCHANGED marker)
      BY <1>2, <2>3 DEF TidyDone, Executing, Finish, disk, markers
    <3> QED BY <3>1 DEF Prepared
  <2>4. CASE result' = "used"
    <3>1. result \in {"ok", "used"} /\ pc = "off"
      BY <1>1, <2>4 DEF Ends, BoundInv, Removals
    <3>2. UNCHANGED marker
      BY <1>1, <3>1 DEF ManifestsChange, SwapPrepared, SwapComplete
    <3> QED BY <3>1, <3>2 DEF Plans, Prepared
  <2> QED BY <1>1, <1>7, <2>1, <2>2, <2>3, <2>4 DEF Ends
<1> QED BY <1>3, <1>5, <1>6, <1>7 DEF Plans

(* When a transaction completes canonical state is what it planned.        *)
PlanReached == Prepared /\ marker = manifest /\ canonical = marker.auth

(* Recovery leaves every entry of the plan, and nothing beside it is there. *)
LEMMA CompletePlan ==
  ASSUME IInv, Plans, SwapComplete
  PROVE  PlanReached
<1>1. /\ pc = "swapComplete" /\ marker = manifest /\ Prepared
      /\ marker \in Markers /\ Destined(marker) /\ canonical \in Stored
  BY DEF IInv, Control, ManifestOK, TypeOK, DiskTypeOK, SwapComplete, Executing,
         Prepared
<1>2. ASSUME NEW n \in Names PROVE canonical[n] = marker.auth[n]
  <2>1. CASE n \in marker.names
    BY <1>1, <2>1 DEF IInv, Control, ProgressOK, Recovered, Executing
  <2>2. CASE n \notin marker.names
    <3>1. marker.auth[n] = None
      BY <1>1, <2>2, StoredNames DEF Destined, Markers, Prepared
    <3> QED BY <1>1, <3>1 DEF Plans, Includes
  <2> QED BY <2>1, <2>2
<1> QED BY <1>1, <1>2 DEF PlanReached, Markers, Stored

-----------------------------------------------------------------------------
(* The refinement.                                                         *)

Content == {c \in Names \X Entries : \E s \in Slots : backup[c[1]][s] = c[2]}

(* Each step of the migrator is a step of the abstract transaction or      *)
(* invisible to it.                                                        *)
LEMMA StepImplements ==
  ASSUME ~MidwayRollback, IInv, BoundInv, Plans, [Next]_vars, IInv'
  PROVE  [Atomic!Next]_(Atomic!vars)
<1> USE DEF Atomic!Next, Atomic!vars
<1>1. CASE UNCHANGED vars
  BY <1>1 DEF vars, disk, data, archives, markers
<1> SUFFICES ASSUME Next PROVE [Atomic!Next]_(Atomic!vars) BY <1>1
<1>2. ManifestsChange BY ManifestSteps
<1>3. /\ pc \in Preparing \cup Executing =>
           manifest.schema = 2 /\ manifest.phase = "prepared"
      /\ pc \in Executing => marker = manifest
      /\ Prepared => pc \in {"off", "main"} \cup Executing
      /\ marker \in Markers /\ Destined(marker)
      /\ canonical \in Stored /\ canonical' \in Stored
      /\ marker.phase = "prepared" <=> Prepared
  BY DEF IInv, Control, ManifestOK, TypeOK, DiskTypeOK, RunTypeOK, Plans, Prepared
<1>4. ASSUME NEW n \in Names, CopySnapshot(n) \/ ArchiveSource(n)
      PROVE  Atomic!Archive
  <2>1. pc \in {"snapshot", "archive"} /\ UNCHANGED <<canonical, marker>>
    BY <1>4 DEF CopySnapshot, ArchiveSource, Refuse, disk, data, archives, markers
  <2>2. Prepared BY <1>3, <2>1 DEF Executing, Prepared
  <2>3. Content \subseteq Content'
    BY ArchivesKeptStep, NoneAssumption DEF Content, ArchivesKept
  <2> QED BY <1>3, <2>1, <2>2, <2>3 DEF Atomic!Archive, Content
<1>5. ASSUME NEW n \in Names, RecoverCommit(n)
      PROVE  Atomic!Commit(n)
  <2>1. Prepared /\ marker = manifest
    BY <1>3, <1>5 DEF RecoverCommit, Executing, Prepared
  <2> QED BY <1>3, <1>5, <2>1
          DEF RecoverCommit, Atomic!Commit, markers, archives
<1>6. CASE SwapPrepared
  BY <1>3, <1>6 DEF SwapPrepared, Preparing, Executing, data, archives,
     Atomic!Prepare, Atomic!Extends, Atomic!States, Stored, Markers, Plans,
     Includes, IInv, TypeOK, RunTypeOK
<1>7. CASE SwapComplete
  <2>1. PlanReached BY <1>7, CompletePlan
  <2>2. /\ pc = "swapComplete" /\ marker = manifest /\ Prepared
        /\ marker' = [marker EXCEPT !.phase = "complete"]
        /\ UNCHANGED <<canonical, backup>>
    BY <1>3, <1>7, <2>1 DEF SwapComplete, PlanReached, data, archives
  <2>3. ASSUME NEW n \in Names, NEW e \in Entries, marker.auth[n] = e
        PROVE  \E s \in Slots : backup[n][s] = e
    <3>1. e # None BY NoneAssumption
    <3>2. backup[n][marker.authSlot[n]] = e
      BY <2>2, <2>3, <3>1 DEF BoundInv, Archiving, Linked, AuthArchived
    <3>3. marker.authSlot[n] \in Slots
      BY <1>3, <2>2, <2>3, <3>1, StoredNames DEF Destined, Markers, Prepared
    <3> QED BY <3>2, <3>3
  <2>4. Atomic!Content(marker.auth) \subseteq Content
    BY <2>3 DEF Atomic!Content, Content
  <2>5. marker'.phase = "complete" /\ marker'.auth = marker.auth
    BY <1>3, <2>2 DEF Markers
  <2> QED BY <1>3, <2>1, <2>2, <2>4, <2>5 DEF PlanReached, Atomic!Complete, Content
<1>8. CASE UNCHANGED <<backup, canonical, marker>> BY <1>8
<1>9. CASE /\ UNCHANGED <<backup, marker>>
           /\ ~(UNCHANGED canonical) /\ ~\E n \in Names : RecoverCommit(n)
  <2>1. ~Prepared BY <1>9, PreparedCommits
  <2> QED BY <1>3, <1>9, <2>1 DEF Atomic!ApplicationsWrite, Atomic!States, Stored
<1>10. SwapPrepared \/ SwapComplete \/ UNCHANGED marker
  BY <1>2 DEF ManifestsChange
<1> QED BY <1>4, <1>5, <1>6, <1>7, <1>8, <1>9, <1>10, ArchiveSteps

(* Initially no transaction has begun, and the archives hold something or  *)
(* nothing.                                                                *)
LEMMA InitImplements ==
  ASSUME Init
  PROVE  Plans /\ Atomic!Init
<1>1. marker = NoMarker \/ \E S : marker = LegacyMarker(S)
  BY DEF Init, InitBundles, InitInterim, InitCommitLoop, InitTornCleanup,
         InitLegacy
<1>2. marker.phase = "none" /\ marker.auth = Nothing /\ marker.schema # 2
  BY <1>1 DEF NoMarker, LegacyMarker, Unbound
<1>3. pc = "off" /\ result = "none" BY DEF Init
<1>4. canonical \in Stored BY InitIInv DEF IInv, TypeOK, DiskTypeOK
<1>5. Plans BY <1>2, <1>3 DEF Plans, Prepared, Preparing
<1>6. Atomic!Init BY <1>2, <1>4 DEF Atomic!Init, Atomic!States, Stored, Nothing
<1> QED BY <1>5, <1>6

(* Canonical state never leaves the plan, in every reachable state.        *)
THEOREM PlansInvariance == ASSUME ~MidwayRollback PROVE Spec => []Plans
<1>1. ASSUME IInv, BoundInv, Plans, [Next]_vars PROVE Plans'
  <2>1. CASE UNCHANGED vars
    BY <1>1, <2>1 DEF vars, disk, data, markers, memory, history, Plans, Includes,
                      Prepared
  <2> QED BY <1>1, <2>1, PlansStep
<1>2. Init => Plans BY InitImplements
<1> QED BY <1>1, <1>2, Invariance, BoundInvariance, PTL DEF Spec

(* The migrator with its crashes and its environment implements the atomic *)
(* transaction: the marker binds the whole outcome in one step, canonical  *)
(* state grows towards it entry by entry, and it completes only when the   *)
(* outcome is there and archived.                                          *)
THEOREM Implements == ASSUME ~MidwayRollback PROVE Spec => AtomicSpec
<1>1. Init => Atomic!Init BY InitImplements
<1>2. ASSUME IInv, BoundInv, Plans, [Next]_vars, IInv'
      PROVE  [Atomic!Next]_(Atomic!vars)
  BY <1>2, StepImplements
<1> QED BY <1>1, <1>2, Invariance, BoundInvariance, PlansInvariance, PTL
        DEF Spec, AtomicSpec, Atomic!Spec

-----------------------------------------------------------------------------
(* What a run that ends well leaves behind.                                *)

Outcome ==
    /\ pc \in Tidying /\ marker.schema = 2 => canonical = marker.auth
    /\ MarkerCurrent

(* A run ends well after it completed a transaction, after it compared the *)
(* marker with canonical state, or when there is no marker to compare.     *)
LEMMA OutcomeStep ==
  ASSUME IInv, BoundInv, Plans, Outcome, Next
  PROVE  Outcome'
<1>1. Ends /\ Arrivals /\ ManifestsChange
  BY EndSteps, ArrivalSteps, ManifestSteps DEF BoundInv, Removals
<1>2. marker \in Markers /\ Destined(marker) /\ canonical \in Stored
  BY DEF IInv, TypeOK, DiskTypeOK
<1>3. ASSUME pc' \in Tidying, marker'.schema = 2
      PROVE  canonical' = marker'.auth
  <2>1. CASE Tidy
    <3>1. MarkerMatches /\ UNCHANGED <<canonical, marker>>
      BY <1>3, <2>1 DEF Tidy, disk, data, markers
    <3>2. \A n \in Names : canonical[n] = marker.auth[n]
      BY <1>2, <1>3, <3>1, StoredNames DEF MarkerMatches, Destined, Markers
    <3> QED BY <1>2, <3>1, <3>2 DEF Markers, Stored
  <2>2. CASE pc \in Tidying
    <3>1. UNCHANGED canonical BY <2>2, CanonicalSteps DEF Tidying, RecoverCommit
    <3>2. UNCHANGED marker
      BY <1>1, <2>2 DEF Tidying, ManifestsChange, SwapPrepared, SwapComplete
    <3> QED BY <1>3, <2>2, <3>1, <3>2 DEF Outcome
  <2> QED BY <1>1, <1>3, <2>1, <2>2 DEF Arrivals
<1>4. ASSUME result' = "ok", Complete' PROVE marker'.auth = canonical'
  <2>1. CASE SwapComplete
    <3>1. PlanReached BY <2>1, CompletePlan
    <3> QED BY <1>2, <2>1, <3>1 DEF PlanReached, SwapComplete, Markers, data
  <2>2. CASE FreshLayout /\ UNCHANGED <<data, marker>>
    BY <1>4, <2>2 DEF FreshLayout, Complete
  <2>3. CASE TidyDone /\ UNCHANGED data
    <3>1. pc \in Tidying /\ UNCHANGED <<canonical, marker>>
      BY <2>3 DEF TidyDone, Tidying, Finish, disk, data, markers
    <3> QED BY <1>4, <3>1 DEF Outcome, Complete
  <2> QED BY <1>1, <1>4, <2>1, <2>2, <2>3 DEF Ends
<1> QED BY <1>3, <1>4 DEF Outcome, MarkerCurrent

(* After every run that ended well a complete marker describes canonical   *)
(* state, so that a later recovery restores nothing older.                 *)
THEOREM MarkerDescribes == ASSUME ~MidwayRollback PROVE Spec => []MarkerCurrent
<1>1. Init => Outcome
  <2> SUFFICES ASSUME Init PROVE Outcome OBVIOUS
  <2>1. pc = "off" /\ result = "none" BY DEF Init
  <2> QED BY <2>1 DEF Outcome, MarkerCurrent, Tidying
<1>2. ASSUME IInv, BoundInv, Plans, Outcome, [Next]_vars PROVE Outcome'
  <2>1. CASE UNCHANGED vars
    BY <1>2, <2>1 DEF vars, disk, data, markers, memory, history, Outcome,
                      MarkerCurrent, Complete
  <2> QED BY <1>2, <2>1, OutcomeStep
<1>3. Outcome => MarkerCurrent BY DEF Outcome
<1> QED BY <1>1, <1>2, <1>3, Invariance, BoundInvariance, PlansInvariance, PTL
        DEF Spec

-----------------------------------------------------------------------------
(* The compatibility links.                                                *)

LinksOK ==
    /\ pc \notin {"off", "main"} \/ Prepared => DanglingLinks = {}
    /\ pc \in Preparing => Sources \subseteq NamesIn(manifest.arch)
    /\ Prepared => Sources \subseteq NamesIn(marker.arch)
    /\ pc = "archive" => Sources \subseteq todo
    /\ pc \in Linked \cup Tidying \cup {"legacy"} => Sources = {}
    /\ pc \in {"links", "tidyLinks"} =>
         todo \subseteq Unlinked /\ \A n \in Unlinked \ todo : root[n] = Link
    /\ pc \in Linked \ {"links"} => \A n \in Unlinked : root[n] = Link
    /\ pc \in (Linked \ {"links"}) \cup Tidying => LinkedTransients = {}

(* What may change in the root and in canonical state during a run, or     *)
(* while a transaction waits to be resumed.                                *)
RootMove(n) ==
    /\ UNCHANGED canonical
    /\ \/ /\ root' = [root EXCEPT ![n] = None]
          /\ pc # "archive" => pc \in {"main", "links"} /\ n \in Transient
       \/ /\ root' = [root EXCEPT ![n] = Torn(root[n])] /\ n \in Sources
          /\ pc = "archive"
       \/ /\ root' = [root EXCEPT ![n] = Link] /\ n \in todo
          /\ pc \in {"links", "tidyLinks"}

(* The root changes by retiring, archiving and linking only.               *)
LEMMA RootMoves ==
  ASSUME ~MidwayRollback, Plans, Next, Prepared \/ pc # "off"
  PROVE  \/ UNCHANGED <<root, canonical>>
         \/ UNCHANGED root /\ \E n \in Names : RecoverCommit(n)
         \/ \E n \in Names : RootMove(n)
<1>1. CASE pc = "off" BY <1>1, PreparedRests
<1>2. ASSUME NEW n \in Names, RecoverCommit(n) PROVE UNCHANGED root
  BY <1>2 DEF RecoverCommit
<1>3. ASSUME NEW n \in Names,
             RetireTransientLink(n) \/ ArchiveSource(n) \/ MakeLink(n)
      PROVE  UNCHANGED <<root, canonical>> \/ RootMove(n)
  BY <1>3 DEF RetireTransientLink, LinkedTransients, ArchiveSource, MakeLink,
              Refuse, disk, data, RootMove
<1> QED BY <1>1, <1>2, <1>3, PreparedCommits, RootSteps

(* Which steps enter the loops over the links.                             *)
LinkArrivals ==
    /\ pc = "off" => pc' \in {"off", "main"}
    /\ pc = "main" /\ pc' \notin {"off", "main"} => Resume \/ Admissible
    /\ pc' = "links" =>
         \/ ArchivesDone
         \/ pc = "links" /\ (UNCHANGED todo \/ \E n \in Names : MakeLink(n))
    /\ pc' = "tidyLinks" =>
         \/ TidyStageRemoved
         \/ pc = "tidyLinks" /\ (UNCHANGED todo \/ \E n \in Names : MakeLink(n))
    /\ pc' = "tidyStage" => Tidy \/ pc = "tidyStage"
    /\ pc' \in Linked \ {"links"} => LinksDone \/ pc \in Linked \ {"links"}
    /\ pc' = "archive" =>
         \/ SnapshotsDone
         \/ \E n \in Names : ArchiveSource(n)

(* Each place is entered by the step the program order gives.              *)
LEMMA LinkArrivalSteps ==
  ASSUME Next
  PROVE  LinkArrivals
<1> USE DEF LinkArrivals, Linked, Refuse, Halt, Goto
<1>1. CASE MainStep
  BY <1>1 DEF MainStep, Start, Resume, RefuseTransientLink, RefuseDanglingLink,
     DropMarkerTemp, RestoreLost, Supersede, Tidy, RefuseIncoherentCanonical,
     FreshLayout, LegacyStart, LegacyPrepare, MigrateStart, RemoveStageDir,
     Classify, Prepare, WriteMarkerTemp, SwapPrepared, SwapComplete,
     TidyStageRemoved, TidyDone, Finish, memory, CanonicalOnly, NoSources
<1>2. CASE ExecuteStep
  BY <1>2 DEF ExecuteStep, MakeDirectories, VerifyRecovered, SnapshotsDone,
     ArchivesDone, LinksDone, StageRemoved, memory
<1>3. ASSUME NEW n \in Names, EntryStep(n)
      PROVE  LinkArrivals
  BY <1>3 DEF EntryStep, RetireTransientLink, LegacyStage, RemoveStageEntry,
     StageSource, RecoverPresent, RecoverCopy, RecoverCommit, RefuseRecovery,
     CopySnapshot, ArchiveSource, RefuseArchive, MakeLink, memory
<1>4. CASE Crash BY <1>4 DEF Crash
<1>5. CASE Environment
  BY <1>5 DEF Environment, AppWrites, RollbackWrites, OldTransientLink,
     ConnectorLinks, LoseCanonical, Idle
<1> QED BY <1>1, <1>2, <1>3, <1>4, <1>5 DEF Next, Migrator

(* Every source that is found is archived before its link is made, and no  *)
(* link is made to nothing.                                                *)
LEMMA LinksStep ==
  ASSUME ~MidwayRollback, IInv, BoundInv, Plans, LinksOK, Next
  PROVE  LinksOK'
<1> USE NoneAssumption
<1>1. Arrivals /\ ManifestsChange /\ LinkArrivals
  BY ArrivalSteps, ManifestSteps, LinkArrivalSteps
<1>2. /\ pc \in Preparing \cup Executing =>
           manifest.schema = 2 /\ manifest.phase = "prepared"
      /\ pc \in Executing => marker = manifest
      /\ root \in [Names -> Entries \cup {None, Link}]
      /\ canonical \in Stored
  BY DEF IInv, Control, ManifestOK, TypeOK, DiskTypeOK, RunTypeOK
<1>3. Prepared \/ pc # "off" => Sources' \subseteq Sources
  BY <1>2, RootMoves DEF RootMove, Sources, NamesIn
<1>4. pc' \notin {"off", "main"} => pc # "off" BY <1>1 DEF LinkArrivals
<1>5. ASSUME pc' \notin {"off", "main"} \/ Prepared' PROVE DanglingLinks' = {}
  <2>1. DanglingLinks = {} /\ (Prepared \/ pc # "off")
    <3>1. CASE pc \notin {"off", "main"} BY <3>1 DEF LinksOK
    <3>2. CASE pc \in {"off", "main"}
      <4>1. UNCHANGED marker
        BY <1>1, <3>2 DEF ManifestsChange, SwapPrepared, SwapComplete
      <4>2. CASE Prepared BY <4>2 DEF LinksOK
      <4>3. CASE ~Prepared
        <5>1. pc = "main" /\ pc' \notin {"off", "main"}
          BY <1>4, <1>5, <3>2, <4>1, <4>3 DEF Prepared
        <5>2. Admissible BY <1>1, <4>3, <5>1 DEF LinkArrivals, Resume
        <5> QED BY <5>1, <5>2 DEF Admissible
      <4> QED BY <4>2, <4>3
    <3> QED BY <3>1, <3>2
  <2>2. \A n \in Names : root[n] = Link => canonical[n] # None
    BY <2>1 DEF DanglingLinks
  <2>3. CASE UNCHANGED <<root, canonical>> BY <2>2, <2>3 DEF DanglingLinks
  <2>4. CASE UNCHANGED root /\ \E n \in Names : RecoverCommit(n)
    <3>1. PICK m \in Names : RecoverCommit(m) BY <2>4
    <3>2. canonical[m] = None /\ canonical' = [canonical EXCEPT ![m] = stage[m]]
      BY <3>1 DEF RecoverCommit
    <3>3. \A n \in Names : canonical[n] # None => canonical'[n] # None
      BY <1>2, <3>2 DEF Stored
    <3> QED BY <2>2, <2>4, <3>3 DEF DanglingLinks
  <2>5. ASSUME NEW m \in Names, RootMove(m) PROVE DanglingLinks' = {}
    <3>1. UNCHANGED canonical BY <2>5 DEF RootMove
    <3>2. \A n \in Names : root'[n] = Link => root[n] = Link \/ n = m
      BY <1>2, <2>5 DEF RootMove
    <3>3. root'[m] = Link => canonical[m] # None
      <4>1. root'[m] = Link => m \in todo /\ pc \in {"links", "tidyLinks"}
        <5>1. m \in Sources => root[m] \in Entries BY DEF Sources, NamesIn
        <5>2. m \in Sources => Torn(root[m]) # Link BY <5>1, TornType
        <5> QED BY <1>2, <2>5, <5>2 DEF RootMove
      <4>2. pc \in {"links", "tidyLinks"} => todo \subseteq NamesIn(canonical)
        BY DEF LinksOK, Unlinked
      <4> QED BY <4>1, <4>2 DEF NamesIn
    <3> QED BY <2>2, <3>1, <3>2, <3>3 DEF DanglingLinks
  <2> QED BY <2>1, <2>3, <2>4, <2>5, RootMoves
<1>6. ASSUME pc' \in Preparing PROVE Sources' \subseteq NamesIn(manifest.arch)'
  <2>1. CASE Building
    <3>1. UNCHANGED root
      BY <2>1 DEF Building, RestoreLost, Supersede, LegacyPrepare, Prepare,
                  TidyDone, Refuse, Finish, Halt, disk, data
    <3>2. Sources = {} => Sources' \subseteq NamesIn(manifest.arch)'
      BY <3>1 DEF Sources, NamesIn
    <3>3. ~Prepare => Sources = {}
      BY <2>1 DEF Building, RestoreLost, Supersede, CanonicalOnly, NoSources,
                  LegacyPrepare, TidyDone, LinksOK, Tidying
    <3>4. CASE Prepare
      <4>1. manifest' = Manifest(Sources, archiveOnly)
        BY <1>6, <3>4 DEF Prepare, Refuse, Halt, Preparing
      <4>2. \A n \in Names : n \in Sources => manifest'.arch[n] = root[n]
        BY <4>1, ManifestBinds
      <4> QED BY <3>1, <4>2 DEF Sources, NamesIn
    <3> QED BY <3>2, <3>3, <3>4
  <2>2. CASE pc \in Preparing /\ UNCHANGED manifest
    BY <1>3, <2>2 DEF LinksOK, Preparing
  <2> QED BY <1>1, <1>6, <2>1, <2>2 DEF Arrivals
<1>7. ASSUME Prepared' PROVE Sources' \subseteq NamesIn(marker.arch)'
  <2>1. CASE SwapPrepared
    BY <1>3, <2>1 DEF SwapPrepared, LinksOK, Preparing
  <2>2. CASE SwapComplete
    <3>1. manifest \in Markers BY DEF IInv, TypeOK, RunTypeOK
    <3> QED BY <1>7, <2>2, <3>1 DEF SwapComplete, Markers, Prepared
  <2>3. CASE UNCHANGED marker
    BY <1>3, <1>7, <2>3 DEF LinksOK, Prepared
  <2> QED BY <1>1, <2>1, <2>2, <2>3 DEF ManifestsChange
<1>8. ASSUME pc' = "archive" PROVE Sources' \subseteq todo'
  <2>1. CASE SnapshotsDone
    <3>1. /\ todo' = NamesIn(manifest.arch) /\ marker = manifest /\ Prepared
          /\ pc # "off"
      BY <1>2, <2>1 DEF SnapshotsDone, Goto, Executing, Prepared
    <3> QED BY <1>3, <3>1 DEF LinksOK
  <2>2. ASSUME NEW n \in Names, ArchiveSource(n) PROVE Sources' \subseteq todo'
    <3>1. pc = "archive" /\ Sources \subseteq todo
      BY <2>2 DEF ArchiveSource, LinksOK
    <3>2. \/ todo' = todo
          \/ todo' = todo \ {n} /\ n \notin Sources'
      BY <1>2, <2>2 DEF ArchiveSource, Sources, NamesIn
    <3> QED BY <1>3, <3>1, <3>2
  <2> QED BY <1>1, <1>8, <2>1, <2>2 DEF LinkArrivals
<1>9. ASSUME pc' \in Linked \cup Tidying \cup {"legacy"} PROVE Sources' = {}
  <2>1. pc' \notin {"off", "main"} BY <1>9 DEF Linked, Tidying
  <2>2. Sources = {}
    <3>1. CASE pc \in Linked \cup Tidying \cup {"legacy"} BY <3>1 DEF LinksOK
    <3>2. CASE ArchivesDone BY <3>2 DEF ArchivesDone, LinksOK
    <3>3. CASE LegacyStart \/ Tidy
      BY <3>3 DEF LegacyStart, Tidy, CanonicalOnly, NoSources
    <3>4. (\E n \in Names : LegacyStage(n)) => pc = "legacy" BY DEF LegacyStage
    <3> QED BY <1>1, <1>9, <3>1, <3>2, <3>3, <3>4 DEF Arrivals
  <2> QED BY <1>3, <1>4, <2>1, <2>2
<1>10. ASSUME pc' \in {"links", "tidyLinks"}
       PROVE  /\ todo' \subseteq Unlinked'
              /\ \A n \in Unlinked' \ todo' : root'[n] = Link
  <2>1. CASE ArchivesDone \/ TidyStageRemoved
    <3>1. todo' = Unlinked /\ UNCHANGED canonical
      BY <1>10, <2>1 DEF ArchivesDone, TidyStageRemoved, Refuse, Halt, Goto, disk, data
    <3>2. UNCHANGED Unlinked BY <3>1 DEF Unlinked, NamesIn
    <3> QED BY <3>1, <3>2
  <2>2. CASE pc \in {"links", "tidyLinks"}
    <3>1. UNCHANGED canonical
      BY <2>2, CanonicalSteps DEF RecoverCommit
    <3>2. UNCHANGED Unlinked BY <3>1 DEF Unlinked, NamesIn
    <3>3. todo \subseteq Unlinked /\ \A n \in Unlinked \ todo : root[n] = Link
      BY <2>2 DEF LinksOK
    <3>4. Unlinked \subseteq Names /\ Unlinked \cap Transient = {}
      BY DEF Unlinked, NamesIn
    <3>5. CASE UNCHANGED todo
      <4>1. \A n \in Unlinked : root[n] = Link => root'[n] = Link
        BY <1>2, <2>2, <3>4, RootMoves DEF RootMove
      <4> QED BY <3>2, <3>3, <3>5, <4>1
    <3>6. ASSUME NEW n \in Names, MakeLink(n)
          PROVE  /\ todo' \subseteq Unlinked'
                 /\ \A m \in Unlinked' \ todo' : root'[m] = Link
      <4>1. todo' = todo \ {n} /\ root' = [root EXCEPT ![n] = Link]
        BY <1>10, <3>6 DEF MakeLink, Refuse, Halt
      <4>2. \A m \in Names : root'[m] = Link <=> (m = n \/ root[m] = Link)
        BY <1>2, <4>1
      <4> QED BY <3>2, <3>3, <3>4, <4>1, <4>2
    <3> QED BY <1>1, <1>10, <2>1, <3>5, <3>6 DEF LinkArrivals
  <2> QED BY <1>1, <1>10, <2>1, <2>2 DEF LinkArrivals
<1>11. ASSUME pc' \in Linked \ {"links"}
       PROVE  \A n \in Unlinked' : root'[n] = Link
  <2>1. UNCHANGED <<root, canonical>>
    <3>1. CASE LinksDone BY <3>1 DEF LinksDone, disk, data
    <3>2. CASE pc \in Linked \ {"links"}
      BY <3>2, RootMoves DEF RootMove, RecoverCommit, Linked
    <3> QED BY <1>1, <1>11, <3>1, <3>2 DEF LinkArrivals
  <2>2. \A n \in Unlinked : root[n] = Link
    BY <1>1, <1>11 DEF LinkArrivals, LinksDone, LinksOK
  <2>3. UNCHANGED Unlinked BY <2>1 DEF Unlinked, NamesIn
  <2> QED BY <2>1, <2>2, <2>3
<1>12. ASSUME pc' \in (Linked \ {"links"}) \cup Tidying
       PROVE  LinkedTransients' = {}
  <2>1. CASE LinksDone \/ Tidy
    BY <2>1 DEF LinksDone, Tidy, CanonicalOnly, NoSources, Admissible,
                LinkedTransients, disk, data
  <2>2. CASE pc \in (Linked \ {"links"}) \cup Tidying
    <3>1. LinkedTransients = {} BY <2>2 DEF LinksOK
    <3>2. ASSUME NEW m \in Names, RootMove(m) PROVE LinkedTransients' = {}
      <4>1. pc = "tidyLinks" /\ m \in todo /\ root' = [root EXCEPT ![m] = Link]
        BY <2>2, <3>2 DEF RootMove, Linked, Tidying
      <4>2. m \notin Transient BY <4>1 DEF LinksOK, Unlinked
      <4> QED BY <1>2, <3>1, <4>1, <4>2, NamesAssumption DEF LinkedTransients
    <3>3. UNCHANGED root => LinkedTransients' = {}
      BY <3>1 DEF LinkedTransients
    <3> QED BY <2>2, <3>2, <3>3, RootMoves DEF Linked, Tidying
  <2> QED BY <1>1, <1>12, <2>1, <2>2 DEF LinkArrivals, Arrivals
<1> QED BY <1>5, <1>6, <1>7, <1>8, <1>9, <1>10, <1>11, <1>12 DEF LinksOK

(* A run that ends well has moved every source and made every link.        *)
LEMMA EndsLinked ==
  ASSUME IInv, BoundInv, LinksOK, RollbackSeesCanonical, Next
  PROVE  RollbackSeesCanonical'
<1> USE NoneAssumption
<1>1. Ends BY EndSteps DEF BoundInv, Removals
<1>2. /\ root \in [Names -> Entries \cup {None, Link}] /\ canonical \in Stored
  BY DEF IInv, TypeOK, DiskTypeOK
<1>3. SUFFICES ASSUME result' = "ok", NEW n \in Names
               PROVE  IF n \in Transient THEN root'[n] = None
                      ELSE RollbackView[n]' = canonical'[n]
  BY DEF RollbackSeesCanonical
<1>4. UNCHANGED <<root, canonical>> /\ Sources = {}
  BY <1>1, <1>3 DEF Ends, SwapComplete, FreshLayout, NoSources, TidyDone, data,
                    LinksOK, Linked, Tidying
<1>5. root[n] \in {None, Link} BY <1>2, <1>4 DEF Sources, NamesIn
<1>6. CASE FreshLayout
  <2>1. canonical[n] = None BY <1>6 DEF FreshLayout, BoundInv, Verified
  <2>2. root[n] # Link
    BY <1>6, <2>1 DEF FreshLayout, NoSources, Admissible, DanglingLinks
  <2> QED BY <1>4, <1>5, <2>1, <2>2 DEF RollbackView
<1>7. CASE SwapComplete \/ TidyDone
  <2>1. /\ LinkedTransients = {}
        /\ \A m \in Unlinked : root[m] = Link
    BY <1>7 DEF SwapComplete, TidyDone, LinksOK, Linked, Tidying
  <2>2. n \in Transient => root[n] = None
    BY <1>5, <2>1 DEF LinkedTransients
  <2>3. n \notin Transient /\ canonical[n] # None => root[n] = Link
    BY <1>2, <2>1 DEF Unlinked, NamesIn, Stored
  <2> QED BY <1>4, <1>5, <2>2, <2>3 DEF RollbackView
<1> QED BY <1>1, <1>3, <1>6, <1>7 DEF Ends

(* After a run that ended well an older package that uses the root sees    *)
(* exactly the canonical state, the transient SQLite files aside.          *)
THEOREM RollbackIsSafe ==
  ASSUME ~MidwayRollback
  PROVE  Spec => []RollbackSeesCanonical
<1>1. Init => LinksOK /\ RollbackSeesCanonical
  <2> SUFFICES ASSUME Init PROVE LinksOK /\ RollbackSeesCanonical OBVIOUS
  <2>1. pc = "off" /\ result = "none" /\ marker.phase = "none"
    BY InitImplements DEF Init, Atomic!Init
  <2> QED BY <2>1 DEF LinksOK, RollbackSeesCanonical, Prepared, Preparing, Linked,
             Tidying
<1>2. ASSUME IInv, BoundInv, Plans, LinksOK, RollbackSeesCanonical, [Next]_vars
      PROVE  LinksOK' /\ RollbackSeesCanonical'
  <2>1. CASE UNCHANGED vars
    <3> USE <2>1 DEF vars, disk, data, markers, memory, history
    <3>1. LinksOK'
      BY <1>2 DEF LinksOK, DanglingLinks, LinkedTransients, Unlinked, Sources,
                  NamesIn, Prepared
    <3>2. RollbackSeesCanonical' BY <1>2 DEF RollbackSeesCanonical, RollbackView
    <3> QED BY <3>1, <3>2
  <2> QED BY <1>2, <2>1, LinksStep, EndsLinked
<1> QED BY <1>1, <1>2, Invariance, BoundInvariance, PlansInvariance, PTL DEF Spec

-----------------------------------------------------------------------------
(* Running again.                                                          *)

(* What the last loops leave of staging and of the canonical directory.    *)
Removed ==
    /\ pc \in {"putComplete", "swapComplete", "tidyLinks"} => ~stageDir
    /\ pc \in (Executing \ {"execute"}) \cup Tidying => canonDir
    /\ pc \in Tidying /\ marker.schema = 2 => MarkerMatches
    /\ marker.schema = 2 => marker.phase # "none"

(* Where nothing is left to do: in particular no interrupted verification  *)
(* left a directory behind.                                                *)
Settled ==
    /\ litter = {}
    /\ ~Prepared /\ ~stageDir
    /\ marker.schema = 1 => ~canonDir /\ marker.names = {}
    /\ marker.schema = 2 => canonDir /\ MarkerMatches
    /\ Sources = {} /\ DanglingLinks = {} /\ LinkedTransients = {}
    /\ \A n \in Unlinked : root[n] = Link
Quiet ==
    /\ result = "ok" => pc = "off" /\ (litter = {} => Settled)
    /\ result = "rerun" => Settled /\ pc \in {"main", "tidyStage", "tidyLinks"}

Kept == <<data, staging, backup, marker>>

(* The directories at each place of the program.                           *)
Directories ==
    /\ pc' \in {"putComplete", "swapComplete", "tidyLinks"} => ~stageDir'
    /\ pc' \in (Executing \ {"execute"}) \cup Tidying => canonDir'

(* Each later place is entered after the directory was made or removed.    *)
LEMMA DirectorySteps ==
  ASSUME Removed, Next, pc # "off", pc' # "off"
  PROVE  Directories
<1> USE DEF Directories, Removed, Executing, Tidying, Refuse, Halt, Goto, disk,
     data, staging, memory
<1>1. CASE MainStep
  BY <1>1 DEF MainStep, Start, Resume, RefuseTransientLink, RefuseDanglingLink,
     DropMarkerTemp, RestoreLost, Supersede, Tidy, RefuseIncoherentCanonical,
     FreshLayout, LegacyStart, LegacyPrepare, MigrateStart, RemoveStageDir,
     Classify, Prepare, WriteMarkerTemp, SwapPrepared, SwapComplete,
     TidyStageRemoved, TidyDone, Finish, CanonicalOnly, NoSources
<1>2. CASE ExecuteStep
  BY <1>2 DEF ExecuteStep, MakeDirectories, VerifyRecovered, SnapshotsDone,
     ArchivesDone, LinksDone, StageRemoved
<1>3. ASSUME NEW n \in Names, EntryStep(n)
      PROVE  Directories
  BY <1>3 DEF EntryStep, RetireTransientLink, LegacyStage, RemoveStageEntry,
     StageSource, RecoverPresent, RecoverCopy, RecoverCommit, RefuseRecovery,
     CopySnapshot, ArchiveSource, RefuseArchive, MakeLink
<1>4. CASE Crash BY <1>4 DEF Crash
<1>5. CASE Environment
  BY <1>5 DEF Environment, AppWrites, RollbackWrites, OldTransientLink,
     ConnectorLinks, LoseCanonical, Idle
<1> QED BY <1>1, <1>2, <1>3, <1>4, <1>5 DEF Next, Migrator

(* Only a crash leaves a directory of the verification behind.             *)
LEMMA LitterSteps ==
  ASSUME Next
  PROVE  Crash \/ litter' \subseteq litter
<1> USE DEF Refuse, Halt, disk
<1>1. CASE MainStep
  BY <1>1 DEF MainStep, Start, Resume, RefuseTransientLink, RefuseDanglingLink,
     DropMarkerTemp, RestoreLost, Supersede, Tidy, RefuseIncoherentCanonical,
     FreshLayout, LegacyStart, LegacyPrepare, MigrateStart, RemoveStageDir,
     Classify, Prepare, WriteMarkerTemp, SwapPrepared, SwapComplete,
     TidyStageRemoved, TidyDone, Finish
<1>2. CASE ExecuteStep
  BY <1>2 DEF ExecuteStep, MakeDirectories, VerifyRecovered, SnapshotsDone,
     ArchivesDone, LinksDone, StageRemoved
<1>3. ASSUME NEW n \in Names, EntryStep(n)
      PROVE  litter' \subseteq litter
  BY <1>3 DEF EntryStep, RetireTransientLink, LegacyStage, RemoveStageEntry,
     StageSource, RecoverPresent, RecoverCopy, RecoverCommit, RefuseRecovery,
     CopySnapshot, ArchiveSource, RefuseArchive, MakeLink
<1>4. CASE Environment
  BY <1>4 DEF Environment, AppWrites, RollbackWrites, OldTransientLink,
     ConnectorLinks, LoseCanonical
<1> QED BY <1>1, <1>2, <1>3, <1>4 DEF Next, Migrator

(* The directories are there, or removed, when a later place is reached.   *)
LEMMA RemovedStep ==
  ASSUME IInv, Removed, Next
  PROVE  Removed'
<1>1. ManifestsChange BY ManifestSteps
<1>0. marker'.schema = 2 => marker'.phase # "none"
  <2>1. manifest \in Markers BY DEF IInv, TypeOK, RunTypeOK
  <2> QED BY <1>1, <2>1
          DEF ManifestsChange, SwapPrepared, SwapComplete, Markers, Removed, IInv,
              Control, ManifestOK, Preparing
<1>2. CASE pc = "off" \/ pc' = "off"
  <2>1. pc' \in {"off", "main"}
    BY <1>2, LinkArrivalSteps DEF LinkArrivals
  <2> QED BY <1>0, <2>1 DEF Removed, Tidying, Executing
<1>3. CASE pc # "off" /\ pc' # "off"
  <2>1. Directories BY <1>3, DirectorySteps
  <2>3. ASSUME pc' \in Tidying, marker'.schema = 2 PROVE MarkerMatches'
    <3>1. UNCHANGED <<canonical, backup, marker>>
      <4>1. pc \in Tidying \/ Tidy BY <2>3, ArrivalSteps DEF Arrivals
      <4>2. pc \in Tidying \cup {"main"}
        BY <4>1 DEF Tidy, CanonicalOnly, NoSources
      <4>3. UNCHANGED canonical
        BY <1>3, <4>2, CanonicalSteps DEF RecoverCommit, Tidying
      <4>4. UNCHANGED backup
        BY <4>2, ArchiveSteps DEF CopySnapshot, ArchiveSource, Tidying
      <4>5. UNCHANGED marker
        BY <1>1, <4>2 DEF ManifestsChange, SwapPrepared, SwapComplete, Tidying
      <4> QED BY <4>3, <4>4, <4>5
    <3>2. MarkerMatches
      BY <2>3, <3>1, ArrivalSteps DEF Arrivals, Tidy, Removed
    <3>3. litter' \subseteq litter
      BY <1>3, LitterSteps DEF Crash, Halt
    <3> QED BY <3>1, <3>2, <3>3 DEF MarkerMatches, NamesIn
  <2> QED BY <1>0, <2>1, <2>3 DEF Directories, Removed
<1> QED BY <1>2, <1>3

(* Which runs are started again after one that ended well.                 *)
Reruns == result' = "rerun" =>
            \/ Start
            \/ UNCHANGED result /\ (pc = "off" \/ pc' # "off")

(* Only a start makes a run the next one.                                  *)
LEMMA RerunSteps ==
  ASSUME Next
  PROVE  Reruns
<1> USE DEF Reruns, Refuse, Halt, Goto, memory, history
<1>1. CASE MainStep
  BY <1>1 DEF MainStep, Resume, RefuseTransientLink, RefuseDanglingLink,
     DropMarkerTemp, RestoreLost, Supersede, Tidy, RefuseIncoherentCanonical,
     FreshLayout, LegacyStart, LegacyPrepare, MigrateStart, RemoveStageDir,
     Classify, Prepare, WriteMarkerTemp, SwapPrepared, SwapComplete,
     TidyStageRemoved, TidyDone, Finish
<1>2. CASE ExecuteStep
  BY <1>2 DEF ExecuteStep, MakeDirectories, VerifyRecovered, SnapshotsDone,
     ArchivesDone, LinksDone, StageRemoved
<1>3. ASSUME NEW n \in Names, EntryStep(n)
      PROVE  Reruns
  BY <1>3 DEF EntryStep, RetireTransientLink, LegacyStage, RemoveStageEntry,
     StageSource, RecoverPresent, RecoverCopy, RecoverCommit, RefuseRecovery,
     CopySnapshot, ArchiveSource, RefuseArchive, MakeLink
<1>4. CASE Crash BY <1>4 DEF Crash
<1>5. CASE Environment
  BY <1>5 DEF Environment, AppWrites, RollbackWrites, OldTransientLink,
     ConnectorLinks, LoseCanonical, Idle
<1> QED BY <1>1, <1>2, <1>3, <1>4, <1>5 DEF Next, Migrator

(* A run that starts where nothing is left to do does nothing.             *)
LEMMA SettledRuns ==
  ASSUME IInv, BoundInv, LinksOK, Removed, Settled, Next,
         result \in {"ok", "rerun"},
         pc \in {"off", "main", "tidyStage", "tidyLinks"}
  PROVE  \/ /\ UNCHANGED Kept
            /\ \/ result' \notin {"ok", "rerun"}
               \/ pc' \in {"off", "main", "tidyStage", "tidyLinks"}
         \/ pc = "off" /\ result' \notin {"ok", "rerun"}
<1> USE DEF Kept, data, staging
<1>1. \A n \in Names : stage[n] = None BY DEF Settled, BoundInv, Staged
<1>2. root \in [Names -> Entries \cup {None, Link}]
  BY DEF IInv, TypeOK, DiskTypeOK
<1>3. ~Resume /\ ~RestoreLost /\ ~Supersede /\ ~LegacyStart /\ ~MigrateStart
  BY <1>1 DEF Settled, Resume, RestoreLost, Supersede, LegacyStart,
     LegacyPending, NamesIn, MigrateStart
<1>10. TidyDone => marker.schema # 1
  BY DEF TidyDone, Removed, Tidying, Settled
<1>4. ASSUME NEW n \in Names, EntryStep(n)
      PROVE  MakeLink(n)
  BY <1>1, <1>4, NoneAssumption DEF EntryStep, RetireTransientLink, LegacyStage,
     RemoveStageEntry, NamesIn, StageSource, RecoverPresent, RecoverCopy,
     RecoverCommit, RefuseRecovery, CopySnapshot, ArchiveSource, RefuseArchive,
     Settled
<1>5. ASSUME NEW n \in Names, MakeLink(n)
      PROVE  UNCHANGED Kept /\ pc' \in {"off", "main", "tidyStage", "tidyLinks"}
  <2>1. CASE Refuse
    BY <2>1 DEF Refuse, Halt, disk, archives, markers
  <2>2. CASE ~Refuse
    <3>1. /\ root' = [root EXCEPT ![n] = Link] /\ pc' = pc
          /\ UNCHANGED <<canonical, canonDir, stage, stageDir, backup, marker>>
      BY <1>5, <2>2 DEF MakeLink, archives, markers
    <3>2. root[n] = Link
      BY <1>5 DEF MakeLink, LinksOK, Settled
    <3>3. root' = root BY <1>2, <3>1, <3>2
    <3> QED BY <3>1, <3>3
  <2> QED BY <2>1, <2>2
<1>6. CASE MainStep
  BY <1>3, <1>6, <1>10 DEF MainStep, Start, RefuseTransientLink, RefuseDanglingLink,
     DropMarkerTemp, Tidy, RefuseIncoherentCanonical, FreshLayout,
     LegacyPrepare, RemoveStageDir, Classify, Prepare, WriteMarkerTemp,
     SwapPrepared, SwapComplete, TidyStageRemoved, TidyDone, Settled, Refuse,
     Finish, Halt, Goto, disk, archives, markers
<1>7. CASE ExecuteStep
  BY <1>7 DEF ExecuteStep, MakeDirectories, VerifyRecovered, SnapshotsDone,
     ArchivesDone, LinksDone, StageRemoved
<1>8. CASE Crash BY <1>8 DEF Crash, Halt, disk, archives, markers
<1>9. CASE Environment
  BY <1>9 DEF Environment, AppWrites, RollbackWrites, OldTransientLink,
     ConnectorLinks, LoseCanonical, Idle
<1> QED BY <1>4, <1>5, <1>6, <1>7, <1>8, <1>9 DEF Next, Migrator

(* A run that ends well leaves nothing to do.                              *)
LEMMA EndsSettled ==
  ASSUME ~MidwayRollback, IInv, IInv', BoundInv, BoundInv', Plans, Plans',
         Outcome', LinksOK, Removed, Removed', Next, result' = "ok",
         litter' = {}
  PROVE  Settled'
<1>1. Ends BY EndSteps DEF BoundInv, Removals
<1>2. UNCHANGED <<root, canonical, canonDir, stageDir>>
  BY <1>1 DEF Ends, SwapComplete, FreshLayout, TidyDone, Finish, Refuse,
              Halt, disk, data, staging
<1>3. /\ Sources = {} /\ DanglingLinks = {} /\ LinkedTransients = {}
      /\ \A n \in Unlinked : root[n] = Link
  <2>1. CASE SwapComplete
    BY <2>1 DEF SwapComplete, LinksOK, Linked
  <2>2. CASE TidyDone
    BY <2>2 DEF TidyDone, LinksOK, Tidying
  <2>3. CASE FreshLayout
    <3>1. Unlinked = {}
      BY <2>3, NoneAssumption
         DEF FreshLayout, BoundInv, Verified, Unlinked, NamesIn
    <3> QED BY <2>3, <3>1 DEF FreshLayout, NoSources, Admissible
  <2> QED BY <1>1, <2>1, <2>2, <2>3 DEF Ends
<1>4. ~stageDir /\ (marker'.schema = 2 => canonDir)
  BY <1>1 DEF Ends, SwapComplete, FreshLayout, TidyDone, Refuse, Halt, Removed,
              Executing, Tidying
<1>5. marker'.schema = 1 => ~canonDir /\ marker'.names = {}
  <2>1. manifest \in Markers BY DEF IInv, TypeOK, RunTypeOK
  <2>2. CASE SwapComplete
    BY <2>1, <2>2
       DEF SwapComplete, Markers, IInv, Control, ManifestOK, Executing
  <2>3. CASE FreshLayout /\ UNCHANGED marker
    <3>1. NamesIn(canonical) = {}
      BY <2>3, NoneAssumption DEF FreshLayout, BoundInv, Verified, NamesIn
    <3> QED BY <2>3, <3>1 DEF FreshLayout, LegacyPending
  <2>4. CASE TidyDone
    BY <2>4 DEF TidyDone, Finish, history, BoundInv, Removals
  <2> QED BY <1>1, <2>2, <2>3, <2>4 DEF Ends
<1>6. ~Prepared' BY DEF Plans
<1>7. marker'.schema = 2 => MarkerMatches'
  <2> SUFFICES ASSUME marker'.schema = 2 PROVE MarkerMatches' OBVIOUS
  <2>1. marker' \in Markers /\ Destined(marker') /\ canonical' \in Stored
    BY DEF IInv, TypeOK, DiskTypeOK
  <2>2. Complete'
    BY <1>6, <2>1 DEF Complete, Prepared, Markers, Removed
  <2>3. marker'.auth = canonical' BY <2>2 DEF Outcome, MarkerCurrent
  <2>4. AuthArchived(marker)' BY <2>2 DEF BoundInv, Archiving
  <2> QED BY <2>1, <2>3, <2>4, StoredNames
          DEF MarkerMatches, Destined, AuthArchived, NamesIn
<1> QED BY <1>2, <1>3, <1>4, <1>5, <1>6, <1>7
        DEF Settled, Sources, NamesIn, DanglingLinks, LinkedTransients, Unlinked

(* A run right after a run that ended well, and that left no directory of  *)
(* an interrupted verification behind, changes neither entries, nor        *)
(* staging, archives or marker; it can be repeated at every start.         *)
THEOREM RerunIsIdle ==
  ASSUME ~MidwayRollback
  PROVE  Spec => RerunChangesNothing
<1> DEFINE Inv == LinksOK /\ Removed /\ Quiet /\ Outcome
<1>1. Init => Inv
  <2> SUFFICES ASSUME Init PROVE Inv OBVIOUS
  <2>1. /\ pc = "off" /\ result = "none" /\ marker.phase = "none"
        /\ marker.schema # 2
    <3>1. marker = NoMarker \/ \E S : marker = LegacyMarker(S)
      BY DEF Init, InitBundles, InitInterim, InitCommitLoop, InitTornCleanup,
             InitLegacy
    <3> QED BY <3>1 DEF Init, NoMarker, LegacyMarker, Unbound
  <2> QED BY <2>1 DEF LinksOK, Removed, Quiet, Outcome, MarkerCurrent, Prepared,
             Preparing, Linked, Tidying, Executing
<1>2. ASSUME IInv, IInv', BoundInv, BoundInv', Plans, Plans', Inv, [Next]_vars
      PROVE  Inv' /\ (result = "rerun" => UNCHANGED Kept)
  <2>1. CASE UNCHANGED vars
    BY <1>2, <2>1 DEF vars, disk, data, staging, archives, markers, memory, history,
       LinksOK, Removed, Quiet, Settled, Outcome, MarkerCurrent, MarkerMatches,
       DanglingLinks, LinkedTransients, Unlinked, Sources, NamesIn, Prepared,
       Complete, Kept
  <2>2. CASE Next
    <3>1. Outcome' /\ LinksOK' /\ Removed'
      BY <1>2, <2>2, OutcomeStep, LinksStep, RemovedStep
    <3>2. Ends /\ Reruns
      BY <2>2, <1>2, EndSteps, RerunSteps DEF BoundInv, Removals
    <3>3. CASE Settled /\ result \in {"ok", "rerun"}
      <4>1. pc \in {"off", "main", "tidyStage", "tidyLinks"}
        BY <1>2, <3>3 DEF Quiet
      <4>2. \/ /\ UNCHANGED Kept
               /\ \/ result' \notin {"ok", "rerun"}
                  \/ pc' \in {"off", "main", "tidyStage", "tidyLinks"}
            \/ pc = "off" /\ result' \notin {"ok", "rerun"}
        BY <1>2, <2>2, <3>3, <4>1, SettledRuns
      <4>3. result = "rerun" => pc # "off"
        BY <1>2 DEF Quiet
      <4>4. result' \in {"ok", "rerun"} => Settled'
        <5>1. Crash => result' \notin {"ok", "rerun"} BY DEF Crash, Halt
        <5>2. result' \in {"ok", "rerun"} => litter' = {}
          BY <2>2, <3>3, <5>1, LitterSteps DEF Settled
        <5> QED BY <3>3, <4>2, <5>2
               DEF Settled, Kept, data, staging, MarkerMatches, DanglingLinks,
                   LinkedTransients, Unlinked, Sources, NamesIn, Prepared
      <4>5. result' = "ok" => pc' = "off"
        BY <1>2, <2>2, <3>2 DEF Ends, Quiet
      <4>6. result' = "rerun" => pc' \in {"main", "tidyStage", "tidyLinks"}
        BY <1>2, <3>2, <4>2 DEF Reruns, Start, Goto, Quiet
      <4>7. Quiet' BY <4>4, <4>5, <4>6 DEF Quiet
      <4> QED BY <3>1, <4>2, <4>3, <4>7
    <3>4. CASE ~(Settled /\ result \in {"ok", "rerun"})
      <4>1. result # "rerun" BY <1>2, <3>4 DEF Quiet
      <4>2. result' # "rerun"
        BY <1>2, <3>2, <3>4, <4>1 DEF Reruns, Start, Quiet
      <4>3. result' = "ok" => pc' = "off"
        BY <1>2, <2>2, <3>2 DEF Ends, Quiet
      <4>4. result' = "ok" /\ litter' = {} => Settled'
        BY <1>2, <2>2, <3>1, EndsSettled
      <4> QED BY <3>1, <4>1, <4>2, <4>3, <4>4 DEF Quiet
    <3> QED BY <3>3, <3>4
  <2> QED BY <1>2, <2>1, <2>2
<1>3. Spec => []Inv /\ [][result = "rerun" => UNCHANGED Kept]_vars
  BY <1>1, <1>2, Invariance, BoundInvariance, PlansInvariance, PTL DEF Spec
<1> QED BY <1>3 DEF RerunChangesNothing, Kept

-----------------------------------------------------------------------------
(* A transaction that is interrupted can be resumed.                       *)

(* What recovery finds for each entry that a manifest binds: archive       *)
(* names that are free, or hold what belongs there; and, for an authority  *)
(* that is not canonical yet, its staged copy.  Without one (which takes   *)
(* the loss of a canonical directory) there is no source either, and the   *)
(* archive has it.                                                         *)
Reserved(m) ==
    \A n \in Names :
      /\ m.auth[n] # None => backup[n][m.authSlot[n]] \in {None, m.auth[n]}
      /\ m.arch[n] # None =>
           \/ backup[n][m.archSlot[n]] = None /\ root[n] = m.arch[n]
           \/ /\ backup[n][m.archSlot[n]] = m.arch[n]
              /\ n \in Sources => TreeIsSubset(n, root[n], m.arch[n])
      /\ m.arch[n] # None /\ m.auth[n] # None /\ m.archSlot[n] = m.authSlot[n] =>
           m.arch[n] = m.auth[n]
Recoverable(m) ==
    \A n \in Names : m.auth[n] # None /\ canonical[n] = None =>
      \/ stage[n] = m.auth[n]
      \/ /\ losses > 0
         /\ stage[n] = None => /\ n \notin Sources
                               /\ backup[n][m.authSlot[n]] = m.auth[n]
Resumable(m) == Reserved(m) /\ Recoverable(m)

(* What each loop adds to it; a canonical directory is not missed by a     *)
(* complete marker unless it was lost.                                     *)
Snapshotted(n) ==
    Shared(n) \/ backup[n][manifest.authSlot[n]] = manifest.auth[n]
Unwedged ==
    /\ pc \in Preparing => Resumable(manifest)
    /\ Prepared => Resumable(marker)
    /\ pc = "legacy" =>
         \A n \in marker.names : /\ \E s \in Slots : Archived(n) = {s}
                                 /\ canonical[n] \in {None, Candidate(n)}
    /\ pc = "snapshot" => \A n \in manifest.names \ todo : Snapshotted(n)
    /\ pc = "archive" => \A n \in manifest.names : Snapshotted(n)
    /\ Complete /\ losses = 0 => canonDir

(* Nothing that a manifest is judged by changes in a quiet step.           *)
Judged == <<root, canonical, stage, backup, losses>>

LEMMA ResumableRests ==
  ASSUME NEW m, Resumable(m), UNCHANGED Judged
  PROVE  Resumable(m)'
BY DEF Resumable, Reserved, Recoverable, Judged, Sources, NamesIn

(* The archive names that a manifest of build_transaction_manifest takes   *)
(* are free, and distinct unless source and authority are the same.        *)
LEMMA ManifestReserves ==
  ASSUME HasRoom, NEW S \in SUBSET Sources, NEW only
  PROVE  Reserved(Manifest(S, only))
<1> DEFINE m == Manifest(S, only)
<1> SUFFICES ASSUME NEW n \in Names
             PROVE  /\ m.auth[n] # None => backup[n][m.authSlot[n]] = None
                    /\ m.arch[n] # None =>
                         backup[n][m.archSlot[n]] = None /\ root[n] = m.arch[n]
                    /\ m.arch[n] # None /\ m.auth[n] # None
                         /\ m.archSlot[n] = m.authSlot[n] => m.arch[n] = m.auth[n]
  BY DEF Reserved
<1>1. /\ m.auth[n] # None => m.authSlot[n] = FirstFree(n)
      /\ m.arch[n] = IF n \in S THEN root[n] ELSE None
      /\ n \in S => m.archSlot[n] =
           IF (n \in S \ only /\ root[n] = m.auth[n]) \/ m.auth[n] = None
           THEN FirstFree(n) ELSE SecondFree(n)
  BY DEF Manifest
<1>2. /\ FirstFree(n) # SecondFree(n)
      /\ backup[n][FirstFree(n)] = None /\ backup[n][SecondFree(n)] = None
  BY FreeType DEF Free
<1> HIDE DEF m
<1> QED BY <1>1, <1>2

(* Every transaction can be resumed as soon as it is on its way.           *)
LEMMA BuildingResumable ==
  ASSUME IInv, BoundInv, LinksOK, Removed, Unwedged, Building, pc' = "putPrepared"
  PROVE  Resumable(manifest)'
<1> USE NoneAssumption
<1>1. UNCHANGED Judged
  BY DEF Building, RestoreLost, Supersede, LegacyPrepare, Prepare, TidyDone,
         Refuse, Finish, Halt, disk, data, staging, archives, history, budgets, Judged
<1>2. /\ root \in [Names -> Entries \cup {None, Link}]
      /\ canonical \in Stored /\ stage \in Stored
      /\ backup \in [Names -> [Slots -> Entries \cup {None}]]
      /\ marker \in Markers /\ Destined(marker) /\ losses \in Nat
  BY DEF IInv, TypeOK, DiskTypeOK, RunTypeOK
<1>3. SUFFICES Resumable(manifest')
  <2> DEFINE m == manifest'
  <2>1. ASSUME Resumable(m) PROVE Resumable(manifest)'
    BY <1>1, <2>1 DEF Resumable, Reserved, Recoverable, Judged, Sources, NamesIn
  <2> QED BY <2>1
<1>4. CASE RestoreLost
  <2>1. /\ Complete /\ ~canonDir /\ Sources = {}
        /\ manifest' = [marker EXCEPT !.phase = "prepared"]
    BY <1>2, <1>4 DEF RestoreLost, NoSources, Admissible, Prepared, Complete,
                      Removed, Markers
  <2>2. /\ manifest'.auth = marker.auth /\ manifest'.authSlot = marker.authSlot
        /\ manifest'.arch = marker.arch /\ manifest'.archSlot = marker.archSlot
    BY <1>2, <2>1 DEF Markers
  <2>3. losses > 0 BY <1>2, <2>1 DEF Unwedged
  <2>4. AuthArchived(marker) /\ ArchArchived(marker, Names)
    BY <2>1 DEF BoundInv, Archiving
  <2>5. Reserved(manifest')
    BY <2>1, <2>2, <2>4 DEF Reserved, AuthArchived, ArchArchived
  <2>6. Recoverable(manifest')
    BY <2>1, <2>2, <2>3, <2>4 DEF Recoverable, AuthArchived
  <2> QED BY <2>5, <2>6 DEF Resumable
<1>5. CASE Supersede \/ TidyDone
  <2>1. manifest' = Manifest({}, {}) /\ HasRoom
    BY <1>5 DEF Supersede, TidyDone, Finish, Halt
  <2>2. \A n \in Names : manifest'.auth[n] = canonical[n]
    BY <2>1, ManifestBinds
  <2>3. Recoverable(manifest') BY <2>2 DEF Recoverable
  <2> QED BY <2>1, <2>3, ManifestReserves DEF Resumable
<1>6. CASE Prepare
  <2>1. /\ manifest' = Manifest(Sources, archiveOnly) /\ HasRoom
    BY <1>6 DEF Prepare, Refuse, Halt
  <2>2. \A n \in Names : manifest'.auth[n] # None /\ canonical[n] = None =>
          stage[n] = manifest'.auth[n]
    BY <2>1, ManifestBinds
  <2>3. Recoverable(manifest') BY <2>2 DEF Recoverable
  <2> QED BY <2>1, <2>3, ManifestReserves DEF Resumable
<1>7. CASE LegacyPrepare
  <2>1. /\ pc = "legacy" /\ todo = {} /\ manifest' = LegacyManifest /\ HasRoom
    BY <1>7 DEF LegacyPrepare, Refuse, Halt
  <2>2. \A n \in Names : manifest'.auth[n] =
          IF stage[n] # None THEN stage[n] ELSE canonical[n]
    BY <2>1, LegacyBinds
  <2>3. Recoverable(manifest') BY <2>2 DEF Recoverable
  <2>4. ASSUME NEW n \in Names, manifest'.auth[n] # None
        PROVE  backup[n][manifest'.authSlot[n]] \in {None, manifest'.auth[n]}
    <3>1. CASE n \in marker.names
      <4>1. PICK s \in Slots : Archived(n) = {s}
        BY <2>1, <3>1 DEF Unwedged
      <4>2. Lowest(Archived(n)) = s BY <4>1, LowestIn
      <4>3. Candidate(n) = backup[n][s]
        <5>1. \E x \in Archived(n) : \A t \in Archived(n) : t <= x
          BY <4>1, GreatestSlot
        <5> QED BY <4>1, <5>1 DEF Candidate
      <4>4. manifest'.auth[n] = Candidate(n)
        BY <2>1, <2>2, <2>4, <3>1 DEF Unwedged, BoundInv, Staged, Selected
      <4>5. manifest'.authSlot[n] = Lowest(Archived(n))
        BY <2>1, <2>4, <3>1 DEF LegacyManifest
      <4> QED BY <4>2, <4>3, <4>4, <4>5
    <3>2. CASE n \notin marker.names
      <4>1. manifest'.authSlot[n] = FirstFree(n)
        BY <2>1, <2>4, <3>2 DEF LegacyManifest
      <4> QED BY <2>1, <4>1, FreeType DEF Free
    <3> QED BY <3>1, <3>2
  <2>5. \A n \in Names : manifest'.arch[n] = None
    BY <2>1 DEF LegacyManifest, Nothing
  <2>6. Reserved(manifest') BY <2>4, <2>5 DEF Reserved
  <2> QED BY <2>3, <2>6 DEF Resumable
<1> QED BY <1>4, <1>5, <1>6, <1>7 DEF Building

-----------------------------------------------------------------------------
(* What may change under a prepared marker.                                *)
Moves(n) ==
    \/ RecoverCopy(n) \/ RecoverCommit(n) \/ RemoveStageEntry(n)
    \/ CopySnapshot(n) \/ ArchiveSource(n)
    \/ MakeLink(n) \/ RetireTransientLink(n)

LEMMA PreparedMoves ==
  ASSUME ~MidwayRollback, IInv, Plans, Next, Prepared
  PROVE  \/ UNCHANGED Judged
         \/ pc \in Executing /\ \E n \in Names : Moves(n)
<1> USE DEF Judged, Refuse, Halt, Goto, disk, data, staging, archives, history,
            budgets
<1>1. pc \in {"off", "main"} \cup Executing
  BY DEF IInv, Control, ManifestOK
<1>2. CASE MainStep
  BY <1>2 DEF MainStep, Start, Resume, RefuseTransientLink, RefuseDanglingLink,
     DropMarkerTemp, RestoreLost, Supersede, Tidy, RefuseIncoherentCanonical,
     FreshLayout, LegacyStart, LegacyPrepare, MigrateStart, RemoveStageDir,
     Classify, Prepare, WriteMarkerTemp, SwapPrepared, SwapComplete,
     TidyStageRemoved, TidyDone, Finish
<1>3. CASE ExecuteStep
  BY <1>3 DEF ExecuteStep, MakeDirectories, VerifyRecovered, SnapshotsDone,
     ArchivesDone, LinksDone, StageRemoved
<1>4. ASSUME NEW n \in Names, EntryStep(n)
      PROVE  \/ UNCHANGED Judged
             \/ pc \in Executing /\ Moves(n)
  <2>1. ~LegacyStage(n) /\ ~StageSource(n)
    BY <1>1 DEF LegacyStage, StageSource, Executing
  <2>2. Moves(n) => pc \in Executing
    BY <1>1 DEF Moves, RecoverCopy, RecoverCommit, RemoveStageEntry, CopySnapshot,
       ArchiveSource, MakeLink, RetireTransientLink, Executing
  <2>3. CASE RecoverPresent(n) \/ RefuseRecovery(n) \/ RefuseArchive(n)
    BY <2>3 DEF RecoverPresent, RefuseRecovery, RefuseArchive
  <2> QED BY <1>4, <2>1, <2>2, <2>3 DEF EntryStep, Moves
<1>5. CASE Crash BY <1>5 DEF Crash
<1>6. CASE Environment
  <2>1. result \notin {"ok", "used"} /\ ~Complete
    BY DEF Plans, Prepared, Complete
  <2> QED BY <1>6, <2>1 DEF Environment, AppWrites, RollbackWrites,
             ConnectorLinks, OldTransientLink, LoseCanonical
<1> QED BY <1>2, <1>3, <1>4, <1>5, <1>6 DEF Next, Migrator

(* A torn directory is a subset of what it was torn from.                  *)
LEMMA TornSubset ==
  ASSUME NEW n \in Dirs, NEW e \in Entries, e.whole
  PROVE  TreeIsSubset(n, Torn(e), e)
BY DEF TreeIsSubset, Within, Torn, Entries

(* Tearing a whole subset leaves a subset.                                 *)
LEMMA TornStays ==
  ASSUME NEW n \in Dirs, NEW e \in Entries, NEW a, e.whole,
         TreeIsSubset(n, e, a)
  PROVE  TreeIsSubset(n, Torn(e), a)
<1>1. Torn(e).gen = e.gen BY DEF Torn, Entries
<1> QED BY <1>1 DEF TreeIsSubset, Within

(* The loops of the transaction leave it resumable at every point.         *)
LEMMA MovesResumable ==
  ASSUME IInv, BoundInv, Unwedged, Prepared, pc \in Executing, Next,
         NEW n \in Names, Moves(n)
  PROVE  Resumable(marker)' /\ UNCHANGED marker
<1> USE NoneAssumption
<1>1. /\ root \in [Names -> Entries \cup {None, Link}]
      /\ canonical \in Stored /\ stage \in Stored
      /\ backup \in [Names -> [Slots -> Entries \cup {None}]]
      /\ marker \in Markers /\ Destined(marker) /\ marker = manifest
      /\ marker.schema = 2 /\ Resumable(marker)
  BY DEF IInv, TypeOK, DiskTypeOK, Control, ManifestOK, Prepared, Unwedged
<1>2. UNCHANGED <<marker, losses>>
  BY DEF Moves, RecoverCopy, RecoverCommit, RemoveStageEntry, CopySnapshot,
     ArchiveSource, MakeLink, RetireTransientLink, Refuse, disk, markers, history,
     budgets
<1>3. SUFFICES Resumable(marker)' BY <1>2
<1>4. CASE UNCHANGED Judged
  BY <1>1, <1>2, <1>4 DEF Resumable, Reserved, Recoverable, Judged, Sources, NamesIn
<1>5. ArchivesKept BY ArchivesKeptStep
<1>6. \A k \in Names : marker.auth[k] # None => /\ k \in marker.names
                                             /\ marker.authSlot[k] \in Slots
                                             /\ marker.auth[k] \in Entries
  BY <1>1, StoredNames DEF Markers, Destined, NamesIn
<1>7. \A k \in Names : marker.arch[k] # None => /\ marker.archSlot[k] \in Slots
                                             /\ marker.arch[k] \in Entries
  BY <1>1 DEF Markers, Destined, Stored
(* Recovery: staging and canonical state.                                  *)
<1>10. CASE /\ UNCHANGED <<root, backup>>
            /\ \A k \in Names \ {n} : stage'[k] = stage[k] /\ canonical'[k] = canonical[k]
            /\ \/ canonical'[n] # None
               \/ marker.auth[n] = None
               \/ stage'[n] = marker.auth[n]
               \/ losses > 0 /\ stage'[n] # None
  <2>1. Reserved(marker)'
    BY <1>1, <1>2, <1>10 DEF Resumable, Reserved, Sources, NamesIn
  <2>2. Recoverable(marker)'
    BY <1>1, <1>2, <1>10 DEF Resumable, Recoverable, Sources, NamesIn
  <2> QED BY <2>1, <2>2 DEF Resumable
<1>11. CASE RecoverCopy(n)
  <2>1. /\ pc = "recover" /\ n \in todo /\ canonical[n] = None
        /\ UNCHANGED <<root, canonical, backup>>
        /\ \E v \in Entries \cup {None} : stage' = [stage EXCEPT ![n] = v]
    <3>1. \/ /\ marker.auth[n] \in Entries \cup {None}
             /\ Torn(marker.auth[n]) \in Entries
          \/ n \notin todo
      BY <1>1, <1>6, <1>11, TornType DEF RecoverCopy, IInv, Control, LoopsOK, NamesIn, Destined
    <3> QED BY <1>1, <1>11, <3>1 DEF RecoverCopy, data, archives
  <2>2. n \in marker.names /\ marker.auth[n] \in Entries
    BY <1>1, <2>1 DEF IInv, Control, LoopsOK, Destined, NamesIn
  <2>3. \/ stage'[n] = marker.auth[n]
        \/ stage[n] = None /\ stage'[n] = Torn(marker.auth[n])
    BY <1>1, <1>11 DEF RecoverCopy, Stored
  <2>4. stage[n] = None => losses > 0
    BY <1>1, <2>1, <2>2 DEF Resumable, Recoverable
  <2>5. \A k \in Names \ {n} : stage'[k] = stage[k] BY <1>1, <2>1 DEF Stored
  <2> QED BY <1>10, <2>1, <2>2, <2>3, <2>4, <2>5, TornType
<1>12. CASE RecoverCommit(n)
  <2>1. /\ UNCHANGED <<root, backup>>
        /\ canonical' = [canonical EXCEPT ![n] = stage[n]]
        /\ stage' = [stage EXCEPT ![n] = None]
        /\ stage[n] = marker.auth[n] /\ n \in marker.names
    BY <1>1, <1>12 DEF RecoverCommit, archives, IInv, Control, LoopsOK
  <2>2. canonical'[n] # None
    BY <1>1, <2>1 DEF Destined, NamesIn, Stored
  <2>3. \A k \in Names \ {n} : stage'[k] = stage[k] /\ canonical'[k] = canonical[k]
    BY <1>1, <2>1 DEF Stored
  <2> QED BY <1>10, <2>1, <2>2, <2>3
<1>13. CASE RemoveStageEntry(n)
  <2>1. /\ pc = "unstage" /\ UNCHANGED <<root, canonical, backup>>
        /\ \A k \in Names \ {n} : stage'[k] = stage[k]
    BY <1>1, <1>13 DEF RemoveStageEntry, data, archives, Executing, Stored
  <2>2. marker.auth[n] # None => canonical'[n] # None
    BY <1>1, <1>6, <2>1 DEF IInv, Control, ProgressOK, Recovered, Executing
  <2> QED BY <1>10, <2>1, <2>2
(* The archives and the sources.                                           *)
<1>20. CASE /\ UNCHANGED <<canonical, stage>>
            /\ Sources' \subseteq Sources
            /\ Reserved(marker)'
  <2>1. Recoverable(marker)'
    BY <1>1, <1>2, <1>5, <1>6, <1>20 DEF Resumable, Recoverable, ArchivesKept
  <2> QED BY <1>20, <2>1 DEF Resumable
<1>21. CASE CopySnapshot(n)
  <2> DEFINE s == manifest.authSlot[n]
  <2>1. UNCHANGED <<root, canonical, stage>> /\ Sources' = Sources
    BY <1>21 DEF CopySnapshot, data, staging, Sources, NamesIn
  <2>2. CASE UNCHANGED backup
    BY <1>2, <1>4, <2>1, <2>2 DEF Judged
  <2>3. CASE ~UNCHANGED backup
    <3>1. /\ n \in todo /\ pc = "snapshot" /\ copying = n
          /\ canonical[n] = manifest.auth[n]
          /\ backup' = [backup EXCEPT ![n][s] = canonical[n]]
      BY <1>21, <2>3 DEF CopySnapshot, archives
    <3>2. n \in manifest.names /\ backup[n][s] = None
      BY <3>1 DEF IInv, Control, LoopsOK, CopyingOK
    <3>3. manifest.auth[n] # None /\ s \in Slots
      BY <1>1, <3>2 DEF Destined, NamesIn
    <3> HIDE DEF s
    <3>4. /\ backup'[n][s] = marker.auth[n]
          /\ \A t \in Slots \ {s} : backup'[n][t] = backup[n][t]
          /\ \A k \in Names \ {n} : backup'[k] = backup[k]
      BY <1>1, <3>1, <3>3
    <3>5. Reserved(marker)'
      <4> SUFFICES ASSUME NEW k \in Names
                   PROVE  /\ marker.auth[k] # None =>
                               backup'[k][marker.authSlot[k]] \in {None, marker.auth[k]}
                          /\ marker.arch[k] # None =>
                               \/ backup'[k][marker.archSlot[k]] = None /\ root[k] = marker.arch[k]
                               \/ /\ backup'[k][marker.archSlot[k]] = marker.arch[k]
                                  /\ k \in Sources => TreeIsSubset(k, root[k], marker.arch[k])
        BY <1>1, <1>2, <2>1 DEF Resumable, Reserved
      <4>1. CASE k # n
        BY <1>1, <3>4, <4>1 DEF Resumable, Reserved
      <4>2. CASE k = n
        <5>1. marker.authSlot[n] = s BY <1>1 DEF s
        <5>2. CASE marker.arch[n] # None /\ marker.archSlot[n] = s
          <6>1. marker.arch[n] = marker.auth[n]
            BY <1>1, <3>3, <5>1, <5>2 DEF Resumable, Reserved
          <6>2. root[n] = marker.arch[n]
            BY <1>1, <3>2, <5>2, <1>7 DEF Resumable, Reserved
          <6> QED BY <3>4, <4>2, <5>1, <5>2, <6>1, <6>2 DEF TreeIsSubset
        <5>3. CASE marker.arch[n] = None \/ marker.archSlot[n] # s
          BY <1>1, <1>7, <3>4, <4>2, <5>1, <5>3 DEF Resumable, Reserved
        <5> QED BY <5>2, <5>3
      <4> QED BY <4>1, <4>2
    <3> QED BY <1>20, <2>1, <3>5
  <2> QED BY <2>2, <2>3
<1>22. CASE ArchiveSource(n)
  <2> DEFINE s == manifest.archSlot[n]
  <2>1. /\ pc = "archive" /\ n \in todo /\ UNCHANGED <<canonical, stage>>
    BY <1>22 DEF ArchiveSource, staging
  <2>2. marker.arch[n] \in Entries /\ s \in Slots
    BY <1>1, <1>7, <2>1 DEF IInv, Control, LoopsOK, NamesIn
  <2>3. CASE /\ n \in Sources /\ backup[n][s] = None /\ root[n] = marker.arch[n]
             /\ backup' = [backup EXCEPT ![n][s] = root[n]]
             /\ root' = [root EXCEPT ![n] = None]
    <3> HIDE DEF s
    <3>1. /\ backup'[n][s] = marker.arch[n]
          /\ \A t \in Slots \ {s} : backup'[n][t] = backup[n][t]
          /\ \A k \in Names \ {n} : backup'[k] = backup[k] /\ root'[k] = root[k]
          /\ root'[n] = None
      BY <1>1, <2>2, <2>3
    <3>2. Sources' = Sources \ {n} BY <3>1 DEF Sources, NamesIn
    <3>3. marker.archSlot[n] = s BY <1>1 DEF s
    <3>4. Reserved(marker)'
      <4> SUFFICES ASSUME NEW k \in Names
                   PROVE  /\ marker.auth[k] # None =>
                               backup'[k][marker.authSlot[k]] \in {None, marker.auth[k]}
                          /\ marker.arch[k] # None =>
                               \/ backup'[k][marker.archSlot[k]] = None /\ root'[k] = marker.arch[k]
                               \/ /\ backup'[k][marker.archSlot[k]] = marker.arch[k]
                                  /\ k \in Sources' => TreeIsSubset(k, root'[k], marker.arch[k])
        BY <1>1, <1>2 DEF Resumable, Reserved
      <4>1. CASE k # n
        BY <1>1, <3>1, <3>2, <4>1 DEF Resumable, Reserved
      <4>2. CASE k = n
        <5>1. marker.auth[n] # None => backup'[n][marker.authSlot[n]] \in {None, marker.auth[n]}
          BY <1>1, <1>6, <2>2, <3>1, <3>3 DEF Resumable, Reserved
        <5> QED BY <3>1, <3>2, <3>3, <4>2, <5>1
      <4> QED BY <4>1, <4>2
    <3> QED BY <1>20, <2>1, <3>2, <3>4
  <2>4. CASE /\ n \in Sources /\ ArchiveHolds(n) /\ UNCHANGED backup
             /\ \/ root' = [root EXCEPT ![n] = None]
                \/ /\ n \in Dirs /\ root[n].whole
                   /\ root' = [root EXCEPT ![n] = Torn(root[n])]
    <3>1. /\ backup[n][s] = marker.arch[n] /\ marker.archSlot[n] = s
          /\ TreeIsSubset(n, root[n], marker.arch[n])
      BY <1>1, <2>4 DEF ArchiveHolds
    <3>2. /\ \A k \in Names \ {n} : root'[k] = root[k]
          /\ \/ root'[n] = None
             \/ n \in Dirs /\ root[n].whole /\ root'[n] = Torn(root[n])
      BY <1>1, <2>4
    <3>3. root[n] \in Entries BY <2>4 DEF Sources, NamesIn
    <3>4. Sources' \subseteq Sources
      BY <2>4, <3>2 DEF Sources, NamesIn
    <3>5. root'[n] = None \/ TreeIsSubset(n, root'[n], marker.arch[n])
      <4>1. CASE n \in Dirs /\ root[n].whole /\ root'[n] = Torn(root[n])
        BY <3>1, <3>3, <4>1, TornStays
      <4> QED BY <3>2, <4>1
    <3>6. n \in Sources' => TreeIsSubset(n, root'[n], marker.arch[n])
      BY <3>5 DEF Sources, NamesIn
    <3>7. Reserved(marker)'
      <4> SUFFICES ASSUME NEW k \in Names
                   PROVE  marker.arch[k] # None =>
                            \/ backup[k][marker.archSlot[k]] = None /\ root'[k] = marker.arch[k]
                            \/ /\ backup[k][marker.archSlot[k]] = marker.arch[k]
                               /\ k \in Sources' => TreeIsSubset(k, root'[k], marker.arch[k])
        BY <1>1, <1>2, <2>4 DEF Resumable, Reserved
      <4>1. CASE k # n
        BY <1>1, <3>2, <3>4, <4>1 DEF Resumable, Reserved
      <4>2. CASE k = n BY <3>1, <3>6, <4>2
      <4> QED BY <4>1, <4>2
    <3> QED BY <1>20, <2>1, <3>4, <3>7
  <2>5. CASE UNCHANGED <<root, backup>>
    BY <1>2, <1>4, <2>1, <2>5 DEF Judged
  <2> QED BY <1>1, <1>22, <2>3, <2>4, <2>5 DEF ArchiveSource
(* The links.                                                              *)
<1>23. CASE MakeLink(n) \/ RetireTransientLink(n)
  <2>1. \/ UNCHANGED Judged
        \/ /\ pc = "links" /\ UNCHANGED <<canonical, stage, backup>>
           /\ \E v \in {None, Link} : root' = [root EXCEPT ![n] = v]
    BY <1>2, <1>23
       DEF MakeLink, RetireTransientLink, Refuse, Executing, disk, data, staging,
           archives, Judged
  <2>2. CASE pc = "links" /\ UNCHANGED <<canonical, stage, backup>>
             /\ \E v \in {None, Link} : root' = [root EXCEPT ![n] = v]
    <3>1. ArchArchived(marker, Names)
      BY <1>1, <2>2 DEF BoundInv, Archiving, Linked
    <3>2. /\ Sources' = Sources \ {n}
          /\ \A k \in Names \ {n} : root'[k] = root[k]
      BY <1>1, <2>2 DEF Sources, NamesIn
    <3>3. Reserved(marker)'
      BY <1>1, <1>2, <2>2, <3>1, <3>2, <1>7 DEF Resumable, Reserved, ArchArchived
    <3> QED BY <1>20, <2>2, <3>2, <3>3
  <2> QED BY <1>4, <2>1, <2>2
<1> QED BY <1>11, <1>12, <1>13, <1>21, <1>22, <1>23 DEF Moves

-----------------------------------------------------------------------------
(* The invariant.                                                          *)

(* Until the marker is durable nothing moves.                              *)
LEMMA PreparingRests ==
  ASSUME Next, pc \in Preparing
  PROVE  UNCHANGED Judged
<1> USE DEF Preparing, Judged, Refuse, Halt, Goto, disk, data, staging, archives,
            history, budgets
<1>1. CASE MainStep
  BY <1>1 DEF MainStep, Start, Resume, RefuseTransientLink, RefuseDanglingLink,
     DropMarkerTemp, RestoreLost, Supersede, Tidy, RefuseIncoherentCanonical,
     FreshLayout, LegacyStart, LegacyPrepare, MigrateStart, RemoveStageDir,
     Classify, Prepare, WriteMarkerTemp, SwapPrepared, SwapComplete,
     TidyStageRemoved, TidyDone, CanonicalOnly, NoSources
<1>2. CASE ExecuteStep
  BY <1>2 DEF ExecuteStep, MakeDirectories, VerifyRecovered, SnapshotsDone,
     ArchivesDone, LinksDone, StageRemoved
<1>3. ASSUME NEW n \in Names, EntryStep(n) PROVE FALSE
  BY <1>3 DEF EntryStep, RetireTransientLink, LegacyStage, RemoveStageEntry,
     StageSource, RecoverPresent, RecoverCopy, RecoverCommit, RefuseRecovery,
     CopySnapshot, ArchiveSource, RefuseArchive, MakeLink
<1>4. CASE Crash BY <1>4 DEF Crash
<1>5. CASE Environment
  BY <1>5 DEF Environment, AppWrites, RollbackWrites, OldTransientLink,
     ConnectorLinks, LoseCanonical, Idle
<1> QED BY <1>1, <1>2, <1>3, <1>4, <1>5 DEF Next, Migrator

(* Which steps run the snapshot loop, and what takes the canonical         *)
(* directory away.                                                         *)
LoopsAndLosses ==
    /\ pc' = "snapshot" => VerifyRecovered \/ \E n \in Names : CopySnapshot(n)
    /\ \/ LoseCanonical
       \/ /\ UNCHANGED losses
          /\ canonDir => canonDir'

LEMMA LoopAndLossSteps ==
  ASSUME Next
  PROVE  LoopsAndLosses
<1> USE DEF LoopsAndLosses, Refuse, Halt, Goto, disk, data, staging, archives,
            history, budgets, memory
<1>1. CASE MainStep
  BY <1>1 DEF MainStep, Start, Resume, RefuseTransientLink, RefuseDanglingLink,
     DropMarkerTemp, RestoreLost, Supersede, Tidy, RefuseIncoherentCanonical,
     FreshLayout, LegacyStart, LegacyPrepare, MigrateStart, RemoveStageDir,
     Classify, Prepare, WriteMarkerTemp, SwapPrepared, SwapComplete,
     TidyStageRemoved, TidyDone, Finish, CanonicalOnly, NoSources
<1>2. CASE ExecuteStep
  BY <1>2 DEF ExecuteStep, MakeDirectories, VerifyRecovered, SnapshotsDone,
     ArchivesDone, LinksDone, StageRemoved
<1>3. ASSUME NEW n \in Names, EntryStep(n)
      PROVE  LoopsAndLosses
  BY <1>3 DEF EntryStep, RetireTransientLink, LegacyStage, RemoveStageEntry,
     StageSource, RecoverPresent, RecoverCopy, RecoverCommit, RefuseRecovery,
     CopySnapshot, ArchiveSource, RefuseArchive, MakeLink
<1>4. CASE Crash BY <1>4 DEF Crash
<1>5. CASE Environment
  <2>1. pc' = "off"
    BY <1>5 DEF Environment, AppWrites, RollbackWrites, OldTransientLink,
       ConnectorLinks, LoseCanonical, Idle
  <2>2. ASSUME ~LoseCanonical
        PROVE  UNCHANGED losses /\ (canonDir => canonDir')
    <3>1. ASSUME NEW n, NEW v, AppWrites(n, v)
          PROVE  UNCHANGED losses /\ canonDir'
      BY <3>1 DEF AppWrites
    <3>2. ASSUME NEW n, NEW v, RollbackWrites(n, v)
          PROVE  UNCHANGED <<losses, canonDir>>
      BY <3>2 DEF RollbackWrites
    <3>3. ASSUME NEW n, OldTransientLink(n)
          PROVE  UNCHANGED <<losses, canonDir>>
      BY <3>3 DEF OldTransientLink
    <3>4. ASSUME NEW S, ConnectorLinks(S)
          PROVE  UNCHANGED <<losses, canonDir>>
      BY <3>4 DEF ConnectorLinks
    <3> QED BY <1>5, <2>2, <3>1, <3>2, <3>3, <3>4 DEF Environment
  <2> QED BY <2>1, <2>2
<1> QED BY <1>1, <1>2, <1>3, <1>4, <1>5 DEF Next, Migrator

LEMMA UnwedgedStep ==
  ASSUME ~MidwayRollback, IInv, IInv', BoundInv, Plans, LinksOK, Removed, Unwedged,
         Next
  PROVE  Unwedged'
<1> USE NoneAssumption
<1>1. Arrivals /\ ManifestsChange /\ LinkArrivals /\ LoopsAndLosses
  BY ArrivalSteps, ManifestSteps, LinkArrivalSteps, LoopAndLossSteps
<1>2. /\ pc \in Executing => marker = manifest /\ Prepared
      /\ manifest \in Markers /\ Destined(manifest)
      /\ marker \in Markers
      /\ backup \in [Names -> [Slots -> Entries \cup {None}]]
      /\ losses \in Nat
  BY DEF IInv, TypeOK, DiskTypeOK, RunTypeOK, Control, ManifestOK, Prepared
<1>3. ASSUME pc' \in Preparing PROVE Resumable(manifest)'
  <2>1. CASE Building
    <3>1. pc' = "putPrepared"
      BY <1>3, <2>1 DEF Building, RestoreLost, Supersede, LegacyPrepare, Prepare,
                        TidyDone, Refuse, Finish, Halt, Preparing
    <3> QED BY <2>1, <3>1, BuildingResumable
  <2>2. CASE pc \in Preparing /\ UNCHANGED manifest
    BY <2>2, PreparingRests, ResumableRests DEF Unwedged
  <2> QED BY <1>1, <1>3, <2>1, <2>2 DEF Arrivals
<1>4. ASSUME Prepared' PROVE Resumable(marker)'
  <2>1. CASE SwapPrepared
    <3>1. pc \in Preparing /\ marker' = manifest BY <2>1 DEF SwapPrepared, Preparing
    <3> QED BY <3>1, PreparingRests, ResumableRests DEF Unwedged
  <2>2. ~SwapComplete BY <1>2, <1>4 DEF SwapComplete, Markers, Prepared
  <2>3. CASE UNCHANGED marker
    <3>1. Prepared /\ Resumable(marker) BY <1>4, <2>3 DEF Prepared, Unwedged
    <3>2. CASE UNCHANGED Judged BY <2>3, <3>1, <3>2, ResumableRests
    <3> QED BY <3>1, <3>2, PreparedMoves, MovesResumable
  <2> QED BY <1>1, <2>1, <2>2, <2>3 DEF ManifestsChange
<1>5. ASSUME pc' = "legacy", NEW n \in marker'.names
      PROVE  /\ \E s \in Slots : Archived(n)' = {s}
             /\ canonical'[n] \in {None, Candidate(n)'}
  <2>1. UNCHANGED <<canonical, backup, marker>>
    BY <1>1, <1>5 DEF Arrivals, LegacyStart, LegacyStage, Refuse, Halt, data, archives,
                      markers
  <2>2. Archived(n)' = Archived(n) /\ Candidate(n)' = Candidate(n)
    BY <2>1 DEF Archived, Candidate
  <2>3. CASE LegacyStart
    <3>1. LegacyCoherent BY <1>5, <2>3 DEF LegacyStart, Refuse, Halt
    <3>2. n \in Names /\ canonical \in Stored
      BY <1>2, <1>5, <2>1 DEF IInv, TypeOK, DiskTypeOK, Markers
    <3>3. canonical[n] # None => canonical[n] = Candidate(n)
      BY <1>5, <2>1, <3>1, <3>2, StoredNames DEF LegacyCoherent, LegacySelected, Selected
    <3> QED BY <1>5, <2>1, <2>2, <3>1, <3>3 DEF LegacyCoherent, LegacySelected
  <2>4. CASE pc = "legacy" BY <1>5, <2>1, <2>2, <2>4 DEF Unwedged
  <2> QED BY <1>1, <1>5, <2>3, <2>4 DEF Arrivals, LegacyStage
<1>6. ASSUME NEW n \in Names, n \in manifest.names, Snapshotted(n),
             UNCHANGED manifest, pc \in Executing
      PROVE  Snapshotted(n)'
  <2>1. manifest.auth[n] # None /\ manifest.authSlot[n] \in Slots
    BY <1>2, <1>6 DEF Destined, NamesIn, IInv, Control, ManifestOK
  <2>2. ArchivesKept BY ArchivesKeptStep
  <2> QED BY <1>6, <2>1, <2>2 DEF Snapshotted, Shared, ArchivesKept
<1>7. ASSUME pc' = "snapshot", NEW n \in manifest'.names \ todo'
      PROVE  Snapshotted(n)'
  <2>1. UNCHANGED manifest
    BY <1>1, <1>7 DEF LoopsAndLosses, VerifyRecovered, CopySnapshot, Refuse, Halt
  <2>2. n \in Names BY <1>2, <2>1, <1>7 DEF Markers
  <2>3. CASE VerifyRecovered
    <3>1. todo' = {k \in manifest.names : ~Shared(k)}
      BY <1>7, <2>3 DEF VerifyRecovered, Refuse, Halt, Goto
    <3> QED BY <1>7, <2>1, <3>1 DEF Snapshotted, Shared
  <2>4. ASSUME NEW k \in Names, CopySnapshot(k) PROVE Snapshotted(n)'
    <3>1. pc = "snapshot" BY <2>4 DEF CopySnapshot
    <3>2. CASE n \notin todo
      BY <1>6, <1>7, <2>1, <2>2, <3>1, <3>2 DEF Unwedged, Executing
    <3>3. CASE n \in todo
      <4>1. k = n /\ todo' # todo BY <1>7, <2>4, <3>3 DEF CopySnapshot
      <4>2. manifest.authSlot[n] \in Slots
        BY <1>2, <1>7, <2>1, <3>1 DEF Destined, IInv, Control, ManifestOK, Executing
      <4>3. backup'[n][manifest.authSlot[n]] = manifest.auth[n]
        BY <1>2, <2>2, <2>4, <4>1, <4>2 DEF CopySnapshot, archives
      <4> QED BY <2>1, <4>3 DEF Snapshotted
    <3> QED BY <3>2, <3>3
  <2> QED BY <1>1, <1>7, <2>3, <2>4 DEF LoopsAndLosses
<1>8. ASSUME pc' = "archive", NEW n \in manifest'.names
      PROVE  Snapshotted(n)'
  <2>1. /\ pc \in {"snapshot", "archive"} /\ UNCHANGED manifest
        /\ pc = "snapshot" => todo = {}
    BY <1>1, <1>8 DEF LinkArrivals, SnapshotsDone, ArchiveSource
  <2>2. Snapshotted(n) BY <1>8, <2>1 DEF Unwedged
  <2>3. n \in Names BY <1>2, <1>8, <2>1 DEF Markers
  <2> QED BY <1>6, <1>8, <2>1, <2>2, <2>3 DEF Executing
<1>9. ASSUME Complete', losses' = 0 PROVE canonDir'
  <2>1. UNCHANGED losses /\ (canonDir => canonDir')
    BY <1>1, <1>2, <1>9 DEF LoopsAndLosses, LoseCanonical
  <2>2. CASE UNCHANGED marker
    BY <1>9, <2>1, <2>2 DEF Unwedged, Complete
  <2>3. CASE SwapComplete
    BY <2>1, <2>3 DEF SwapComplete, Removed, Executing
  <2>4. ~SwapPrepared
    BY <1>9 DEF SwapPrepared, Complete, IInv, Control, ManifestOK, Preparing
  <2> QED BY <1>1, <2>2, <2>3, <2>4 DEF ManifestsChange
<1> QED BY <1>3, <1>4, <1>5, <1>7, <1>8, <1>9 DEF Unwedged

-----------------------------------------------------------------------------
(* Refusals of a prepared transaction.                                     *)

LEMMA PreparedRefusals ==
  ASSUME IInv, Next, Prepared, pc # "off", pc' = "off", result' = "refused"
  PROVE  \/ RefuseTransientLink /\ pc = "links"
         \/ VerifyRecovered /\ ~Coherent(canonical)
         \/ ArchivesDone /\ \E n \in manifest.names :
              backup[n][manifest.authSlot[n]] # manifest.auth[n]
         \/ \E n \in Names :
              \/ RefuseRecovery(n) \/ RefuseArchive(n)
              \/ MakeLink(n) /\ n \in Sources /\ pc = "links"
<1> USE DEF Refuse, Halt, Goto, history, memory
<1>1. pc \in {"main"} \cup Executing
  BY DEF IInv, Control, ManifestOK
<1>2. marker.schema = 2 BY DEF Prepared
<1>3. CASE MainStep
  BY <1>1, <1>2, <1>3 DEF MainStep, Start, Resume, RefuseTransientLink, RefuseDanglingLink,
     DropMarkerTemp, RestoreLost, Supersede, Tidy, RefuseIncoherentCanonical,
     FreshLayout, LegacyStart, LegacyPrepare, MigrateStart, RemoveStageDir,
     Classify, Prepare, WriteMarkerTemp, SwapPrepared, SwapComplete,
     TidyStageRemoved, TidyDone, Finish, CanonicalOnly, NoSources, Admissible, Executing
<1>4. CASE ExecuteStep
  BY <1>4 DEF ExecuteStep, MakeDirectories, VerifyRecovered, SnapshotsDone,
     ArchivesDone, LinksDone, StageRemoved
<1>5. ASSUME NEW n \in Names, EntryStep(n)
      PROVE  \/ RefuseRecovery(n) \/ RefuseArchive(n)
             \/ MakeLink(n) /\ n \in Sources /\ pc = "links"
  BY <1>1, <1>5 DEF EntryStep, RetireTransientLink, LegacyStage, RemoveStageEntry,
     StageSource, RecoverPresent, RecoverCopy, RecoverCommit,
     CopySnapshot, ArchiveSource, MakeLink, Executing
<1>6. ~Crash BY DEF Crash
<1>7. ~Environment
  BY DEF Environment, AppWrites, RollbackWrites, OldTransientLink,
     ConnectorLinks, LoseCanonical, Idle
<1> QED BY <1>3, <1>4, <1>5, <1>6, <1>7 DEF Next, Migrator

(* Each refusal is one of the two, or contradicts the invariant.           *)
LEMMA RefusedOnlyWedged ==
  ASSUME IInv, BoundInv, Plans, LinksOK, Unwedged, Next,
         pc # "off", pc' = "off", Prepared, result' = "refused"
  PROVE  Wedged
<1> USE NoneAssumption
<1>1. /\ pc \in Executing => marker = manifest
      /\ marker \in Markers /\ Destined(marker) /\ marker.schema = 2
      /\ canonical \in Stored /\ root \in [Names -> Entries \cup {None, Link}]
      /\ Resumable(marker) /\ Includes(marker.auth)
  BY DEF IInv, TypeOK, DiskTypeOK, Control, ManifestOK, Prepared, Unwedged, Plans
<1>2. ASSUME NEW n \in Names, RefuseRecovery(n) PROVE Wedged
  <2>1. /\ marker = manifest /\ n \in marker.names /\ marker.auth[n] # None
    BY <1>1, <1>2 DEF RefuseRecovery, IInv, Control, LoopsOK, Executing, Destined,
                      NamesIn
  <2>2. CASE canonical[n] # None
    BY <1>1, <1>2, <2>1, <2>2 DEF RefuseRecovery, Includes, Wedged
  <2>3. CASE canonical[n] = None
    <3>1. RecoverySource(n) # marker.auth[n] BY <1>2, <2>1, <2>3 DEF RefuseRecovery
    <3>2. stage[n] # None /\ stage[n] # marker.auth[n] /\ losses > 0
      BY <1>1, <2>1, <2>3, <3>1 DEF Resumable, Recoverable, RecoverySource
    <3> QED BY <2>1, <2>3, <3>2 DEF Wedged
  <2> QED BY <2>2, <2>3
<1>3. ASSUME NEW n \in Names, RefuseArchive(n) PROVE FALSE
  <2>1. marker = manifest /\ marker.arch[n] # None
    BY <1>1, <1>3 DEF RefuseArchive, IInv, Control, LoopsOK, Executing, NamesIn
  <2> QED BY <1>1, <1>3, <2>1 DEF RefuseArchive, Resumable, Reserved, ArchiveHolds
<1>4. ASSUME NEW n \in Names, n \in Sources, pc = "links" PROVE FALSE
  BY <1>4 DEF LinksOK, Linked
<1>5. ASSUME VerifyRecovered, ~Coherent(canonical) PROVE FALSE
  <2>1. pc = "recover" /\ todo = {} /\ marker = manifest
    BY <1>1, <1>5 DEF VerifyRecovered, Executing
  <2>2. \A n \in Names : canonical[n] = marker.auth[n]
    <3>1. \A n \in marker.names : canonical[n] = marker.auth[n]
      BY <2>1 DEF IInv, Control, ProgressOK
    <3>2. \A n \in Names : marker.auth[n] # None => n \in marker.names
      BY <1>1, StoredNames DEF Destined, Markers
    <3> QED BY <1>1, <3>1, <3>2 DEF Includes
  <2>3. Decryptable(canonical)
    BY <1>1, <2>2, NamesAssumption DEF BoundInv, Verified, Decryptable
  <2>4. WholeIn(canonical) BY DEF BoundInv, Contents
  <2> QED BY <1>5, <2>3, <2>4, NamesAssumption DEF Coherent, Decryptable, WholeIn
<1>6. ASSUME ArchivesDone, NEW n \in manifest.names,
             backup[n][manifest.authSlot[n]] # manifest.auth[n]
      PROVE  FALSE
  <2>1. pc = "archive" /\ todo = {} /\ marker = manifest
    BY <1>1, <1>6 DEF ArchivesDone, Executing
  <2>2. n \in Names /\ marker.auth[n] # None
    BY <1>1, <1>6, <2>1 DEF Destined, NamesIn
  <2>3. Shared(n) BY <1>6, <2>1 DEF Unwedged, Snapshotted
  <2>4. /\ marker.arch[n] = marker.auth[n] /\ marker.archSlot[n] = marker.authSlot[n]
    BY <1>1, <2>1, <2>2, <2>3 DEF Shared, Resumable, Reserved
  <2>5. backup[n][marker.archSlot[n]] = marker.arch[n]
    BY <2>1, <2>2, <2>4 DEF BoundInv, Archiving, ArchArchived
  <2> QED BY <1>6, <2>1, <2>4, <2>5
<1>7. ASSUME RefuseTransientLink, pc = "links" PROVE FALSE
  <2>1. PICK t \in LinkedTransients : ~TransientBound(t, manifest)
    BY <1>7 DEF RefuseTransientLink, LinkAuthority
  <2>2. t \in Names /\ root[t] = Link
    BY NamesAssumption DEF LinkedTransients
  <2>3. marker = manifest BY <1>1, <1>7 DEF Executing
  <2>4. marker.auth[t] # None
    BY <1>1, <2>2 DEF LinksOK, DanglingLinks, Includes
  <2>5. AuthArchived(manifest) BY <1>7 DEF BoundInv, Archiving, Linked
  <2> QED BY <1>1, <2>1, <2>2, <2>3, <2>4, <2>5 DEF TransientBound, AuthArchived
<1> QED BY <1>2, <1>3, <1>4, <1>5, <1>6, <1>7, PreparedRefusals

(* A prepared transaction is refused for a hard-linked connector directory *)
(* or for a torn staged copy after a loss of the canonical directory, and  *)
(* for nothing else.                                                       *)
THEOREM OnlyWedgesRefuse ==
  ASSUME ~MidwayRollback
  PROVE  Spec => RefusesOnlyWedged
<1> DEFINE Inv == LinksOK /\ Removed /\ Unwedged
<1>1. Init => Inv
  <2> SUFFICES ASSUME Init PROVE Inv OBVIOUS
  <2>1. /\ pc = "off" /\ result = "none" /\ marker.phase = "none"
        /\ marker.schema # 2
    <3>1. marker = NoMarker \/ \E S : marker = LegacyMarker(S)
      BY DEF Init, InitBundles, InitInterim, InitCommitLoop, InitTornCleanup,
             InitLegacy
    <3> QED BY <3>1 DEF Init, NoMarker, LegacyMarker, Unbound
  <2> QED BY <2>1 DEF LinksOK, Removed, Unwedged, Prepared, Complete,
             Preparing, Linked, Tidying, Executing
<1>2. ASSUME IInv, IInv', BoundInv, Plans, Inv, [Next]_vars
      PROVE  Inv'
  <2>1. CASE UNCHANGED vars
    <3> USE <2>1 DEF vars, disk, data, staging, archives, markers, memory, history,
                     budgets
    <3>1. LinksOK' /\ Removed'
      BY <1>2 DEF LinksOK, Removed, DanglingLinks, LinkedTransients, Unlinked,
                  Sources, NamesIn, Prepared, Complete, MarkerMatches
    <3>2. UNCHANGED Judged BY DEF Judged
    <3>3. /\ pc' \in Preparing => Resumable(manifest)'
          /\ Prepared' => Resumable(marker)'
      BY <1>2, <3>2, ResumableRests DEF Unwedged, Prepared
    <3>4. /\ \A n : /\ Archived(n)' = Archived(n) /\ Candidate(n)' = Candidate(n)
                   /\ Snapshotted(n)' = Snapshotted(n)
          /\ Complete' = Complete
      BY DEF Archived, Candidate, Snapshotted, Shared, Complete
    <3> QED BY <1>2, <3>1, <3>3, <3>4 DEF Unwedged
  <2>2. CASE Next
    BY <1>2, <2>2, LinksStep, RemovedStep, UnwedgedStep
  <2> QED BY <1>2, <2>1, <2>2
<1> DEFINE A == pc # "off" /\ pc' = "off" /\ Prepared /\ result' = "refused" => Wedged
<1>3. ASSUME IInv, BoundInv, Plans, Inv, [Next]_vars
      PROVE  [A]_vars
  BY <1>3, RefusedOnlyWedged
<1>4. Spec => [][A]_vars
  <2> HIDE DEF A, Inv
  <2> QED BY <1>1, <1>2, <1>3, Invariance, BoundInvariance, PlansInvariance, PTL DEF Spec
<1> QED BY <1>4 DEF RefusesOnlyWedged
=============================================================================
