---------------------------- MODULE StateMigrate ----------------------------
(***************************************************************************)
(* The privileged state migrator of the lnSwitchboard package             *)
(* (hooks/state-migrate.py).  It moves the application's state entries     *)
(* from the application-data root, where interim packages kept them, into  *)
(* the canonical directory, under a durable transaction manifest, and      *)
(* leaves rollback links behind.                                           *)
(*                                                                         *)
(* Every durable effect of the code (a rename, the begin and the end of a  *)
(* copy, the removal of one entry, the replacement of the marker) is one   *)
(* step, so that Crash can fall between any two of them.  What the code    *)
(* reads and decides between two effects belongs to the step that follows: *)
(* the migrator holds an exclusive lock and nothing else runs meanwhile.   *)
(***************************************************************************)
EXTENDS Naturals

CONSTANTS
    Names,       \* the state entries, files and directories, by name
    DB, KEY,     \* lnswitchboard.db and connection-secrets.key
    Dirs,        \* the entries that are directories
    Transient,   \* TRANSIENT_SQLITE_COMPATIBILITY_NAMES: never linked
    Connectors,  \* CANONICAL_RUNTIME_DIRECTORIES present among the entries
    Gens,        \* Gens[n]: the contents of entry n that are told apart
    EmptyGens,   \* database contents without a single row
    Sealed,      \* database contents that hold encrypted credentials
    KeyOf,       \* KeyOf[g]: the key content that decrypts database g
    Inside,      \* <<g, h>>: every file of directory g is in directory h too
    None,        \* no such entry
    Link,        \* the rollback link  <root>/n -> secrets/n
    Layouts,     \* which kinds of initial data directories are considered
    MaxSlot,     \* bound: archive generations per name
    MaxCrashes,  \* bound: interrupted runs
    MaxWrites,   \* bound: writes by the applications between runs
    MaxLosses,   \* bound: losses of the whole canonical directory
    MidwayRollback \* may an old package run over a prepared transaction?

AllGens == UNION {Gens[n] : n \in Names}
Slots == 1 .. MaxSlot
Entries == [gen : AllGens, whole : BOOLEAN]

ASSUME NamesAssumption ==
    /\ DB \in Names /\ KEY \in Names
    /\ Dirs \subseteq Names /\ Transient \subseteq Names
    /\ Connectors \subseteq Dirs
ASSUME InsideAssumption ==
    \A p, q \in Inside : p[2] = q[1] => <<p[1], q[2]>> \in Inside
ASSUME NoneAssumption ==
    /\ None \notin Names /\ None \notin Entries /\ None # Link
    /\ Link \notin Entries
ASSUME BoundsAssumption ==
    /\ MaxSlot \in Nat \ {0, 1} /\ MaxCrashes \in Nat
    /\ MaxWrites \in Nat /\ MaxLosses \in Nat
    /\ MidwayRollback \in BOOLEAN

VARIABLES
    root,       \* ROOT/n: an entry, a rollback link, or nothing
    canonical,  \* CANONICAL/n
    canonDir,   \* does CANONICAL exist?
    stage,      \* STAGE/n
    stageDir,   \* does STAGE exist?
    backup,     \* BACKUP/n, BACKUP/n.2, ...: backup[n][1], backup[n][2], ...
    snapshot,   \* BACKUP/.txn-<id>-<index>.tmp of entry n
    marker,     \* MARKER
    markerTemp, \* does MARKER_TEMP exist?
    hard,       \* connector directories that contain hard-linked files now
    litter,     \* where an interrupted verification left a directory that
                \* no manifest binds: ROOT, CANONICAL, STAGE
    pc,         \* where the migrator is; "off" when no migrator runs
    manifest,   \* the transaction in the migrator's memory
    todo,       \* what is left of the loop the migrator is in
    archiveOnly,\* archive_only of _main_locked
    partial,    \* partial_recovery of _main_locked
    copying,    \* the entry whose copy this run has begun
    result,     \* how the last run ended, and whether an application ran since
    crashes, writes, losses  \* budgets used so far

data == <<root, canonical, canonDir>>
staging == <<stage, stageDir>>
archives == <<backup, snapshot>>
markers == <<marker, markerTemp>>
disk == <<data, staging, archives, markers, hard, litter>>
decided == <<archiveOnly, partial>>
memory == <<manifest, todo, copying, decided>>
budgets == <<crashes, writes, losses>>
history == <<result, budgets>>
vars == <<disk, pc, memory, history>>

-----------------------------------------------------------------------------
(* Entries, bundles and manifests.                                         *)

Whole(g) == [gen |-> g, whole |-> TRUE]
Torn(e) == [e EXCEPT !.whole = FALSE]
WholeOf(n) == {Whole(g) : g \in Gens[n]}

(* Mutant: a directory counts as a subset of any directory.                *)
AnyTreeIsSubset(n, sub, sup) == sub = sup \/ n \in Dirs

(* files_equal and state_digest tell entries apart by content; a copy in   *)
(* progress, or a half-removed directory, is a torn entry.                 *)
Within(n, g, h) == g = h \/ (n \in Dirs /\ <<g, h>> \in Inside)
TreeIsSubset(n, sub, sup) ==
    \/ sub = sup
    \/ n \in Dirs /\ sup.whole /\ Within(n, sub.gen, sup.gen)

(* Mutant: a credential bundle is accepted with any key.                   *)
CoherentWithAnyKey(f) ==
    f[DB] # None => f[DB].whole /\ (f[DB].gen \in Sealed => f[KEY] # None)

(* verify_database and verify_credential_bundle of a name -> entry map.    *)
Coherent(f) ==
    f[DB] # None =>
      /\ f[DB].whole
      /\ f[DB].gen \in Sealed => f[KEY] = Whole(KeyOf[f[DB].gen])

NamesIn(f) == {n \in Names : f[n] \in Entries}
Sources == NamesIn(root)
Over(f, g) == [n \in Names |-> IF f[n] # None THEN f[n] ELSE g[n]]
Nothing == [n \in Names |-> None]
NoSlot == [n \in Names |-> 0]

(* A schema 1 marker has no phase and binds no content.                    *)
Unbound(schema, S) ==
    [schema |-> schema, phase |-> "none", names |-> S,
     auth |-> Nothing, authSlot |-> NoSlot,
     arch |-> Nothing, archSlot |-> NoSlot]
NoMarker == Unbound(0, {})
LegacyMarker(S) == Unbound(1, S)
Prepared == marker.schema = 2 /\ marker.phase = "prepared"
Complete == marker.schema = 2 /\ marker.phase = "complete"

(* allocate_archive_name: the lowest free archive name; a name that needs  *)
(* two destinations in one transaction gets the two lowest.                *)
Free(n) == {s \in Slots : backup[n][s] = None}
Lowest(S) == CHOOSE s \in S : \A t \in S : s <= t
FirstFreeFromZero(n) == Lowest(Free(n)) - 1   \* mutant: off by one
FirstFree(n) == Lowest(Free(n))
SecondFree(n) == Lowest(Free(n) \ {FirstFree(n)})
HasRoom == \A n \in Names : {MaxSlot - 1, MaxSlot} \subseteq Free(n)

(* backup_candidate: the archived generation with the highest suffix.      *)
Archived(n) == {s \in Slots : backup[n][s] # None}
Candidate(n) ==
    IF Archived(n) = {} THEN None
    ELSE backup[n][CHOOSE s \in Archived(n) : \A t \in Archived(n) : t <= s]

(* build_transaction_manifest.  An authority is what canonical state will  *)
(* be: what is there already, completed by what was staged.  A source that *)
(* equals its authority shares the authority's archive; any other source   *)
(* and any other authority get an archive destination of their own.        *)
Manifest(S, only) ==
    LET auth == Over(canonical, [n \in Names |->
                        IF n \in S \ only THEN stage[n] ELSE None])
        shared == {n \in S \ only : root[n] = auth[n]}
    IN [schema |-> 2, phase |-> "prepared", names |-> NamesIn(auth),
        auth |-> auth,
        authSlot |-> [n \in Names |->
                        IF auth[n] # None THEN FirstFree(n) ELSE 0],
        arch |-> [n \in Names |-> IF n \in S THEN root[n] ELSE None],
        archSlot |-> [n \in Names |->
                        IF n \notin S THEN 0
                        ELSE IF n \in shared \/ auth[n] = None
                             THEN FirstFree(n) ELSE SecondFree(n)]]

(* build_legacy_recovery_manifest: entries of the old marker keep the      *)
(* archive they already have.                                              *)
LegacyManifest ==
    LET auth == Over(stage, canonical)
    IN [schema |-> 2, phase |-> "prepared", names |-> NamesIn(auth),
        auth |-> auth,
        authSlot |-> [n \in Names |->
                        IF auth[n] = None THEN 0
                        ELSE IF n \in marker.names THEN Lowest(Archived(n))
                        ELSE FirstFree(n)],
        arch |-> Nothing, archSlot |-> NoSlot]

(* Mutants: the marker is compared by entry names only; and with the root. *)
MarkerMatchesNames == marker.names = NamesIn(canonical)
MarkerMatchesRoot == marker.names = Sources

(* complete_marker_matches_canonical                                       *)
MarkerMatches ==
    /\ marker.names = NamesIn(canonical)
    /\ "canonical" \notin litter
    /\ \A n \in marker.names : /\ canonical[n] = marker.auth[n]
                               /\ backup[n][marker.authSlot[n]] = marker.auth[n]

-----------------------------------------------------------------------------
(* Initial data directories.                                               *)

(* Nothing says that an old directory holds a decryptable pair.            *)
Bundles == {f \in [Names -> [gen : AllGens, whole : {TRUE}] \cup {None}] :
              \A n \in Names : f[n] \in WholeOf(n) \cup {None}}

(* What an interim package and the historical one leave: a bundle in the   *)
(* root, one in the canonical directory, either of them possibly empty.    *)
InitBundles ==
    /\ root \in Bundles /\ canonical \in Bundles
    /\ stage = Nothing /\ stageDir = FALSE
    /\ backup = [n \in Names |-> [s \in Slots |-> None]]
    /\ marker = NoMarker

(* Only the interim package ran here.                                      *)
InitInterim == InitBundles /\ canonical = Nothing

(* The unmanifested commit loop of an older migrator, interrupted: each    *)
(* entry of the root is already canonical or still staged.                 *)
InitCommitLoop ==
    /\ root \in Bundles /\ Sources # {}
    /\ \E C \in SUBSET Sources :
         /\ canonical = [n \in Names |-> IF n \in C THEN root[n] ELSE None]
         /\ stage = [n \in Names |-> IF n \in C THEN None ELSE root[n]]
    /\ stageDir = TRUE
    /\ backup = [n \in Names |-> [s \in Slots |-> None]]
    /\ marker = NoMarker

(* An older migrator stopped while it removed an already archived          *)
(* directory from the root: what remains is a subset of the archive.       *)
InitTornCleanup ==
    /\ canonical \in Bundles
    /\ \E n \in Dirs \cap NamesIn(canonical) :
         /\ root = [Nothing EXCEPT ![n] = Torn(canonical[n])]
         /\ backup = [m \in Names |-> [s \in Slots |->
                        IF m = n /\ s = 1 THEN canonical[n] ELSE None]]
    /\ stage = Nothing /\ stageDir = FALSE
    /\ marker = NoMarker

(* A schema 1 marker: the archives hold the named entries, the canonical   *)
(* directory some of them, staging some others, whole or torn.             *)
InitLegacy ==
    /\ root = Nothing
    /\ \E f \in Bundles, C \in SUBSET Names, T \in SUBSET Names, w \in BOOLEAN :
         /\ NamesIn(f) # {}
         /\ canonical = [n \in Names |-> IF n \in C THEN f[n] ELSE None]
         /\ stage = [n \in Names |->
                       IF n \in C \/ n \notin T \/ f[n] = None THEN None
                       ELSE [f[n] EXCEPT !.whole = w]]
         /\ stageDir = (NamesIn(stage) # {})
         /\ backup = [n \in Names |-> [s \in Slots |->
                        IF s = 1 THEN f[n] ELSE None]]
         /\ marker = LegacyMarker(NamesIn(f))

Init ==
    /\ \/ "bundles" \in Layouts /\ InitBundles
       \/ "interim" \in Layouts /\ InitInterim
       \/ "commit_loop" \in Layouts /\ InitCommitLoop
       \/ "torn_cleanup" \in Layouts /\ InitTornCleanup
       \/ "legacy" \in Layouts /\ InitLegacy
    /\ canonDir = (NamesIn(canonical) # {})
    /\ snapshot = Nothing /\ markerTemp = FALSE /\ hard = {} /\ litter = {}
    /\ pc = "off" /\ manifest = NoMarker /\ todo = {}
    /\ archiveOnly = {} /\ partial = FALSE /\ copying = None
    /\ result = "none" /\ crashes = 0 /\ writes = 0 /\ losses = 0

-----------------------------------------------------------------------------
(* Runs of the migrator: start, end, crash.                                *)

Halt(r) ==
    /\ pc' = "off" /\ result' = r
    /\ manifest' = NoMarker /\ todo' = {} /\ archiveOnly' = {}
    /\ partial' = FALSE /\ copying' = None

Goto(p, T) == pc' = p /\ todo' = T

(* A run is a rerun when the run before it ended well and left nothing of  *)
(* an interrupted verification unbound.                                    *)
Start ==
    /\ pc = "off"
    /\ Goto("main", {})
    /\ result' = IF result = "ok" /\ litter = {} THEN "rerun" ELSE "running"
    /\ UNCHANGED <<disk, manifest, copying, decided, budgets>>

(* fail(): exit status 65, nothing else changes.                           *)
Refuse == Halt("refused") /\ UNCHANGED <<disk, budgets>>

(* The regular end of a run removes a left-over MARKER_TEMP.               *)
Finish ==
    /\ Halt("ok")
    /\ markerTemp' = FALSE
    /\ UNCHANGED <<data, staging, archives, marker, hard, litter, budgets>>

(* Mutants: MARKER is not replaced before the transaction executes; the    *)
(* marker is written complete from the start.                              *)
WriteMarkerTempOnly ==
    /\ pc \in {"putPrepared", "putComplete"}
    /\ markerTemp' = TRUE
    /\ pc' = IF pc = "putPrepared" THEN "execute" ELSE "swapComplete"
    /\ UNCHANGED <<data, staging, archives, marker, hard, litter, memory,
                   history>>
SwapPreparedAsComplete ==
    /\ pc = "swapPrepared"
    /\ marker' = [manifest EXCEPT !.phase = "complete"] /\ markerTemp' = FALSE
    /\ pc' = "execute"
    /\ UNCHANGED <<data, staging, archives, hard, litter, memory, history>>

(* write_marker_payload, up to the replacement of MARKER.                  *)
WriteMarkerTemp ==
    /\ pc \in {"putPrepared", "putComplete"}
    /\ markerTemp' = TRUE
    /\ pc' = IF pc = "putPrepared" THEN "swapPrepared" ELSE "swapComplete"
    /\ UNCHANGED <<data, staging, archives, marker, hard, litter, memory,
                   history>>

(* A new manifest binds a leftover as it binds any entry: one in ROOT as a *)
(* source, one in CANONICAL as an authority.                               *)
SwapPrepared ==
    /\ pc = "swapPrepared"
    /\ marker' = manifest /\ markerTemp' = FALSE
    /\ litter' = litter \cap {"stage"}
    /\ pc' = "execute"
    /\ UNCHANGED <<data, staging, archives, hard, memory, history>>

(* The last step of execute_prepared_transaction ends the run: what its    *)
(* callers do after it finds nothing left to do.                           *)
SwapComplete ==
    /\ pc = "swapComplete"
    /\ marker' = [manifest EXCEPT !.phase = "complete"] /\ markerTemp' = FALSE
    /\ Halt("ok")
    /\ UNCHANGED <<data, staging, archives, hard, litter, budgets>>

-----------------------------------------------------------------------------
(* _main_locked up to its first effect.                                    *)

(* A transient link may go only under a schema 2 marker that binds it to   *)
(* a matching archive.                                                     *)
LinkedTransients == {n \in Transient : root[n] = Link}
TransientBound(n, m) ==
    /\ m.schema = 2 /\ m.auth[n] # None
    /\ backup[n][m.authSlot[n]] = m.auth[n]

DanglingLinks == {n \in Names : root[n] = Link /\ canonical[n] = None}

(* validated_reserved_paths, read_marker, the transient links and the scan *)
(* of the root leave nothing to object to and nothing to do.               *)
Admissible ==
    /\ ~Prepared /\ LinkedTransients = {} /\ DanglingLinks = {}
    /\ ~(markerTemp /\ marker.schema = 0)

Resume ==
    /\ pc = "main" /\ Prepared
    /\ manifest' = marker
    /\ pc' = "execute"
    /\ UNCHANGED <<disk, todo, copying, decided, history>>

(* remove_transient_compatibility_links, called by _main_locked and again  *)
(* by ensure_compatibility_links: all are validated before one is removed. *)
LinkAuthority == IF pc = "main" THEN marker ELSE manifest
RetireTransientLink(n) ==
    /\ \/ pc = "main" /\ ~Prepared
       \/ pc = "links"
    /\ n \in LinkedTransients
    /\ \A t \in LinkedTransients : TransientBound(t, LinkAuthority)
    /\ root' = [root EXCEPT ![n] = None]
    /\ UNCHANGED <<canonical, canonDir, staging, archives, markers, hard,
                   litter, pc, memory, history>>

RefuseTransientLink ==
    /\ \/ pc = "main" /\ ~Prepared
       \/ pc = "links"
    /\ \E t \in LinkedTransients : ~TransientBound(t, LinkAuthority)
    /\ Refuse

RefuseDanglingLink ==
    /\ pc = "main" /\ ~Prepared /\ LinkedTransients = {}
    /\ DanglingLinks # {}
    /\ Refuse

DropMarkerTemp ==
    /\ pc = "main" /\ LinkedTransients = {} /\ DanglingLinks = {}
    /\ markerTemp /\ marker.schema = 0
    /\ IF Sources = {} THEN Refuse
       ELSE /\ markerTemp' = FALSE
            /\ UNCHANGED <<data, staging, archives, marker, hard, litter, pc,
                           memory, history>>

-----------------------------------------------------------------------------
(* _main_locked when the root holds no source entry.                       *)

NoSources == pc = "main" /\ Admissible /\ Sources = {} /\ "root" \notin litter
LegacyPending ==
    /\ marker.schema = 1
    /\ \/ ~(marker.names \subseteq NamesIn(canonical))
       \/ stageDir /\ (NamesIn(stage) # {} \/ "stage" \in litter)

(* The canonical directory is gone: restore what the marker binds.         *)
RestoreLost ==
    /\ NoSources /\ marker.schema = 2 /\ ~canonDir
    /\ manifest' = [marker EXCEPT !.phase = "prepared"]
    /\ pc' = "putPrepared"
    /\ UNCHANGED <<disk, todo, copying, decided, history>>

CanonicalOnly == NoSources /\ canonDir /\ ~LegacyPending

(* The complete marker no longer describes canonical state: bind it anew.  *)
Supersede ==
    /\ CanonicalOnly /\ Coherent(canonical)
    /\ marker.schema = 2 /\ ~MarkerMatches
    /\ HasRoom
    /\ manifest' = Manifest({}, {})
    /\ pc' = "putPrepared"
    /\ UNCHANGED <<disk, todo, copying, decided, history>>

Tidy ==
    /\ CanonicalOnly /\ Coherent(canonical)
    /\ marker.schema = 2 => MarkerMatches
    /\ pc' = "tidyStage"
    /\ UNCHANGED <<disk, memory, history>>

RefuseIncoherentCanonical ==
    /\ CanonicalOnly /\ ~Coherent(canonical)
    /\ Refuse

(* Neither source nor canonical state: nothing to migrate, unless staging  *)
(* or unbound archives say that something was lost.                        *)
FreshLayout ==
    /\ NoSources /\ ~canonDir /\ marker.schema # 2 /\ ~LegacyPending
    /\ IF \/ stageDir
          \/ marker.schema = 0 /\ \E n \in Names : Archived(n) # {}
       THEN Refuse ELSE Finish

-----------------------------------------------------------------------------
(* recover_legacy_archived_transaction                                     *)

(* Each marker name must have exactly one archived generation.             *)
Selected == [n \in Names |-> IF n \in marker.names THEN Candidate(n) ELSE None]
LegacySelected ==
    /\ marker.names # {}
    /\ \A n \in marker.names : \E s \in Slots : Archived(n) = {s}
LegacyCoherent ==
    /\ LegacySelected
    /\ Coherent(Selected)
    /\ \A n \in marker.names \cap NamesIn(canonical) : canonical[n] = Selected[n]
    /\ \A n \in NamesIn(stage) : n \in marker.names /\ canonical[n] = None
    /\ "stage" \notin litter

LegacyStart ==
    /\ NoSources /\ LegacyPending
    /\ IF ~LegacyCoherent THEN Refuse
       ELSE /\ stageDir' = TRUE
            /\ Goto("legacy", marker.names \ NamesIn(canonical))
            /\ UNCHANGED <<data, stage, archives, markers, hard, litter,
                           manifest, copying, decided, history>>

(* A staged entry that is not the archived one is removed and copied anew. *)
LegacyStage(n) ==
    /\ pc = "legacy" /\ n \in todo
    /\ \/ /\ stage[n] = Selected[n] /\ copying \in {None, n}
          /\ todo' = todo \ {n} /\ copying' = None
          /\ UNCHANGED stage
       \/ /\ stage[n] \notin {None, Selected[n]} /\ copying # n
          /\ stage' = [stage EXCEPT ![n] = None]
          /\ UNCHANGED <<todo, copying>>
       \/ /\ stage[n] = None /\ copying = None
          /\ stage' = [stage EXCEPT ![n] = Torn(Selected[n])]
          /\ copying' = n
          /\ UNCHANGED todo
       \/ /\ copying = n /\ stage[n] # Selected[n]
          /\ stage' = [stage EXCEPT ![n] = Selected[n]]
          /\ UNCHANGED <<todo, copying>>
    /\ UNCHANGED <<data, stageDir, archives, markers, hard, litter, pc,
                   manifest, decided, history>>

LegacyPrepare ==
    /\ pc = "legacy" /\ todo = {} /\ HasRoom
    /\ IF ~Coherent(Over(canonical, stage)) THEN Refuse
       ELSE /\ manifest' = LegacyManifest
            /\ pc' = "putPrepared"
            /\ UNCHANGED <<disk, todo, copying, decided, history>>

-----------------------------------------------------------------------------
(* _main_locked when the root holds source entries.                        *)

(* is_trusted_partial_migration: canonical and staged entries divide the   *)
(* sources among them, content for content.  A leftover is a name that one *)
(* of the three has and the others lack.                                   *)
PartialMigration ==
    LET C == NamesIn(canonical)
        T == NamesIn(stage)
    IN /\ C # {} /\ T # {} /\ C \cap T = {} /\ C \cup T = Sources
       /\ \A n \in Sources : root[n] = Over(canonical, stage)[n]
       /\ litter = {}

MigrateStart ==
    /\ pc = "main" /\ Admissible /\ (Sources # {} \/ "root" \in litter)
    /\ canonDir' = TRUE
    /\ partial' = PartialMigration
    /\ pc' = "restage"
    /\ UNCHANGED <<root, canonical, staging, archives, markers, hard, litter,
                   manifest, todo, copying, archiveOnly, history>>

(* remove_owned_stage, entry by entry; a directory may be found half gone. *)
RemoveStageEntry(n) ==
    /\ pc \in {"restage", "unstage", "tidyStage"}
    /\ n \in NamesIn(stage)
    /\ \/ stage' = [stage EXCEPT ![n] = None]
       \/ /\ n \in Dirs /\ stage[n].whole
          /\ stage' = [stage EXCEPT ![n] = Torn(stage[n])]
    /\ UNCHANGED <<data, stageDir, archives, markers, hard, litter, pc, memory,
                   history>>

RemoveStageDir ==
    /\ pc \in {"restage", "unstage", "tidyStage"}
    /\ stageDir /\ NamesIn(stage) = {}
    /\ stageDir' = FALSE
    /\ litter' = litter \ {"stage"}
    /\ UNCHANGED <<data, stage, archives, markers, hard, pc, memory, history>>

(* The root holds an empty database that a broken package created beside   *)
(* the historical one, or the archives hold it already.                    *)
EmptyInterim ==
    LET interim == IF DB \in Sources THEN root[DB]
                   ELSE IF root[DB] = None THEN Candidate(DB) ELSE None
    IN /\ interim # None /\ canonical[DB] # None /\ interim # canonical[DB]
       /\ interim.gen \in EmptyGens

IdenticalSubset ==
    /\ Sources \subseteq NamesIn(canonical)
    /\ \A n \in Sources : root[n] = canonical[n]

TornArchiveCleanup ==
    /\ Sources \subseteq NamesIn(canonical)
    /\ \A n \in Sources : /\ TreeIsSubset(n, root[n], canonical[n])
                          /\ root[n] # canonical[n] => Candidate(n) = canonical[n]

RollbackExtension ==
    /\ marker.schema # 0
    /\ marker.names \subseteq NamesIn(canonical)
    /\ \A n \in Sources : canonical[n] \in {None, root[n]}

(* The sources that are archived without becoming canonical.               *)
ArchiveOnly ==
    IF \/ EmptyInterim
       \/ NamesIn(canonical) # {} /\ (IdenticalSubset \/ TornArchiveCleanup)
    THEN Sources ELSE {}

(* A leftover in ROOT counts as a source.  It is root's own, and           *)
(* preserve_ownership refuses its copy (the STAGE that stays behind is     *)
(* removed by the next run): it only ever gets away with an empty interim. *)
Divergent ==
    \/ "root" \in litter /\ ~EmptyInterim
    \/ /\ NamesIn(canonical) # {} /\ ~EmptyInterim /\ ArchiveOnly = {}
       /\ ~RollbackExtension /\ ~partial
    \/ \E n \in Sources \ ArchiveOnly : canonical[n] \notin {None, root[n]}

(* A fresh STAGE and the decision what to do with each source; on a        *)
(* refusal STAGE is removed again.                                         *)
Classify ==
    /\ pc = "restage" /\ ~stageDir
    /\ IF Divergent THEN Refuse
       ELSE /\ stageDir' = TRUE
            /\ archiveOnly' = ArchiveOnly
            /\ Goto("copy", {n \in Sources \ ArchiveOnly : canonical[n] = None})
            /\ UNCHANGED <<data, stage, archives, markers, hard, litter,
                           manifest, copying, partial, history>>

(* Mutant: the copy of a source is taken for finished when it has begun.   *)
StageSourceUnfinished(n) ==
    /\ pc = "copy" /\ n \in todo
    /\ stage' = [stage EXCEPT ![n] = Torn(root[n])]
    /\ todo' = todo \ {n}
    /\ UNCHANGED <<data, stageDir, archives, markers, hard, litter, pc,
                   manifest, copying, decided, history>>

StageSource(n) ==
    /\ pc = "copy" /\ n \in todo
    /\ IF stage[n] = None
       THEN /\ stage' = [stage EXCEPT ![n] = Torn(root[n])]
            /\ UNCHANGED todo
       ELSE /\ stage' = [stage EXCEPT ![n] = root[n]]
            /\ todo' = todo \ {n}
    /\ UNCHANGED <<data, stageDir, archives, markers, hard, litter, pc,
                   manifest, copying, decided, history>>

(* verify_combined_bundle and the manifest of what was verified.           *)
Prepare ==
    /\ pc = "copy" /\ todo = {} /\ HasRoom
    /\ IF ~Coherent(Over(canonical, stage)) THEN Refuse
       ELSE /\ manifest' = Manifest(Sources, archiveOnly)
            /\ pc' = "putPrepared"
            /\ UNCHANGED <<disk, todo, copying, decided, history>>

-----------------------------------------------------------------------------
(* execute_prepared_transaction                                            *)

MakeDirectories ==
    /\ pc = "execute"
    /\ canonDir' = TRUE /\ stageDir' = TRUE
    /\ Goto("recover", manifest.names)
    /\ UNCHANGED <<root, canonical, stage, archives, markers, hard, litter,
                   manifest, copying, decided, history>>

(* recover_canonical_entry: the first of the staged entry, the source and  *)
(* the archive that exists is the one that must have the bound content.    *)
RecoverySource(n) ==
    IF stage[n] # None THEN stage[n]
    ELSE IF n \in Sources THEN root[n]
    ELSE backup[n][manifest.authSlot[n]]

RecoverPresent(n) ==
    /\ pc = "recover" /\ n \in todo
    /\ canonical[n] = manifest.auth[n] /\ n \notin hard
    /\ todo' = todo \ {n}
    /\ UNCHANGED <<disk, pc, manifest, copying, decided, history>>

RecoverCopy(n) ==
    /\ pc = "recover" /\ n \in todo /\ canonical[n] = None
    /\ \/ /\ stage[n] = None /\ copying = None
          /\ RecoverySource(n) = manifest.auth[n]
          /\ stage' = [stage EXCEPT ![n] = Torn(manifest.auth[n])]
          /\ copying' = n
       \/ /\ copying = n
          /\ stage' = [stage EXCEPT ![n] = manifest.auth[n]]
          /\ copying' = None
    /\ UNCHANGED <<data, stageDir, archives, markers, hard, litter, pc,
                   manifest, todo, decided, history>>

RecoverCommit(n) ==
    /\ pc = "recover" /\ n \in todo /\ canonical[n] = None
    /\ copying = None /\ stage[n] = manifest.auth[n]
    /\ canonical' = [canonical EXCEPT ![n] = stage[n]]
    /\ stage' = [stage EXCEPT ![n] = None]
    /\ todo' = todo \ {n}
    /\ UNCHANGED <<root, canonDir, stageDir, archives, markers, hard, litter,
                   pc, manifest, copying, decided, history>>

(* Mutant: an entry that an interrupted run committed is refused.           *)
RefusePresent(n) ==
    /\ pc = "recover" /\ n \in todo /\ copying = None
    /\ canonical[n] # None \/ RecoverySource(n) # manifest.auth[n]
    /\ Refuse

RefuseRecovery(n) ==
    /\ pc = "recover" /\ n \in todo /\ copying = None
    /\ IF canonical[n] # None
       THEN canonical[n] # manifest.auth[n] \/ n \in hard
       ELSE RecoverySource(n) # manifest.auth[n]
    /\ Refuse

(* Authorities that share their source's archive need no snapshot.         *)
Shared(n) == manifest.arch[n] # None /\ manifest.archSlot[n] = manifest.authSlot[n]

VerifyRecovered ==
    /\ pc = "recover" /\ todo = {}
    /\ IF ~Coherent(canonical) THEN Refuse
       ELSE /\ Goto("snapshot", {n \in manifest.names : ~Shared(n)})
            /\ UNCHANGED <<disk, manifest, copying, decided, history>>

(* copy_snapshot.  The finished temporary and its rename to the archive    *)
(* are one step: a temporary left by a crash is discarded in either case.  *)
(* The refusal of a foreign archive under the bound name has no step: only *)
(* the migrator writes there, and a run would deadlock if it were reached. *)
SnapshotLeftBehind(n) == snapshot[n] # None /\ copying # n

CopySnapshot(n) ==
    LET s == manifest.authSlot[n] IN
    /\ pc = "snapshot" /\ n \in todo
    /\ \/ /\ backup[n][s] = manifest.auth[n]
          /\ todo' = todo \ {n}
          /\ UNCHANGED <<archives, copying>>
       \/ /\ backup[n][s] = None /\ SnapshotLeftBehind(n)
          /\ snapshot' = [snapshot EXCEPT ![n] = None]
          /\ UNCHANGED <<backup, todo, copying>>
       \/ /\ backup[n][s] = None /\ snapshot[n] = None /\ copying = None
          /\ snapshot' = [snapshot EXCEPT ![n] = Torn(canonical[n])]
          /\ copying' = n
          /\ UNCHANGED <<backup, todo>>
       \/ /\ copying = n /\ canonical[n] = manifest.auth[n]
          /\ snapshot' = [snapshot EXCEPT ![n] = None]
          /\ backup' = [backup EXCEPT ![n][s] = canonical[n]]
          /\ copying' = None /\ todo' = todo \ {n}
    /\ UNCHANGED <<data, staging, markers, hard, litter, pc, manifest, decided,
                   history>>

SnapshotsDone ==
    /\ pc = "snapshot" /\ todo = {}
    /\ Goto("archive", NamesIn(manifest.arch))
    /\ UNCHANGED <<disk, manifest, copying, decided, history>>

(* archive_exact: a source moves to its archive destination, or is removed *)
(* where the destination already holds it.                                 *)
ArchiveHoldsUnchecked(n) == TRUE   \* mutant: no check of the destination
ArchiveHolds(n) ==
    /\ backup[n][manifest.archSlot[n]] = manifest.arch[n]
    /\ TreeIsSubset(n, root[n], manifest.arch[n])

ArchiveSource(n) ==
    LET s == manifest.archSlot[n]
        expected == manifest.arch[n] IN
    /\ pc = "archive" /\ n \in todo
    /\ \/ /\ n \in Sources /\ backup[n][s] = None /\ root[n] = expected
          /\ backup' = [backup EXCEPT ![n][s] = root[n]]
          /\ root' = [root EXCEPT ![n] = None]
          /\ todo' = todo \ {n}
       \/ /\ n \in Sources /\ ArchiveHolds(n)
          /\ \/ root' = [root EXCEPT ![n] = None] /\ todo' = todo \ {n}
             \/ /\ n \in Dirs /\ root[n].whole
                /\ root' = [root EXCEPT ![n] = Torn(root[n])] /\ UNCHANGED todo
          /\ UNCHANGED backup
       \/ /\ n \notin Sources /\ backup[n][s] = expected
          /\ todo' = todo \ {n}
          /\ UNCHANGED <<root, backup>>
    /\ UNCHANGED <<canonical, canonDir, staging, snapshot, markers, hard,
                   litter, pc, manifest, copying, decided, history>>

RefuseArchive(n) ==
    LET dest == backup[n][manifest.archSlot[n]]
        expected == manifest.arch[n] IN
    /\ pc = "archive" /\ n \in todo
    /\ \/ dest \notin {None, expected}
       \/ dest = None /\ root[n] # expected
       \/ dest = expected /\ n \in Sources /\ ~ArchiveHolds(n)
    /\ Refuse

(* Mutant: only the bound entries are linked.                              *)
UnlinkedBound == manifest.names \ Transient
Unlinked == NamesIn(canonical) \ Transient

(* Every authority must be archived before links replace the sources.      *)
ArchivesDone ==
    /\ pc = "archive" /\ todo = {}
    /\ IF \E n \in manifest.names :
             backup[n][manifest.authSlot[n]] # manifest.auth[n]
       THEN Refuse
       ELSE /\ Goto("links", Unlinked)
            /\ UNCHANGED <<disk, manifest, copying, decided, history>>

(* ensure_compatibility_links                                              *)
MakeLink(n) ==
    /\ pc \in {"links", "tidyLinks"} /\ LinkedTransients = {} /\ n \in todo
    /\ IF n \in Sources THEN Refuse
       ELSE /\ root' = [root EXCEPT ![n] = Link]
            /\ todo' = todo \ {n}
            /\ UNCHANGED <<canonical, canonDir, staging, archives, markers,
                           hard, litter, pc, manifest, copying, decided,
                           history>>

LinksDone ==
    /\ pc = "links" /\ LinkedTransients = {} /\ todo = {}
    /\ pc' = "unstage"
    /\ UNCHANGED <<disk, memory, history>>

StageRemoved ==
    /\ pc = "unstage" /\ ~stageDir
    /\ pc' = "putComplete"
    /\ UNCHANGED <<disk, memory, history>>

-----------------------------------------------------------------------------
(* The rest of the canonical-only run: tidy up, and bind the canonical     *)
(* state of a schema 1 layout with its first schema 2 manifest.            *)

TidyStageRemoved ==
    /\ pc = "tidyStage" /\ ~stageDir
    /\ Goto("tidyLinks", Unlinked)
    /\ UNCHANGED <<disk, manifest, copying, decided, history>>

TidyDone ==
    /\ pc = "tidyLinks" /\ todo = {}
    /\ IF marker.schema # 1 THEN Finish
       ELSE /\ HasRoom
            /\ manifest' = Manifest({}, {})
            /\ pc' = "putPrepared"
            /\ UNCHANGED <<disk, todo, copying, decided, history>>

-----------------------------------------------------------------------------
(* Where a directory for the verification of a database exists while the   *)
(* migrator is there (verify_database, verify_credential_bundle,           *)
(* verify_combined_bundle, verify_legacy_archived_bundle).                 *)
Verifying ==
    {p \in {"root", "canonical", "stage"} :
       \/ p = "root" /\ NoSources /\ LegacyPending /\ LegacySelected
       \/ /\ p = "canonical" /\ canonical[DB] # None
          /\ CanonicalOnly \/ (pc = "recover" /\ todo = {})
       \/ p = "stage" /\ pc \in {"copy", "legacy"} /\ todo = {}}

(* A kill or a power loss at any point; the disk keeps what was done.      *)
Crash ==
    /\ pc # "off" /\ crashes < MaxCrashes
    /\ crashes' = crashes + 1
    /\ litter' \in {litter, litter \cup Verifying}
    /\ Halt("crashed")
    /\ UNCHANGED <<data, staging, archives, markers, hard, writes, losses>>

-----------------------------------------------------------------------------
(* What happens between runs, while the lock is free.                      *)

(* The application runs only after a run that ended well (the compose file *)
(* starts it on service_completed_successfully) and keeps database and key *)
(* decryptable; it may delete anything but these two.                      *)
Idle == pc = "off"
AppWrites(n, v) ==
    /\ Idle /\ result \in {"ok", "used"} /\ writes < MaxWrites
    /\ v = None => n \notin {DB, KEY}
    /\ v # canonical[n]
    /\ Coherent([canonical EXCEPT ![n] = v])
    /\ canonical' = [canonical EXCEPT ![n] = v]
    /\ canonDir' = TRUE
    /\ hard' = hard \ {n}
    /\ writes' = writes + 1 /\ result' = "used"
    /\ UNCHANGED <<root, staging, archives, markers, litter, pc, memory,
                   crashes, losses>>

(* An older package mounts the root itself: its writes follow the links,   *)
(* or create entries in the root.                                          *)
RollbackView == [n \in Names |-> IF root[n] = Link THEN canonical[n] ELSE root[n]]
RollbackWrites(n, v) ==
    /\ Idle /\ writes < MaxWrites
    /\ Prepared => MidwayRollback
    /\ v # None /\ v # RollbackView[n]
    /\ root[n] = Link => canonDir
    /\ Coherent([RollbackView EXCEPT ![n] = v])
    /\ IF root[n] = Link
       THEN /\ canonical' = [canonical EXCEPT ![n] = v]
            /\ UNCHANGED root
       ELSE /\ root' = [root EXCEPT ![n] = v]
            /\ UNCHANGED canonical
    /\ hard' = hard \ {n}
    /\ writes' = writes + 1 /\ result' = "none"
    /\ UNCHANGED <<canonDir, staging, archives, markers, litter, pc, memory,
                   crashes, losses>>

(* The Tailscale control protocol links its operation records: a connector *)
(* directory holds hard links while an operation is queued or processed.   *)
ConnectorLinks(S) ==
    /\ Idle /\ result \in {"ok", "used"} /\ S # hard
    /\ S \subseteq Connectors \cap NamesIn(canonical)
    /\ hard' = S
    /\ result' = "used"
    /\ UNCHANGED <<data, staging, archives, markers, litter, pc, memory,
                   budgets>>

(* An older package also linked the transient SQLite files.                *)
OldTransientLink(n) ==
    /\ Idle /\ Complete /\ n \in Transient /\ writes < MaxWrites
    /\ root[n] = None /\ canonical[n] # None
    /\ root' = [root EXCEPT ![n] = Link]
    /\ writes' = writes + 1 /\ result' = "none"
    /\ UNCHANGED <<canonical, canonDir, staging, archives, markers, hard,
                   litter, pc, memory, crashes, losses>>

(* The canonical directory is lost under a complete marker, alone or with  *)
(* the links to it.                                                        *)
LoseCanonical ==
    /\ Idle /\ Complete /\ canonDir /\ losses < MaxLosses
    /\ canonical' = Nothing /\ canonDir' = FALSE /\ hard' = {}
    /\ litter' = litter \ {"canonical"}
    /\ root' \in {root, [n \in Names |-> IF root[n] = Link THEN None ELSE root[n]]}
    /\ losses' = losses + 1 /\ result' = "none"
    /\ UNCHANGED <<staging, archives, markers, pc, memory, crashes, writes>>

-----------------------------------------------------------------------------
MainStep ==
    \/ Start \/ Resume \/ RefuseTransientLink \/ RefuseDanglingLink
    \/ DropMarkerTemp \/ RestoreLost \/ Supersede \/ Tidy
    \/ RefuseIncoherentCanonical \/ FreshLayout \/ LegacyStart \/ LegacyPrepare
    \/ MigrateStart \/ RemoveStageDir \/ Classify \/ Prepare
    \/ WriteMarkerTemp \/ SwapPrepared \/ SwapComplete
    \/ TidyStageRemoved \/ TidyDone

ExecuteStep ==
    \/ MakeDirectories \/ VerifyRecovered \/ SnapshotsDone \/ ArchivesDone
    \/ LinksDone \/ StageRemoved

EntryStep(n) ==
    \/ RetireTransientLink(n) \/ LegacyStage(n) \/ RemoveStageEntry(n)
    \/ StageSource(n)
    \/ RecoverPresent(n) \/ RecoverCopy(n) \/ RecoverCommit(n)
    \/ RefuseRecovery(n) \/ CopySnapshot(n)
    \/ ArchiveSource(n) \/ RefuseArchive(n) \/ MakeLink(n)

Migrator == MainStep \/ ExecuteStep \/ \E n \in Names : EntryStep(n)

Environment ==
    \/ \E n \in Names : \E v \in WholeOf(n) \cup {None} :
         AppWrites(n, v) \/ RollbackWrites(n, v)
    \/ \E n \in Names : OldTransientLink(n)
    \/ \E S \in SUBSET Connectors : ConnectorLinks(S)
    \/ LoseCanonical

Next == Migrator \/ Crash \/ Environment

Spec == Init /\ [][Next]_vars

(* The package start is retried, and a running migrator takes its steps.   *)
FairSpec == Spec /\ WF_vars(Migrator)

-----------------------------------------------------------------------------
(* Properties                                                              *)

Places == {"off", "main", "restage", "copy", "legacy", "putPrepared",
           "swapPrepared", "execute", "recover", "snapshot", "archive",
           "links", "unstage", "putComplete", "swapComplete", "tidyStage",
           "tidyLinks"}
Stored == [Names -> Entries \cup {None}]
Markers ==
    [schema : 0 .. 2, phase : {"none", "prepared", "complete"},
     names : SUBSET Names, auth : Stored, authSlot : [Names -> 0 .. MaxSlot],
     arch : Stored, archSlot : [Names -> 0 .. MaxSlot]]

(* A manifest gives every entry it binds an archive destination. *)
Destined(m) ==
    /\ m.schema = 2 => m.names = NamesIn(m.auth)
    /\ m.schema = 2 => \A n \in m.names : m.authSlot[n] \in Slots
    /\ \A n \in Names : m.arch[n] # None => m.archSlot[n] \in Slots

DiskTypeOK ==
    /\ root \in [Names -> Entries \cup {None, Link}]
    /\ canonical \in Stored /\ canonDir \in BOOLEAN
    /\ stage \in Stored /\ stageDir \in BOOLEAN
    /\ backup \in [Names -> [Slots -> Entries \cup {None}]]
    /\ snapshot \in Stored
    /\ marker \in Markers /\ Destined(marker) /\ markerTemp \in BOOLEAN
    /\ hard \subseteq Names /\ litter \subseteq {"root", "canonical", "stage"}
RunTypeOK ==
    /\ pc \in Places
    /\ manifest \in Markers /\ Destined(manifest)
    /\ todo \subseteq Names /\ archiveOnly \subseteq Names
    /\ partial \in BOOLEAN /\ copying \in Names \cup {None}
    /\ result \in {"none", "running", "rerun", "ok", "refused", "crashed", "used"}
    /\ crashes \in Nat /\ writes \in Nat /\ losses \in Nat

(* Every variable has its type, and every destination a manifest records   *)
(* is one the archives have.                                               *)
TypeOK == DiskTypeOK /\ RunTypeOK

(* The contents of state entries that exist whole outside the staging area *)
(* and the temporaries, by themselves or within a larger directory.        *)
Holds(e, n, g) == e \in Entries /\ e.whole /\ Within(n, g, e.gen)
Copies ==
    {c \in Names \X AllGens :
       \/ Holds(root[c[1]], c[1], c[2]) \/ Holds(canonical[c[1]], c[1], c[2])
       \/ \E s \in Slots : Holds(backup[c[1]][s], c[1], c[2])}

(* No step of the migrator, and no crash of it, loses the last copy of any *)
(* content: sources leave the root only into the archives.                 *)
NeverDestroysLastCopy == [][pc # "off" => Copies \subseteq Copies']_vars

(* The migrator changes canonical state only under a durable prepared      *)
(* manifest, only where there is nothing yet, and only to the content that *)
(* the manifest binds.                                                     *)
CommitsOnlyPrepared ==
    [][pc # "off" => \A n \in Names : canonical'[n] # canonical[n] =>
         /\ Prepared /\ canonical[n] = None
         /\ canonical'[n] = marker.auth[n]]_vars

(* A complete marker binds whole archives: every authority and every       *)
(* migrated source is in BACKUP under the recorded name with the recorded  *)
(* content, whatever happened since.                                       *)
CompleteIsBound ==
    Complete =>
      \A n \in Names :
        /\ marker.auth[n] # None => /\ marker.auth[n].whole
                                    /\ backup[n][marker.authSlot[n]] = marker.auth[n]
        /\ marker.arch[n] # None => backup[n][marker.archSlot[n]] = marker.arch[n]

(* No manifest binds a database to a key that cannot decrypt it, and no    *)
(* run ends well with such a canonical pair.                               *)
Decryptable(f) ==
    f[DB] # None /\ f[DB].gen \in Sealed => f[KEY] = Whole(KeyOf[f[DB].gen])
NoMixedGenerations ==
    /\ marker.schema = 2 => Decryptable(marker.auth)
    /\ result = "ok" => Decryptable(canonical)

(* After a run that ended well an older package that uses the root sees    *)
(* exactly the canonical state, except for the transient SQLite files.     *)
RollbackSeesCanonical ==
    result = "ok" =>
      \A n \in Names : IF n \in Transient THEN root[n] = None
                       ELSE RollbackView[n] = canonical[n]

(* After a run that ended well the complete marker describes canonical     *)
(* state, so that a later recovery cannot restore an older generation.     *)
(* (A directory that an interrupted verification left there may be in      *)
(* addition to what the marker names: no state entry is.)                  *)
MarkerCurrent == result = "ok" /\ Complete => marker.auth = canonical

(* A run right after a run that ended well changes nothing: in particular  *)
(* it creates no further archive generation.  The one exception is in      *)
(* Start: a crash in the verification of canonical state leaves a          *)
(* temporary directory there, the run that resumes ends well without       *)
(* binding it, and the run after that one supersedes the marker to bind    *)
(* it.  The run after the superseding one is a rerun again.                *)
RerunChangesNothing ==
    [][result = "rerun" =>
         UNCHANGED <<data, staging, backup, marker>>]_vars

(* A durable prepared transaction completes, however often it was          *)
(* interrupted.                                                            *)
PreparedCompletes == Prepared ~> Complete

(* A run that takes up a prepared transaction is refused only for a        *)
(* connector directory that holds hard links when its digest is taken, and *)
(* for a staged copy that was cut short after the loss of the canonical    *)
(* directory (recover_canonical_entry): every other interruption can be    *)
(* resumed, because what the manifest binds is still where it looks.       *)
Wedged ==
    \E n \in marker.names :
       \/ n \in hard
       \/ /\ losses > 0 /\ canonical[n] = None
          /\ stage[n] \notin {None, marker.auth[n]}
RefusesOnlyWedged ==
    [][pc # "off" /\ pc' = "off" /\ Prepared /\ result' = "refused" => Wedged]_vars

(* The migrator implements the atomic transaction it promises. *)
Atomic == INSTANCE AtomicMigration WITH
    Values <- Entries, phase <- marker.phase, plan <- marker.auth,
    state <- canonical,
    archive <- {c \in Names \X Entries :
                  \E s \in Slots : backup[c[1]][s] = c[2]}
AtomicSpec == Atomic!Spec

=============================================================================
