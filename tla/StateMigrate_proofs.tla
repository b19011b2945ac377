------------------------ MODULE StateMigrate_proofs ------------------------
(***************************************************************************)
(* Theorems about the state migrator (StateMigrate), for every set of      *)
(* entries and every bound.  IInv is the inductive invariant; each action  *)
(* has a lemma that it preserves it; the theorems about what a step may    *)
(* never do follow from IInv in the unprimed state.                        *)
(***************************************************************************)
EXTENDS StateMigrate, FiniteSetTheorems, TLAPS

-----------------------------------------------------------------------------
(* Numbers.                                                                *)

(* A nonempty set of numbers has a least element: the archive name that    *)
(* allocate_archive_name returns exists.                                   *)
LEMMA LeastNumber ==
  ASSUME NEW S \in SUBSET Nat, S # {}
  PROVE  \E s \in S : \A t \in S : s <= t
<1> DEFINE T == {1 .. s : s \in S}
<1>1. T \subseteq FiniteSubsetsOf(Nat) /\ T # {}
  <2>1. ASSUME NEW s \in S PROVE 1 .. s \in FiniteSubsetsOf(Nat)
    <3>1. IsFiniteSet(1 .. s) BY FS_Interval
    <3>2. 1 .. s \in SUBSET Nat OBVIOUS
    <3> QED BY <3>1, <3>2 DEF FiniteSubsetsOf
  <2> QED BY <2>1
<1>2. \E x \in T : \A y \in T : ~ (<<y, x>> \in StrictSubsetOrdering(Nat))
  <2> HIDE DEF T
  <2> QED BY <1>1, FS_StrictSubsetOrderingWellFounded, WFMin
<1>3. PICK s \in S : \A t \in S : ~ (<<1 .. t, 1 .. s>> \in StrictSubsetOrdering(Nat))
  BY <1>2
<1>4. ASSUME NEW t \in S, t < s PROVE FALSE
  <2>1. /\ 1 .. t \in SUBSET Nat /\ 1 .. s \in SUBSET Nat
        /\ 1 .. t \subseteq 1 .. s
    BY <1>4
  <2>2. s \in 1 .. s /\ s \notin 1 .. t BY <1>4
  <2>3. <<1 .. t, 1 .. s>> \in StrictSubsetOrdering(Nat)
    BY <2>1, <2>2, Zenon DEF StrictSubsetOrdering
  <2> QED BY <2>3, <1>3
<1> QED BY <1>4

(* A nonempty set of archive names has a greatest one: backup_candidate.   *)
LEMMA GreatestSlot ==
  ASSUME NEW S \in SUBSET Slots, S # {}
  PROVE  \E s \in S : \A t \in S : t <= s
<1> DEFINE D == {MaxSlot - s : s \in S}
<1>1. D \in SUBSET Nat /\ D # {}
  <2>1. \A s \in S : MaxSlot - s \in Nat BY BoundsAssumption DEF Slots
  <2> QED BY <2>1
<1>2. \E d \in D : \A e \in D : d <= e
  <2> HIDE DEF D
  <2> QED BY <1>1, LeastNumber
<1>3. PICK s \in S : \A e \in D : MaxSlot - s <= e BY <1>2
<1>4. ASSUME NEW t \in S PROVE t <= s
  <2>1. MaxSlot - s <= MaxSlot - t BY <1>3
  <2> QED BY <2>1, BoundsAssumption DEF Slots
<1> QED BY <1>4

LEMMA LowestIn ==
  ASSUME NEW S \in SUBSET Slots, S # {}
  PROVE  Lowest(S) \in S
<1>1. S \in SUBSET Nat BY BoundsAssumption DEF Slots
<1>2. \E s \in S : \A t \in S : s <= t BY <1>1, LeastNumber
<1> QED BY <1>2 DEF Lowest

-----------------------------------------------------------------------------
(* The inductive invariant.                                                *)

Preparing == {"putPrepared", "swapPrepared"}
Executing == {"execute", "recover", "snapshot", "archive", "links", "unstage",
              "putComplete", "swapComplete"}
Recovered == Executing \ {"execute", "recover"}

(* What each loop has left to do is part of what it runs over, and its     *)
(* range is well defined.                                                  *)
LoopsOK ==
    /\ pc = "copy" => todo \subseteq Sources
    /\ pc = "legacy" => /\ todo \subseteq marker.names
                        /\ \A n \in marker.names : Archived(n) # {}
    /\ pc \in {"recover", "snapshot"} => todo \subseteq manifest.names
    /\ pc = "archive" => todo \subseteq NamesIn(manifest.arch)

(* The manifest in memory is the durable one while it is executed.         *)
ManifestOK ==
    /\ pc \in Preparing \cup Executing => manifest.schema = 2 /\ manifest.phase = "prepared"
    /\ pc \in Executing => marker = manifest
    /\ Prepared => pc \in {"off", "main"} \cup Executing

(* What the finished loops of the transaction have established.            *)
ProgressOK ==
    /\ pc = "recover" =>
         \A n \in manifest.names \ todo : canonical[n] = manifest.auth[n]
    /\ pc \in Recovered =>
         \A n \in manifest.names : canonical[n] = manifest.auth[n]

(* A copy that has begun is of an entry still to do, to a vacant place.    *)
CopyingOK ==
    copying # None =>
      /\ pc \in {"legacy", "recover", "snapshot"} /\ copying \in todo
      /\ pc = "recover" => canonical[copying] = None
      /\ pc = "snapshot" => backup[copying][manifest.authSlot[copying]] = None

Control == LoopsOK /\ ManifestOK /\ ProgressOK /\ CopyingOK
IInv == TypeOK /\ Control

-----------------------------------------------------------------------------
(* Types of the operators.                                                 *)

LEMMA WholeType ==
  ASSUME NEW n \in Names
  PROVE  WholeOf(n) \subseteq Entries
<1>1. ASSUME NEW g \in Gens[n] PROVE Whole(g) \in Entries
  <2>1. g \in AllGens BY DEF AllGens
  <2> QED BY <2>1 DEF Whole, Entries
<1> QED BY <1>1 DEF WholeOf

LEMMA TornType ==
  ASSUME NEW e \in Entries
  PROVE  Torn(e) \in Entries
BY DEF Torn, Entries

LEMMA BundlesType == Bundles \subseteq Stored
BY DEF Bundles, Stored, Entries

LEMMA StoredNames ==
  ASSUME NEW f \in Stored, NEW n \in Names
  PROVE  n \in NamesIn(f) <=> f[n] # None
BY NoneAssumption DEF Stored, NamesIn

LEMMA UnboundType ==
  ASSUME NEW v \in 0 .. 1, NEW S \in SUBSET Names
  PROVE  Unbound(v, S) \in Markers /\ Destined(Unbound(v, S))
<1>1. Nothing \in Stored /\ NoSlot \in [Names -> 0 .. MaxSlot]
  BY BoundsAssumption DEF Nothing, NoSlot, Stored
<1>2. Unbound(v, S) \in Markers BY <1>1 DEF Unbound, Markers
<1>3. Destined(Unbound(v, S)) BY DEF Unbound, Destined, Nothing
<1> QED BY <1>2, <1>3

LEMMA CandidateType ==
  ASSUME backup \in [Names -> [Slots -> Entries \cup {None}]],
         NEW n \in Names
  PROVE  /\ Candidate(n) \in Entries \cup {None}
         /\ Archived(n) # {} => /\ Candidate(n) \in Entries
                                /\ Lowest(Archived(n)) \in Slots
<1>1. Archived(n) \in SUBSET Slots BY DEF Archived
<1>2. CASE Archived(n) = {} BY <1>2 DEF Candidate
<1>3. CASE Archived(n) # {}
  <2>1. \E s \in Archived(n) : \A t \in Archived(n) : t <= s
    BY <1>1, <1>3, GreatestSlot
  <2> DEFINE s == CHOOSE s \in Archived(n) : \A t \in Archived(n) : t <= s
  <2>2. s \in Archived(n) BY <2>1
  <2>3. backup[n][s] # None /\ backup[n][s] \in Entries \cup {None}
    BY <2>2 DEF Archived
  <2>4. Candidate(n) = backup[n][s] BY <1>3 DEF Candidate
  <2>5. Lowest(Archived(n)) \in Slots BY <1>1, <1>3, LowestIn
  <2> QED BY <2>3, <2>4, <2>5
<1> QED BY <1>2, <1>3

LEMMA FreeType ==
  ASSUME HasRoom, NEW n \in Names
  PROVE  /\ FirstFree(n) \in Slots /\ SecondFree(n) \in Slots
         /\ FirstFree(n) \in Free(n)
         /\ SecondFree(n) \in Free(n) \ {FirstFree(n)}
<1>1. Free(n) \in SUBSET Slots BY DEF Free
<1>2. MaxSlot - 1 \in Free(n) /\ MaxSlot \in Free(n) BY DEF HasRoom
<1>3. FirstFree(n) \in Free(n) BY <1>1, <1>2, LowestIn DEF FirstFree
<1>4. Free(n) \ {FirstFree(n)} # {} BY <1>2, BoundsAssumption
<1>5. SecondFree(n) \in Free(n) \ {FirstFree(n)}
  <2> DEFINE S == Free(n) \ {FirstFree(n)}
  <2>1. S \in SUBSET Slots /\ S # {} BY <1>1, <1>4
  <2>2. Lowest(S) \in S
    <3> HIDE DEF S
    <3> QED BY <2>1, LowestIn
  <2> QED BY <2>2 DEF SecondFree
<1> QED BY <1>1, <1>3, <1>5

(* A manifest that build_transaction_manifest returns is well formed.      *)
LEMMA ManifestType ==
  ASSUME HasRoom, NEW S \in SUBSET Sources, NEW only,
         root \in [Names -> Entries \cup {None, Link}],
         canonical \in Stored, stage \in Stored
  PROVE  /\ Manifest(S, only) \in Markers /\ Destined(Manifest(S, only))
         /\ Manifest(S, only).schema = 2
         /\ Manifest(S, only).phase = "prepared"
<1> DEFINE auth == Over(canonical, [n \in Names |->
                          IF n \in S \ only THEN stage[n] ELSE None])
           shared == {n \in S \ only : root[n] = auth[n]}
           authSlot == [n \in Names |-> IF auth[n] # None THEN FirstFree(n) ELSE 0]
           arch == [n \in Names |-> IF n \in S THEN root[n] ELSE None]
           archSlot == [n \in Names |->
                          IF n \notin S THEN 0
                          ELSE IF n \in shared \/ auth[n] = None
                               THEN FirstFree(n) ELSE SecondFree(n)]
           m == [schema |-> 2, phase |-> "prepared", names |-> NamesIn(auth),
                 auth |-> auth, authSlot |-> authSlot,
                 arch |-> arch, archSlot |-> archSlot]
<1>1. Manifest(S, only) = m BY DEF Manifest
<1>2. auth \in Stored BY DEF Over, Stored
<1>3. NamesIn(auth) \subseteq Names BY DEF NamesIn
<1>4. Slots \subseteq 0 .. MaxSlot /\ 0 \in 0 .. MaxSlot
  BY BoundsAssumption DEF Slots
<1>5. authSlot \in [Names -> 0 .. MaxSlot] BY <1>4, FreeType
<1>6. arch \in Stored
  <2>1. \A n \in S : root[n] \in Entries BY DEF Sources, NamesIn
  <2> QED BY <2>1 DEF Stored
<1>7. archSlot \in [Names -> 0 .. MaxSlot] BY <1>4, FreeType
<1>8. \A n \in NamesIn(auth) : authSlot[n] \in Slots
  BY <1>2, FreeType, NoneAssumption DEF NamesIn
<1>9. \A n \in Names : arch[n] # None => archSlot[n] \in Slots
  BY FreeType
<1> HIDE DEF auth, authSlot, arch, archSlot
<1>10. m \in Markers BY <1>2, <1>3, <1>5, <1>6, <1>7 DEF Markers
<1>11. Destined(m) BY <1>8, <1>9 DEF Destined
<1> QED BY <1>1, <1>10, <1>11

LEMMA LegacyManifestType ==
  ASSUME HasRoom, canonical \in Stored, stage \in Stored,
         backup \in [Names -> [Slots -> Entries \cup {None}]],
         \A n \in marker.names : Archived(n) # {}
  PROVE  /\ LegacyManifest \in Markers /\ Destined(LegacyManifest)
         /\ LegacyManifest.schema = 2
         /\ LegacyManifest.phase = "prepared"
<1> DEFINE auth == Over(stage, canonical)
           authSlot == [n \in Names |->
                          IF auth[n] = None THEN 0
                          ELSE IF n \in marker.names THEN Lowest(Archived(n))
                          ELSE FirstFree(n)]
           m == [schema |-> 2, phase |-> "prepared", names |-> NamesIn(auth),
                 auth |-> auth, authSlot |-> authSlot,
                 arch |-> Nothing, archSlot |-> NoSlot]
<1>1. LegacyManifest = m BY DEF LegacyManifest
<1>2. auth \in Stored BY DEF Over, Stored
<1>3. NamesIn(auth) \subseteq Names BY DEF NamesIn
<1>4. Slots \subseteq 0 .. MaxSlot /\ 0 \in 0 .. MaxSlot
  BY BoundsAssumption DEF Slots
<1>5. \A n \in Names : auth[n] # None => authSlot[n] \in Slots
  BY FreeType, CandidateType
<1>6. authSlot \in [Names -> 0 .. MaxSlot]
  <2>1. ASSUME NEW n \in Names PROVE authSlot[n] \in 0 .. MaxSlot
    BY <1>4, <1>5
  <2> QED BY <2>1
<1>7. Nothing \in Stored /\ NoSlot \in [Names -> 0 .. MaxSlot]
  BY <1>4 DEF Nothing, NoSlot, Stored
<1>8. \A n \in NamesIn(auth) : authSlot[n] \in Slots
  BY <1>5, NoneAssumption DEF NamesIn
<1> HIDE DEF auth, authSlot
<1>9. m \in Markers BY <1>2, <1>3, <1>6, <1>7 DEF Markers
<1>10. Destined(m) BY <1>8 DEF Destined, Nothing
<1> QED BY <1>1, <1>9, <1>10

-----------------------------------------------------------------------------
(* The initial states.                                                     *)

LEMMA InitTypes ==
  ASSUME Init
  PROVE  /\ root \in [Names -> Entries \cup {None, Link}]
         /\ canonical \in Stored /\ stage \in Stored
         /\ stageDir \in BOOLEAN
         /\ backup \in [Names -> [Slots -> Entries \cup {None}]]
         /\ marker \in Markers /\ Destined(marker) /\ ~Prepared
<1>1. NoMarker \in Markers /\ Destined(NoMarker)
  BY UnboundType DEF NoMarker
<1>2. ASSUME NEW S \in SUBSET Names
      PROVE  LegacyMarker(S) \in Markers /\ Destined(LegacyMarker(S))
  BY <1>2, UnboundType DEF LegacyMarker
<1>3. /\ NoMarker.schema = 0
      /\ \A S : LegacyMarker(S).schema = 1
  BY DEF NoMarker, LegacyMarker, Unbound
<1>4. Nothing \in Stored BY DEF Nothing, Stored
<1>5. \A f \in Bundles : f \in Stored BY BundlesType
<1>6. Stored \subseteq [Names -> Entries \cup {None, Link}] BY DEF Stored
<1>7. [n \in Names |-> [s \in Slots |-> None]]
        \in [Names -> [Slots -> Entries \cup {None}]]
  OBVIOUS
<1>11. ASSUME marker = NoMarker
       PROVE  marker \in Markers /\ Destined(marker) /\ ~Prepared
  BY <1>1, <1>3, <1>11 DEF Prepared
<1>12. CASE InitBundles
  <2>1. root \in Stored /\ canonical \in Stored
    BY <1>12, <1>5 DEF InitBundles
  <2> QED BY <1>12, <2>1, <1>4, <1>6, <1>7, <1>11 DEF InitBundles
<1>13. CASE InitInterim BY <1>13, <1>12 DEF InitInterim
<1>8. CASE InitCommitLoop
  <2>1. PICK C \in SUBSET Sources :
          /\ canonical = [n \in Names |-> IF n \in C THEN root[n] ELSE None]
          /\ stage = [n \in Names |-> IF n \in C THEN None ELSE root[n]]
    BY <1>8 DEF InitCommitLoop
  <2>2. root \in Stored BY <1>8, <1>5 DEF InitCommitLoop
  <2>3. canonical \in Stored /\ stage \in Stored BY <2>1, <2>2 DEF Stored
  <2> QED BY <1>8, <1>6, <1>7, <1>11, <2>2, <2>3 DEF InitCommitLoop
<1>9. CASE InitTornCleanup
  <2>1. canonical \in Stored BY <1>9, <1>5 DEF InitTornCleanup
  <2>2. PICK n \in Dirs \cap NamesIn(canonical) :
          /\ root = [Nothing EXCEPT ![n] = Torn(canonical[n])]
          /\ backup = [m \in Names |-> [s \in Slots |->
                         IF m = n /\ s = 1 THEN canonical[n] ELSE None]]
    BY <1>9 DEF InitTornCleanup
  <2>3. canonical[n] \in Entries /\ Torn(canonical[n]) \in Entries
    BY TornType DEF NamesIn
  <2>4. root \in Stored BY <2>2, <2>3, <1>4 DEF Stored
  <2>5. backup \in [Names -> [Slots -> Entries \cup {None}]] BY <2>2, <2>3
  <2> QED BY <1>9, <1>4, <1>6, <1>11, <2>1, <2>4, <2>5 DEF InitTornCleanup
<1>10. CASE InitLegacy
  <2>1. PICK f \in Bundles, C \in SUBSET Names, T \in SUBSET Names, w \in BOOLEAN :
          /\ NamesIn(f) # {}
          /\ canonical = [n \in Names |-> IF n \in C THEN f[n] ELSE None]
          /\ stage = [n \in Names |->
                        IF n \in C \/ n \notin T \/ f[n] = None THEN None
                        ELSE [f[n] EXCEPT !.whole = w]]
          /\ stageDir = (NamesIn(stage) # {})
          /\ backup = [n \in Names |-> [s \in Slots |->
                         IF s = 1 THEN f[n] ELSE None]]
          /\ marker = LegacyMarker(NamesIn(f))
    BY <1>10, Zenon DEF InitLegacy
  <2>2. f \in Stored BY <1>5
  <2>3. \A e \in Entries : [e EXCEPT !.whole = w] \in Entries
    BY DEF Entries
  <2>4. canonical \in Stored /\ stage \in Stored
    <3>1. \A n \in Names : f[n] \in Entries \cup {None} BY <2>2 DEF Stored
    <3>2. canonical \in Stored BY <2>1, <3>1 DEF Stored
    <3>3. stage \in Stored BY <2>1, <2>3, <3>1 DEF Stored
    <3> QED BY <3>2, <3>3
  <2>5. backup \in [Names -> [Slots -> Entries \cup {None}]]
    BY <2>1, <2>2 DEF Stored
  <2>6. NamesIn(f) \in SUBSET Names BY DEF NamesIn
  <2>7. marker \in Markers /\ Destined(marker) /\ ~Prepared
    <3>1. marker = LegacyMarker(NamesIn(f)) BY <2>1
    <3>2. marker \in Markers /\ Destined(marker) BY <3>1, <2>6, <1>2
    <3>3. marker.schema = 1 BY <3>1, <1>3
    <3> QED BY <3>2, <3>3 DEF Prepared
  <2>8. root \in Stored /\ stageDir \in BOOLEAN
    BY <1>10, <1>4, <2>1 DEF InitLegacy
  <2> QED BY <1>6, <2>4, <2>5, <2>7, <2>8
<1> QED BY <1>8, <1>9, <1>10, <1>12, <1>13 DEF Init

LEMMA InitIInv == Init => IInv
<1> SUFFICES ASSUME Init PROVE IInv OBVIOUS
<1>1. NoMarker \in Markers /\ Destined(NoMarker)
  BY UnboundType DEF NoMarker
<1>2. /\ snapshot \in Stored /\ markerTemp = FALSE /\ hard = {} /\ litter = {}
      /\ pc = "off" /\ manifest = NoMarker /\ todo = {}
      /\ archiveOnly = {} /\ partial = FALSE /\ copying = None
      /\ result = "none" /\ crashes = 0 /\ writes = 0 /\ losses = 0
      /\ canonDir \in BOOLEAN
  BY DEF Init, Nothing, Stored
<1>3. TypeOK BY <1>1, <1>2, InitTypes DEF TypeOK, DiskTypeOK, RunTypeOK, Places
<1>4. LoopsOK /\ CopyingOK BY <1>2 DEF LoopsOK, CopyingOK
<1>5. ManifestOK
  BY <1>2, InitTypes DEF ManifestOK, Preparing, Executing
<1>6. ProgressOK BY <1>2 DEF ProgressOK, Recovered, Executing
<1> QED BY <1>3, <1>4, <1>5, <1>6 DEF IInv, Control

-----------------------------------------------------------------------------
(* Steps that end a run: what was in memory is gone.                       *)

LEMMA CompletedType ==
  ASSUME NEW m \in Markers, Destined(m), NEW p \in {"prepared", "complete"}
  PROVE  LET c == [m EXCEPT !.phase = p]
         IN  /\ c \in Markers /\ Destined(c)
             /\ c.phase = p /\ c.schema = m.schema
<1> DEFINE c == [m EXCEPT !.phase = p]
<1>1. /\ c \in Markers /\ c.phase = p /\ c.schema = m.schema
      /\ c.names = m.names /\ c.auth = m.auth /\ c.authSlot = m.authSlot
      /\ c.arch = m.arch /\ c.archSlot = m.archSlot
  BY DEF Markers
<1> HIDE DEF c
<1>2. Destined(c) BY <1>1 DEF Destined
<1> QED BY <1>1, <1>2 DEF c

LEMMA RunEnds ==
  ASSUME NEW r \in {"ok", "refused", "crashed"}, Halt(r), DiskTypeOK',
         crashes' \in Nat, writes' \in Nat, losses' \in Nat
  PROVE  IInv'
<1>1. NoMarker \in Markers /\ Destined(NoMarker) BY UnboundType DEF NoMarker
<1>2. RunTypeOK' BY <1>1 DEF RunTypeOK, Halt, Places
<1>3. LoopsOK' /\ CopyingOK' BY DEF LoopsOK, CopyingOK, Halt
<1>4. ManifestOK' BY DEF ManifestOK, Halt, Preparing, Executing
<1>5. ProgressOK' BY DEF ProgressOK, Halt, Recovered, Executing
<1> QED BY <1>2, <1>3, <1>4, <1>5 DEF IInv, TypeOK, Control

LEMMA RefuseStep ==
  ASSUME IInv, Refuse
  PROVE  IInv'
<1>1. DiskTypeOK'
  BY DEF IInv, TypeOK, DiskTypeOK, Refuse, disk, data, staging, archives, markers
<1>2. /\ Halt("refused")
      /\ crashes' \in Nat /\ writes' \in Nat /\ losses' \in Nat
  BY DEF IInv, TypeOK, RunTypeOK, Refuse, budgets
<1> QED BY <1>1, <1>2, RunEnds

LEMMA FinishStep ==
  ASSUME IInv, Finish
  PROVE  IInv'
<1>1. DiskTypeOK'
  BY DEF IInv, TypeOK, DiskTypeOK, Finish, data, staging, archives
<1>2. /\ Halt("ok")
      /\ crashes' \in Nat /\ writes' \in Nat /\ losses' \in Nat
  BY DEF IInv, TypeOK, RunTypeOK, Finish, budgets
<1> QED BY <1>1, <1>2, RunEnds

LEMMA CrashStep ==
  ASSUME IInv, Crash
  PROVE  IInv'
<1>1. litter' \subseteq {"root", "canonical", "stage"}
  BY DEF IInv, TypeOK, DiskTypeOK, Crash, Verifying
<1>2. DiskTypeOK'
  BY <1>1 DEF IInv, TypeOK, DiskTypeOK, Crash, data, staging, archives, markers
<1>3. /\ Halt("crashed")
      /\ crashes' \in Nat /\ writes' \in Nat /\ losses' \in Nat
  BY DEF IInv, TypeOK, RunTypeOK, Crash
<1> QED BY <1>2, <1>3, RunEnds

LEMMA SwapCompleteStep ==
  ASSUME IInv, SwapComplete
  PROVE  IInv'
<1>1. marker' \in Markers /\ Destined(marker')
  BY CompletedType DEF IInv, TypeOK, RunTypeOK, SwapComplete
<1>2. DiskTypeOK'
  BY <1>1 DEF IInv, TypeOK, DiskTypeOK, SwapComplete, data, staging, archives
<1>3. /\ Halt("ok")
      /\ crashes' \in Nat /\ writes' \in Nat /\ losses' \in Nat
  BY DEF IInv, TypeOK, RunTypeOK, SwapComplete, budgets
<1> QED BY <1>2, <1>3, RunEnds

-----------------------------------------------------------------------------
(* Steps of the migrator that change only what it has in memory.           *)

LEMMA MemoryStep ==
  ASSUME IInv, UNCHANGED disk, RunTypeOK', Control'
  PROVE  IInv'
BY DEF IInv, TypeOK, DiskTypeOK, disk, data, staging, archives, markers

(* A new manifest is on its way to the disk.                               *)
LEMMA PreparedStep ==
  ASSUME IInv, pc \in {"main", "copy", "legacy", "tidyLinks"}, ~Prepared,
         copying = None, pc' = "putPrepared",
         UNCHANGED <<disk, copying, decided, history>>, todo' = todo,
         manifest' \in Markers, Destined(manifest'),
         manifest'.schema = 2, manifest'.phase = "prepared"
  PROVE  IInv'
<1>1. RunTypeOK'
  BY DEF IInv, TypeOK, RunTypeOK, Places, decided, history, budgets
<1>2. ~Prepared' BY DEF Prepared, disk, markers
<1>3. LoopsOK' /\ CopyingOK' /\ ProgressOK'
  BY DEF LoopsOK, CopyingOK, ProgressOK, Recovered, Executing
<1>4. ManifestOK' BY <1>2 DEF ManifestOK, Preparing, Executing
<1> QED BY <1>1, <1>3, <1>4, MemoryStep DEF Control

(* The starts of a run: nothing in memory yet, or the durable manifest.    *)
LEMMA StartStep ==
  ASSUME IInv, Start
  PROVE  IInv'
<1>1. /\ UNCHANGED disk /\ pc = "off" /\ pc' = "main" /\ todo' = {}
      /\ UNCHANGED <<manifest, copying, decided, budgets>>
      /\ result' \in {"rerun", "running"}
  BY DEF Start, Goto
<1>2. RunTypeOK'
  BY <1>1 DEF IInv, TypeOK, RunTypeOK, Places, decided, budgets
<1>3. Control'
  BY <1>1 DEF IInv, Control, LoopsOK, ManifestOK, ProgressOK, CopyingOK,
              Prepared, Preparing, Executing, Recovered, disk, markers
<1> QED BY <1>1, <1>2, <1>3, MemoryStep

LEMMA ResumeStep ==
  ASSUME IInv, Resume
  PROVE  IInv'
<1>1. /\ UNCHANGED <<disk, todo, copying, decided, history>>
      /\ pc = "main" /\ pc' = "execute" /\ Prepared /\ manifest' = marker
  BY DEF Resume
<1>2. RunTypeOK'
  BY <1>1 DEF IInv, TypeOK, DiskTypeOK, RunTypeOK, Places, decided, history, budgets
<1>3. Control'
  BY <1>1 DEF IInv, Control, LoopsOK, ManifestOK, ProgressOK, CopyingOK,
              Prepared, Preparing, Executing, Recovered, disk, markers
<1> QED BY <1>1, <1>2, <1>3, MemoryStep

LEMMA RestoreLostStep ==
  ASSUME IInv, RestoreLost
  PROVE  IInv'
<1>1. /\ pc = "main" /\ ~Prepared /\ marker.schema = 2
      /\ manifest' = [marker EXCEPT !.phase = "prepared"]
      /\ pc' = "putPrepared"
      /\ UNCHANGED <<disk, todo, copying, decided, history>>
  BY DEF RestoreLost, NoSources, Admissible
<1>2. copying = None BY <1>1 DEF IInv, Control, CopyingOK
<1>3. /\ manifest' \in Markers /\ Destined(manifest')
      /\ manifest'.schema = 2 /\ manifest'.phase = "prepared"
  BY <1>1, CompletedType DEF IInv, TypeOK, DiskTypeOK
<1> QED BY <1>1, <1>2, <1>3, PreparedStep

(* The manifests of build_transaction_manifest.                            *)
LEMMA BuildManifestStep ==
  ASSUME IInv, Supersede \/ TidyDone \/ Prepare
  PROVE  IInv'
<1>1. CASE Supersede
  <2>1. /\ pc = "main" /\ ~Prepared /\ HasRoom
        /\ manifest' = Manifest({}, {}) /\ pc' = "putPrepared"
        /\ UNCHANGED <<disk, todo, copying, decided, history>>
    BY <1>1 DEF Supersede, CanonicalOnly, NoSources, Admissible
  <2>2. copying = None BY <2>1 DEF IInv, Control, CopyingOK
  <2>3. /\ manifest' \in Markers /\ Destined(manifest')
        /\ manifest'.schema = 2 /\ manifest'.phase = "prepared"
    BY <2>1, ManifestType DEF IInv, TypeOK, DiskTypeOK
  <2> QED BY <2>1, <2>2, <2>3, PreparedStep
<1>2. CASE TidyDone
  <2>1. CASE Finish BY <2>1, FinishStep
  <2>2. CASE ~Finish
    <3>1. /\ pc = "tidyLinks" /\ HasRoom
          /\ manifest' = Manifest({}, {}) /\ pc' = "putPrepared"
          /\ UNCHANGED <<disk, todo, copying, decided, history>>
      BY <1>2, <2>2 DEF TidyDone
    <3>2. copying = None /\ ~Prepared
      BY <3>1 DEF IInv, Control, CopyingOK, ManifestOK, Executing
    <3>3. /\ manifest' \in Markers /\ Destined(manifest')
          /\ manifest'.schema = 2 /\ manifest'.phase = "prepared"
      BY <3>1, ManifestType DEF IInv, TypeOK, DiskTypeOK
    <3> QED BY <3>1, <3>2, <3>3, PreparedStep
  <2> QED BY <2>1, <2>2
<1>3. CASE Prepare
  <2>1. CASE Refuse BY <2>1, RefuseStep
  <2>2. CASE ~Refuse
    <3>1. /\ pc = "copy" /\ HasRoom
          /\ manifest' = Manifest(Sources, archiveOnly) /\ pc' = "putPrepared"
          /\ UNCHANGED <<disk, todo, copying, decided, history>>
      BY <1>3, <2>2 DEF Prepare
    <3>2. copying = None /\ ~Prepared
      BY <3>1 DEF IInv, Control, CopyingOK, ManifestOK, Executing
    <3>3. /\ manifest' \in Markers /\ Destined(manifest')
          /\ manifest'.schema = 2 /\ manifest'.phase = "prepared"
      BY <3>1, ManifestType DEF IInv, TypeOK, DiskTypeOK
    <3> QED BY <3>1, <3>2, <3>3, PreparedStep
  <2> QED BY <2>1, <2>2
<1> QED BY <1>1, <1>2, <1>3

(* The manifest of build_legacy_recovery_manifest.                         *)
LEMMA LegacyPrepareStep ==
  ASSUME IInv, LegacyPrepare
  PROVE  IInv'
<1>1. CASE Refuse BY <1>1, RefuseStep
<1>2. CASE ~Refuse
  <2>1. /\ pc = "legacy" /\ todo = {} /\ HasRoom
        /\ manifest' = LegacyManifest /\ pc' = "putPrepared"
        /\ UNCHANGED <<disk, todo, copying, decided, history>>
    BY <1>2 DEF LegacyPrepare
  <2>2. copying = None /\ ~Prepared
    BY <2>1 DEF IInv, Control, CopyingOK, ManifestOK, Executing
  <2>3. \A n \in marker.names : Archived(n) # {}
    BY <2>1 DEF IInv, Control, LoopsOK
  <2>4. /\ manifest' \in Markers /\ Destined(manifest')
        /\ manifest'.schema = 2 /\ manifest'.phase = "prepared"
    BY <2>1, <2>3, LegacyManifestType DEF IInv, TypeOK, DiskTypeOK
  <2> QED BY <2>1, <2>2, <2>4, PreparedStep
<1> QED BY <1>1, <1>2

(* The ends of the loops.                                                  *)
LEMMA LoopEndsStep ==
  ASSUME IInv,
         \/ Tidy \/ TidyStageRemoved \/ VerifyRecovered \/ SnapshotsDone
         \/ ArchivesDone \/ LinksDone \/ StageRemoved
  PROVE  IInv'
<1> USE DEF decided, history, budgets, memory, Goto
<1>1. CASE Refuse BY <1>1, RefuseStep
<1>2. CASE ~Refuse
  <2>1. UNCHANGED <<disk, manifest, copying, decided, history>>
    BY <1>2 DEF Tidy, TidyStageRemoved, VerifyRecovered, SnapshotsDone,
                ArchivesDone, LinksDone, StageRemoved
  <2>2. todo' \subseteq Names
    BY <1>2 DEF IInv, TypeOK, RunTypeOK, Markers, Unlinked, NamesIn, Tidy,
                TidyStageRemoved, VerifyRecovered, SnapshotsDone, ArchivesDone,
                LinksDone, StageRemoved
  <2>3. /\ pc' \in {"tidyStage", "tidyLinks"} \cup Executing
        /\ pc' \in Executing => pc \in Executing
        /\ pc' \in {"tidyStage", "tidyLinks"} => pc \in {"main", "tidyStage"} /\ ~Prepared
    BY <1>2 DEF IInv, Control, ManifestOK, Executing, Tidy, CanonicalOnly,
                NoSources, Admissible, TidyStageRemoved, VerifyRecovered,
                SnapshotsDone, ArchivesDone, LinksDone, StageRemoved
  <2>4. RunTypeOK'
    <3>1. pc' \in Places BY <2>3 DEF Places, Executing
    <3> QED BY <2>1, <2>2, <3>1 DEF IInv, TypeOK, RunTypeOK
  <2>5. copying = None
    <3>1. pc \in {"main", "tidyStage", "archive", "links", "unstage"} \/ todo = {}
      BY <1>2 DEF Tidy, TidyStageRemoved, VerifyRecovered, SnapshotsDone,
                  ArchivesDone, LinksDone, StageRemoved, CanonicalOnly, NoSources
    <3> QED BY <3>1 DEF IInv, Control, CopyingOK
  <2>6. LoopsOK' /\ CopyingOK'
    BY <1>2, <2>1, <2>5
       DEF LoopsOK, CopyingOK, Tidy, TidyStageRemoved, VerifyRecovered,
           SnapshotsDone, ArchivesDone, LinksDone, StageRemoved
  <2>7. ManifestOK'
    <3>1. UNCHANGED <<marker, manifest>> BY <2>1 DEF disk, markers
    <3> QED BY <2>3, <3>1
            DEF IInv, Control, ManifestOK, Prepared, Executing, Preparing
  <2>8. ProgressOK'
    BY <1>2, <2>1
       DEF IInv, Control, ProgressOK, Recovered, Executing, disk, data, Tidy,
           TidyStageRemoved, VerifyRecovered, SnapshotsDone, ArchivesDone,
           LinksDone, StageRemoved
  <2> QED BY <2>1, <2>4, <2>6, <2>7, <2>8, MemoryStep DEF Control
<1> QED BY <1>1, <1>2

-----------------------------------------------------------------------------
(* Steps of the migrator on the disk.                                      *)

LEMMA DiskStep ==
  ASSUME IInv, DiskTypeOK', RunTypeOK', Control'
  PROVE  IInv'
BY DEF IInv, TypeOK

(* The directories and the temporary marker.                               *)
LEMMA DirectoryStep ==
  ASSUME IInv,
         DropMarkerTemp \/ MigrateStart \/ RemoveStageDir \/ WriteMarkerTemp
  PROVE  IInv'
<1> USE DEF data, archives, markers, memory, decided, history, budgets
<1>1. CASE Refuse BY <1>1, RefuseStep
<1>2. CASE ~Refuse
  <2>1. /\ UNCHANGED <<root, canonical, stage, archives, marker, hard, manifest,
                       todo, copying, archiveOnly, history>>
        /\ litter' \subseteq litter
        /\ canonDir' \in {TRUE, canonDir} /\ stageDir' \in {FALSE, stageDir}
        /\ markerTemp' \in BOOLEAN \cup {markerTemp}
        /\ partial' \in {PartialMigration, partial}
    BY <1>2 DEF DropMarkerTemp, MigrateStart, RemoveStageDir, WriteMarkerTemp,
                staging
  <2>2. \/ pc' = pc
        \/ pc = "main" /\ pc' = "restage" /\ ~Prepared
        \/ pc = "putPrepared" /\ pc' = "swapPrepared"
        \/ pc = "putComplete" /\ pc' = "swapComplete"
    BY <1>2 DEF DropMarkerTemp, MigrateStart, RemoveStageDir, WriteMarkerTemp,
                Admissible
  <2>3. DiskTypeOK' BY <2>1 DEF IInv, TypeOK, DiskTypeOK
  <2>4. PartialMigration \in BOOLEAN BY DEF PartialMigration
  <2>5. RunTypeOK' BY <2>1, <2>2, <2>4 DEF IInv, TypeOK, RunTypeOK, Places
  <2>6. Control'
    BY <2>1, <2>2
       DEF IInv, Control, LoopsOK, ManifestOK, ProgressOK, CopyingOK, Sources,
           NamesIn, Archived, Prepared, Preparing, Executing, Recovered
  <2> QED BY <2>3, <2>5, <2>6, DiskStep
<1> QED BY <1>1, <1>2

LEMMA FreshLayoutStep ==
  ASSUME IInv, FreshLayout
  PROVE  IInv'
BY RefuseStep, FinishStep DEF FreshLayout

LEMMA LegacyStartStep ==
  ASSUME IInv, LegacyStart
  PROVE  IInv'
<1>1. CASE Refuse BY <1>1, RefuseStep
<1>2. CASE ~Refuse
  <2>1. /\ pc = "main" /\ ~Prepared /\ LegacyCoherent /\ stageDir' = TRUE
        /\ pc' = "legacy" /\ todo' = marker.names \ NamesIn(canonical)
        /\ UNCHANGED <<data, stage, archives, markers, hard, litter, manifest,
                       copying, decided, history>>
    BY <1>2 DEF LegacyStart, NoSources, Admissible, Goto
  <2>2. DiskTypeOK'
    BY <2>1 DEF IInv, TypeOK, DiskTypeOK, data, archives, markers
  <2>3. marker.names \subseteq Names
    BY DEF IInv, TypeOK, DiskTypeOK, Markers
  <2>4. RunTypeOK'
    BY <2>1, <2>3
       DEF IInv, TypeOK, RunTypeOK, Places, decided, history, budgets
  <2>5. \A n \in marker.names : Archived(n) # {}
    BY <2>1 DEF LegacyCoherent, LegacySelected
  <2>6. LoopsOK'
    BY <2>1, <2>5 DEF LoopsOK, Archived, archives, markers
  <2>7. ManifestOK' /\ ProgressOK' /\ CopyingOK'
    BY <2>1
       DEF IInv, Control, ManifestOK, ProgressOK, CopyingOK, Prepared, Preparing,
           Executing, Recovered, markers
  <2> QED BY <2>2, <2>4, <2>6, <2>7, DiskStep DEF Control
<1> QED BY <1>1, <1>2

LEMMA ClassifyStep ==
  ASSUME IInv, Classify
  PROVE  IInv'
<1>1. CASE Refuse BY <1>1, RefuseStep
<1>2. CASE ~Refuse
  <2>1. /\ pc = "restage" /\ stageDir' = TRUE /\ archiveOnly' = ArchiveOnly
        /\ pc' = "copy"
        /\ todo' = {n \in Sources \ ArchiveOnly : canonical[n] = None}
        /\ UNCHANGED <<data, stage, archives, markers, hard, litter, manifest,
                       copying, partial, history>>
    BY <1>2 DEF Classify, Goto
  <2>2. DiskTypeOK'
    BY <2>1 DEF IInv, TypeOK, DiskTypeOK, data, archives, markers
  <2>3. Sources \subseteq Names /\ ArchiveOnly \subseteq Names
    BY DEF Sources, NamesIn, ArchiveOnly
  <2>4. RunTypeOK'
    BY <2>1, <2>3 DEF IInv, TypeOK, RunTypeOK, Places, history, budgets
  <2>5. LoopsOK' BY <2>1 DEF LoopsOK, Sources, NamesIn, data
  <2>6. ManifestOK' /\ ProgressOK' /\ CopyingOK'
    BY <2>1
       DEF IInv, Control, ManifestOK, ProgressOK, CopyingOK, Prepared, Preparing,
           Executing, Recovered, markers
  <2> QED BY <2>2, <2>4, <2>5, <2>6, DiskStep DEF Control
<1> QED BY <1>1, <1>2

LEMMA SwapPreparedStep ==
  ASSUME IInv, SwapPrepared
  PROVE  IInv'
<1>1. /\ pc = "swapPrepared" /\ pc' = "execute"
      /\ marker' = manifest /\ markerTemp' = FALSE
      /\ litter' \subseteq litter
      /\ UNCHANGED <<data, staging, archives, hard, memory, history>>
  BY DEF SwapPrepared
<1>2. DiskTypeOK'
  BY <1>1 DEF IInv, TypeOK, DiskTypeOK, RunTypeOK, data, staging, archives
<1>3. RunTypeOK'
  BY <1>1
     DEF IInv, TypeOK, RunTypeOK, Places, memory, decided, history, budgets
<1>4. manifest.schema = 2 /\ manifest.phase = "prepared"
  BY <1>1 DEF IInv, Control, ManifestOK, Preparing
<1>5. Control'
  BY <1>1, <1>4
     DEF IInv, Control, LoopsOK, ManifestOK, ProgressOK, CopyingOK, Preparing,
         Executing, Recovered, memory
<1> QED BY <1>2, <1>3, <1>5, DiskStep

LEMMA MakeDirectoriesStep ==
  ASSUME IInv, MakeDirectories
  PROVE  IInv'
<1>1. /\ pc = "execute" /\ pc' = "recover" /\ todo' = manifest.names
      /\ canonDir' = TRUE /\ stageDir' = TRUE
      /\ UNCHANGED <<root, canonical, stage, archives, markers, hard, litter, manifest,
                     copying, decided, history>>
  BY DEF MakeDirectories, Goto
<1>2. DiskTypeOK'
  BY <1>1 DEF IInv, TypeOK, DiskTypeOK, archives, markers
<1>3. manifest.names \subseteq Names
  BY DEF IInv, TypeOK, RunTypeOK, Markers
<1>4. RunTypeOK'
  BY <1>1, <1>3
     DEF IInv, TypeOK, RunTypeOK, Places, decided, history, budgets
<1>5. copying = None BY <1>1 DEF IInv, Control, CopyingOK
<1>6. Control'
  BY <1>1, <1>5
     DEF IInv, Control, LoopsOK, ManifestOK, ProgressOK, CopyingOK, Preparing,
         Executing, Recovered, markers
<1> QED BY <1>2, <1>4, <1>6, DiskStep

-----------------------------------------------------------------------------
(* Steps of the migrator for one entry.                                    *)

(* A link in the root comes or goes.                                       *)
LEMMA LinkStep ==
  ASSUME IInv, NEW n \in Names,
         RetireTransientLink(n) \/ MakeLink(n)
  PROVE  IInv'
<1>1. CASE Refuse BY <1>1, RefuseStep
<1>2. CASE ~Refuse
  <2>1. /\ pc \in {"main", "links", "tidyLinks"} /\ UNCHANGED pc
        /\ \E v \in {None, Link} : root' = [root EXCEPT ![n] = v]
        /\ todo' \subseteq todo
        /\ UNCHANGED <<canonical, canonDir, staging, archives, markers, hard, litter,
                       manifest, copying, decided, history>>
    BY <1>2 DEF RetireTransientLink, MakeLink, memory
  <2>2. DiskTypeOK'
    BY <2>1 DEF IInv, TypeOK, DiskTypeOK, staging, archives, markers
  <2>3. RunTypeOK'
    BY <2>1 DEF IInv, TypeOK, RunTypeOK, decided, history, budgets
  <2>4. Control'
    BY <2>1
       DEF IInv, Control, LoopsOK, ManifestOK, ProgressOK, CopyingOK, Prepared,
           Preparing, Executing, Recovered, markers
  <2> QED BY <2>2, <2>3, <2>4, DiskStep
<1> QED BY <1>1, <1>2

(* Staging, before the transaction.                                        *)
LEMMA StagingStep ==
  ASSUME IInv, NEW n \in Names,
         LegacyStage(n) \/ RemoveStageEntry(n) \/ StageSource(n)
  PROVE  IInv'
<1>1. /\ pc \in {"legacy", "restage", "unstage", "tidyStage", "copy"}
      /\ UNCHANGED <<data, stageDir, archives, markers, hard, litter, pc, manifest,
                     decided, history>>
  BY DEF LegacyStage, RemoveStageEntry, StageSource, memory
<1>2. stage' \in Stored
  <2>1. stage \in Stored BY DEF IInv, TypeOK, DiskTypeOK
  <2>2. CASE LegacyStage(n)
    <3>1. n \in marker.names /\ Archived(n) # {}
      BY <2>2 DEF LegacyStage, IInv, Control, LoopsOK
    <3>2. Selected[n] \in Entries
      BY <3>1, CandidateType DEF Selected, IInv, TypeOK, DiskTypeOK
    <3>3. Torn(Selected[n]) \in Entries BY <3>2, TornType
    <3> HIDE DEF Selected
    <3> QED BY <2>1, <2>2, <3>2, <3>3 DEF LegacyStage, Stored
  <2>3. CASE RemoveStageEntry(n)
    <3>1. stage[n] \in Entries /\ Torn(stage[n]) \in Entries
      BY <2>3, TornType DEF RemoveStageEntry, NamesIn
    <3> QED BY <2>1, <2>3, <3>1 DEF RemoveStageEntry, Stored
  <2>4. CASE StageSource(n)
    <3>1. n \in Sources BY <2>4 DEF StageSource, IInv, Control, LoopsOK
    <3>2. root[n] \in Entries /\ Torn(root[n]) \in Entries
      BY <3>1, TornType DEF Sources, NamesIn
    <3> QED BY <2>1, <2>4, <3>2 DEF StageSource, Stored
  <2> QED BY <2>2, <2>3, <2>4
<1>3. /\ todo' \subseteq todo /\ copying' \in {copying, None, n}
      /\ copying' # None => copying' \in todo' /\ pc = "legacy"
  BY DEF LegacyStage, RemoveStageEntry, StageSource, memory, IInv, Control,
         CopyingOK
<1>4. DiskTypeOK'
  BY <1>1, <1>2 DEF IInv, TypeOK, DiskTypeOK, data, archives, markers
<1>5. RunTypeOK'
  BY <1>1, <1>3 DEF IInv, TypeOK, RunTypeOK, decided, history, budgets
<1>6. LoopsOK'
  BY <1>1, <1>3
     DEF IInv, Control, LoopsOK, Sources, NamesIn, Archived, data, archives, markers
<1>7. ManifestOK' /\ ProgressOK'
  BY <1>1
     DEF IInv, Control, ManifestOK, ProgressOK, Prepared, Preparing, Executing,
         Recovered, data, markers
<1>8. CopyingOK' BY <1>1, <1>3 DEF CopyingOK
<1> QED BY <1>4, <1>5, <1>6, <1>7, <1>8, DiskStep DEF Control

(* recover_canonical_entry.                                                *)
LEMMA RecoverStep ==
  ASSUME IInv, NEW n \in Names,
         RecoverPresent(n) \/ RecoverCopy(n) \/ RecoverCommit(n)
  PROVE  IInv'
<1>1. /\ pc = "recover" /\ n \in todo
      /\ UNCHANGED <<root, canonDir, stageDir, archives, markers, hard, litter, pc,
                     manifest, decided, history>>
  BY DEF RecoverPresent, RecoverCopy, RecoverCommit, disk, data, staging
<1>2. manifest.auth[n] \in Entries /\ manifest.auth \in Stored
  <2>1. n \in manifest.names /\ manifest.schema = 2
    BY <1>1 DEF IInv, Control, LoopsOK, ManifestOK, Executing
  <2> QED BY <2>1 DEF IInv, TypeOK, RunTypeOK, Destined, NamesIn, Markers
<1>3. canonical' \in Stored /\ stage' \in Stored
  <2>1. Torn(manifest.auth[n]) \in Entries BY <1>2, TornType
  <2>2. canonical \in Stored /\ stage \in Stored
    BY DEF IInv, TypeOK, DiskTypeOK
  <2> QED BY <1>2, <2>1, <2>2
          DEF RecoverPresent, RecoverCopy, RecoverCommit, Stored, disk, data, staging
<1>4. DiskTypeOK'
  BY <1>1, <1>3 DEF IInv, TypeOK, DiskTypeOK, archives, markers
<1>5. /\ todo' \in {todo, todo \ {n}}
      /\ copying' \in {copying, None, n}
      /\ copying' # None => copying' \in todo' /\ canonical'[copying'] = None
      /\ \A m \in Names \ {n} : canonical'[m] = canonical[m]
      /\ canonical'[n] # canonical[n] => canonical[n] = None
      /\ n \notin todo' => canonical'[n] = manifest.auth[n]
      /\ n \in todo' => canonical'[n] = canonical[n]
  <2>1. canonical \in Stored /\ copying \in Names \cup {None}
    BY DEF IInv, TypeOK, DiskTypeOK, RunTypeOK
  <2>2. copying # None => copying \in todo /\ canonical[copying] = None
    BY <1>1 DEF IInv, Control, CopyingOK
  <2>3. CASE RecoverPresent(n)
    BY <1>1, <1>2, <2>2, <2>3, NoneAssumption DEF RecoverPresent, disk, data
  <2>4. CASE RecoverCopy(n)
    BY <1>1, <2>2, <2>4, NoneAssumption DEF RecoverCopy, data
  <2>5. CASE RecoverCommit(n)
    BY <1>1, <2>1, <2>5, NoneAssumption DEF RecoverCommit, Stored
  <2> QED BY <2>3, <2>4, <2>5
<1>6. RunTypeOK'
  BY <1>1, <1>5 DEF IInv, TypeOK, RunTypeOK, decided, history, budgets
<1>7. LoopsOK' BY <1>1, <1>5 DEF IInv, Control, LoopsOK
<1>8. ManifestOK'
  BY <1>1 DEF IInv, Control, ManifestOK, Prepared, markers
<1>9. ProgressOK'
  <2>1. \A m \in manifest.names \ todo : m \in Names /\ canonical[m] = manifest.auth[m]
    BY <1>1 DEF IInv, TypeOK, RunTypeOK, Markers, Control, ProgressOK
  <2>2. manifest.names \subseteq Names BY DEF IInv, TypeOK, RunTypeOK, Markers
  <2>3. \A m \in manifest.names \ todo' : canonical'[m] = manifest.auth[m]
    BY <1>5, <2>1, <2>2
  <2> QED BY <1>1, <2>3 DEF ProgressOK, Recovered, Executing
<1>10. CopyingOK' BY <1>1, <1>5 DEF CopyingOK
<1> QED BY <1>4, <1>6, <1>7, <1>8, <1>9, <1>10, DiskStep DEF Control

(* copy_snapshot.                                                          *)
LEMMA SnapshotStep ==
  ASSUME IInv, NEW n \in Names, CopySnapshot(n)
  PROVE  IInv'
<1> DEFINE s == manifest.authSlot[n]
<1>1. /\ pc = "snapshot" /\ n \in todo
      /\ UNCHANGED <<data, staging, markers, hard, litter, pc, manifest, decided, history>>
  BY DEF CopySnapshot
<1>2. /\ manifest.auth[n] \in Entries
      /\ canonical[n] = manifest.auth[n] /\ s \in Slots
  <2>1. n \in manifest.names /\ manifest.schema = 2
    BY <1>1 DEF IInv, Control, LoopsOK, ManifestOK, Executing
  <2>2. canonical[n] = manifest.auth[n]
    BY <1>1, <2>1 DEF IInv, Control, ProgressOK, Recovered, Executing
  <2> QED BY <2>1, <2>2 DEF IInv, TypeOK, RunTypeOK, Destined, NamesIn
<1>3. snapshot' \in Stored /\ backup' \in [Names -> [Slots -> Entries \cup {None}]]
  <2>1. Torn(canonical[n]) \in Entries BY <1>2, TornType
  <2>2. snapshot \in Stored /\ backup \in [Names -> [Slots -> Entries \cup {None}]]
    BY DEF IInv, TypeOK, DiskTypeOK
  <2>3. \/ UNCHANGED <<snapshot, backup>>
        \/ /\ snapshot' \in {[snapshot EXCEPT ![n] = None],
                            [snapshot EXCEPT ![n] = Torn(canonical[n])]}
           /\ UNCHANGED backup
        \/ /\ snapshot' = [snapshot EXCEPT ![n] = None]
           /\ backup' = [backup EXCEPT ![n][s] = canonical[n]]
    BY DEF CopySnapshot, archives
  <2>4. snapshot' \in Stored BY <2>1, <2>2, <2>3 DEF Stored
  <2>5. backup' \in [Names -> [Slots -> Entries \cup {None}]]
    <3> HIDE DEF s
    <3> QED BY <1>2, <2>2, <2>3
  <2> QED BY <2>4, <2>5
<1>4. DiskTypeOK'
  BY <1>1, <1>3 DEF IInv, TypeOK, DiskTypeOK, data, staging, markers
<1>5. /\ todo' \in {todo, todo \ {n}} /\ copying' \in {copying, None, n}
      /\ copying' # None => /\ copying' \in todo'
                            /\ backup'[copying'][manifest.authSlot[copying']] = None
  <2>1. backup \in [Names -> [Slots -> Entries \cup {None}]]
    BY DEF IInv, TypeOK, DiskTypeOK
  <2>2. copying # None =>
          copying \in todo /\ backup[copying][manifest.authSlot[copying]] = None
    BY <1>1 DEF IInv, Control, CopyingOK
  <2> QED BY <1>1, <1>2, <2>1, <2>2, NoneAssumption DEF CopySnapshot, archives
<1>6. RunTypeOK'
  BY <1>1, <1>5 DEF IInv, TypeOK, RunTypeOK, decided, history, budgets
<1>7. LoopsOK' BY <1>1, <1>5 DEF IInv, Control, LoopsOK
<1>8. ManifestOK' /\ ProgressOK'
  BY <1>1 DEF IInv, Control, ManifestOK, ProgressOK, Prepared, markers, data
<1>9. CopyingOK' BY <1>1, <1>5 DEF CopyingOK
<1> QED BY <1>4, <1>6, <1>7, <1>8, <1>9, DiskStep DEF Control

(* archive_exact.                                                          *)
LEMMA ArchiveStep ==
  ASSUME IInv, NEW n \in Names, ArchiveSource(n)
  PROVE  IInv'
<1>1. /\ pc = "archive" /\ n \in todo /\ todo' \subseteq todo
      /\ UNCHANGED <<canonical, canonDir, staging, snapshot, markers, hard, litter, pc,
                     manifest, copying, decided, history>>
  BY DEF ArchiveSource
<1>2. /\ root' \in [Names -> Entries \cup {None, Link}]
      /\ backup' \in [Names -> [Slots -> Entries \cup {None}]]
  <2>1. n \in Sources => root[n] \in Entries /\ Torn(root[n]) \in Entries
    BY TornType DEF Sources, NamesIn
  <2>2. /\ root \in [Names -> Entries \cup {None, Link}]
        /\ backup \in [Names -> [Slots -> Entries \cup {None}]]
    BY DEF IInv, TypeOK, DiskTypeOK
  <2>3. \/ UNCHANGED <<root, backup>>
        \/ /\ n \in Sources
           /\ root' \in {[root EXCEPT ![n] = None],
                         [root EXCEPT ![n] = Torn(root[n])]}
           /\ \/ UNCHANGED backup
              \/ backup' = [backup EXCEPT ![n][manifest.archSlot[n]] = root[n]]
    BY DEF ArchiveSource
  <2>4. root' \in [Names -> Entries \cup {None, Link}] BY <2>1, <2>2, <2>3
  <2>5. backup' \in [Names -> [Slots -> Entries \cup {None}]]
    BY <2>1, <2>2, <2>3
  <2> QED BY <2>4, <2>5
<1>3. DiskTypeOK'
  BY <1>1, <1>2 DEF IInv, TypeOK, DiskTypeOK, staging, markers
<1>4. RunTypeOK'
  BY <1>1 DEF IInv, TypeOK, RunTypeOK, decided, history, budgets
<1>5. Control'
  BY <1>1
     DEF IInv, Control, LoopsOK, ManifestOK, ProgressOK, CopyingOK, Prepared, markers
<1> QED BY <1>3, <1>4, <1>5, DiskStep

LEMMA RefusalStep ==
  ASSUME IInv,
         \/ RefuseTransientLink \/ RefuseDanglingLink \/ RefuseIncoherentCanonical
         \/ \E n \in Names : RefuseRecovery(n) \/ RefuseArchive(n)
  PROVE  IInv'
<1>1. Refuse
  BY DEF RefuseTransientLink, RefuseDanglingLink, RefuseIncoherentCanonical,
         RefuseRecovery, RefuseArchive
<1> QED BY <1>1, RefuseStep

-----------------------------------------------------------------------------
(* The steps between runs.                                                 *)

BetweenRuns ==
    /\ pc = "off" /\ UNCHANGED <<pc, memory, staging, archives, markers>>
    /\ root' \in [Names -> Entries \cup {None, Link}]
    /\ canonical' \in Stored /\ canonDir' \in BOOLEAN
    /\ hard' \subseteq Names /\ litter' \subseteq litter
    /\ result' \in {"none", "used"}
    /\ crashes' \in Nat /\ writes' \in Nat /\ losses' \in Nat

LEMMA EnvironmentStep ==
  ASSUME IInv, Environment
  PROVE  BetweenRuns
<1> USE DEF Idle, BetweenRuns
<1>1. /\ root \in [Names -> Entries \cup {None, Link}]
      /\ canonical \in [Names -> Entries \cup {None}] /\ canonDir \in BOOLEAN
      /\ hard \subseteq Names
      /\ crashes \in Nat /\ writes \in Nat /\ losses \in Nat
  BY DEF IInv, TypeOK, DiskTypeOK, RunTypeOK, Stored
<1>2. ASSUME NEW n \in Names, NEW v \in WholeOf(n) \cup {None}, AppWrites(n, v)
      PROVE  BetweenRuns
  <2>1. v \in Entries \cup {None} BY WholeType
  <2> QED BY <1>1, <1>2, <2>1 DEF AppWrites, Stored
<1>3. ASSUME NEW n \in Names, NEW v \in WholeOf(n) \cup {None}, RollbackWrites(n, v)
      PROVE  BetweenRuns
  <2>1. v \in Entries BY <1>3, WholeType DEF RollbackWrites
  <2> QED BY <1>1, <1>3, <2>1 DEF RollbackWrites, Stored
<1>4. ASSUME NEW n \in Names, OldTransientLink(n)
      PROVE  BetweenRuns
  BY <1>1, <1>4 DEF OldTransientLink, Stored
<1>5. ASSUME NEW S \in SUBSET Connectors, ConnectorLinks(S)
      PROVE  BetweenRuns
  <2>1. S \subseteq Names BY <1>5, NamesAssumption
  <2>2. pc = "off" /\ hard' = S /\ result' = "used"
    BY <1>5 DEF ConnectorLinks
  <2>3. UNCHANGED <<root, canonical, canonDir, staging, archives, markers, litter,
                    pc, memory, crashes, writes, losses>>
    BY <1>5 DEF ConnectorLinks, data, budgets
  <2> QED BY <1>1, <2>1, <2>2, <2>3 DEF Stored
<1>6. CASE LoseCanonical
  <2>1. canonical' \in Stored BY <1>6 DEF LoseCanonical, Stored, Nothing
  <2>2. root' \in [Names -> Entries \cup {None, Link}]
    BY <1>1, <1>6 DEF LoseCanonical
  <2>3. /\ pc = "off" /\ canonDir' = FALSE /\ hard' = {} /\ result' = "none"
        /\ losses' = losses + 1 /\ litter' \subseteq litter
        /\ UNCHANGED <<staging, archives, markers, pc, memory, crashes, writes>>
    BY <1>6 DEF LoseCanonical
  <2>4. losses' \in Nat /\ crashes' \in Nat /\ writes' \in Nat
    BY <1>1, <2>3
  <2>5. canonDir' \in BOOLEAN /\ hard' \subseteq Names BY <2>3
  <2> QED BY <2>1, <2>2, <2>3, <2>4, <2>5, Zenon
<1> QED BY <1>2, <1>3, <1>4, <1>5, <1>6 DEF Environment

LEMMA BetweenRunsStep ==
  ASSUME IInv, BetweenRuns
  PROVE  IInv'
<1> USE DEF BetweenRuns
<1>1. DiskTypeOK'
  BY DEF IInv, TypeOK, DiskTypeOK, staging, archives, markers
<1>2. RunTypeOK'
  BY DEF IInv, TypeOK, RunTypeOK, memory, decided
<1>3. Control'
  BY DEF IInv, Control, LoopsOK, ManifestOK, ProgressOK, CopyingOK, Prepared,
         Preparing, Executing, Recovered, memory, markers
<1> QED BY <1>1, <1>2, <1>3, DiskStep

-----------------------------------------------------------------------------
(* The theorems.                                                           *)

(* Whatever the migrator does, and wherever it is interrupted, its         *)
(* variables have their types and its invariant holds.                     *)
THEOREM Inductive == IInv /\ [Next]_vars => IInv'
<1> SUFFICES ASSUME IInv, [Next]_vars PROVE IInv' OBVIOUS
<1>1. CASE MainStep
  BY <1>1, StartStep, ResumeStep, RefusalStep, DirectoryStep, RestoreLostStep,
     BuildManifestStep, LoopEndsStep, FreshLayoutStep, LegacyStartStep,
     LegacyPrepareStep, ClassifyStep, SwapPreparedStep, SwapCompleteStep
     DEF MainStep
<1>2. CASE ExecuteStep
  BY <1>2, MakeDirectoriesStep, LoopEndsStep DEF ExecuteStep
<1>3. ASSUME NEW n \in Names, EntryStep(n) PROVE IInv'
  BY <1>3, LinkStep, StagingStep, RecoverStep, RefusalStep, SnapshotStep, ArchiveStep
     DEF EntryStep
<1>4. CASE Crash BY <1>4, CrashStep
<1>5. CASE Environment BY <1>5, EnvironmentStep, BetweenRunsStep
<1>6. CASE UNCHANGED vars
  <2>1. /\ UNCHANGED <<root, canonical, canonDir, stage, stageDir, backup, snapshot,
                       marker, markerTemp, hard, litter, pc, manifest, todo,
                       archiveOnly, partial, copying, result, crashes, writes, losses>>
    BY <1>6 DEF vars, disk, data, staging, archives, markers, memory, decided,
                history, budgets
  <2>2. TypeOK' BY <2>1 DEF IInv, TypeOK, DiskTypeOK, RunTypeOK
  <2>3. Control'
    BY <2>1 DEF IInv, Control, LoopsOK, ManifestOK, ProgressOK, CopyingOK,
                Sources, NamesIn, Archived, Prepared
  <2> QED BY <2>2, <2>3 DEF IInv
<1> QED BY <1>1, <1>2, <1>3, <1>4, <1>5, <1>6 DEF Next, Migrator

(* The inductive invariant holds in every state of the migrator and of     *)
(* what runs between its runs, crashes included.                           *)
THEOREM Invariance == Spec => []IInv
BY InitIInv, Inductive, PTL DEF Spec

(* Type correctness, for every instance: whatever is written, interrupted  *)
(* and resumed, each manifest on disk or in memory binds a destination     *)
(* that exists for every entry it names.                                   *)
THEOREM TypeCorrect == Spec => []TypeOK
<1>1. IInv => TypeOK BY DEF IInv
<1> QED BY <1>1, Invariance, PTL

-----------------------------------------------------------------------------
(* What a step of the migrator, or a crash of it, may do to contents.      *)

(* Canonical state changes only where recover_canonical_entry commits.     *)
LEMMA CanonicalSteps ==
  ASSUME Next, pc # "off"
  PROVE  \/ UNCHANGED canonical
         \/ \E n \in Names : RecoverCommit(n)
<1>1. CASE MainStep
  BY <1>1 DEF MainStep, Start, Resume, RefuseTransientLink, RefuseDanglingLink,
     DropMarkerTemp, RestoreLost, Supersede, Tidy, RefuseIncoherentCanonical,
     FreshLayout, LegacyStart, LegacyPrepare, MigrateStart, RemoveStageDir,
     Classify, Prepare, WriteMarkerTemp, SwapPrepared, SwapComplete,
     TidyStageRemoved, TidyDone, Refuse, Finish, disk, data
<1>2. CASE ExecuteStep
  BY <1>2 DEF ExecuteStep, MakeDirectories, VerifyRecovered, SnapshotsDone,
     ArchivesDone, LinksDone, StageRemoved, Refuse, disk, data
<1>3. ASSUME NEW n \in Names, EntryStep(n)
      PROVE  UNCHANGED canonical \/ RecoverCommit(n)
  BY <1>3 DEF EntryStep, RetireTransientLink, LegacyStage, RemoveStageEntry,
     StageSource, RecoverPresent, RecoverCopy, RefuseRecovery, CopySnapshot,
     ArchiveSource, RefuseArchive, MakeLink, Refuse, disk, data
<1>4. CASE Crash BY <1>4 DEF Crash, disk, data
<1>5. CASE Environment
  BY <1>5 DEF Environment, AppWrites, RollbackWrites, OldTransientLink,
     ConnectorLinks, LoseCanonical, Idle
<1> QED BY <1>1, <1>2, <1>3, <1>4, <1>5 DEF Next, Migrator

(* The archives change only where copy_snapshot and archive_exact write.   *)
LEMMA ArchiveSteps ==
  ASSUME Next
  PROVE  \/ UNCHANGED backup
         \/ \E n \in Names : CopySnapshot(n) \/ ArchiveSource(n)
<1>1. CASE MainStep
  BY <1>1 DEF MainStep, Start, Resume, RefuseTransientLink, RefuseDanglingLink,
     DropMarkerTemp, RestoreLost, Supersede, Tidy, RefuseIncoherentCanonical,
     FreshLayout, LegacyStart, LegacyPrepare, MigrateStart, RemoveStageDir,
     Classify, Prepare, WriteMarkerTemp, SwapPrepared, SwapComplete,
     TidyStageRemoved, TidyDone, Refuse, Finish, disk, archives
<1>2. CASE ExecuteStep
  BY <1>2 DEF ExecuteStep, MakeDirectories, VerifyRecovered, SnapshotsDone,
     ArchivesDone, LinksDone, StageRemoved, Refuse, disk, archives
<1>3. ASSUME NEW n \in Names, EntryStep(n)
      PROVE  UNCHANGED backup \/ CopySnapshot(n) \/ ArchiveSource(n)
  BY <1>3 DEF EntryStep, RetireTransientLink, LegacyStage, RemoveStageEntry,
     StageSource, RecoverPresent, RecoverCopy, RecoverCommit, RefuseRecovery,
     RefuseArchive, MakeLink, Refuse, disk, archives
<1>4. CASE Crash BY <1>4 DEF Crash, disk, archives
<1>5. CASE Environment
  BY <1>5 DEF Environment, AppWrites, RollbackWrites, OldTransientLink,
     ConnectorLinks, LoseCanonical, archives
<1> QED BY <1>1, <1>2, <1>3, <1>4, <1>5 DEF Next, Migrator

(* A source leaves the root only into the archives, links come and go.     *)
LEMMA RootSteps ==
  ASSUME Next, pc # "off"
  PROVE  \/ UNCHANGED root
         \/ \E n \in Names : RetireTransientLink(n) \/ ArchiveSource(n) \/ MakeLink(n)
<1>1. CASE MainStep
  BY <1>1 DEF MainStep, Start, Resume, RefuseTransientLink, RefuseDanglingLink,
     DropMarkerTemp, RestoreLost, Supersede, Tidy, RefuseIncoherentCanonical,
     FreshLayout, LegacyStart, LegacyPrepare, MigrateStart, RemoveStageDir,
     Classify, Prepare, WriteMarkerTemp, SwapPrepared, SwapComplete,
     TidyStageRemoved, TidyDone, Refuse, Finish, disk, data
<1>2. CASE ExecuteStep
  BY <1>2 DEF ExecuteStep, MakeDirectories, VerifyRecovered, SnapshotsDone,
     ArchivesDone, LinksDone, StageRemoved, Refuse, disk, data
<1>3. ASSUME NEW n \in Names, EntryStep(n)
      PROVE  UNCHANGED root \/ RetireTransientLink(n) \/ ArchiveSource(n) \/ MakeLink(n)
  BY <1>3 DEF EntryStep, LegacyStage, RemoveStageEntry, StageSource,
     RecoverPresent, RecoverCopy, RecoverCommit, RefuseRecovery, CopySnapshot,
     RefuseArchive, Refuse, disk, data
<1>4. CASE Crash BY <1>4 DEF Crash, disk, data
<1>5. CASE Environment
  BY <1>5 DEF Environment, AppWrites, RollbackWrites, OldTransientLink,
     ConnectorLinks, LoseCanonical, Idle
<1> QED BY <1>1, <1>2, <1>3, <1>4, <1>5 DEF Next, Migrator

(* No archived generation is ever overwritten or removed.                  *)
ArchivesKept ==
    \A n \in Names, s \in Slots : backup[n][s] # None => backup'[n][s] = backup[n][s]

LEMMA ArchivesKeptStep ==
  ASSUME IInv, [Next]_vars
  PROVE  ArchivesKept
<1>1. backup \in [Names -> [Slots -> Entries \cup {None}]]
  BY DEF IInv, TypeOK, DiskTypeOK
<1>2. CASE UNCHANGED backup BY <1>2 DEF ArchivesKept
<1>3. ASSUME NEW n \in Names, CopySnapshot(n) PROVE ArchivesKept
  <2> DEFINE t == manifest.authSlot[n]
  <2>1. backup[n][t] # None => UNCHANGED backup
    <3>1. copying = n => backup[n][t] = None
      <4>1. pc = "snapshot" BY <1>3 DEF CopySnapshot
      <4> QED BY <4>1, NoneAssumption DEF IInv, Control, CopyingOK
    <3> QED BY <1>3, <3>1 DEF CopySnapshot, archives
  <2>2. \/ UNCHANGED backup
        \/ \E v \in {canonical[n]} : backup' = [backup EXCEPT ![n][t] = v]
    BY <1>3 DEF CopySnapshot, archives
  <2> HIDE DEF t
  <2> QED BY <1>1, <2>1, <2>2 DEF ArchivesKept
<1>4. ASSUME NEW n \in Names, ArchiveSource(n) PROVE ArchivesKept
  <2> DEFINE t == manifest.archSlot[n]
  <2>1. \/ UNCHANGED backup
        \/ backup[n][t] = None /\ backup' = [backup EXCEPT ![n][t] = root[n]]
    BY <1>4 DEF ArchiveSource
  <2> HIDE DEF t
  <2> QED BY <1>1, <2>1 DEF ArchivesKept
<1>5. CASE UNCHANGED vars BY <1>2, <1>5 DEF vars, disk, archives
<1> QED BY <1>2, <1>3, <1>4, <1>5, ArchiveSteps

(* Archives are immutable: whatever runs, crashes or is restored, a        *)
(* generation once archived stays under its name with its content.         *)
THEOREM ArchivesImmutable == Spec => [][ArchivesKept]_vars
<1>1. IInv /\ [Next]_vars => [ArchivesKept]_vars BY ArchivesKeptStep
<1> QED BY <1>1, Invariance, PTL DEF Spec

(* The migrator changes canonical state only under a durable prepared      *)
(* manifest, where nothing was, and to what the manifest binds.            *)
THEOREM CommitsPrepared == Spec => CommitsOnlyPrepared
<1> DEFINE A == pc # "off" => \A n \in Names : canonical'[n] # canonical[n] =>
                  /\ Prepared /\ canonical[n] = None
                  /\ canonical'[n] = marker.auth[n]
<1>1. ASSUME IInv, [Next]_vars PROVE [A]_vars
  <2> SUFFICES ASSUME Next, pc # "off", NEW n \in Names,
                      canonical'[n] # canonical[n]
               PROVE  /\ Prepared /\ canonical[n] = None
                      /\ canonical'[n] = marker.auth[n]
    BY <1>1
  <2>1. PICK m \in Names : RecoverCommit(m) BY CanonicalSteps
  <2>2. /\ pc = "recover" /\ canonical[m] = None
        /\ stage[m] = manifest.auth[m]
        /\ canonical' = [canonical EXCEPT ![m] = stage[m]]
    BY <2>1 DEF RecoverCommit
  <2>3. canonical \in [Names -> Entries \cup {None}]
    BY <1>1 DEF IInv, TypeOK, DiskTypeOK, Stored
  <2>4. n = m /\ canonical'[n] = manifest.auth[n] BY <2>2, <2>3
  <2>5. marker = manifest /\ Prepared
    BY <1>1, <2>2 DEF IInv, Control, ManifestOK, Executing, Prepared
  <2> QED BY <2>2, <2>4, <2>5
<1>2. Spec => [][A]_vars BY <1>1, Invariance, PTL DEF Spec
<1> QED BY <1>2 DEF CommitsOnlyPrepared

(* What lies within a part lies within the whole.                          *)
LEMMA WithinTransitive ==
  ASSUME NEW n, NEW g, NEW h, NEW k, Within(n, g, h), Within(n, h, k)
  PROVE  Within(n, g, k)
<1>1. CASE g = h \/ h = k BY <1>1 DEF Within
<1>2. CASE n \in Dirs /\ <<g, h>> \in Inside /\ <<h, k>> \in Inside
  <2>1. <<g, h>>[2] = <<h, k>>[1] => <<<<g, h>>[1], <<h, k>>[2]>> \in Inside
    BY <1>2, InsideAssumption
  <2> QED BY <1>2, <2>1 DEF Within
<1> QED BY <1>1, <1>2 DEF Within

(* No step of the migrator and no crash loses the last copy of a content.  *)
THEOREM CopiesSurvive == Spec => NeverDestroysLastCopy
<1> DEFINE A == pc # "off" => Copies \subseteq Copies'
<1>1. ASSUME IInv, [Next]_vars PROVE [A]_vars
  <2> SUFFICES ASSUME Next, pc # "off", NEW c \in Copies
               PROVE  c \in Copies'
    BY <1>1
  <2> DEFINE n == c[1]
             g == c[2]
  <2>0. PICK e \in Entries :
          /\ e.whole /\ Within(n, g, e.gen)
          /\ \/ root[n] = e \/ canonical[n] = e
             \/ \E s \in Slots : backup[n][s] = e
    BY DEF Copies, Holds
  <2>1. c \in Names \X AllGens /\ n \in Names /\ e \in Entries /\ e.whole
    BY <2>0 DEF Copies
  <2>2. e # None /\ e # Link BY <2>1, NoneAssumption
  <2>3. SUFFICES \E k \in Entries :
          /\ k.whole /\ Within(n, g, k.gen)
          /\ \/ root'[n] = k \/ canonical'[n] = k
             \/ \E s \in Slots : backup'[n][s] = k
    BY <2>1 DEF Copies, Holds
  <2> HIDE DEF n, g
  <2>4. CASE canonical[n] = e
    <3>1. canonical \in [Names -> Entries \cup {None}]
      BY <1>1 DEF IInv, TypeOK, DiskTypeOK, Stored
    <3>2. canonical'[n] = e
      BY <2>1, <2>2, <2>4, <3>1, CanonicalSteps DEF RecoverCommit
    <3> QED BY <2>0, <3>2
  <2>5. CASE \E s \in Slots : backup[n][s] = e
    <3>1. \E s \in Slots : backup'[n][s] = e
      BY <1>1, <2>1, <2>2, <2>5, ArchivesKeptStep DEF ArchivesKept
    <3> QED BY <2>0, <3>1
  <2>6. CASE root[n] = e
    <3>1. /\ root \in [Names -> Entries \cup {None, Link}]
          /\ backup \in [Names -> [Slots -> Entries \cup {None}]]
      BY <1>1 DEF IInv, TypeOK, DiskTypeOK
    <3>2. ASSUME NEW m \in Names, RetireTransientLink(m) \/ MakeLink(m)
          PROVE  root'[n] = e
      <4>1. \/ UNCHANGED root
            \/ root[m] = Link /\ root' = [root EXCEPT ![m] = None]
            \/ m \notin Sources /\ root' = [root EXCEPT ![m] = Link]
        BY <3>2 DEF RetireTransientLink, MakeLink, LinkedTransients, Refuse,
                    disk, data
      <4> QED BY <2>1, <2>2, <2>6, <3>1, <4>1 DEF Sources, NamesIn
    <3>3. ASSUME NEW m \in Names, ArchiveSource(m)
          PROVE  \/ root'[n] = e
                 \/ \E k \in Entries : /\ k.whole /\ Within(n, g, k.gen)
                                       /\ \E s \in Slots : backup'[n][s] = k
      <4>1. CASE n # m
        BY <2>1, <2>6, <3>1, <3>3, <4>1 DEF ArchiveSource
      <4>2. CASE n = m
        <5> DEFINE s == manifest.archSlot[n]
        <5>1. pc = "archive" /\ n \in todo BY <3>3, <4>2 DEF ArchiveSource
        <5>2. n \in NamesIn(manifest.arch)
          BY <1>1, <5>1 DEF IInv, Control, LoopsOK
        <5>3. s \in Slots
          BY <1>1, <5>2, NoneAssumption
             DEF IInv, TypeOK, RunTypeOK, Destined, NamesIn
        <5>4. n \in Sources BY <2>1, <2>6 DEF Sources, NamesIn
        <5>5. CASE root[n] = manifest.arch[n] /\ backup' = [backup EXCEPT ![n][s] = root[n]]
          <6> HIDE DEF s
          <6>1. backup'[n][s] = e BY <2>1, <2>6, <3>1, <5>3, <5>5
          <6> QED BY <2>0, <5>3, <6>1
        <5>6. CASE ArchiveHolds(n) /\ UNCHANGED backup
          <6> DEFINE k == manifest.arch[n]
          <6>1. k \in Entries BY <5>2 DEF NamesIn
          <6>2. backup'[n][s] = k BY <5>6 DEF ArchiveHolds
          <6>3. e = k \/ (k.whole /\ Within(n, e.gen, k.gen))
            BY <2>6, <5>6 DEF ArchiveHolds, TreeIsSubset
          <6>4. k.whole /\ Within(n, g, k.gen)
            BY <2>0, <6>3, WithinTransitive
          <6> HIDE DEF k, s
          <6> QED BY <5>3, <6>1, <6>2, <6>4
        <5> QED BY <3>3, <4>2, <5>4, <5>5, <5>6 DEF ArchiveSource
      <4> QED BY <4>1, <4>2
    <3> QED BY <2>0, <2>6, <3>2, <3>3, RootSteps
  <2> QED BY <2>0, <2>4, <2>5, <2>6
<1>2. Spec => [][A]_vars BY <1>1, Invariance, PTL DEF Spec
<1> QED BY <1>2 DEF NeverDestroysLastCopy

=============================================================================
