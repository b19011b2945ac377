-------------------------- MODULE ProxyConfig_proofs --------------------------
(***************************************************************************)
(* Proofs about the App Proxy configuration, for every set of temporaries   *)
(* and of files and every number of faults.                                *)
(*                                                                         *)
(* ConfigWhole speaks of the directory and of what a power loss would       *)
(* leave of it.  It is inductive once it is known what the guard publishes  *)
(* (Writing): the temporary that it has just written, whole since then.    *)
(* What is unlinked was validated because the migrator unlinks only after   *)
(* it compared what it moved with what it validated (Retired).  Nothing    *)
(* but a failure or a foreign entry stops a start, since what is validated *)
(* is live or retired until it is unlinked (Orderly).                      *)
(***************************************************************************)
EXTENDS ProxyConfig, TLAPS

Writing ==
    /\ pc \in {"write", "publish"} => dir.live[GuardTemp] # None
    /\ pc = "publish" => kind[dir.live[GuardTemp]] = "whole"

Retired ==
    pc = "unlink" => \A t \in Temps : dir.retired[t] \in {None, held[t]}

(* The inductive invariant. *)
IInv == TypeOK /\ ConfigWhole /\ Writing /\ Retired

-----------------------------------------------------------------------------
LEMMA InitIInv == Init => IInv
  <1> SUFFICES ASSUME Init PROVE IInv
    OBVIOUS
  <1> USE ProxyAssumption DEF Init
  <1>1. TypeOK
    BY DEF TypeOK, Directories, Links, Nobody
  <1>2. ConfigWhole /\ Writing /\ Retired
    BY DEF ConfigWhole, Writing, Retired
  <1> QED
    BY <1>1, <1>2 DEF IInv

(* A file that is linked anew exists nowhere else.                         *)
LEMMA LinkFresh ==
    ASSUME TypeOK, NEW t \in Temps, NEW k \in {"whole", "short", "foreign"}, Link(t, k)
    PROVE  \E f \in Files :
             /\ f \notin Present(dir) /\ f \notin Present(disk)
             /\ dir' = [dir EXCEPT !.live[t] = f]
             /\ kind' = [kind EXCEPT ![f] = k]
             /\ synced' = synced \ {f}
  BY DEF Link, Fresh

(* Linking keeps the types and the published configuration.                *)
LEMMA LinkKeeps ==
    ASSUME TypeOK, NEW t \in Temps, NEW k \in {"whole", "short", "foreign"}, Link(t, k)
    PROVE  /\ dir' \in Directories /\ dir'.retired = dir.retired
           /\ dir'.live[t] # None /\ dir'.config = dir.config
           /\ kind' \in [Files -> {"whole", "short", "foreign"}]
           /\ synced' \subseteq Files
           /\ ConfigWhole /\ disk' = disk => ConfigWhole'
           /\ dir.live[t] = None => Present(dir) \subseteq Present(dir')
  <1>1. PICK f \in Files :
             /\ f \notin Present(dir) /\ f \notin Present(disk)
             /\ dir' = [dir EXCEPT !.live[t] = f]
             /\ kind' = [kind EXCEPT ![f] = k]
             /\ synced' = synced \ {f}
    BY LinkFresh
  <1>2. /\ dir' \in Directories /\ dir'.retired = dir.retired
        /\ dir'.live[t] # None /\ dir'.config = dir.config
    BY <1>1, ProxyAssumption DEF TypeOK, Directories, Links
  <1>3. /\ kind' \in [Files -> {"whole", "short", "foreign"}]
        /\ synced' \subseteq Files
    BY <1>1 DEF TypeOK
  <1>4. ConfigWhole /\ disk' = disk => ConfigWhole'
    BY <1>1, <1>2 DEF ConfigWhole, Present, TypeOK
  <1>5. dir.live[t] = None => Present(dir) \subseteq Present(dir')
    <2> SUFFICES ASSUME dir.live[t] = None, NEW g \in Present(dir)
                 PROVE  g \in Present(dir')
      OBVIOUS
    <2> QED
      BY <1>1, <1>2 DEF Present, Values, TypeOK, Directories, Links
  <1> QED
    BY <1>2, <1>3, <1>4, <1>5

-----------------------------------------------------------------------------
(* Type correctness of each step.                                          *)
LEMMA TypeStep == TypeOK /\ Writing /\ [Next]_vars => TypeOK'
  <1> SUFFICES ASSUME TypeOK, Writing, [Next]_vars PROVE TypeOK'
    OBVIOUS
  <1> USE ProxyAssumption
  <1>1. CASE Start \/ Stop \/ Moved \/ Refuse \/ Up
    BY <1>1 DEF Start, Stop, Moved, Refuse, Up, Goto, TypeOK
  <1>2. CASE Validate
    BY <1>2 DEF Validate, Goto, TypeOK, Directories, Links
  <1>3. CASE MakeRetire \/ Undone \/ RemoveRetire
    BY <1>3 DEF MakeRetire, Undone, RemoveRetire, Goto, TypeOK, Directories
  <1>4. ASSUME NEW t \in Temps, Move(t) PROVE TypeOK'
    BY <1>4 DEF Move, Goto, TypeOK, Directories, Links
  <1>5. ASSUME NEW t \in Temps, Undo(t) PROVE TypeOK'
    <2>1. CASE dir.live[t] = None
      <3>1. dir.retired[t] \in Files \cup {None}
        BY DEF TypeOK, Directories, Links
      <3> DEFINE live == [dir.live EXCEPT ![t] = dir.retired[t]]
                 retired == [dir.retired EXCEPT ![t] = None]
      <3>2. live \in Links /\ retired \in Links
        BY <3>1 DEF TypeOK, Directories, Links
      <3>3. dir' = [config |-> dir.config, live |-> live, retired |-> retired,
                    retiring |-> dir.retiring]
        BY <1>5, <2>1 DEF Undo, TypeOK, Directories
      <3> HIDE DEF live, retired
      <3>4. dir' \in Directories
        BY <3>2, <3>3 DEF TypeOK, Directories
      <3> QED
        BY <1>5, <2>1, <3>4 DEF Undo, Goto, TypeOK
    <2>2. CASE dir.live[t] # None
      BY <1>5, <2>2 DEF Undo, Goto, TypeOK
    <2> QED
      BY <2>1, <2>2
  <1>6. ASSUME NEW t \in Temps, Unlink(t) PROVE TypeOK'
    BY <1>6 DEF Unlink, Goto, TypeOK, Directories, Links
  <1>7. CASE Check
    BY <1>7 DEF Check, Goto, TypeOK, Links, Nobody
  <1>8. CASE Create
    BY <1>8, LinkKeeps DEF Create, Goto, TypeOK
  <1>9. CASE Write
    BY <1>9 DEF Write, Goto, TypeOK
  <1>10. CASE Replace
    BY <1>10 DEF Replace, Goto, TypeOK, Directories, Links
  <1>11. CASE GuardFails
    BY <1>11 DEF GuardFails, Fault, TypeOK, Directories, Links
  <1>12. CASE Kill
    BY <1>12 DEF Kill, Fault, TypeOK, Links, Nobody
  <1>13. CASE PowerLoss
    BY <1>13 DEF PowerLoss, Fault, TypeOK, Links, Nobody
  <1>14. CASE OlderPackage
    BY <1>14, LinkKeeps DEF OlderPackage, Fault, TypeOK
  <1>15. ASSUME NEW t \in Temps, Swap(t) PROVE TypeOK'
    BY <1>15, LinkKeeps DEF Swap, TypeOK
  <1>16. CASE WriteBack \/ UNCHANGED vars
    BY <1>16 DEF WriteBack, vars, TypeOK
  <1>17. CASE WriteBackFile
    BY <1>17 DEF WriteBackFile, Writing, TypeOK, Directories, Links
  <1> QED
    BY <1>1, <1>2, <1>3, <1>4, <1>5, <1>6, <1>7, <1>8, <1>9, <1>10, <1>11, <1>12,
       <1>13, <1>14, <1>15, <1>16, <1>17 DEF Next, PackageStep

(* What is published is whole and durable, and so is what was before.      *)
LEMMA ConfigStep == IInv /\ [Next]_vars => ConfigWhole'
  <1> SUFFICES ASSUME IInv, [Next]_vars PROVE ConfigWhole'
    OBVIOUS
  <1> USE ProxyAssumption DEF IInv
  <1>0. dir'.config = dir.config /\ UNCHANGED <<disk, kind, synced>> => ConfigWhole'
    BY DEF ConfigWhole
  <1>1. CASE Start \/ Stop \/ Validate \/ Moved \/ Check \/ Refuse \/ Up \/ Kill
             \/ UNCHANGED vars
    BY <1>1, <1>0 DEF Start, Stop, Validate, Moved, Check, Refuse, Up, Kill, Fault, Goto, vars
  <1>2. CASE MakeRetire \/ Undone \/ RemoveRetire \/ GuardFails
    BY <1>2, <1>0 DEF MakeRetire, Undone, RemoveRetire, GuardFails, Fault, Goto,
                      TypeOK, Directories
  <1>3. ASSUME NEW t \in Temps, Move(t) \/ Undo(t) \/ Unlink(t) PROVE ConfigWhole'
    BY <1>3, <1>0 DEF Move, Undo, Unlink, Goto, TypeOK, Directories
  <1>4. CASE Create
    BY <1>4, LinkKeeps DEF Create, Goto
  <1>5. CASE Write
    BY <1>5 DEF Write, Goto, ConfigWhole, TypeOK
  <1>6. CASE Replace
    BY <1>6 DEF Replace, Goto, ConfigWhole, Writing, TypeOK, Directories
  <1>7. CASE PowerLoss
    BY <1>7 DEF PowerLoss, Fault, ConfigWhole, TypeOK, Directories
  <1>8. CASE OlderPackage
    BY <1>8, LinkKeeps DEF OlderPackage, Fault
  <1>9. ASSUME NEW t \in Temps, Swap(t) PROVE ConfigWhole'
    BY <1>9, LinkKeeps DEF Swap
  <1>10. CASE WriteBack \/ WriteBackFile
    BY <1>10 DEF WriteBack, WriteBackFile, ConfigWhole
  <1> QED
    BY <1>1, <1>2, <1>3, <1>4, <1>5, <1>6, <1>7, <1>8, <1>9, <1>10
       DEF Next, PackageStep

(* The guard publishes the temporary that it has written.                  *)
LEMMA WritingStep == IInv /\ [Next]_vars => Writing'
  <1> SUFFICES ASSUME IInv, [Next]_vars PROVE Writing'
    OBVIOUS
  <1> USE ProxyAssumption DEF IInv
  <1>0. pc' \notin {"write", "publish"} => Writing'
    BY DEF Writing
  <1>1. CASE Start \/ Stop \/ Validate \/ MakeRetire \/ Undone \/ Moved \/ RemoveRetire
             \/ Check \/ Refuse \/ Replace \/ Up
    BY <1>1, <1>0 DEF Start, Stop, Validate, MakeRetire, Undone, Moved, RemoveRetire,
                      Check, Refuse, Replace, Up, Goto
  <1>2. ASSUME NEW t \in Temps, Move(t) \/ Undo(t) \/ Unlink(t) PROVE Writing'
    BY <1>2, <1>0 DEF Move, Undo, Unlink, Goto
  <1>3. CASE GuardFails \/ Kill \/ PowerLoss
    BY <1>3, <1>0 DEF GuardFails, Kill, PowerLoss
  <1>4. CASE OlderPackage
    BY <1>4, <1>0 DEF OlderPackage
  <1>5. ASSUME NEW t \in Temps, Swap(t) PROVE Writing'
    BY <1>5, <1>0 DEF Swap
  <1>6. CASE Create
    BY <1>6, LinkKeeps DEF Create, Goto, Writing
  <1>7. CASE Write
    BY <1>7 DEF Write, Goto, Writing, TypeOK, Directories, Links
  <1>8. CASE WriteBack \/ WriteBackFile \/ UNCHANGED vars
    BY <1>8 DEF WriteBack, WriteBackFile, vars, Writing
  <1> QED
    BY <1>1, <1>2, <1>3, <1>4, <1>5, <1>6, <1>7, <1>8 DEF Next, PackageStep

(* What is being unlinked was validated by this run.                       *)
LEMMA RetiredStep == IInv /\ [Next]_vars => Retired'
  <1> SUFFICES ASSUME IInv, [Next]_vars PROVE Retired'
    OBVIOUS
  <1> USE ProxyAssumption DEF IInv
  <1>0. pc' # "unlink" => Retired'
    BY DEF Retired
  <1>1. CASE Start \/ Stop \/ MakeRetire \/ Undone \/ RemoveRetire \/ Check \/ Refuse
             \/ Create \/ Write \/ Replace \/ Up
    BY <1>1, <1>0 DEF Start, Stop, MakeRetire, Undone, RemoveRetire, Check, Refuse,
                      Create, Write, Replace, Up, Goto
  <1>2. CASE Validate
    BY <1>2 DEF Validate, Goto, Retired, Nobody, TypeOK, Directories, Links
  <1>3. CASE Moved
    BY <1>3 DEF Moved, Goto, Retired
  <1>4. ASSUME NEW t \in Temps, Move(t) \/ Undo(t) PROVE Retired'
    BY <1>4, <1>0 DEF Move, Undo, Goto
  <1>5. ASSUME NEW t \in Temps, Unlink(t) PROVE Retired'
    BY <1>5 DEF Unlink, Goto, Retired, TypeOK, Directories, Links
  <1>6. CASE GuardFails \/ Kill \/ PowerLoss \/ OlderPackage
    BY <1>6, <1>0 DEF GuardFails, Kill, PowerLoss, OlderPackage
  <1>7. ASSUME NEW t \in Temps, Swap(t) PROVE Retired'
    BY <1>7, <1>0 DEF Swap
  <1>8. CASE WriteBack \/ WriteBackFile \/ UNCHANGED vars
    BY <1>8 DEF WriteBack, WriteBackFile, vars, Retired
  <1> QED
    BY <1>1, <1>2, <1>3, <1>4, <1>5, <1>6, <1>7, <1>8 DEF Next, PackageStep

-----------------------------------------------------------------------------
(* The invariant holds in every reachable state. *)
THEOREM Invariance == Spec => []IInv
  <1>1. IInv /\ [Next]_vars => IInv'
    BY TypeStep, ConfigStep, WritingStep, RetiredStep DEF IInv
  <1> QED
    BY InitIInv, <1>1, PTL DEF Spec

(* Every variable keeps its type. *)
THEOREM TypeCorrect == Spec => []TypeOK
  <1>1. IInv => TypeOK
    BY DEF IInv
  <1> QED
    BY Invariance, <1>1, PTL

(* The configuration that is read, or that a power loss would leave, is the *)
(* whole one and durable, however the publication was interrupted.          *)
THEOREM PublishedWhole == Spec => []ConfigWhole
  <1>1. IInv => ConfigWhole
    BY DEF IInv
  <1> QED
    BY Invariance, <1>1, PTL

(* What disappears from the directory between two states of a step.        *)
Gone == Present(dir) \ Present(dir')
Justified(f) ==
    \/ pc = "unlink" /\ f \in Values(held)
    \/ pc = "publish" /\ f = dir.config
    \/ faults' # faults \/ swaps' # swaps

(* A step that removes anything removes what this run validated, the old   *)
(* configuration, or is a fault or a swap.                                 *)
LEMMA GoneStep == IInv /\ [Next]_vars => \A f \in Gone : Justified(f)
  <1> SUFFICES ASSUME IInv, [Next]_vars, NEW f \in Gone PROVE Justified(f)
    OBVIOUS
  <1> USE ProxyAssumption DEF IInv
  <1>0. ~UNCHANGED dir
    BY DEF Gone
  <1>1. CASE Start \/ Stop \/ Validate \/ Moved \/ Check \/ Refuse \/ Write \/ Up
             \/ WriteBack \/ WriteBackFile \/ UNCHANGED vars
    BY <1>0, <1>1 DEF Start, Stop, Validate, Moved, Check, Refuse, Write, Up,
                      WriteBack, WriteBackFile, vars
  <1>2. CASE MakeRetire \/ Undone \/ RemoveRetire
    <2>1. /\ dir'.live = dir.live /\ dir'.retired = dir.retired
          /\ dir'.config = dir.config
      BY <1>2 DEF MakeRetire, Undone, RemoveRetire, TypeOK, Directories
    <2> QED
      BY <2>1 DEF Gone, Present
  <1>3. ASSUME NEW t \in Temps, Move(t) PROVE FALSE
    BY <1>3 DEF Move, Waiting, Gone, Present, Values, TypeOK, Directories, Links
  <1>4. ASSUME NEW t \in Temps, Undo(t) PROVE FALSE
    <2>1. dir.live[t] = None
      BY <1>0, <1>4 DEF Undo
    <2>2. /\ dir'.live = [dir.live EXCEPT ![t] = dir.retired[t]]
          /\ dir'.retired = [dir.retired EXCEPT ![t] = None]
          /\ dir'.config = dir.config
      BY <1>4, <2>1 DEF Undo, TypeOK, Directories
    <2>3. dir.live \in Links /\ dir.retired \in Links
      BY DEF TypeOK, Directories
    <2>4. Values(dir.live) \cup Values(dir.retired)
            \subseteq Values(dir'.live) \cup Values(dir'.retired)
      BY <2>1, <2>2, <2>3 DEF Values, Links
    <2> QED
      BY <2>2, <2>4 DEF Gone, Present
  <1>5. ASSUME NEW t \in Temps, Unlink(t) PROVE Justified(f)
    <2>1. pc = "unlink" /\ f = dir.retired[t] /\ f # None
      BY <1>5 DEF Unlink, Goto, Gone, Present, Values, TypeOK, Directories, Links
    <2>2. f = held[t]
      BY <2>1 DEF Retired
    <2> QED
      BY <2>1, <2>2 DEF Justified, Values, TypeOK, Links
  <1>6. CASE Create
    BY <1>6, LinkKeeps DEF Create, Gone
  <1>7. CASE Replace
    BY <1>7 DEF Replace, Goto, Gone, Justified, Present, Values, TypeOK, Directories, Links
  <1>8. CASE GuardFails \/ Kill \/ PowerLoss \/ OlderPackage
    BY <1>8 DEF GuardFails, Kill, PowerLoss, OlderPackage, Fault, TypeOK, Justified
  <1>9. ASSUME NEW t \in Temps, Swap(t) PROVE Justified(f)
    BY <1>9 DEF Swap, TypeOK, Justified
  <1> QED
    BY <1>1, <1>2, <1>3, <1>4, <1>5, <1>6, <1>7, <1>8, <1>9 DEF Next, PackageStep

(* The migrator removes nothing that it did not validate itself, whatever   *)
(* is put in the way while it works.                                       *)
THEOREM RemovesValidated == Spec => OnlyValidatedRemoved
  <1>1. IInv /\ [Next]_vars =>
          [\A f \in Present(dir) \ Present(dir') :
             \/ pc = "unlink" /\ f \in Values(held)
             \/ pc = "publish" /\ f = dir.config
             \/ faults' # faults \/ swaps' # swaps]_vars
    BY GoneStep DEF Gone, Justified
  <1> QED
    BY Invariance, <1>1, PTL DEF Spec, OnlyValidatedRemoved

-----------------------------------------------------------------------------
(* What the migrator validated is under its name or retired as long as     *)
(* nobody replaces it; what is retired is always what was validated; and   *)
(* what is left at the end came from a replacement.                        *)
Orderly ==
    /\ pc \in {"move", "made"} => \A t \in Temps : dir.retired[t] \in {None, held[t]}
    /\ pc \in {"move", "made"} /\ swaps = 0 =>
         \A t \in Temps : {dir.live[t], dir.retired[t]} = {held[t], None}
    /\ pc \in {"undo", "undone"} => swaps > 0
    /\ pc \in {"unlink", "removed", "check"} /\ swaps = 0 => dir.live = Nobody
    /\ pc \in {"removed", "check"} => ~dir.retiring

(* Every step keeps it. *)
LEMMA OrderlyStep ==
  ASSUME IInv, IInv', Orderly, [Next]_vars
  PROVE  Orderly'
<1> USE ProxyAssumption DEF Orderly
<1>1. /\ dir \in Directories /\ dir' \in Directories /\ held \in Links
      /\ swaps \in Nat /\ swaps' \in Nat
  BY DEF IInv, TypeOK
<1>0. pc' \in {"off", "retire", "guard", "write", "publish", "published", "up"} => Orderly'
  OBVIOUS
<1>2. CASE Start \/ Stop \/ Refuse \/ Check \/ Create \/ Write \/ Replace \/ Up \/ Undone
           \/ GuardFails \/ Kill \/ PowerLoss \/ OlderPackage
  BY <1>2, <1>0 DEF Start, Stop, Refuse, Check, Create, Write, Replace, Up, Undone,
     GuardFails, Kill, PowerLoss, OlderPackage, Goto
<1>3. CASE Validate
  <2>1. /\ pc' \in {"unlink", "move"} /\ UNCHANGED <<dir, swaps>>
        /\ pc' = "unlink" => dir.live = Nobody
    BY <1>3 DEF Validate, Goto
  <2>2. ASSUME NEW t \in Temps
        PROVE  /\ dir.retired[t] \in {None, held'[t]}
               /\ {dir.live[t], dir.retired[t]} = {held'[t], None}
    BY <1>3 DEF Validate, Twice
  <2> QED BY <2>1, <2>2
<1>4. CASE MakeRetire
  BY <1>1, <1>4 DEF MakeRetire, Goto, Directories
<1>5. ASSUME NEW t \in Temps, Move(t) PROVE Orderly'
  <2>1. /\ pc \in {"move", "made"} /\ UNCHANGED <<held, swaps>>
        /\ held[t] # None /\ dir.retired[t] = None
        /\ pc' = IF dir.live[t] = held[t] THEN "move" ELSE "undo"
        /\ dir'.live = [dir.live EXCEPT ![t] = None]
        /\ dir'.retired = [dir.retired EXCEPT ![t] = dir.live[t]]
    BY <1>1, <1>5 DEF Move, Goto, Waiting, Directories
  <2>2. dir.live \in Links /\ dir.retired \in Links BY <1>1 DEF Directories
  <2>3. swaps = 0 => dir.live[t] = held[t]
    BY <2>1
  <2>4. CASE dir.live[t] = held[t]
    BY <2>1, <2>2, <2>4 DEF Links
  <2>5. CASE dir.live[t] # held[t]
    BY <1>1, <2>1, <2>3, <2>5
  <2> QED BY <2>4, <2>5
<1>6. ASSUME NEW t \in Temps, Undo(t) PROVE Orderly'
  BY <1>0, <1>6 DEF Undo, Goto
<1>7. CASE Moved
  <2>1. ASSUME swaps = 0, NEW t \in Temps PROVE dir.live[t] = None
    BY <1>7, <2>1 DEF Moved, Goto, Waiting
  <2>2. swaps = 0 => dir.live = Nobody
    BY <1>1, <2>1 DEF Nobody, Directories, Links
  <2> QED BY <1>7, <2>2 DEF Moved, Goto
<1>8. ASSUME NEW t \in Temps, Unlink(t) PROVE Orderly'
  BY <1>1, <1>8 DEF Unlink, Goto, Directories
<1>9. CASE RemoveRetire
  BY <1>1, <1>9 DEF RemoveRetire, Goto, Directories
<1>10. ASSUME NEW t \in Temps, Swap(t) PROVE Orderly'
  <2>1. dir'.retired = dir.retired /\ swaps' > 0 /\ UNCHANGED <<pc, held>>
        /\ pc \in {"move", "made", "undo"}
    BY <1>1, <1>10, LinkKeeps DEF Swap, IInv
  <2> QED BY <2>1
<1>11. CASE WriteBack \/ WriteBackFile
  BY <1>11 DEF WriteBack, WriteBackFile
<1>12. CASE UNCHANGED vars
  BY <1>12 DEF vars
<1> QED
  BY <1>2, <1>3, <1>4, <1>5, <1>6, <1>7, <1>8, <1>9, <1>10, <1>11, <1>12
     DEF Next, PackageStep

(* It holds throughout. *)
LEMMA OrderlyInvariance == Spec => []Orderly
<1>1. Init => Orderly
  BY DEF Init, Orderly
<1> QED
  BY <1>1, OrderlyStep, Invariance, PTL DEF Spec

(* A start ends early only for a cause: a failure or a kill in this step,  *)
(* an entry that is not trusted or is both live and retired, or an entry   *)
(* that somebody put in the way while the temporaries were retired.  What  *)
(* an interrupted start leaves is never one unless somebody adds to it.    *)
RefusesForCause ==
    [][pc \notin {"off", "up"} /\ pc' = "off" =>
         \/ faults' # faults
         \/ pc = "retire" /\ (Untrusted \/ Twice)
         \/ swaps > 0 /\ (pc \in {"undo", "undone"} \/ dir.live # Nobody)]_vars

(* Without a fault a start ends in Refuse or after an undo, and these have one. *)
THEOREM StartsUnlessCaused == Spec => RefusesForCause
<1> DEFINE A == pc \notin {"off", "up"} /\ pc' = "off" =>
                  \/ faults' # faults
                  \/ pc = "retire" /\ (Untrusted \/ Twice)
                  \/ swaps > 0 /\ (pc \in {"undo", "undone"} \/ dir.live # Nobody)
<1>1. ASSUME IInv, Orderly, [Next]_vars PROVE [A]_vars
  <2> SUFFICES ASSUME Next, pc \notin {"off", "up"}, pc' = "off", UNCHANGED faults
               PROVE  \/ pc = "retire" /\ (Untrusted \/ Twice)
                      \/ swaps > 0 /\ (pc \in {"undo", "undone"} \/ dir.live # Nobody)
    BY <1>1
  <2>1. ~Fault BY <1>1 DEF Fault, IInv, TypeOK
  <2>2. swaps \in Nat BY <1>1, ProxyAssumption DEF IInv, TypeOK
  <2>3. Refuse \/ Undone \/ \E t \in Temps : Undo(t)
    BY <2>1 DEF Next, PackageStep, Start, Stop, Validate, MakeRetire, Moved, RemoveRetire,
       Move, Unlink, Check, Create, Write, Replace, Up, GuardFails, Kill, PowerLoss,
       OlderPackage, Swap, WriteBack, WriteBackFile, Goto
  <2>4. CASE Undone \/ \E t \in Temps : Undo(t)
    BY <1>1, <2>4 DEF Undone, Undo, Goto, Orderly
  <2>5. CASE Refuse
    <3>1. CASE pc = "retire"
      BY <2>5, <3>1 DEF Refuse
    <3>2. CASE pc = "move" /\ Waiting = {} /\ dir.retired # held
      <4>1. ASSUME NEW t \in Temps PROVE dir.retired[t] = held[t]
        BY <1>1, <3>2 DEF Orderly, Waiting
      <4>2. dir.retired \in Links /\ held \in Links
        BY <1>1 DEF IInv, TypeOK, Directories
      <4> QED BY <3>2, <4>1, <4>2 DEF Links
    <3>3. CASE pc \in {"check", "removed"} /\ ~Valid
      <4>1. dir.live # Nobody
        BY <1>1, <3>3 DEF Orderly, Valid, IInv, ConfigWhole
      <4> QED BY <1>1, <2>2, <3>3, <4>1 DEF Orderly
    <3> QED BY <2>5, <3>1, <3>2, <3>3 DEF Refuse
  <2> QED BY <2>3, <2>4, <2>5
<1> QED
  BY <1>1, Invariance, OrderlyInvariance, PTL DEF Spec, RefusesForCause
=============================================================================
