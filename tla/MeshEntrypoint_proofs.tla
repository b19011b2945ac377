------------------------ MODULE MeshEntrypoint_proofs ------------------------
(***************************************************************************)
(* Proofs about the Mesh sidecar, for every set of entries and every       *)
(* number of changes and faults.                                           *)
(*                                                                         *)
(* The argument rests on the order of the nodes: the file only moves on to *)
(* newer nodes, so that whatever the script has read, recorded or let the  *)
(* connector register is not newer than what the file names now (Older).   *)
(* The token is read after the node id, hence belongs to the same node or  *)
(* to a newer one; and when the script finds the identity that it has just *)
(* read, the state cannot hold a newer node (Control).  What it saw of     *)
(* another node stays true until it acts on it (LookedAt, at the end).     *)
(***************************************************************************)
EXTENDS MeshEntrypoint, TLAPS

Paired ==
    /\ last <= changes + 1
    /\ file.id <= last /\ NodeOf(file.token) <= last
    /\ file.id # 0 /\ file.token # NoToken => NodeOf(file.token) = file.id

(* Node n is not newer than what the file names.                           *)
NotNewer(n) ==
    /\ n <= last
    /\ file.id # 0 => n <= file.id
    /\ file.token # NoToken => n <= NodeOf(file.token)
Older ==
    /\ NotNewer(nodeId) /\ NotNewer(NodeOf(token))
    /\ \A e \in Entries : NotNewer(state[e])

Control ==
    /\ child # NoToken => pc \in {"look", "compare"} /\ child = token
    /\ pc \in {"start", "clear", "launch", "look", "compare"} =>
         nodeId # 0 /\ token # NoToken /\ nodeId <= NodeOf(token)
    /\ pc \in {"launch", "look", "compare"} => identity = nodeId
    /\ pc \in {"readToken", "start", "clear", "launch"} /\ nodeId # 0 =>
         \A e \in Entries : state[e] <= nodeId
    /\ pc \in {"look", "compare"} =>
         \A e \in Entries : state[e] \in {0, nodeId, NodeOf(token)}

(* The inductive invariant. *)
IInv == TypeOK /\ Paired /\ Older /\ Control /\ NotInherited

-----------------------------------------------------------------------------
(* A token determines its node, and only NoToken has node 0.               *)
LEMMA TokenNodes ==
    ASSUME NEW t \in Tokens \cup {NoToken}
    PROVE  /\ NodeOf(t) \in Nodes \cup {0}
           /\ t = NoToken <=> NodeOf(t) = 0
  BY MeshAssumption DEF Tokens, NoToken, NodeOf, Nodes

(* Nodes are numbers: what the types say of the nodes.                      *)
LEMMA Numbers ==
    ASSUME TypeOK
    PROVE  /\ nodeId \in Nat /\ identity \in Nat /\ last \in Nat /\ file.id \in Nat
           /\ changes \in Nat
           /\ NodeOf(token) \in Nat /\ NodeOf(file.token) \in Nat
           /\ NodeOf(child) \in Nat
           /\ \A e \in Entries : state[e] \in Nat
           /\ token = NoToken <=> NodeOf(token) = 0
           /\ file.token = NoToken <=> NodeOf(file.token) = 0
           /\ child = NoToken <=> NodeOf(child) = 0
  BY MeshAssumption, TokenNodes DEF TypeOK, Nodes

LEMMA InitIInv == Init => IInv
  <1> SUFFICES ASSUME Init PROVE IInv
    OBVIOUS
  <1> USE MeshAssumption DEF Init
  <1>1. TypeOK
    BY DEF TypeOK, Nodes, Tokens, NoToken, Missing
  <1>2. Paired /\ Older /\ Control /\ NotInherited
    BY <1>1, Numbers DEF Paired, Older, NotNewer, Control, NotInherited, NoToken,
                    NodeOf, Missing
  <1> QED
    BY <1>1, <1>2 DEF IInv

-----------------------------------------------------------------------------
(* Type correctness of each step.                                          *)
LEMMA TypeStep == TypeOK /\ Paired /\ [Next]_vars => TypeOK'
  <1> SUFFICES ASSUME TypeOK, Paired, [Next]_vars PROVE TypeOK'
    OBVIOUS
  <1> USE MeshAssumption
  <1>1. CASE ReadId
    BY <1>1 DEF TypeOK, ReadId, Goto, outside
  <1>2. CASE ReadToken
    BY <1>2 DEF TypeOK, ReadToken, Goto, outside
  <1>3. CASE Start
    BY <1>3 DEF TypeOK, Start, Goto, outside
  <1>4. CASE Clear
    BY <1>4 DEF TypeOK, Clear, Goto, outside
  <1>5. CASE Record
    BY <1>5 DEF TypeOK, Record, Goto, outside
  <1>6. CASE Launch
    BY <1>6 DEF TypeOK, Launch, Goto, outside
  <1>7. CASE Look
    BY <1>7 DEF TypeOK, Look, Goto, outside
  <1>8. CASE Compare
    BY <1>8 DEF TypeOK, Compare, Goto, outside
  <1>9. CASE Withdrawn \/ Exit \/ PackageStart
    BY <1>9 DEF TypeOK, Withdrawn, Exit, PackageStart, Goto, outside
  <1>10. CASE Restart
    BY <1>10 DEF TypeOK, Restart, Goto, outside
  <1>11. CASE Register
    BY <1>11, TokenNodes DEF TypeOK, Register, outside
  <1>12. CASE ChildExits \/ Kill
    BY <1>12 DEF TypeOK, ChildExits, Kill, outside
  <1>13. CASE ReplaceNode
    <2>1. last + 1 \in Nodes
      BY <1>13, Numbers DEF Paired, ReplaceNode, Change, TypeOK, Nodes
    <2>2. [id |-> last + 1, token |-> <<last + 1, 1>>]
             \in [id : Nodes \cup {0}, token : Tokens \cup {NoToken}]
      BY <2>1 DEF Tokens
    <2> QED
      BY <1>13, <2>1, <2>2 DEF TypeOK, ReplaceNode, Change
  <1>14. CASE RotateToken
    <2>1. [id |-> file.id, token |-> <<NodeOf(file.token), 2>>]
             \in [id : Nodes \cup {0}, token : Tokens \cup {NoToken}]
      BY <1>14, TokenNodes DEF RotateToken, Complete, TypeOK, Tokens
    <2> QED
      BY <1>14, <2>1 DEF TypeOK, RotateToken, Change
  <1>15. CASE WithdrawNode
    BY <1>15 DEF TypeOK, WithdrawNode, Change, Missing
  <1>16. CASE CompleteFile
    <2> SUFFICES ASSUME NEW k \in {1, 2}, Change([id |-> last, token |-> <<last, k>>]),
                        UNCHANGED last
                 PROVE  TypeOK'
      BY <1>16 DEF CompleteFile
    <2>1. [id |-> last, token |-> <<last, k>>]
             \in [id : Nodes \cup {0}, token : Tokens \cup {NoToken}]
      BY DEF TypeOK, Tokens
    <2> QED
      BY <2>1 DEF TypeOK, Change
  <1>17. CASE UNCHANGED vars
    BY <1>17 DEF TypeOK, vars, outside
  <1> QED
    BY <1>1, <1>2, <1>3, <1>4, <1>5, <1>6, <1>7, <1>8, <1>9, <1>10, <1>11,
       <1>12, <1>13, <1>14, <1>15, <1>16, <1>17 DEF Next, Entrypoint

(* The file moves on to newer nodes only.  A step of the script, of the     *)
(* connector or a kill leaves it alone.                                    *)
Quiet == Entrypoint \/ Register \/ ChildExits \/ Kill \/ PackageStart \/ UNCHANGED vars
LEMMA QuietFile == Quiet => UNCHANGED outside
  BY DEF Quiet, Entrypoint, ReadId, ReadToken, Start, Clear, Record, Launch, Look,
         Compare, Withdrawn, Exit, Restart, Goto, Register, ChildExits, Kill,
         PackageStart, vars, outside

(* The file names one node, and none that is newer than the last.          *)
LEMMA PairedStep == TypeOK /\ Paired /\ [Next]_vars => Paired'
  <1> SUFFICES ASSUME TypeOK, Paired, [Next]_vars PROVE Paired'
    OBVIOUS
  <1>1. CASE Quiet
    BY <1>1, QuietFile DEF Paired, outside
  <1>2. CASE ReplaceNode
    BY <1>2, Numbers DEF Paired, ReplaceNode, Change, NodeOf
  <1>3. CASE RotateToken
    BY <1>3, Numbers DEF Paired, RotateToken, Complete, Change, NodeOf
  <1>4. CASE WithdrawNode
    BY <1>4, Numbers DEF Paired, WithdrawNode, Change, NodeOf, Missing, NoToken
  <1>5. CASE CompleteFile
    BY <1>5, Numbers DEF Paired, CompleteFile, Change, NodeOf
  <1> QED
    BY <1>1, <1>2, <1>3, <1>4, <1>5 DEF Next, Quiet

(* A node that is not newer than the file stays so.                        *)
LEMMA NotNewerStays ==
    ASSUME TypeOK, Paired, [Next]_vars, NEW n \in Nat, NotNewer(n)
    PROVE  /\ n <= last'
           /\ file'.id # 0 => n <= file'.id
           /\ file'.token # NoToken => n <= NodeOf(file'.token)
  <1>1. CASE Quiet
    BY <1>1, QuietFile DEF NotNewer, outside
  <1>2. CASE ReplaceNode
    BY <1>2, Numbers DEF NotNewer, Paired, ReplaceNode, Change, NodeOf
  <1>3. CASE RotateToken
    BY <1>3, Numbers DEF NotNewer, RotateToken, Complete, Change, NodeOf
  <1>4. CASE WithdrawNode
    BY <1>4, Numbers DEF NotNewer, WithdrawNode, Change, NodeOf, Missing, NoToken
  <1>5. CASE CompleteFile
    BY <1>5, Numbers DEF NotNewer, CompleteFile, Change, NodeOf
  <1> QED
    BY <1>1, <1>2, <1>3, <1>4, <1>5 DEF Next, Quiet

(* What is read, recorded or registered is not newer than the file.        *)
LEMMA OlderStep == TypeOK /\ Paired /\ Older /\ Control /\ [Next]_vars => Older'
  <1> SUFFICES ASSUME TypeOK, Paired, Older, Control, [Next]_vars PROVE Older'
    OBVIOUS
  <1>n. nodeId \in Nat /\ NodeOf(token) \in Nat /\ \A e \in Entries : state[e] \in Nat
    BY Numbers
  <1>0. UNCHANGED <<nodeId, token, state>> => Older'
    BY <1>n, NotNewerStays DEF Older, NotNewer
  <1>1. CASE ReadId
    BY <1>1, <1>n, Numbers DEF ReadId, Goto, outside, Older, NotNewer, Paired
  <1>2. CASE ReadToken
    BY <1>2, <1>n, Numbers DEF ReadToken, Goto, outside, Older, NotNewer, Paired
  <1>3. CASE Clear
    BY <1>3, <1>n, Numbers DEF Clear, Goto, outside, Older, NotNewer, Paired, TypeOK
  <1>4. CASE Restart
    BY <1>4, <1>n, Numbers DEF Restart, Goto, outside, Older, NotNewer, NodeOf, NoToken
  <1>5. CASE Register
    BY <1>5, <1>n, Numbers DEF Register, outside, Older, NotNewer, TypeOK, Control
  <1>6. CASE Start \/ Record \/ Launch \/ Look \/ Compare \/ Withdrawn \/ Exit \/ PackageStart
    BY <1>6, <1>0 DEF Start, Record, Launch, Look, Compare, Withdrawn, Exit, PackageStart, Goto
  <1>7. CASE ChildExits \/ Kill \/ UNCHANGED vars
    BY <1>7, <1>0 DEF ChildExits, Kill, vars
  <1>8. CASE ReplaceNode \/ RotateToken \/ WithdrawNode \/ CompleteFile
    BY <1>8, <1>0 DEF ReplaceNode, RotateToken, WithdrawNode, CompleteFile, Change
  <1> QED
    BY <1>1, <1>2, <1>3, <1>4, <1>5, <1>6, <1>7, <1>8 DEF Next, Entrypoint

(* The state that the connector is started on is of the node just read.    *)
LEMMA ControlStep == IInv /\ [Next]_vars => Control'
  <1> SUFFICES ASSUME IInv, [Next]_vars PROVE Control'
    OBVIOUS
  <1> USE DEF IInv
  <1>n. /\ nodeId \in Nat /\ identity \in Nat /\ file.id \in Nat
        /\ NodeOf(token) \in Nat /\ NodeOf(file.token) \in Nat
        /\ \A e \in Entries : state[e] \in Nat
    BY Numbers
  <1>1. CASE ReadId
    BY <1>1, <1>n DEF ReadId, Goto, Control, Older, NotNewer
  <1>2. CASE ReadToken
    BY <1>2, <1>n, Numbers DEF ReadToken, Goto, Control, Older, NotNewer, Paired
  <1>3. CASE Start
    BY <1>3, <1>n DEF Start, Goto, Control
  <1>4. CASE Clear
    BY <1>4, <1>n DEF Clear, Goto, Control, TypeOK
  <1>5. CASE Record
    BY <1>5, <1>n DEF Record, Goto, Control
  <1>6. CASE Launch
    BY <1>6, <1>n DEF Launch, Goto, Control, NotInherited
  <1>7. CASE Look \/ Compare
    BY <1>7, <1>n DEF Look, Compare, Goto, Control
  <1>8. CASE Withdrawn \/ Exit \/ Restart \/ PackageStart
    BY <1>8, <1>n DEF Withdrawn, Exit, Restart, PackageStart, Goto, Control
  <1>9. CASE Register
    BY <1>9, <1>n DEF Register, Control, TypeOK
  <1>10. CASE ChildExits \/ Kill \/ UNCHANGED vars
    BY <1>10 DEF ChildExits, Kill, vars, Control
  <1>11. CASE ReplaceNode \/ RotateToken \/ WithdrawNode \/ CompleteFile
    BY <1>11 DEF ReplaceNode, RotateToken, WithdrawNode, CompleteFile, Change, Control
  <1> QED
    BY <1>1, <1>2, <1>3, <1>4, <1>5, <1>6, <1>7, <1>8, <1>9, <1>10, <1>11
       DEF Next, Entrypoint

(* The clearing ends before the identity is recorded, and a connector only  *)
(* registers a node that is not older than the recorded one.                *)
LEMMA NotInheritedStep == IInv /\ [Next]_vars => NotInherited'
  <1> SUFFICES ASSUME IInv, [Next]_vars PROVE NotInherited'
    OBVIOUS
  <1> USE DEF IInv
  <1>n. /\ identity \in Nat /\ nodeId \in Nat /\ NodeOf(token) \in Nat
        /\ \A e \in Entries : state[e] \in Nat
    BY Numbers
  <1>0. UNCHANGED <<identity, state>> => NotInherited'
    BY DEF NotInherited
  <1>1. CASE Clear
    BY <1>1, <1>n DEF Clear, TypeOK, NotInherited
  <1>2. CASE Record
    BY <1>2 DEF Record, Cleared, NotInherited
  <1>3. CASE Register
    BY <1>3, <1>n DEF Register, TypeOK, NotInherited, Control
  <1>4. CASE ReadId \/ ReadToken \/ Start \/ Launch \/ Look \/ Compare \/ Withdrawn
             \/ Exit \/ Restart \/ PackageStart
    BY <1>4, <1>0 DEF ReadId, ReadToken, Start, Launch, Look, Compare, Withdrawn,
                      Exit, Restart, PackageStart
  <1>5. CASE ChildExits \/ Kill \/ UNCHANGED vars
    BY <1>5, <1>0 DEF ChildExits, Kill, vars
  <1>6. CASE ReplaceNode \/ RotateToken \/ WithdrawNode \/ CompleteFile
    BY <1>6, <1>0 DEF ReplaceNode, RotateToken, WithdrawNode, CompleteFile, Change
  <1> QED
    BY <1>1, <1>2, <1>3, <1>4, <1>5, <1>6 DEF Next, Entrypoint

-----------------------------------------------------------------------------
(* The invariant holds in every reachable state. *)
THEOREM Invariance == Spec => []IInv
  <1>1. IInv /\ [Next]_vars => IInv'
    <2> SUFFICES ASSUME IInv, [Next]_vars PROVE IInv'
      OBVIOUS
    <2>1. TypeOK' /\ Paired'
      BY TypeStep, PairedStep DEF IInv
    <2>2. Older' /\ Control' /\ NotInherited'
      BY OlderStep, ControlStep, NotInheritedStep DEF IInv
    <2> QED
      BY <2>1, <2>2 DEF IInv
  <1> QED
    BY InitIInv, <1>1, PTL DEF Spec

(* Every variable keeps its type. *)
THEOREM TypeCorrect == Spec => []TypeOK
  <1>1. IInv => TypeOK
    BY DEF IInv
  <1> QED
    BY Invariance, <1>1, PTL

(* Wherever a kill interrupts the clearing of STATE_DIR and whatever        *)
(* happens to TOKEN_FILE meanwhile, a recorded node never inherits the      *)
(* registration of an earlier one.                                         *)
THEOREM NeverInherits == Spec => []NotInherited
  <1>1. IInv => NotInherited
    BY DEF IInv
  <1> QED
    BY Invariance, <1>1, PTL

(* OwnState is violated: the id and the token come from two looks.  What   *)
(* holds is that a running connector finds no state but that of the node   *)
(* that was read for it, which is also the recorded one, or of its token.  *)
StateOfPair ==
    child # NoToken =>
      /\ identity = nodeId
      /\ \A e \in Entries : state[e] \in {0, nodeId, NodeOf(child)}

THEOREM RunsOnStateOfPair == Spec => []StateOfPair
  <1>1. IInv => StateOfPair
    BY DEF IInv, Control, StateOfPair
  <1> QED
    BY Invariance, <1>1, PTL

-----------------------------------------------------------------------------
(* When the script saw the id of another node, the file does not name the  *)
(* node of its token any more: it never comes back to an earlier node.  An  *)
(* id that was missing may have been completed since.                      *)
LookedAt ==
    pc = "compare" /\ current \notin {0, nodeId} => file.id # nodeId /\ nodeId < last

(* Every step keeps it. *)
LEMMA LookedAtStep ==
  ASSUME IInv, LookedAt, [Next]_vars
  PROVE  LookedAt'
<1> USE MeshAssumption DEF LookedAt, outside, Goto
<1>1. CASE ReadId \/ ReadToken \/ Start \/ Clear \/ Record \/ Launch \/ Compare
           \/ Withdrawn \/ Exit \/ Restart \/ Kill \/ PackageStart
  BY <1>1 DEF ReadId, ReadToken, Start, Clear, Record, Launch, Compare, Withdrawn, Exit,
     Restart, Kill, PackageStart
<1>2. CASE Look
  BY <1>2, Numbers DEF Look, IInv, Older, NotNewer, Paired
<1>3. CASE Register \/ ChildExits
  BY <1>3 DEF Register, ChildExits
<1>4. CASE ReplaceNode
  BY <1>4, Numbers DEF ReplaceNode, Change, IInv, Older, NotNewer
<1>5. CASE RotateToken
  BY <1>5 DEF RotateToken, Change
<1>6. CASE WithdrawNode
  BY <1>6 DEF WithdrawNode, Change, Missing, IInv, Control
<1>7. CASE CompleteFile
  BY <1>7, Numbers DEF CompleteFile, Change, IInv
<1>8. CASE UNCHANGED vars
  BY <1>8 DEF vars
<1> QED
  BY <1>1, <1>2, <1>3, <1>4, <1>5, <1>6, <1>7, <1>8 DEF Next, Entrypoint

(* It holds throughout. *)
LEMMA LookedAtInvariance == Spec => []LookedAt
<1>1. Init => LookedAt
  BY DEF Init, LookedAt
<1> QED
  BY <1>1, LookedAtStep, Invariance, PTL DEF Spec

(* What the connector runs with is what the script compares, and what it    *)
(* saw of another node stays true: a connector is stopped only when the    *)
(* file does not name it.                                                  *)
THEOREM StopsOutdated == Spec => StopsOnlyOutdated
<1> DEFINE A == pc = "compare" /\ pc' = "withdraw" /\ child # NoToken =>
                  (file # [id |-> nodeId, token |-> child] \/ current = 0)
<1>1. ASSUME IInv, LookedAt, [Next]_vars PROVE [A]_vars
  <2> SUFFICES ASSUME Next, pc = "compare", pc' = "withdraw", child # NoToken,
                      file = [id |-> nodeId, token |-> child], current # 0
               PROVE  FALSE
    BY <1>1
  <2>1. Compare
    BY DEF Next, Entrypoint, ReadId, ReadToken, Start, Clear, Record, Launch, Look,
       Withdrawn, Exit, Restart, Register, ChildExits, Kill, PackageStart, ReplaceNode,
       RotateToken, WithdrawNode, CompleteFile, Change, Goto
  <2>2. ~Same BY <2>1 DEF Compare, Goto
  <2>3. child = token BY <1>1 DEF IInv, Control
  <2> QED BY <1>1, <2>2, <2>3 DEF LookedAt, Same
<1> QED
  BY <1>1, Invariance, LookedAtInvariance, PTL DEF Spec, StopsOnlyOutdated

(* A connector that runs with what the file says, on state of its node,    *)
(* stays: while the file is as it is and nothing fails, no step of the     *)
(* script or of the connector takes it away, unless the script is about to *)
(* compare with a missing id that it read before the file was completed.   *)
(* With it the liveness property asks no more than to come there once.     *)
StaysSettled ==
    [][Complete(file) /\ Settled /\ UNCHANGED <<file, faults>> =>
         Settled' \/ (pc = "compare" /\ current = 0)]_vars

(* Only the connector and the two looks take steps, and they change nothing. *)
THEOREM SettledStays == Spec => StaysSettled
<1> DEFINE A == Complete(file) /\ Settled /\ UNCHANGED <<file, faults>> =>
                  (Settled' \/ (pc = "compare" /\ current = 0))
<1>1. ASSUME IInv, LookedAt, [Next]_vars PROVE [A]_vars
  <2> SUFFICES ASSUME Next, Complete(file), Settled, UNCHANGED <<file, faults>>,
                      ~(pc = "compare" /\ current = 0)
               PROVE  Settled'
    BY <1>1
  <2>1. /\ child = file.token /\ child # NoToken /\ identity = file.id
        /\ \A e \in Entries : state[e] \in {0, file.id}
    BY DEF Settled, Complete
  <2>2. /\ pc \in {"look", "compare"} /\ child = token /\ identity = nodeId
        /\ NodeOf(child) = file.id
    BY <1>1, <2>1 DEF IInv, Control, Paired, Complete
  <2>3. SUFFICES /\ child' = child /\ identity' = identity
                 /\ \A e \in Entries : state'[e] \in {0, file.id}
    BY <2>1 DEF Settled, Complete
  <2>4. CASE Register
    BY <1>1, <2>1, <2>2, <2>4 DEF Register, IInv, TypeOK
  <2>5. CASE Look
    BY <2>1, <2>5 DEF Look
  <2>6. CASE Compare
    BY <1>1, <2>1, <2>2, <2>6 DEF Compare, Same, LookedAt, Goto
  <2>7. Register \/ Look \/ Compare \/ UNCHANGED <<child, identity, state>>
    <3>1. ~ChildExits /\ ~Kill
      BY <1>1, MeshAssumption DEF ChildExits, Kill, IInv, TypeOK
    <3> QED
      BY <2>1, <2>2, <3>1
         DEF Next, Entrypoint, ReadId, ReadToken, Start, Clear, Record, Launch, Withdrawn,
             Exit, Restart, PackageStart, ReplaceNode, RotateToken, WithdrawNode,
             CompleteFile, Change, Goto
  <2> QED BY <2>1, <2>3, <2>4, <2>5, <2>6, <2>7
<1> QED
  BY <1>1, Invariance, LookedAtInvariance, PTL DEF Spec, StaysSettled
=============================================================================
