--------------------------- MODULE MeshEntrypoint ---------------------------
(***************************************************************************)
(* The Cloudflare Mesh sidecar (hooks/mesh-entrypoint.sh).  It waits for   *)
(* the node id and the token that lnSwitchboard writes to TOKEN_FILE,      *)
(* clears the registration of another node from STATE_DIR, runs the        *)
(* connector, and withdraws it when the file changes.  The file is read    *)
(* one field at a time; the container may be killed at any point and is    *)
(* restarted on failure.                                                   *)
(***************************************************************************)
EXTENDS Naturals

CONSTANTS
    Entries,     \* what the connector keeps in STATE_DIR
    MaxChanges,  \* bound: changes of TOKEN_FILE
    MaxFaults    \* bound: kills, and exits of the connector

ASSUME MeshAssumption == MaxChanges \in Nat /\ MaxFaults \in Nat

(* A node gets a number when it is created, and a second token when its    *)
(* token is rotated.  0 stands for no node.                                *)
Nodes == 1 .. MaxChanges + 1
Tokens == Nodes \X {1, 2}
NoToken == <<0, 0>>
NodeOf(t) == t[1]
Missing == [id |-> 0, token |-> NoToken]

VARIABLES
    file,     \* TOKEN_FILE
    last,     \* the newest node
    identity, \* IDENTITY_FILE: the node the state belongs to
    state,    \* state[e]: the node that an entry of STATE_DIR registers
    nodeId, token,  \* NODE_ID and TOKEN
    current,  \* CURRENT_NODE_ID
    child,    \* the token of the running connector
    pc,
    changes, faults

outside == <<file, last, changes>>
vars == <<outside, identity, state, nodeId, token, current, child, pc, faults>>

Complete(f) == f.id # 0 /\ f.token # NoToken

Init ==
    /\ file \in {Missing, [id |-> 1, token |-> <<1, 1>>]}
    /\ last = 1
    /\ identity = 0
    /\ state = [e \in Entries |-> 0]
    /\ nodeId = 0 /\ token = NoToken /\ current = 0
    /\ child = NoToken
    /\ pc = "readId"
    /\ changes = 0 /\ faults = 0

-----------------------------------------------------------------------------
Goto(from, to) ==
    /\ pc = from /\ pc' = to
    /\ UNCHANGED <<outside, faults>>

(* The waiting loop: both fields must be there.                            *)
ReadId ==
    /\ Goto("readId", "readToken")
    /\ nodeId' = file.id
    /\ UNCHANGED <<identity, state, token, current, child>>
ReadToken ==
    /\ Goto("readToken", IF nodeId # 0 /\ file.token # NoToken
                         THEN "start" ELSE "readId")
    /\ token' = file.token
    /\ UNCHANGED <<identity, state, nodeId, current, child>>

(* State of another node is cleared before the new identity is recorded.   *)
StartRecordsFirst ==   \* mutant: the identity is recorded before the clearing
    /\ Goto("start", IF identity = nodeId THEN "launch" ELSE "clear")
    /\ identity' = nodeId
    /\ UNCHANGED <<state, nodeId, token, current, child>>
Start ==
    /\ Goto("start", IF identity = nodeId THEN "launch" ELSE "clear")
    /\ UNCHANGED <<identity, state, nodeId, token, current, child>>

(* clear_mesh_state removes one entry after the other.  The names that the  *)
(* connector uses are its own: any order.                                  *)
Clear ==
    /\ pc \in {"clear", "withdraw"}
    /\ Goto(pc, pc)
    /\ \/ \E e \in Entries :
            state[e] # 0 /\ state' = [state EXCEPT ![e] = 0] /\ UNCHANGED identity
       \/ identity # 0 /\ identity' = 0 /\ UNCHANGED state
    /\ UNCHANGED <<nodeId, token, current, child>>
Cleared == identity = 0 /\ \A e \in Entries : state[e] = 0
Record ==
    /\ Goto("clear", "launch")
    /\ Cleared
    /\ identity' = nodeId
    /\ UNCHANGED <<state, nodeId, token, current, child>>

LaunchRereads ==   \* mutant: the token is read again for the connector
    /\ Goto("launch", "look")
    /\ child' = file.token
    /\ UNCHANGED <<identity, state, nodeId, token, current>>
LaunchWithoutToken ==   \* mutant: the token is not exported
    /\ Goto("launch", "look")
    /\ child' = <<nodeId, 0>>
    /\ UNCHANGED <<identity, state, nodeId, token, current>>
Launch ==
    /\ Goto("launch", "look")
    /\ child' = token
    /\ UNCHANGED <<identity, state, nodeId, token, current>>

(* Every two seconds, while the connector lives, the file is read again.   *)
Look ==
    /\ Goto("look", "compare")
    /\ child # NoToken
    /\ current' = file.id
    /\ UNCHANGED <<identity, state, nodeId, token, child>>
CompareIdOnly ==   \* mutant: only the node id is compared
    /\ Goto("compare", IF current = nodeId THEN "look" ELSE "withdraw")
    /\ child' = IF current = nodeId THEN child ELSE NoToken
    /\ UNCHANGED <<identity, state, nodeId, token, current>>
Same == current = nodeId /\ file.token = token
Compare ==
    /\ Goto("compare", IF Same THEN "look" ELSE "withdraw")
    /\ child' = IF Same THEN child ELSE NoToken
    /\ UNCHANGED <<identity, state, nodeId, token, current>>
Withdrawn ==
    /\ Goto("withdraw", "down")
    /\ Cleared
    /\ UNCHANGED <<identity, state, nodeId, token, current, child>>

(* The connector is gone: the container ends with its status.  Restart     *)
(* policy on-failure does not restart one that ended with 0.               *)
Exit ==
    /\ pc = "look" /\ child = NoToken
    /\ \E status \in {"down", "ended"} : Goto("look", status)
    /\ UNCHANGED <<identity, state, nodeId, token, current, child>>
Restart ==
    /\ Goto("down", "readId")
    /\ nodeId' = 0 /\ token' = NoToken /\ current' = 0
    /\ UNCHANGED <<identity, state, child>>

Entrypoint ==
    \/ ReadId \/ ReadToken \/ Start \/ Clear \/ Record \/ Launch
    \/ Look \/ Compare \/ Withdrawn \/ Exit \/ Restart

-----------------------------------------------------------------------------
(* The connector registers its node: it writes to STATE_DIR.               *)
Register ==
    /\ child # NoToken
    /\ \E e \in Entries : state' = [state EXCEPT ![e] = NodeOf(child)]
    /\ UNCHANGED <<outside, identity, nodeId, token, current, child, pc, faults>>
ChildExits ==
    /\ faults < MaxFaults /\ faults' = faults + 1
    /\ child # NoToken /\ child' = NoToken
    /\ UNCHANGED <<outside, identity, state, nodeId, token, current, pc>>
(* A kill, and also TERM, whose handler stops the connector and ends.      *)
Kill ==
    /\ faults < MaxFaults /\ faults' = faults + 1
    /\ pc \notin {"down", "ended"} /\ pc' = "down"
    /\ child' = NoToken
    /\ UNCHANGED <<outside, identity, state, nodeId, token, current>>
(* The user restarts the package.                                          *)
PackageStart ==
    /\ Goto("ended", "down")
    /\ UNCHANGED <<identity, state, nodeId, token, current, child>>

(* lnSwitchboard: a new node, a new token, withdrawal, an unfinished file   *)
(* and its completion.  The file never names an earlier node again.        *)
Change(f) ==
    /\ changes < MaxChanges /\ changes' = changes + 1
    /\ f # file /\ file' = f
    /\ UNCHANGED <<identity, state, nodeId, token, current, child, pc, faults>>
ReplaceNode ==
    /\ Change([id |-> last + 1, token |-> <<last + 1, 1>>])
    /\ last' = last + 1
RotateToken ==
    /\ Complete(file)
    /\ Change([id |-> file.id, token |-> <<NodeOf(file.token), 2>>])
    /\ UNCHANGED last
WithdrawNode ==
    /\ \/ Change(Missing)
       \/ Change([id |-> 0, token |-> file.token])
       \/ Change([id |-> file.id, token |-> NoToken])
    /\ UNCHANGED last
CompleteFile ==
    /\ ~Complete(file)
    /\ \E k \in {1, 2} : Change([id |-> last, token |-> <<last, k>>])
    /\ UNCHANGED last

Next ==
    \/ Entrypoint \/ Register \/ ChildExits \/ Kill \/ PackageStart
    \/ ReplaceNode \/ RotateToken \/ WithdrawNode \/ CompleteFile

Spec == Init /\ [][Next]_vars

(* The shell and the restart policy go on.                                 *)
FairSpec == Spec /\ WF_vars(Entrypoint)

-----------------------------------------------------------------------------
(* Every variable has its type. *)
TypeOK ==
    /\ file \in [id : Nodes \cup {0}, token : Tokens \cup {NoToken}]
    /\ last \in Nodes
    /\ identity \in Nodes \cup {0}
    /\ state \in [Entries -> Nodes \cup {0}]
    /\ nodeId \in Nodes \cup {0} /\ current \in Nodes \cup {0}
    /\ token \in Tokens \cup {NoToken} /\ child \in Tokens \cup {NoToken}
    /\ pc \in {"readId", "readToken", "start", "clear", "launch", "look",
               "compare", "withdraw", "down", "ended"}
    /\ changes \in 0 .. MaxChanges /\ faults \in 0 .. MaxFaults

(* State under a recorded identity never holds the registration of a node  *)
(* earlier than that identity, wherever the clearing was interrupted.      *)
NotInherited ==
    identity # 0 => \A e \in Entries : state[e] # 0 => state[e] >= identity

(* The entrypoint stops a connector, and clears its registration, only if  *)
(* the file does not name its node with its token at that moment, though   *)
(* it has read the two in two looks; or if the first look found no node id *)
(* in a file that has been completed since.                                *)
StopsOnlyOutdated ==
    [][pc = "compare" /\ pc' = "withdraw" /\ child # NoToken =>
         file # [id |-> nodeId, token |-> child] \/ current = 0]_vars

(* A connector enrols over state of its own node only: "clears stale        *)
(* persisted registration state before enrolling a replacement node"       *)
(* (CHANGELOG.md).  Violated: the id and the token are read in two looks.  *)
OwnState ==
    child # NoToken => \A e \in Entries : state[e] \in {0, NodeOf(child)}

(* In the end the connector runs with what the file says, on state of that *)
(* node, and none runs when the file is withdrawn; unless the connector    *)
(* ended itself with status 0.                                             *)
Settled ==
    IF Complete(file)
    THEN /\ child = file.token /\ identity = file.id
         /\ \A e \in Entries : state[e] \in {0, file.id}
    ELSE child = NoToken
FollowsFile == <>[](Settled \/ pc = "ended")

=============================================================================
