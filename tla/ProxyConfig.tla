---------------------------- MODULE ProxyConfig ----------------------------
(***************************************************************************)
(* The App Proxy configuration of the package, over many starts.  The      *)
(* guard (hooks/prepare-state-guard.py) publishes app-proxy.env through a  *)
(* temporary; before that, in every start, the state migrator retires the  *)
(* temporaries that interrupted starts left (remove_owned_proxy_temporaries *)
(* in hooks/state-migrate.py): it validates them, moves them to a private  *)
(* directory, verifies that what it moved is what it validated, and only   *)
(* then unlinks them.                                                      *)
(*                                                                         *)
(* Starts are killed and the machine loses power at any point.  As in      *)
(* ProtectedRoot, fsync is a condition of the step that follows it.  A     *)
(* file that was not synced is empty or short after a power loss.          *)
(***************************************************************************)
EXTENDS Naturals

CONSTANTS
    Temps,      \* names of publication temporaries
    GuardTemp,  \* the one of the guard
    LegacyTemp, \* the one of older packages
    Files,      \* bound: inodes that exist at a time
    None,
    MaxFaults,  \* bound: kills, power losses, write errors, older packages
    MaxSwaps    \* bound: entries that somebody else puts in the way

ASSUME ProxyAssumption ==
    /\ GuardTemp \in Temps /\ LegacyTemp \in Temps
    /\ None \notin Files
    /\ MaxFaults \in Nat /\ MaxSwaps \in Nat

VARIABLES
    dir,    \* PROXY_CONFIG: app-proxy.env, the temporaries, the retired ones
    disk,   \* dir as a power loss would leave it
    kind,   \* what a file is: the whole configuration, a prefix, or foreign
    synced, \* the files whose contents survive a power loss
    pc,
    held,   \* the temporaries that this run of the migrator validated
    faults, swaps

vars == <<dir, disk, kind, synced, pc, held, faults, swaps>>

Nobody == [t \in Temps |-> None]
Values(f) == {f[t] : t \in DOMAIN f} \ {None}
Present(d) == Values(d.live) \cup Values(d.retired) \cup ({d.config} \ {None})
Fresh == Files \ (Present(dir) \cup Present(disk) \cup Values(held))

Init ==
    /\ \E c \in Files \cup {None} :
         /\ kind = [f \in Files |-> IF f = c THEN "whole" ELSE "short"]
         /\ synced = {c} \ {None}
         /\ dir = [config |-> c, live |-> Nobody, retired |-> Nobody,
                   retiring |-> FALSE]
    /\ disk = dir
    /\ pc = "off"
    /\ held = Nobody
    /\ faults = 0 /\ swaps = 0

-----------------------------------------------------------------------------
Durable == disk = dir
Goto(from, to) ==
    /\ pc = from
    /\ pc' = to
    /\ UNCHANGED <<disk, faults, swaps>>

(* A file that did not exist is linked as a temporary; which of the free    *)
(* inodes it gets makes no difference.                                     *)
Link(t, k) ==
    /\ Fresh # {}
    /\ LET f == CHOOSE f \in Fresh : TRUE IN
      /\ dir' = [dir EXCEPT !.live[t] = f]
      /\ kind' = [kind EXCEPT ![f] = k]
      /\ synced' = synced \ {f}

(* The package is started; state_migrate comes first.                      *)
Start ==
    /\ Goto("off", "retire")
    /\ UNCHANGED <<dir, kind, synced, held>>
Stop ==
    /\ Goto("up", "off")
    /\ UNCHANGED <<dir, kind, synced, held>>

(* Every temporary, live or retired, is opened and validated; an entry     *)
(* that is not trusted, or one in both places, ends the start.             *)
Twice == \E t \in Temps : dir.live[t] # None /\ dir.retired[t] # None
Untrusted ==
    \E f \in Values(dir.live) \cup Values(dir.retired) : kind[f] = "foreign"
ValidateLive ==   \* mutant: what is already retired is not validated
    /\ Goto("retire", IF dir.live = Nobody THEN "unlink" ELSE "move")
    /\ ~Untrusted /\ ~Twice
    /\ held' = [t \in {u \in Temps : dir.live[u] # None} |-> dir.live[t]]
    /\ UNCHANGED <<dir, kind, synced>>
Validate ==
    /\ Goto("retire", IF dir.live = Nobody THEN "unlink" ELSE "move")
    /\ ~Untrusted /\ ~Twice
    /\ held' = [t \in Temps |-> IF dir.live[t] # None THEN dir.live[t]
                                ELSE dir.retired[t]]
    /\ UNCHANGED <<dir, kind, synced>>

MakeRetire ==
    /\ Goto("move", "made")
    /\ ~dir.retiring
    /\ dir' = [dir EXCEPT !.retiring = TRUE]
    /\ UNCHANGED <<kind, synced, held>>

(* rename_noreplace, then the inode that was moved is compared with the    *)
(* one that was validated.                                                 *)
Waiting == {t \in Temps : held[t] # None /\ dir.retired[t] = None}
Move(t) ==
    /\ Goto(pc, IF dir.live[t] = held[t] THEN "move" ELSE "undo")
    /\ pc = "move" \/ (pc = "made" /\ Durable)
    /\ dir.retiring
    /\ t \in Waiting
    /\ dir' = [dir EXCEPT !.live[t] = None, !.retired[t] = dir.live[t]]
    /\ UNCHANGED <<kind, synced, held>>
(* What was not validated goes back, and the start ends.                   *)
UndoReplaces(t) ==   \* mutant: rename instead of rename_noreplace
    /\ pc = "undo" /\ dir.retired[t] # None /\ dir.retired[t] # held[t]
    /\ Goto("undo", "undone")
    /\ dir' = [dir EXCEPT !.live[t] = dir.retired[t], !.retired[t] = None]
    /\ UNCHANGED <<kind, synced, held>>
Undo(t) ==
    /\ pc = "undo" /\ dir.retired[t] # None /\ dir.retired[t] # held[t]
    /\ IF dir.live[t] = None
       THEN /\ Goto("undo", "undone")
            /\ dir' = [dir EXCEPT !.live[t] = dir.retired[t],
                                  !.retired[t] = None]
       ELSE Goto("undo", "off") /\ UNCHANGED dir
    /\ UNCHANGED <<kind, synced, held>>
Undone ==
    /\ Goto("undone", "off")
    /\ Durable
    /\ dir' = [dir EXCEPT !.retiring = dir.retired # Nobody]
    /\ UNCHANGED <<kind, synced, held>>

Moved ==
    /\ Goto("move", "unlink")
    /\ Waiting = {} /\ Durable
    /\ dir.retired = held
    /\ UNCHANGED <<dir, kind, synced, held>>
Unlink(t) ==
    /\ Goto("unlink", "unlink")
    /\ dir.retired[t] # None
    /\ dir' = [dir EXCEPT !.retired[t] = None]
    /\ UNCHANGED <<kind, synced, held>>
KeepRetire ==   \* mutant: the retirement directory stays
    /\ Goto("unlink", "check")
    /\ dir.retired = Nobody
    /\ UNCHANGED <<dir, kind, synced, held>>
RemoveRetire ==
    /\ Goto("unlink", IF dir.retiring THEN "removed" ELSE "check")
    /\ dir.retired = Nobody
    /\ dir.retiring => Durable
    /\ dir' = [dir EXCEPT !.retiring = FALSE]
    /\ UNCHANGED <<kind, synced, held>>

(* validate_reserved_paths: nothing but a whole app-proxy.env is left.     *)
Valid ==
    /\ dir.live = Nobody /\ ~dir.retiring
    /\ dir.config # None => kind[dir.config] = "whole"
Check ==
    /\ Goto(pc, "guard")
    /\ pc = "check" \/ (pc = "removed" /\ Durable)
    /\ Valid
    /\ held' = Nobody
    /\ UNCHANGED <<dir, kind, synced>>
Refuse ==
    /\ Goto(pc, "off")
    /\ \/ pc = "retire" /\ (Untrusted \/ Twice)
       \/ pc = "move" /\ Waiting = {} /\ Durable /\ dir.retired # held
       \/ pc \in {"check", "removed"} /\ ~Valid
    /\ UNCHANGED <<dir, kind, synced, held>>

(* permissions-init runs after state_migrate ended well.                   *)
Create ==
    /\ Goto("guard", "write")
    /\ dir.live[GuardTemp] = None
    /\ Link(GuardTemp, "short")
    /\ UNCHANGED held
Write ==
    /\ Goto("write", "publish")
    /\ kind' = [kind EXCEPT ![dir.live[GuardTemp]] = "whole"]
    /\ UNCHANGED <<dir, synced, held>>
ReplaceUnsynced ==   \* mutant: published before its contents are durable
    /\ Goto("publish", "published")
    /\ dir' = [dir EXCEPT !.config = dir.live[GuardTemp],
                          !.live[GuardTemp] = None]
    /\ UNCHANGED <<kind, synced, held>>
Replace ==
    /\ Goto("publish", "published")
    /\ dir.live[GuardTemp] \in synced
    /\ dir' = [dir EXCEPT !.config = dir.live[GuardTemp],
                          !.live[GuardTemp] = None]
    /\ UNCHANGED <<kind, synced, held>>
Up ==
    /\ Goto("published", "up")
    /\ Durable
    /\ UNCHANGED <<dir, kind, synced, held>>

PackageStep ==
    \/ Start \/ Validate \/ MakeRetire \/ Undone \/ Moved \/ RemoveRetire
    \/ \E t \in Temps : Move(t) \/ Undo(t) \/ Unlink(t)
    \/ Check \/ Refuse \/ Create \/ Write \/ Replace \/ Up

-----------------------------------------------------------------------------
Fault == faults < MaxFaults /\ faults' = faults + 1 /\ UNCHANGED swaps

(* A write of the guard fails: its temporary is unlinked.                  *)
GuardFails ==
    /\ Fault
    /\ pc \in {"write", "publish"}
    /\ dir' = [dir EXCEPT !.live[GuardTemp] = None]
    /\ pc' = "off"
    /\ UNCHANGED <<disk, kind, synced, held>>
Kill ==
    /\ Fault
    /\ pc # "off"
    /\ pc' = "off"
    /\ held' = Nobody
    /\ UNCHANGED <<dir, disk, kind, synced>>
PowerLoss ==
    /\ Fault
    /\ dir' = disk
    /\ kind' = [f \in Files |->
                  IF f \in synced \/ kind[f] = "foreign" THEN kind[f]
                  ELSE "short"]
    /\ pc' = "off"
    /\ held' = Nobody
    /\ UNCHANGED <<disk, synced>>
(* An older package ran meanwhile and was interrupted in its publication.  *)
OlderPackage ==
    /\ Fault
    /\ pc = "off" /\ dir.live[LegacyTemp] = None
    /\ Link(LegacyTemp, "short")
    /\ UNCHANGED <<disk, pc, held>>
(* Somebody replaces or adds a temporary while they are being retired.     *)
Swap(t) ==
    /\ swaps < MaxSwaps /\ swaps' = swaps + 1
    /\ pc \in {"move", "made", "undo"}
    /\ \E k \in {"short", "foreign"} : Link(t, k)
    /\ UNCHANGED <<disk, pc, held, faults>>

WriteBack ==
    /\ ~Durable
    /\ disk' = dir
    /\ UNCHANGED <<dir, kind, synced, pc, held, faults, swaps>>
WriteBackFile ==
    /\ pc = "publish" /\ dir.live[GuardTemp] \notin synced
    /\ synced' = synced \cup {dir.live[GuardTemp]}
    /\ UNCHANGED <<dir, disk, kind, pc, held, faults, swaps>>

Next ==
    \/ PackageStep \/ Stop
    \/ GuardFails \/ Kill \/ PowerLoss \/ OlderPackage
    \/ \E t \in Temps : Swap(t)
    \/ WriteBack \/ WriteBackFile

Spec == Init /\ [][Next]_vars

(* A start that failed is repeated, its steps are taken, fsync returns.    *)
FairSpec ==
    Spec /\ WF_vars(PackageStep) /\ WF_vars(WriteBack) /\ WF_vars(WriteBackFile)

-----------------------------------------------------------------------------
Links == [Temps -> Files \cup {None}]
Directories == [config : Files \cup {None}, live : Links, retired : Links,
                retiring : BOOLEAN]

(* Every variable has its type. *)
TypeOK ==
    /\ dir \in Directories /\ disk \in Directories
    /\ kind \in [Files -> {"whole", "short", "foreign"}]
    /\ synced \subseteq Files
    /\ pc \in {"off", "retire", "move", "made", "undo", "undone", "unlink",
               "removed", "check", "guard", "write", "publish", "published",
               "up"}
    /\ held \in Links
    /\ faults \in 0 .. MaxFaults /\ swaps \in 0 .. MaxSwaps

(* The App Proxy never reads a configuration that is not the whole one     *)
(* (with less it would log what it must not), not even after a power loss. *)
ConfigWhole ==
    \A d \in {dir, disk} :
      d.config # None => kind[d.config] = "whole" /\ d.config \in synced

(* Only what this very run of the migrator validated is removed; an entry  *)
(* that took its place survives (the guard replaces the old configuration  *)
(* and drops its own temporary).                                           *)
OnlyValidatedRemoved ==
    [][\A f \in Present(dir) \ Present(dir') :
         \/ pc = "unlink" /\ f \in Values(held)
         \/ pc = "publish" /\ f = dir.config
         \/ faults' # faults \/ swaps' # swaps]_vars

(* However often it was interrupted, a start succeeds in the end, unless   *)
(* an untrusted entry, or one in both places, was put there.               *)
StartSucceeds == []<>(pc = "up" \/ Untrusted \/ Twice)

=============================================================================
