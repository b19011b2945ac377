--------------------------- MODULE ProtectedRoot ---------------------------
(***************************************************************************)
(* The lock of the state migrator (protected_root in hooks/state-migrate.py): *)
(* while a run works, the application-data root belongs to root with mode  *)
(* 0700, and LOCK records the owner and mode to give back.  Runs exclude   *)
(* each other with flock; a run may be killed, and the machine may lose    *)
(* power, at any point.                                                    *)
(*                                                                         *)
(* Every system call that changes ROOT or the record is a step.  The file  *)
(* system keeps metadata operations in order (a journal) and may write     *)
(* them back at any time; what a file holds is written back on its own.    *)
(* fsync waits for the write-back: it is a condition of the next step.     *)
(***************************************************************************)
EXTENDS Naturals

CONSTANTS
    Runs,       \* runs of the migrator that may overlap
    Owners, Modes,
    RootUser,   \* uid and gid 0
    Private,    \* mode 0700
    Inodes,     \* bound: regular files of the lock that exist at a time
    Torn,       \* the contents of a file that is not completely written
    None,
    MaxCrashes  \* bound: kills and power losses

Attributes == [owner : Owners, mode : Modes]
Locked == [owner |-> RootUser, mode |-> Private]

ASSUME RootAssumption ==
    /\ RootUser \in Owners /\ Private \in Modes
    /\ Torn \notin Attributes
    /\ None \notin Runs /\ None \notin Inodes
    /\ MaxCrashes \in Nat

VARIABLES
    root,     \* owner and mode of ROOT
    names,    \* the files named LOCK and LOCK_TEMP in ROOT
    content,  \* content[i]: what is written in file i
    synced,   \* the files whose contents survive a power loss
    disk,     \* root and names as a power loss would leave them
    holder,   \* the run that holds the flock on ROOT
    pc,       \* where each run is
    original, \* the owner and mode each run will give back
    lockFd,   \* the lock file each run has open
    before,   \* owner and mode that ROOT had before any run
    crashes

process == <<pc, original, lockFd, holder>>
vars == <<root, names, content, synced, disk, process, before, crashes>>

Free(i) ==
    /\ i \notin {names.lock, names.temp, disk.names.lock, disk.names.temp}
    /\ \A r \in Runs : lockFd[r] # i

Init ==
    /\ root \in Attributes
    /\ before = root
    /\ names = [lock |-> None, temp |-> None]
    /\ content = [i \in Inodes |-> Torn]
    /\ synced = {}
    /\ disk = [root |-> root, names |-> names]
    /\ holder = None
    /\ pc = [r \in Runs |-> "off"]
    /\ original = [r \in Runs |-> root]
    /\ lockFd = [r \in Runs |-> None]
    /\ crashes = 0

-----------------------------------------------------------------------------
(* fsync of ROOT has returned: its attributes and entries are on disk.     *)
Durable == disk = [root |-> root, names |-> names]

Goto(r, from, to) ==
    /\ pc[r] = from
    /\ pc' = [pc EXCEPT ![r] = to]
    /\ UNCHANGED <<holder, synced, disk, before, crashes>>

Leave(r) ==
    /\ pc' = [pc EXCEPT ![r] = "off"]
    /\ lockFd' = [lockFd EXCEPT ![r] = None]
    /\ holder' = IF holder = r THEN None ELSE holder
    /\ UNCHANGED <<synced, disk, before>>

(* main: open ROOT                                                         *)
Start(r) ==
    /\ Goto(r, "off", "wait")
    /\ UNCHANGED <<root, names, content, original, lockFd>>

(* flock(root_fd, LOCK_EX)                                                 *)
AcquireUnlocked(r) ==   \* mutant: no flock
    /\ pc[r] = "wait"
    /\ pc' = [pc EXCEPT ![r] = "look"]
    /\ holder' = r
    /\ UNCHANGED <<root, names, content, synced, disk, original, lockFd,
                   before, crashes>>
Acquire(r) ==
    /\ holder = None
    /\ pc[r] = "wait"
    /\ pc' = [pc EXCEPT ![r] = "look"]
    /\ holder' = r
    /\ UNCHANGED <<root, names, content, synced, disk, original, lockFd,
                   before, crashes>>

(* A LOCK that an interrupted run left behind is the authority for what    *)
(* ROOT was; a record that does not parse stops the run.                   *)
AdoptRootInstead(r) ==  \* mutant: the record of the earlier run is ignored
    /\ Goto(r, "look", "chown")
    /\ names.lock # None
    /\ original' = [original EXCEPT ![r] = root]
    /\ lockFd' = [lockFd EXCEPT ![r] = names.lock]
    /\ UNCHANGED <<root, names, content>>
Adopt(r) ==
    /\ Goto(r, "look", "chown")
    /\ names.lock # None /\ content[names.lock] # Torn
    /\ original' = [original EXCEPT ![r] = content[names.lock]]
    /\ lockFd' = [lockFd EXCEPT ![r] = names.lock]
    /\ UNCHANGED <<root, names, content>>

(* No LOCK: ROOT is as it was.  An unfinished LOCK_TEMP is dropped.        *)
Remember(r) ==
    /\ Goto(r, "look", IF names.temp = None THEN "create" ELSE "dropped")
    /\ names.lock = None
    /\ original' = [original EXCEPT ![r] = root]
    /\ names' = [names EXCEPT !.temp = None]
    /\ UNCHANGED <<root, content, lockFd>>

(* The record is created exclusively, written, and published by a rename   *)
(* that replaces nothing.                                                  *)
Create(r) ==
    /\ pc[r] = "create" \/ (pc[r] = "dropped" /\ Durable)
    /\ names.temp = None
    /\ \E i \in Inodes :
         /\ Free(i)
         /\ names' = [names EXCEPT !.temp = i]
         /\ content' = [content EXCEPT ![i] = Torn]
         /\ synced' = synced \ {i}
         /\ lockFd' = [lockFd EXCEPT ![r] = i]
    /\ pc' = [pc EXCEPT ![r] = "write"]
    /\ UNCHANGED <<root, disk, original, holder, before, crashes>>
WriteOwnerOnly(r) ==   \* mutant: the mode is not recorded
    /\ Goto(r, "write", "publish")
    /\ content' = [content EXCEPT ![lockFd[r]] = [owner |-> original[r].owner]]
    /\ UNCHANGED <<root, names, original, lockFd>>
Write(r) ==
    /\ Goto(r, "write", "publish")
    /\ content' = [content EXCEPT ![lockFd[r]] = original[r]]
    /\ UNCHANGED <<root, names, original, lockFd>>
PublishUnsynced(r) ==   \* mutant: the record is published before it is durable
    /\ Goto(r, "publish", "published")
    /\ names.lock = None
    /\ names' = [lock |-> names.temp, temp |-> None]
    /\ UNCHANGED <<root, content, original, lockFd>>
Publish(r) ==
    /\ Goto(r, "publish", "published")
    /\ lockFd[r] \in synced
    /\ names.lock = None
    /\ names' = [lock |-> names.temp, temp |-> None]
    /\ UNCHANGED <<root, content, original, lockFd>>

(* ROOT goes to root, mode 0700.                                           *)
TakeOwner(r) ==
    /\ Goto(r, pc[r], "chmod")
    /\ pc[r] = "chown" \/ (pc[r] = "published" /\ Durable)
    /\ root' = [root EXCEPT !.owner = RootUser]
    /\ UNCHANGED <<names, content, original, lockFd>>
TakeMode(r) ==
    /\ Goto(r, "chmod", "locked")
    /\ root' = [root EXCEPT !.mode = Private]
    /\ UNCHANGED <<names, content, original, lockFd>>
(* The yield is reached only with LOCK still being the open file.          *)
Enter(r) ==
    /\ Goto(r, "locked", "body")
    /\ Durable
    /\ names.lock = lockFd[r]
    /\ UNCHANGED <<root, names, content, original, lockFd>>

(* _main_locked ends, well or with a refusal; both lead to the same        *)
(* restoration.                                                            *)
GiveOwner(r) ==
    /\ Goto(r, "body", "giveMode")
    /\ names.lock = lockFd[r]
    /\ root' = [root EXCEPT !.owner = original[r].owner]
    /\ UNCHANGED <<names, content, original, lockFd>>
GiveMode(r) ==
    /\ Goto(r, "giveMode", "given")
    /\ root' = [root EXCEPT !.mode = original[r].mode]
    /\ UNCHANGED <<names, content, original, lockFd>>
KeepRecord(r) ==   \* mutant: LOCK stays
    /\ Goto(r, "given", "release")
    /\ Durable
    /\ UNCHANGED <<root, names, content, original, lockFd>>
Unlink(r) ==
    /\ Goto(r, "given", "release")
    /\ Durable
    /\ names' = [names EXCEPT !.lock = None]
    /\ UNCHANGED <<root, content, original, lockFd>>

(* The run ends: done, or refused because the record does not parse, LOCK  *)
(* appeared during publication, or LOCK is not the open file any more.     *)
Refused(r) ==
    \/ pc[r] = "look" /\ names.lock # None /\ content[names.lock] = Torn
    \/ pc[r] = "publish" /\ names.lock # None
    \/ pc[r] \in {"locked", "body"} /\ names.lock # lockFd[r]
Release(r) ==
    /\ (pc[r] = "release" /\ Durable) \/ Refused(r)
    /\ names' = IF pc[r] = "publish" THEN [names EXCEPT !.temp = None] ELSE names
    /\ Leave(r)
    /\ UNCHANGED <<root, content, original, crashes>>

RunStep(r) ==
    \/ Start(r) \/ Acquire(r) \/ Adopt(r) \/ Remember(r) \/ Create(r)
    \/ Write(r) \/ Publish(r) \/ TakeOwner(r) \/ TakeMode(r) \/ Enter(r)
    \/ GiveOwner(r) \/ GiveMode(r) \/ Unlink(r) \/ Release(r)

-----------------------------------------------------------------------------
(* A kill leaves everything as it is and frees the flock; a power loss also *)
(* takes what was not written back.                                        *)
Kill(r) ==
    /\ pc[r] # "off" /\ crashes < MaxCrashes
    /\ crashes' = crashes + 1
    /\ Leave(r)
    /\ UNCHANGED <<root, names, content, original>>

WriteBack ==
    /\ disk' = [root |-> root, names |-> names]
    /\ ~Durable
    /\ UNCHANGED <<root, names, content, synced, process, before, crashes>>
WriteBackRecord ==
    /\ \E r \in Runs, i \in Inodes \ synced :
         /\ pc[r] = "publish" /\ lockFd[r] = i
         /\ synced' = synced \cup {i}
    /\ UNCHANGED <<root, names, content, disk, process, before, crashes>>

PowerLoss ==
    /\ crashes < MaxCrashes
    /\ crashes' = crashes + 1
    /\ root' = disk.root /\ names' = disk.names
    /\ content' = [i \in Inodes |-> IF i \in synced THEN content[i] ELSE Torn]
    /\ pc' = [r \in Runs |-> "off"]
    /\ lockFd' = [r \in Runs |-> None]
    /\ holder' = None
    /\ UNCHANGED <<synced, disk, original, before>>

Next ==
    \/ \E r \in Runs : RunStep(r) \/ Kill(r)
    \/ WriteBack \/ WriteBackRecord \/ PowerLoss

Spec == Init /\ [][Next]_vars

(* The package start is retried, a run takes its steps, and fsync returns. *)
FairSpec ==
    /\ Spec
    /\ \A r \in Runs : WF_vars(RunStep(r))
    /\ WF_vars(WriteBack) /\ WF_vars(WriteBackRecord)

-----------------------------------------------------------------------------
Steps == {"off", "wait", "look", "create", "dropped", "write", "publish",
          "published", "chown", "chmod", "locked", "body", "giveMode",
          "given", "release"}
Entries == [lock : Inodes \cup {None}, temp : Inodes \cup {None}]

(* Every variable has its type. *)
TypeOK ==
    /\ root \in Attributes /\ before \in Attributes
    /\ names \in Entries
    /\ content \in [Inodes -> Attributes \cup {Torn}]
    /\ synced \subseteq Inodes
    /\ disk \in [root : Attributes, names : Entries]
    /\ holder \in Runs \cup {None}
    /\ pc \in [Runs -> Steps]
    /\ original \in [Runs -> Attributes]
    /\ lockFd \in [Runs -> Inodes \cup {None}]
    /\ crashes \in Nat

(* The owner and mode that ROOT had are never lost: ROOT has them, or a    *)
(* complete LOCK records them, both for the next run after a kill and for  *)
(* the next run after a power loss.                                        *)
Recoverable(attributes, entries) ==
    \/ attributes = before
    \/ entries.lock # None /\ content[entries.lock] = before
OriginalKept ==
    /\ Recoverable(root, names)
    /\ Recoverable(disk.root, disk.names)

(* No run meets a LOCK that it cannot parse, not even after a power loss:  *)
(* one that it could not parse would stop every later start.               *)
RecordsWhole ==
    \A entries \in {names, disk.names} :
      entries.lock # None =>
        content[entries.lock] # Torn /\ entries.lock \in synced

(* While _main_locked works, no other run does, ROOT is private, durably,  *)
(* and LOCK is there to restore it.                                        *)
BodyProtected ==
    \A r \in Runs :
      pc[r] = "body" =>
        /\ root = Locked /\ disk.root = Locked
        /\ names.lock # None /\ lockFd[r] = names.lock
        /\ \A q \in Runs \ {r} : pc[q] \in {"off", "wait"}

(* However it was interrupted, ROOT gets its owner and mode back and the   *)
(* record goes away.                                                       *)
GivenBack == []<>(root = before /\ names.lock = None)

=============================================================================
