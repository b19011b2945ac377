------------------------ MODULE TailscaleSupervisor ------------------------
(***************************************************************************)
(* The Tailscale sidecar's supervisor (hooks/tailscale-supervisor.sh) and  *)
(* the file protocol by which the application drives it: the application   *)
(* records an operation, links it into a queue, reads a result and         *)
(* acknowledges it; the supervisor claims one operation at a time, calls   *)
(* the provider, publishes one result, and forgets what is acknowledged.   *)
(* A disconnect keeps a journal of its phases beside the node state.       *)
(*                                                                         *)
(* Every durable change and every provider call is one step; a crash can   *)
(* fall between any two.  The application acts under the protocol lock,    *)
(* which the supervisor holds from its recovery to its claim.  The status  *)
(* files other than login.json are left out: nothing reads them back.      *)
(***************************************************************************)
EXTENDS Naturals, FiniteSets

CONSTANTS
    Ops,          \* operation ids
    Kinds,        \* the commands that the application may record
    Identities,   \* node identities: external id and host name
    None,         \* no identity, no operation, no journal, no answer
    MaxCompleted, \* COMPLETED_MAX_RECORDS
    Expires,      \* does COMPLETED_RETENTION_SECONDS run out here?
    ProviderRaces,\* may the provider's state change while a pass runs?
    MaxCrashes,   \* bound: crashes of the sidecar
    MaxEvents     \* bound: changes by the provider, deaths of tailscaled,
                  \* acknowledgements that are not whole

Commands == {"begin_login", "cancel_login", "clear_login", "enable", "disable",
             "disconnect", "invalid"}
Targeted == {"enable", "disable", "disconnect"}
Phases == {"prepared", "funnel_disabling", "funnel_disabled",
           "provider_logging_out", "provider_logged_out",
           "local_state_deleting", "local_state_deleted", "complete"}
Answers == {"started", "complete", "invalid_command", "login_active",
            "identity_mismatch", "funnel_enable_failed",
            "funnel_disable_failed", "logout_failed"}

ASSUME KindsAssumption == Kinds \subseteq Commands
ASSUME NoneAssumption ==
    /\ None \notin Ops /\ None \notin Identities
    /\ None \notin Answers /\ None \notin Phases
ASSUME BoundsAssumption ==
    /\ MaxCompleted \in Nat /\ MaxCrashes \in Nat /\ MaxEvents \in Nat
    /\ Expires \in BOOLEAN /\ ProviderRaces \in BOOLEAN

VARIABLES
    operations, \* OPERATION_DIR
    queue,      \* QUEUE_DIR
    processing, \* PROCESSING_DIR
    completed,  \* COMPLETED_DIR
    old,        \* the completed records whose retention has run out
    acks,       \* ACK_DIR: "none", "whole", or "torn" (not the operation id)
    results,    \* RESULT_DIR: nobody here reads what a result says
    journal,    \* the phase in the disconnect journal of an operation
    active,     \* ACTIVE_STATE: the identity it names
    node,       \* the identity this node is registered under
    running,    \* is the backend state Running (else NeedsLogin)?
    funnel,     \* is the Funnel configured?
    loginFile,  \* does login.json exist?  It holds the authorization URL.
    login,      \* the login process: "none", "running", "ended" (not reaped)
    loginAge,   \* LOGIN_COMPLETED_AT: "none", "fresh", "old"
    daemon,     \* tailscaled: "down", "starting", "up"
    pc,         \* where the supervisor is; "down" while the sidecar is down
    op,         \* OPERATION_ID, while one is worked on
    back,       \* where the supervisor goes on after op or after a sweep
    reply,      \* the answer about to be published
    booting,    \* is this the recovery before the main loop?
    command,    \* what the application recorded: a kind and its target
    app,        \* how far the application got: "new", "recorded", "queued"
    answered,   \* history: the operations for which a result was published
    used,       \* history: the identities that registrations received
    crashes, events  \* budgets used so far

requests == <<operations, queue, processing>>
records == <<completed, old>>
replies == <<acks, results, journal>>
provider == <<node, running, funnel>>
logins == <<loginFile, login, loginAge>>
control == <<pc, op, back, reply, booting>>
client == <<command, app>>
budgets == <<used, crashes, events>>
files == <<requests, records, replies, active>>
machine == <<provider, logins, daemon>>
world == <<client, answered, budgets>>
vars == <<files, machine, control, world>>

Target(o) == command[o].target

-----------------------------------------------------------------------------
(* Control.                                                                *)

Answer(r) ==
    /\ pc' = "answer" /\ reply' = r
    /\ UNCHANGED <<op, back, booting>>
Proceed(p) == pc' = p /\ UNCHANGED <<op, back, reply, booting>>

(* Mutants: completed records do not settle an operation; the age of a     *)
(* login.json found at the start is not looked at.                         *)
SettledUnlessCompleted(o) == o \in results \/ acks[o] # "none"
Settled(o) == o \in completed \/ o \in results \/ acks[o] # "none"

BootForgetsLogin ==
    /\ pc = "down"
    /\ daemon' = "starting"
    /\ booting' = TRUE
    /\ pc' = "journals"
    /\ UNCHANGED <<files, provider, logins, op, back, reply, world>>

(* The start of the container: tailscaled, then recovery under the lock.   *)
Boot ==
    /\ pc = "down"
    /\ daemon' = "starting"
    /\ loginAge' = IF loginFile THEN "fresh" ELSE "none"
    /\ booting' = TRUE
    /\ pc' = "journals"
    /\ UNCHANGED <<files, provider, loginFile, login, op, back, reply, world>>

(* The sidecar is killed: its children and its memory are gone.            *)
Crash ==
    /\ pc # "down" /\ crashes < MaxCrashes
    /\ crashes' = crashes + 1
    /\ pc' = "down" /\ op' = None /\ back' = "idle" /\ reply' = None
    /\ booting' = FALSE
    /\ login' = "none" /\ loginAge' = "none" /\ daemon' = "down"
    /\ UNCHANGED <<files, provider, loginFile, client, answered, used,
                   events>>

(* One turn of the main loop, up to consume_results: restart tailscaled,   *)
(* reap the login process, expire_login_artifact.                          *)
BeginPass ==
    /\ pc = "idle"
    /\ daemon' = IF daemon = "down" THEN "starting" ELSE daemon
    /\ login' = IF login = "ended" THEN "none" ELSE login
    /\ loginAge' = IF login = "ended" THEN "fresh"
                   ELSE IF loginAge = "old" THEN "none" ELSE loginAge
    /\ loginFile' = (loginFile /\ ~(login # "ended" /\ loginAge = "old"))
    /\ pc' = "acks"
    /\ UNCHANGED <<files, provider, op, back, reply, booting, world>>

-----------------------------------------------------------------------------
(* consume_results and cleanup_completed_operations.                       *)

TakeAck(o) ==
    /\ pc = "acks" /\ acks[o] # "none"
    /\ op' = o
    /\ IF acks[o] = "whole"
       THEN /\ completed' = completed \cup ({o} \cap operations)
            /\ pc' = "forgetResult"
       ELSE /\ UNCHANGED completed
            /\ pc' = "forgetAck"
    /\ UNCHANGED <<requests, old, replies, active, machine, back, reply,
                   booting, world>>

ForgetResult ==
    /\ pc = "forgetResult"
    /\ results' = results \ {op}
    /\ Proceed("forgetJournal")
    /\ UNCHANGED <<requests, records, acks, journal, active, machine, world>>

ForgetJournal ==
    /\ pc = "forgetJournal"
    /\ journal' = [journal EXCEPT ![op] = None]
    /\ Proceed("forgetAck")
    /\ UNCHANGED <<requests, records, acks, results, active, machine, world>>

ForgetAck ==
    /\ pc = "forgetAck"
    /\ acks' = [acks EXCEPT ![op] = "none"]
    /\ pc' = "sweep" /\ back' = "acks" /\ op' = None
    /\ UNCHANGED <<requests, records, results, journal, active, machine,
                   reply, booting, world>>

AcksDone ==
    /\ pc = "acks" /\ \A o \in Ops : acks[o] = "none"
    /\ Proceed("journals")
    /\ UNCHANGED <<files, machine, world>>

(* A completed operation loses its operation record, then, when its time   *)
(* has run out, its completed record.                                      *)
(* Mutant: only old records lose their operation.                          *)
SweepableWhenOld == {o \in completed \cap old : acks[o] = "none"}
Sweepable == {o \in completed : acks[o] = "none"}

SweepOperation(o) ==
    /\ pc = "sweep" /\ o \in Sweepable \cap operations
    /\ operations' = operations \ {o}
    /\ UNCHANGED <<queue, processing, records, replies, active, machine,
                   control, world>>

SweepRecord(o) ==
    /\ pc = "sweep" /\ o \in (Sweepable \cap old) \ operations
    /\ completed' = completed \ {o} /\ old' = old \ {o}
    /\ UNCHANGED <<requests, replies, active, machine, control, world>>

Swept == pc = "sweep" /\ Sweepable \cap (old \cup operations) = {}

(* Too many completed records: the oldest go, and any of them may be the   *)
(* oldest, since the modification times are whole seconds.                 *)
Trim(o) ==
    /\ Swept /\ Cardinality(completed) > MaxCompleted /\ o \in completed
    /\ completed' = completed \ {o} /\ old' = old \ {o}
    /\ UNCHANGED <<requests, replies, active, machine, control, world>>

SweepDone ==
    /\ Swept /\ Cardinality(completed) <= MaxCompleted
    /\ Proceed(back)
    /\ UNCHANGED <<files, machine, world>>

-----------------------------------------------------------------------------
(* recover_disconnect_journals and recover_operation_records.  A journal   *)
(* that has had its turn has a result.                                     *)

Unfinished(o) == journal[o] # None /\ o \notin results

ResumeJournal(o) ==
    /\ pc = "journals" /\ Unfinished(o)
    /\ pc' = "disconnect" /\ op' = o /\ back' = "journals"
    /\ UNCHANGED <<files, machine, reply, booting, world>>

JournalsDone ==
    /\ pc = "journals" /\ \A o \in Ops : ~Unfinished(o)
    /\ Proceed("operations")
    /\ UNCHANGED <<files, machine, world>>

(* Of a lost operation nothing is left but its record; it is queued anew.  *)
(* Mutant: a record that the application did not link stays where it is.   *)
NeverLost(o) == FALSE
Lost(o) == o \in operations \ (queue \cup processing) /\ ~Settled(o)

Relink(o) ==
    /\ pc = "operations" /\ Lost(o)
    /\ queue' = queue \cup {o}
    /\ UNCHANGED <<operations, processing, records, replies, active, machine,
                   control, world>>

OperationsDone ==
    /\ pc = "operations" /\ \A o \in Ops : ~Lost(o)
    /\ booting' = FALSE
    /\ pc' = IF booting THEN "idle" ELSE "sweep"
    /\ back' = IF booting THEN "idle" ELSE "claim"
    /\ UNCHANGED <<files, machine, op, reply, world>>

-----------------------------------------------------------------------------
(* claim_next_command: what was being processed first, then the queue.     *)

DropClaim(o) ==
    /\ pc = "claim" /\ o \in processing /\ Settled(o)
    /\ processing' = processing \ {o}
    /\ UNCHANGED <<operations, queue, records, replies, active, machine,
                   control, world>>

Execute(o) ==
    /\ pc' = "execute" /\ op' = o /\ back' = "unclaim"
    /\ UNCHANGED <<reply, booting>>

ResumeClaim(o) ==
    /\ pc = "claim" /\ o \in processing /\ ~Settled(o)
    /\ Execute(o)
    /\ UNCHANGED <<files, machine, world>>

DropQueued(o) ==
    /\ pc = "claim" /\ processing = {} /\ o \in queue /\ Settled(o)
    /\ queue' = queue \ {o}
    /\ UNCHANGED <<operations, processing, records, replies, active, machine,
                   control, world>>

(* Mutant: the queue is served before what is being processed.             *)
TakeQueuedFirst(o) ==
    /\ pc = "claim" /\ o \in queue /\ ~Settled(o)
    /\ queue' = queue \ {o} /\ processing' = processing \cup {o}
    /\ Execute(o)
    /\ UNCHANGED <<operations, records, replies, active, machine, world>>

(* The second look, after the move, finds what the first one found: only   *)
(* the supervisor publishes results.                                       *)
TakeQueued(o) ==
    /\ pc = "claim" /\ processing = {} /\ o \in queue /\ ~Settled(o)
    /\ queue' = queue \ {o} /\ processing' = processing \cup {o}
    /\ Execute(o)
    /\ UNCHANGED <<operations, records, replies, active, machine, world>>

ClaimNothing ==
    /\ pc = "claim" /\ processing = {} /\ queue = {}
    /\ Proceed("idle")
    /\ UNCHANGED <<files, machine, world>>

-----------------------------------------------------------------------------
(* process_claim: the commands on the login and on the Funnel.             *)

Executes(kind) == pc = "execute" /\ command[op].kind = kind

Reject ==
    /\ Executes("invalid")
    /\ Answer("invalid_command")
    /\ UNCHANGED <<files, machine, world>>

(* stop_login, a new login.json, and `tailscale up` writing to it.         *)
BeginLogin ==
    /\ Executes("begin_login")
    /\ loginFile' = TRUE /\ login' = "running" /\ loginAge' = "none"
    /\ Answer("started")
    /\ UNCHANGED <<files, provider, daemon, world>>

CancelLogin ==
    /\ Executes("cancel_login")
    /\ loginFile' = FALSE /\ login' = "none" /\ loginAge' = "none"
    /\ Answer("complete")
    /\ UNCHANGED <<files, provider, daemon, world>>

ClearLogin ==
    /\ Executes("clear_login")
    /\ IF login = "none"
       THEN /\ loginFile' = FALSE /\ loginAge' = "none"
            /\ Answer("complete")
       ELSE /\ UNCHANGED <<loginFile, loginAge>>
            /\ Answer("login_active")
    /\ UNCHANGED <<files, provider, login, daemon, world>>

(* fresh_runtime_identity: a match needs an answer of tailscaled, which    *)
(* may fail or take too long.                                              *)
Matches == daemon = "up" /\ node = Target(op)

CheckIdentity ==
    /\ Executes("enable") \/ Executes("disable")
    /\ \/ Matches /\ Proceed("funnel")
       \/ Answer("identity_mismatch")
    /\ UNCHANGED <<files, machine, world>>

(* `tailscale funnel`: it may also take effect and be reported as failed.  *)
SetFunnel ==
    /\ pc = "funnel"
    /\ LET enable == command[op].kind = "enable"
           failed == IF enable THEN "funnel_enable_failed"
                     ELSE "funnel_disable_failed"
       IN  \/ /\ daemon = "up" /\ funnel' = enable
              /\ Proceed("persist") \/ Answer(failed)
           \/ /\ UNCHANGED funnel
              /\ Answer(failed)
    /\ UNCHANGED <<files, node, running, logins, daemon, world>>

PersistActive ==
    /\ pc = "persist"
    /\ active' = Target(op)
    /\ Answer("complete")
    /\ UNCHANGED <<requests, records, replies, machine, world>>

BeginDisconnect ==
    /\ Executes("disconnect")
    /\ journal' = [journal EXCEPT ![op] = IF @ = None THEN "prepared" ELSE @]
    /\ Proceed("disconnect")
    /\ UNCHANGED <<requests, records, acks, results, active, machine, world>>

-----------------------------------------------------------------------------
(* resume_disconnect.                                                      *)

InPhase(ph) == pc = "disconnect" /\ journal[op] = ph
Enter(ph) ==
    /\ journal' = [journal EXCEPT ![op] = ph]
    /\ UNCHANGED <<acks, results>>

(* Mutant: any running node may be torn down.                              *)
CheckTeardownAnyNode ==
    /\ InPhase("prepared")
    /\ \/ daemon = "up" /\ running /\ Enter("funnel_disabling") /\ Proceed("disconnect")
       \/ Answer("identity_mismatch") /\ UNCHANGED replies
    /\ UNCHANGED <<requests, records, active, machine, world>>

CheckTeardown ==
    /\ InPhase("prepared")
    /\ \/ Matches /\ running /\ Enter("funnel_disabling") /\ Proceed("disconnect")
       \/ Answer("identity_mismatch") /\ UNCHANGED replies
    /\ UNCHANGED <<requests, records, active, machine, world>>

TeardownFunnel ==
    /\ InPhase("funnel_disabling")
    /\ \/ daemon = "up" /\ funnel' = FALSE /\ Proceed("resetDone")
       \/ /\ Answer("funnel_disable_failed")
          /\ \/ daemon = "up" /\ funnel' = FALSE
             \/ UNCHANGED funnel
    /\ UNCHANGED <<files, node, running, logins, daemon, world>>

(* A failed logout is taken for done when the backend says NeedsLogin.     *)
TeardownLogout ==
    /\ InPhase("provider_logging_out")
    /\ \/ daemon = "up" /\ node' = None /\ running' = FALSE
       \/ UNCHANGED <<node, running>>
    /\ \/ daemon = "up" /\ ~running' /\ Proceed("logoutDone")
       \/ Answer("logout_failed")
    /\ UNCHANGED <<files, funnel, logins, daemon, world>>

(* The phases that are only written.                                       *)
Advance ==
    /\ \/ pc = "resetDone" /\ Enter("funnel_disabled")
       \/ InPhase("funnel_disabled") /\ Enter("provider_logging_out")
       \/ pc = "logoutDone" /\ Enter("provider_logged_out")
       \/ InPhase("provider_logged_out") /\ Enter("local_state_deleting")
    /\ Proceed("disconnect")
    /\ UNCHANGED <<requests, records, active, machine, world>>

(* Mutant: the deletion is recorded as done before it is done.             *)
StartDeletionEarlyPhase ==
    /\ InPhase("local_state_deleting")
    /\ loginFile' = FALSE /\ login' = "none" /\ loginAge' = "none"
    /\ daemon' = "down"
    /\ Enter("local_state_deleted") /\ Proceed("deleting")
    /\ UNCHANGED <<requests, records, active, provider, world>>

StartDeletion ==
    /\ InPhase("local_state_deleting")
    /\ loginFile' = FALSE /\ login' = "none" /\ loginAge' = "none"
    /\ daemon' = "down"
    /\ Proceed("deleting")
    /\ UNCHANGED <<files, provider, world>>

(* Everything under STATE_DIR goes in the directory's order: the active    *)
(* identity, tailscaled.state, and the journals of other operations.       *)
DeleteEntry ==
    /\ pc = "deleting"
    /\ \/ /\ active # None /\ active' = None
          /\ UNCHANGED <<provider, journal>>
       \/ /\ node # None \/ running \/ funnel
          /\ node' = None /\ running' = FALSE /\ funnel' = FALSE
          /\ UNCHANGED <<active, journal>>
       \/ \E o \in Ops \ {op} :
             /\ journal[o] # None
             /\ journal' = [journal EXCEPT ![o] = None]
             /\ UNCHANGED <<active, provider>>
    /\ UNCHANGED <<requests, records, acks, results, logins, daemon, control,
                   world>>

DeletionDone ==
    /\ pc = "deleting"
    /\ active = None /\ node = None /\ ~running /\ ~funnel
    /\ \A o \in Ops \ {op} : journal[o] = None
    /\ Enter("local_state_deleted")
    /\ daemon' = "starting"
    /\ Proceed("disconnect")
    /\ UNCHANGED <<requests, records, active, provider, logins, world>>

FinishDisconnect ==
    /\ InPhase("local_state_deleted") \/ InPhase("complete")
    /\ Enter("complete")
    /\ Answer("complete")
    /\ UNCHANGED <<requests, records, active, machine, world>>

-----------------------------------------------------------------------------
(* publish_result, and the end of process_claim or of a journal's turn.    *)

Publish ==
    /\ pc = "answer"
    /\ results' = results \cup {op}
    /\ answered' = answered \cup {op}
    /\ pc' = back /\ reply' = None
    /\ op' = IF back = "journals" THEN None ELSE op
    /\ UNCHANGED <<requests, records, acks, journal, active, machine, back,
                   booting, client, budgets>>

(* Mutant: the operation is not forgotten with its claim.                  *)
UnclaimKeepsOperation ==
    /\ pc = "unclaim"
    /\ processing' = processing \ {op}
    /\ pc' = "idle" /\ back' = "idle"
    /\ UNCHANGED <<operations, queue, records, replies, active, machine, op,
                   reply, booting, world>>

Unclaim ==
    /\ pc = "unclaim"
    /\ processing' = processing \ {op}
    /\ pc' = "idle" /\ op' = None /\ back' = "idle"
    /\ UNCHANGED <<operations, queue, records, replies, active, machine,
                   reply, booting, world>>

Supervisor ==
    \/ Boot \/ BeginPass
    \/ \E o \in Ops : \/ TakeAck(o)
                      \/ SweepOperation(o) \/ SweepRecord(o) \/ Trim(o)
                      \/ ResumeJournal(o) \/ Relink(o)
                      \/ DropClaim(o) \/ ResumeClaim(o)
                      \/ DropQueued(o) \/ TakeQueued(o)
    \/ ForgetResult \/ ForgetJournal \/ ForgetAck \/ AcksDone \/ SweepDone
    \/ JournalsDone \/ OperationsDone \/ ClaimNothing
    \/ Reject \/ BeginLogin \/ CancelLogin \/ ClearLogin
    \/ CheckIdentity \/ SetFunnel \/ PersistActive \/ BeginDisconnect
    \/ CheckTeardown \/ TeardownFunnel \/ TeardownLogout \/ Advance
    \/ StartDeletion \/ DeleteEntry \/ DeletionDone \/ FinishDisconnect
    \/ Publish \/ Unclaim

-----------------------------------------------------------------------------
(* The application: it records an operation, links the record into the     *)
(* queue, and acknowledges the result that it read.  An acknowledgement    *)
(* that is not whole is written again while the result is there.           *)

Submit(o, kind, identity) ==
    /\ app[o] = "new"
    /\ (identity = None) = (kind \notin Targeted)
    /\ app' = [app EXCEPT ![o] = "recorded"]
    /\ command' = [command EXCEPT ![o] = [kind |-> kind, target |-> identity]]
    /\ operations' = operations \cup {o}
    /\ UNCHANGED <<queue, processing, records, replies, active, machine,
                   control, answered, budgets>>

Enqueue(o) ==
    /\ app[o] = "recorded" /\ o \in operations
    /\ app' = [app EXCEPT ![o] = "queued"]
    /\ queue' = queue \cup {o}
    /\ UNCHANGED <<operations, processing, records, replies, active, machine,
                   control, command, answered, budgets>>

Acknowledge(o, kind) ==
    /\ o \in results /\ acks[o] # "whole"
    /\ acks' = [acks EXCEPT ![o] = kind]
    /\ kind = "torn" => events < MaxEvents
    /\ events' = IF kind = "torn" THEN events + 1 ELSE events
    /\ UNCHANGED <<requests, records, results, journal, active, machine,
                   control, client, answered, used, crashes>>

Application ==
    /\ pc \in {"idle", "down"}
    /\ \E o \in Ops :
         \/ \E kind \in Kinds, identity \in Identities \cup {None} :
               Submit(o, kind, identity)
         \/ Enqueue(o)
         \/ \E kind \in {"torn", "whole"} : Acknowledge(o, kind)

-----------------------------------------------------------------------------
(* The provider, tailscaled and the clock.                                 *)

QuietSupervisor == ProviderRaces \/ pc \in {"idle", "down"}

(* `tailscale up` ends: it registered this node anew, renewed the login of *)
(* the node, or did neither.                                               *)
LoginEnds ==
    /\ login = "running" /\ QuietSupervisor
    /\ login' = "ended"
    /\ \/ /\ daemon = "up" /\ node = None
          /\ \E i \in Identities \ used : node' = i /\ used' = used \cup {i}
          /\ running' = TRUE
       \/ /\ daemon = "up" /\ node # None
          /\ running' = TRUE
          /\ UNCHANGED <<node, used>>
       \/ UNCHANGED <<node, running, used>>
    /\ UNCHANGED <<files, funnel, loginFile, loginAge, daemon, control,
                   client, answered, crashes, events>>

LoginAges ==
    /\ loginAge = "fresh"
    /\ loginAge' = "old"
    /\ UNCHANGED <<files, provider, loginFile, login, daemon, control, world>>

DaemonReady ==
    /\ daemon = "starting"
    /\ daemon' = "up"
    /\ UNCHANGED <<files, provider, logins, control, world>>

Event == events < MaxEvents /\ events' = events + 1

DaemonDies ==
    /\ Event
    /\ daemon # "down" /\ daemon' = "down"
    /\ UNCHANGED <<files, provider, logins, control, client, answered, used,
                   crashes>>

(* The node's key expires, or the node is deleted at the provider.         *)
NodeExpires ==
    /\ Event /\ QuietSupervisor
    /\ running /\ running' = FALSE
    /\ node' \in {node, None}
    /\ UNCHANGED <<files, funnel, logins, daemon, control, client, answered,
                   used, crashes>>

(* A month passes: no claim is left waiting that long.                     *)
RecordAges(o) ==
    /\ Expires /\ pc = "idle"
    /\ o \in completed \ (old \cup queue \cup processing)
    /\ old' = old \cup {o}
    /\ UNCHANGED <<requests, completed, replies, active, machine, control,
                   world>>

Environment == \/ Crash \/ LoginEnds \/ LoginAges \/ DaemonReady \/ DaemonDies
               \/ NodeExpires \/ \E o \in Ops : RecordAges(o)

-----------------------------------------------------------------------------
(* The sidecar's first start, on a new node or on a registered one.        *)
Init ==
    /\ operations = {} /\ queue = {} /\ processing = {}
    /\ completed = {} /\ old = {}
    /\ acks = [o \in Ops |-> "none"]
    /\ results = {} /\ journal = [o \in Ops |-> None]
    /\ node \in Identities \cup {None} /\ running = (node # None)
    /\ active \in {None, node}
    /\ funnel \in BOOLEAN /\ (funnel => running /\ active = node)
    /\ used = {node} \ {None}
    /\ loginFile = FALSE /\ login = "none" /\ loginAge = "none"
    /\ daemon = "down"
    /\ pc = "down" /\ op = None /\ back = "idle" /\ reply = None
    /\ booting = FALSE
    /\ command = [o \in Ops |-> [kind |-> "invalid", target |-> None]]
    /\ app = [o \in Ops |-> "new"]
    /\ answered = {}
    /\ crashes = 0 /\ events = 0

Next == Supervisor \/ Application \/ Environment

Spec == Init /\ [][Next]_vars

(* The supervisor is a loop that the container restarts, tailscaled comes  *)
(* up when started, and time passes.  Nothing is asked of the application, *)
(* of the provider or of the login.                                        *)
FairSpec == /\ Spec
            /\ WF_vars(Supervisor) /\ WF_vars(DaemonReady) /\ WF_vars(LoginAges)

-----------------------------------------------------------------------------
(* Properties.                                                             *)

Busy == {"forgetResult", "forgetJournal", "forgetAck", "execute", "funnel",
         "persist", "disconnect", "resetDone", "logoutDone", "deleting",
         "answer", "unclaim"}

(* Types; and the supervisor has an operation exactly while it works on    *)
(* one, and an answer in hand exactly when it is about to publish it.      *)
TypeOK ==
    /\ operations \subseteq Ops /\ queue \subseteq Ops /\ processing \subseteq Ops
    /\ completed \subseteq Ops /\ old \subseteq completed
    /\ acks \in [Ops -> {"none", "torn", "whole"}]
    /\ results \subseteq answered /\ answered \subseteq Ops
    /\ journal \in [Ops -> Phases \cup {None}]
    /\ active \in Identities \cup {None} /\ node \in Identities \cup {None}
    /\ running \in BOOLEAN /\ funnel \in BOOLEAN
    /\ loginFile \in BOOLEAN /\ login \in {"none", "running", "ended"}
    /\ loginAge \in {"none", "fresh", "old"}
    /\ daemon \in {"down", "starting", "up"}
    /\ pc \in Busy \cup {"down", "idle", "acks", "sweep", "journals",
                         "operations", "claim"}
    /\ back \in {"idle", "acks", "claim", "journals", "unclaim"}
    /\ op \in Ops \cup {None} /\ (op # None <=> pc \in Busy)
    /\ reply \in Answers \cup {None} /\ (reply # None <=> pc = "answer")
    /\ booting \in BOOLEAN
    /\ command \in [Ops -> [kind : Commands, target : Identities \cup {None}]]
    /\ app \in [Ops -> {"new", "recorded", "queued"}]
    /\ used \subseteq Identities
    /\ crashes \in 0..MaxCrashes /\ events \in 0..MaxEvents

(* An operation that was answered is never executed again, whatever the    *)
(* crash left of its claim, its queue entry, its result, its               *)
(* acknowledgement and its record (lines 576-590, 637-671).                *)
NoRepeat == [][pc' = "execute" /\ pc # "execute" => op' \notin answered]_vars

(* PROCESSING_DIR holds at most the one claim that is worked on, so a      *)
(* restart has one command to take up again (lines 637-671).               *)
OneAtATime == Cardinality(processing) <= 1

(* The first answer "complete" to a disconnect is true: the node is        *)
(* unregistered and nothing of its state or of a login is left, whatever   *)
(* phases a crash cut short (lines 504-521).                               *)
AnswersTrue ==
    [][\A o \in answered' \ answered :
         command[o].kind = "disconnect" /\ reply = "complete" =>
            node = None /\ active = None /\ ~funnel /\ ~loginFile]_vars

TearsDown == node # None /\ node' = None /\ pc \in {"disconnect", "deleting"}

(* While a disconnect is unanswered it logs out, and deletes the state of, *)
(* no node but the one it names, in whatever phase a crash left it and     *)
(* whatever the provider did meanwhile (lines 453-517).                    *)
TeardownNamed == [][TearsDown /\ op \notin answered => node = Target(op)]_vars

(* CHANGELOG.md:97 promises identity-bound destructive operations: no      *)
(* disconnect, answered or not, ever tears down another node.              *)
IdentityBound == [][TearsDown => node = Target(op)]_vars

(* Completed records that are old or too many are dropped only when no     *)
(* queue entry and no claim is left that they settle (lines 600-614).      *)
RecordsKept == [][\A o \in completed \ completed' : o \notin queue \cup processing]_vars

(* With that, the files are the queue that CommandQueue describes: an      *)
(* operation is claimed alone, taken up again after a crash, answered, not *)
(* executed after its answer, and once its acknowledgement is consumed its *)
(* result never comes back (lines 524-671).                                *)
Working == {"execute", "funnel", "persist", "disconnect", "resetDone",
            "logoutDone", "deleting", "answer"}
Executing ==
    IF pc \in Working /\ (op \notin answered \/ back = "unclaim") THEN {op} ELSE {}
CQ == INSTANCE CommandQueue WITH
        recorded <- {o \in Ops : app[o] # "new"},
        claim <- processing,
        running <- Executing,
        acked <- {o \in Ops : acks[o] = "whole"}
QueueSpec == CQ!Spec

(* Every operation that the application recorded is answered, even if the  *)
(* application dies before it links it into the queue, and in spite of     *)
(* crashes (lines 559-590, 637-671).                                       *)
EveryOperationAnswered ==
    \A o \in Ops : o \in operations ~> o \in answered

(* A whole acknowledgement is consumed: result, journal and operation      *)
(* record all go, though crashes interrupt the removal and the recovery of *)
(* the journal publishes its result again (lines 592-635).                 *)
Consumed ==
    \A o \in Ops :
        acks[o] = "whole" ~> /\ o \notin results /\ journal[o] = None
                             /\ o \notin operations

(* login.json, which holds an authorization URL, does not outlive its      *)
(* login for good (lines 76-78, 673-680, 693-698).                         *)
LoginSecretExpires == loginFile ~> ~loginFile \/ login = "running"
=============================================================================
