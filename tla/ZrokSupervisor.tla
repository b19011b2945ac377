--------------------------- MODULE ZrokSupervisor ---------------------------
(***************************************************************************)
(* The zrok sidecar (hooks/zrok-supervisor.sh): it takes the commands that *)
(* lnSwitchboard leaves in CONTROL, drives the provider (environment,      *)
(* reserved names, shares), keeps what it did in ACTIVE and answers in     *)
(* STATUS.  The share process runs beside it, and what it prints is read   *)
(* by a drain that writes ACTIVE and STATUS itself.  Every call of the     *)
(* provider may fail, also after it took effect, the container may be      *)
(* killed at any point, and it is started again.                           *)
(***************************************************************************)
EXTENDS Naturals

CONSTANTS
    Names,        \* reserved names of the account (with their namespace)
    None,
    MaxCommands,  \* bound: commands of lnSwitchboard
    MaxFaults     \* bound: failed calls, timeouts, lost processes, kills

(* What the files may say.                                                 *)
Commands == [op : 1 .. MaxCommands, name : Names]
Actives == [phase : {"starting", "active", "cleanup"}, name : Names,
            op : 1 .. MaxCommands, endpoints : BOOLEAN]
Statuses == [state : {"connected", "disconnected", "error", "refresh_complete"},
             op : 1 .. MaxCommands, name : Names]

ASSUME ZrokAssumption ==
    /\ Names # {} /\ None \notin Names
    /\ None \notin Commands \cup Actives \cup Statuses
    /\ MaxCommands \in Nat /\ MaxFaults \in Nat

VARIABLES
    enabled, names, shares,  \* provider: environment, names, shares in it
    active,                  \* the ACTIVE file
    status,                  \* status.json
    control,                 \* the command files
    share,                   \* the share process; its name is share_pid being set
    drain,                   \* what the drain does next
    pc,
    job,                     \* operation_id, name, created; at boot or not
    commands, faults

provider == <<enabled, names, shares>>
process == <<share, drain>>
vars == <<provider, active, status, control, process, pc, job, commands, faults>>

Kinds == {"configure", "disconnect", "refresh"}
NoShare == [name |-> None, alive |-> FALSE]

Init ==
    /\ enabled = FALSE /\ names \in SUBSET Names /\ shares = {}
    /\ active = None /\ status = None
    /\ control = [k \in Kinds |-> None]
    /\ share = NoShare /\ drain = "none"
    /\ pc = "down"
    /\ job = [op |-> 0, name |-> CHOOSE n \in Names : TRUE,
              created |-> FALSE, boot |-> TRUE]
    /\ commands = 0 /\ faults = 0

-----------------------------------------------------------------------------
Goto(from, to) == pc = from /\ pc' = to /\ UNCHANGED <<job, commands>>
Calm == UNCHANGED faults
Fault == faults < MaxFaults /\ faults' = faults + 1

(* atomic_active, atomic_status                                            *)
Record(phase, known) ==
    active' = [phase |-> phase, name |-> job.name, op |-> job.op,
               endpoints |-> known]
Say(state) == status' = [state |-> state, op |-> job.op, name |-> job.name]

(* stop_share: the process may or may not delete its share.                *)
StopShare ==
    /\ share' = NoShare /\ drain' = "none"
    /\ shares' \in {shares, shares \ {share.name}}

(* A failed command of the loop, or a failed boot.                         *)
Fail(from) ==
    /\ Goto(from, IF job.boot THEN "down" ELSE "main")
    /\ Say("error")

(* The shares that cleanup_fixed_shares deletes: with the endpoints that    *)
(* ACTIVE knows, or all of the environment.                                *)
Matching ==
    IF active # None /\ active.endpoints THEN shares \cap {active.name}
    ELSE shares
DeleteShares == shares' = shares \ Matching
DeleteSomeShares == \E kept \in SUBSET Matching : shares' = (shares \ Matching) \cup kept

(* zrok2 disable takes the shares of the environment with it; a call that   *)
(* fails may have taken effect.                                            *)
Disabled == enabled' = FALSE /\ shares' = {}
MaybeDisabled == Disabled \/ UNCHANGED <<enabled, shares>>

(* enabled(): a zrok2 status that fails says no.                           *)
SeenDisabled == IF enabled THEN Fault ELSE Calm

-----------------------------------------------------------------------------
(* Start of the supervisor: ACTIVE says what was going on.                 *)
BootCommands ==
    /\ pc = "down" /\ active = None
    /\ pc' = "main"
    /\ job' = [job EXCEPT !.boot = FALSE]
    /\ UNCHANGED <<provider, active, status, control, process, commands, faults>>
BootAsRecovery ==   \* mutant: the operation that ACTIVE names is not taken up
    /\ pc = "down" /\ active # None
    /\ job' = [op |-> 0, name |-> active.name, created |-> FALSE, boot |-> TRUE]
    /\ pc' = "recover"
    /\ UNCHANGED <<provider, active, status, control, process, commands, faults>>
BootActive ==
    /\ pc = "down" /\ active # None
    /\ job' = [op |-> active.op, name |-> active.name, created |-> FALSE,
               boot |-> TRUE]
    /\ pc' = "recover"
    /\ UNCHANGED <<provider, active, status, control, process, commands, faults>>
RecoverCleanup ==
    /\ Goto("recover", "take") /\ Calm
    /\ active.phase = "cleanup"
    /\ control' = [control EXCEPT !["disconnect"] = [op |-> job.op, name |-> job.name]]
    /\ UNCHANGED <<provider, active, status, process>>
RecoverShare ==
    /\ Goto("recover", "start") /\ Calm
    /\ active.phase # "cleanup" /\ enabled
    /\ DeleteShares
    /\ UNCHANGED <<enabled, names, active, status, control, process>>
RecoverFails ==
    /\ Goto("recover", "down")
    /\ active.phase # "cleanup"
    /\ \/ enabled /\ Fault /\ DeleteSomeShares /\ UNCHANGED status
       \/ SeenDisabled /\ Say("error") /\ UNCHANGED shares
    /\ UNCHANGED <<enabled, names, active, control, process>>

(* The main loop.                                                          *)
ShareLost ==
    /\ Goto("main", "down") /\ Calm
    /\ share.name # None /\ ~share.alive
    /\ Say("error")
    /\ share' = NoShare
    /\ UNCHANGED <<provider, active, control, drain>>
Removing == [configure |-> "rmConfigure", disconnect |-> "rmDisconnect",
             refresh |-> "rmRefresh"]
Ready == pc = "main" /\ (share.name # None => share.alive)
Take(kind) ==
    /\ control[kind] # None
    /\ \/ /\ Ready
          /\ kind = "configure" => control["disconnect"] = None
          /\ kind = "refresh" => control["disconnect"] = None /\ control["configure"] = None
       \/ pc = "take" /\ kind = "disconnect"
    /\ pc' = Removing[kind]
    /\ job' = [op |-> control[kind].op, name |-> control[kind].name,
               created |-> FALSE, boot |-> pc = "take"]
    /\ UNCHANGED <<provider, active, status, control, process, commands, faults>>
(* cat and rm are two commands: what was written in between is gone.       *)
Remove(kind) ==
    /\ Goto(Removing[kind], kind) /\ Calm
    /\ control' = [control EXCEPT ![kind] = None]
    /\ UNCHANGED <<provider, active, status, process>>

-----------------------------------------------------------------------------
(* configure: what was enabled before is cleaned and disabled.             *)
ConfigureServing ==   \* mutant: the share served so far is not stopped
    /\ \/ enabled /\ Goto("configure", "clean") /\ Calm
       \/ Goto("configure", "enable") /\ SeenDisabled
    /\ UNCHANGED <<provider, active, status, control, process>>
Configure ==
    /\ \/ enabled /\ Goto("configure", "clean") /\ Calm
       \/ Goto("configure", "enable") /\ SeenDisabled
    /\ StopShare
    /\ UNCHANGED <<enabled, names, active, status, control>>
Clean ==
    /\ Goto("clean", "disable") /\ Calm
    /\ DeleteShares
    /\ UNCHANGED <<enabled, names, active, status, control, process>>
Disable ==
    /\ Goto("disable", "enable") /\ Calm
    /\ Disabled
    /\ UNCHANGED <<names, active, status, control, process>>
(* zrok2 enable refuses an environment that is enabled already.            *)
Enable ==
    /\ Goto("enable", "reserve") /\ Calm
    /\ ~enabled /\ enabled' = TRUE
    /\ UNCHANGED <<names, shares, active, status, control, process>>
Reserve ==
    /\ pc = "reserve" /\ pc' = "record" /\ Calm
    /\ names' = names \cup {job.name}
    /\ job' = [job EXCEPT !.created = job.name \notin names]
    /\ UNCHANGED <<enabled, shares, active, status, control, process, commands>>
ConfigureFailsSilently ==   \* mutant: a failed reconfiguration is not told
    /\ \E step \in {"clean", "disable", "enable"} : Goto(step, "main")
    /\ IF pc = "enable" /\ enabled THEN Calm ELSE Fault
    /\ CASE pc = "clean" -> DeleteSomeShares /\ UNCHANGED enabled
         [] pc = "disable" -> MaybeDisabled
         [] pc = "enable" -> enabled' \in {TRUE, enabled} /\ UNCHANGED shares
    /\ UNCHANGED <<names, active, status, control, process>>
ConfigureFails ==
    /\ \E step \in {"clean", "disable", "enable"} : Fail(step)
    /\ IF pc = "enable" /\ enabled THEN Calm ELSE Fault
    /\ CASE pc = "clean" -> DeleteSomeShares /\ UNCHANGED enabled
         [] pc = "disable" -> MaybeDisabled
         [] pc = "enable" -> enabled' \in {TRUE, enabled} /\ UNCHANGED shares
    /\ UNCHANGED <<names, active, control, process>>
ReserveFails ==
    /\ Fail("reserve") /\ Fault
    /\ names' \in {names, names \cup {job.name}}
    /\ MaybeDisabled   \* zrok2 disable || true
    /\ UNCHANGED <<active, control, process>>
RecordStarting ==
    /\ Goto("record", "start") /\ Calm
    /\ Record("starting", FALSE)
    /\ UNCHANGED <<provider, status, control, process>>

-----------------------------------------------------------------------------
(* start_share, the share process and the drain.                           *)
StartShare ==
    /\ Goto("start", "starting") /\ Calm
    /\ status' = None
    /\ share' = [name |-> job.name, alive |-> TRUE] /\ drain' = "boot"
    /\ UNCHANGED <<provider, active, control>>
CanBoot == enabled /\ share.name \in names \ shares
ShareBoots ==
    /\ share.alive /\ drain = "boot" /\ CanBoot
    /\ shares' = shares \cup {share.name}
    /\ drain' = "record"
    /\ UNCHANGED <<enabled, names, active, status, control, share, pc, job,
                   commands, faults>>
ShareDies ==
    /\ share.alive
    /\ IF drain = "boot" /\ ~CanBoot THEN Calm ELSE Fault
    /\ share' = [share EXCEPT !.alive = FALSE]
    /\ drain' = IF drain = "boot" THEN "none" ELSE drain
    /\ shares' \in {shares, shares \ {share.name}}
    /\ UNCHANGED <<enabled, names, active, status, control, pc, job, commands>>
DrainRecords ==
    /\ drain = "record" /\ drain' = "announce"
    /\ Record("active", TRUE)
    /\ UNCHANGED <<provider, status, control, share, pc, job, commands, faults>>
DrainAnnounces ==
    /\ drain = "announce" /\ drain' = "none"
    /\ Say("connected")
    /\ UNCHANGED <<provider, active, control, share, pc, job, commands, faults>>

Connected == status # None /\ status.state = "connected" /\ status.op = job.op
Started ==
    /\ pc = "starting" /\ pc' = "main" /\ Calm
    /\ Connected /\ share.alive
    /\ job' = [job EXCEPT !.boot = FALSE]
    /\ UNCHANGED <<provider, active, status, control, process, commands>>
StartFailsSilently ==   \* mutant: a failed start is not told
    /\ Goto("starting", IF job.boot THEN "down" ELSE "undo")
    /\ ~(Connected /\ share.alive)
    /\ IF share.alive THEN Fault ELSE Calm
    /\ StopShare
    /\ UNCHANGED <<enabled, names, active, status, control>>
(* It died, or 30 seconds have passed.                                     *)
StartFails ==
    /\ Goto("starting", IF job.boot THEN "down" ELSE "undo")
    /\ ~(Connected /\ share.alive)
    /\ IF share.alive THEN Fault ELSE Calm
    /\ StopShare
    /\ Say("error")
    /\ UNCHANGED <<enabled, names, active, control>>

(* configure undoes what it did.                                           *)
Undo ==
    /\ Goto("undo", "undoName") /\ Calm
    /\ Record("cleanup", FALSE)
    /\ UNCHANGED <<provider, status, control, process>>
UndoName ==
    /\ Goto("undoName", "undoEnable") /\ Calm
    /\ names' = IF job.created THEN names \ {job.name} ELSE names
    /\ UNCHANGED <<enabled, shares, active, status, control, process>>
UndoEnable ==
    /\ Goto("undoEnable", "undone") /\ Calm
    /\ Disabled
    /\ UNCHANGED <<names, active, status, control, process>>
UndoFails ==
    /\ Fault
    /\ \/ /\ job.created /\ Fail("undoName")
          /\ names' \in {names, names \ {job.name}}
          /\ UNCHANGED <<enabled, shares>>
       \/ Fail("undoEnable") /\ MaybeDisabled /\ UNCHANGED names
    /\ UNCHANGED <<active, control, process>>
Undone ==
    /\ Goto("undone", "main") /\ Calm
    /\ active' = None
    /\ UNCHANGED <<provider, status, control, process>>

-----------------------------------------------------------------------------
(* disconnect                                                              *)
Known == active # None /\ active.name = job.name
DisconnectNothing ==
    /\ Goto("disconnect", "main")
    /\ active = None /\ SeenDisabled
    /\ Say("disconnected")
    /\ UNCHANGED <<provider, active, control, process>>
DisconnectRefused ==
    /\ Fail("disconnect") /\ Calm
    /\ active = None => enabled
    /\ ~Known
    /\ UNCHANGED <<provider, active, control, process>>
Disconnect ==
    /\ Goto("disconnect", "deleteShares") /\ Calm
    /\ Known
    /\ Record("cleanup", active.endpoints)
    /\ StopShare
    /\ UNCHANGED <<enabled, names, status, control>>
DisconnectShares ==
    /\ Goto("deleteShares", "deleteName") /\ Calm
    /\ enabled /\ DeleteShares
    /\ UNCHANGED <<enabled, names, active, status, control, process>>
DisconnectKnownName ==   \* mutant: a name that is gone already is an error
    /\ Goto("deleteName", "leave") /\ Calm
    /\ job.name \in names /\ names' = names \ {job.name}
    /\ UNCHANGED <<enabled, shares, active, status, control, process>>
DisconnectName ==
    /\ Goto("deleteName", "leave") /\ Calm
    /\ names' = names \ {job.name}
    /\ UNCHANGED <<enabled, shares, active, status, control, process>>
DisconnectUnchecked ==   \* mutant: a failing zrok2 disable is not noticed
    /\ Goto("leave", "forget") /\ Calm
    /\ MaybeDisabled
    /\ UNCHANGED <<names, active, status, control, process>>
DisconnectEnvironment ==
    /\ Goto("leave", "forget") /\ Calm
    /\ Disabled
    /\ UNCHANGED <<names, active, status, control, process>>
DisconnectFails ==
    /\ \E step \in {"deleteShares", "deleteName", "leave"} : Fail(step)
    /\ IF pc = "deleteShares" /\ ~enabled THEN Calm ELSE Fault
    /\ CASE pc = "deleteShares" -> DeleteSomeShares /\ UNCHANGED <<enabled, names>>
         [] pc = "deleteName" -> /\ names' \in {names, names \ {job.name}}
                                 /\ UNCHANGED <<enabled, shares>>
         [] pc = "leave" -> MaybeDisabled /\ UNCHANGED names
    /\ UNCHANGED <<active, control, process>>
Forget ==
    /\ Goto("forget", "answer") /\ Calm
    /\ active' = None
    /\ UNCHANGED <<provider, status, control, process>>
Answer ==
    /\ pc = "answer" /\ pc' = "main" /\ Calm
    /\ Say("disconnected")
    /\ job' = [job EXCEPT !.boot = FALSE]
    /\ UNCHANGED <<provider, active, control, process, commands>>

(* refresh: exactly one share must have the endpoints that ACTIVE knows.    *)
Served == share.alive /\ active # None /\ active.endpoints
Refresh ==
    /\ Goto("refresh", "main")
    /\ \/ Served /\ active.name \in shares /\ Calm /\ Say("refresh_complete")
       \/ Served /\ Fault /\ Say("error")
       \/ ~(Served /\ active.name \in shares) /\ Calm /\ Say("error")
    /\ UNCHANGED <<provider, active, control, process>>

Supervisor ==
    \/ BootCommands \/ BootActive \/ RecoverCleanup \/ RecoverShare
    \/ RecoverFails \/ ShareLost \/ \E k \in Kinds : Take(k) \/ Remove(k)
    \/ Configure \/ Clean \/ Disable \/ Enable \/ Reserve \/ ConfigureFails
    \/ ReserveFails \/ RecordStarting \/ StartShare \/ Started \/ StartFails
    \/ Undo \/ UndoName \/ UndoEnable \/ UndoFails \/ Undone
    \/ DisconnectNothing \/ DisconnectRefused \/ Disconnect
    \/ DisconnectShares \/ DisconnectName \/ DisconnectEnvironment
    \/ DisconnectFails \/ Forget \/ Answer \/ Refresh
ShareProcess ==
    \/ ShareBoots \/ ShareDies \/ DrainRecords \/ DrainAnnounces

-----------------------------------------------------------------------------
(* lnSwitchboard leaves a command; a newer one replaces it.                *)
Command ==
    /\ commands < MaxCommands /\ commands' = commands + 1
    /\ \E k \in Kinds, n \in Names :
         control' = [control EXCEPT ![k] = [op |-> commands', name |-> n]]
    /\ UNCHANGED <<provider, active, status, process, pc, job, faults>>
Kill ==
    /\ Fault
    /\ pc # "down" /\ pc' = "down"
    /\ StopShare
    /\ UNCHANGED <<enabled, names, active, status, control, job, commands>>

Next == Supervisor \/ ShareProcess \/ Command \/ Kill

Spec == Init /\ [][Next]_vars

(* The supervisor goes on and is started again; the share process and the  *)
(* drain go on.                                                            *)
FairSpec == Spec /\ WF_vars(Supervisor) /\ WF_vars(ShareProcess)

-----------------------------------------------------------------------------
(* Every variable has its type. *)
TypeOK ==
    /\ enabled \in BOOLEAN /\ names \subseteq Names /\ shares \subseteq Names
    /\ active \in Actives \cup {None}
    /\ status \in Statuses \cup {None}
    /\ control \in [Kinds -> Commands \cup {None}]
    /\ share \in [name : Names \cup {None}, alive : BOOLEAN]
    /\ drain \in {"none", "boot", "record", "announce"}
    /\ job \in [op : 0 .. MaxCommands, name : Names, created : BOOLEAN,
                boot : BOOLEAN]
    /\ commands \in 0 .. MaxCommands /\ faults \in 0 .. MaxFaults

(* While a share is served, it is the only one of the environment, and     *)
(* ACTIVE says so: a restart finds what to clean and to start again, and a *)
(* refresh finds exactly one.                                              *)
OneShare ==
    pc = "main" /\ share.alive =>
      /\ enabled /\ shares = {share.name} /\ share.name \in names
      /\ active = [phase |-> "active", name |-> share.name, op |-> active.op,
                   endpoints |-> TRUE]

(* Disconnected is announced only when no process and no ACTIVE is left,   *)
(* and the environment is gone with its shares.  The last cannot be said   *)
(* if zrok2 status fails in that very step: an environment that ACTIVE      *)
(* never recorded is then taken for gone.                                  *)
DisconnectedIsDone ==
    [][status' # status /\ status' # None /\ status'.state = "disconnected" =>
         /\ share = NoShare /\ active = None
         /\ (~enabled /\ shares = {}) \/ faults' # faults]_vars

(* A command that was taken is answered, unless the supervisor ended.      *)
Answered ==
    \A o \in 1 .. MaxCommands :
      pc \in Kinds /\ ~job.boot /\ job.op = o
        ~> pc = "down" \/ (status # None /\ status.op = o)

(* However it was interrupted, the supervisor comes back to its loop,      *)
(* unless ACTIVE is left without an environment.                           *)
Stranded == active # None /\ ~enabled
Serves == []<>(pc = "main") \/ <>[]Stranded

(* In its loop the supervisor says connected only of the share that it     *)
(* still has, and that ACTIVE records under the same operation; what a     *)
(* failed or an interrupted operation leaves says something else, but for  *)
(* a kill between the removal of ACTIVE and the answer, after which        *)
(* nothing is recorded.                                                    *)
StatusHonest ==
    pc = "main" /\ status # None /\ status.state = "connected" =>
      \/ active = None
      \/ /\ share.name = active.name
         /\ active.phase = "active" /\ active.op = status.op

=============================================================================
