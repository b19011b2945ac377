------------------------ MODULE ZrokSupervisor_proofs ------------------------
(***************************************************************************)
(* Proofs about the zrok supervisor, for every set of names and any number  *)
(* of commands and faults.                                                 *)
(*                                                                         *)
(* The argument: a share process exists only in the loop, in the commands   *)
(* before they stop it, and while it is being started (Process); when one   *)
(* is started the environment is empty of shares (Clear), since a share    *)
(* whose endpoints ACTIVE knows is the only one; so the one that comes up   *)
(* is the only one (Serving), and nobody speaks but the drain until it is  *)
(* announced (Starting).  That a command, the recovery and a share find    *)
(* what they need is Ongoing, at the end.                                  *)
(***************************************************************************)
EXTENDS ZrokSupervisor, TLAPS

Loop == {"main", "configure", "disconnect", "refresh",
          "rmConfigure", "rmDisconnect", "rmRefresh"}
Steps == Loop \cup {"down", "recover", "take", "clean", "disable", "enable", "reserve",
           "record", "start", "starting", "undo", "undoName", "undoEnable", "undone",
           "deleteShares", "deleteName", "leave", "forget", "answer"}

Control ==
    /\ pc \in Steps
    /\ job.op = 0 => pc \in {"down", "main"} /\ share = NoShare
    /\ pc \in {"rmConfigure", "configure", "clean", "disable", "enable"} => ~job.boot

Process ==
    /\ share.name = None => ~share.alive
    /\ pc \notin Loop \cup {"starting"} => share = NoShare
    /\ pc \in Loop /\ job.boot => share = NoShare
    /\ pc # "starting" => drain = "none"
    /\ pc = "starting" => share.name = job.name

(* The job is the one that ACTIVE names.                                   *)
Own == active # None /\ active.name = job.name /\ active.op = job.op
Works == [phase |-> "active", name |-> share.name, op |-> active.op, endpoints |-> TRUE]
Recorded ==
    /\ pc \in {"recover", "start", "starting"} => Own
    /\ pc \in Loop /\ share.name # None => active # None /\ active = Works
    /\ pc = "answer" => active = None

Clear ==
    /\ ~enabled => shares = {}
    /\ pc \in {"reserve", "record", "start"} => shares = {}
    /\ pc = "starting" => shares \subseteq {share.name}
    /\ active # None /\ active.endpoints => shares \subseteq {active.name}
    /\ pc \in {"forget", "answer"} => ~enabled

Serving ==
    share.alive /\ drain # "boot" =>
      enabled /\ shares = {share.name} /\ share.name \in names

Starting ==
    /\ pc = "starting" /\ status # None =>
         /\ drain = "none" /\ status.state = "connected" /\ status.op = job.op
         /\ active = Works
    /\ drain = "announce" => active = Works
    /\ pc \in {"undo", "undoName", "undoEnable", "undone"} =>
         status # None /\ status.state = "error"

(* The inductive invariant. *)
IInv ==
    /\ TypeOK /\ Control /\ Process /\ Recorded /\ Clear /\ Serving
    /\ Starting /\ StatusHonest

-----------------------------------------------------------------------------
(* What is written to ACTIVE and to STATUS is of their types.              *)
LEMMA Written ==
    ASSUME TypeOK, job.op # 0
    PROVE  /\ \A phase \in {"starting", "active", "cleanup"} : \A known \in BOOLEAN :
                Record(phase, known) =>
                  /\ active' \in Actives /\ active' # None
                  /\ active' = [phase |-> phase, name |-> job.name, op |-> job.op,
                                endpoints |-> known]
           /\ \A state \in {"connected", "disconnected", "error", "refresh_complete"} :
                Say(state) =>
                  /\ status' \in Statuses /\ status' # None
                  /\ status' = [state |-> state, op |-> job.op, name |-> job.name]
  <1> USE ZrokAssumption
  <1>1. job.op \in 1 .. MaxCommands /\ job.name \in Names
    BY DEF TypeOK
  <1>2. ASSUME NEW phase \in {"starting", "active", "cleanup"}, NEW known \in BOOLEAN,
               Record(phase, known)
        PROVE  active' \in Actives /\ active' # None
    BY <1>1, <1>2 DEF Record, Actives
  <1>3. ASSUME NEW state \in {"connected", "disconnected", "error", "refresh_complete"},
               Say(state)
        PROVE  status' \in Statuses /\ status' # None
    BY <1>1, <1>3 DEF Say, Statuses
  <1> QED
    BY <1>2, <1>3 DEF Record, Say

LEMMA InitIInv == Init => IInv
  <1> SUFFICES ASSUME Init PROVE IInv
    OBVIOUS
  <1> USE ZrokAssumption DEF Init
  <1>1. enabled \in BOOLEAN /\ (CHOOSE n \in Names : TRUE) \in Names
    OBVIOUS
  <1>2. job \in [op : 0 .. MaxCommands, name : Names, created : BOOLEAN, boot : BOOLEAN]
    BY <1>1
  <1>3. TypeOK
    BY <1>1, <1>2 DEF TypeOK, NoShare, Kinds
  <1>4. Control /\ Process /\ Recorded /\ Clear /\ Serving /\ Starting /\ StatusHonest
    BY DEF Control, Steps, Loop, Process, Recorded, Clear, Serving, Starting,
           StatusHonest, NoShare
  <1> QED
    BY <1>3, <1>4 DEF IInv

-----------------------------------------------------------------------------
(* Type correctness of each step.                                          *)
LEMMA TypeStep == TypeOK /\ Control /\ Process /\ Recorded /\ [Next]_vars => TypeOK'
  <1> SUFFICES ASSUME TypeOK, Control, Process, Recorded, [Next]_vars PROVE TypeOK'
    OBVIOUS
  <1> USE ZrokAssumption DEF TypeOK, provider, process, Goto, Calm, Fault
  <1>f. Calm \/ Fault => faults' \in 0 .. MaxFaults
    OBVIOUS
  <1>s. StopShare =>
          /\ shares' \subseteq Names
          /\ share' \in [name : Names \cup {None}, alive : BOOLEAN]
                     /\ drain' = "none"
    BY DEF StopShare, NoShare
  <1>d. DeleteShares \/ DeleteSomeShares => shares' \subseteq Names
    BY DEF DeleteShares, DeleteSomeShares, Matching
  <1>1. CASE BootCommands
    <2>1. job' \in [op : 0 .. MaxCommands, name : Names, created : BOOLEAN, boot : BOOLEAN]
      BY <1>1 DEF BootCommands
    <2> QED
      BY <1>1, <2>1 DEF BootCommands
  <1>2. CASE BootActive
    <2>1. job' \in [op : 0 .. MaxCommands, name : Names, created : BOOLEAN, boot : BOOLEAN]
      BY <1>2 DEF BootActive, Actives
    <2> QED
      BY <1>2, <2>1 DEF BootActive
  <1>33. CASE RecoverCleanup
    <2>1. [op |-> job.op, name |-> job.name] \in Commands
      BY <1>33 DEF RecoverCleanup, Control, Commands
    <2> QED
      BY <1>33, <2>1 DEF RecoverCleanup
  <1>3. CASE RecoverShare \/ Clean
    BY <1>3, <1>d DEF RecoverShare, Clean
  <1>4. CASE RecoverFails
    BY <1>4, <1>d, <1>f, Written DEF RecoverFails, SeenDisabled, Control, Say
  <1>5. CASE ShareLost
    BY <1>5, Written DEF ShareLost, Control, NoShare
  <1>6. ASSUME NEW k \in Kinds, Take(k) PROVE TypeOK'
    <2>1. job' \in [op : 0 .. MaxCommands, name : Names, created : BOOLEAN, boot : BOOLEAN]
      <3>1. (pc = "take") \in BOOLEAN
        OBVIOUS
      <3>2. control[k] \in Commands
        BY <1>6 DEF Take
      <3> QED
        BY <1>6, <3>1, <3>2 DEF Take, Commands
    <2> QED
      BY <1>6, <2>1 DEF Take
  <1>34. ASSUME NEW k \in Kinds, Remove(k) PROVE TypeOK'
    BY <1>34 DEF Remove
  <1>7. CASE Configure
    BY <1>7, <1>s, <1>f DEF Configure, SeenDisabled
  <1>8. CASE Disable \/ Enable \/ UndoEnable \/ DisconnectEnvironment
    <2>1. enabled' \in BOOLEAN
      BY <1>8 DEF Disable, Enable, UndoEnable, DisconnectEnvironment, Disabled
    <2> QED
      BY <1>8, <2>1 DEF Disable, Enable, UndoEnable, DisconnectEnvironment, Disabled
  <1>9. CASE Reserve
    <2>1. job' \in [op : 0 .. MaxCommands, name : Names, created : BOOLEAN, boot : BOOLEAN]
      BY <1>9 DEF Reserve
    <2> QED
      BY <1>9, <2>1 DEF Reserve
  <1>10. CASE ConfigureFails
    <2>1. /\ enabled' \in BOOLEAN /\ shares' \subseteq Names
          /\ Calm \/ Fault
      BY <1>10, <1>d DEF ConfigureFails, Fail, MaybeDisabled, Disabled
    <2> QED
      BY <1>10, <2>1, <1>f, Written DEF ConfigureFails, Fail, Control
  <1>11. CASE ReserveFails
    BY <1>11, <1>f, Written DEF ReserveFails, MaybeDisabled, Disabled, Fail, Control
  <1>12. CASE RecordStarting
    BY <1>12, Written DEF RecordStarting, Control
  <1>13. CASE StartShare
    BY <1>13 DEF StartShare
  <1>14. CASE ShareBoots
    BY <1>14 DEF ShareBoots, CanBoot
  <1>15. CASE ShareDies
    <2>1. share' \in [name : Names \cup {None}, alive : BOOLEAN]
      BY <1>15 DEF ShareDies
    <2>2. faults' \in 0 .. MaxFaults
      BY <1>15, <1>f DEF ShareDies
    <2> QED
      BY <1>15, <2>1, <2>2 DEF ShareDies
  <1>16. CASE DrainRecords
    BY <1>16, Written DEF DrainRecords, Control, Process
  <1>17. CASE DrainAnnounces
    BY <1>17, Written DEF DrainAnnounces, Control, Process
  <1>18. CASE Started
    <2>1. job' \in [op : 0 .. MaxCommands, name : Names, created : BOOLEAN, boot : BOOLEAN]
      BY <1>18 DEF Started
    <2> QED
      BY <1>18, <2>1 DEF Started
  <1>19. CASE StartFails
    BY <1>19, <1>s, <1>f, Written DEF StartFails, Control
  <1>20. CASE Undo
    BY <1>20, Written DEF Undo, Control
  <1>21. CASE UndoName \/ Undone \/ DisconnectName \/ Forget
    BY <1>21 DEF UndoName, Undone, DisconnectName, Forget
  <1>22. CASE UndoFails
    <2>1. enabled' \in BOOLEAN /\ shares' \subseteq Names /\ names' \subseteq Names
      BY <1>22 DEF UndoFails, MaybeDisabled, Disabled
    <2> QED
      BY <1>22, <2>1, <1>f, Written DEF UndoFails, Fail, Control
  <1>23. CASE DisconnectNothing
    BY <1>23, <1>f, Written DEF DisconnectNothing, SeenDisabled, Control
  <1>24. CASE DisconnectRefused
    BY <1>24, Written DEF DisconnectRefused, Fail, Control
  <1>25. CASE Disconnect
    <2>1. active.endpoints \in BOOLEAN
      BY <1>25 DEF Disconnect, Known, Actives
    <2> QED
      BY <1>25, <2>1, <1>s, Written DEF Disconnect, Control
  <1>26. CASE DisconnectShares
    BY <1>26, <1>d DEF DisconnectShares
  <1>27. CASE DisconnectFails
    <2>1. /\ enabled' \in BOOLEAN /\ shares' \subseteq Names /\ names' \subseteq Names
          /\ Calm \/ Fault
      BY <1>27, <1>d DEF DisconnectFails, Fail, MaybeDisabled, Disabled
    <2> QED
      BY <1>27, <2>1, <1>f, Written DEF DisconnectFails, Fail, Control
  <1>28. CASE Answer
    <2>1. job' \in [op : 0 .. MaxCommands, name : Names, created : BOOLEAN, boot : BOOLEAN]
      BY <1>28 DEF Answer
    <2> QED
      BY <1>28, <2>1, Written DEF Answer, Control
  <1>29. CASE Refresh
    BY <1>29, <1>f, Written DEF Refresh, Control
  <1>30. CASE Command
    <2>1. commands' \in 1 .. MaxCommands
      BY <1>30 DEF Command
    <2>2. control' \in [Kinds -> Commands \cup {None}]
      BY <1>30, <2>1 DEF Command, Commands
    <2> QED
      BY <1>30, <2>1, <2>2 DEF Command
  <1>31. CASE Kill
    BY <1>31, <1>s, <1>f DEF Kill
  <1>32. CASE UNCHANGED vars
    BY <1>32 DEF vars
  <1> QED
    BY <1>1, <1>2, <1>3, <1>4, <1>5, <1>6, <1>7, <1>8, <1>9, <1>10, <1>11, <1>12,
       <1>13, <1>14, <1>15, <1>16, <1>17, <1>18, <1>19, <1>20, <1>21, <1>22, <1>23,
       <1>24, <1>25, <1>26, <1>27, <1>28, <1>29, <1>30, <1>31, <1>32,
       <1>33, <1>34
       DEF Next, Supervisor, ShareProcess

-----------------------------------------------------------------------------
(* A job has an operation, except before the first command.                *)
LEMMA ControlStep == TypeOK /\ Control /\ Process /\ Recorded /\ [Next]_vars => Control'
  <1> SUFFICES ASSUME TypeOK, Control, Process, Recorded, [Next]_vars PROVE Control'
    OBVIOUS
  <1> USE ZrokAssumption DEF Control, Steps, Loop, provider, process, Goto
  <1>1. CASE BootCommands \/ BootActive \/ RecoverCleanup \/ RecoverShare
             \/ RecoverFails
    BY <1>1 DEF BootCommands, BootActive, RecoverCleanup, RecoverShare,
         RecoverFails, Actives, TypeOK, Process
  <1>2. CASE ShareLost
    BY <1>2 DEF ShareLost, NoShare
  <1>3. ASSUME NEW k \in Kinds, Take(k) PROVE Control'
    <2>1. /\ pc' = Removing[k] /\ job'.op = control[k].op /\ job'.boot = (pc = "take")
          /\ pc = "main" \/ k = "disconnect"
      BY <1>3 DEF Take, Ready
    <2>2. control[k].op # 0
      BY <1>3 DEF Take, Commands, TypeOK
    <2>3. /\ Removing[k] \in {"rmConfigure", "rmDisconnect", "rmRefresh"}
          /\ k = "disconnect" => Removing[k] = "rmDisconnect"
      BY DEF Removing, Kinds
    <2> QED
      BY <2>1, <2>2, <2>3
  <1>13. ASSUME NEW k \in Kinds, Remove(k) PROVE Control'
    BY <1>13 DEF Remove, Removing, Kinds
  <1>4. CASE Configure \/ Clean \/ Disable \/ Enable \/ Reserve
    BY <1>4 DEF Configure, Clean, Disable, Enable, Reserve, TypeOK
  <1>5. CASE ConfigureFails \/ ReserveFails \/ UndoFails
             \/ DisconnectRefused \/ DisconnectFails
    BY <1>5 DEF ConfigureFails, ReserveFails, UndoFails, DisconnectRefused,
         DisconnectFails, Fail
  <1>6. CASE RecordStarting \/ StartShare \/ Started \/ StartFails
    BY <1>6 DEF RecordStarting, StartShare, Started, StartFails, TypeOK
  <1>7. CASE ShareBoots \/ DrainRecords \/ DrainAnnounces
    BY <1>7 DEF ShareBoots, DrainRecords, DrainAnnounces
  <1>8. CASE ShareDies
    BY <1>8 DEF ShareDies, NoShare
  <1>9. CASE Undo \/ UndoName \/ UndoEnable \/ Undone
    BY <1>9 DEF Undo, UndoName, UndoEnable, Undone
  <1>10. CASE DisconnectNothing \/ Disconnect \/ DisconnectShares
             \/ DisconnectName \/ DisconnectEnvironment \/ Forget \/ Answer
             \/ Refresh
    BY <1>10 DEF DisconnectNothing, Disconnect, DisconnectShares, DisconnectName,
         DisconnectEnvironment, Forget, Answer, Refresh, TypeOK
  <1>11. CASE Command \/ Kill
    BY <1>11 DEF Command, Kill, StopShare
  <1>12. CASE UNCHANGED vars
    BY <1>12 DEF vars
  <1> QED
    BY <1>1, <1>2, <1>3, <1>4, <1>5, <1>6, <1>7, <1>8, <1>9, <1>10, <1>11, <1>12,
       <1>13
       DEF Next, Supervisor, ShareProcess

(* There is a share process only where the supervisor knows of it.         *)
LEMMA ProcessStep == TypeOK /\ Control /\ Process /\ Starting /\ [Next]_vars => Process'
  <1> SUFFICES ASSUME TypeOK, Control, Process, Starting, [Next]_vars PROVE Process'
    OBVIOUS
  <1> USE ZrokAssumption DEF Process, Loop, provider, process, Goto
  <1>q. share' = NoShare /\ drain' = "none" /\ pc' # "starting" => Process'
    BY DEF NoShare
  <1>s. StopShare => share' = NoShare /\ drain' = "none"
    BY DEF StopShare
  <1>u. /\ UNCHANGED <<share, drain>> /\ pc # "starting" /\ pc' # "starting"
        /\ share = NoShare \/ (pc \in Loop /\ pc' \in Loop /\ ~job'.boot)
        => Process'
    BY DEF NoShare
  <1>1. CASE BootCommands \/ BootActive \/ RecoverCleanup \/ RecoverShare
             \/ RecoverFails
    BY <1>1, <1>u DEF BootCommands, BootActive, RecoverCleanup, RecoverShare,
         RecoverFails
  <1>2. CASE ShareLost
    BY <1>2, <1>q DEF ShareLost
  <1>3. ASSUME NEW k \in Kinds, Take(k) PROVE Process'
    <2>2. Removing[k] \in {"rmConfigure", "rmDisconnect", "rmRefresh"}
      BY DEF Removing, Kinds
    <2>3. CASE pc = "take"
      BY <1>3, <2>2, <2>3, <1>u DEF Take
    <2>4. CASE pc = "main"
      <3>1. ~job'.boot
        BY <1>3, <2>4 DEF Take
      <3> QED
        BY <1>3, <2>2, <2>4, <3>1, <1>u DEF Take
    <2> QED
      BY <1>3, <2>3, <2>4 DEF Take, Ready
  <1>15. ASSUME NEW k \in Kinds, Remove(k) PROVE Process'
    BY <1>15, <1>u DEF Remove, Removing, Kinds
  <1>4. CASE Configure \/ StartFails \/ Disconnect \/ Kill
    BY <1>4, <1>q, <1>s DEF Configure, StartFails, Disconnect, Kill
  <1>5. CASE Clean \/ Disable \/ Enable \/ Reserve \/ RecordStarting
             \/ Undo \/ UndoName \/ UndoEnable \/ Undone
    BY <1>5, <1>u DEF Clean, Disable, Enable, Reserve, RecordStarting, Undo,
         UndoName, UndoEnable, Undone
  <1>6. CASE ConfigureFails \/ ReserveFails \/ UndoFails \/ DisconnectFails
    BY <1>6, <1>u DEF ConfigureFails, ReserveFails, UndoFails, DisconnectFails, Fail
  <1>7. CASE DisconnectRefused
    BY <1>7, <1>u DEF DisconnectRefused, Fail
  <1>8. CASE StartShare
    BY <1>8 DEF StartShare, TypeOK
  <1>9. CASE Started
    BY <1>9 DEF Started, Connected, Starting, TypeOK
  <1>10. CASE ShareBoots \/ DrainRecords \/ DrainAnnounces
    BY <1>10 DEF ShareBoots, DrainRecords, DrainAnnounces, TypeOK
  <1>11. CASE ShareDies
    <2>1. share' = [name |-> share.name, alive |-> FALSE]
      BY <1>11 DEF ShareDies, TypeOK
    <2> QED
      BY <1>11, <2>1 DEF ShareDies, NoShare
  <1>12. CASE DisconnectNothing \/ DisconnectShares \/ DisconnectName
             \/ DisconnectEnvironment \/ Forget \/ Answer \/ Refresh
    BY <1>12, <1>u DEF DisconnectNothing, DisconnectShares, DisconnectName,
         DisconnectEnvironment, Forget, Answer, Refresh
  <1>13. CASE Command
    BY <1>13 DEF Command
  <1>14. CASE UNCHANGED vars
    BY <1>14 DEF vars
  <1> QED
    BY <1>1, <1>2, <1>3, <1>4, <1>5, <1>6, <1>7, <1>8, <1>9, <1>10, <1>11, <1>12,
       <1>13, <1>14, <1>15
       DEF Next, Supervisor, ShareProcess

(* ACTIVE names the share process, and the job while one is started.       *)
LEMMA RecordedStep ==
  TypeOK /\ Control /\ Process /\ Recorded /\ Starting /\ [Next]_vars => Recorded'
  <1> SUFFICES ASSUME TypeOK, Control, Process, Recorded, Starting, [Next]_vars PROVE Recorded'
    OBVIOUS
  <1> USE ZrokAssumption DEF Recorded, Own, Works, Loop, provider, process, Goto
  <1>q. share' = NoShare /\ pc' \notin {"recover", "start", "starting", "answer"} => Recorded'
    BY DEF NoShare
  <1>s. StopShare => share' = NoShare
    BY DEF StopShare
  <1>1. CASE BootCommands \/ RecoverCleanup \/ RecoverFails
    BY <1>1, <1>q DEF BootCommands, RecoverCleanup, RecoverFails, Process
  <1>2. CASE BootActive \/ RecoverShare
    BY <1>2 DEF BootActive, RecoverShare, Process
  <1>3. CASE ShareLost
    BY <1>3, <1>q DEF ShareLost
  <1>4. ASSUME NEW k \in Kinds, Take(k) PROVE Recorded'
    BY <1>4 DEF Take, Ready, Removing, Kinds, Process, NoShare
  <1>20. ASSUME NEW k \in Kinds, Remove(k) PROVE Recorded'
    BY <1>20 DEF Remove, Removing, Kinds
  <1>5. CASE Configure \/ StartFails \/ Disconnect \/ Kill
    BY <1>5, <1>q, <1>s DEF Configure, StartFails, Disconnect, Kill
  <1>6. CASE Clean \/ Disable \/ Enable \/ Reserve \/ Undo \/ UndoName
             \/ UndoEnable \/ Undone
    BY <1>6, <1>q DEF Clean, Disable, Enable, Reserve, Undo, UndoName, UndoEnable,
         Undone, Process
  <1>7. CASE ConfigureFails \/ ReserveFails \/ UndoFails \/ DisconnectFails
    BY <1>7, <1>q DEF ConfigureFails, ReserveFails, UndoFails, DisconnectFails,
         Fail, Process
  <1>8. CASE DisconnectRefused
    BY <1>8 DEF DisconnectRefused, Fail, Process
  <1>9. CASE RecordStarting
    <2>1. Record("starting", FALSE)
      BY <1>9 DEF RecordStarting
    <2>2. job.op # 0
      BY <1>9 DEF RecordStarting, Control, Process
    <2>3. /\ active' # None
          /\ active' = [phase |-> "starting", name |-> job.name, op |-> job.op,
                        endpoints |-> FALSE]
      BY <2>1, <2>2, Written
    <2> QED
      BY <1>9, <2>3 DEF RecordStarting, Process, NoShare
  <1>10. CASE StartShare
    BY <1>10 DEF StartShare
  <1>11. CASE Started
    BY <1>11 DEF Started, Connected, Starting, TypeOK
  <1>12. CASE ShareBoots \/ DrainAnnounces
    BY <1>12 DEF ShareBoots, DrainAnnounces, Process
  <1>13. CASE DrainRecords
    <2>1. Record("active", TRUE)
      BY <1>13 DEF DrainRecords
    <2>2. job.op # 0
      BY <1>13 DEF DrainRecords, Control, Process
    <2>3. /\ active' # None
          /\ active' = [phase |-> "active", name |-> job.name, op |-> job.op,
                        endpoints |-> TRUE]
      BY <2>1, <2>2, Written
    <2> QED
      BY <1>13, <2>3 DEF DrainRecords, Process
  <1>14. CASE ShareDies
    <2>1. share' = [name |-> share.name, alive |-> FALSE]
      BY <1>14 DEF ShareDies, TypeOK
    <2> QED
      BY <1>14, <2>1 DEF ShareDies, Process
  <1>15. CASE DisconnectShares \/ DisconnectName \/ DisconnectEnvironment
    BY <1>15, <1>q DEF DisconnectShares, DisconnectName, DisconnectEnvironment,
         Process
  <1>16. CASE DisconnectNothing \/ Answer \/ Refresh
    BY <1>16 DEF DisconnectNothing, Answer, Refresh, Process, NoShare
  <1>17. CASE Forget
    BY <1>17 DEF Forget, Process, NoShare
  <1>18. CASE Command
    BY <1>18 DEF Command
  <1>19. CASE UNCHANGED vars
    BY <1>19 DEF vars
  <1> QED
    BY <1>1, <1>2, <1>3, <1>4, <1>5, <1>6, <1>7, <1>8, <1>9, <1>10, <1>11, <1>12,
       <1>13, <1>14, <1>15, <1>16, <1>17, <1>18, <1>19, <1>20
       DEF Next, Supervisor, ShareProcess

(* Until the share is announced nothing is said but by the drain.           *)
LEMMA StartingStep ==
  TypeOK /\ Control /\ Process /\ Recorded /\ Starting /\ [Next]_vars => Starting'
  <1> SUFFICES ASSUME TypeOK, Control, Process, Recorded, Starting, [Next]_vars PROVE Starting'
    OBVIOUS
  <1> USE ZrokAssumption DEF Starting, Works, provider, process, Goto
  <1>s. StopShare => drain' = "none"
    BY DEF StopShare
  <1>q. drain' = "none" /\ pc' \notin {"starting", "undo", "undoName", "undoEnable", "undone"}
        => Starting'
    OBVIOUS
  <1>1. CASE BootCommands \/ BootActive \/ RecoverCleanup \/ RecoverShare
             \/ RecoverFails \/ ShareLost
    BY <1>1, <1>q DEF BootCommands, BootActive, RecoverCleanup, RecoverShare,
         RecoverFails, ShareLost, Process
  <1>2. ASSUME NEW k \in Kinds, Take(k) PROVE Starting'
    BY <1>2, <1>q DEF Take, Ready, Removing, Kinds, Process
  <1>17. ASSUME NEW k \in Kinds, Remove(k) PROVE Starting'
    BY <1>17, <1>q DEF Remove, Removing, Kinds, Process
  <1>3. CASE Configure \/ Disconnect \/ Kill
    BY <1>3, <1>q, <1>s DEF Configure, Disconnect, Kill
  <1>4. CASE Clean \/ Disable \/ Enable \/ Reserve \/ RecordStarting
    BY <1>4, <1>q DEF Clean, Disable, Enable, Reserve, RecordStarting, Process
  <1>5. CASE ConfigureFails \/ ReserveFails \/ UndoFails
             \/ DisconnectRefused \/ DisconnectFails
    BY <1>5, <1>q DEF ConfigureFails, ReserveFails, UndoFails, DisconnectRefused,
         DisconnectFails, Fail, Process
  <1>6. CASE StartShare
    BY <1>6 DEF StartShare
  <1>7. CASE Started
    BY <1>7, <1>q DEF Started, Connected
  <1>8. CASE StartFails
    BY <1>8, <1>s, Written DEF StartFails, Control
  <1>9. CASE ShareBoots
    BY <1>9 DEF ShareBoots, Process
  <1>10. CASE DrainRecords
    <2>1. Record("active", TRUE)
      BY <1>10 DEF DrainRecords
    <2>2. job.op # 0
      BY <1>10 DEF DrainRecords, Control, Process
    <2>3. /\ active' # None
          /\ active' = [phase |-> "active", name |-> job.name, op |-> job.op,
                        endpoints |-> TRUE]
      BY <2>1, <2>2, Written
    <2> QED
      BY <1>10, <2>3 DEF DrainRecords, Process
  <1>11. CASE DrainAnnounces
    BY <1>11, Written DEF DrainAnnounces, Process, Control, Recorded, Own
  <1>12. CASE ShareDies
    <2>1. share' = [name |-> share.name, alive |-> FALSE]
      BY <1>12 DEF ShareDies, TypeOK
    <2> QED
      BY <1>12, <2>1 DEF ShareDies, Process
  <1>13. CASE Undo \/ UndoName \/ UndoEnable \/ Undone
    BY <1>13 DEF Undo, UndoName, UndoEnable, Undone, Process
  <1>14. CASE DisconnectNothing \/ DisconnectShares \/ DisconnectName
             \/ DisconnectEnvironment \/ Forget \/ Answer \/ Refresh
    BY <1>14, <1>q DEF DisconnectNothing, DisconnectShares, DisconnectName,
         DisconnectEnvironment, Forget, Answer, Refresh, Process
  <1>15. CASE Command
    BY <1>15 DEF Command
  <1>16. CASE UNCHANGED vars
    BY <1>16 DEF vars
  <1> QED
    BY <1>1, <1>2, <1>3, <1>4, <1>5, <1>6, <1>7, <1>8, <1>9, <1>10, <1>11, <1>12,
       <1>13, <1>14, <1>15, <1>16, <1>17
       DEF Next, Supervisor, ShareProcess

(* No share is left where one is going to be started.                      *)
LEMMA ClearStep == TypeOK /\ Control /\ Process /\ Recorded /\ Clear /\ [Next]_vars => Clear'
  <1> SUFFICES ASSUME TypeOK, Control, Process, Recorded, Clear, [Next]_vars PROVE Clear'
    OBVIOUS
  <1> USE ZrokAssumption DEF Clear, provider, process, Goto
  <1>k. /\ shares' \subseteq shares /\ UNCHANGED <<enabled, active>>
        /\ pc' \notin {"reserve", "record", "start", "starting", "forget", "answer"}
        => Clear'
    OBVIOUS
  <1>s. StopShare => shares' \subseteq shares
    BY DEF StopShare
  <1>d. DeleteShares \/ DeleteSomeShares => shares' \subseteq shares
    BY DEF DeleteShares, DeleteSomeShares, Matching
  <1>1. CASE BootCommands \/ BootActive \/ RecoverCleanup \/ ShareLost
    BY <1>1, <1>k DEF BootCommands, BootActive, RecoverCleanup, ShareLost
  <1>2. CASE RecoverFails
    <2>1. shares' \subseteq shares
      BY <1>2, <1>d DEF RecoverFails
    <2> QED
      BY <1>2, <1>k, <2>1 DEF RecoverFails
  <1>3. CASE RecoverShare
    BY <1>3 DEF RecoverShare, DeleteShares, Matching, Recorded, Own
  <1>4. ASSUME NEW k \in Kinds, Take(k) PROVE Clear'
    BY <1>4, <1>k DEF Take, Ready, Removing, Kinds
  <1>23. ASSUME NEW k \in Kinds, Remove(k) PROVE Clear'
    BY <1>23, <1>k DEF Remove, Removing, Kinds
  <1>5. CASE Configure \/ StartFails \/ Kill
    BY <1>5, <1>k, <1>s DEF Configure, StartFails, Kill
  <1>6. CASE Clean \/ Disable \/ Enable \/ Reserve
    BY <1>6, <1>k, <1>d DEF Clean, Disable, Disabled, Enable, Reserve
  <1>f. /\ shares' \subseteq shares /\ UNCHANGED active
        /\ pc' \in {"down", "main"}
        /\ enabled' = enabled \/ enabled' \/ shares' = {}
        => Clear'
    OBVIOUS
  <1>7. CASE ConfigureFails \/ DisconnectFails
    <2>1. shares' \subseteq shares /\ (enabled' = enabled \/ enabled' \/ shares' = {})
      BY <1>7, <1>d DEF ConfigureFails, DisconnectFails, Fail, MaybeDisabled, Disabled
    <2> QED
      BY <1>7, <1>f, <2>1 DEF ConfigureFails, DisconnectFails, Fail
  <1>8. CASE ReserveFails \/ UndoFails \/ DisconnectRefused
    BY <1>8, <1>f DEF ReserveFails, UndoFails, DisconnectRefused, Fail, MaybeDisabled, Disabled
  <1>9. CASE RecordStarting
    <2>1. Record("starting", FALSE)
      BY <1>9 DEF RecordStarting
    <2>2. job.op # 0
      BY <1>9 DEF RecordStarting, Control, Process
    <2>3. /\ active' # None
          /\ active' = [phase |-> "starting", name |-> job.name, op |-> job.op,
                        endpoints |-> FALSE]
      BY <2>1, <2>2, Written
    <2> QED
      BY <1>9, <2>3 DEF RecordStarting
  <1>10. CASE StartShare \/ Started
    BY <1>10 DEF StartShare, Started
  <1>11. CASE ShareBoots
    BY <1>11 DEF ShareBoots, CanBoot, Process, Recorded, Own
  <1>12. CASE ShareDies
    <2>1. share' = [name |-> share.name, alive |-> FALSE] /\ shares' \subseteq shares
      BY <1>12 DEF ShareDies, TypeOK
    <2> QED
      BY <1>12, <2>1 DEF ShareDies, Process
  <1>13. CASE DrainRecords
    <2>1. Record("active", TRUE)
      BY <1>13 DEF DrainRecords
    <2>2. job.op # 0
      BY <1>13 DEF DrainRecords, Control, Process
    <2>3. /\ active' # None
          /\ active' = [phase |-> "active", name |-> job.name, op |-> job.op,
                        endpoints |-> TRUE]
      BY <2>1, <2>2, Written
    <2> QED
      BY <1>13, <2>3 DEF DrainRecords, Process
  <1>14. CASE DrainAnnounces
    BY <1>14 DEF DrainAnnounces
  <1>15. CASE Undo
    <2>1. Record("cleanup", FALSE)
      BY <1>15 DEF Undo
    <2>2. job.op # 0
      BY <1>15 DEF Undo, Control, Process
    <2>3. /\ active' # None
          /\ active' = [phase |-> "cleanup", name |-> job.name, op |-> job.op,
                        endpoints |-> FALSE]
      BY <2>1, <2>2, Written
    <2> QED
      BY <1>15, <2>3 DEF Undo
  <1>16. CASE UndoName \/ UndoEnable \/ Undone
    BY <1>16, <1>k DEF UndoName, UndoEnable, Disabled, Undone
  <1>17. CASE Disconnect
    <2>1. Record("cleanup", active.endpoints)
      BY <1>17 DEF Disconnect
    <2>2. job.op # 0
      BY <1>17 DEF Disconnect, Control, Process
    <2>4. active.endpoints \in BOOLEAN
      BY <1>17 DEF Disconnect, Known, TypeOK, Actives
    <2>3. /\ active' # None
          /\ active' = [phase |-> "cleanup", name |-> job.name, op |-> job.op,
                        endpoints |-> active.endpoints]
      BY <2>1, <2>2, <2>4, Written
    <2> QED
      BY <1>17, <2>3, <1>s DEF Disconnect, Known
  <1>18. CASE DisconnectNothing \/ DisconnectName \/ Answer \/ Refresh
    BY <1>18, <1>k DEF DisconnectNothing, DisconnectName, Answer, Refresh
  <1>19. CASE DisconnectShares
    BY <1>19, <1>k, <1>d DEF DisconnectShares
  <1>20. CASE DisconnectEnvironment \/ Forget
    BY <1>20 DEF DisconnectEnvironment, Disabled, Forget
  <1>21. CASE Command
    BY <1>21 DEF Command
  <1>22. CASE UNCHANGED vars
    BY <1>22 DEF vars
  <1> QED
    BY <1>1, <1>2, <1>3, <1>4, <1>5, <1>6, <1>7, <1>8, <1>9, <1>10, <1>11, <1>12,
       <1>13, <1>14, <1>15, <1>16, <1>17, <1>18, <1>19, <1>20, <1>21, <1>22, <1>23
       DEF Next, Supervisor, ShareProcess

(* The share that comes up is the only one, and stays it while it lives.   *)
LEMMA ServingStep == TypeOK /\ Control /\ Process /\ Clear /\ Serving /\ [Next]_vars => Serving'
  <1> SUFFICES ASSUME TypeOK, Control, Process, Clear, Serving, [Next]_vars PROVE Serving'
    OBVIOUS
  <1> USE ZrokAssumption DEF Serving, provider, process, Goto
  <1>q. share' = NoShare => Serving'
    BY DEF NoShare
  <1>s. StopShare => share' = NoShare
    BY DEF StopShare
  <1>1. CASE BootCommands \/ BootActive \/ RecoverCleanup \/ RecoverShare
             \/ RecoverFails \/ ShareLost
    BY <1>1, <1>q DEF BootCommands, BootActive, RecoverCleanup, RecoverShare,
         RecoverFails, ShareLost, Process, Loop
  <1>2. ASSUME NEW k \in Kinds, Take(k) PROVE Serving'
    BY <1>2 DEF Take
  <1>16. ASSUME NEW k \in Kinds, Remove(k) PROVE Serving'
    BY <1>16 DEF Remove
  <1>3. CASE Configure \/ StartFails \/ Disconnect \/ Kill
    BY <1>3, <1>q, <1>s DEF Configure, StartFails, Disconnect, Kill
  <1>4. CASE Clean \/ Disable \/ Enable \/ Reserve \/ RecordStarting
    BY <1>4, <1>q DEF Clean, Disable, Enable, Reserve, RecordStarting, Process, Loop
  <1>5. CASE ConfigureFails \/ ReserveFails \/ UndoFails \/ DisconnectFails
    BY <1>5, <1>q DEF ConfigureFails, ReserveFails, UndoFails, DisconnectFails,
         Fail, Process, Loop
  <1>6. CASE DisconnectRefused \/ DisconnectNothing \/ Refresh \/ Started
    BY <1>6 DEF DisconnectRefused, DisconnectNothing, Refresh, Started, Fail
  <1>7. CASE StartShare
    BY <1>7 DEF StartShare
  <1>8. CASE ShareBoots
    BY <1>8 DEF ShareBoots, CanBoot, Process, Clear
  <1>9. CASE DrainRecords
    BY <1>9 DEF DrainRecords
  <1>10. CASE DrainAnnounces
    BY <1>10 DEF DrainAnnounces
  <1>11. CASE ShareDies
    <2>1. share' = [name |-> share.name, alive |-> FALSE] /\ shares' \subseteq shares
      BY <1>11 DEF ShareDies, TypeOK
    <2> QED
      BY <1>11, <2>1 DEF ShareDies
  <1>12. CASE Undo \/ UndoName \/ UndoEnable \/ Undone
    BY <1>12, <1>q DEF Undo, UndoName, UndoEnable, Undone, Process, Loop
  <1>13. CASE DisconnectShares \/ DisconnectName \/ DisconnectEnvironment
             \/ Forget \/ Answer
    BY <1>13, <1>q DEF DisconnectShares, DisconnectName, DisconnectEnvironment,
         Forget, Answer, Process, Loop
  <1>14. CASE Command
    BY <1>14 DEF Command
  <1>15. CASE UNCHANGED vars
    BY <1>15 DEF vars
  <1> QED
    BY <1>1, <1>2, <1>3, <1>4, <1>5, <1>6, <1>7, <1>8, <1>9, <1>10, <1>11, <1>12,
       <1>13, <1>14, <1>15, <1>16
       DEF Next, Supervisor, ShareProcess

(* Every command that ends in the loop says how it ended.                  *)
LEMMA HonestStep ==
  TypeOK /\ Control /\ Process /\ Recorded /\ Starting /\ StatusHonest /\ [Next]_vars
    => StatusHonest'
  <1> SUFFICES ASSUME TypeOK, Control, Process, Recorded, Starting, StatusHonest,
                      [Next]_vars
               PROVE  StatusHonest'
    OBVIOUS
  <1> USE ZrokAssumption DEF StatusHonest, provider, process, Goto
  <1>q. pc' # "main" => StatusHonest'
    OBVIOUS
  <1>e. (\E state \in {"error", "disconnected", "refresh_complete"} : Say(state)) => StatusHonest'
    BY DEF Say
  <1>1. CASE BootCommands
    BY <1>1 DEF BootCommands
  <1>2. CASE BootActive \/ RecoverCleanup \/ RecoverShare \/ RecoverFails
             \/ ShareLost
    BY <1>2, <1>q DEF BootActive, RecoverCleanup, RecoverShare, RecoverFails,
         ShareLost
  <1>3. ASSUME NEW k \in Kinds, Take(k) PROVE StatusHonest'
    BY <1>3, <1>q DEF Take, Removing, Kinds
  <1>15. ASSUME NEW k \in Kinds, Remove(k) PROVE StatusHonest'
    BY <1>15, <1>q DEF Remove, Removing, Kinds
  <1>4. CASE Configure \/ Clean \/ Disable \/ Enable \/ Reserve
             \/ RecordStarting \/ StartShare \/ StartFails
    BY <1>4, <1>q DEF Configure, Clean, Disable, Enable, Reserve, RecordStarting,
         StartShare, StartFails
  <1>5. CASE ConfigureFails \/ ReserveFails \/ UndoFails
             \/ DisconnectRefused \/ DisconnectFails
    BY <1>5, <1>e DEF ConfigureFails, ReserveFails, UndoFails, DisconnectRefused,
         DisconnectFails, Fail
  <1>6. CASE Started
    BY <1>6 DEF Started, Connected, Starting, Works, Recorded, Own
  <1>7. CASE ShareBoots \/ DrainRecords \/ DrainAnnounces
    BY <1>7, <1>q DEF ShareBoots, DrainRecords, DrainAnnounces, Process
  <1>8. CASE ShareDies
    <2>1. share' = [name |-> share.name, alive |-> FALSE] /\ shares' \subseteq shares
      BY <1>8 DEF ShareDies, TypeOK
    <2> QED
      BY <1>8, <2>1 DEF ShareDies
  <1>9. CASE Undo \/ UndoName \/ UndoEnable \/ Undone
    BY <1>9, <1>q DEF Undo, UndoName, UndoEnable, Undone
  <1>10. CASE Disconnect \/ DisconnectShares \/ DisconnectName
             \/ DisconnectEnvironment \/ Forget
    BY <1>10, <1>q DEF Disconnect, DisconnectShares, DisconnectName,
         DisconnectEnvironment, Forget
  <1>11. CASE DisconnectNothing \/ Answer \/ Refresh
    BY <1>11, <1>e DEF DisconnectNothing, Answer, Refresh
  <1>12. CASE Command
    BY <1>12 DEF Command
  <1>13. CASE Kill
    BY <1>13, <1>q DEF Kill
  <1>14. CASE UNCHANGED vars
    BY <1>14 DEF vars
  <1> QED
    BY <1>1, <1>2, <1>3, <1>4, <1>5, <1>6, <1>7, <1>8, <1>9, <1>10, <1>11, <1>12,
       <1>13, <1>14, <1>15
       DEF Next, Supervisor, ShareProcess

(* Taking a command neither ends the supervisor nor brings it to its loop.  *)
LEMMA TakingGoesOn ==
    ASSUME NEW k \in Kinds, Take(k) \/ Remove(k)
    PROVE  pc' \notin {"down", "main"}
  BY DEF Take, Remove, Removing, Kinds, Goto

-----------------------------------------------------------------------------
(* The invariant holds in every reachable state. *)
THEOREM Invariance == Spec => []IInv
  <1>1. IInv /\ [Next]_vars => IInv'
    BY TypeStep, ControlStep, ProcessStep, RecordedStep, ClearStep, ServingStep,
       StartingStep, HonestStep DEF IInv
  <1> QED
    BY InitIInv, <1>1, PTL DEF Spec

(* Every variable keeps its type. *)
THEOREM TypeCorrect == Spec => []TypeOK
  <1>1. IInv => TypeOK
    BY DEF IInv
  <1> QED
    BY Invariance, <1>1, PTL

(* The share that is served is the only one of the environment and the one  *)
(* that ACTIVE records, whatever commands, failures and kills came before.  *)
THEOREM ServesOne == Spec => []OneShare
  <1>1. IInv => OneShare
    <2> SUFFICES ASSUME IInv, pc = "main", share.alive
                 PROVE  /\ enabled /\ shares = {share.name} /\ share.name \in names
                        /\ active = [phase |-> "active", name |-> share.name,
                                     op |-> active.op, endpoints |-> TRUE]
      BY DEF OneShare
    <2>1. drain = "none" /\ share.name # None
      BY DEF IInv, Process
    <2> QED
      BY <2>1 DEF IInv, Serving, Recorded, Works, Loop
  <1> QED
    BY Invariance, <1>1, PTL

(* In the loop "connected" is said only of the share that there is.        *)
THEOREM StatusTrue == Spec => []StatusHonest
  <1>1. IInv => StatusHonest
    BY DEF IInv
  <1> QED
    BY Invariance, <1>1, PTL

(* "disconnected" is said only when no process and no ACTIVE is left, and   *)
(* neither environment nor share, unless zrok2 status fails in that step.   *)
THEOREM DisconnectDone == Spec => DisconnectedIsDone
  <1>1. IInv /\ [Next]_vars =>
          [status' # status /\ status' # None /\ status'.state = "disconnected" =>
             /\ share = NoShare /\ active = None
             /\ (~enabled /\ shares = {}) \/ faults' # faults]_vars
    <2> SUFFICES ASSUME IInv, Next, status' # status, status' # None,
                        status'.state = "disconnected"
                 PROVE  /\ share = NoShare /\ active = None
                        /\ (~enabled /\ shares = {}) \/ faults' # faults
      OBVIOUS
    <2>0. \/ DisconnectNothing \/ Answer \/ UNCHANGED status \/ status' = None
          \/ Say("error") \/ Say("connected") \/ Say("refresh_complete")
      BY DEF Next, Supervisor, ShareProcess, BootCommands, BootActive, RecoverCleanup,
         RecoverShare, RecoverFails, ShareLost, Take, Remove, Configure, Clean, Disable, Enable,
         Reserve, ConfigureFails, ReserveFails, RecordStarting, StartShare, Started,
         StartFails, Undo, UndoName, UndoEnable, UndoFails, Undone, DisconnectRefused,
         Disconnect, DisconnectShares, DisconnectName, DisconnectEnvironment,
         DisconnectFails, Forget, Refresh, ShareBoots, ShareDies, DrainRecords,
         DrainAnnounces, Command, Kill, Fail
    <2>1. DisconnectNothing \/ Answer
      BY <2>0 DEF Say
    <2>2. CASE DisconnectNothing
      <3>1. active = None /\ pc = "disconnect" /\ (~enabled \/ faults' # faults)
        BY <2>2 DEF DisconnectNothing, SeenDisabled, Fault, Goto, IInv, TypeOK
      <3>2. share.name = None /\ ~share.alive
        BY <3>1 DEF IInv, Recorded, Process, Loop
      <3>3. share = NoShare
        BY <3>2 DEF IInv, TypeOK, NoShare
      <3> QED
        BY <3>1, <3>3 DEF IInv, Clear
    <2>3. CASE Answer
      BY <2>3 DEF Answer, IInv, Recorded, Clear, Process, Loop
    <2> QED
      BY <2>1, <2>2, <2>3
  <1> QED
    BY Invariance, <1>1, PTL DEF Spec, DisconnectedIsDone

-----------------------------------------------------------------------------
(* What stands behind the liveness of the supervisor: a share that is      *)
(* started finds its environment and its name, and no other share; what    *)
(* ACTIVE records outside a cleanup has its name; and an operation that    *)
(* undoes or disconnects stays recorded as a cleanup until it is forgotten. *)
Ongoing ==
    /\ pc \in {"reserve", "record", "start", "starting"} => enabled
    /\ pc \in {"record", "start", "starting"} => job.name \in names
    /\ drain = "boot" => shares = {}
    /\ active # None /\ active.phase # "cleanup" => active.name \in names
    /\ pc \in {"undoName", "undoEnable", "undone", "deleteShares", "deleteName",
               "leave", "forget"} =>
         active # None /\ active.phase = "cleanup"
    /\ pc \in {"undo", "undoName", "undoEnable", "undone"} =>
         status # None /\ status.op = job.op

(* Every step keeps it. *)
LEMMA OngoingStep ==
  ASSUME IInv, IInv', Ongoing, [Next]_vars
  PROVE  Ongoing'
<1> USE ZrokAssumption DEF Ongoing, provider, process, Goto
<1>1. /\ TypeOK /\ Control /\ Process /\ Recorded /\ Clear
      /\ pc \notin {"down", "main"} => job.op # 0
  BY DEF IInv, Control
<1>w. /\ \A phase \in {"starting", "active", "cleanup"} : \A known \in BOOLEAN :
           Record(phase, known) => active' = [phase |-> phase, name |-> job.name,
                                              op |-> job.op, endpoints |-> known]
      /\ \A state \in {"connected", "disconnected", "error", "refresh_complete"} :
           Say(state) /\ job.op # 0 => status' # None /\ status'.op = job.op
  BY <1>1, Written DEF Record, Say
<1>s. StopShare \/ DeleteShares \/ DeleteSomeShares => shares' \subseteq shares
  BY DEF StopShare, DeleteShares, DeleteSomeShares, Matching
<1>q. /\ pc' \in (Loop \ {"disconnect"})
                \cup {"down", "recover", "clean", "disable", "enable"}
      /\ UNCHANGED active /\ names \subseteq names' /\ drain' = "none"
      => Ongoing'
  BY DEF Loop
<1>d. pc # "starting" => drain = "none"
  BY <1>1 DEF Process
<1>2. CASE BootCommands \/ BootActive \/ RecoverFails \/ ShareLost
  BY <1>2, <1>q, <1>d DEF BootCommands, BootActive, RecoverFails, ShareLost, Loop
<1>24. CASE RecoverCleanup
  BY <1>24, <1>1, <1>d DEF RecoverCleanup, Recorded, Own
<1>3. CASE RecoverShare
  BY <1>3, <1>1, <1>d DEF RecoverShare, Recorded, Own
<1>4. ASSUME NEW k \in Kinds, Take(k) PROVE Ongoing'
  BY <1>4, <1>1, <1>d DEF Take, Ready, Removing, Kinds, TypeOK
<1>25. ASSUME NEW k \in Kinds, Remove(k) PROVE Ongoing'
  BY <1>25, <1>1, <1>d DEF Remove, Removing, Kinds, Process
<1>5. CASE Configure \/ Clean \/ Disable
  BY <1>5, <1>q, <1>d DEF Configure, Clean, Disable, StopShare, Loop
<1>6. CASE Enable
  BY <1>6, <1>d DEF Enable
<1>7. CASE Reserve
  <2>1. job'.name = job.name BY <1>7, <1>1 DEF Reserve, TypeOK
  <2> QED BY <1>7, <1>d, <2>1 DEF Reserve
<1>8. CASE ConfigureFails \/ ReserveFails \/ UndoFails \/ DisconnectRefused
           \/ DisconnectFails
  BY <1>8, <1>q, <1>d DEF ConfigureFails, ReserveFails, UndoFails, DisconnectRefused,
     DisconnectFails, Fail, Loop
<1>9. CASE RecordStarting
  <2>1. active' = [phase |-> "starting", name |-> job.name, op |-> job.op,
                   endpoints |-> FALSE]
    BY <1>9, <1>w DEF RecordStarting
  <2> QED BY <1>9, <1>1, <1>d, <2>1 DEF RecordStarting
<1>10. CASE StartShare
  BY <1>10, <1>1 DEF StartShare, Clear
<1>11. CASE Started
  BY <1>11, <1>1, <1>q DEF Started, Connected, IInv, Starting, Loop
<1>12. CASE StartFails
  BY <1>12, <1>1, <1>w DEF StartFails, StopShare
<1>13. CASE ShareBoots \/ DrainAnnounces
  BY <1>13, <1>d DEF ShareBoots, DrainAnnounces
<1>14. CASE DrainRecords
  <2>1. active' = [phase |-> "active", name |-> job.name, op |-> job.op,
                   endpoints |-> TRUE]
    BY <1>14, <1>w DEF DrainRecords
  <2> QED BY <1>14, <1>1, <1>d, <2>1 DEF DrainRecords, Process
<1>15. CASE ShareDies
  BY <1>15, <1>1, <1>d DEF ShareDies, Process
<1>16. CASE Undo
  <2>1. active' # None /\ active'.phase = "cleanup"
    <3>1. Record("cleanup", FALSE) /\ job.op # 0
      BY <1>16, <1>1 DEF Undo
    <3>2. /\ active' # None
          /\ active' = [phase |-> "cleanup", name |-> job.name, op |-> job.op,
                        endpoints |-> FALSE]
      BY <1>1, <3>1, Written
    <3> QED BY <3>2
  <2> QED BY <1>16, <1>d, <2>1 DEF Undo
<1>17. CASE UndoName \/ UndoEnable \/ Undone
  BY <1>17, <1>d DEF UndoName, UndoEnable, Undone
<1>18. CASE Disconnect
  <2>1. active.endpoints \in BOOLEAN
    BY <1>18, <1>1 DEF Disconnect, Known, TypeOK, Actives
  <2> QED BY <1>18, <1>1, <1>w, <2>1, Written DEF Disconnect, StopShare
<1>19. CASE DisconnectShares \/ DisconnectName \/ DisconnectEnvironment \/ Forget
  BY <1>19, <1>d DEF DisconnectShares, DisconnectName, DisconnectEnvironment, Forget
<1>20. CASE DisconnectNothing \/ Answer \/ Refresh
  BY <1>20, <1>q, <1>d DEF DisconnectNothing, Answer, Refresh, Loop
<1>21. CASE Command
  BY <1>21 DEF Command
<1>22. CASE Kill
  BY <1>22, <1>q DEF Kill, StopShare, Loop
<1>23. CASE UNCHANGED vars
  BY <1>23 DEF vars
<1> QED
  BY <1>2, <1>3, <1>4, <1>5, <1>6, <1>7, <1>8, <1>9, <1>10, <1>11, <1>12, <1>13,
     <1>14, <1>15, <1>16, <1>17, <1>18, <1>19, <1>20, <1>21, <1>22, <1>23, <1>24, <1>25
     DEF Next, Supervisor, ShareProcess

(* It holds throughout. *)
LEMMA OngoingInvariance == Spec => []Ongoing
<1>1. Init => Ongoing
  BY ZrokAssumption DEF Init, Ongoing
<1> QED
  BY <1>1, OngoingStep, Invariance, PTL DEF Spec

(* A share process that is started can serve: its environment is enabled,  *)
(* its name is reserved and no earlier share has it.  That it dies before  *)
(* it serves is a failure, never the state that an earlier command left.   *)
SharesCanStart == share.alive /\ drain = "boot" => CanBoot

(* Whatever was killed or failed before, every share that is started can boot. *)
THEOREM StartsUnhindered == Spec => []SharesCanStart
<1>1. IInv /\ Ongoing => SharesCanStart
  BY DEF IInv, Ongoing, Process, SharesCanStart, CanBoot
<1> QED
  BY <1>1, Invariance, OngoingInvariance, PTL

(* The supervisor ends only for a cause: a failure or a kill in this step, *)
(* a share that died, an ACTIVE that is left without an environment, or a   *)
(* disconnect of another name that replaced the one it was resuming.       *)
StopsForCause ==
    [][pc # "down" /\ pc' = "down" =>
         \/ faults' # faults
         \/ Stranded
         \/ share.name # None /\ ~share.alive
         \/ pc = "disconnect" /\ (active = None \/ active.name # job.name)]_vars

(* Ongoing leaves no other end than the failures that the actions name.    *)
THEOREM EndsForCause == Spec => StopsForCause
<1> DEFINE A == pc # "down" /\ pc' = "down" =>
                  \/ faults' # faults
                  \/ Stranded
                  \/ share.name # None /\ ~share.alive
                  \/ pc = "disconnect" /\ (active = None \/ active.name # job.name)
<1>1. ASSUME IInv, Ongoing, [Next]_vars PROVE [A]_vars
  <2> SUFFICES ASSUME Next, pc # "down", pc' = "down", UNCHANGED faults
               PROVE  \/ Stranded
                      \/ share.name # None /\ ~share.alive
                      \/ pc = "disconnect" /\ (active = None \/ active.name # job.name)
    BY <1>1
  <2>1. ~Fault BY <1>1 DEF Fault, IInv, TypeOK
  <2>8. ~ConfigureFails
    <3> SUFFICES ASSUME NEW step \in {"clean", "disable", "enable"}, Fail(step)
                 PROVE  FALSE
      BY DEF ConfigureFails
    <3>1. pc = step /\ job.boot
      BY DEF Fail, Goto
    <3> QED
      BY <1>1, <3>1 DEF IInv, Control
  <2>2. \/ RecoverFails \/ ShareLost \/ StartFails \/ DisconnectRefused
        \/ DisconnectFails
    BY <2>1, <2>8, TakingGoesOn DEF Next, Supervisor, ShareProcess, BootCommands,
       BootActive, RecoverCleanup, RecoverShare, Configure, Clean, Disable, Enable, Reserve,
       ReserveFails, RecordStarting, StartShare, Started, Undo, UndoName,
       UndoEnable, UndoFails, Undone, DisconnectNothing, Disconnect, DisconnectShares,
       DisconnectName, DisconnectEnvironment, Forget, Answer, Refresh, ShareBoots,
       ShareDies, DrainRecords, DrainAnnounces, Command, Kill, Goto
  <2>3. CASE RecoverFails
    BY <1>1, <2>1, <2>3 DEF RecoverFails, SeenDisabled, Goto, IInv, Recorded, Own, Stranded
  <2>4. CASE ShareLost
    BY <2>4 DEF ShareLost
  <2>5. CASE StartFails
    BY <1>1, <2>1, <2>5, ZrokAssumption
       DEF StartFails, Goto, IInv, Process, TypeOK
  <2>6. CASE DisconnectRefused
    BY <2>6 DEF DisconnectRefused, Fail, Goto, Known
  <2>7. CASE DisconnectFails
    BY <1>1, <2>1, <2>7 DEF DisconnectFails, Fail, Goto, Ongoing, Stranded
  <2> QED
    BY <2>2, <2>3, <2>4, <2>5, <2>6, <2>7
<1> QED
  BY <1>1, Invariance, OngoingInvariance, PTL DEF Spec, StopsForCause

(* Nothing that the supervisor has taken up ends in its loop without its    *)
(* own answer in STATUS, also when the drain, an undo that fails, or the   *)
(* recovery of what a kill interrupted writes there.                       *)
EndsAnswered ==
    [][pc \notin {"main", "down"} /\ pc' = "main" =>
         status' # None /\ status'.op = job.op]_vars

(* Every step back to the loop says so itself, or follows one that did.    *)
THEOREM AnswersWhatItTook == Spec => EndsAnswered
<1> DEFINE A == pc \notin {"main", "down"} /\ pc' = "main" =>
                  status' # None /\ status'.op = job.op
<1>1. ASSUME IInv, Ongoing, [Next]_vars PROVE [A]_vars
  <2> SUFFICES ASSUME Next, pc \notin {"main", "down"}, pc' = "main"
               PROVE  status' # None /\ status'.op = job.op
    BY <1>1
  <2>1. TypeOK /\ job.op # 0 BY <1>1 DEF IInv, Control
  <2>2. ASSUME NEW state \in {"connected", "disconnected", "error", "refresh_complete"},
               Say(state)
        PROVE  status' # None /\ status'.op = job.op
    <3>1. /\ status' # None
          /\ status' = [state |-> state, op |-> job.op, name |-> job.name]
      BY <2>1, <2>2, Written
    <3> QED BY <3>1
  <2>3. \/ \E state \in {"connected", "disconnected", "error", "refresh_complete"} :
              Say(state)
        \/ Started \/ Undone
    BY TakingGoesOn
       DEF Next, Supervisor, ShareProcess, BootCommands, BootActive, RecoverCleanup,
       RecoverShare, RecoverFails, ShareLost, Configure, Clean, Disable,
       Enable, Reserve, ConfigureFails, ReserveFails, RecordStarting, StartShare, Undo,
       UndoName, UndoEnable, UndoFails, DisconnectNothing, DisconnectRefused, Disconnect,
       DisconnectShares, DisconnectName, DisconnectEnvironment, DisconnectFails, Forget,
       Answer, Refresh, StartFails, ShareBoots, ShareDies, DrainRecords, DrainAnnounces,
       Command, Kill, Goto, Fail
  <2>4. CASE Started
    BY <2>4 DEF Started, Connected
  <2>5. CASE Undone
    BY <1>1, <2>5 DEF Undone, Goto, Ongoing
  <2> QED
    BY <2>2, <2>3, <2>4, <2>5
<1> QED
  BY <1>1, Invariance, OngoingInvariance, PTL DEF Spec, EndsAnswered
=============================================================================
