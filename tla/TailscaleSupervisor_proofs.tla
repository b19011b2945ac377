---------------------- MODULE TailscaleSupervisor_proofs ----------------------
(***************************************************************************)
(* Proofs about the Tailscale supervisor, for every set of operations and   *)
(* identities, any number of crashes and events.                           *)
(*                                                                         *)
(* A disconnect is pending while it has a journal and no answer.  The       *)
(* argument is about where the supervisor can be while one is pending       *)
(* (Resumed): the start takes up the journals before anything else, so no   *)
(* login and no Funnel command comes in between; what the journal says is   *)
(* deleted stays deleted (Torn), and the node stays the one that was        *)
(* compared (Named).                                                       *)
(*                                                                         *)
(* The queue needs one hypothesis, RecordsKept: completed records are kept *)
(* while a queue entry or a claim is left that they settle.  With it, what *)
(* is left of an answered operation is settled (AllSettled), what is being *)
(* executed is claimed or in a journal (InHand), and every step of the      *)
(* supervisor is a step of CommandQueue, or one that the queue does not     *)
(* show.                                                                   *)
(***************************************************************************)
EXTENDS TailscaleSupervisor, FiniteSetTheorems, TLAPS

Teardown == {"disconnect", "resetDone", "logoutDone", "deleting"}
Pending(o) == journal[o] # None /\ o \notin answered
Gone(o) == journal[o] \in {"local_state_deleted", "complete"}

(* Where the supervisor goes on, and with what.                            *)
Flow ==
    /\ pc \in Working => back \in {"unclaim", "journals"}
    /\ pc = "sweep" => back \in {"acks", "claim"}
    /\ pc \in {"funnel", "persist"} => command[op].kind \in {"enable", "disable"}
    /\ pc \in Teardown \ {"disconnect"} => journal[op] \notin {None, "prepared"}
    /\ pc = "answer" /\ reply = "complete" /\ command[op].kind = "disconnect" =>
          journal[op] = "complete"

Resumed ==
    \A o \in Ops : Pending(o) =>
      \/ pc \in {"down", "journals"}
      \/ pc \in Teardown \cup {"answer"} /\ (back = "journals" \/ o = op)

Torn ==
    /\ pc = "deleting" => ~loginFile /\ login = "none"
    /\ \A o \in Ops : Pending(o) /\ Gone(o) =>
          node = None /\ active = None /\ ~funnel /\ ~loginFile /\ login = "none"

(* Nothing is known of an operation that the application has not recorded. *)
Unknown ==
    \A o \in Ops : app[o] = "new" =>
      /\ o \notin operations /\ o \notin queue /\ o \notin processing
      /\ o \notin answered /\ acks[o] = "none" /\ journal[o] = None /\ op # o

Named ==
    /\ pc = "down" => login = "none"
    /\ \A o \in Ops : Pending(o) /\ journal[o] # "prepared" =>
          node \in {None, Target(o)}

OneClaim == \A a, b \in processing : a = b

(* The inductive invariant; Named needs a provider that does not change the *)
(* node between two calls of one pass.                                     *)
IInv == TypeOK /\ Flow /\ OneClaim /\ Resumed /\ Torn /\ Unknown
NInv == IInv /\ Named

-----------------------------------------------------------------------------
LEMMA InitIInv == Init => NInv
  <1> SUFFICES ASSUME Init PROVE NInv
    OBVIOUS
  <1> USE NoneAssumption, BoundsAssumption DEF Init
  <1>1. TypeOK
    <2>1. running \in BOOLEAN /\ active \in Identities \cup {None}
      OBVIOUS
    <2>2. used \subseteq Identities
      OBVIOUS
    <2>3. loginFile \in BOOLEAN /\ booting \in BOOLEAN
      OBVIOUS
    <2>4. /\ command \in [Ops -> [kind : Commands, target : Identities \cup {None}]]
          /\ journal \in [Ops -> Phases \cup {None}]
      BY DEF Commands
    <2> QED
      BY <2>1, <2>2, <2>3, <2>4 DEF TypeOK, Busy
  <1>2. Flow /\ OneClaim /\ Resumed /\ Torn /\ Unknown /\ Named
    BY DEF Flow, Working, Teardown, OneClaim, Resumed, Pending, Torn, Unknown, Named
  <1> QED
    BY <1>1, <1>2 DEF IInv, NInv

(* The operation that is worked on is one.                                 *)
LEMMA Current == ASSUME TypeOK, pc \in Busy PROVE op \in Ops
  BY DEF TypeOK

-----------------------------------------------------------------------------
(* Type correctness of each step.                                          *)
LEMMA TypeStep == TypeOK /\ Flow /\ [Next]_vars => TypeOK'
  <1> SUFFICES ASSUME TypeOK, Flow, [Next]_vars PROVE TypeOK'
    OBVIOUS
  <1> USE NoneAssumption, BoundsAssumption DEF TypeOK, Busy, files, requests, records,
          replies, machine, provider, logins, control, world, client, budgets, Proceed
  <1>1. CASE Boot
    <2>1. booting' \in BOOLEAN /\ loginAge' \in {"none", "fresh", "old"}
      BY <1>1 DEF Boot
    <2> QED
      BY <1>1, <2>1 DEF Boot
  <1>33. CASE Crash
    <2>1. booting' \in BOOLEAN
      BY <1>33 DEF Crash
    <2>2. crashes' \in 0 .. MaxCrashes
      BY <1>33 DEF Crash
    <2> QED
      BY <1>33, <2>1, <2>2 DEF Crash
  <1>27. CASE BeginPass
    <2>1. loginFile' \in BOOLEAN
      BY <1>27 DEF BeginPass
    <2> QED
      BY <1>27, <2>1 DEF BeginPass
  <1>2. ASSUME NEW o \in Ops, TakeAck(o) PROVE TypeOK'
    BY <1>2 DEF TakeAck
  <1>3. CASE ForgetResult \/ ForgetJournal \/ ForgetAck
    BY <1>3 DEF ForgetResult, ForgetJournal, ForgetAck
  <1>4. CASE AcksDone \/ JournalsDone \/ ClaimNothing
    BY <1>4 DEF AcksDone, JournalsDone, ClaimNothing
  <1>28. CASE OperationsDone
    <2>1. booting' \in BOOLEAN /\ pc' \in {"idle", "sweep"} /\ back' \in {"idle", "claim"}
      BY <1>28 DEF OperationsDone
    <2> QED
      BY <1>28, <2>1 DEF OperationsDone
  <1>5. CASE SweepDone
    BY <1>5 DEF SweepDone, Swept, Flow
  <1>6. ASSUME NEW o \in Ops, SweepOperation(o) \/ SweepRecord(o) \/ Trim(o) PROVE TypeOK'
    BY <1>6 DEF SweepOperation, SweepRecord, Trim
  <1>7. ASSUME NEW o \in Ops, ResumeJournal(o) \/ ResumeClaim(o) PROVE TypeOK'
    BY <1>7 DEF ResumeJournal, ResumeClaim, Execute
  <1>8. ASSUME NEW o \in Ops, Relink(o) \/ DropClaim(o) \/ DropQueued(o) PROVE TypeOK'
    BY <1>8 DEF Relink, Lost, DropClaim, DropQueued
  <1>9. ASSUME NEW o \in Ops, TakeQueued(o) PROVE TypeOK'
    BY <1>9 DEF TakeQueued, Execute
  <1>10. CASE Reject
    BY <1>10 DEF Reject, Executes, Answer, Answers
  <1>34. CASE BeginLogin \/ CancelLogin
    <2>1. loginFile' \in BOOLEAN /\ login' \in {"none", "running"} /\ loginAge' = "none"
      BY <1>34 DEF BeginLogin, CancelLogin
    <2>2. pc = "execute" /\ pc' = "answer" /\ reply' \in {"started", "complete"}
      BY <1>34 DEF BeginLogin, CancelLogin, Executes, Answer
    <2> QED
      BY <1>34, <2>1, <2>2 DEF BeginLogin, CancelLogin, Answer, Answers
  <1>29. CASE ClearLogin
    <2>1. /\ loginFile' \in BOOLEAN /\ loginAge' \in {"none", "fresh", "old"}
          /\ reply' \in {"complete", "login_active"} /\ pc' = "answer" /\ pc = "execute"
      BY <1>29 DEF ClearLogin, Executes, Answer
    <2> QED
      BY <1>29, <2>1 DEF ClearLogin, Answer, Answers
  <1>11. CASE CheckIdentity
    BY <1>11 DEF CheckIdentity, Executes, Answer, Answers
  <1>30. CASE SetFunnel
    <2>1. funnel' \in BOOLEAN
      BY <1>30 DEF SetFunnel
    <2>2. \/ Proceed("persist")
          \/ Answer("funnel_enable_failed") \/ Answer("funnel_disable_failed")
      BY <1>30 DEF SetFunnel
    <2> QED
      BY <1>30, <2>1, <2>2 DEF SetFunnel, Answer, Answers
  <1>12. CASE PersistActive
    BY <1>12 DEF PersistActive, Target, Answer, Answers
  <1>13. CASE BeginDisconnect
    BY <1>13 DEF BeginDisconnect, Executes, Phases
  <1>14. CASE CheckTeardown
    BY <1>14 DEF CheckTeardown, InPhase, Enter, Phases, Answer, Answers
  <1>15. CASE TeardownFunnel
    <2>1. funnel' \in BOOLEAN
      BY <1>15 DEF TeardownFunnel
    <2>2. Proceed("resetDone") \/ Answer("funnel_disable_failed")
      BY <1>15 DEF TeardownFunnel
    <2> QED
      BY <1>15, <2>1, <2>2 DEF TeardownFunnel, InPhase, Answer, Answers
  <1>31. CASE TeardownLogout
    <2>1. running' \in BOOLEAN /\ node' \in Identities \cup {None}
      BY <1>31 DEF TeardownLogout
    <2>2. Proceed("logoutDone") \/ Answer("logout_failed")
      BY <1>31 DEF TeardownLogout
    <2> QED
      BY <1>31, <2>1, <2>2 DEF TeardownLogout, InPhase, Answer, Answers
  <1>16. CASE Advance
    BY <1>16 DEF Advance, InPhase, Enter, Phases
  <1>17. CASE StartDeletion
    <2>1. loginFile' \in BOOLEAN /\ login' = "none" /\ loginAge' = "none"
      BY <1>17 DEF StartDeletion
    <2> QED
      BY <1>17, <2>1 DEF StartDeletion, InPhase
  <1>35. CASE DeletionDone
    <2>1. journal' \in [Ops -> Phases \cup {None}]
      BY <1>35 DEF DeletionDone, Enter, Phases
    <2> QED
      BY <1>35, <2>1 DEF DeletionDone, Enter
  <1>18. CASE DeleteEntry
    <2>1. running' \in BOOLEAN /\ funnel' \in BOOLEAN
      BY <1>18 DEF DeleteEntry
    <2>2. active' \in Identities \cup {None} /\ node' \in Identities \cup {None}
      BY <1>18 DEF DeleteEntry
    <2>3. journal' \in [Ops -> Phases \cup {None}]
      BY <1>18 DEF DeleteEntry
    <2> QED
      BY <1>18, <2>1, <2>2, <2>3 DEF DeleteEntry
  <1>19. CASE FinishDisconnect
    BY <1>19 DEF FinishDisconnect, InPhase, Enter, Phases, Answer, Answers
  <1>20. CASE Publish
    BY <1>20 DEF Publish, Flow, Working
  <1>21. CASE Unclaim
    BY <1>21 DEF Unclaim
  <1>22. CASE Application
    <2>1. ASSUME NEW o \in Ops, NEW kind \in Kinds, NEW i \in Identities \cup {None},
                 Submit(o, kind, i)
          PROVE  TypeOK'
      <3>1. kind \in Commands
        BY KindsAssumption
      <3> QED
        BY <2>1, <3>1 DEF Submit
    <2>2. ASSUME NEW o \in Ops, Enqueue(o) PROVE TypeOK'
      BY <2>2 DEF Enqueue
    <2>3. ASSUME NEW o \in Ops, NEW kind \in {"torn", "whole"}, Acknowledge(o, kind)
          PROVE  TypeOK'
      BY <2>3 DEF Acknowledge
    <2> QED
      BY <1>22, <2>1, <2>2, <2>3 DEF Application
  <1>23. CASE LoginEnds
    <2>1. running' \in BOOLEAN
      BY <1>23 DEF LoginEnds
    <2>2. node' \in Identities \cup {None} /\ used' \subseteq Identities
      BY <1>23 DEF LoginEnds
    <2> QED
      BY <1>23, <2>1, <2>2 DEF LoginEnds
  <1>24. CASE LoginAges \/ DaemonReady
    BY <1>24 DEF LoginAges, DaemonReady
  <1>32. CASE DaemonDies \/ NodeExpires
    <2>1. events' \in 0 .. MaxEvents
      BY <1>32 DEF DaemonDies, NodeExpires, Event
    <2>2. running' \in BOOLEAN
      BY <1>32 DEF DaemonDies, NodeExpires
    <2>3. node' \in Identities \cup {None} /\ daemon' \in {"down", "starting", "up"}
      BY <1>32 DEF DaemonDies, NodeExpires
    <2> QED
      BY <1>32, <2>1, <2>2, <2>3 DEF DaemonDies, NodeExpires
  <1>25. ASSUME NEW o \in Ops, RecordAges(o) PROVE TypeOK'
    BY <1>25 DEF RecordAges
  <1>26. CASE UNCHANGED vars
    BY <1>26 DEF vars
  <1> QED
    BY <1>1, <1>2, <1>3, <1>4, <1>5, <1>6, <1>7, <1>8, <1>9, <1>10, <1>11, <1>12,
       <1>13, <1>14, <1>15, <1>16, <1>17, <1>18, <1>19, <1>20, <1>21, <1>22, <1>23,
       <1>24, <1>25, <1>26, <1>27, <1>28, <1>29, <1>30, <1>31, <1>32, <1>33,
       <1>34, <1>35 DEF Next, Supervisor, Environment

-----------------------------------------------------------------------------
(* At most one claim: the queue is served when nothing is being processed. *)
LEMMA OneClaimStep == OneClaim /\ [Next]_vars => OneClaim'
  <1> SUFFICES ASSUME OneClaim, [Next]_vars, ~(processing' \subseteq processing)
               PROVE  OneClaim'
    BY DEF OneClaim
  <1>1. \E o \in Ops : TakeQueued(o)
    BY DEF Next, Supervisor, Application, Environment, Boot,
           BeginPass, TakeAck,
           SweepOperation, SweepRecord, Trim, ResumeJournal, Relink, DropClaim,
           ResumeClaim, DropQueued, ForgetResult, ForgetJournal, ForgetAck, AcksDone,
           SweepDone, JournalsDone, OperationsDone, ClaimNothing, Reject, BeginLogin,
           CancelLogin, ClearLogin, CheckIdentity, SetFunnel, PersistActive,
           BeginDisconnect, CheckTeardown, TeardownFunnel, TeardownLogout, Advance,
           StartDeletion, DeleteEntry, DeletionDone, FinishDisconnect, Publish, Unclaim,
           Submit, Enqueue, Acknowledge, Crash, LoginEnds, LoginAges, DaemonReady,
           DaemonDies, NodeExpires, RecordAges, vars, files, requests
  <1> QED
    BY <1>1 DEF TakeQueued, OneClaim

(* Where the supervisor goes on, and with what.                            *)
LEMMA FlowStep == TypeOK /\ Flow /\ [Next]_vars => Flow'
  <1> SUFFICES ASSUME TypeOK, Flow, [Next]_vars PROVE Flow'
    OBVIOUS
  <1> USE NoneAssumption DEF Flow, Working, Teardown, Proceed, control, client,
          replies, world, files
  <1>n. None # "prepared"
    BY DEF Phases
  <1>a. pc' = "answer" /\ reply' # "complete" /\ UNCHANGED back /\ pc \in Working => Flow'
    OBVIOUS
  <1>q. pc' \in {"down", "idle", "acks", "journals", "operations", "claim", "unclaim",
                 "forgetResult", "forgetJournal", "forgetAck"} => Flow'
    OBVIOUS
  <1>1. CASE Boot \/ BeginPass \/ Crash \/ AcksDone \/ JournalsDone \/ ClaimNothing
             \/ ForgetResult \/ ForgetJournal \/ Unclaim
    BY <1>1, <1>q DEF Boot, BeginPass, Crash, AcksDone, JournalsDone, ClaimNothing,
                      ForgetResult, ForgetJournal, Unclaim
  <1>2. CASE SweepDone
    BY <1>2, <1>q DEF SweepDone, Swept
  <1>3. CASE Publish
    BY <1>3, <1>q DEF Publish
  <1>4. CASE ForgetAck \/ OperationsDone
    BY <1>4 DEF ForgetAck, OperationsDone
  <1>5. ASSUME NEW o \in Ops, TakeAck(o) PROVE Flow'
    BY <1>5, <1>q DEF TakeAck
  <1>6. ASSUME NEW o \in Ops, ResumeJournal(o) \/ ResumeClaim(o) \/ TakeQueued(o) PROVE Flow'
    BY <1>6 DEF ResumeJournal, ResumeClaim, TakeQueued, Execute
  <1>7. ASSUME NEW o \in Ops,
               SweepOperation(o) \/ SweepRecord(o) \/ Trim(o) \/ Relink(o)
                 \/ DropClaim(o) \/ DropQueued(o)
        PROVE  Flow'
    BY <1>7 DEF SweepOperation, SweepRecord, Trim, Relink, DropClaim, DropQueued
  <1>8. CASE Reject
    BY <1>8, <1>a DEF Reject, Executes, Answer
  <1>9. CASE BeginLogin \/ CancelLogin \/ ClearLogin
    BY <1>9, <1>a DEF BeginLogin, CancelLogin, ClearLogin, Executes, Answer
  <1>10. CASE CheckIdentity
    <2>1. CASE Proceed("funnel")
      BY <1>10, <2>1 DEF CheckIdentity, Executes
    <2>2. CASE Answer("identity_mismatch")
      BY <1>10, <2>2, <1>a DEF CheckIdentity, Executes, Answer
    <2> QED
      BY <1>10, <2>1, <2>2 DEF CheckIdentity
  <1>11. CASE SetFunnel
    <2>1. CASE Proceed("persist")
      BY <1>11, <2>1 DEF SetFunnel
    <2>2. CASE Answer("funnel_enable_failed") \/ Answer("funnel_disable_failed")
      BY <1>11, <2>2, <1>a DEF SetFunnel, Answer
    <2> QED
      BY <1>11, <2>1, <2>2 DEF SetFunnel
  <1>12. CASE PersistActive
    BY <1>12 DEF PersistActive, Answer
  <1>13. CASE BeginDisconnect
    BY <1>13 DEF BeginDisconnect, Executes
  <1>14. CASE CheckTeardown
    BY <1>14, <1>a DEF CheckTeardown, InPhase, Answer
  <1>15. CASE TeardownFunnel
    <2>1. CASE Proceed("resetDone")
      BY <1>15, <2>1, <1>n DEF TeardownFunnel, InPhase, Phases
    <2>2. CASE Answer("funnel_disable_failed")
      BY <1>15, <2>2, <1>a DEF TeardownFunnel, InPhase, Answer
    <2> QED
      BY <1>15, <2>1, <2>2 DEF TeardownFunnel
  <1>16. CASE TeardownLogout
    <2>1. CASE Proceed("logoutDone")
      BY <1>16, <2>1, <1>n DEF TeardownLogout, InPhase, Phases
    <2>2. CASE Answer("logout_failed")
      BY <1>16, <2>2, <1>a DEF TeardownLogout, InPhase, Answer
    <2> QED
      BY <1>16, <2>1, <2>2 DEF TeardownLogout
  <1>17. CASE Advance \/ DeletionDone
    BY <1>17 DEF Advance, DeletionDone, InPhase
  <1>18. CASE StartDeletion
    BY <1>18 DEF StartDeletion, InPhase, Phases
  <1>19. CASE DeleteEntry
    BY <1>19 DEF DeleteEntry, TypeOK
  <1>20. CASE FinishDisconnect
    BY <1>20, Current DEF FinishDisconnect, InPhase, Enter, Answer, TypeOK, Busy
  <1>21. CASE Application
    BY <1>21 DEF Application, Submit, Enqueue, Acknowledge
  <1>22. CASE LoginEnds \/ LoginAges \/ DaemonReady \/ DaemonDies \/ NodeExpires
    BY <1>22 DEF LoginEnds, LoginAges, DaemonReady, DaemonDies, NodeExpires
  <1>23. ASSUME NEW o \in Ops, RecordAges(o) PROVE Flow'
    BY <1>23 DEF RecordAges
  <1>24. CASE UNCHANGED vars
    BY <1>24 DEF vars
  <1> QED
    BY <1>1, <1>2, <1>3, <1>4, <1>5, <1>6, <1>7, <1>8, <1>9, <1>10, <1>11, <1>12,
       <1>13, <1>14, <1>15, <1>16, <1>17, <1>18, <1>19, <1>20, <1>21, <1>22, <1>23,
       <1>24 DEF Next, Supervisor, Environment

-----------------------------------------------------------------------------
(* A journal was there before, or its disconnect begins now.               *)
LEMMA JournalBefore ==
    ASSUME TypeOK, Flow, [Next]_vars, NEW o \in Ops, journal'[o] # None
    PROVE  \/ journal[o] # None
           \/ BeginDisconnect /\ o = op
  <1> USE NoneAssumption DEF files, replies, Enter
  <1>1. CASE BeginDisconnect
    BY <1>1 DEF BeginDisconnect, TypeOK
  <1>2. CASE ForgetJournal
    BY <1>2 DEF ForgetJournal, TypeOK
  <1>3. CASE CheckTeardown \/ Advance \/ DeletionDone \/ FinishDisconnect
    BY <1>3 DEF CheckTeardown, Advance, DeletionDone, FinishDisconnect, InPhase, Flow,
                Teardown, TypeOK, Phases
  <1>4. CASE DeleteEntry
    BY <1>4 DEF DeleteEntry, TypeOK
  <1>5. CASE UNCHANGED journal
    BY <1>5
  <1> QED
    BY <1>1, <1>2, <1>3, <1>4, <1>5
    DEF Next, Supervisor, Application, Environment, Boot, BeginPass, TakeAck,
        SweepOperation, SweepRecord, Trim, ResumeJournal, Relink, DropClaim,
        ResumeClaim, DropQueued, TakeQueued, ForgetResult, ForgetAck, AcksDone,
        SweepDone, JournalsDone, OperationsDone, ClaimNothing, Reject, BeginLogin,
        CancelLogin, ClearLogin, CheckIdentity, SetFunnel, PersistActive,
        TeardownFunnel, TeardownLogout, StartDeletion, Publish, Unclaim,
        Submit, Enqueue, Acknowledge, Crash, LoginEnds, LoginAges, DaemonReady,
        DaemonDies, NodeExpires, RecordAges, vars

(* What was answered stays answered.                                       *)
LEMMA AnsweredGrows == [Next]_vars => answered \subseteq answered'
  BY DEF Next, Supervisor, Application, Environment, Boot, BeginPass, TakeAck,
         SweepOperation, SweepRecord, Trim, ResumeJournal, Relink, DropClaim,
         ResumeClaim, DropQueued, TakeQueued, ForgetResult, ForgetJournal, ForgetAck,
         AcksDone, SweepDone, JournalsDone, OperationsDone, ClaimNothing, Reject,
         BeginLogin, CancelLogin, ClearLogin, CheckIdentity, SetFunnel, PersistActive,
         BeginDisconnect, CheckTeardown, TeardownFunnel, TeardownLogout, Advance,
         StartDeletion, DeleteEntry, DeletionDone, FinishDisconnect, Publish, Unclaim,
         Submit, Enqueue, Acknowledge, Crash, LoginEnds, LoginAges, DaemonReady,
         DaemonDies, NodeExpires, RecordAges, vars, world

(* A pending operation was pending before, or its disconnect begins now.    *)
LEMMA PendingBefore ==
    ASSUME TypeOK, Flow, [Next]_vars, NEW o \in Ops, Pending(o)'
    PROVE  \/ Pending(o)
           \/ BeginDisconnect /\ o = op
  BY JournalBefore, AnsweredGrows DEF Pending

(* The steps of the supervisor outside the teardown of a disconnect. Where  *)
(* they are taken, no operation is pending.                                *)
Elsewhere ==
    \/ BeginPass \/ ForgetResult \/ ForgetJournal \/ ForgetAck \/ AcksDone \/ SweepDone
    \/ OperationsDone \/ ClaimNothing \/ Reject \/ BeginLogin \/ CancelLogin
    \/ ClearLogin \/ CheckIdentity \/ SetFunnel \/ PersistActive \/ Unclaim
    \/ \E o \in Ops : \/ TakeAck(o) \/ SweepOperation(o) \/ SweepRecord(o) \/ Trim(o)
                      \/ Relink(o) \/ DropClaim(o) \/ ResumeClaim(o)
                      \/ DropQueued(o) \/ TakeQueued(o)

LEMMA ElsewhereNonePending ==
    ASSUME Resumed, Elsewhere \/ BeginDisconnect
    PROVE  \A o \in Ops : ~Pending(o)
  BY DEF Resumed, Teardown, Elsewhere, BeginPass, TakeAck, SweepOperation, SweepRecord,
         Trim, Relink, DropClaim, ResumeClaim, DropQueued, TakeQueued, ForgetResult,
         ForgetJournal, ForgetAck, AcksDone, SweepDone, Swept, OperationsDone,
         ClaimNothing, Executes, Reject, BeginLogin, CancelLogin, ClearLogin,
         CheckIdentity, SetFunnel, PersistActive, BeginDisconnect, Unclaim

(* After a start the supervisor goes to the journals first, and leaves them *)
(* when none is pending.                                                   *)
LEMMA ResumedStep == TypeOK /\ Flow /\ Resumed /\ [Next]_vars => Resumed'
  <1> SUFFICES ASSUME TypeOK, Flow, Resumed, [Next]_vars, NEW o \in Ops, Pending(o)'
               PROVE  \/ pc' \in {"down", "journals"}
                      \/ /\ pc' \in Teardown \cup {"answer"}
                         /\ back' = "journals" \/ o = op'
    BY DEF Resumed
  <1> USE DEF Teardown, Proceed, control, world
  <1>1. CASE BeginDisconnect
    BY <1>1, ElsewhereNonePending, PendingBefore DEF BeginDisconnect
  <1>2. CASE ~BeginDisconnect /\ Elsewhere
    BY <1>2, ElsewhereNonePending, PendingBefore
  <1>3. ~BeginDisconnect => Pending(o)
    BY PendingBefore
  <1>4. CASE Boot \/ Crash \/ \E p \in Ops : ResumeJournal(p)
    BY <1>4 DEF Boot, Crash, ResumeJournal
  <1>5. CASE JournalsDone
    BY <1>5, PendingBefore DEF JournalsDone, Unfinished, Pending, TypeOK, files, replies,
                               BeginDisconnect
  <1>6. CASE Publish
    BY <1>3, <1>6 DEF Publish, Resumed, Pending, Flow, Working, BeginDisconnect
  <1>7. CASE CheckTeardown \/ TeardownFunnel \/ TeardownLogout \/ Advance
             \/ StartDeletion \/ DeletionDone \/ FinishDisconnect
    BY <1>3, <1>7 DEF CheckTeardown, TeardownFunnel, TeardownLogout, Advance,
                      StartDeletion, DeletionDone, FinishDisconnect, InPhase, Answer,
                      Resumed, BeginDisconnect, Executes
  <1>8. CASE DeleteEntry
    BY <1>3, <1>8 DEF DeleteEntry, Resumed, BeginDisconnect, Executes
  <1>9. CASE Application
    BY <1>3, <1>9 DEF Application, Submit, Enqueue, Acknowledge, Resumed, BeginDisconnect,
                      Executes
  <1>10. CASE LoginEnds \/ LoginAges \/ DaemonReady \/ DaemonDies \/ NodeExpires
              \/ \E p \in Ops : RecordAges(p)
    BY <1>3, <1>10 DEF LoginEnds, LoginAges, DaemonReady, DaemonDies, NodeExpires,
                       RecordAges, Resumed, BeginDisconnect, Executes
  <1>11. CASE UNCHANGED vars
    BY <1>3, <1>11 DEF vars, Resumed, BeginDisconnect, Executes
  <1> QED
    BY <1>1, <1>2, <1>4, <1>5, <1>6, <1>7, <1>8, <1>9, <1>10, <1>11
       DEF Next, Supervisor, Environment, Elsewhere

(* What is deleted stays deleted until the disconnect is answered: nothing  *)
(* that the deletion removes is made while a disconnect is pending.        *)
LEMMA TornStep == TypeOK /\ Flow /\ Resumed /\ Torn /\ [Next]_vars => Torn'
  <1> SUFFICES ASSUME TypeOK, Flow, Resumed, Torn, [Next]_vars PROVE Torn'
    OBVIOUS
  <1> USE NoneAssumption DEF Proceed, control, logins, machine, files, world
  <1>1. (pc = "deleting" => ~loginFile /\ login = "none")'
    <2>1. CASE StartDeletion
      BY <2>1 DEF StartDeletion
    <2>2. CASE pc = "deleting" /\ UNCHANGED <<loginFile, login>>
      BY <2>2 DEF Torn
    <2>3. CASE UNCHANGED vars
      BY <2>3 DEF vars, Torn
    <2> SUFFICES ASSUME ~StartDeletion, ~UNCHANGED vars, pc' = "deleting",
                        ~(pc = "deleting" /\ UNCHANGED <<loginFile, login>>)
                 PROVE  FALSE
      BY <2>1, <2>2, <2>3
    <2>4. pc = "deleting"
      BY DEF Next, Supervisor, Application, Environment, Boot, BeginPass, TakeAck,
           SweepOperation, SweepRecord, Trim, ResumeJournal, Relink, DropClaim,
           ResumeClaim, DropQueued, TakeQueued, ForgetResult, ForgetJournal, ForgetAck,
           AcksDone, SweepDone, Swept, JournalsDone, OperationsDone, ClaimNothing,
           Reject, BeginLogin, CancelLogin, ClearLogin, CheckIdentity, SetFunnel,
           PersistActive, BeginDisconnect, CheckTeardown, TeardownFunnel,
           TeardownLogout, Advance, DeleteEntry, DeletionDone, FinishDisconnect,
           Publish, Unclaim, Executes, Answer, Execute, Flow, Working, Teardown,
           Submit, Enqueue, Acknowledge, Crash, LoginEnds, LoginAges, DaemonReady,
           DaemonDies, NodeExpires, RecordAges
    <2> QED
      BY <2>4 DEF Next, Supervisor, Application, Environment, Boot, BeginPass, TakeAck,
           SweepOperation, SweepRecord, Trim, ResumeJournal, Relink, DropClaim,
           ResumeClaim, DropQueued, TakeQueued, ForgetResult, ForgetJournal, ForgetAck,
           AcksDone, SweepDone, Swept, JournalsDone, OperationsDone, ClaimNothing,
           Reject, BeginLogin, CancelLogin, ClearLogin, CheckIdentity, SetFunnel,
           PersistActive, BeginDisconnect, CheckTeardown, InPhase, TeardownFunnel,
           TeardownLogout, Advance, DeleteEntry, DeletionDone, FinishDisconnect,
           Publish, Unclaim, Executes, Torn,
           Submit, Enqueue, Acknowledge, Crash, LoginEnds, LoginAges, DaemonReady,
           DaemonDies, NodeExpires, RecordAges
  <1>2. ASSUME NEW o \in Ops, Pending(o)', Gone(o)'
        PROVE  (node = None /\ active = None /\ ~funnel /\ ~loginFile /\ login = "none")'
    <2> DEFINE Clean == node = None /\ active = None /\ ~funnel /\ ~loginFile /\ login = "none"
    <2>1. CASE DeletionDone
      BY <1>1, <2>1 DEF DeletionDone, Torn, provider
    <2>2. CASE BeginDisconnect
      BY <1>2, <2>2, ElsewhereNonePending, PendingBefore
      DEF BeginDisconnect, Gone, Pending, TypeOK
    <2>3. CASE ~DeletionDone /\ ~BeginDisconnect
      <3>1. Pending(o)
        BY <1>2, <2>3, PendingBefore
      <3>2. ~Elsewhere
        BY <3>1, ElsewhereNonePending
      <3>3. Gone(o)
        BY <1>2, <2>3, <3>1, <3>2 DEF Pending, Gone, Next, Supervisor, Application,
           Environment, Elsewhere, Boot, ResumeJournal, JournalsDone, CheckTeardown,
           TeardownFunnel, TeardownLogout, Advance, StartDeletion, DeleteEntry,
           FinishDisconnect, InPhase, Enter, Publish, Submit, Enqueue, Acknowledge, Crash,
           LoginEnds, LoginAges, DaemonReady, DaemonDies, NodeExpires, RecordAges, vars,
           replies, TypeOK
      <3>4. Clean
        BY <3>1, <3>3 DEF Torn
      <3> QED
        BY <2>3, <3>2, <3>4 DEF Next, Supervisor, Application, Environment,
           Elsewhere, Boot, ResumeJournal, JournalsDone, CheckTeardown,
           TeardownFunnel, TeardownLogout, Advance, StartDeletion, DeleteEntry,
           FinishDisconnect, Publish, Submit, Enqueue, Acknowledge, Crash,
           LoginEnds, LoginAges, DaemonReady, DaemonDies, NodeExpires, RecordAges, vars,
           provider, TypeOK
    <2> QED
      BY <2>1, <2>2, <2>3
  <1> QED
    BY <1>1, <1>2 DEF Torn

(* The application records an operation before anything else happens to it. *)
LEMMA UnknownStep == TypeOK /\ Unknown /\ [Next]_vars => Unknown'
  <1> SUFFICES ASSUME TypeOK, Unknown, [Next]_vars, NEW o \in Ops, app'[o] = "new"
               PROVE  /\ o \notin operations' /\ o \notin queue' /\ o \notin processing'
                      /\ o \notin answered' /\ acks'[o] = "none" /\ journal'[o] = None
                      /\ op' # o
    BY DEF Unknown
  <1> USE NoneAssumption DEF Proceed, control, client, requests, replies, files, world, Answer
  <1>0. app[o] = "new"
    BY DEF Next, Supervisor, Application, Environment, Boot, BeginPass, TakeAck,
           SweepOperation, SweepRecord, Trim, ResumeJournal, Relink, DropClaim,
           ResumeClaim, DropQueued, TakeQueued, ForgetResult, ForgetJournal, ForgetAck,
           AcksDone, SweepDone, JournalsDone, OperationsDone, ClaimNothing, Reject,
           BeginLogin, CancelLogin, ClearLogin, CheckIdentity, SetFunnel, PersistActive,
           BeginDisconnect, CheckTeardown, TeardownFunnel, TeardownLogout, Advance,
           StartDeletion, DeleteEntry, DeletionDone, FinishDisconnect, Publish, Unclaim,
           Submit, Enqueue, Acknowledge, Crash, LoginEnds, LoginAges, DaemonReady,
           DaemonDies, NodeExpires, RecordAges, vars, TypeOK
  <1>u. /\ o \notin operations /\ o \notin queue /\ o \notin processing
        /\ o \notin answered /\ acks[o] = "none" /\ journal[o] = None /\ op # o
    BY <1>0 DEF Unknown
  <1>1. CASE Boot \/ BeginPass \/ AcksDone \/ SweepDone \/ JournalsDone \/ OperationsDone
             \/ ClaimNothing \/ Reject \/ BeginLogin \/ CancelLogin \/ ClearLogin
    BY <1>1, <1>u DEF Boot, BeginPass, AcksDone, SweepDone, JournalsDone, OperationsDone,
             ClaimNothing, Reject, BeginLogin, CancelLogin, ClearLogin
  <1>2. CASE ForgetResult \/ ForgetJournal \/ ForgetAck \/ Publish \/ Unclaim \/ Crash
    BY <1>2, <1>u DEF ForgetResult, ForgetJournal, ForgetAck, Publish, Unclaim, Crash, TypeOK
  <1>3. ASSUME NEW p \in Ops,
               SweepOperation(p) \/ SweepRecord(p) \/ Trim(p) \/ Relink(p)
                 \/ DropClaim(p) \/ DropQueued(p) \/ RecordAges(p)
        PROVE  /\ o \notin operations' /\ o \notin queue' /\ o \notin processing'
               /\ UNCHANGED <<answered, acks, journal, op>>
    BY <1>3, <1>u DEF SweepOperation, SweepRecord, Trim, Relink, Lost, DropClaim, DropQueued,
             RecordAges
  <1>4. ASSUME NEW p \in Ops,
               TakeAck(p) \/ ResumeJournal(p) \/ ResumeClaim(p) \/ TakeQueued(p)
        PROVE  /\ o \notin operations' /\ o \notin queue' /\ o \notin processing'
               /\ UNCHANGED <<answered, acks, journal>> /\ op' # o
    BY <1>4, <1>u DEF TakeAck, ResumeJournal, Unfinished, ResumeClaim, TakeQueued, Execute
  <1>5. CASE CheckIdentity \/ SetFunnel \/ PersistActive \/ TeardownFunnel \/ TeardownLogout
             \/ StartDeletion
    BY <1>5, <1>u DEF CheckIdentity, SetFunnel, PersistActive, TeardownFunnel, TeardownLogout,
             StartDeletion
  <1>6. CASE BeginDisconnect \/ CheckTeardown \/ Advance \/ DeletionDone \/ FinishDisconnect
    BY <1>6, <1>u DEF BeginDisconnect, CheckTeardown, Advance, DeletionDone,
             FinishDisconnect, Enter, TypeOK
  <1>7. CASE DeleteEntry
    BY <1>7, <1>u DEF DeleteEntry, TypeOK
  <1>8. CASE Application
    BY <1>8, <1>0, <1>u DEF Application, Submit, Enqueue, Acknowledge, TypeOK
  <1>9. CASE LoginEnds \/ LoginAges \/ DaemonReady \/ DaemonDies \/ NodeExpires
    BY <1>9, <1>u DEF LoginEnds, LoginAges, DaemonReady, DaemonDies, NodeExpires
  <1>10. CASE UNCHANGED vars
    BY <1>10, <1>u DEF vars
  <1> QED
    BY <1>1, <1>2, <1>3, <1>4, <1>5, <1>6, <1>7, <1>8, <1>9, <1>10, <1>u
       DEF Next, Supervisor, Environment

(* A pending disconnect keeps the target that was recorded with it.         *)
LEMMA TargetStays ==
    ASSUME TypeOK, Unknown, [Next]_vars, NEW o \in Ops, Pending(o)
    PROVE  Target(o)' = Target(o)
  <1>1. app[o] # "new"
    BY DEF Unknown, Pending
  <1>2. CASE Application
    BY <1>1, <1>2 DEF Application, Submit, Enqueue, Acknowledge, TypeOK, Target, client
  <1>3. CASE UNCHANGED command
    BY <1>3 DEF Target
  <1> QED
    BY <1>2, <1>3
    DEF Next, Supervisor, Environment, Boot, BeginPass, TakeAck,
        SweepOperation, SweepRecord, Trim, ResumeJournal, Relink, DropClaim,
        ResumeClaim, DropQueued, TakeQueued, ForgetResult, ForgetJournal, ForgetAck,
        AcksDone, SweepDone, JournalsDone, OperationsDone, ClaimNothing, Reject,
        BeginLogin, CancelLogin, ClearLogin, CheckIdentity, SetFunnel, PersistActive,
        BeginDisconnect, CheckTeardown, TeardownFunnel, TeardownLogout, Advance,
        StartDeletion, DeleteEntry, DeletionDone, FinishDisconnect, Publish, Unclaim,
        Crash, LoginEnds, LoginAges, DaemonReady, DaemonDies, NodeExpires, RecordAges,
        vars, world, client

(* The node does not change, but for going, while a disconnect that has     *)
(* compared it is pending.                                                 *)
LEMMA NamedStep == ~ProviderRaces /\ NInv /\ [Next]_vars => Named'
  <1> SUFFICES ASSUME ~ProviderRaces, TypeOK, Flow, Resumed, Unknown, Named, [Next]_vars
               PROVE  Named'
    BY DEF NInv, IInv
  <1> USE NoneAssumption DEF Proceed, control, logins, machine, provider, files, world
  <1>1. (pc = "down" => login = "none")'
    <2>1. CASE pc = "down"
      BY <2>1 DEF Named, Flow, Next, Supervisor, Application, Environment, Boot, BeginPass, TakeAck,
           SweepOperation, SweepRecord, Trim, ResumeJournal, Relink, DropClaim,
           ResumeClaim, DropQueued, TakeQueued, ForgetResult, ForgetJournal, ForgetAck,
           AcksDone, SweepDone, Swept, JournalsDone, OperationsDone, ClaimNothing,
           Reject, BeginLogin, CancelLogin, ClearLogin, CheckIdentity, SetFunnel,
           PersistActive, BeginDisconnect, CheckTeardown, InPhase, TeardownFunnel,
           TeardownLogout, Advance, StartDeletion, DeleteEntry, DeletionDone,
           FinishDisconnect, Publish, Unclaim, Executes, Submit, Enqueue, Acknowledge,
           Crash, LoginEnds, LoginAges, DaemonReady, DaemonDies, NodeExpires, RecordAges,
           vars
    <2>2. CASE pc # "down" /\ pc' = "down"
      BY <2>2 DEF Flow, Working, Teardown, Next, Supervisor, Application,
           Environment, Boot, BeginPass, TakeAck,
           SweepOperation, SweepRecord, Trim, ResumeJournal, Relink, DropClaim,
           ResumeClaim, DropQueued, TakeQueued, ForgetResult, ForgetJournal, ForgetAck,
           AcksDone, SweepDone, Swept, JournalsDone, OperationsDone, ClaimNothing,
           Reject, BeginLogin, CancelLogin, ClearLogin, CheckIdentity, SetFunnel,
           PersistActive, BeginDisconnect, CheckTeardown, InPhase, TeardownFunnel,
           TeardownLogout, Advance, StartDeletion, DeleteEntry, DeletionDone,
           FinishDisconnect, Publish, Unclaim, Executes, Answer, Execute, Submit, Enqueue,
           Acknowledge, Crash, LoginEnds, LoginAges, DaemonReady, DaemonDies, NodeExpires,
           RecordAges, vars
    <2> QED
      BY <2>1, <2>2
  <1>2. ASSUME NEW o \in Ops, Pending(o)', journal'[o] # "prepared"
        PROVE  node' \in {None, Target(o)'}
    <2>1. CASE BeginDisconnect
      BY <1>2, <2>1, ElsewhereNonePending, PendingBefore DEF BeginDisconnect, Pending, TypeOK
    <2>2. CASE ~BeginDisconnect
      <3>1. Pending(o) /\ ~Elsewhere /\ Target(o)' = Target(o)
        BY <1>2, <2>2, PendingBefore, ElsewhereNonePending, TargetStays
      <3>2. pc # "idle" /\ (pc = "down" => login = "none")
        BY <3>1 DEF Resumed, Teardown, Named
      <3>3. CASE CheckTeardown
        BY <1>2, <3>1, <3>3 DEF CheckTeardown, InPhase, Matches, Enter, Named, replies, TypeOK
      <3>4. CASE ~CheckTeardown
        <4>1. journal[o] # "prepared"
          <5>1. CASE Advance \/ DeletionDone \/ FinishDisconnect
            BY <1>2, <5>1 DEF Advance, DeletionDone, FinishDisconnect, InPhase, Enter,
               Flow, Teardown, TypeOK
          <5>2. CASE DeleteEntry
            BY <1>2, <5>2 DEF DeleteEntry, Pending, TypeOK
          <5>3. CASE UNCHANGED journal
            BY <1>2, <5>3
          <5> QED
            BY <2>2, <3>1, <3>4, <5>1, <5>2, <5>3 DEF Next, Supervisor, Application,
               Environment, Elsewhere, Boot, ResumeJournal, JournalsDone,
               TeardownFunnel, TeardownLogout, StartDeletion, Publish, Submit, Enqueue,
               Acknowledge, Crash, LoginEnds, LoginAges, DaemonReady, DaemonDies,
               NodeExpires, RecordAges, vars, replies
        <4>2. node' \in {node, None}
          BY <2>2, <3>1, <3>2, <3>4 DEF QuietSupervisor, Next, Supervisor, Application,
             Environment, Elsewhere, Boot, ResumeJournal, JournalsDone,
             TeardownFunnel, TeardownLogout, Advance, StartDeletion, DeleteEntry,
             DeletionDone, FinishDisconnect, Publish, Submit, Enqueue,
             Acknowledge, Crash, LoginEnds, LoginAges, DaemonReady, DaemonDies,
             NodeExpires, RecordAges, vars
        <4> QED
          BY <3>1, <4>1, <4>2 DEF Named
      <3> QED
        BY <3>3, <3>4
    <2> QED
      BY <2>1, <2>2
  <1> QED
    BY <1>1, <1>2 DEF Named

-----------------------------------------------------------------------------
(* The invariant holds in every reachable state. *)
THEOREM Invariance == Spec => []IInv
  <1>1. IInv /\ [Next]_vars => IInv'
    BY TypeStep, FlowStep, OneClaimStep, ResumedStep, TornStep, UnknownStep DEF IInv
  <1>2. Init => IInv
    BY InitIInv DEF NInv
  <1> QED
    BY <1>1, <1>2, PTL DEF Spec

(* Every variable keeps its type, and an operation is in hand exactly while *)
(* one is worked on.                                                       *)
THEOREM TypeCorrect == Spec => []TypeOK
  <1>1. IInv => TypeOK
    BY DEF IInv
  <1> QED
    BY Invariance, <1>1, PTL

(* PROCESSING_DIR never holds two claims.                                  *)
THEOREM ClaimsOne == Spec => []OneAtATime
  <1>1. IInv => OneAtATime
    <2> SUFFICES ASSUME OneClaim PROVE Cardinality(processing) <= 1
      BY DEF IInv, OneAtATime
    <2>1. CASE processing = {}
      BY <2>1, FS_EmptySet
    <2>2. CASE processing # {}
      <3>1. PICK o \in processing : TRUE
        BY <2>2
      <3>2. processing = {o}
        BY <3>1 DEF OneClaim
      <3> QED
        BY <3>2, FS_Singleton
    <2> QED
      BY <2>1, <2>2
  <1> QED
    BY Invariance, <1>1, PTL

(* The first answer "complete" to a disconnect is true, however often it    *)
(* was interrupted and whatever the provider did meanwhile.                *)
THEOREM DisconnectTrue == Spec => AnswersTrue
  <1>1. IInv /\ [Next]_vars =>
          [\A o \in answered' \ answered :
             command[o].kind = "disconnect" /\ reply = "complete" =>
               node = None /\ active = None /\ ~funnel /\ ~loginFile]_vars
    <2> SUFFICES ASSUME IInv, Next, NEW o \in answered' \ answered,
                        command[o].kind = "disconnect", reply = "complete"
                 PROVE  node = None /\ active = None /\ ~funnel /\ ~loginFile
      OBVIOUS
    <2>1. Publish
      BY DEF Next, Supervisor, Application, Environment, Boot, BeginPass, TakeAck,
           SweepOperation, SweepRecord, Trim, ResumeJournal, Relink, DropClaim,
           ResumeClaim, DropQueued, TakeQueued, ForgetResult, ForgetJournal, ForgetAck,
           AcksDone, SweepDone, JournalsDone, OperationsDone, ClaimNothing, Reject,
           BeginLogin, CancelLogin, ClearLogin, CheckIdentity, SetFunnel, PersistActive,
           BeginDisconnect, CheckTeardown, TeardownFunnel, TeardownLogout, Advance,
           StartDeletion, DeleteEntry, DeletionDone, FinishDisconnect, Unclaim,
           Submit, Enqueue, Acknowledge, Crash, LoginEnds, LoginAges, DaemonReady,
           DaemonDies, NodeExpires, RecordAges, world
    <2>2. o = op /\ pc = "answer" /\ o \in Ops
      BY <2>1 DEF Publish, IInv, TypeOK, Busy
    <2>3. journal[o] = "complete"
      BY <2>2 DEF IInv, Flow
    <2>4. Pending(o) /\ Gone(o)
      BY <2>3, NoneAssumption DEF Pending, Gone, Phases
    <2> QED
      BY <2>2, <2>4 DEF IInv, Torn
  <1> QED
    BY Invariance, <1>1, PTL DEF Spec, AnswersTrue

(* While the provider's state does not change between two calls of a pass,  *)
(* an unanswered disconnect tears down no node but the one it names,        *)
(* through any number of crashes.                                          *)
THEOREM TearsDownNamed == ~ProviderRaces => (Spec => TeardownNamed)
  <1> SUFFICES ASSUME ~ProviderRaces PROVE Spec => TeardownNamed
    OBVIOUS
  <1>1. NInv /\ [Next]_vars => NInv'
    BY TypeStep, FlowStep, OneClaimStep, ResumedStep, TornStep, UnknownStep, NamedStep
       DEF NInv, IInv
  <1>2. NInv /\ [Next]_vars => [TearsDown /\ op \notin answered => node = Target(op)]_vars
    <2> SUFFICES ASSUME NInv, Next, TearsDown, op \notin answered
                 PROVE  node = Target(op)
      OBVIOUS
    <2>1. op \in Ops
      BY Current DEF TearsDown, Busy, NInv, IInv
    <2>2. TeardownLogout \/ DeleteEntry
      BY NoneAssumption DEF TearsDown, QuietSupervisor, Next, Supervisor, Application, Environment,
           Boot, BeginPass, TakeAck,
           SweepOperation, SweepRecord, Trim, ResumeJournal, Relink, DropClaim,
           ResumeClaim, DropQueued, TakeQueued, ForgetResult, ForgetJournal, ForgetAck,
           AcksDone, SweepDone, JournalsDone, OperationsDone, ClaimNothing, Reject,
           BeginLogin, CancelLogin, ClearLogin, CheckIdentity, SetFunnel, PersistActive,
           BeginDisconnect, CheckTeardown, TeardownFunnel, Advance,
           StartDeletion, DeletionDone, FinishDisconnect, Publish, Unclaim,
           Submit, Enqueue, Acknowledge, Crash, LoginEnds, LoginAges, DaemonReady,
           DaemonDies, NodeExpires, RecordAges, machine, provider
    <2>3. journal[op] \notin {None, "prepared"}
      BY <2>2, NoneAssumption DEF TeardownLogout, InPhase, DeleteEntry, NInv, IInv, Flow,
         Teardown, Phases
    <2> QED
      BY <2>1, <2>3 DEF TearsDown, Pending, NInv, Named
  <1> QED
    BY InitIInv, <1>1, <1>2, PTL DEF Spec, TeardownNamed

-----------------------------------------------------------------------------
(* The queue.                                                              *)

Forgets == {"forgetResult", "forgetJournal", "forgetAck"}

(* The steps that move the files of an operation, or end or begin the work *)
(* on it.                                                                  *)
QueueStep ==
    \/ ForgetResult \/ ForgetJournal \/ ForgetAck \/ Publish \/ Unclaim \/ Application
    \/ \E o \in Ops :
         \/ TakeAck(o) \/ SweepOperation(o) \/ SweepRecord(o) \/ Trim(o)
         \/ ResumeJournal(o) \/ Relink(o) \/ DropClaim(o) \/ ResumeClaim(o)
         \/ DropQueued(o) \/ TakeQueued(o)

(* All others leave those files alone, and the supervisor goes on with the *)
(* operation that it has.                                                  *)
LEMMA OtherSteps ==
    ASSUME TypeOK, Flow, [Next]_vars, ~QueueStep
    PROVE  /\ UNCHANGED <<operations, queue, processing, completed, acks, results,
                          answered, app>>
           /\ pc' \in Forgets => UNCHANGED <<pc, op>>
           /\ pc' \in Working => pc \in Working /\ UNCHANGED <<op, back>>
           /\ pc' = "unclaim" => UNCHANGED <<pc, op>>
  <1> USE DEF Flow, Working, Teardown, Forgets, Proceed, Answer, Enter, control, files,
          requests, records, replies, client, world
  <1>1. CASE Boot \/ BeginPass \/ Crash \/ AcksDone \/ SweepDone \/ JournalsDone
             \/ OperationsDone \/ ClaimNothing
    BY <1>1 DEF Boot, BeginPass, Crash, AcksDone, SweepDone, Swept, JournalsDone,
             OperationsDone, ClaimNothing
  <1>2. CASE Reject \/ BeginLogin \/ CancelLogin \/ ClearLogin
    BY <1>2 DEF Reject, BeginLogin, CancelLogin, ClearLogin, Executes
  <1>3. CASE CheckIdentity \/ SetFunnel \/ PersistActive
    BY <1>3 DEF CheckIdentity, SetFunnel, PersistActive, Executes
  <1>4. CASE BeginDisconnect \/ CheckTeardown \/ TeardownFunnel \/ TeardownLogout
    BY <1>4 DEF BeginDisconnect, CheckTeardown, TeardownFunnel, TeardownLogout, Executes,
             InPhase
  <1>5. CASE Advance \/ StartDeletion \/ DeleteEntry \/ DeletionDone \/ FinishDisconnect
    BY <1>5 DEF Advance, StartDeletion, DeleteEntry, DeletionDone, FinishDisconnect,
             InPhase
  <1>6. CASE LoginEnds \/ LoginAges \/ DaemonReady \/ DaemonDies \/ NodeExpires
             \/ (\E o \in Ops : RecordAges(o)) \/ UNCHANGED vars
    BY <1>6 DEF LoginEnds, LoginAges, DaemonReady, DaemonDies, NodeExpires, RecordAges, vars
  <1> QED
    BY <1>1, <1>2, <1>3, <1>4, <1>5, <1>6
       DEF QueueStep, Next, Supervisor, Application, Environment

(* Nothing is settled but what was answered; an acknowledgement that is    *)
(* not whole has its result; and what is removed of an acknowledged        *)
(* operation is removed in the order result, journal, acknowledgement,     *)
(* behind its completed record.                                            *)
Known ==
    /\ completed \subseteq answered
    /\ \A o \in Ops : acks[o] # "none" => o \in answered
    /\ \A o \in Ops : acks[o] = "torn" => o \in results
Forgetting ==
    /\ pc \in {"forgetResult", "forgetJournal"} => acks[op] = "whole"
    /\ pc = "forgetAck" => acks[op] # "none"
    /\ pc \in Forgets /\ acks[op] = "whole" /\ op \in operations => op \in completed
    /\ pc \in {"forgetJournal", "forgetAck"} /\ acks[op] = "whole" => op \notin results
    /\ pc = "forgetAck" /\ acks[op] = "whole" => journal[op] = None

(* An operation that was recorded keeps its record, unsettled, until it is *)
(* answered: the recovery finds it wherever it was left (lines 576-590).   *)
NothingLost ==
    \A o \in Ops : app[o] # "new" /\ o \notin answered => o \in operations /\ ~Settled(o)

AInv == IInv /\ Known /\ Forgetting

LEMMA ForgettingStep == AInv /\ [Next]_vars => Forgetting'
  <1> SUFFICES ASSUME AInv, [Next]_vars PROVE Forgetting'
    OBVIOUS
  <1> USE DEF AInv, IInv, Forgetting, Forgets, Proceed, control
  <1>1. CASE ~QueueStep
    <2>1. CASE pc' \notin Forgets
      BY <2>1
    <2>2. CASE pc' \in Forgets
      <3>1. UNCHANGED <<pc, op, operations, completed, acks, results>>
        BY <1>1, <2>2, OtherSteps
      <3>2. UNCHANGED journal
        BY <1>1, <2>2, <3>1 DEF QueueStep, Next, Supervisor, Application, Environment,
           Boot, BeginPass, Crash, AcksDone, SweepDone, JournalsDone, OperationsDone,
           ClaimNothing, Reject, BeginLogin, CancelLogin, ClearLogin, CheckIdentity,
           SetFunnel, PersistActive, BeginDisconnect, CheckTeardown, TeardownFunnel,
           TeardownLogout, Advance, StartDeletion, DeleteEntry, DeletionDone,
           FinishDisconnect, Executes, InPhase, LoginEnds, LoginAges, DaemonReady,
           DaemonDies, NodeExpires, RecordAges, vars, files, replies
      <3> QED
        BY <3>1, <3>2
    <2> QED
      BY <2>1, <2>2
  <1>2. CASE ForgetResult \/ ForgetJournal \/ ForgetAck
    <2>1. op \in Ops
      BY <1>2, Current DEF ForgetResult, ForgetJournal, ForgetAck, Busy
    <2> QED
      BY <1>2, <2>1 DEF ForgetResult, ForgetJournal, ForgetAck, TypeOK, requests, records
  <1>3. ASSUME NEW o \in Ops, TakeAck(o) PROVE Forgetting'
    BY <1>3 DEF TakeAck, requests, replies, TypeOK
  <1>4. CASE Publish \/ Unclaim
    BY <1>4 DEF Publish, Unclaim, Flow, Working
  <1>5. ASSUME NEW o \in Ops,
               \/ SweepOperation(o) \/ SweepRecord(o) \/ Trim(o) \/ ResumeJournal(o)
               \/ Relink(o) \/ DropClaim(o) \/ ResumeClaim(o) \/ DropQueued(o)
               \/ TakeQueued(o)
        PROVE  Forgetting'
    BY <1>5 DEF SweepOperation, SweepRecord, Trim, Swept, ResumeJournal, Relink, DropClaim,
             ResumeClaim, DropQueued, TakeQueued, Execute
  <1>6. CASE Application
    BY <1>6 DEF Application, Submit, Enqueue, Acknowledge
  <1> QED
    BY <1>1, <1>2, <1>3, <1>4, <1>5, <1>6 DEF QueueStep

LEMMA KnownStep == AInv /\ [Next]_vars => Known'
  <1> SUFFICES ASSUME AInv, [Next]_vars PROVE Known'
    OBVIOUS
  <1> USE DEF AInv, IInv, Known, requests, replies, world
  <1>1. CASE ~QueueStep
    BY <1>1, OtherSteps
  <1>2. CASE ForgetResult
    BY <1>2 DEF ForgetResult, Forgetting, records
  <1>3. CASE ForgetJournal \/ ForgetAck
    <2>1. op \in Ops
      BY <1>3, Current DEF ForgetJournal, ForgetAck, Busy
    <2> QED
      BY <1>3, <2>1 DEF ForgetJournal, ForgetAck, TypeOK, records
  <1>4. CASE Publish \/ Unclaim
    BY <1>4 DEF Publish, Unclaim, records
  <1>5. ASSUME NEW o \in Ops,
               \/ TakeAck(o) \/ SweepOperation(o) \/ SweepRecord(o) \/ Trim(o)
               \/ ResumeJournal(o) \/ Relink(o) \/ DropClaim(o) \/ ResumeClaim(o)
               \/ DropQueued(o) \/ TakeQueued(o)
        PROVE  Known'
    BY <1>5 DEF TakeAck, SweepOperation, SweepRecord, Trim, ResumeJournal, Relink,
             DropClaim, ResumeClaim, DropQueued, TakeQueued, files, records
  <1>6. CASE Application
    BY <1>6 DEF Application, Submit, Enqueue, Acknowledge, records, TypeOK
  <1> QED
    BY <1>1, <1>2, <1>3, <1>4, <1>5, <1>6 DEF QueueStep

LEMMA NothingLostStep == AInv /\ NothingLost /\ [Next]_vars => NothingLost'
  <1> SUFFICES ASSUME AInv, NothingLost, [Next]_vars, Known',
                      NEW o \in Ops, app'[o] # "new", o \notin answered'
               PROVE  o \in operations' /\ ~Settled(o)'
    BY KnownStep DEF NothingLost
  <1> USE DEF AInv, IInv, NothingLost, requests, client, world
  <1>1. TypeOK'
    BY TypeStep
  <1>2. ~Settled(o)'
    BY <1>1 DEF Settled, Known, TypeOK
  <1>3. CASE ~QueueStep
    BY <1>2, <1>3, OtherSteps
  <1>4. CASE ForgetResult \/ ForgetJournal \/ ForgetAck \/ Publish \/ Unclaim
    BY <1>2, <1>4 DEF ForgetResult, ForgetJournal, ForgetAck, Publish, Unclaim
  <1>5. ASSUME NEW p \in Ops, SweepOperation(p) PROVE o \in operations'
    BY <1>5 DEF SweepOperation, Sweepable, Known
  <1>6. ASSUME NEW p \in Ops,
               \/ TakeAck(p) \/ SweepRecord(p) \/ Trim(p) \/ ResumeJournal(p)
               \/ Relink(p) \/ DropClaim(p) \/ ResumeClaim(p)
               \/ DropQueued(p) \/ TakeQueued(p)
        PROVE  o \in operations'
    BY <1>6 DEF TakeAck, SweepRecord, Trim, ResumeJournal, Relink,
             DropClaim, ResumeClaim, DropQueued, TakeQueued, files
  <1>7. ASSUME NEW p \in Ops, NEW kind \in Kinds, NEW i \in Identities \cup {None},
               Submit(p, kind, i)
        PROVE  o \in operations'
    BY <1>7 DEF Submit, TypeOK
  <1>8. ASSUME NEW p \in Ops, NEW kind \in {"torn", "whole"},
               Enqueue(p) \/ Acknowledge(p, kind)
        PROVE  o \in operations'
    BY <1>8 DEF Enqueue, Acknowledge, TypeOK
  <1> QED
    BY <1>2, <1>3, <1>4, <1>5, <1>6, <1>7, <1>8 DEF QueueStep, Application

(* An acknowledgement that was consumed has done its work: neither result  *)
(* nor journal is left, and the operation record, if any, is to go (lines  *)
(* 617-634).                                                               *)
AckHonoured ==
    [][\A o \in Ops : acks[o] = "whole" /\ acks'[o] # "whole" =>
         /\ o \notin results' /\ journal'[o] = None
         /\ o \in operations' => o \in completed']_vars

(* A result stays until its reader acknowledged it (lines 621-629).         *)
ResultKept == [][\A o \in results \ results' : acks[o] = "whole"]_vars

LEMMA AInvStep == AInv /\ [Next]_vars => AInv'
  BY TypeStep, FlowStep, OneClaimStep, ResumedStep, TornStep, UnknownStep, KnownStep,
     ForgettingStep DEF AInv, IInv

LEMMA InitAInv == Init => AInv /\ NothingLost
  BY InitIInv DEF Init, NInv, AInv, Known, Forgetting, Forgets, NothingLost

(* Whatever crashes and accidents: a recorded operation is where the       *)
(* recovery finds it, unsettled, until it is answered.                     *)
THEOREM LosesNothing == Spec => []NothingLost
  BY InitAInv, AInvStep, NothingLostStep, PTL DEF Spec

(* No result goes before its reader has acknowledged it.                   *)
THEOREM KeepsResults == Spec => ResultKept
  <1>1. AInv /\ [Next]_vars => [\A o \in results \ results' : acks[o] = "whole"]_vars
    <2> SUFFICES ASSUME AInv, Next, NEW o \in results, o \notin results'
                 PROVE  acks[o] = "whole"
      OBVIOUS
    <2>1. ForgetResult
      BY OtherSteps DEF AInv, IInv, QueueStep, ForgetJournal, ForgetAck, Publish, Unclaim,
         Application, TakeAck, SweepOperation, SweepRecord, Trim, ResumeJournal, Relink,
         DropClaim, ResumeClaim, DropQueued, TakeQueued, Submit, Enqueue, Acknowledge,
         files, replies
    <2> QED
      BY <2>1 DEF ForgetResult, AInv, Forgetting
  <1> QED
    BY InitAInv, AInvStep, <1>1, PTL DEF Spec, ResultKept

(* An acknowledgement leaves last, when nothing is left that it is about.  *)
THEOREM HonoursAcks == Spec => AckHonoured
  <1>1. AInv /\ [Next]_vars =>
          [\A o \in Ops : acks[o] = "whole" /\ acks'[o] # "whole" =>
             /\ o \notin results' /\ journal'[o] = None
             /\ o \in operations' => o \in completed']_vars
    <2> SUFFICES ASSUME AInv, Next, NEW o \in Ops, acks[o] = "whole", acks'[o] # "whole"
                 PROVE  /\ o \notin results' /\ journal'[o] = None
                        /\ o \in operations' => o \in completed'
      OBVIOUS
    <2>1. ForgetAck
      BY OtherSteps DEF AInv, IInv, QueueStep, ForgetJournal, ForgetResult, Publish,
         Unclaim, Application, TakeAck, SweepOperation, SweepRecord, Trim, ResumeJournal,
         Relink, DropClaim, ResumeClaim, DropQueued, TakeQueued, Submit, Enqueue,
         Acknowledge, files, replies, TypeOK
    <2>2. o = op
      BY <2>1 DEF ForgetAck, AInv, IInv, TypeOK
    <2> QED
      BY <2>1, <2>2 DEF ForgetAck, AInv, Forgetting, Forgets, requests, records
  <1> QED
    BY InitAInv, AInvStep, <1>1, PTL DEF Spec, AckHonoured

-----------------------------------------------------------------------------
(* login.json exists only while something will remove it: the next start,  *)
(* which takes its age (line 76), the login that is to end (line 676), or   *)
(* the time that is kept in a variable of the shell (lines 673-680).       *)
SecretWatched == loginFile => pc = "down" \/ login # "none" \/ loginAge # "none"

LEMMA SecretStep == TypeOK /\ Flow /\ SecretWatched /\ [Next]_vars => SecretWatched'
  <1> SUFFICES ASSUME TypeOK, Flow, SecretWatched, [Next]_vars, ~UNCHANGED vars
               PROVE  SecretWatched'
    BY DEF SecretWatched, vars, machine, logins, control
  <1> USE DEF SecretWatched, machine, logins, control, Proceed
  <1>1. CASE Boot \/ Crash \/ BeginPass \/ LoginEnds \/ LoginAges
    BY <1>1 DEF Boot, Crash, BeginPass, LoginEnds, LoginAges
  <1>2. CASE BeginLogin \/ CancelLogin \/ ClearLogin \/ StartDeletion
    BY <1>2 DEF BeginLogin, CancelLogin, ClearLogin, StartDeletion, Executes
  <1>3. CASE UNCHANGED logins /\ (pc = "down" => pc' = "down")
    BY <1>3
  <1> QED
    BY <1>1, <1>2, <1>3 DEF Next, Supervisor, Application, Environment, TakeAck,
       SweepOperation, SweepRecord, Trim, Swept, ResumeJournal, Relink, DropClaim,
       ResumeClaim, DropQueued, TakeQueued, ForgetResult, ForgetJournal, ForgetAck,
       AcksDone, SweepDone, JournalsDone, OperationsDone, ClaimNothing, Reject,
       CheckIdentity, SetFunnel, PersistActive, BeginDisconnect, CheckTeardown,
       TeardownFunnel, TeardownLogout, Advance, DeleteEntry, DeletionDone, InPhase,
       FinishDisconnect, Publish, Unclaim, Submit, Enqueue, Acknowledge, DaemonReady,
       DaemonDies, NodeExpires, RecordAges, Executes

(* The authorization URL is never on disk without something to remove it.  *)
THEOREM WatchesSecret == Spec => []SecretWatched
  <1>1. Init => SecretWatched
    BY DEF Init, SecretWatched
  <1>2. IInv /\ SecretWatched /\ [Next]_vars => SecretWatched'
    BY SecretStep DEF IInv
  <1> QED
    BY Invariance, <1>1, <1>2, PTL DEF Spec

-----------------------------------------------------------------------------
(* While completed records are kept as long as they are needed.            *)
Kept == \A o \in completed \ completed' : o \notin queue \cup processing

(* What is still queued, claimed or recorded of an answered operation is   *)
(* settled; a queue entry or a claim outlives its operation record only    *)
(* with a completed record.                                                *)
Retained == queue \cup processing \subseteq operations \cup completed
AllSettled ==
    \A o \in answered : o \in operations \cup queue \cup processing => Settled(o)

LEMMA RetainedStep == AInv /\ Retained /\ [Next]_vars /\ Kept => Retained'
  <1> SUFFICES ASSUME AInv, Retained, [Next]_vars, Kept PROVE Retained'
    OBVIOUS
  <1> USE DEF AInv, IInv, Retained, requests, records
  <1>1. CASE ~QueueStep
    BY <1>1, OtherSteps
  <1>2. CASE ForgetResult \/ ForgetJournal \/ ForgetAck \/ Publish \/ Unclaim
    BY <1>2 DEF ForgetResult, ForgetJournal, ForgetAck, Publish, Unclaim
  <1>3. ASSUME NEW o \in Ops, SweepOperation(o) \/ SweepRecord(o) \/ Trim(o)
        PROVE  Retained'
    BY <1>3 DEF SweepOperation, SweepRecord, Trim, Sweepable, Kept
  <1>4. ASSUME NEW o \in Ops,
               \/ TakeAck(o) \/ ResumeJournal(o) \/ Relink(o) \/ DropClaim(o)
               \/ ResumeClaim(o) \/ DropQueued(o) \/ TakeQueued(o)
        PROVE  Retained'
    BY <1>4 DEF TakeAck, ResumeJournal, Relink, Lost, DropClaim, ResumeClaim, DropQueued,
             TakeQueued, files
  <1>5. CASE Application
    BY <1>5 DEF Application, Submit, Enqueue, Acknowledge
  <1> QED
    BY <1>1, <1>2, <1>3, <1>4, <1>5 DEF QueueStep

LEMMA AllSettledStep ==
    AInv /\ Retained /\ AllSettled /\ [Next]_vars /\ Kept => AllSettled'
  <1> SUFFICES ASSUME AInv, Retained, AllSettled, [Next]_vars, Kept, NEW o \in answered',
                      o \in operations' \cup queue' \cup processing'
               PROVE  Settled(o)'
    BY DEF AllSettled
  <1> USE DEF AInv, IInv, AllSettled, Settled, requests, records, replies, world, client
  <1>1. CASE ~QueueStep
    BY <1>1, OtherSteps
  <1>2. CASE ForgetResult \/ ForgetJournal \/ Publish \/ Unclaim
    BY <1>2 DEF ForgetResult, ForgetJournal, Publish, Unclaim, Forgetting
  <1>3. CASE ForgetAck
    <2>1. op \in Ops
      BY <1>3, Current DEF ForgetAck, Busy
    <2>2. CASE o # op
      BY <1>3, <2>1, <2>2 DEF ForgetAck, TypeOK
    <2>3. CASE o = op /\ acks[op] = "whole"
      BY <1>3, <2>1, <2>3 DEF ForgetAck, Forgetting, Forgets, Retained
    <2>4. CASE o = op /\ acks[op] = "torn"
      BY <1>3, <2>1, <2>4 DEF ForgetAck, Known
    <2> QED
      BY <1>3, <2>1, <2>2, <2>3, <2>4 DEF ForgetAck, Forgetting, TypeOK
  <1>4. ASSUME NEW p \in Ops, SweepOperation(p) \/ SweepRecord(p) \/ Trim(p)
        PROVE  Settled(o)'
    BY <1>4 DEF SweepOperation, SweepRecord, Trim, Swept, Sweepable, Kept
  <1>5. ASSUME NEW p \in Ops,
               \/ TakeAck(p) \/ ResumeJournal(p) \/ Relink(p) \/ DropClaim(p)
               \/ ResumeClaim(p) \/ DropQueued(p) \/ TakeQueued(p)
        PROVE  Settled(o)'
    BY <1>5 DEF TakeAck, ResumeJournal, Relink, Lost, DropClaim, ResumeClaim, DropQueued,
             TakeQueued, files
  <1>6. ASSUME NEW p \in Ops, NEW kind \in Kinds, NEW i \in Identities \cup {None},
               Submit(p, kind, i)
        PROVE  Settled(o)'
    BY <1>6 DEF Submit, Unknown
  <1>7. ASSUME NEW p \in Ops, NEW kind \in {"torn", "whole"},
               Enqueue(p) \/ Acknowledge(p, kind)
        PROVE  Settled(o)'
    BY <1>7 DEF Enqueue, Acknowledge, TypeOK
  <1> QED
    BY <1>1, <1>2, <1>3, <1>4, <1>5, <1>6, <1>7 DEF QueueStep, Application

QInv == AInv /\ Retained /\ AllSettled

LEMMA InitQInv == Init => QInv
  BY InitAInv DEF Init, QInv, Retained, AllSettled

LEMMA QInvStep == QInv /\ [Next]_vars /\ Kept => QInv'
  BY AInvStep, RetainedStep, AllSettledStep DEF QInv

LEMMA KeptAlways == [Kept]_vars => Kept
  BY DEF Kept, vars, files, records

(* What is claimed to be executed was not answered.                        *)
LEMMA ClaimsUnanswered ==
    ASSUME QInv, NEW o \in Ops, ResumeClaim(o) \/ TakeQueued(o)
    PROVE  o \notin answered
  BY DEF QInv, AllSettled, ResumeClaim, TakeQueued

(* Where the supervisor begins to execute.                                 *)
LEMMA Executions ==
    ASSUME AInv, Next, pc' = "execute", pc # "execute"
    PROVE  \E o \in Ops : o = op' /\ (ResumeClaim(o) \/ TakeQueued(o))
  <1> USE DEF AInv, IInv
  <1>1. QueueStep
    BY OtherSteps DEF Working, vars, control, Next, Supervisor, Application, Environment, Boot,
       BeginPass, Crash, AcksDone, SweepDone, Swept, JournalsDone, OperationsDone,
       ClaimNothing, Reject, BeginLogin, CancelLogin, ClearLogin, CheckIdentity, SetFunnel,
       PersistActive, BeginDisconnect, CheckTeardown, TeardownFunnel, TeardownLogout,
       Advance, StartDeletion, DeleteEntry, DeletionDone, FinishDisconnect, Proceed, Answer,
       LoginEnds, LoginAges, DaemonReady, DaemonDies, NodeExpires, RecordAges, Flow,
       QueueStep
  <1> QED
    BY <1>1 DEF QueueStep, ForgetResult, ForgetJournal, ForgetAck, Publish, Unclaim,
       Application, TakeAck, SweepOperation, SweepRecord, Trim, Swept, ResumeJournal,
       Relink, DropClaim, DropQueued, ResumeClaim, TakeQueued, Execute, Submit, Enqueue,
       Acknowledge, Flow, Working, Proceed, control

(* An answered operation is never executed again, as long as completed      *)
(* records outlive the queue entry and the claim that they settle.         *)
THEOREM ExecutesOnce == Spec /\ RecordsKept => NoRepeat
  <1>1. QInv /\ [Next]_vars /\ [Kept]_vars =>
          [pc' = "execute" /\ pc # "execute" => op' \notin answered]_vars
    BY Executions, ClaimsUnanswered DEF QInv
  <1>2. QInv /\ [Next]_vars /\ [Kept]_vars => QInv'
    BY QInvStep, KeptAlways
  <1> QED
    BY InitQInv, <1>1, <1>2, PTL DEF Spec, NoRepeat, RecordsKept, Kept

-----------------------------------------------------------------------------
(* A journal of an answered disconnect stands only beside its result or     *)
(* its acknowledgement; the one of an unanswered disconnect has a claim;    *)
(* and what is claimed to be executed is claimed and unanswered.           *)
HeldJournals ==
    \A o \in answered : journal[o] # None => o \in results \/ acks[o] = "whole"
PendingClaimed == \A o \in Ops : Pending(o) => o \in processing
InHand ==
    /\ pc \in Working /\ back = "journals" => journal[op] # None /\ op \notin results
    /\ pc \in Working /\ back = "unclaim" => op \in processing /\ op \notin answered
    /\ pc = "unclaim" => op \in answered

JInv == QInv /\ HeldJournals /\ PendingClaimed /\ InHand

LEMMA HeldJournalsStep == JInv /\ [Next]_vars => HeldJournals'
  <1> SUFFICES ASSUME JInv, [Next]_vars, NEW o \in answered', journal'[o] # None
               PROVE  o \in results' \/ acks'[o] = "whole"
    BY DEF HeldJournals
  <1> USE DEF JInv, QInv, AInv, IInv, HeldJournals
  <1>1. o \in Ops
    BY TypeStep DEF TypeOK
  <1>2. CASE Publish
    BY <1>1, <1>2, JournalBefore DEF Publish, BeginDisconnect, Executes
  <1>3. CASE ~Publish
    <2>1. o \in answered
      BY <1>3, OtherSteps DEF QueueStep, ForgetResult, ForgetJournal, ForgetAck, Unclaim,
         Application, TakeAck, SweepOperation, SweepRecord, Trim, ResumeJournal, Relink,
         DropClaim, ResumeClaim, DropQueued, TakeQueued, Submit, Enqueue, Acknowledge,
         world
    <2>2. journal[o] # None
      <3>1. BeginDisconnect /\ o = op => journal[o] # None
        BY <2>1 DEF BeginDisconnect, Executes, InHand, Flow, Working
      <3> QED
        BY <1>1, <3>1, JournalBefore
    <2>3. o \in results \/ acks[o] = "whole"
      BY <2>1, <2>2
    <2>4. CASE ~QueueStep
      BY <2>3, <2>4, OtherSteps
    <2>5. CASE ForgetResult
      BY <2>3, <2>5 DEF ForgetResult, Forgetting
    <2>6. CASE ForgetAck
      <3>1. op \in Ops /\ acks[op] # "none"
        BY <2>6, Current DEF ForgetAck, Busy, Forgetting
      <3>2. CASE o = op
        BY <1>1, <2>2, <2>6, <3>1, <3>2 DEF ForgetAck, Forgetting, Known, TypeOK, replies
      <3>3. CASE o # op
        BY <1>1, <2>3, <2>6, <3>1, <3>3 DEF ForgetAck, TypeOK
      <3> QED
        BY <3>2, <3>3
    <2>7. CASE Application
      BY <1>1, <2>3, <2>7 DEF Application, Submit, Enqueue, Acknowledge, TypeOK, replies
    <2>8. CASE ForgetJournal \/ Unclaim
      BY <2>3, <2>8 DEF ForgetJournal, Unclaim, replies
    <2>9. ASSUME NEW p \in Ops,
                 \/ TakeAck(p) \/ SweepOperation(p) \/ SweepRecord(p) \/ Trim(p)
                 \/ ResumeJournal(p) \/ Relink(p) \/ DropClaim(p) \/ ResumeClaim(p)
                 \/ DropQueued(p) \/ TakeQueued(p)
          PROVE  UNCHANGED <<acks, results>>
      BY <2>9 DEF TakeAck, SweepOperation, SweepRecord, Trim, ResumeJournal, Relink,
         DropClaim, ResumeClaim, DropQueued, TakeQueued, files, replies
    <2> QED
      BY <1>3, <2>3, <2>4, <2>5, <2>6, <2>7, <2>8, <2>9 DEF QueueStep
  <1> QED
    BY <1>2, <1>3

LEMMA PendingClaimedStep == JInv /\ [Next]_vars => PendingClaimed'
  <1> SUFFICES ASSUME JInv, [Next]_vars, NEW o \in Ops, Pending(o)'
               PROVE  o \in processing'
    BY DEF PendingClaimed
  <1> USE DEF JInv, QInv, AInv, IInv
  <1>1. o \in processing
    <2>1. CASE Pending(o)
      BY <2>1 DEF PendingClaimed
    <2>2. CASE BeginDisconnect /\ o = op
      <3>1. back \in {"unclaim", "journals"} /\ pc = "execute"
        BY <2>2 DEF BeginDisconnect, Executes, Flow, Working
      <3>2. CASE back = "unclaim"
        BY <2>2, <3>1, <3>2 DEF InHand, Working
      <3>3. CASE back = "journals"
        <4>1. journal[o] # None /\ o \notin answered
          BY <2>2, <3>1, <3>3, AnsweredGrows DEF InHand, Working, Pending
        <4> QED
          BY <4>1 DEF PendingClaimed, Pending
      <3> QED
        BY <3>1, <3>2, <3>3
    <2> QED
      BY <2>1, <2>2, PendingBefore
  <1>2. o \notin answered
    BY AnsweredGrows DEF Pending
  <1>3. CASE ~QueueStep
    BY <1>1, <1>3, OtherSteps
  <1>4. CASE Unclaim
    BY <1>1, <1>2, <1>4 DEF Unclaim, InHand
  <1>5. ASSUME NEW p \in Ops, DropClaim(p) PROVE o \in processing'
    BY <1>1, <1>2, <1>5 DEF DropClaim, Settled, Known, TypeOK
  <1>6. CASE ForgetResult \/ ForgetJournal \/ ForgetAck \/ Publish \/ Application
    BY <1>1, <1>6 DEF ForgetResult, ForgetJournal, ForgetAck, Publish, Application, Submit,
       Enqueue, Acknowledge, requests
  <1>7. ASSUME NEW p \in Ops,
               \/ TakeAck(p) \/ SweepOperation(p) \/ SweepRecord(p) \/ Trim(p)
               \/ ResumeJournal(p) \/ Relink(p) \/ ResumeClaim(p)
               \/ DropQueued(p) \/ TakeQueued(p)
        PROVE  o \in processing'
    BY <1>1, <1>7 DEF TakeAck, SweepOperation, SweepRecord, Trim, ResumeJournal, Relink,
       ResumeClaim, DropQueued, TakeQueued, files, requests
  <1> QED
    BY <1>3, <1>4, <1>5, <1>6, <1>7 DEF QueueStep

LEMMA InHandStep == JInv /\ [Next]_vars => InHand'
  <1> SUFFICES ASSUME JInv, [Next]_vars PROVE InHand'
    OBVIOUS
  <1> USE DEF JInv, QInv, AInv, IInv, InHand
  <1>1. CASE ~QueueStep
    <2>1. /\ UNCHANGED <<processing, results, answered>>
          /\ pc' \in Working => pc \in Working /\ UNCHANGED <<op, back>>
          /\ pc' = "unclaim" => UNCHANGED <<pc, op>>
      BY <1>1, OtherSteps
    <2>2. ASSUME pc \in Working, pc' \in Working, UNCHANGED op, journal[op] # None
          PROVE  journal'[op] # None
      <3>1. op \in Ops
        BY <2>2, Current DEF Working, Busy
      <3>2. CASE BeginDisconnect \/ CheckTeardown \/ Advance \/ DeletionDone
                 \/ FinishDisconnect
        BY <2>2, <3>1, <3>2, NoneAssumption DEF BeginDisconnect, CheckTeardown, Advance,
           DeletionDone, FinishDisconnect, Enter, TypeOK, Phases, replies
      <3>3. CASE DeleteEntry
        BY <2>2, <3>1, <3>3 DEF DeleteEntry, TypeOK
      <3>4. CASE UNCHANGED journal
        BY <2>2, <3>4
      <3> QED
        BY <1>1, <3>2, <3>3, <3>4 DEF QueueStep, Next, Supervisor, Environment, Boot,
           BeginPass, Crash, AcksDone, SweepDone, JournalsDone, OperationsDone,
           ClaimNothing, Reject, BeginLogin, CancelLogin, ClearLogin, CheckIdentity,
           SetFunnel, PersistActive, TeardownFunnel, TeardownLogout, StartDeletion,
           LoginEnds, LoginAges, DaemonReady, DaemonDies, NodeExpires, RecordAges, vars,
           files, replies
    <2> QED
      BY <2>1, <2>2
  <1>2. ASSUME NEW o \in Ops, ResumeJournal(o) PROVE InHand'
    BY <1>2 DEF ResumeJournal, Unfinished, Working, files, replies
  <1>3. ASSUME NEW o \in Ops, ResumeClaim(o) \/ TakeQueued(o) PROVE InHand'
    <2>1. o \notin answered
      BY <1>3, ClaimsUnanswered
    <2> QED
      BY <1>3, <2>1 DEF ResumeClaim, TakeQueued, Execute, Working, files, requests, world
  <1>4. CASE Publish
    BY <1>4 DEF Publish, Flow, Working
  <1>5. CASE ForgetResult \/ ForgetJournal \/ ForgetAck \/ Unclaim \/ Application
    BY <1>5 DEF ForgetResult, ForgetJournal, ForgetAck, Unclaim, Application, Submit,
       Enqueue, Acknowledge, Proceed, Working, control
  <1>6. ASSUME NEW o \in Ops,
               \/ TakeAck(o) \/ SweepOperation(o) \/ SweepRecord(o) \/ Trim(o)
               \/ Relink(o) \/ DropClaim(o) \/ DropQueued(o)
        PROVE  InHand'
    BY <1>6 DEF TakeAck, SweepOperation, SweepRecord, Trim, Swept, Relink, DropClaim,
       DropQueued, Working, control
  <1> QED
    BY <1>1, <1>2, <1>3, <1>4, <1>5, <1>6 DEF QueueStep

LEMMA JInvStep == JInv /\ [Next]_vars /\ [Kept]_vars => JInv'
  BY QInvStep, KeptAlways, HeldJournalsStep, PendingClaimedStep, InHandStep DEF JInv

LEMMA InitJInv == Init => JInv
  BY InitQInv, NoneAssumption
     DEF Init, JInv, HeldJournals, PendingClaimed, Pending, InHand, Working

-----------------------------------------------------------------------------
(* The refinement.                                                         *)

LEMMA QueueInit == Init => CQ!Init
  BY DEF Init, CQ!Init, Executing, Working

(* No step outside QueueStep is seen but as an interruption.                *)
LEMMA OthersHidden ==
    ASSUME JInv, [Next]_vars, ~QueueStep
    PROVE  [CQ!Next]_(CQ!vars)
  <1> USE DEF JInv, QInv, AInv, IInv
  <1>1. UNCHANGED <<processing, answered, results, {o \in Ops : app[o] # "new"},
                    {o \in Ops : acks[o] = "whole"}>>
    BY OtherSteps
  <1>2. Executing' \in {Executing, {}}
    BY OtherSteps DEF Executing
  <1> QED
    BY <1>1, <1>2 DEF CQ!Next, CQ!Interrupt, CQ!vars

(* The supervisor between two operations does not execute.                 *)
LEMMA NotExecuting ==
    /\ pc \notin Working => Executing = {}
    /\ pc' \notin Working => Executing' = {}
  BY DEF Executing

(* Steps on files that the queue does not show.                            *)
LEMMA FilesHidden ==
    ASSUME JInv, [Next]_vars,
           \/ ForgetJournal
           \/ \E o \in Ops : \/ TakeAck(o) \/ SweepOperation(o) \/ SweepRecord(o) \/ Trim(o)
                             \/ Relink(o) \/ DropQueued(o)
    PROVE  UNCHANGED CQ!vars
  <1>1. pc \notin Working /\ pc' \notin Working
    BY DEF TakeAck, SweepOperation, SweepRecord, Trim, Swept, Relink, DropQueued,
       ForgetJournal, Proceed, control, Working
  <1>2. UNCHANGED <<processing, answered, results, app, acks>>
    BY DEF TakeAck, SweepOperation, SweepRecord, Trim, Relink, DropQueued, ForgetJournal,
       files, requests, replies, world, client
  <1> QED
    BY <1>1, <1>2, NotExecuting DEF CQ!vars

(* A result is discarded and its acknowledgement released.                 *)
LEMMA ForgetMaps ==
    ASSUME JInv, ForgetResult \/ ForgetAck
    PROVE  [CQ!Next]_(CQ!vars)
  <1> USE DEF JInv, QInv, AInv, IInv
  <1>1. pc \notin Working /\ pc' \notin Working /\ op \in Ops
    BY Current DEF ForgetResult, ForgetAck, Proceed, Working, Busy
  <1>2. UNCHANGED <<processing, answered, app>>
    BY DEF ForgetResult, ForgetAck, requests, world, client
  <1>3. CASE ForgetResult
    <2>1. CQ!Discard(op)
      BY <1>1, <1>2, <1>3, NotExecuting DEF ForgetResult, Forgetting, CQ!Discard
    <2> QED
      BY <1>1, <2>1 DEF CQ!Next
  <1>4. CASE ForgetAck
    <2> DEFINE Acked == {o \in Ops : acks[o] = "whole"}
    <2>1. Acked' = Acked \ {op} /\ UNCHANGED results
      BY <1>4 DEF ForgetAck, TypeOK
    <2>2. CASE op \in Acked
      <3> PICK p \in Ops : p = op
        BY <1>1
      <3>1. CQ!Release(p)
        BY <1>1, <1>2, <1>4, <2>1, <2>2, NotExecuting DEF ForgetAck, Forgetting, CQ!Release
      <3> QED
        BY <3>1 DEF CQ!Next
    <2>3. CASE op \notin Acked
      BY <1>1, <1>2, <2>1, <2>3, NotExecuting DEF CQ!vars
    <2> QED
      BY <2>2, <2>3
  <1> QED
    BY <1>3, <1>4

(* What is executed is taken up or claimed.                                *)
LEMMA BeginMaps ==
    ASSUME JInv, NEW o \in Ops, ResumeJournal(o) \/ ResumeClaim(o) \/ TakeQueued(o)
    PROVE  [CQ!Next]_(CQ!vars)
  <1> USE DEF JInv, QInv, AInv, IInv
  <1>1. pc \notin Working /\ pc' \in Working /\ op' = o
    BY DEF ResumeJournal, ResumeClaim, TakeQueued, Execute, Working
  <1>2. UNCHANGED <<answered, results, app, acks>>
    BY DEF ResumeJournal, ResumeClaim, TakeQueued, files, replies, world, client
  <1>3. CASE ResumeJournal(o)
    <2>1. UNCHANGED processing /\ back' = "journals"
      BY <1>3 DEF ResumeJournal, files, requests
    <2>2. CASE o \in answered
      BY <1>1, <1>2, <2>1, <2>2 DEF Executing, CQ!vars
    <2>3. CASE o \notin answered
      <3>1. o \in processing
        BY <1>3, <2>3 DEF ResumeJournal, Unfinished, PendingClaimed, Pending
      <3>2. CQ!Resume(o)
        BY <1>1, <1>2, <2>1, <2>3, <3>1 DEF Executing, CQ!Resume
      <3> QED
        BY <3>2 DEF CQ!Next
    <2> QED
      BY <2>2, <2>3
  <1>4. CASE ResumeClaim(o)
    <2>1. o \notin answered
      BY <1>4, ClaimsUnanswered
    <2>2. CQ!Resume(o)
      BY <1>1, <1>2, <1>4, <2>1 DEF ResumeClaim, files, requests, Executing, CQ!Resume
    <2> QED
      BY <2>2 DEF CQ!Next
  <1>5. CASE TakeQueued(o)
    <2>1. o \notin answered /\ app[o] # "new"
      BY <1>5, ClaimsUnanswered DEF TakeQueued, Unknown
    <2>2. CQ!Claim(o)
      BY <1>1, <1>2, <1>5, <2>1 DEF TakeQueued, Executing, CQ!Claim
    <2> QED
      BY <2>2 DEF CQ!Next
  <1> QED
    BY <1>3, <1>4, <1>5

(* What was executed is answered, or its result comes back while its        *)
(* acknowledgement stands.                                                 *)
LEMMA PublishMaps == JInv /\ Publish => [CQ!Next]_(CQ!vars)
  <1> SUFFICES ASSUME JInv, Publish PROVE CQ!Next
    OBVIOUS
  <1> USE DEF JInv, QInv, AInv, IInv
  <1>1. op \in Ops /\ pc \in Working /\ pc' \notin Working /\ back \in {"unclaim", "journals"}
    BY Current DEF Publish, Flow, Working, Busy
  <1>2. /\ UNCHANGED <<processing, app, acks>>
        /\ answered' = answered \cup {op} /\ results' = results \cup {op}
    BY DEF Publish, requests, client
  <1>3. CASE op \notin answered
    <2>1. CQ!Answer(op)
      BY <1>1, <1>2, <1>3, NotExecuting DEF Executing, CQ!Answer
    <2> QED
      BY <1>1, <2>1 DEF CQ!Next
  <1>4. CASE op \in answered
    <2>1. back = "journals" /\ acks[op] = "whole"
      BY <1>1, <1>4 DEF InHand, HeldJournals
    <2>2. CQ!Republish(op)
      BY <1>1, <1>2, <1>4, <2>1, NotExecuting DEF Executing, CQ!Republish
    <2> QED
      BY <1>1, <2>2 DEF CQ!Next
  <1> QED
    BY <1>3, <1>4

(* A claim goes when its operation is answered.                            *)
LEMMA UnclaimMaps ==
    ASSUME JInv, Unclaim \/ \E o \in Ops : DropClaim(o)
    PROVE  [CQ!Next]_(CQ!vars)
  <1> USE DEF JInv, QInv, AInv, IInv
  <1>1. pc \notin Working /\ pc' \notin Working
    BY DEF Unclaim, DropClaim, control, Working
  <1>2. UNCHANGED <<answered, results, app, acks>>
    BY DEF Unclaim, DropClaim, replies, world, client
  <1>3. PICK o \in Ops : o \in answered /\ processing' = processing \ {o}
    BY Current DEF Unclaim, DropClaim, Settled, Known, TypeOK, InHand, Busy
  <1>4. CQ!Unclaim(o)
    BY <1>1, <1>2, <1>3, NotExecuting DEF CQ!Unclaim
  <1> QED
    BY <1>4 DEF CQ!Next

(* The application records and acknowledges.                               *)
LEMMA ApplicationMaps == JInv /\ Application => [CQ!Next]_(CQ!vars)
  <1> SUFFICES ASSUME JInv, Application PROVE [CQ!Next]_(CQ!vars)
    OBVIOUS
  <1> USE DEF JInv, QInv, AInv, IInv
  <1>1. pc \notin Working /\ pc' \notin Working
    BY DEF Application, Submit, Enqueue, Acknowledge, control, Working
  <1>2. UNCHANGED <<processing, answered, results>>
    BY DEF Application, Submit, Enqueue, Acknowledge, requests, replies
  <1>3. ASSUME NEW o \in Ops, NEW kind \in Kinds, NEW i \in Identities \cup {None},
               Submit(o, kind, i)
        PROVE  CQ!Next
    <2>1. CQ!Record(o)
      BY <1>1, <1>2, <1>3, NotExecuting DEF Submit, replies, TypeOK, CQ!Record
    <2> QED
      BY <2>1 DEF CQ!Next
  <1>4. ASSUME NEW o \in Ops, Enqueue(o) PROVE UNCHANGED CQ!vars
    BY <1>1, <1>2, <1>4, NotExecuting DEF Enqueue, replies, TypeOK, CQ!vars
  <1>5. ASSUME NEW o \in Ops, NEW kind \in {"torn", "whole"}, Acknowledge(o, kind)
        PROVE  [CQ!Next]_(CQ!vars)
    <2>1. UNCHANGED app /\ o \in results
      BY <1>5 DEF Acknowledge, client
    <2> DEFINE Acked == {p \in Ops : acks[p] = "whole"}
    <2>2. CASE kind = "torn"
      <3>1. Acked' = Acked
        BY <1>5, <2>2 DEF Acknowledge, TypeOK
      <3> QED
        BY <1>1, <1>2, <2>1, <3>1, NotExecuting DEF CQ!vars
    <2>3. CASE kind = "whole"
      <3>1. Acked' = Acked \cup {o}
        BY <1>5, <2>3 DEF Acknowledge, TypeOK
      <3>2. CQ!Acknowledge(o)
        BY <1>1, <1>2, <2>1, <3>1, NotExecuting DEF CQ!Acknowledge
      <3> QED
        BY <3>2 DEF CQ!Next
    <2> QED
      BY <2>2, <2>3
  <1> QED
    BY <1>3, <1>4, <1>5 DEF Application

(* While completed records outlive what they settle, the supervisor with    *)
(* its crashes, its journals and the application implement the queue.      *)
THEOREM ImplementsQueue == Spec /\ RecordsKept => QueueSpec
  <1>1. JInv /\ [Next]_vars /\ [Kept]_vars => [CQ!Next]_(CQ!vars)
    BY OthersHidden, FilesHidden, ForgetMaps, BeginMaps, PublishMaps, UnclaimMaps,
       ApplicationMaps DEF QueueStep
  <1>2. JInv /\ [Next]_vars /\ [Kept]_vars => JInv'
    BY JInvStep
  <1> QED
    BY QueueInit, InitJInv, <1>1, <1>2, PTL DEF Spec, QueueSpec, CQ!Spec, RecordsKept, Kept

-----------------------------------------------------------------------------
(* Where the hypothesis is met: with fewer operations than records are     *)
(* kept, in less than the month that they are kept for, nothing is swept   *)
(* or trimmed too early.                                                   *)
WithinLimits == IsFiniteSet(Ops) /\ Cardinality(Ops) <= MaxCompleted /\ ~Expires

NoneOld == old = {}

(* No record ages, and there are never too many of them.                   *)
THEOREM KeepsRecords == WithinLimits => (Spec => RecordsKept)
  <1> SUFFICES ASSUME IsFiniteSet(Ops), Cardinality(Ops) <= MaxCompleted, ~Expires
               PROVE  Spec => RecordsKept
    BY DEF WithinLimits
  <1>1. Init => NoneOld
    BY DEF Init, NoneOld
  <1>2. TypeOK /\ NoneOld /\ [Next]_vars => NoneOld'
    <2> SUFFICES ASSUME TypeOK, old = {}, [Next]_vars PROVE old' = {}
      BY DEF NoneOld
    <2>1. CASE UNCHANGED old
      BY <2>1
    <2>2. ASSUME NEW o \in Ops, SweepRecord(o) \/ Trim(o) PROVE old' = {}
      BY <2>2 DEF SweepRecord, Trim
    <2>3. ASSUME NEW o \in Ops, RecordAges(o) PROVE FALSE
      BY <2>3 DEF RecordAges
    <2> QED
      BY <2>1, <2>2, <2>3 DEF Next, Supervisor, Application, Environment, Boot, BeginPass,
         Crash, TakeAck, SweepOperation, ResumeJournal, Relink, DropClaim, ResumeClaim,
         DropQueued, TakeQueued, ForgetResult, ForgetJournal, ForgetAck, AcksDone,
         SweepDone, JournalsDone, OperationsDone, ClaimNothing, Reject, BeginLogin,
         CancelLogin, ClearLogin, CheckIdentity, SetFunnel, PersistActive,
         BeginDisconnect, CheckTeardown, TeardownFunnel, TeardownLogout, Advance,
         StartDeletion, DeleteEntry, DeletionDone, FinishDisconnect, Publish, Unclaim,
         Submit, Enqueue, Acknowledge, LoginEnds, LoginAges, DaemonReady, DaemonDies,
         NodeExpires, vars, files, records
  <1>3. TypeOK /\ NoneOld /\ [Next]_vars =>
          [\A o \in completed \ completed' : o \notin queue \cup processing]_vars
    <2> SUFFICES ASSUME TypeOK, old = {}, Next PROVE completed \subseteq completed'
      BY DEF NoneOld
    <2>1. Cardinality(completed) <= MaxCompleted
      <3>1. completed \subseteq Ops
        BY DEF TypeOK
      <3>2. /\ IsFiniteSet(completed) /\ Cardinality(completed) <= Cardinality(Ops)
        BY <3>1, FS_Subset
      <3>3. Cardinality(completed) \in Nat /\ Cardinality(Ops) \in Nat
        BY <3>2, FS_CardinalityType
      <3> QED
        BY <3>2, <3>3, BoundsAssumption
    <2>2. ASSUME NEW o \in Ops, Trim(o) PROVE FALSE
      <3>1. Cardinality(completed) \in Nat
        BY FS_Subset, FS_CardinalityType DEF TypeOK
      <3> QED
        BY <2>1, <2>2, <3>1, BoundsAssumption DEF Trim
    <2>3. ASSUME NEW o \in Ops, SweepRecord(o) PROVE FALSE
      BY <2>3 DEF SweepRecord
    <2>4. CASE UNCHANGED completed
      BY <2>4
    <2>5. ASSUME NEW o \in Ops, TakeAck(o) PROVE completed \subseteq completed'
      BY <2>5 DEF TakeAck
    <2> QED
      BY <2>2, <2>3, <2>4, <2>5 DEF Next, Supervisor, Application, Environment, Boot,
         BeginPass, Crash, SweepOperation, ResumeJournal, Relink, DropClaim, ResumeClaim,
         DropQueued, TakeQueued, ForgetResult, ForgetJournal, ForgetAck, AcksDone,
         SweepDone, JournalsDone, OperationsDone, ClaimNothing, Reject, BeginLogin,
         CancelLogin, ClearLogin, CheckIdentity, SetFunnel, PersistActive,
         BeginDisconnect, CheckTeardown, TeardownFunnel, TeardownLogout, Advance,
         StartDeletion, DeleteEntry, DeletionDone, FinishDisconnect, Publish, Unclaim,
         Submit, Enqueue, Acknowledge, LoginEnds, LoginAges, DaemonReady, DaemonDies,
         NodeExpires, RecordAges, vars, files, records
  <1> QED
    BY TypeCorrect, <1>1, <1>2, <1>3, PTL DEF Spec, RecordsKept

(* Within those limits the supervisor implements the queue, and executes   *)
(* no operation again that was answered, without any hypothesis.           *)
COROLLARY QueueWithinLimits == WithinLimits => (Spec => QueueSpec /\ NoRepeat)
  BY KeepsRecords, ImplementsQueue, ExecutesOnce, PTL
=============================================================================
