------------------------ MODULE ProtectedRoot_proofs ------------------------
(***************************************************************************)
(* For every set of runs, owners and modes, and any number of crashes, the *)
(* lock of the migrator never loses the owner and mode of ROOT, publishes  *)
(* only complete records and protects the body of a run; no start is ever  *)
(* refused, and a run that is not cut short leaves ROOT as it found it.    *)
(***************************************************************************)
EXTENDS ProtectedRoot, TLAPS

Working(r) == pc[r] \notin {"off", "wait"}

(* Only the holder of the flock works.                                     *)
Exclusive == \A r \in Runs : Working(r) => holder = r

(* A published record, also one that only a power loss would bring back,   *)
(* is complete, durable and says what ROOT was before.                     *)
Sound(entries) ==
    entries.lock # None =>
      content[entries.lock] = before /\ entries.lock \in synced
Records == Sound(names) /\ Sound(disk.names)

(* Without a published record ROOT is as it was.                           *)
Restorable ==
    /\ names.lock = None => root = before
    /\ disk.names.lock = None => disk.root = before

(* What a run knows at each place of its code.                             *)
Publishing(r) ==
    pc[r] \in {"create", "dropped", "write", "publish"} =>
      names.lock = None /\ original[r] = before
Writing(r) ==
    pc[r] \in {"write", "publish"} =>
      /\ lockFd[r] # None /\ lockFd[r] = names.temp
      /\ lockFd[r] # disk.names.lock
      /\ pc[r] = "publish" => content[lockFd[r]] = before
Holding(r) ==
    pc[r] \in {"published", "chown", "chmod", "locked", "body", "giveMode",
               "given"} =>
      names.lock # None /\ names.lock = lockFd[r] /\ original[r] = before
Changing(r) ==
    /\ pc[r] = "chmod" => root.owner = RootUser
    /\ pc[r] \in {"locked", "body"} => root = Locked
    /\ pc[r] = "body" => Durable
    /\ pc[r] = "giveMode" => root.owner = before.owner
    /\ pc[r] = "given" => root = before
Progress(r) == Publishing(r) /\ Writing(r) /\ Holding(r) /\ Changing(r)

(* The inductive invariant: what a crash finds is recoverable only because *)
(* of what the run that was interrupted knew.                              *)
IInv ==
    /\ TypeOK
    /\ Exclusive
    /\ Records
    /\ Restorable
    /\ \A r \in Runs : Progress(r)

-----------------------------------------------------------------------------
(* Initially nothing is locked, published or in progress.                  *)
LEMMA InitIInv == Init => IInv
  <1> SUFFICES ASSUME Init PROVE IInv
    OBVIOUS
  <1> USE RootAssumption DEF Init
  <1>1. TypeOK
    BY DEF TypeOK, Entries, Steps
  <1>2. Exclusive /\ Records /\ Restorable
    BY DEF Exclusive, Working, Records, Sound, Restorable
  <1>3. ASSUME NEW r \in Runs PROVE Progress(r)
    <2>1. pc[r] = "off"
      OBVIOUS
    <2> QED
      BY <2>1 DEF Progress, Publishing, Writing, Holding, Changing
  <1> QED
    BY <1>1, <1>2, <1>3 DEF IInv

(* While one run works, the others have not entered.                       *)
LEMMA OthersOut ==
    ASSUME IInv, NEW r \in Runs, Working(r)
    PROVE  \A q \in Runs \ {r} : pc[q] \in {"off", "wait"}
  BY DEF IInv, Exclusive, Working

(* A run that has not entered knows nothing.                               *)
LEMMA OutProgress ==
    ASSUME NEW q \in Runs, pc[q] \in {"off", "wait"}
    PROVE  Progress(q)
  BY DEF Progress, Publishing, Writing, Holding, Changing

(* Every step keeps the types.                                             *)
LEMMA TypeStep == TypeOK /\ [Next]_vars => TypeOK'
  <1> SUFFICES ASSUME TypeOK, [Next]_vars PROVE TypeOK'
    OBVIOUS
  <1> USE RootAssumption DEF TypeOK, Entries, Steps, Attributes
  <1>1. ASSUME NEW r \in Runs, Start(r) PROVE TypeOK'
    BY <1>1 DEF Start, Goto
  <1>2. ASSUME NEW r \in Runs, Acquire(r) PROVE TypeOK'
    BY <1>2 DEF Acquire, Goto
  <1>3. ASSUME NEW r \in Runs, Adopt(r) PROVE TypeOK'
    BY <1>3 DEF Adopt, Goto
  <1>4. ASSUME NEW r \in Runs, Remember(r) PROVE TypeOK'
    BY <1>4 DEF Remember, Goto
  <1>5. ASSUME NEW r \in Runs, Create(r) PROVE TypeOK'
    BY <1>5 DEF Create, Goto
  <1>6. ASSUME NEW r \in Runs, Write(r) PROVE TypeOK'
    BY <1>6 DEF Write, Goto
  <1>7. ASSUME NEW r \in Runs, Publish(r) PROVE TypeOK'
    BY <1>7 DEF Publish, Goto
  <1>8. ASSUME NEW r \in Runs, TakeOwner(r) PROVE TypeOK'
    BY <1>8 DEF TakeOwner, Goto
  <1>9. ASSUME NEW r \in Runs, TakeMode(r) PROVE TypeOK'
    BY <1>9 DEF TakeMode, Goto
  <1>10. ASSUME NEW r \in Runs, Enter(r) PROVE TypeOK'
    BY <1>10 DEF Enter, Goto
  <1>11. ASSUME NEW r \in Runs, GiveOwner(r) PROVE TypeOK'
    BY <1>11 DEF GiveOwner, Goto
  <1>12. ASSUME NEW r \in Runs, GiveMode(r) PROVE TypeOK'
    BY <1>12 DEF GiveMode, Goto
  <1>13. ASSUME NEW r \in Runs, Unlink(r) PROVE TypeOK'
    BY <1>13 DEF Unlink, Goto
  <1>14. ASSUME NEW r \in Runs, Release(r) PROVE TypeOK'
    BY <1>14 DEF Release, Goto, Leave
  <1>15. ASSUME NEW r \in Runs, Kill(r) PROVE TypeOK'
    BY <1>15 DEF Kill, Leave
  <1>16. CASE WriteBack
    BY <1>16 DEF WriteBack, process
  <1>17. CASE WriteBackRecord
    BY <1>17 DEF WriteBackRecord, process
  <1>18. CASE PowerLoss
    BY <1>18 DEF PowerLoss
  <1>19. CASE UNCHANGED vars
    BY <1>19 DEF vars, process
  <1> QED
    BY <1>1, <1>2, <1>3, <1>4, <1>5, <1>6, <1>7, <1>8, <1>9, <1>10, <1>11,
       <1>12, <1>13, <1>14, <1>15, <1>16, <1>17, <1>18, <1>19
    DEF Next, RunStep

(* A run that starts has not the flock yet.                                *)
LEMMA StartStep ==
    ASSUME IInv, TypeOK', NEW r \in Runs, Start(r)
    PROVE  IInv'
  <1> USE RootAssumption DEF IInv, TypeOK, Entries, Steps, Attributes, Locked,
                             Start, Goto
  <1>1. (Exclusive /\ Records /\ Restorable)'
    BY DEF Exclusive, Working, Records, Sound, Restorable
  <1>2. ASSUME NEW q \in Runs PROVE Progress(q)'
    BY DEF Progress, Publishing, Writing, Holding, Changing, Durable
  <1> QED
    BY <1>1, <1>2

(* Whoever gets the flock is alone.                                        *)
LEMMA AcquireStep ==
    ASSUME IInv, TypeOK', NEW r \in Runs, Acquire(r)
    PROVE  IInv'
  <1> USE RootAssumption DEF IInv, TypeOK, Entries, Steps, Attributes, Locked,
                             Acquire
  <1>1. \A q \in Runs : pc[q] \in {"off", "wait"}
    BY DEF Exclusive, Working
  <1>2. (Exclusive /\ Records /\ Restorable)'
    BY <1>1 DEF Exclusive, Working, Records, Sound, Restorable
  <1>3. ASSUME NEW q \in Runs PROVE Progress(q)'
    BY <1>1 DEF Progress, Publishing, Writing, Holding, Changing
  <1> QED
    BY <1>2, <1>3

(* An adopted record is sound: it says what ROOT was before.               *)
LEMMA AdoptStep ==
    ASSUME IInv, TypeOK', NEW r \in Runs, Adopt(r)
    PROVE  IInv'
  <1> USE RootAssumption DEF IInv, TypeOK, Entries, Steps, Attributes, Locked,
                             Adopt, Goto
  <1>1. Working(r) /\ Progress(r)
    BY DEF Working
  <1>2. \A q \in Runs \ {r} : pc[q] \in {"off", "wait"}
    BY <1>1, OthersOut
  <1>3. (Exclusive /\ Records /\ Restorable)'
    BY <1>1, <1>2 DEF Exclusive, Working, Records, Sound, Restorable,
                      Progress, Publishing, Writing, Holding, Changing, Durable
  <1>4. Progress(r)'
    BY <1>1, <1>2 DEF Progress, Publishing, Writing, Holding, Changing,
                      Durable, Records, Sound, Restorable
  <1>5. ASSUME NEW q \in Runs \ {r} PROVE Progress(q)'
    BY <1>2, pc'[q] = pc[q] DEF Progress, Publishing, Writing, Holding, Changing
  <1> QED
    BY <1>3, <1>4, <1>5

(* Without a record ROOT is as it was, so what the run remembers is right. *)
LEMMA RememberStep ==
    ASSUME IInv, TypeOK', NEW r \in Runs, Remember(r)
    PROVE  IInv'
  <1> USE RootAssumption DEF IInv, TypeOK, Entries, Steps, Attributes, Locked,
                             Remember, Goto
  <1>1. Working(r) /\ Progress(r)
    BY DEF Working
  <1>2. \A q \in Runs \ {r} : pc[q] \in {"off", "wait"}
    BY <1>1, OthersOut
  <1>3. (Exclusive /\ Records /\ Restorable)'
    BY <1>1, <1>2 DEF Exclusive, Working, Records, Sound, Restorable,
                      Progress, Publishing, Writing, Holding, Changing, Durable
  <1>4. Progress(r)'
    BY <1>1, <1>2 DEF Progress, Publishing, Writing, Holding, Changing,
                      Durable, Records, Sound, Restorable
  <1>5. ASSUME NEW q \in Runs \ {r} PROVE Progress(q)'
    BY <1>2, pc'[q] = pc[q] DEF Progress, Publishing, Writing, Holding, Changing
  <1> QED
    BY <1>3, <1>4, <1>5

(* The new file is nobody else's, not even after a power loss.             *)
LEMMA CreateStep ==
    ASSUME IInv, TypeOK', NEW r \in Runs, Create(r)
    PROVE  IInv'
  <1> USE RootAssumption DEF IInv, TypeOK, Entries, Steps, Attributes, Locked,
                             Create, Free
  <1>1. Working(r) /\ Progress(r)
    BY DEF Working
  <1>2. \A q \in Runs \ {r} : pc[q] \in {"off", "wait"}
    BY <1>1, OthersOut
  <1>3. (Exclusive /\ Records /\ Restorable)'
    BY <1>1, <1>2 DEF Exclusive, Working, Records, Sound, Restorable,
                      Progress, Publishing, Writing, Holding, Changing, Durable
  <1>4. Progress(r)'
    BY <1>1, <1>2 DEF Progress, Publishing, Writing, Holding, Changing,
                      Durable, Records, Sound, Restorable
  <1>5. ASSUME NEW q \in Runs \ {r} PROVE Progress(q)'
    BY <1>2, pc'[q] = pc[q] DEF Progress, Publishing, Writing, Holding, Changing
  <1> QED
    BY <1>3, <1>4, <1>5

(* Only the unpublished file changes.                                      *)
LEMMA WriteStep ==
    ASSUME IInv, TypeOK', NEW r \in Runs, Write(r)
    PROVE  IInv'
  <1> USE RootAssumption DEF IInv, TypeOK, Entries, Steps, Attributes, Locked,
                             Write, Goto
  <1>1. Working(r) /\ Progress(r)
    BY DEF Working
  <1>2. \A q \in Runs \ {r} : pc[q] \in {"off", "wait"}
    BY <1>1, OthersOut
  <1>3. (Exclusive /\ Records /\ Restorable)'
    BY <1>1, <1>2 DEF Exclusive, Working, Records, Sound, Restorable,
                      Progress, Publishing, Writing, Holding, Changing, Durable
  <1>4. Progress(r)'
    BY <1>1, <1>2 DEF Progress, Publishing, Writing, Holding, Changing,
                      Durable, Records, Sound, Restorable
  <1>5. ASSUME NEW q \in Runs \ {r} PROVE Progress(q)'
    BY <1>2, pc'[q] = pc[q] DEF Progress, Publishing, Writing, Holding, Changing
  <1> QED
    BY <1>3, <1>4, <1>5

(* What is published is written and durable.                               *)
LEMMA PublishStep ==
    ASSUME IInv, TypeOK', NEW r \in Runs, Publish(r)
    PROVE  IInv'
  <1> USE RootAssumption DEF IInv, TypeOK, Entries, Steps, Attributes, Locked,
                             Publish, Goto
  <1>1. Working(r) /\ Progress(r)
    BY DEF Working
  <1>2. \A q \in Runs \ {r} : pc[q] \in {"off", "wait"}
    BY <1>1, OthersOut
  <1>3. (Exclusive /\ Records /\ Restorable)'
    BY <1>1, <1>2 DEF Exclusive, Working, Records, Sound, Restorable,
                      Progress, Publishing, Writing, Holding, Changing, Durable
  <1>4. Progress(r)'
    BY <1>1, <1>2 DEF Progress, Publishing, Writing, Holding, Changing,
                      Durable, Records, Sound, Restorable
  <1>5. ASSUME NEW q \in Runs \ {r} PROVE Progress(q)'
    BY <1>2, pc'[q] = pc[q] DEF Progress, Publishing, Writing, Holding, Changing
  <1> QED
    BY <1>3, <1>4, <1>5

(* ROOT changes only while a record of what it was is published.           *)
LEMMA TakeOwnerStep ==
    ASSUME IInv, TypeOK', NEW r \in Runs, TakeOwner(r)
    PROVE  IInv'
  <1> USE RootAssumption DEF IInv, TypeOK, Entries, Steps, Attributes, Locked,
                             TakeOwner, Goto
  <1>1. Working(r) /\ Progress(r)
    BY DEF Working
  <1>2. \A q \in Runs \ {r} : pc[q] \in {"off", "wait"}
    BY <1>1, OthersOut
  <1>3. (Exclusive /\ Records /\ Restorable)'
    BY <1>1, <1>2 DEF Exclusive, Working, Records, Sound, Restorable,
                      Progress, Publishing, Writing, Holding, Changing, Durable
  <1>4. Progress(r)'
    BY <1>1, <1>2 DEF Progress, Publishing, Writing, Holding, Changing,
                      Durable, Records, Sound, Restorable
  <1>5. ASSUME NEW q \in Runs \ {r} PROVE Progress(q)'
    BY <1>2, pc'[q] = pc[q] DEF Progress, Publishing, Writing, Holding, Changing
  <1> QED
    BY <1>3, <1>4, <1>5

(* The same for the mode.                                                  *)
LEMMA TakeModeStep ==
    ASSUME IInv, TypeOK', NEW r \in Runs, TakeMode(r)
    PROVE  IInv'
  <1> USE RootAssumption DEF IInv, TypeOK, Entries, Steps, Attributes, Locked,
                             TakeMode, Goto
  <1>1. Working(r) /\ Progress(r)
    BY DEF Working
  <1>2. \A q \in Runs \ {r} : pc[q] \in {"off", "wait"}
    BY <1>1, OthersOut
  <1>3. (Exclusive /\ Records /\ Restorable)'
    BY <1>1, <1>2 DEF Exclusive, Working, Records, Sound, Restorable,
                      Progress, Publishing, Writing, Holding, Changing, Durable
  <1>4. Progress(r)'
    BY <1>1, <1>2 DEF Progress, Publishing, Writing, Holding, Changing,
                      Durable, Records, Sound, Restorable
  <1>5. ASSUME NEW q \in Runs \ {r} PROVE Progress(q)'
    BY <1>2, pc'[q] = pc[q] DEF Progress, Publishing, Writing, Holding, Changing
  <1> QED
    BY <1>3, <1>4, <1>5

(* The body begins with ROOT durably locked.                               *)
LEMMA EnterStep ==
    ASSUME IInv, TypeOK', NEW r \in Runs, Enter(r)
    PROVE  IInv'
  <1> USE RootAssumption DEF IInv, TypeOK, Entries, Steps, Attributes, Locked,
                             Enter, Goto
  <1>1. Working(r) /\ Progress(r)
    BY DEF Working
  <1>2. \A q \in Runs \ {r} : pc[q] \in {"off", "wait"}
    BY <1>1, OthersOut
  <1>3. (Exclusive /\ Records /\ Restorable)'
    BY <1>1, <1>2 DEF Exclusive, Working, Records, Sound, Restorable,
                      Progress, Publishing, Writing, Holding, Changing, Durable
  <1>4. Progress(r)'
    BY <1>1, <1>2 DEF Progress, Publishing, Writing, Holding, Changing,
                      Durable, Records, Sound, Restorable
  <1>5. ASSUME NEW q \in Runs \ {r} PROVE Progress(q)'
    BY <1>2, pc'[q] = pc[q] DEF Progress, Publishing, Writing, Holding, Changing
  <1> QED
    BY <1>3, <1>4, <1>5

(* The record is still there while ROOT is given back,                     *)
LEMMA GiveOwnerStep ==
    ASSUME IInv, TypeOK', NEW r \in Runs, GiveOwner(r)
    PROVE  IInv'
  <1> USE RootAssumption DEF IInv, TypeOK, Entries, Steps, Attributes, Locked,
                             GiveOwner, Goto
  <1>1. Working(r) /\ Progress(r)
    BY DEF Working
  <1>2. \A q \in Runs \ {r} : pc[q] \in {"off", "wait"}
    BY <1>1, OthersOut
  <1>3. (Exclusive /\ Records /\ Restorable)'
    BY <1>1, <1>2 DEF Exclusive, Working, Records, Sound, Restorable,
                      Progress, Publishing, Writing, Holding, Changing, Durable
  <1>4. Progress(r)'
    BY <1>1, <1>2 DEF Progress, Publishing, Writing, Holding, Changing,
                      Durable, Records, Sound, Restorable
  <1>5. ASSUME NEW q \in Runs \ {r} PROVE Progress(q)'
    BY <1>2, pc'[q] = pc[q] DEF Progress, Publishing, Writing, Holding, Changing
  <1> QED
    BY <1>3, <1>4, <1>5

(* in both of its steps.                                                   *)
LEMMA GiveModeStep ==
    ASSUME IInv, TypeOK', NEW r \in Runs, GiveMode(r)
    PROVE  IInv'
  <1> USE RootAssumption DEF IInv, TypeOK, Entries, Steps, Attributes, Locked,
                             GiveMode, Goto
  <1>1. Working(r) /\ Progress(r)
    BY DEF Working
  <1>2. \A q \in Runs \ {r} : pc[q] \in {"off", "wait"}
    BY <1>1, OthersOut
  <1>3. (Exclusive /\ Records /\ Restorable)'
    BY <1>1, <1>2 DEF Exclusive, Working, Records, Sound, Restorable,
                      Progress, Publishing, Writing, Holding, Changing, Durable
  <1>4. Progress(r)'
    BY <1>1, <1>2 DEF Progress, Publishing, Writing, Holding, Changing,
                      Durable, Records, Sound, Restorable
  <1>5. ASSUME NEW q \in Runs \ {r} PROVE Progress(q)'
    BY <1>2, pc'[q] = pc[q] DEF Progress, Publishing, Writing, Holding, Changing
  <1> QED
    BY <1>3, <1>4, <1>5

(* The record goes only when ROOT is as it was, durably.                   *)
LEMMA UnlinkStep ==
    ASSUME IInv, TypeOK', NEW r \in Runs, Unlink(r)
    PROVE  IInv'
  <1> USE RootAssumption DEF IInv, TypeOK, Entries, Steps, Attributes, Locked,
                             Unlink, Goto
  <1>1. Working(r) /\ Progress(r)
    BY DEF Working
  <1>2. \A q \in Runs \ {r} : pc[q] \in {"off", "wait"}
    BY <1>1, OthersOut
  <1>3. (Exclusive /\ Records /\ Restorable)'
    BY <1>1, <1>2 DEF Exclusive, Working, Records, Sound, Restorable,
                      Progress, Publishing, Writing, Holding, Changing, Durable
  <1>4. Progress(r)'
    BY <1>1, <1>2 DEF Progress, Publishing, Writing, Holding, Changing,
                      Durable, Records, Sound, Restorable
  <1>5. ASSUME NEW q \in Runs \ {r} PROVE Progress(q)'
    BY <1>2, pc'[q] = pc[q] DEF Progress, Publishing, Writing, Holding, Changing
  <1> QED
    BY <1>3, <1>4, <1>5

(* Leaving changes nothing on disk.                                        *)
LEMMA ReleaseStep ==
    ASSUME IInv, TypeOK', NEW r \in Runs, Release(r)
    PROVE  IInv'
  <1> USE RootAssumption DEF IInv, TypeOK, Entries, Steps, Attributes, Locked,
                             Release, Leave, Refused
  <1>1. Working(r) /\ Progress(r)
    BY DEF Working
  <1>2. \A q \in Runs \ {r} : pc[q] \in {"off", "wait"}
    BY <1>1, OthersOut
  <1>3. (Exclusive /\ Records /\ Restorable)'
    BY <1>1, <1>2 DEF Exclusive, Working, Records, Sound, Restorable,
                      Progress, Publishing, Writing, Holding, Changing, Durable
  <1>4. Progress(r)'
    BY <1>1, <1>2 DEF Progress, Publishing, Writing, Holding, Changing,
                      Durable, Records, Sound, Restorable
  <1>5. ASSUME NEW q \in Runs \ {r} PROVE Progress(q)'
    BY <1>2, pc'[q] = pc[q] DEF Progress, Publishing, Writing, Holding, Changing
  <1> QED
    BY <1>3, <1>4, <1>5

(* A kill loses no record: it only frees the flock.                        *)
LEMMA KillStep ==
    ASSUME IInv, TypeOK', NEW r \in Runs, Kill(r)
    PROVE  IInv'
  <1> USE RootAssumption DEF IInv, TypeOK, Entries, Steps, Attributes,
                             Kill, Leave
  <1>1. (Exclusive /\ Records /\ Restorable)'
    BY DEF Exclusive, Working, Records, Sound, Restorable
  <1>2. ASSUME NEW q \in Runs PROVE Progress(q)'
    BY DEF Progress, Publishing, Writing, Holding, Changing, Durable
  <1> QED
    BY <1>1, <1>2

(* What is written back is as sound as what it is a copy of.               *)
LEMMA WriteBackStep ==
    ASSUME IInv, TypeOK', WriteBack
    PROVE  IInv'
  <1> USE DEF IInv, WriteBack, process
  <1>1. (Exclusive /\ Records /\ Restorable)'
    BY DEF Exclusive, Working, Records, Sound, Restorable
  <1>2. ASSUME NEW q \in Runs PROVE Progress(q)'
    BY DEF Progress, Publishing, Writing, Holding, Changing, Durable
  <1> QED
    BY <1>1, <1>2

LEMMA WriteBackRecordStep ==
    ASSUME IInv, TypeOK', WriteBackRecord
    PROVE  IInv'
  <1> USE DEF IInv, WriteBackRecord, process
  <1>1. (Exclusive /\ Records /\ Restorable)'
    BY DEF Exclusive, Working, Records, Sound, Restorable
  <1>2. ASSUME NEW q \in Runs PROVE Progress(q)'
    BY DEF Progress, Publishing, Writing, Holding, Changing, Durable
  <1> QED
    BY <1>1, <1>2

(* After a power loss the records on disk are the ones that were durable.  *)
LEMMA PowerLossStep ==
    ASSUME IInv, TypeOK', PowerLoss
    PROVE  IInv'
  <1> USE DEF IInv, TypeOK, Entries, Steps, PowerLoss
  <1>1. (Exclusive /\ Records /\ Restorable)'
    BY RootAssumption DEF Exclusive, Working, Records, Sound, Restorable
  <1>2. ASSUME NEW q \in Runs PROVE Progress(q)'
    <2>1. pc'[q] = "off"
      OBVIOUS
    <2> QED
      BY <2>1 DEF Progress, Publishing, Writing, Holding, Changing
  <1> QED
    BY <1>1, <1>2

LEMMA StutterStep ==
    ASSUME IInv, UNCHANGED vars
    PROVE  IInv'
  <1> USE DEF IInv, vars, process
  <1>1. (TypeOK /\ Exclusive /\ Records /\ Restorable)'
    BY DEF TypeOK, Exclusive, Working, Records, Sound, Restorable
  <1>2. ASSUME NEW q \in Runs PROVE Progress(q)'
    BY DEF Progress, Publishing, Writing, Holding, Changing, Durable
  <1> QED
    BY <1>1, <1>2

-----------------------------------------------------------------------------
(* IInv holds in every reachable state.                                    *)
THEOREM Invariance == Spec => []IInv
  <1>1. IInv /\ [Next]_vars => IInv'
    <2> SUFFICES ASSUME IInv, [Next]_vars PROVE IInv'
      OBVIOUS
    <2>1. TypeOK'
      BY TypeStep DEF IInv
    <2>2. ASSUME NEW r \in Runs, RunStep(r) PROVE IInv'
      BY <2>1, <2>2, StartStep, AcquireStep, AdoptStep, RememberStep, CreateStep,
         WriteStep, PublishStep, TakeOwnerStep, TakeModeStep, EnterStep,
         GiveOwnerStep, GiveModeStep, UnlinkStep, ReleaseStep DEF RunStep
    <2> QED
      BY <2>1, <2>2, KillStep, WriteBackStep, WriteBackRecordStep,
         PowerLossStep, StutterStep DEF Next
  <1> QED
    BY <1>1, InitIInv, PTL DEF Spec

(* Type correctness, for every set of runs and any number of crashes.      *)
THEOREM TypeCorrect == Spec => []TypeOK
  BY Invariance, PTL DEF IInv

(* What ROOT was before is never lost: not in a kill, not in a power loss. *)
THEOREM OriginalIsKept == Spec => []OriginalKept
  <1>1. IInv => OriginalKept
    BY DEF IInv, Records, Sound, Restorable, OriginalKept, Recoverable
  <1> QED
    BY <1>1, Invariance, PTL

(* A run never meets a record that it cannot parse.                        *)
THEOREM PublishedWhole == Spec => []RecordsWhole
  <1>1. IInv => RecordsWhole
    BY RootAssumption DEF IInv, TypeOK, Records, Sound, RecordsWhole
  <1> QED
    BY <1>1, Invariance, PTL

(* The body of a run works alone, on a ROOT that is durably private and    *)
(* whose attributes are recorded.                                          *)
THEOREM BodyIsProtected == Spec => []BodyProtected
  <1>1. IInv => BodyProtected
    <2> SUFFICES ASSUME IInv, NEW r \in Runs, pc[r] = "body"
                 PROVE  /\ root = Locked /\ disk.root = Locked
                        /\ names.lock # None /\ lockFd[r] = names.lock
                        /\ \A q \in Runs \ {r} : pc[q] \in {"off", "wait"}
      BY DEF BodyProtected
    <2>1. Holding(r) /\ Changing(r) /\ Working(r)
      BY DEF IInv, Progress, Working
    <2> QED
      BY <2>1, OthersOut DEF Holding, Changing, Durable
  <1> QED
    BY <1>1, Invariance, PTL

-----------------------------------------------------------------------------
(* A temporary record exists only where none is published; a run that has  *)
(* removed the record leaves neither.                                      *)
Single(entries) == entries.lock = None \/ entries.temp = None
Ending ==
    /\ Single(names) /\ Single(disk.names)
    /\ \A r \in Runs : pc[r] = "release" => names.lock = None /\ names.temp = None

(* Every step keeps it. *)
LEMMA EndingStep ==
  ASSUME IInv, IInv', Ending, [Next]_vars
  PROVE  Ending'
<1> USE RootAssumption DEF Ending, Single
<1>1. /\ pc \in [Runs -> Steps] /\ names \in Entries /\ disk.names \in Entries
      /\ \A r \in Runs : pc[r] = "publish" => names.lock = None
      /\ \A r \in Runs : pc[r] = "given" => names.lock # None
      /\ \A r, q \in Runs : Working(r) /\ pc[q] = "release" => q = r
  BY OthersOut DEF IInv, TypeOK, Progress, Publishing, Holding, Working
<1>2. ASSUME NEW r \in Runs, RunStep(r) PROVE Ending'
  <2>1. CASE Start(r) \/ Acquire(r) \/ Adopt(r) \/ Write(r) \/ TakeOwner(r)
             \/ TakeMode(r) \/ Enter(r) \/ GiveOwner(r) \/ GiveMode(r)
    BY <1>1, <2>1 DEF Start, Acquire, Adopt, Write, TakeOwner, TakeMode, Enter,
       GiveOwner, GiveMode, Goto
  <2>2. CASE Remember(r)
    BY <1>1, <2>2 DEF Remember, Goto, Entries
  <2>3. CASE Create(r)
    <3>1. names.lock = None
      BY <2>3 DEF Create, IInv, Progress, Publishing
    <3>2. \A q \in Runs : pc'[q] # "release"
      BY <1>1, <2>3 DEF Create, Working
    <3> QED BY <1>1, <2>3, <3>1, <3>2 DEF Create, Entries
  <2>4. CASE Publish(r)
    BY <1>1, <2>4 DEF Publish, Goto, Working
  <2>5. CASE Unlink(r)
    BY <1>1, <2>5 DEF Unlink, Goto, Entries
  <2>6. CASE Release(r)
    BY <1>1, <2>6 DEF Release, Leave, Entries
  <2> QED BY <1>2, <2>1, <2>2, <2>3, <2>4, <2>5, <2>6 DEF RunStep
<1>3. ASSUME NEW r \in Runs, Kill(r) PROVE Ending'
  BY <1>1, <1>3 DEF Kill, Leave
<1>4. CASE WriteBack \/ WriteBackRecord
  BY <1>4 DEF WriteBack, WriteBackRecord, process
<1>5. CASE PowerLoss
  BY <1>5 DEF PowerLoss
<1>6. CASE UNCHANGED vars
  BY <1>6 DEF vars, process
<1> QED
  BY <1>2, <1>3, <1>4, <1>5, <1>6 DEF Next

(* It holds throughout. *)
LEMMA EndingInvariance == Spec => []Ending
<1>1. Init => Ending
  BY DEF Init, Ending, Single
<1> QED
  BY <1>1, EndingStep, Invariance, PTL DEF Spec

(* No run ever meets the states in which protected_root refuses: a record  *)
(* that does not parse, a LOCK that appears while one is published, a LOCK *)
(* that is not the open file.  Nothing that overlapping or interrupted     *)
(* runs leave behind stops a start.                                        *)
NeverRefused == \A r \in Runs : ~Refused(r)

(* The invariant excludes each of the three grounds of a refusal.          *)
THEOREM StartsAlways == Spec => []NeverRefused
<1>1. IInv => NeverRefused
  <2> SUFFICES ASSUME IInv, NEW r \in Runs, Refused(r) PROVE FALSE
    BY DEF NeverRefused
  <2>1. names.lock # None => content[names.lock] # Torn
    BY RootAssumption DEF IInv, TypeOK, Records, Sound
  <2> QED
    BY <2>1 DEF Refused, IInv, Progress, Publishing, Holding
<1> QED
  BY <1>1, Invariance, PTL

(* A run that ends without a crash, its body refused or not, has given     *)
(* ROOT its owner and mode back and left no record, and a power loss right *)
(* afterwards takes nothing of that back.                                  *)
EndsRestored ==
    [][\A r \in Runs : pc[r] # "off" /\ pc'[r] = "off" /\ UNCHANGED crashes =>
         /\ root' = before /\ disk'.root = before
         /\ \A entries \in {names', disk'.names} :
              entries.lock = None /\ entries.temp = None]_vars

(* The only way out without a crash is Release, behind the last fsync.     *)
THEOREM GivesBack == Spec => EndsRestored
<1> DEFINE A ==
      \A r \in Runs : pc[r] # "off" /\ pc'[r] = "off" /\ UNCHANGED crashes =>
         /\ root' = before /\ disk'.root = before
         /\ \A entries \in {names', disk'.names} :
              entries.lock = None /\ entries.temp = None
<1>1. ASSUME IInv, Ending, NeverRefused, [Next]_vars PROVE [A]_vars
  <2> SUFFICES ASSUME Next, NEW r \in Runs, pc[r] # "off", pc'[r] = "off",
                      UNCHANGED crashes
               PROVE  /\ root' = before /\ disk'.root = before
                      /\ \A entries \in {names', disk'.names} :
                           entries.lock = None /\ entries.temp = None
    BY <1>1
  <2>1. pc \in [Runs -> Steps] /\ crashes \in Nat
    BY <1>1 DEF IInv, TypeOK
  <2>2. Release(r)
    <3>1. PICK q \in Runs : RunStep(q)
      BY <2>1 DEF Next, Kill, PowerLoss, WriteBack, WriteBackRecord, process
    <3>2. q = r
      BY <2>1, <3>1 DEF RunStep, Start, Acquire, Adopt, Remember, Create, Write, Publish,
         TakeOwner, TakeMode, Enter, GiveOwner, GiveMode, Unlink, Release, Leave, Goto
    <3> QED
      BY <2>1, <3>1, <3>2
         DEF RunStep, Start, Acquire, Adopt, Remember, Create, Write, Publish,
             TakeOwner, TakeMode, Enter, GiveOwner, GiveMode, Unlink, Goto
  <2>3. pc[r] = "release" /\ Durable
    BY <1>1, <2>2 DEF Release, NeverRefused
  <2>4. root = before /\ names.lock = None /\ names.temp = None
    BY <1>1, <2>3 DEF Ending, IInv, Restorable
  <2>5. UNCHANGED <<root, names, disk>>
    BY <2>2, <2>3 DEF Release, Leave
  <2> QED BY <2>3, <2>4, <2>5 DEF Durable
<1> QED
  BY <1>1, Invariance, EndingInvariance, StartsAlways, PTL DEF Spec, EndsRestored
=============================================================================
