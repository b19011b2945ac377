---------------------------- MODULE CommandQueue ----------------------------
(***************************************************************************)
(* What the files between lnSwitchboard and a connector promise: a command *)
(* that was recorded is claimed by one worker, alone; a worker that is     *)
(* interrupted takes its claim up again; the command has one answer, and   *)
(* is not executed once it has; the result stays until it is               *)
(* acknowledged, and does not come back once the acknowledgement is        *)
(* released.                                                               *)
(***************************************************************************)
CONSTANT Ops

VARIABLES
    recorded, \* the commands that were recorded
    claim,    \* the command that is being processed: at most one
    running,  \* the command that is being executed
    answered, \* the commands that were answered
    results,  \* the results to be read
    acked     \* the results that were acknowledged

vars == <<recorded, claim, running, answered, results, acked>>

Init ==
    /\ recorded = {} /\ claim = {} /\ running = {}
    /\ answered = {} /\ results = {} /\ acked = {}

Record(o) ==
    /\ recorded' = recorded \cup {o}
    /\ UNCHANGED <<claim, running, answered, results, acked>>

Claim(o) ==
    /\ claim = {} /\ running = {} /\ o \in recorded \ answered
    /\ claim' = {o} /\ running' = {o}
    /\ UNCHANGED <<recorded, answered, results, acked>>

(* A crash; the claim is taken up again.                                   *)
Interrupt ==
    /\ running' = {}
    /\ UNCHANGED <<recorded, claim, answered, results, acked>>

Resume(o) ==
    /\ running = {} /\ o \in claim \ answered
    /\ running' = {o}
    /\ UNCHANGED <<recorded, claim, answered, results, acked>>

Answer(o) ==
    /\ o \in running
    /\ running' = {}
    /\ answered' = answered \cup {o} /\ results' = results \cup {o}
    /\ UNCHANGED <<recorded, claim, acked>>

Unclaim(o) ==
    /\ o \in answered
    /\ claim' = claim \ {o}
    /\ UNCHANGED <<recorded, running, answered, results, acked>>

Acknowledge(o) ==
    /\ o \in results
    /\ acked' = acked \cup {o}
    /\ UNCHANGED <<recorded, claim, running, answered, results>>

Discard(o) ==
    /\ o \in acked
    /\ results' = results \ {o}
    /\ UNCHANGED <<recorded, claim, running, answered, acked>>

(* Only while the acknowledgement stands may a result come back.           *)
Republish(o) ==
    /\ o \in acked
    /\ results' = results \cup {o}
    /\ UNCHANGED <<recorded, claim, running, answered, acked>>

Release(o) ==
    /\ o \in acked \ results
    /\ acked' = acked \ {o}
    /\ UNCHANGED <<recorded, claim, running, answered, results>>

Next ==
    \/ Interrupt
    \/ \E o \in Ops :
         \/ Record(o) \/ Claim(o) \/ Resume(o) \/ Answer(o) \/ Unclaim(o)
         \/ Acknowledge(o) \/ Discard(o) \/ Republish(o) \/ Release(o)

Spec == Init /\ [][Next]_vars
=============================================================================
