-------------------------- MODULE AtomicMigration --------------------------
(***************************************************************************)
(* What the migrator promises (extended-umbrella-lnswitchboard, CHANGELOG  *)
(* 0.4.0.rc20): a transaction first binds, durably and in one step, the    *)
(* whole canonical state it will produce; then canonical state only grows  *)
(* towards that plan, entry by entry and never over an existing entry;     *)
(* and it completes only when canonical state is the plan and the archives *)
(* hold all of it.  The applications write between transactions, and no    *)
(* archive is ever lost.                                                   *)
(***************************************************************************)
CONSTANTS
    Names,   \* the state entries
    Values,  \* their contents
    None     \* no such entry

VARIABLES
    phase,   \* "none" before the first transaction, "prepared", "complete"
    plan,    \* what the last transaction binds
    state,   \* canonical state
    archive  \* what the archives hold: pairs of a name and a content

vars == <<phase, plan, state, archive>>

States == [Names -> Values \cup {None}]
Extends(f, g) == \A n \in Names : g[n] # None => f[n] = g[n]
Content(f) == {c \in Names \X Values : f[c[1]] = c[2]}

Init ==
    /\ phase = "none"
    /\ plan = [n \in Names |-> None]
    /\ state \in States
    /\ archive \subseteq Names \X Values

Prepare ==
    /\ phase # "prepared"
    /\ phase' = "prepared"
    /\ plan' \in States /\ Extends(plan', state)
    /\ UNCHANGED <<state, archive>>

Commit(n) ==
    /\ phase = "prepared" /\ state[n] = None
    /\ state' = [state EXCEPT ![n] = plan[n]]
    /\ UNCHANGED <<phase, plan, archive>>

Archive ==
    /\ phase = "prepared"
    /\ archive' \in SUBSET (Names \X Values) /\ archive \subseteq archive'
    /\ UNCHANGED <<phase, plan, state>>

Complete ==
    /\ phase = "prepared"
    /\ state = plan /\ Content(plan) \subseteq archive
    /\ phase' = "complete"
    /\ UNCHANGED <<plan, state, archive>>

ApplicationsWrite ==
    /\ phase # "prepared"
    /\ state' \in States
    /\ UNCHANGED <<phase, plan, archive>>

Next ==
    \/ Prepare \/ Archive \/ Complete \/ ApplicationsWrite
    \/ \E n \in Names : Commit(n)

Spec == Init /\ [][Next]_vars

=============================================================================
