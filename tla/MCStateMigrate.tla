--------------------------- MODULE MCStateMigrate ---------------------------
(* Small instances of StateMigrate for TLC. *)
EXTENDS StateMigrate

CONSTANTS dir, wal

(* Database 1 is unsealed, 2 is sealed by key 1, 3 is empty. *)
MCGens == [n \in Names |-> CASE n = DB -> {1, 2, 3}
                             [] n \in {KEY, dir} -> {1, 2}
                             [] OTHER -> {1}]
MCKeyOf == [g \in 1 .. 3 |-> 1]

(* Of the two contents of a directory, the first lies within the second.   *)
MCInside == {<<1, 2>>}

=============================================================================
