------------------------- MODULE MCTaskPersistence -------------------------
(* Instances of TaskPersistence: a is independent, c depends on a. *)
EXTENDS TaskPersistence

CONSTANTS a, c

DependsOnA == [t \in Tasks |-> IF t = c THEN {a} ELSE {}]
Modes == [t \in Tasks |-> "ALWAYS"]
=============================================================================
