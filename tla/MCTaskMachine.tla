--------------------------- MODULE MCTaskMachine ---------------------------
(* Instances of TaskMachine: a and b are independent, c and e depend on a, *)
(* and d on c.  The two dependents of a can kill both workers.             *)
EXTENDS TaskMachine

CONSTANTS a, b, c, d, e

ChainOnA == [t \in Tasks |-> CASE t \in {c, e} -> {a} [] t = d -> {c} [] OTHER -> {}]
Modes == [t \in Tasks |-> CASE t = a -> "ALWAYS" [] t = b -> "EXCEPTION"
                             [] t = c -> "CALL" [] OTHER -> "NEVER"]

(* The bounds of the instance of five tasks: the machine is paused while   *)
(* at most four of them are submitted, and shut down while at most three.  *)
PausedTasks == 4
ClosedTasks == 3
Bounded ==
  /\ pause_event \/ Cardinality(Submitted) <= PausedTasks
  /\ ~closed \/ Cardinality(Submitted) <= ClosedTasks
=============================================================================
