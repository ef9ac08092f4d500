--------------------------- MODULE TaskLifecycle ---------------------------
(***************************************************************************)
(* What the task machine promises of every task, whatever its queue, its   *)
(* workers and its retries do: a submitted task is executed at most        *)
(* RetryLimit times, one execution at a time, ends once, and nothing       *)
(* happens to it afterwards.                                               *)
(***************************************************************************)
EXTENDS Integers

CONSTANTS Tasks, RetryLimit

VARIABLES phase, tries

Init ==
  /\ phase = [t \in Tasks |-> "new"]
  /\ tries = [t \in Tasks |-> 0]

Submit(t) ==
  /\ phase[t] = "new"
  /\ phase' = [phase EXCEPT ![t] = "queued"]
  /\ UNCHANGED tries

Start(t) ==
  /\ phase[t] = "queued" /\ tries[t] < RetryLimit
  /\ phase' = [phase EXCEPT ![t] = "running"]
  /\ tries' = [tries EXCEPT ![t] = @ + 1]

Again(t) ==
  /\ phase[t] = "running" /\ tries[t] < RetryLimit
  /\ phase' = [phase EXCEPT ![t] = "queued"]
  /\ UNCHANGED tries

\* A task ends after an execution, or unexecuted when a dependency failed.
End(t) ==
  /\ phase[t] \in {"queued", "running"}
  /\ phase' = [phase EXCEPT ![t] = "ended"]
  /\ UNCHANGED tries

Next == \E t \in Tasks : Submit(t) \/ Start(t) \/ Again(t) \/ End(t)

Spec == Init /\ [][Next]_<<phase, tries>>
=============================================================================
