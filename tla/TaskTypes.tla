----------------------------- MODULE TaskTypes -----------------------------
(***************************************************************************)
(* The enumerations every part of the agent's task machine shares          *)
(* (agent_structure.py): what a task's status can be, which statuses end   *)
(* it, and what a task asks to happen when it ends.                        *)
(***************************************************************************)

TaskStatus == {"PENDING", "WAITING", "READY", "RUNNING", "DONE", "EXCEPTION",
               "TIMEOUT", "CANCELED", "FAILED"}

CallbackMode == {"ALWAYS", "EXCEPTION", "NEVER", "CALL"}

\* The statuses a task is done with; EXPIRED is left out: only pinned() writes it.
ts_done == {"FAILED", "CANCELED", "TIMEOUT", "EXCEPTION", "DONE"}

\* The statuses of a dependency that keep its dependent waiting.
Unfinished == {"PENDING", "READY", "WAITING", "RUNNING"}

\* The statuses of a dependency that fail its dependent.
Broken == {"FAILED", "EXCEPTION", "CANCELED", "TIMEOUT"}

(* What Worker._callback asks of the agent when a task of this mode ends   *)
(* with this status: a "run" of the control, a "call" (a run that brings   *)
(* no result of its own) or a "quiet" note in the history.                 *)
CallbackKind(mode, status) ==
  CASE mode = "NEVER" -> "quiet"
    [] mode = "EXCEPTION" /\ status \notin {"EXCEPTION", "TIMEOUT", "FAILED"} -> "quiet"
    [] mode = "CALL" -> "call"
    [] OTHER -> "run"
=============================================================================
