---------------------------- MODULE TaskMachine ----------------------------
(***************************************************************************)
(* The agent's task machine: AgentTaskQueue (agent_structure.py) and the   *)
(* pool of workers that drains it (agent_runtime.py), with the add_task of *)
(* agent.py that fills it.                                                 *)
(*                                                                         *)
(* Everything runs on one asyncio loop.  A coroutine gives the loop away   *)
(* only where it waits: on pause_event, on the queue's condition, or for   *)
(* the tool it executes.  The stretch between two waits is several actions *)
(* here, one per branch the code takes; "turn" names the worker in the     *)
(* middle of such a stretch, and no other actor moves before it ends.      *)
(***************************************************************************)
EXTENDS Integers, Sequences, FiniteSets, TaskTypes

CONSTANTS
  Tasks,        \* the tasks that may be submitted
  Workers,      \* the worker slots of the pool (max_worker of them)
  NoTask, NoWorker,
  RetryLimit,   \* AgentTaskRetryLimit: what add_task gives every task
  HistoryLimit, \* MaxAgentDoneTask: the length of the accomplished history
  Dependents,   \* [Tasks -> SUBSET Tasks]: the dependents argument of add_task
  Pinned,       \* the tasks added with pin=True
  Mode          \* [Tasks -> CallbackMode]: the callback argument of add_task

ASSUME TaskAssumption ==
  /\ RetryLimit \in Nat \ {0}
  /\ HistoryLimit \in Nat \ {0}
  /\ Dependents \in [Tasks -> SUBSET Tasks]
  /\ Mode \in [Tasks -> CallbackMode]
  /\ NoTask \notin Tasks
  /\ NoWorker \notin Workers
  /\ IsFiniteSet(Tasks)

\* No caller of add_task pins a task that has dependencies.
ASSUME PinnedAssumption == \A t \in Tasks \cap Pinned : Dependents[t] = {}

VARIABLES
  \* the AgentTask objects
  status, attempt, event, priority,
  \* AgentTaskQueue: tasks, accomplished_task, _heap, the condition's waiters
  tasks, accomplished_task, heap, waiters,
  \* the workers: where each stands, the task in its hand, what it publishes
  pc, hand, current_task, task_mapping,
  \* AgentWorkerManager.pause_event, the loop's turn, the callbacks scheduled
  pause_event, turn, reports, closed

taskVars == <<status, attempt, event, priority>>
queueVars == <<tasks, accomplished_task, heap, waiters>>
workerVars == <<pc, hand, current_task, task_mapping>>
vars == <<taskVars, queueVars, workerVars, pause_event, turn, reports, closed>>

-----------------------------------------------------------------------------
(* Helpers *)

Accomplished == {accomplished_task[i] : i \in DOMAIN accomplished_task}

\* The tasks that add_task has ever been given.
Submitted == {t \in Tasks : status[t] # "NEW"}

\* heapq keeps a least task on top; which of several is an accident of layout.
IsHead(t) ==
  /\ heap[t] > 0
  /\ \A u \in Tasks : heap[u] > 0 => priority[t] <= priority[u]

HeapEmpty == \A t \in Tasks : heap[t] = 0

\* Fault: a task taken back by its worker is not pushed again.
Push_forgotten(h, t) == h
Push(h, t) == [h EXCEPT ![t] = @ + 1]

\* Fault: get returns heap[0] and leaves it there.
Pop_peek(h, t) == h
Pop(h, t) == [h EXCEPT ![t] = @ - 1]

Drop(q, n) == SubSeq(q, n + 1, Len(q))

(* add_accomplish: an insertion-ordered dict bounded to HistoryLimit, the  *)
(* oldest entry evicted first; a task already there keeps its place.       *)
Filed(t) ==
  LET q == IF t \in Accomplished THEN accomplished_task
                                 ELSE Append(accomplished_task, t)
  IN  IF Len(q) > HistoryLimit THEN Drop(q, Len(q) - HistoryLimit) ELSE q

\* Condition.notify, called n times: how many of the waiters it reaches.
Reached_none(n) == 0 \* Fault: nobody is notified.
Reached(n) == IF n < Len(waiters) THEN n ELSE Len(waiters)

\* The first of them have their future set.
Woken(n) == {waiters[i] : i \in 1..Reached(n)}
Notified(n) == Drop(waiters, Reached(n))
Wake(n) == [v \in Workers |-> IF v \in Woken(n) THEN "woken" ELSE pc[v]]

\* w may move: nobody is in the middle of a stretch, or w itself is.
MayStep(w) == turn \in {NoWorker, w} /\ ~closed

(* _rearrange_priority walks the dependency chain through the tasks still  *)
(* in the queue, with s the statuses and ts the tasks at that moment.      *)
Linked(u, s) == Dependents[u] # {} /\ s[u] \in Unfinished
Chain(t, s, ts) ==
  LET walk[n \in Nat] ==
        IF n = 0 THEN {t}
        ELSE walk[n - 1] \cup UNION {Dependents[u] \cap ts : u \in {v \in walk[n - 1] : Linked(v, s)}}
  IN  {u \in Tasks : Linked(t, s) /\ Linked(u, s) /\ u \in {t} \cup walk[Cardinality(Tasks)]}

\* KeyError: a dependency is neither pending nor in the bounded history.
Unknown(t, s, ts) ==
  \E u \in Chain(t, s, ts) : ~(Dependents[u] \subseteq ts \cup Accomplished)

\* The largest priority number of the chain, or 0, as a singleton.
MaxPriority(t, s, ts) ==
  LET ps == {0} \cup {priority[u] : u \in Chain(t, s, ts)}
  IN  {p \in ps : \A r \in ps : r <= p}

-----------------------------------------------------------------------------
Init ==
  /\ status = [t \in Tasks |-> "NEW"]
  /\ attempt = [t \in Tasks |-> 0]
  /\ event = [t \in Tasks |-> FALSE]
  /\ priority = [t \in Tasks |-> IF t \in Pinned THEN 0 ELSE 50]
  /\ tasks = {}
  /\ accomplished_task = <<>>
  /\ heap = [t \in Tasks |-> 0]
  /\ waiters = <<>>
  /\ pc = [w \in Workers |-> "start"]
  /\ hand = [w \in Workers |-> NoTask]
  /\ current_task = [w \in Workers |-> NoTask]
  /\ task_mapping = [t \in Tasks |-> NoWorker]
  /\ pause_event = TRUE
  /\ turn = NoWorker
  /\ reports = [t \in Tasks |-> <<>>]
  /\ closed = FALSE

(* BaseAgent.add_task: adjust_worker replaces the workers that died, then  *)
(* the queue takes the task and notifies one waiter.  The dependents are   *)
(* AgentTask objects, so they were submitted before.                       *)
add_task(t) ==
  /\ turn = NoWorker /\ ~closed
  /\ status[t] = "NEW"
  /\ Dependents[t] \subseteq Submitted
  /\ LET s == [status EXCEPT ![t] = "PENDING"]
         ts == tasks \cup {t}
     IN  /\ ~Unknown(t, s, ts)
         /\ tasks' = ts
         /\ \E top \in MaxPriority(t, s, ts) :
              /\ status' = IF top > 0 THEN [s EXCEPT ![t] = "WAITING"] ELSE s
              /\ priority' = IF top > 0 THEN [priority EXCEPT ![t] = top + 1] ELSE priority
  /\ heap' = Push(heap, t)
  /\ waiters' = Notified(1)
  /\ pc' = [v \in Workers |-> IF pc[v] = "dead" THEN "start" ELSE Wake(1)[v]]
  /\ UNCHANGED <<attempt, event, accomplished_task, hand, current_task,
                 task_mapping, pause_event, turn, reports, closed>>

(* The same for a dependency the bounded history has already evicted: add  *)
(* raises after it entered the task in the table and before it pushed it.  *)
add_task_refused(t) ==
  /\ turn = NoWorker /\ ~closed
  /\ status[t] = "NEW"
  /\ Dependents[t] \subseteq Submitted
  /\ status' = [status EXCEPT ![t] = "PENDING"]
  /\ tasks' = tasks \cup {t}
  /\ Unknown(t, status', tasks')
  /\ pc' = [v \in Workers |-> IF pc[v] = "dead" THEN "start" ELSE pc[v]]
  /\ UNCHANGED <<attempt, event, priority, accomplished_task, heap, waiters, hand,
                 current_task, task_mapping, pause_event, turn, reports, closed>>

-----------------------------------------------------------------------------
(* Worker.worker_loop and AgentTaskQueue.get *)

\* The top of the loop: await pause_event.wait(), which passes when it is set.
Top(w) ==
  /\ MayStep(w) /\ pc[w] = "start"
  /\ pc' = [pc EXCEPT ![w] = IF pause_event THEN "get" ELSE "paused"]
  /\ turn' = IF pause_event THEN w ELSE NoWorker
  /\ UNCHANGED <<taskVars, queueVars, hand, current_task, task_mapping,
                 pause_event, reports, closed>>

\* get: nothing in the heap, wait on the condition.
GetEmpty(w) ==
  /\ MayStep(w) /\ pc[w] = "get"
  /\ HeapEmpty
  /\ waiters' = Append(waiters, w)
  /\ pc' = [pc EXCEPT ![w] = "waiting"]
  /\ turn' = NoWorker
  /\ UNCHANGED <<taskVars, tasks, accomplished_task, heap, hand, current_task,
                 task_mapping, pause_event, reports, closed>>

\* get: a finished task on top is filed and dropped.
GetFinished(w) ==
  /\ MayStep(w) /\ pc[w] = "get"
  /\ \E t \in Tasks :
       /\ IsHead(t) /\ status[t] \in ts_done
       /\ accomplished_task' = Filed(t)
       /\ tasks' = tasks \ {t}
       /\ heap' = Pop(heap, t)
  /\ turn' = w
  /\ UNCHANGED <<taskVars, waiters, workerVars, pause_event, reports, closed>>

\* The dependencies of t that get() can still look up.
Visible(t) == Dependents[t] \cap (tasks \cup Accomplished)

(* get: a WAITING task whose dependencies are not all done is taken off    *)
(* the heap and kept in hand while the worker waits on the condition.  The *)
(* scan ends at the first unfinished dependency, so a broken one is seen   *)
(* only when the set yields it earlier.  The add_accomplish of a DONE      *)
(* dependency changes nothing: such a task is in the history already.  One *)
(* that was DONE when it was loaded may still be in the table; it is left  *)
(* to its own turn at the head, which files it in the same way.            *)
GetHeld(w) ==
  /\ MayStep(w) /\ pc[w] = "get"
  /\ \E t \in Tasks :
       /\ IsHead(t) /\ status[t] = "WAITING"
       /\ LET broken == \E d \in Visible(t) : status[d] \in Broken
              unfinished == \E d \in Visible(t) : status[d] \in Unfinished
          IN  \/ /\ broken
                 /\ status' = [status EXCEPT ![t] = "FAILED"]
              \/ /\ unfinished
                 /\ UNCHANGED status
       /\ heap' = Pop(heap, t)
       /\ hand' = [hand EXCEPT ![w] = t]
  /\ waiters' = Append(waiters, w)
  /\ pc' = [pc EXCEPT ![w] = "waiting"]
  /\ turn' = NoWorker
  /\ UNCHANGED <<attempt, event, priority, tasks, accomplished_task,
                 current_task, task_mapping, pause_event, reports, closed>>

Runnable_early(t) == \* Fault: only a dependency that is executing counts as unfinished.
  \/ status[t] \in {"PENDING", "READY"}
  \/ status[t] = "WAITING" /\ \A d \in Visible(t) : status[d] # "RUNNING"
Runnable(t) ==
  \/ status[t] \in {"PENDING", "READY"}
  \/ status[t] = "WAITING" /\ \A d \in Visible(t) : status[d] = "DONE"

(* get returns the top of the heap; _task_get and set_running follow, the  *)
(* attempt is counted and, unless it is one too many, the tool is awaited. *)
Take(w) ==
  /\ MayStep(w) /\ pc[w] = "get"
  /\ \E t \in Tasks :
       /\ IsHead(t) /\ Runnable(t)
       /\ heap' = Pop(heap, t)
       /\ status' = [status EXCEPT ![t] = "RUNNING"]
       /\ event' = [event EXCEPT ![t] = FALSE]
       /\ attempt' = [attempt EXCEPT ![t] = @ + 1]
       /\ hand' = [hand EXCEPT ![w] = t]
       /\ current_task' = [current_task EXCEPT ![w] = t]
       /\ task_mapping' = [task_mapping EXCEPT ![t] = w]
       /\ turn' = IF attempt[t] + 1 > RetryLimit THEN w ELSE NoWorker
  /\ pc' = [pc EXCEPT ![w] = "exec"]
  /\ UNCHANGED <<priority, tasks, accomplished_task, waiters, pause_event,
                 reports, closed>>

\* A notified waiter runs again and puts back the task it kept in hand.
Resumed(w) ==
  /\ MayStep(w) /\ pc[w] = "woken"
  /\ heap' = IF hand[w] = NoTask THEN heap ELSE Push(heap, hand[w])
  /\ hand' = [hand EXCEPT ![w] = NoTask]
  /\ pc' = [pc EXCEPT ![w] = "get"]
  /\ turn' = w
  /\ UNCHANGED <<taskVars, tasks, accomplished_task, waiters, current_task,
                 task_mapping, pause_event, reports, closed>>

-----------------------------------------------------------------------------
(* The tool ends.  Each outcome runs on through the finally clause to the  *)
(* top of the loop: _task_done files a task whose status is not READY, and *)
(* notify_once wakes one more waiter.                                      *)

Executing(w, t) == MayStep(w) /\ pc[w] = "exec" /\ hand[w] = t

\* Whether a failed attempt leaves another one: attempt < retry_limit.
MayRetry_again(t) == attempt[t] <= RetryLimit \* Fault: off by one.
MayRetry(t) == attempt[t] < RetryLimit

\* _task_done and the change of the worker's place, after n notifications.
TaskDone(w, t, n, next) ==
  /\ hand' = [hand EXCEPT ![w] = NoTask]
  /\ current_task' = [current_task EXCEPT ![w] = NoTask]
  /\ task_mapping' = [task_mapping EXCEPT ![t] = NoWorker]
  /\ waiters' = Notified(n)
  /\ pc' = [Wake(n) EXCEPT ![w] = next]
  /\ UNCHANGED <<pause_event, closed>>

\* Fault: set_timeout without final, the event stays unset.
Final_silent(w, t, end) ==
  /\ status' = [status EXCEPT ![t] = end]
  /\ event' = [event EXCEPT ![t] = end # "TIMEOUT"]
  /\ reports' = [reports EXCEPT ![t] = Append(@, CallbackKind(Mode[t], end))]
  /\ accomplished_task' = Filed(t)
  /\ tasks' = tasks \ {t}
  /\ UNCHANGED <<attempt, priority, heap>>

\* The task ends for good: its event is set, its callback scheduled, it is filed.
Final(w, t, end) ==
  /\ status' = [status EXCEPT ![t] = end]
  /\ event' = [event EXCEPT ![t] = TRUE]
  /\ reports' = [reports EXCEPT ![t] = Append(@, CallbackKind(Mode[t], end))]
  /\ accomplished_task' = Filed(t)
  /\ tasks' = tasks \ {t}
  /\ UNCHANGED <<attempt, priority, heap>>

\* The tool returns: set_done, the callback, the history.
Succeed(w) ==
  \E t \in Tasks :
    /\ Executing(w, t) /\ attempt[t] <= RetryLimit
    /\ Final(w, t, "DONE")
    /\ TaskDone(w, t, 1, "start")
    /\ turn' = w

\* The last attempt times out or raises, or the attempt was one too many.
GiveUp(w) ==
  \E t \in Tasks :
    /\ Executing(w, t)
    /\ \/ attempt[t] >= RetryLimit /\ Final(w, t, "EXCEPTION")
       \/ attempt[t] = RetryLimit /\ Final(w, t, "TIMEOUT")
    /\ TaskDone(w, t, 1, "start")
    /\ turn' = w

(* An earlier attempt times out or raises: the task is READY again and     *)
(* goes back through add.  A task with dependencies is WAITING when add    *)
(* returns, and _task_done then files it as accomplished.                  *)
Retry(w) ==
  \E t \in Tasks :
    /\ Executing(w, t) /\ MayRetry(t)
    /\ LET s == [status EXCEPT ![t] = "READY"]
           ts == tasks \cup {t}
       IN  /\ ~Unknown(t, s, ts)
           /\ \E top \in MaxPriority(t, s, ts) :
                \/ /\ top > 0
                   /\ status' = [s EXCEPT ![t] = "WAITING"]
                   /\ priority' = [priority EXCEPT ![t] = top + 1]
                   /\ accomplished_task' = Filed(t)
                   /\ tasks' = ts \ {t}
                \/ /\ top = 0
                   /\ status' = s
                   /\ tasks' = ts
                   /\ UNCHANGED <<priority, accomplished_task>>
    /\ heap' = Push(heap, t)
    /\ TaskDone(w, t, 2, "start")
    /\ turn' = w
    /\ UNCHANGED <<attempt, event, reports>>

(* The same, but add raises KeyError for a dependency the history has      *)
(* evicted: the exception leaves worker_loop and the worker is dead.       *)
RetryLost(w) ==
  \E t \in Tasks :
    /\ Executing(w, t) /\ MayRetry(t)
    /\ LET s == [status EXCEPT ![t] = "READY"]
       IN  Unknown(t, s, tasks \cup {t}) /\ status' = s
    /\ tasks' = tasks \cup {t}
    /\ TaskDone(w, t, 1, "dead")
    /\ turn' = NoWorker
    /\ UNCHANGED <<attempt, event, priority, accomplished_task, heap, reports>>

-----------------------------------------------------------------------------
(* AgentWorkerManager.pause, resume and shutdown *)

pause ==
  /\ turn = NoWorker /\ ~closed /\ pause_event
  /\ pause_event' = FALSE
  /\ UNCHANGED <<taskVars, queueVars, workerVars, turn, reports, closed>>

\* Event.set releases every coroutine already waiting on it.
resume ==
  /\ turn = NoWorker /\ ~closed /\ ~pause_event
  /\ pause_event' = TRUE
  /\ pc' = [w \in Workers |-> IF pc[w] = "paused" THEN "get" ELSE pc[w]]
  /\ UNCHANGED <<taskVars, queueVars, hand, current_task, task_mapping, turn,
                 reports, closed>>

(* shutdown(wait=False) kills every worker: each forgets its task and its  *)
(* future in the condition at once, its coroutine is cancelled later.      *)
shutdown ==
  /\ turn = NoWorker /\ ~closed
  /\ closed' = TRUE
  /\ current_task' = [w \in Workers |-> NoTask]
  /\ task_mapping' = [t \in Tasks |-> NoWorker]
  /\ waiters' = <<>>
  /\ UNCHANGED <<taskVars, tasks, accomplished_task, heap, pc, hand, pause_event,
                 turn, reports>>

\* CancelledError reaches a worker that executes a task: set_cancel, callback.
CancelExecuting(w) ==
  \E t \in Tasks :
    /\ closed /\ pc[w] = "exec" /\ hand[w] = t
    /\ Final(w, t, "CANCELED")
    /\ TaskDone(w, t, 1, "dead")
    /\ UNCHANGED turn

\* CancelledError reaches a worker that waits; a task in its hand is dropped.
CancelIdle(w) ==
  /\ closed /\ pc[w] \notin {"exec", "dead"}
  /\ pc' = [pc EXCEPT ![w] = "dead"]
  /\ hand' = [hand EXCEPT ![w] = NoTask]
  /\ UNCHANGED <<taskVars, queueVars, current_task, task_mapping, pause_event,
                 turn, reports, closed>>

-----------------------------------------------------------------------------
\* Everything the worker's coroutine does by itself.
WorkerStep(w) ==
  \/ Top(w) \/ GetEmpty(w) \/ GetFinished(w) \/ GetHeld(w) \/ Take(w)
  \/ Resumed(w) \/ Succeed(w) \/ GiveUp(w) \/ Retry(w) \/ RetryLost(w)
  \/ CancelExecuting(w) \/ CancelIdle(w)

Next ==
  \/ \E t \in Tasks : add_task(t) \/ add_task_refused(t)
  \/ \E w \in Workers : WorkerStep(w)
  \/ pause \/ resume \/ shutdown

Spec == Init /\ [][Next]_vars

(* The loop runs every coroutine that can run, and wait_for ends every     *)
(* execution: each worker takes its steps.                                 *)
Fairness == \A w \in Workers : WF_vars(WorkerStep(w))
FairSpec == Spec /\ Fairness

-----------------------------------------------------------------------------
(* Properties *)

Independent == {t \in Tasks : Dependents[t] = {}}

\* Where a task is: in the heap, or in the hand of a worker.
Holders(t) == {w \in Workers : hand[w] = t}

\* The types of the variables (agent_structure.py, agent_runtime.py).
TypeOK ==
  /\ status \in [Tasks -> TaskStatus \cup {"NEW"}]
  /\ attempt \in [Tasks -> Nat]
  /\ event \in [Tasks -> BOOLEAN]
  /\ priority \in [Tasks -> Nat]
  /\ tasks \in SUBSET Tasks
  /\ accomplished_task \in Seq(Tasks)
  /\ heap \in [Tasks -> Nat]
  /\ waiters \in Seq(Workers)
  /\ pc \in [Workers -> {"start", "paused", "get", "waiting", "woken", "exec", "dead"}]
  /\ hand \in [Workers -> Tasks \cup {NoTask}]
  /\ current_task \in [Workers -> Tasks \cup {NoTask}]
  /\ task_mapping \in [Tasks -> Workers \cup {NoWorker}]
  /\ pause_event \in BOOLEAN
  /\ turn \in Workers \cup {NoWorker}
  /\ reports \in [Tasks -> Seq({"run", "call", "quiet"})]
  /\ closed \in BOOLEAN

(* No task is ever in two places: it is in the heap once, or in one        *)
(* worker's hand, so no two workers execute the same task (heappop in get, *)
(* heappush in add and in get).                                            *)
OnePlace ==
  \A t \in Tasks :
    /\ heap[t] <= 1
    /\ heap[t] = 1 => Holders(t) = {}
    /\ \A v, w \in Holders(t) : v = w

(* A submitted task without dependencies is never lost: until it ends it   *)
(* is in the table of pending tasks and in the heap or in a worker's hand. *)
NothingLost ==
  \A t \in Independent :
    status[t] \in Unfinished => t \in tasks /\ (heap[t] = 1 \/ Holders(t) # {})

(* The history of accomplished tasks is bounded and, for tasks without     *)
(* dependencies, holds ended tasks only: never one that will still run.    *)
HistoryIsOver ==
  /\ Len(accomplished_task) <= HistoryLimit
  /\ \A t \in Independent \cap Accomplished : status[t] \in ts_done

(* Whoever waits on a task's event is released exactly when the task ended *)
(* in a worker's hands, and such a task reports once, as its mode asks.    *)
EndIsAnnounced ==
  \A t \in Tasks :
    LET ended == status[t] \in ts_done \ {"FAILED"}
    IN  /\ event[t] <=> ended
        /\ reports[t] = IF ended THEN <<CallbackKind(Mode[t], status[t])>> ELSE <<>>

(* A task that a retry has filed, or that failed with its own dependency,  *)
(* though it was out of the bounded history when others looked for it.     *)
Overtaken(d) == Dependents[d] # {} /\ (attempt[d] > 1 \/ status[d] = "FAILED")

(* A task starts, and keeps running, only over dependencies that are DONE, *)
(* as far as the table and the bounded history still remember them (get's  *)
(* scan), which in turn remember ended tasks only.  A dependency that has  *)
(* dependencies itself is filed at each retry: evicted, it is overtaken.   *)
DependenciesDone ==
  /\ HistoryIsOver
  /\ \A w \in Workers : pc[w] = "exec" =>
       \A d \in Dependents[hand[w]] :
         status[d] = "DONE" \/ d \notin tasks \cup Accomplished \/ Overtaken(d)

(* The task machine implements the life of a task: at most RetryLimit      *)
(* executions, one end, nothing after the end.                             *)
Phase(t) ==
  CASE status[t] = "NEW" -> "new"
    [] status[t] \in {"PENDING", "WAITING", "READY"} -> "queued"
    [] status[t] = "RUNNING" -> "running"
    [] OTHER -> "ended"

Life == INSTANCE TaskLifecycle WITH phase <- [t \in Tasks |-> Phase(t)], tries <- attempt
Lifecycle == Life!Spec

(* A task whose dependencies are all DONE leaves WAITING, unless the       *)
(* machine is paused or shut down: their end wakes it up (docs,            *)
(* agent-runtime.md: the Worker wakes the dependent tasks).                *)
DependentsWake ==
  \A t \in Tasks :
    (status[t] = "WAITING" /\ \A d \in Dependents[t] : status[d] = "DONE")
      ~> (status[t] # "WAITING" \/ closed \/ ~pause_event)

\* Every worker has died of a retry that raised (RetryLost) or of shutdown; the
\* adjust_worker of the next add_task replaces the former.
Deserted == \A w \in Workers : pc[w] = "dead"

(* Every submitted task without dependencies comes to an end, unless the   *)
(* machine is paused or shut down (the retry loop is bounded, each attempt *)
(* is bounded by wait_for), or the retries of as many dependents of an     *)
(* evicted dependency as there are workers have killed them all: then what *)
(* is pending rests until another task is added (agent_structure.py, get   *)
(* of a missing dependency in _rearrange_priority).                        *)
EndsEventually ==
  \A t \in Independent :
    (status[t] = "PENDING") ~> (status[t] \in ts_done \/ closed \/ ~pause_event \/ Deserted)
=============================================================================
