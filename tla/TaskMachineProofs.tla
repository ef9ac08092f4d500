------------------------- MODULE TaskMachineProofs -------------------------
(***************************************************************************)
(* Theorems about TaskMachine, for any tasks, workers and limits.          *)
(***************************************************************************)
EXTENDS TaskPersistence, TLAPS, FiniteSetTheorems, WellFoundedInduction

(* The inductive invariant.  Its core: a worker has a task in its hand     *)
(* only while it executes it or keeps it for the condition; the            *)
(* condition's queue holds each waiting worker once; a task is in one      *)
(* place.  The rest is true of one process from its empty queue on, and    *)
(* not of a queue that was loaded from a file: what is queued has attempts *)
(* left, what ended was announced here.                                    *)
HandOK ==
  \A w \in Workers :
    /\ pc[w] \in {"start", "paused", "get", "dead"} => hand[w] = NoTask
    /\ pc[w] = "exec" => hand[w] \in Tasks /\ status[hand[w]] = "RUNNING"
    /\ pc[w] \in {"waiting", "woken"} => hand[w] \notin Independent

WaitersOK ==
  /\ \A i \in 1..Len(waiters) : pc[waiters[i]] = "waiting"
  /\ \A i, j \in 1..Len(waiters) : waiters[i] = waiters[j] => i = j

NewOK == \A t \in Tasks : status[t] = "NEW" => heap[t] = 0 /\ Holders(t) = {}

Core == TypeOK /\ HandOK /\ WaitersOK /\ NewOK /\ OnePlace

UntriedOK == \A t \in Tasks : status[t] = "NEW" => attempt[t] = 0

AttemptsOK ==
  \A t \in Tasks :
    /\ status[t] \in {"PENDING", "WAITING", "READY"} => attempt[t] < RetryLimit
    /\ status[t] = "RUNNING" => attempt[t] <= RetryLimit

LivesOK == UntriedOK /\ AttemptsOK /\ EndIsAnnounced /\ NothingLost

IInv == Core /\ LivesOK

\* shutdown forgets every waiter, and none comes back.
ClosedOK == closed => waiters = <<>>
-----------------------------------------------------------------------------
(* The queue of the condition and the history *)

LEMMA ReachedInRange ==
  ASSUME waiters \in Seq(Workers), NEW n \in Nat
  PROVE  Reached(n) \in 0..Len(waiters)
BY DEF Reached

\* Dropping the first k of a sequence shifts the others.
LEMMA DropFacts ==
  ASSUME NEW S, NEW q \in Seq(S), NEW k \in 0..Len(q)
  PROVE  /\ Drop(q, k) \in Seq(S)
         /\ Len(Drop(q, k)) = Len(q) - k
         /\ \A i \in 1..Len(Drop(q, k)) : Drop(q, k)[i] = q[i + k]
BY DEF Drop

LEMMA NotifyFacts ==
  ASSUME TypeOK, NEW n \in Nat
  PROVE  /\ Notified(n) \in Seq(Workers)
         /\ Woken(n) \subseteq Workers
         /\ Wake(n) \in [Workers -> {"start", "paused", "get", "waiting", "woken", "exec", "dead"}]
<1>1. waiters \in Seq(Workers) BY DEF TypeOK
<1>2. Reached(n) \in 0..Len(waiters) BY <1>1, ReachedInRange
<1>3. Notified(n) \in Seq(Workers) BY <1>1, <1>2, DropFacts DEF Notified
<1>4. Woken(n) \subseteq Workers BY <1>1, <1>2 DEF Woken
<1>5. Wake(n) \in [Workers -> {"start", "paused", "get", "waiting", "woken", "exec", "dead"}]
  BY DEF Wake, TypeOK
<1> QED BY <1>3, <1>4, <1>5

\* A filed history is a history again, and never longer than its bound.
LEMMA FiledType ==
  ASSUME TypeOK, NEW t \in Tasks
  PROVE  Filed(t) \in Seq(Tasks)
<1> DEFINE q == IF t \in Accomplished THEN accomplished_task ELSE Append(accomplished_task, t)
<1>1. q \in Seq(Tasks) BY DEF TypeOK
<1>2. CASE Len(q) > HistoryLimit
  <2>1. Len(q) - HistoryLimit \in 0..Len(q) BY <1>1, <1>2, TaskAssumption
  <2>2. Drop(q, Len(q) - HistoryLimit) \in Seq(Tasks) BY <1>1, <2>1, DropFacts
  <2> QED BY <1>2, <2>2 DEF Filed
<1>3. CASE ~(Len(q) > HistoryLimit) BY <1>1, <1>3 DEF Filed
<1> QED BY <1>2, <1>3

LEMMA MaxPriorityType ==
  ASSUME TypeOK, NEW t, NEW s, NEW ts
  PROVE  MaxPriority(t, s, ts) \subseteq Nat
<1>1. Chain(t, s, ts) \subseteq Tasks BY DEF Chain
<1> QED BY <1>1 DEF MaxPriority, TypeOK

\* A task without dependencies has no chain: add leaves it as it is.
LEMMA NoChain ==
  ASSUME NEW t \in Independent, NEW s, NEW ts
  PROVE  Chain(t, s, ts) = {} /\ ~Unknown(t, s, ts) /\ MaxPriority(t, s, ts) = {0}
<1>1. Dependents[t] = {} BY DEF Independent
<1>2. Chain(t, s, ts) = {} BY <1>1 DEF Chain, Linked
<1> QED BY <1>2 DEF Unknown, MaxPriority

LEMMA KindType ==
  ASSUME NEW m, NEW st
  PROVE  CallbackKind(m, st) \in {"run", "call", "quiet"}
BY DEF CallbackKind

-----------------------------------------------------------------------------
(* Types *)

LEMMA FinalType ==
  ASSUME TypeOK, NEW w \in Workers, NEW t \in Tasks,
         NEW end \in TaskStatus, Final(w, t, end)
  PROVE  (/\ status \in [Tasks -> TaskStatus \cup {"NEW"}]
          /\ attempt \in [Tasks -> Nat]
          /\ event \in [Tasks -> BOOLEAN]
          /\ priority \in [Tasks -> Nat]
          /\ tasks \in SUBSET Tasks
          /\ accomplished_task \in Seq(Tasks)
          /\ heap \in [Tasks -> Nat]
          /\ reports \in [Tasks -> Seq({"run", "call", "quiet"})])'
<1>1. Filed(t) \in Seq(Tasks) BY FiledType
<1>2. CallbackKind(Mode[t], end) \in {"run", "call", "quiet"} BY KindType
<1>3. Append(reports[t], CallbackKind(Mode[t], end)) \in Seq({"run", "call", "quiet"})
  BY <1>2 DEF TypeOK
<1> QED BY <1>1, <1>3 DEF Final, TypeOK

LEMMA TaskDoneType ==
  ASSUME TypeOK, NEW w \in Workers, NEW t \in Tasks, NEW n \in Nat,
         NEW next \in {"start", "dead"}, TaskDone(w, t, n, next)
  PROVE  (/\ waiters \in Seq(Workers)
          /\ pc \in [Workers -> {"start", "paused", "get", "waiting", "woken", "exec", "dead"}]
          /\ hand \in [Workers -> Tasks \cup {NoTask}]
          /\ current_task \in [Workers -> Tasks \cup {NoTask}]
          /\ task_mapping \in [Tasks -> Workers \cup {NoWorker}]
          /\ pause_event \in BOOLEAN
          /\ closed \in BOOLEAN)'
BY NotifyFacts DEF TaskDone, TypeOK

LEMMA TypeStep == TypeOK /\ [Next]_vars => TypeOK'
<1> SUFFICES ASSUME TypeOK, [Next]_vars PROVE TypeOK'
  OBVIOUS
<1> USE TaskAssumption
<1>1. ASSUME NEW t \in Tasks, add_task(t) PROVE TypeOK'
  <2>1. Notified(1) \in Seq(Workers) /\ Wake(1) \in [Workers -> {"start", "paused", "get", "waiting", "woken", "exec", "dead"}]
    BY NotifyFacts
  <2>2. PICK top \in MaxPriority(t, [status EXCEPT ![t] = "PENDING"], tasks \cup {t}) :
          /\ status' = IF top > 0 THEN [[status EXCEPT ![t] = "PENDING"] EXCEPT ![t] = "WAITING"]
                                  ELSE [status EXCEPT ![t] = "PENDING"]
          /\ priority' = IF top > 0 THEN [priority EXCEPT ![t] = top + 1] ELSE priority
    BY <1>1 DEF add_task
  <2>3. top \in Nat BY MaxPriorityType
  <2>4. status' \in [Tasks -> TaskStatus \cup {"NEW"}] BY <2>2 DEF TypeOK, TaskStatus
  <2>5. priority' \in [Tasks -> Nat] BY <2>2, <2>3 DEF TypeOK
  <2> QED BY <1>1, <2>1, <2>4, <2>5 DEF add_task, TypeOK, Push
<1>2. ASSUME NEW t \in Tasks, add_task_refused(t) PROVE TypeOK'
  BY <1>2 DEF add_task_refused, TypeOK, TaskStatus
<1>3. ASSUME NEW w \in Workers, WorkerStep(w) PROVE TypeOK'
  <2>1. CASE Top(w) BY <2>1 DEF Top, TypeOK, taskVars, queueVars
  <2>2. CASE GetEmpty(w) BY <2>2 DEF GetEmpty, TypeOK, taskVars
  <2>3. CASE GetFinished(w)
    <3>1. PICK t \in Tasks : /\ heap[t] > 0 /\ accomplished_task' = Filed(t)
                             /\ tasks' = tasks \ {t} /\ heap' = Pop(heap, t)
      BY <2>3 DEF GetFinished, IsHead
    <3>2. Filed(t) \in Seq(Tasks) BY FiledType
    <3>3. heap' \in [Tasks -> Nat] BY <3>1 DEF TypeOK, Pop
    <3>4. /\ UNCHANGED <<taskVars, waiters, workerVars, pause_event, reports, closed>>
          /\ turn' = w
      BY <2>3 DEF GetFinished
    <3> QED BY <3>1, <3>2, <3>3, <3>4 DEF TypeOK, taskVars, workerVars
  <2>4. CASE GetHeld(w)
    <3>1. PICK t \in Tasks : /\ heap[t] > 0 /\ heap' = Pop(heap, t)
                             /\ hand' = [hand EXCEPT ![w] = t]
                             /\ status' \in {status, [status EXCEPT ![t] = "FAILED"]}
      BY <2>4 DEF GetHeld, IsHead
    <3>2. /\ waiters' = Append(waiters, w) /\ pc' = [pc EXCEPT ![w] = "waiting"] /\ turn' = NoWorker
          /\ UNCHANGED <<attempt, event, priority, tasks, accomplished_task,
                         current_task, task_mapping, pause_event, reports, closed>>
      BY <2>4 DEF GetHeld
    <3>3. heap' \in [Tasks -> Nat] BY <3>1 DEF TypeOK, Pop
    <3>4. hand' \in [Workers -> Tasks \cup {NoTask}] BY <3>1 DEF TypeOK
    <3>5. status' \in [Tasks -> TaskStatus \cup {"NEW"}] BY <3>1 DEF TypeOK, TaskStatus
    <3>6. waiters' \in Seq(Workers) /\ turn' \in Workers \cup {NoWorker} BY <3>2 DEF TypeOK
    <3>7. pc' \in [Workers -> {"start", "paused", "get", "waiting", "woken", "exec", "dead"}]
      BY <3>2 DEF TypeOK
    <3>8. UNCHANGED <<attempt, event, priority, tasks, accomplished_task,
                      current_task, task_mapping, pause_event, reports, closed>>
      BY <3>2
    <3> HIDE <2>4
    <3> QED BY <3>3, <3>4, <3>5, <3>6, <3>7, <3>8 DEF TypeOK
  <2>5. CASE Take(w)
    <3>1. PICK t \in Tasks : /\ heap[t] > 0
                             /\ heap' = Pop(heap, t)
                             /\ status' = [status EXCEPT ![t] = "RUNNING"]
                             /\ event' = [event EXCEPT ![t] = FALSE]
                             /\ attempt' = [attempt EXCEPT ![t] = @ + 1]
                             /\ hand' = [hand EXCEPT ![w] = t]
                             /\ current_task' = [current_task EXCEPT ![w] = t]
                             /\ task_mapping' = [task_mapping EXCEPT ![t] = w]
                             /\ turn' \in {w, NoWorker}
      BY <2>5 DEF Take, IsHead
    <3> QED BY <2>5, <3>1 DEF Take, TypeOK, Pop, TaskStatus
  <2>6. CASE Resumed(w)
    <3>1. heap' \in [Tasks -> Nat] BY <2>6 DEF Resumed, TypeOK, Push
    <3>2. hand' \in [Workers -> Tasks \cup {NoTask}] BY <2>6 DEF Resumed, TypeOK
    <3> QED BY <2>6, <3>1, <3>2 DEF Resumed, TypeOK, taskVars
  <2>7. CASE Succeed(w)
    <3>1. PICK t \in Tasks : Final(w, t, "DONE") /\ TaskDone(w, t, 1, "start") /\ turn' = w
      BY <2>7 DEF Succeed
    <3> QED BY <3>1, FinalType, TaskDoneType DEF TypeOK, TaskStatus
  <2>8. CASE GiveUp(w)
    <3>1. PICK t \in Tasks : /\ Final(w, t, "EXCEPTION") \/ Final(w, t, "TIMEOUT")
                             /\ TaskDone(w, t, 1, "start") /\ turn' = w
      BY <2>8 DEF GiveUp
    <3> QED BY <3>1, FinalType, TaskDoneType DEF TypeOK, TaskStatus
  <2>9. CASE Retry(w)
    <3>1. PICK t \in Tasks :
            /\ TaskDone(w, t, 2, "start") /\ turn' = w
            /\ heap' = Push(heap, t)
            /\ UNCHANGED <<attempt, event, reports>>
            /\ \E top \in MaxPriority(t, [status EXCEPT ![t] = "READY"], tasks \cup {t}) :
                 \/ /\ status' = [[status EXCEPT ![t] = "READY"] EXCEPT ![t] = "WAITING"]
                    /\ priority' = [priority EXCEPT ![t] = top + 1]
                    /\ accomplished_task' = Filed(t)
                    /\ tasks' = (tasks \cup {t}) \ {t}
                 \/ /\ status' = [status EXCEPT ![t] = "READY"]
                    /\ tasks' = tasks \cup {t}
                    /\ UNCHANGED <<priority, accomplished_task>>
      BY <2>9 DEF Retry
    <3>2. Filed(t) \in Seq(Tasks) BY FiledType
    <3>3. MaxPriority(t, [status EXCEPT ![t] = "READY"], tasks \cup {t}) \subseteq Nat
      BY MaxPriorityType
    <3>4. status' \in [Tasks -> TaskStatus \cup {"NEW"}] BY <3>1 DEF TypeOK, TaskStatus
    <3>5. priority' \in [Tasks -> Nat] BY <3>1, <3>3 DEF TypeOK
    <3>6. accomplished_task' \in Seq(Tasks) /\ tasks' \in SUBSET Tasks BY <3>1, <3>2 DEF TypeOK
    <3>7. heap' \in [Tasks -> Nat] BY <3>1 DEF TypeOK, Push
    <3>8. turn' \in Workers \cup {NoWorker} BY <3>1
    <3> QED BY <3>1, <3>4, <3>5, <3>6, <3>7, <3>8, TaskDoneType DEF TypeOK
  <2>10. CASE RetryLost(w)
    <3>1. PICK t \in Tasks :
            /\ status' = [status EXCEPT ![t] = "READY"]
            /\ tasks' = tasks \cup {t}
            /\ TaskDone(w, t, 1, "dead")
            /\ turn' = NoWorker
            /\ UNCHANGED <<attempt, event, priority, accomplished_task, heap, reports>>
      BY <2>10 DEF RetryLost
    <3> QED BY <3>1, TaskDoneType DEF TypeOK, TaskStatus
  <2>11. CASE CancelExecuting(w)
    <3>1. PICK t \in Tasks : Final(w, t, "CANCELED") /\ TaskDone(w, t, 1, "dead") /\ turn' = turn
      BY <2>11 DEF CancelExecuting
    <3> QED BY <3>1, FinalType, TaskDoneType DEF TypeOK, TaskStatus
  <2>12. CASE CancelIdle(w) BY <2>12 DEF CancelIdle, TypeOK, taskVars, queueVars
  <2> QED BY <1>3, <2>1, <2>2, <2>3, <2>4, <2>5, <2>6, <2>7, <2>8, <2>9, <2>10, <2>11, <2>12
          DEF WorkerStep
<1>4. CASE pause BY <1>4 DEF pause, TypeOK, taskVars, queueVars, workerVars
<1>5. CASE resume BY <1>5 DEF resume, TypeOK, taskVars, queueVars
<1>6. CASE shutdown BY <1>6 DEF shutdown, TypeOK, taskVars
<1>7. CASE UNCHANGED vars BY <1>7 DEF vars, TypeOK, taskVars, queueVars, workerVars
<1> QED BY <1>1, <1>2, <1>3, <1>4, <1>5, <1>6, <1>7 DEF Next

LEMMA TypeInit == Init => TypeOK
<1> SUFFICES ASSUME Init PROVE TypeOK
  OBVIOUS
<1>1. accomplished_task \in Seq(Tasks) /\ waiters \in Seq(Workers)
  BY DEF Init
<1>2. reports \in [Tasks -> Seq({"run", "call", "quiet"})]
  BY DEF Init
<1>3. status \in [Tasks -> TaskStatus \cup {"NEW"}] /\ priority \in [Tasks -> Nat]
  BY DEF Init
<1> QED BY <1>1, <1>2, <1>3 DEF Init, TypeOK

(* The variables keep their types in every behaviour of the task machine.  *)
THEOREM TypeCorrect == Spec => []TypeOK
<1>1. Init => TypeOK BY TypeInit
<1>2. TypeOK /\ [Next]_vars => TypeOK' BY TypeStep
<1> QED BY <1>1, <1>2, PTL DEF Spec

-----------------------------------------------------------------------------
(* The invariant, action by action *)

\* A notification moves waiting workers only; the others keep their order.
LEMMA WakeFacts ==
  ASSUME TypeOK, WaitersOK, NEW n \in Nat
  PROVE  /\ \A v \in Workers :
              \/ Wake(n)[v] = pc[v]
              \/ pc[v] = "waiting" /\ Wake(n)[v] = "woken"
         /\ \A i \in 1..Len(Notified(n)) : Notified(n)[i] \in Workers /\ Wake(n)[Notified(n)[i]] = "waiting"
         /\ \A i, j \in 1..Len(Notified(n)) : Notified(n)[i] = Notified(n)[j] => i = j
<1> DEFINE k == Reached(n)
<1>1. waiters \in Seq(Workers) BY DEF TypeOK
<1>2. k \in 0..Len(waiters) BY <1>1, ReachedInRange
<1>3. /\ Len(Notified(n)) = Len(waiters) - k
      /\ \A i \in 1..Len(Notified(n)) : Notified(n)[i] = waiters[i + k]
  BY <1>1, <1>2, DropFacts DEF Notified
<1>4. \A v \in Workers : Wake(n)[v] = IF v \in Woken(n) THEN "woken" ELSE pc[v]
  BY DEF Wake
<1>5. \A v \in Woken(n) : \E i \in 1..k : v = waiters[i]
  BY DEF Woken
<1>6. \A v \in Woken(n) : pc[v] = "waiting"
  BY <1>1, <1>2, <1>5 DEF WaitersOK
<1>7. \A i \in 1..Len(Notified(n)) : i + k \in 1..Len(waiters) /\ Notified(n)[i] = waiters[i + k]
  BY <1>1, <1>2, <1>3
<1>8. ASSUME NEW i \in 1..Len(Notified(n))
      PROVE  /\ Notified(n)[i] \in Workers
             /\ pc[Notified(n)[i]] = "waiting"
             /\ Notified(n)[i] \notin Woken(n)
  <2>1. i + k \in 1..Len(waiters) /\ Notified(n)[i] = waiters[i + k] BY <1>7
  <2>2. waiters[i + k] \in Workers /\ pc[waiters[i + k]] = "waiting"
    BY <1>1, <2>1 DEF WaitersOK
  <2>3. ASSUME NEW j \in 1..k PROVE waiters[j] # waiters[i + k]
    <3>1. j \in 1..Len(waiters) /\ j # i + k BY <1>1, <1>2
    <3> QED BY <2>1, <3>1 DEF WaitersOK
  <2> QED BY <1>5, <2>1, <2>2, <2>3
<1>9. \A i, j \in 1..Len(Notified(n)) : Notified(n)[i] = Notified(n)[j] => i = j
  <2> SUFFICES ASSUME NEW i \in 1..Len(Notified(n)), NEW j \in 1..Len(Notified(n)),
                      Notified(n)[i] = Notified(n)[j]
               PROVE  i = j
    OBVIOUS
  <2>1. i + k = j + k BY <1>7 DEF WaitersOK
  <2> QED BY <1>2, <2>1
<1>10. \A v \in Workers :
         Wake(n)[v] = pc[v] \/ (pc[v] = "waiting" /\ Wake(n)[v] = "woken")
  <2> TAKE v \in Workers
  <2>1. CASE v \in Woken(n) BY <1>4, <1>6, <2>1
  <2>2. CASE v \notin Woken(n) BY <1>4, <2>2
  <2> QED BY <2>1, <2>2
<1>11. \A i \in 1..Len(Notified(n)) : Notified(n)[i] \in Workers /\ Wake(n)[Notified(n)[i]] = "waiting"
  BY <1>4, <1>8
<1> QED BY <1>9, <1>10, <1>11

\* A worker that ends its execution leaves the waiters in order.
LEMMA TaskDoneWaiters ==
  ASSUME TypeOK, WaitersOK, NEW w \in Workers, NEW t \in Tasks, NEW n \in Nat,
         NEW next, pc[w] = "exec", TaskDone(w, t, n, next)
  PROVE  WaitersOK'
<1>1. waiters' = Notified(n) /\ pc' = [Wake(n) EXCEPT ![w] = next] BY DEF TaskDone
<1>2. Wake(n)[w] = "exec" BY WakeFacts
<1>3. Wake(n) \in [Workers -> {"start", "paused", "get", "waiting", "woken", "exec", "dead"}]
  BY NotifyFacts
<1>4. ASSUME NEW i \in 1..Len(Notified(n)) PROVE pc'[Notified(n)[i]] = "waiting"
  <2>1. Notified(n)[i] \in Workers /\ Wake(n)[Notified(n)[i]] = "waiting" BY WakeFacts
  <2>2. Notified(n)[i] # w BY <1>2, <2>1
  <2> QED BY <1>1, <1>3, <2>1, <2>2
<1> QED BY <1>1, <1>4, WakeFacts DEF WaitersOK

\* What TaskDone does to every worker's place and hand.
LEMMA TaskDoneFacts ==
  ASSUME TypeOK, WaitersOK, NEW w \in Workers, NEW t \in Tasks, NEW n \in Nat,
         NEW next, TaskDone(w, t, n, next)
  PROVE  /\ hand'[w] = NoTask /\ pc'[w] = next
         /\ \A v \in Workers \ {w} :
              /\ hand'[v] = hand[v]
              /\ pc'[v] = pc[v] \/ (pc[v] = "waiting" /\ pc'[v] = "woken")
<1>1. Wake(n) \in [Workers -> {"start", "paused", "get", "waiting", "woken", "exec", "dead"}]
  BY NotifyFacts
<1> QED BY <1>1, WakeFacts DEF TaskDone, TypeOK

(* A task that ends in w's hands leaves nothing behind that the invariant  *)
(* forbids: every ending of a task takes this step.                        *)
LEMMA EndingKeepsInv ==
  ASSUME Core, NEW w \in Workers, NEW t \in Tasks,
         NEW end \in {"DONE", "EXCEPTION", "TIMEOUT", "CANCELED"},
         NEW next \in {"start", "dead"},
         pc[w] = "exec", hand[w] = t, Final(w, t, end), TaskDone(w, t, 1, next), TypeOK'
  PROVE  Core' /\ (LivesOK => LivesOK')
<1> USE TaskAssumption DEF Core
<1>1. /\ hand'[w] = NoTask /\ pc'[w] = next
      /\ \A v \in Workers \ {w} :
           /\ hand'[v] = hand[v]
           /\ pc'[v] = pc[v] \/ (pc[v] = "waiting" /\ pc'[v] = "woken")
  BY TaskDoneFacts
<1>2. \A v \in Workers \ {w} : hand[v] # t
  <2> SUFFICES ASSUME NEW v \in Workers \ {w}, hand[v] = t PROVE FALSE
    OBVIOUS
  <2>1. v \in Holders(t) /\ w \in Holders(t) BY DEF Holders
  <2> QED BY <2>1 DEF OnePlace
<1>3. /\ status' = [status EXCEPT ![t] = end] /\ UNCHANGED <<attempt, heap>>
      /\ tasks' = tasks \ {t}
  BY DEF Final
<1>4. status[t] = "RUNNING" /\ heap[t] = 0
  <2>1. w \in Holders(t) BY DEF Holders
  <2>2. heap[t] # 1 /\ heap[t] <= 1 BY <2>1 DEF OnePlace
  <2>3. heap[t] \in Nat BY DEF TypeOK
  <2> QED BY <2>2, <2>3 DEF HandOK
<1>5. HandOK'
  <2> SUFFICES ASSUME NEW v \in Workers
               PROVE  /\ pc'[v] \in {"start", "paused", "get", "dead"} => hand'[v] = NoTask
                      /\ pc'[v] = "exec" => hand'[v] \in Tasks /\ status'[hand'[v]] = "RUNNING"
                      /\ pc'[v] \in {"waiting", "woken"} => hand'[v] \notin Independent
    BY DEF HandOK, Independent
  <2>1. CASE v = w BY <1>1, <2>1
  <2>2. CASE v # w
    <3>1. hand'[v] = hand[v] /\ hand[v] # t BY <1>1, <1>2, <2>2
    <3>2. pc'[v] = "exec" => hand[v] \in Tasks /\ status[hand[v]] = "RUNNING"
      BY <1>1, <2>2 DEF HandOK
    <3>3. pc'[v] = "exec" => hand'[v] \in Tasks /\ status'[hand'[v]] = "RUNNING"
      BY <1>3, <3>1, <3>2 DEF TypeOK
    <3> QED BY <1>1, <2>2, <3>1, <3>3 DEF HandOK
  <2> QED BY <2>1, <2>2
<1>6. WaitersOK' BY TaskDoneWaiters
<1>7. \A u \in Tasks : Holders(u)' \subseteq Holders(u) BY <1>1 DEF Holders
<1>8. \A u \in Tasks \ {t} : Holders(u)' = Holders(u) BY <1>1 DEF Holders
<1>9. NewOK' BY <1>3, <1>7 DEF NewOK, TypeOK
<1>11. OnePlace' BY <1>3, <1>7 DEF OnePlace
<1>14. ASSUME LivesOK PROVE LivesOK'
  <2>0. UntriedOK /\ AttemptsOK /\ EndIsAnnounced /\ NothingLost BY <1>14 DEF LivesOK
  <2>1. UntriedOK' BY <2>0, <1>3 DEF UntriedOK, TypeOK
  <2>2. AttemptsOK' BY <2>0, <1>3 DEF AttemptsOK, TypeOK
  <2>3. EndIsAnnounced'
    <3>1. /\ event' = [event EXCEPT ![t] = TRUE]
          /\ reports' = [reports EXCEPT ![t] = Append(@, CallbackKind(Mode[t], end))]
      BY DEF Final
    <3>2. reports[t] = <<>> BY <2>0, <1>4 DEF EndIsAnnounced, ts_done
    <3>3. reports'[t] = <<CallbackKind(Mode[t], end)>> /\ event'[t] /\ status'[t] = end
      BY <1>3, <3>1, <3>2 DEF TypeOK
    <3>4. ASSUME NEW u \in Tasks \ {t}
          PROVE  reports'[u] = reports[u] /\ event'[u] = event[u] /\ status'[u] = status[u]
      BY <1>3, <3>1 DEF TypeOK
    <3>5. end \in ts_done \ {"FAILED"} BY DEF ts_done
    <3> QED BY <2>0, <3>3, <3>4, <3>5 DEF EndIsAnnounced
  <2>4. NothingLost'
    <3>1. ASSUME NEW u \in Independent, status'[u] \in Unfinished
          PROVE  u \in tasks' /\ (heap'[u] = 1 \/ Holders(u)' # {})
      <4>1. u # t BY <1>3, <3>1 DEF Unfinished, TypeOK
      <4>2. u \in Tasks /\ status[u] = status'[u] BY <1>3, <4>1 DEF TypeOK, Independent
      <4> QED BY <2>0, <1>3, <1>8, <3>1, <4>1, <4>2 DEF NothingLost
    <3> QED BY <2>0, <3>1 DEF NothingLost, Independent
  <2> QED BY <2>1, <2>2, <2>3, <2>4 DEF LivesOK
<1> QED BY <1>5, <1>6, <1>9, <1>11, <1>14 DEF Core

\* The two submissions of a task: neither finds it anywhere yet.
LEMMA AddKeepsInv ==
  ASSUME Core, TypeOK', NEW t \in Tasks, add_task(t)
  PROVE  Core' /\ (LivesOK => LivesOK')
<1> USE TaskAssumption
<1>1. TypeOK /\ HandOK /\ WaitersOK /\ NewOK /\ OnePlace BY DEF Core
<1>2. status[t] = "NEW" /\ heap[t] = 0 /\ Holders(t) = {}
  BY <1>1 DEF add_task, NewOK
<1>3. /\ status'[t] \in {"PENDING", "WAITING"}
      /\ \A u \in Tasks \ {t} : status'[u] = status[u]
  <2>1. \E top : status' = IF top > 0 THEN [[status EXCEPT ![t] = "PENDING"] EXCEPT ![t] = "WAITING"]
                                     ELSE [status EXCEPT ![t] = "PENDING"]
    BY DEF add_task
  <2> QED BY <1>1, <2>1 DEF TypeOK
<1>4. /\ UNCHANGED <<attempt, event, hand, reports>>
      /\ tasks' = tasks \cup {t} /\ heap' = [heap EXCEPT ![t] = @ + 1]
      /\ waiters' = Notified(1)
      /\ pc' = [v \in Workers |-> IF pc[v] = "dead" THEN "start" ELSE Wake(1)[v]]
  BY DEF add_task, Push
<1>5. /\ heap'[t] = 1 /\ \A u \in Tasks \ {t} : heap'[u] = heap[u]
      /\ \A u \in Tasks : Holders(u)' = Holders(u)
  BY <1>1, <1>2, <1>4 DEF TypeOK, Holders
<1>6. \A v \in Workers : \/ pc[v] = "dead" /\ pc'[v] = "start"
                         \/ pc'[v] = pc[v]
                         \/ pc[v] = "waiting" /\ pc'[v] = "woken"
  BY <1>1, <1>4, WakeFacts
<1>7. \A v \in Workers : hand[v] # t BY <1>2 DEF Holders
<1>8. HandOK'
  <2> SUFFICES ASSUME NEW v \in Workers
               PROVE  /\ pc'[v] \in {"start", "paused", "get", "dead"} => hand'[v] = NoTask
                      /\ pc'[v] = "exec" => hand'[v] \in Tasks /\ status'[hand'[v]] = "RUNNING"
                      /\ pc'[v] \in {"waiting", "woken"} => hand'[v] \notin Independent
    BY DEF HandOK, Independent
  <2> QED BY <1>1, <1>3, <1>4, <1>6, <1>7 DEF HandOK
<1>9. WaitersOK'
  <2>1. ASSUME NEW i \in 1..Len(Notified(1)) PROVE pc'[Notified(1)[i]] = "waiting"
    <3>1. Notified(1)[i] \in Workers /\ Wake(1)[Notified(1)[i]] = "waiting" BY <1>1, WakeFacts
    <3>2. pc[Notified(1)[i]] = "waiting" BY <1>1, <3>1, WakeFacts
    <3> QED BY <1>4, <3>1, <3>2
  <2> QED BY <1>1, <1>4, <2>1, WakeFacts DEF WaitersOK
<1>10. NewOK' BY <1>1, <1>3, <1>4, <1>5 DEF NewOK
<1>12. OnePlace' BY <1>1, <1>2, <1>5 DEF OnePlace
<1>15. ASSUME LivesOK PROVE LivesOK'
  <2>0. UntriedOK /\ AttemptsOK /\ EndIsAnnounced /\ NothingLost BY <1>15 DEF LivesOK
  <2>1. UntriedOK' BY <2>0, <1>3, <1>4 DEF UntriedOK
  <2>2. AttemptsOK' BY <2>0, <1>1, <1>2, TaskAssumption, <1>3, <1>4 DEF AttemptsOK, UntriedOK
  <2>3. EndIsAnnounced' BY <2>0, <1>1, <1>2, <1>3, <1>4 DEF EndIsAnnounced, ts_done
  <2>4. NothingLost' BY <2>0, <1>1, <1>3, <1>4, <1>5 DEF NothingLost, Independent
  <2> QED BY <2>1, <2>2, <2>3, <2>4 DEF LivesOK
<1> QED BY <1>8, <1>9, <1>10, <1>12, <1>15 DEF Core

LEMMA RefusedKeepsInv ==
  ASSUME Core, TypeOK', NEW t \in Tasks, add_task_refused(t)
  PROVE  Core' /\ (LivesOK => LivesOK')
<1> USE TaskAssumption
<1>1. TypeOK /\ HandOK /\ WaitersOK /\ NewOK /\ OnePlace BY DEF Core
<1>2. status[t] = "NEW" /\ heap[t] = 0 /\ Holders(t) = {}
  BY <1>1 DEF add_task_refused, NewOK
<1>3. /\ status' = [status EXCEPT ![t] = "PENDING"] /\ tasks' = tasks \cup {t}
      /\ UNCHANGED <<attempt, event, hand, reports, heap, waiters>>
      /\ pc' = [v \in Workers |-> IF pc[v] = "dead" THEN "start" ELSE pc[v]]
      /\ Unknown(t, status', tasks')
  BY DEF add_task_refused
<1>4. t \notin Independent BY <1>3, NoChain
<1>5. \A v \in Workers : hand[v] # t BY <1>2 DEF Holders
<1>6. HandOK'
  <2> SUFFICES ASSUME NEW v \in Workers
               PROVE  /\ pc'[v] \in {"start", "paused", "get", "dead"} => hand'[v] = NoTask
                      /\ pc'[v] = "exec" => hand'[v] \in Tasks /\ status'[hand'[v]] = "RUNNING"
                      /\ pc'[v] \in {"waiting", "woken"} => hand'[v] \notin Independent
    BY DEF HandOK, Independent
  <2> QED BY <1>1, <1>3, <1>5 DEF HandOK, TypeOK
<1>7. WaitersOK'
  <2>1. \A i \in 1..Len(waiters) : waiters[i] \in Workers BY <1>1 DEF TypeOK
  <2> QED BY <1>1, <1>3, <2>1 DEF WaitersOK
<1>8. \A u \in Tasks : Holders(u)' = Holders(u) BY <1>3 DEF Holders
<1>9. NewOK' BY <1>1, <1>3, <1>8 DEF NewOK, TypeOK
<1>11. OnePlace' BY <1>1, <1>3, <1>8 DEF OnePlace
<1>14. ASSUME LivesOK PROVE LivesOK'
  <2>0. UntriedOK /\ AttemptsOK /\ EndIsAnnounced /\ NothingLost BY <1>14 DEF LivesOK
  <2>1. UntriedOK' BY <2>0, <1>1, <1>3 DEF UntriedOK, TypeOK
  <2>2. AttemptsOK' BY <2>0, <1>1, <1>2, TaskAssumption, <1>3 DEF AttemptsOK, UntriedOK, TypeOK
  <2>3. EndIsAnnounced' BY <2>0, <1>1, <1>2, <1>3 DEF EndIsAnnounced, ts_done, TypeOK
  <2>4. NothingLost'
    <3> SUFFICES ASSUME NEW u \in Independent, status'[u] \in Unfinished
                 PROVE  u \in tasks' /\ (heap'[u] = 1 \/ Holders(u)' # {})
      BY DEF NothingLost, Independent
    <3>1. u \in Tasks /\ u # t BY <1>4 DEF Independent
    <3>2. status'[u] = status[u] /\ heap'[u] = heap[u] /\ (u \in tasks' <=> u \in tasks)
      BY <1>1, <1>3, <3>1 DEF TypeOK
    <3>3. u \in tasks /\ (heap[u] = 1 \/ Holders(u) # {}) BY <2>0, <3>2 DEF NothingLost, Independent
    <3> QED BY <1>8, <3>1, <3>2, <3>3
  <2> QED BY <2>1, <2>2, <2>3, <2>4 DEF LivesOK
<1> QED BY <1>6, <1>7, <1>9, <1>11, <1>14 DEF Core

\* Steps that move no task and wake nobody but change where workers stand.
LEMMA MovesKeepInv ==
  ASSUME Core, TypeOK', UNCHANGED <<taskVars, tasks, heap, hand, reports, accomplished_task>>,
         \/ /\ waiters' = waiters
            /\ \A v \in Workers : pc'[v] = pc[v] \/
                 (pc[v] \in {"start", "paused", "get"} /\ pc'[v] \in {"start", "paused", "get"})
         \/ waiters' = <<>> /\ pc' = pc
         \/ \E w \in Workers : /\ pc[w] = "get" /\ pc' = [pc EXCEPT ![w] = "waiting"]
                               /\ waiters' = Append(waiters, w)
  PROVE  Core' /\ (LivesOK => LivesOK')
<1> USE TaskAssumption
<1>1. TypeOK /\ HandOK /\ WaitersOK /\ NewOK /\ OnePlace BY DEF Core
<1>2. \A u \in Tasks : Holders(u)' = Holders(u) BY DEF Holders
<1>3. \A v \in Workers :
        \/ pc'[v] = pc[v]
        \/ pc[v] \in {"start", "paused", "get"} /\ pc'[v] \in {"start", "paused", "get", "waiting"}
  BY <1>1 DEF TypeOK
<1>4. NoTask \notin Independent BY DEF Independent
<1>5. HandOK'
  <2> SUFFICES ASSUME NEW v \in Workers
               PROVE  /\ pc'[v] \in {"start", "paused", "get", "dead"} => hand'[v] = NoTask
                      /\ pc'[v] = "exec" => hand'[v] \in Tasks /\ status'[hand'[v]] = "RUNNING"
                      /\ pc'[v] \in {"waiting", "woken"} => hand'[v] \notin Independent
    BY DEF HandOK, Independent
  <2> QED BY <1>1, <1>3, <1>4 DEF HandOK, taskVars
<1>6. WaitersOK'
  <2>1. waiters \in Seq(Workers) BY <1>1 DEF TypeOK
  <2>2. CASE waiters' = waiters /\ \A v \in Workers : pc'[v] = pc[v] \/
                 (pc[v] \in {"start", "paused", "get"} /\ pc'[v] \in {"start", "paused", "get"})
    BY <1>1, <2>1, <2>2 DEF WaitersOK
  <2>3. CASE waiters' = <<>> BY <2>3 DEF WaitersOK
  <2>4. ASSUME NEW w \in Workers, pc[w] = "get", pc' = [pc EXCEPT ![w] = "waiting"],
               waiters' = Append(waiters, w)
        PROVE  WaitersOK'
    <3>1. \A i \in 1..Len(waiters) : waiters[i] \in Workers /\ pc[waiters[i]] = "waiting" /\ waiters[i] # w
      BY <1>1, <2>1, <2>4 DEF WaitersOK
    <3>2. /\ Len(waiters') = Len(waiters) + 1 /\ waiters'[Len(waiters) + 1] = w
          /\ \A i \in 1..Len(waiters) : waiters'[i] = waiters[i]
      BY <2>1, <2>4
    <3>3. \A i \in 1..Len(waiters') : pc'[waiters'[i]] = "waiting"
      BY <1>1, <2>1, <2>4, <3>1, <3>2 DEF TypeOK
    <3>4. \A i, j \in 1..Len(waiters') : waiters'[i] = waiters'[j] => i = j
      BY <1>1, <2>1, <3>1, <3>2 DEF WaitersOK
    <3> QED BY <3>3, <3>4 DEF WaitersOK
  <2> QED BY <2>2, <2>3, <2>4
<1>7. NewOK' BY <1>1, <1>2 DEF NewOK, taskVars
<1>9. OnePlace' BY <1>1, <1>2 DEF OnePlace
<1>12. ASSUME LivesOK PROVE LivesOK'
  <2>0. UntriedOK /\ AttemptsOK /\ EndIsAnnounced /\ NothingLost BY <1>12 DEF LivesOK
  <2>1. UntriedOK' BY <2>0 DEF UntriedOK, taskVars
  <2>2. AttemptsOK' BY <2>0, <1>1 DEF AttemptsOK, taskVars
  <2>3. EndIsAnnounced' BY <2>0, <1>1 DEF EndIsAnnounced, taskVars
  <2>4. NothingLost' BY <2>0, <1>1, <1>2 DEF NothingLost, Independent, taskVars
  <2> QED BY <2>1, <2>2, <2>3, <2>4 DEF LivesOK
<1> QED BY <1>5, <1>6, <1>7, <1>9, <1>12 DEF Core

\* get takes the top of the heap into the worker's hand, to keep or to execute.
LEMMA GetKeepsInv ==
  ASSUME Core, TypeOK', NEW w \in Workers, GetHeld(w) \/ Take(w)
  PROVE  Core' /\ (LivesOK => LivesOK')
<1> USE TaskAssumption
<1>1. TypeOK /\ HandOK /\ WaitersOK /\ NewOK /\ OnePlace BY DEF Core
<1>2. PICK t \in Tasks :
        /\ heap[t] > 0 /\ heap' = [heap EXCEPT ![t] = @ - 1]
        /\ hand' = [hand EXCEPT ![w] = t] /\ pc[w] = "get"
        /\ UNCHANGED <<tasks, reports>>
        /\ \/ /\ t \notin Independent /\ status[t] = "WAITING"
              /\ status' \in {status, [status EXCEPT ![t] = "FAILED"]}
              /\ pc' = [pc EXCEPT ![w] = "waiting"] /\ waiters' = Append(waiters, w)
              /\ UNCHANGED <<attempt, event>>
           \/ /\ status[t] \in {"PENDING", "READY", "WAITING"}
              /\ status' = [status EXCEPT ![t] = "RUNNING"]
              /\ attempt' = [attempt EXCEPT ![t] = @ + 1]
              /\ event' = [event EXCEPT ![t] = FALSE]
              /\ pc' = [pc EXCEPT ![w] = "exec"] /\ waiters' = waiters
  <2>1. CASE GetHeld(w) BY <2>1 DEF GetHeld, IsHead, Pop, Visible, Independent
  <2>2. CASE Take(w) BY <2>2 DEF Take, IsHead, Pop, Runnable
  <2> QED BY <2>1, <2>2
<1>3. heap[t] = 1 /\ Holders(t) = {} /\ heap'[t] = 0 /\ \A u \in Tasks \ {t} : heap'[u] = heap[u]
  BY <1>1, <1>2 DEF OnePlace, TypeOK
<1>4. hand[w] = NoTask BY <1>1, <1>2 DEF HandOK
<1>5. /\ hand'[w] = t /\ \A v \in Workers \ {w} : hand'[v] = hand[v] /\ hand[v] # t /\ pc'[v] = pc[v]
  BY <1>1, <1>2, <1>3 DEF TypeOK, Holders
<1>6. Holders(t)' = {w} /\ \A u \in Tasks \ {t} : Holders(u)' = Holders(u)
  BY <1>4, <1>5 DEF Holders
<1>7. \A u \in Tasks \ {t} : status'[u] = status[u] /\ attempt'[u] = attempt[u] /\ event'[u] = event[u]
  BY <1>1, <1>2 DEF TypeOK
<1>8. \/ /\ t \notin Independent /\ status[t] = "WAITING" /\ status'[t] \in {"WAITING", "FAILED"}
         /\ pc'[w] = "waiting" /\ waiters' = Append(waiters, w)
         /\ attempt'[t] = attempt[t] /\ event'[t] = event[t]
      \/ /\ status[t] \in {"PENDING", "READY", "WAITING"} /\ status'[t] = "RUNNING"
         /\ pc'[w] = "exec" /\ waiters' = waiters
         /\ attempt'[t] = attempt[t] + 1 /\ event'[t] = FALSE
  BY <1>1, <1>2 DEF TypeOK
<1>9. HandOK'
  <2> SUFFICES ASSUME NEW v \in Workers
               PROVE  /\ pc'[v] \in {"start", "paused", "get", "dead"} => hand'[v] = NoTask
                      /\ pc'[v] = "exec" => hand'[v] \in Tasks /\ status'[hand'[v]] = "RUNNING"
                      /\ pc'[v] \in {"waiting", "woken"} => hand'[v] \notin Independent
    BY DEF HandOK, Independent
  <2>1. CASE v = w BY <1>5, <1>8, <2>1
  <2>2. CASE v # w BY <1>1, <1>5, <1>7, <2>2 DEF HandOK
  <2> QED BY <2>1, <2>2
<1>10. WaitersOK'
  <2>1. waiters \in Seq(Workers) BY <1>1 DEF TypeOK
  <2>2. \A i \in 1..Len(waiters) : waiters[i] \in Workers /\ pc[waiters[i]] = "waiting" /\ waiters[i] # w
    BY <1>1, <1>2, <2>1 DEF WaitersOK
  <2>3. CASE waiters' = waiters BY <1>1, <1>5, <2>2, <2>3 DEF WaitersOK
  <2>4. CASE waiters' = Append(waiters, w) /\ pc'[w] = "waiting"
    <3>1. /\ Len(waiters') = Len(waiters) + 1 /\ waiters'[Len(waiters) + 1] = w
          /\ \A i \in 1..Len(waiters) : waiters'[i] = waiters[i]
      BY <2>1, <2>4
    <3>2. \A i \in 1..Len(waiters') : pc'[waiters'[i]] = "waiting"
      BY <1>5, <2>1, <2>2, <2>4, <3>1
    <3>3. \A i, j \in 1..Len(waiters') : waiters'[i] = waiters'[j] => i = j
      BY <1>1, <2>1, <2>2, <3>1 DEF WaitersOK
    <3> QED BY <3>2, <3>3 DEF WaitersOK
  <2> QED BY <1>8, <2>3, <2>4
<1>11. NewOK' BY <1>1, <1>3, <1>6, <1>7, <1>8 DEF NewOK
<1>13. OnePlace' BY <1>1, <1>3, <1>6 DEF OnePlace
<1>16. ASSUME LivesOK PROVE LivesOK'
  <2>0. UntriedOK /\ AttemptsOK /\ EndIsAnnounced /\ NothingLost BY <1>16 DEF LivesOK
  <2>1. UntriedOK' BY <2>0, <1>7, <1>8 DEF UntriedOK
  <2>2. AttemptsOK'
    <3>1. attempt[t] \in Nat /\ attempt[t] < RetryLimit BY <2>0, <1>1, <1>8 DEF AttemptsOK, TypeOK
    <3> QED BY <2>0, <1>1, <1>7, <1>8, <3>1 DEF AttemptsOK
  <2>3. EndIsAnnounced'
    <3>1. reports' = reports BY <1>2
    <3>2. ~event[t] /\ reports[t] = <<>> BY <2>0, <1>1, <1>8 DEF EndIsAnnounced, ts_done, TypeOK
    <3> QED BY <2>0, <1>1, <1>7, <1>8, <3>1, <3>2 DEF EndIsAnnounced, ts_done
  <2>4. NothingLost'
    <3> SUFFICES ASSUME NEW u \in Independent, status'[u] \in Unfinished
                 PROVE  u \in tasks' /\ (heap'[u] = 1 \/ Holders(u)' # {})
      BY DEF NothingLost, Independent
    <3>1. u \in Tasks BY DEF Independent
    <3>2. CASE u = t BY <2>0, <1>1, <1>2, <1>3, <1>6, <1>7, <1>8, <3>1, <3>2 DEF NothingLost, Unfinished
    <3>3. CASE u # t BY <2>0, <1>1, <1>2, <1>3, <1>6, <1>7, <3>1, <3>3 DEF NothingLost, Unfinished
    <3> QED BY <3>2, <3>3
  <2> QED BY <2>1, <2>2, <2>3, <2>4 DEF LivesOK
<1> QED BY <1>9, <1>10, <1>11, <1>13, <1>16 DEF Core

LEMMA FinishedKeepsInv ==
  ASSUME Core, TypeOK', NEW w \in Workers, GetFinished(w)
  PROVE  Core' /\ (LivesOK => LivesOK')
<1> USE TaskAssumption
<1>1. TypeOK /\ HandOK /\ WaitersOK /\ NewOK /\ OnePlace BY DEF Core
<1>2. PICK t \in Tasks : /\ heap[t] > 0 /\ status[t] \in ts_done
                         /\ tasks' = tasks \ {t} /\ heap' = [heap EXCEPT ![t] = @ - 1]
  BY DEF GetFinished, IsHead, Pop
<1>3. UNCHANGED <<status, attempt, event, waiters, pc, hand, reports>>
  BY DEF GetFinished, taskVars, workerVars
<1>4. \A u \in Tasks : Holders(u)' = Holders(u) BY <1>3 DEF Holders
<1>5. heap'[t] = 0 /\ \A u \in Tasks \ {t} : heap'[u] = heap[u]
  BY <1>1, <1>2 DEF OnePlace, TypeOK
<1>6. HandOK' BY <1>1, <1>3 DEF HandOK, Independent
<1>7. WaitersOK' BY <1>1, <1>3 DEF WaitersOK
<1>8. NewOK' BY <1>1, <1>3, <1>4, <1>5 DEF NewOK
<1>10. OnePlace' BY <1>1, <1>4, <1>5 DEF OnePlace
<1>13. ASSUME LivesOK PROVE LivesOK'
  <2>0. UntriedOK /\ AttemptsOK /\ EndIsAnnounced /\ NothingLost BY <1>13 DEF LivesOK
  <2>1. UntriedOK' BY <2>0, <1>3 DEF UntriedOK
  <2>2. AttemptsOK' BY <2>0, <1>1, <1>3 DEF AttemptsOK
  <2>3. EndIsAnnounced' BY <2>0, <1>1, <1>3 DEF EndIsAnnounced
  <2>4. NothingLost' BY <2>0, <1>1, <1>2, <1>3, <1>4, <1>5 DEF NothingLost, Independent, Unfinished, ts_done
  <2> QED BY <2>1, <2>2, <2>3, <2>4 DEF LivesOK
<1> QED BY <1>6, <1>7, <1>8, <1>10, <1>13 DEF Core

\* A woken worker puts the task of its hand back on the heap.
LEMMA ResumedKeepsInv ==
  ASSUME Core, TypeOK', NEW w \in Workers, Resumed(w)
  PROVE  Core' /\ (LivesOK => LivesOK')
<1> USE TaskAssumption
<1>1. TypeOK /\ HandOK /\ WaitersOK /\ NewOK /\ OnePlace BY DEF Core
<1>2. /\ pc[w] = "woken" /\ hand' = [hand EXCEPT ![w] = NoTask] /\ pc' = [pc EXCEPT ![w] = "get"]
      /\ UNCHANGED <<status, attempt, event, waiters, tasks, reports>>
      /\ heap' = IF hand[w] = NoTask THEN heap ELSE [heap EXCEPT ![hand[w]] = @ + 1]
  BY DEF Resumed, taskVars, Push
<1>3. /\ hand'[w] = NoTask /\ pc'[w] = "get"
      /\ \A v \in Workers \ {w} : hand'[v] = hand[v] /\ pc'[v] = pc[v]
  BY <1>1, <1>2 DEF TypeOK
<1>4. ASSUME NEW u \in Tasks, hand[w] # u
      PROVE  heap'[u] = heap[u] /\ Holders(u)' = Holders(u)
  BY <1>1, <1>2, <1>3, <1>4 DEF TypeOK, Holders
<1>5. ASSUME NEW u \in Tasks, hand[w] = u
      PROVE  heap[u] = 0 /\ heap'[u] = 1 /\ Holders(u)' = {} /\ w \in Holders(u)
  <2>1. w \in Holders(u) BY <1>5 DEF Holders
  <2>2. heap[u] # 1 /\ heap[u] <= 1 /\ \A v \in Holders(u) : v = w BY <1>1, <2>1 DEF OnePlace
  <2>3. heap \in [Tasks -> Nat] BY <1>1 DEF TypeOK
  <2>4. heap[u] = 0 BY <2>2, <2>3
  <2>7. hand[w] # NoTask BY <1>5
  <2>8. heap' = [heap EXCEPT ![u] = heap[u] + 1] BY <1>2, <1>5, <2>7
  <2>9. heap'[u] = 1 BY <2>3, <2>4, <2>8
  <2>5. \A v \in Workers \ {w} : hand[v] # u BY <2>2 DEF Holders
  <2>6. Holders(u)' = {} BY <1>3, <2>5 DEF Holders
  <2> QED BY <2>1, <2>4, <2>9, <2>6
<1>6. HandOK'
  <2> SUFFICES ASSUME NEW v \in Workers
               PROVE  /\ pc'[v] \in {"start", "paused", "get", "dead"} => hand'[v] = NoTask
                      /\ pc'[v] = "exec" => hand'[v] \in Tasks /\ status'[hand'[v]] = "RUNNING"
                      /\ pc'[v] \in {"waiting", "woken"} => hand'[v] \notin Independent
    BY DEF HandOK, Independent
  <2> QED BY <1>1, <1>2, <1>3 DEF HandOK
<1>7. WaitersOK'
  <2>1. \A i \in 1..Len(waiters) : waiters[i] \in Workers /\ pc[waiters[i]] = "waiting"
    BY <1>1 DEF TypeOK, WaitersOK
  <2> QED BY <1>1, <1>2, <1>3, <2>1 DEF WaitersOK
<1>8. NewOK' BY <1>1, <1>2, <1>4, <1>5 DEF NewOK
<1>10. OnePlace' BY <1>1, <1>4, <1>5 DEF OnePlace
<1>13. ASSUME LivesOK PROVE LivesOK'
  <2>0. UntriedOK /\ AttemptsOK /\ EndIsAnnounced /\ NothingLost BY <1>13 DEF LivesOK
  <2>1. UntriedOK' BY <2>0, <1>2 DEF UntriedOK
  <2>2. AttemptsOK' BY <2>0, <1>1, <1>2 DEF AttemptsOK
  <2>3. EndIsAnnounced' BY <2>0, <1>1, <1>2 DEF EndIsAnnounced
  <2>4. NothingLost' BY <2>0, <1>1, <1>2, <1>4, <1>5 DEF NothingLost, Independent
  <2> QED BY <2>1, <2>2, <2>3, <2>4 DEF LivesOK
<1> QED BY <1>6, <1>7, <1>8, <1>10, <1>13 DEF Core

\* A failed attempt gives its task back, or loses it when add raises.
LEMMA RetryKeepsInv ==
  ASSUME Core, TypeOK', NEW w \in Workers, Retry(w) \/ RetryLost(w)
  PROVE  Core' /\ (LivesOK => LivesOK')
<1> USE TaskAssumption
<1>1. TypeOK /\ HandOK /\ WaitersOK /\ NewOK /\ OnePlace BY DEF Core
<1>2. PICK t \in Tasks, n \in {1, 2}, next \in {"start", "dead"} :
        /\ pc[w] = "exec" /\ hand[w] = t /\ attempt[t] < RetryLimit
        /\ TaskDone(w, t, n, next)
        /\ UNCHANGED <<attempt, event, reports>>
        /\ status' \in {[status EXCEPT ![t] = "READY"],
                        [[status EXCEPT ![t] = "READY"] EXCEPT ![t] = "WAITING"]}
        /\ tasks \ {t} \subseteq tasks'
        /\ \/ heap' = [heap EXCEPT ![t] = @ + 1] /\ (t \in Independent => t \in tasks')
           \/ heap' = heap /\ t \notin Independent
  <2>1. CASE Retry(w)
    <3>1. PICK t \in Tasks :
            /\ pc[w] = "exec" /\ hand[w] = t /\ attempt[t] < RetryLimit
            /\ TaskDone(w, t, 2, "start")
            /\ UNCHANGED <<attempt, event, reports>>
            /\ heap' = [heap EXCEPT ![t] = @ + 1]
            /\ \E top \in MaxPriority(t, [status EXCEPT ![t] = "READY"], tasks \cup {t}) :
                 \/ /\ top > 0 /\ tasks' = (tasks \cup {t}) \ {t}
                    /\ status' = [[status EXCEPT ![t] = "READY"] EXCEPT ![t] = "WAITING"]
                 \/ /\ tasks' = tasks \cup {t}
                    /\ status' = [status EXCEPT ![t] = "READY"]
      BY <2>1 DEF Retry, Executing, MayRetry, Push
    <3>2. t \in Independent => t \in tasks' BY <3>1, NoChain
    <3> QED BY <3>1, <3>2
  <2>2. CASE RetryLost(w)
    <3>1. PICK t \in Tasks :
            /\ pc[w] = "exec" /\ hand[w] = t /\ attempt[t] < RetryLimit
            /\ TaskDone(w, t, 1, "dead")
            /\ UNCHANGED <<attempt, event, heap, reports>>
            /\ Unknown(t, [status EXCEPT ![t] = "READY"], tasks \cup {t})
            /\ status' = [status EXCEPT ![t] = "READY"] /\ tasks' = tasks \cup {t}
      BY <2>2 DEF RetryLost, Executing, MayRetry
    <3>2. t \notin Independent BY <3>1, NoChain
    <3> QED BY <3>1, <3>2
  <2> QED BY <2>1, <2>2
<1>3. /\ hand'[w] = NoTask /\ pc'[w] = next
      /\ \A v \in Workers \ {w} :
           /\ hand'[v] = hand[v]
           /\ pc'[v] = pc[v] \/ (pc[v] = "waiting" /\ pc'[v] = "woken")
  BY <1>1, <1>2, TaskDoneFacts
<1>4. /\ status[t] = "RUNNING" /\ status'[t] \in {"READY", "WAITING"}
      /\ \A u \in Tasks \ {t} : status'[u] = status[u]
  <2>1. status[t] = "RUNNING" BY <1>1, <1>2 DEF HandOK
  <2>2. status \in [Tasks -> TaskStatus \cup {"NEW"}] BY <1>1 DEF TypeOK
  <2>3. CASE status' = [status EXCEPT ![t] = "READY"] BY <2>1, <2>2, <2>3
  <2>4. CASE status' = [[status EXCEPT ![t] = "READY"] EXCEPT ![t] = "WAITING"]
    BY <2>1, <2>2, <2>4
  <2> QED BY <1>2, <2>3, <2>4
<1>5. heap[t] = 0 /\ \A v \in Holders(t) : v = w
  <2>1. w \in Holders(t) BY <1>2 DEF Holders
  <2>2. heap[t] # 1 /\ heap[t] <= 1 /\ \A v \in Holders(t) : v = w BY <1>1, <2>1 DEF OnePlace
  <2>3. heap[t] \in Nat BY <1>1 DEF TypeOK
  <2> QED BY <2>2, <2>3
<1>6. \A v \in Workers \ {w} : hand[v] # t BY <1>5 DEF Holders
<1>7. Holders(t)' = {} BY <1>3, <1>6 DEF Holders
<1>8. \A u \in Tasks \ {t} : Holders(u)' = Holders(u) /\ heap'[u] = heap[u]
  <2>1. \A u \in Tasks \ {t} : heap'[u] = heap[u] BY <1>1, <1>2 DEF TypeOK
  <2>2. \A u \in Tasks \ {t} : Holders(u)' = Holders(u) BY <1>2, <1>3 DEF Holders
  <2> QED BY <2>1, <2>2
<1>9. heap'[t] \in {0, 1} /\ (t \in Independent => heap'[t] = 1 /\ t \in tasks')
  BY <1>1, <1>2, <1>5 DEF TypeOK
<1>10. HandOK'
  <2> SUFFICES ASSUME NEW v \in Workers
               PROVE  /\ pc'[v] \in {"start", "paused", "get", "dead"} => hand'[v] = NoTask
                      /\ pc'[v] = "exec" => hand'[v] \in Tasks /\ status'[hand'[v]] = "RUNNING"
                      /\ pc'[v] \in {"waiting", "woken"} => hand'[v] \notin Independent
    BY DEF HandOK, Independent
  <2>1. CASE v = w BY <1>3, <2>1
  <2>2. CASE v # w BY <1>1, <1>3, <1>4, <1>6, <2>2 DEF HandOK
  <2> QED BY <2>1, <2>2
<1>11. WaitersOK'
  <2>1. n \in Nat OBVIOUS
  <2> QED BY <1>1, <1>2, <2>1, TaskDoneWaiters
<1>12. NewOK' BY <1>1, <1>2, <1>4, <1>8 DEF NewOK
<1>14. OnePlace' BY <1>1, <1>7, <1>8, <1>9 DEF OnePlace
<1>17. ASSUME LivesOK PROVE LivesOK'
  <2>0. UntriedOK /\ AttemptsOK /\ EndIsAnnounced /\ NothingLost BY <1>17 DEF LivesOK
  <2>1. UntriedOK' BY <2>0, <1>2, <1>4 DEF UntriedOK
  <2>2. AttemptsOK' BY <2>0, <1>1, <1>2, <1>4 DEF AttemptsOK
  <2>3. EndIsAnnounced'
    <3>1. event' = event /\ reports' = reports BY <1>2
    <3>2. ~event[t] /\ reports[t] = <<>> BY <2>0, <1>1, <1>4 DEF EndIsAnnounced, ts_done
    <3>3. status'[t] \notin ts_done BY <1>4 DEF ts_done
    <3> QED BY <2>0, <1>1, <1>4, <3>1, <3>2, <3>3 DEF EndIsAnnounced
  <2>4. NothingLost' BY <2>0, <1>1, <1>2, <1>4, <1>8, <1>9 DEF NothingLost, Independent
  <2> QED BY <2>1, <2>2, <2>3, <2>4 DEF LivesOK
<1> QED BY <1>10, <1>11, <1>12, <1>14, <1>17 DEF Core

\* A cancelled worker that does not execute drops what it held, if anything.
LEMMA CancelIdleKeepsInv ==
  ASSUME Core, TypeOK', NEW w \in Workers, CancelIdle(w), closed => waiters = <<>>
  PROVE  Core' /\ (LivesOK => LivesOK')
<1> USE TaskAssumption
<1>1. TypeOK /\ HandOK /\ WaitersOK /\ NewOK /\ OnePlace BY DEF Core
<1>2. /\ pc[w] \notin {"exec", "dead"} /\ waiters = <<>> /\ waiters' = waiters
      /\ hand' = [hand EXCEPT ![w] = NoTask] /\ pc' = [pc EXCEPT ![w] = "dead"]
      /\ UNCHANGED <<status, attempt, event, tasks, heap, reports>>
  BY DEF CancelIdle, taskVars, queueVars
<1>3. /\ hand'[w] = NoTask /\ pc'[w] = "dead"
      /\ \A v \in Workers \ {w} : hand'[v] = hand[v] /\ pc'[v] = pc[v]
  BY <1>1, <1>2 DEF TypeOK
<1>4. \A u \in Tasks : Holders(u)' \subseteq Holders(u) BY <1>3 DEF Holders
<1>5. pc[w] \in {"start", "paused", "get", "waiting", "woken"} BY <1>1, <1>2 DEF TypeOK
<1>6. hand[w] \notin Independent BY <1>1, <1>5 DEF HandOK, Independent
<1>7. \A u \in Independent : Holders(u)' = Holders(u) BY <1>3, <1>6 DEF Holders, Independent
<1>8. HandOK'
  <2> SUFFICES ASSUME NEW v \in Workers
               PROVE  /\ pc'[v] \in {"start", "paused", "get", "dead"} => hand'[v] = NoTask
                      /\ pc'[v] = "exec" => hand'[v] \in Tasks /\ status'[hand'[v]] = "RUNNING"
                      /\ pc'[v] \in {"waiting", "woken"} => hand'[v] \notin Independent
    BY DEF HandOK, Independent
  <2> QED BY <1>1, <1>2, <1>3 DEF HandOK
<1>9. WaitersOK' BY <1>2 DEF WaitersOK
<1>10. NewOK' BY <1>1, <1>2, <1>4 DEF NewOK
<1>12. OnePlace' BY <1>1, <1>2, <1>4 DEF OnePlace
<1>15. ASSUME LivesOK PROVE LivesOK'
  <2>0. UntriedOK /\ AttemptsOK /\ EndIsAnnounced /\ NothingLost BY <1>15 DEF LivesOK
  <2>1. UntriedOK' BY <2>0, <1>2 DEF UntriedOK
  <2>2. AttemptsOK' BY <2>0, <1>1, <1>2 DEF AttemptsOK
  <2>3. EndIsAnnounced' BY <2>0, <1>1, <1>2 DEF EndIsAnnounced
  <2>4. NothingLost' BY <2>0, <1>1, <1>2, <1>7 DEF NothingLost, Independent
  <2> QED BY <2>1, <2>2, <2>3, <2>4 DEF LivesOK
<1> QED BY <1>8, <1>9, <1>10, <1>12, <1>15 DEF Core

LEMMA ClosedStep == TypeOK /\ ClosedOK /\ [Next]_vars => ClosedOK'
<1> SUFFICES ASSUME TypeOK, ClosedOK, [Next]_vars, closed' PROVE waiters' = <<>>
  BY DEF ClosedOK
<1>1. CASE ~closed
  <2>1. shutdown
    <3>1. ASSUME NEW t \in Tasks, add_task(t) \/ add_task_refused(t) PROVE FALSE
      BY <1>1, <3>1 DEF add_task, add_task_refused
    <3>2. ASSUME NEW w \in Workers, WorkerStep(w) PROVE FALSE
      BY <1>1, <3>2 DEF WorkerStep, Top, GetEmpty, GetFinished, GetHeld, Take, Resumed, Succeed,
                        GiveUp, Retry, RetryLost, CancelExecuting, CancelIdle, TaskDone
    <3>3. ~pause /\ ~resume /\ ~UNCHANGED vars BY <1>1 DEF pause, resume, vars
    <3> QED BY <3>1, <3>2, <3>3 DEF Next
  <2> QED BY <2>1 DEF shutdown
<1>2. CASE closed
  <2>1. waiters = <<>> BY <1>2 DEF ClosedOK
  <2>2. Notified(1) = <<>>
    <3>1. Reached(1) = 0 BY <2>1 DEF Reached
    <3> QED BY <2>1, <3>1 DEF Notified, Drop
  <2>3. ASSUME NEW w \in Workers, WorkerStep(w) PROVE waiters' = <<>>
    <3>1. CancelExecuting(w) \/ CancelIdle(w)
      BY <1>2, <2>3 DEF WorkerStep, MayStep, Executing, Top, GetEmpty, GetFinished, GetHeld, Take,
                        Resumed, Succeed, GiveUp, Retry, RetryLost
    <3> QED BY <2>1, <2>2, <3>1 DEF CancelExecuting, CancelIdle, TaskDone, queueVars
  <2>4. CASE UNCHANGED vars BY <2>1, <2>4 DEF vars, queueVars
  <2>5. ASSUME NEW t \in Tasks, add_task(t) \/ add_task_refused(t) PROVE FALSE
    BY <1>2, <2>5 DEF add_task, add_task_refused
  <2>6. ~pause /\ ~resume /\ ~shutdown BY <1>2 DEF pause, resume, shutdown
  <2> QED BY <2>3, <2>4, <2>5, <2>6 DEF Next
<1> QED BY <1>1, <1>2

LEMMA CoreStep == Core /\ ClosedOK /\ [Next]_vars => Core' /\ (LivesOK => LivesOK')
<1> SUFFICES ASSUME Core, ClosedOK, [Next]_vars PROVE Core' /\ (LivesOK => LivesOK')
  OBVIOUS
<1>1. TypeOK /\ TypeOK' BY TypeStep DEF Core
<1>2. ASSUME NEW t \in Tasks, add_task(t) \/ add_task_refused(t) PROVE Core' /\ (LivesOK => LivesOK')
  BY <1>1, <1>2, AddKeepsInv, RefusedKeepsInv
<1>3. ASSUME NEW w \in Workers, WorkerStep(w) PROVE Core' /\ (LivesOK => LivesOK')
  <2>1. CASE Top(w)
    <3>1. UNCHANGED <<taskVars, tasks, heap, hand, reports, accomplished_task, waiters>>
      BY <2>1 DEF Top, queueVars
    <3>2. \A v \in Workers : pc'[v] = pc[v] \/
            (pc[v] \in {"start", "paused", "get"} /\ pc'[v] \in {"start", "paused", "get"})
      BY <1>1, <2>1 DEF Top, TypeOK
    <3> QED BY <1>1, <3>1, <3>2, MovesKeepInv
  <2>2. CASE GetEmpty(w)
    <3>1. UNCHANGED <<taskVars, tasks, heap, hand, reports, accomplished_task>>
      BY <2>2 DEF GetEmpty
    <3>2. \E v \in Workers : /\ pc[v] = "get" /\ pc' = [pc EXCEPT ![v] = "waiting"]
                             /\ waiters' = Append(waiters, v)
      BY <2>2 DEF GetEmpty
    <3> QED BY <1>1, <3>1, <3>2, MovesKeepInv
  <2>3. CASE GetFinished(w) BY <1>1, <2>3, FinishedKeepsInv
  <2>4. CASE GetHeld(w) \/ Take(w) BY <1>1, <2>4, GetKeepsInv
  <2>5. CASE Resumed(w) BY <1>1, <2>5, ResumedKeepsInv
  <2>6. CASE Succeed(w)
    <3>1. PICK t \in Tasks : /\ pc[w] = "exec" /\ hand[w] = t
                             /\ Final(w, t, "DONE") /\ TaskDone(w, t, 1, "start")
      BY <2>6 DEF Succeed, Executing
    <3> QED BY <1>1, <3>1, EndingKeepsInv
  <2>7. CASE GiveUp(w)
    <3>1. PICK t \in Tasks, end \in {"EXCEPTION", "TIMEOUT"} :
            /\ pc[w] = "exec" /\ hand[w] = t
            /\ Final(w, t, end) /\ TaskDone(w, t, 1, "start")
      BY <2>7 DEF GiveUp, Executing
    <3> QED BY <1>1, <3>1, EndingKeepsInv
  <2>8. CASE Retry(w) \/ RetryLost(w) BY <1>1, <2>8, RetryKeepsInv
  <2>9. CASE CancelExecuting(w)
    <3>1. PICK t \in Tasks : /\ pc[w] = "exec" /\ hand[w] = t
                             /\ Final(w, t, "CANCELED") /\ TaskDone(w, t, 1, "dead")
      BY <2>9 DEF CancelExecuting
    <3> QED BY <1>1, <3>1, EndingKeepsInv
  <2>10. CASE CancelIdle(w) BY <1>1, <2>10, CancelIdleKeepsInv DEF ClosedOK
  <2> QED BY <1>3, <2>1, <2>2, <2>3, <2>4, <2>5, <2>6, <2>7, <2>8, <2>9, <2>10 DEF WorkerStep
<1>4. CASE pause \/ resume \/ shutdown \/ UNCHANGED vars
  <2>1. UNCHANGED <<taskVars, tasks, heap, hand, reports, accomplished_task>>
    BY <1>4 DEF pause, resume, shutdown, vars, queueVars, workerVars
  <2>2. \/ /\ waiters' = waiters
           /\ \A v \in Workers : pc'[v] = pc[v] \/
                (pc[v] \in {"start", "paused", "get"} /\ pc'[v] \in {"start", "paused", "get"})
        \/ waiters' = <<>> /\ pc' = pc
    BY <1>1, <1>4 DEF pause, resume, shutdown, vars, queueVars, workerVars, TypeOK
  <2> QED BY <1>1, <2>1, <2>2, MovesKeepInv
<1> QED BY <1>2, <1>3, <1>4 DEF Next

LEMMA InvInit == Init => IInv /\ ClosedOK
<1> SUFFICES ASSUME Init PROVE IInv /\ ClosedOK
  OBVIOUS
<1> USE TaskAssumption
<1>1. TypeOK BY TypeInit
<1>2. HandOK BY DEF Init, HandOK, Independent
<1>3. WaitersOK /\ ClosedOK BY DEF Init, WaitersOK, ClosedOK
<1>4. \A t \in Tasks : Holders(t) = {} BY DEF Init, Holders
<1>5. \A t \in Tasks : status[t] = "NEW" /\ heap[t] = 0 /\ attempt[t] = 0
  BY DEF Init
<1>7. NewOK /\ UntriedOK /\ AttemptsOK BY <1>4, <1>5 DEF NewOK, UntriedOK, AttemptsOK
<1>8. OnePlace BY <1>4, <1>5 DEF OnePlace
<1>9. NothingLost BY <1>5 DEF NothingLost, Independent, Unfinished
<1>6. EndIsAnnounced BY DEF Init, EndIsAnnounced, ts_done
<1> QED BY <1>1, <1>2, <1>3, <1>6, <1>7, <1>8, <1>9 DEF IInv, Core, LivesOK

LEMMA Invariant == Spec => [](IInv /\ ClosedOK)
<1>1. Init => IInv /\ ClosedOK BY InvInit
<1>2. IInv /\ ClosedOK /\ [Next]_vars => (IInv /\ ClosedOK)'
  BY CoreStep, ClosedStep DEF IInv, Core
<1> QED BY <1>1, <1>2, PTL DEF Spec

(* In every behaviour, a task is in the heap at most once or in at most    *)
(* one worker's hand: no two workers ever execute it at the same time.     *)
THEOREM OnePlaceCorrect == Spec => []OnePlace
<1>1. IInv /\ ClosedOK => OnePlace BY DEF IInv, Core
<1> QED BY <1>1, Invariant, PTL

(* In every behaviour, a submitted task without dependencies is in the     *)
(* table of pending tasks and in the heap or a hand until it ends.         *)
THEOREM NothingLostCorrect == Spec => []NothingLost
<1>1. IInv /\ ClosedOK => NothingLost BY DEF IInv, Core, LivesOK, LivesOK
<1> QED BY <1>1, Invariant, PTL

(* In every behaviour, whoever waits on a task's event is released exactly *)
(* when the task ended, and it reports exactly once.                       *)
THEOREM EndIsAnnouncedCorrect == Spec => []EndIsAnnounced
<1>1. IInv /\ ClosedOK => EndIsAnnounced BY DEF IInv, Core, LivesOK, LivesOK
<1> QED BY <1>1, Invariant, PTL

-----------------------------------------------------------------------------
(* Dependencies.  What is in the heap has its dependencies looked at, or   *)
(* has none; a task that nobody has tried twice is in the table until it   *)
(* ends; and what was forgotten comes back only overtaken.                 *)

QueuedOK ==
  /\ \A t \in Tasks : heap[t] > 0 =>
       \/ status[t] \in {"WAITING", "FAILED"}
       \/ t \in Independent /\ status[t] \in {"PENDING", "READY"}
  /\ \A t \in Independent : status[t] \notin {"WAITING", "FAILED"}
  /\ \A w \in Workers : pc[w] \in {"waiting", "woken"} /\ hand[w] \in Tasks
       => status[hand[w]] \in {"WAITING", "FAILED"}

PriorityOK == \A t \in Tasks \ Independent : priority[t] > 0

Remembered(d) == d \in tasks \cup Accomplished

AddedOK ==
  \A t \in Tasks : status[t] # "NEW" => \A d \in Dependents[t] : status[d] # "NEW"

PresentOK ==
  \A t \in Tasks :
    /\ status[t] = "RUNNING" => attempt[t] > 0
    /\ status[t] \in Unfinished /\ (attempt[t] = 0 \/ (attempt[t] = 1 /\ status[t] = "RUNNING"))
         => t \in tasks

StartedOK ==
  \A w \in Workers : pc[w] = "exec" =>
    \A d \in Dependents[hand[w]] : status[d] = "DONE" \/ ~Remembered(d) \/ Overtaken(d)

QInv == QueuedOK /\ PriorityOK
DInv == AddedOK /\ PresentOK /\ HistoryIsOver /\ StartedOK

(* What a step does to one task t: it is submitted, dropped as failed with *)
(* its dependency, held or failed while held, taken, ended or retried.     *)
Submits(t) ==
  /\ status[t] = "NEW" /\ status'[t] \in {"PENDING", "WAITING"}
  /\ attempt'[t] = attempt[t] /\ t \in tasks' /\ Accomplished' \subseteq Accomplished
  /\ \A d \in Dependents[t] : status[d] # "NEW"

Drops(t) == t \notin Independent /\ status[t] = "FAILED" /\ status'[t] = "FAILED" /\ attempt'[t] = attempt[t]

Holds(t) ==
  /\ t \notin Independent /\ status[t] = "WAITING" /\ status'[t] \in {"WAITING", "FAILED"}
  /\ attempt'[t] = attempt[t] /\ (t \in tasks <=> t \in tasks') /\ Accomplished' \subseteq Accomplished

Takes(t) ==
  /\ status[t] \in {"PENDING", "WAITING", "READY"} /\ status'[t] = "RUNNING"
  /\ attempt'[t] = attempt[t] + 1 /\ (t \in tasks <=> t \in tasks') /\ Accomplished' \subseteq Accomplished
  /\ \A d \in Dependents[t] : status[d] = "DONE" \/ ~Remembered(d)

Ends(t) ==
  /\ status[t] = "RUNNING" /\ status'[t] \in {"DONE", "EXCEPTION", "TIMEOUT", "CANCELED"}
  /\ attempt'[t] = attempt[t]

Retries(t) ==
  /\ status[t] = "RUNNING" /\ status'[t] \in {"READY", "WAITING"} /\ attempt'[t] = attempt[t]
  /\ t \in Independent => t \in tasks' /\ Accomplished' \subseteq Accomplished

\* A step about t alone: nothing else changes, and only t starts to execute.
About(t) ==
  /\ \A u \in Tasks \ {t} : /\ status'[u] = status[u] /\ attempt'[u] = attempt[u]
                            /\ u \in tasks <=> u \in tasks'
  /\ Accomplished' \subseteq Accomplished \cup {t}
  /\ Len(accomplished_task') <= HistoryLimit
  /\ \A v \in Workers : pc'[v] = "exec" =>
       (pc[v] = "exec" /\ hand'[v] = hand[v]) \/ (Takes(t) /\ hand'[v] = t)
  /\ Submits(t) \/ Drops(t) \/ Holds(t) \/ Takes(t) \/ Ends(t) \/ Retries(t)

\* A step about no task: nothing starts to execute.
Quiet ==
  /\ UNCHANGED <<status, attempt, tasks, accomplished_task>>
  /\ \A v \in Workers : pc'[v] = "exec" => pc[v] = "exec" /\ hand'[v] = hand[v]

LEMMA QuietKeepsDInv ==
  ASSUME TypeOK, DInv, Quiet
  PROVE  DInv'
<1>1. AddedOK' BY DEF DInv, AddedOK, Quiet
<1>2. PresentOK' BY DEF DInv, PresentOK, Quiet
<1>3. HistoryIsOver' BY DEF DInv, HistoryIsOver, Quiet, Accomplished, Independent
<1>4. StartedOK' BY DEF DInv, StartedOK, Quiet, Remembered, Overtaken, Accomplished
<1> QED BY <1>1, <1>2, <1>3, <1>4 DEF DInv

LEMMA AboutKeepsDInv ==
  ASSUME IInv, TypeOK', DInv, NEW t \in Tasks, About(t)
  PROVE  DInv'
<1>1. TypeOK /\ NothingLost /\ AddedOK /\ PresentOK /\ HistoryIsOver /\ StartedOK /\ HandOK
  BY DEF IInv, Core, LivesOK, DInv
<1>2. \A u \in Tasks : Dependents[u] \subseteq Tasks BY TaskAssumption
<1>3. attempt[t] \in Nat /\ attempt'[t] \in Nat /\ tasks \subseteq Tasks /\ tasks' \subseteq Tasks
  BY <1>1 DEF TypeOK
<1>4. AddedOK'
  <2> SUFFICES ASSUME NEW u \in Tasks, status'[u] # "NEW", NEW d \in Dependents[u]
               PROVE  status'[d] # "NEW"
    BY DEF AddedOK
  <2>1. d \in Tasks BY <1>2
  <2>2. \A x \in Tasks : status[x] # "NEW" => status'[x] # "NEW"
    BY DEF About, Submits, Drops, Holds, Takes, Ends, Retries
  <2>3. CASE status[u] # "NEW" BY <1>1, <2>1, <2>2, <2>3 DEF AddedOK
  <2>4. CASE status[u] = "NEW"
    <3>1. u = t /\ Submits(t) BY <2>4 DEF About, Submits, Drops, Holds, Takes, Ends, Retries
    <3> QED BY <2>1, <2>2, <3>1 DEF Submits
  <2> QED BY <2>3, <2>4
<1>5. PresentOK'
  <2> SUFFICES ASSUME NEW u \in Tasks
               PROVE  /\ status'[u] = "RUNNING" => attempt'[u] > 0
                      /\ status'[u] \in Unfinished
                           /\ (attempt'[u] = 0 \/ (attempt'[u] = 1 /\ status'[u] = "RUNNING"))
                           => u \in tasks'
    BY DEF PresentOK
  <2>1. CASE u # t BY <1>1, <2>1 DEF About, PresentOK
  <2>2. CASE u = t /\ Submits(t) BY <2>2 DEF Submits
  <2>3. CASE u = t /\ (Drops(t) \/ Ends(t)) BY <2>3 DEF Drops, Ends, Unfinished
  <2>4. CASE u = t /\ Holds(t) BY <1>1, <2>4 DEF Holds, PresentOK, Unfinished
  <2>5. CASE u = t /\ Takes(t)
    <3>1. attempt[t] = 0 => t \in tasks BY <1>1, <2>5 DEF Takes, PresentOK, Unfinished
    <3> QED BY <1>3, <2>5, <3>1 DEF Takes
  <2>6. CASE u = t /\ Retries(t) BY <1>1, <1>3, <2>6 DEF Retries, PresentOK
  <2> QED BY <2>1, <2>2, <2>3, <2>4, <2>5, <2>6 DEF About
<1>6. HistoryIsOver'
  <2>1. ASSUME NEW u \in Independent, u \in Accomplished' PROVE status'[u] \in ts_done
    <3>1. u \in Tasks BY DEF Independent
    <3>2. CASE u \in Accomplished
      <4>1. status[u] \in ts_done BY <1>1, <3>2 DEF HistoryIsOver
      <4> QED BY <3>1, <4>1 DEF About, Submits, Drops, Holds, Takes, Ends, Retries, ts_done
    <3>3. CASE u \notin Accomplished
      <4>1. u = t BY <2>1, <3>3 DEF About
      <4>2. Ends(t) BY <2>1, <3>3, <4>1 DEF About, Submits, Drops, Holds, Takes, Retries
      <4> QED BY <4>1, <4>2 DEF Ends, ts_done
    <3> QED BY <3>2, <3>3
  <2>2. Len(accomplished_task') <= HistoryLimit BY DEF About
  <2> QED BY <2>1, <2>2 DEF HistoryIsOver, Independent
<1>7. StartedOK'
  <2> SUFFICES ASSUME NEW v \in Workers, pc'[v] = "exec", NEW d \in Dependents[hand'[v]]
               PROVE  status'[d] = "DONE" \/ ~Remembered(d)' \/ Overtaken(d)'
    BY DEF StartedOK
  <2>1. /\ hand'[v] \in Tasks /\ status[d] # "NEW" /\ d \in Tasks
        /\ status[d] = "DONE" \/ ~Remembered(d) \/ Overtaken(d)
    <3>1. CASE pc[v] = "exec" /\ hand'[v] = hand[v]
      <4>1. hand[v] \in Tasks /\ status[hand[v]] = "RUNNING" BY <1>1, <3>1 DEF HandOK
      <4> QED BY <1>1, <1>2, <3>1, <4>1 DEF StartedOK, AddedOK
    <3>2. CASE Takes(t) /\ hand'[v] = t
      <4>1. status[t] # "NEW" BY <3>2 DEF Takes
      <4> QED BY <1>1, <1>2, <3>2, <4>1 DEF Takes, AddedOK
    <3> QED BY <3>1, <3>2 DEF About
  <2>2. CASE status[d] = "DONE"
    BY <2>1, <2>2 DEF About, Submits, Drops, Holds, Takes, Ends, Retries
  <2>3. CASE Overtaken(d)
    <3>1. attempt[d] \in Nat /\ attempt'[d] \in Nat BY <1>1, <2>1 DEF TypeOK
    <3>3. attempt[d] <= attempt'[d]
      <4>1. CASE d # t BY <2>1, <3>1, <4>1 DEF About
      <4>2. CASE d = t BY <3>1, <4>2 DEF About, Submits, Drops, Holds, Takes, Ends, Retries
      <4> QED BY <4>1, <4>2
    <3>2. status[d] = "FAILED" => status'[d] = "FAILED"
      BY <2>1 DEF About, Submits, Drops, Holds, Takes, Ends, Retries
    <3> QED BY <2>3, <3>1, <3>2, <3>3 DEF Overtaken
  <2>4. CASE ~Remembered(d) /\ d # t
    BY <2>1, <2>4 DEF About, Remembered
  <2>5. CASE ~Remembered(d) /\ d = t
    <3>1. t \notin tasks /\ t \notin Accomplished BY <2>5 DEF Remembered
    <3>2. ~Submits(t) BY <2>1, <2>5 DEF Submits
    <3>3. CASE Drops(t) BY <2>5, <3>3 DEF Drops, Overtaken, Independent
    <3>4. CASE Holds(t) \/ Takes(t) BY <2>5, <3>1, <3>4 DEF Holds, Takes, Remembered
    <3>5. CASE Ends(t) \/ Retries(t)
      <4>1. status[t] = "RUNNING" /\ attempt'[t] = attempt[t] BY <3>5 DEF Ends, Retries
      <4>2. t \notin Independent BY <1>1, <3>1, <4>1 DEF NothingLost, Unfinished
      <4>3. attempt[t] > 1 BY <1>1, <1>3, <3>1, <4>1 DEF PresentOK, Unfinished
      <4> QED BY <2>5, <4>1, <4>2, <4>3 DEF Overtaken, Independent
    <3> QED BY <3>2, <3>3, <3>4, <3>5 DEF About
  <2> QED BY <2>1, <2>2, <2>3, <2>4, <2>5
<1> QED BY <1>4, <1>5, <1>6, <1>7 DEF DInv

\* Filing a task evicts others and brings in no other.
LEMMA FiledFacts ==
  ASSUME TypeOK, NEW t \in Tasks, accomplished_task' = Filed(t)
  PROVE  Len(accomplished_task') <= HistoryLimit /\ Accomplished' \subseteq Accomplished \cup {t}
<1> DEFINE q == IF t \in Accomplished THEN accomplished_task ELSE Append(accomplished_task, t)
<1>0. accomplished_task \in Seq(Tasks) BY DEF TypeOK
<1>4. \A i \in 1..Len(accomplished_task) : accomplished_task[i] \in Accomplished
  BY <1>0 DEF Accomplished
<1>1. q \in Seq(Tasks) /\ \A i \in 1..Len(q) : q[i] \in Accomplished \cup {t}
  <2>1. CASE t \in Accomplished BY <1>0, <1>4, <2>1
  <2>2. CASE t \notin Accomplished BY <1>0, <1>4, <2>2
  <2> QED BY <2>1, <2>2
<1>6. Filed(t) = IF Len(q) > HistoryLimit THEN Drop(q, Len(q) - HistoryLimit) ELSE q
  BY DEF Filed
<1> HIDE DEF q
<1>2. CASE Len(q) > HistoryLimit
  <2> DEFINE k == Len(q) - HistoryLimit
  <2>1. k \in 0..Len(q) /\ Len(q) - k = HistoryLimit BY <1>1, <1>2, TaskAssumption
  <2>3. accomplished_task' = Drop(q, k) BY <1>2, <1>6
  <2> HIDE DEF k
  <2>2. /\ Drop(q, k) \in Seq(Tasks) /\ Len(Drop(q, k)) = Len(q) - k
        /\ \A i \in 1..Len(Drop(q, k)) : Drop(q, k)[i] = q[i + k]
    BY <1>1, <2>1, DropFacts
  <2>4. \A i \in 1..Len(Drop(q, k)) : i + k \in 1..Len(q)
    BY <1>1, <2>1, <2>2
  <2>5. \A i \in 1..Len(Drop(q, k)) : Drop(q, k)[i] \in Accomplished \cup {t}
    BY <1>1, <2>2, <2>4
  <2> QED BY <2>1, <2>2, <2>3, <2>5 DEF Accomplished
<1>3. CASE ~(Len(q) > HistoryLimit)
  <2>1. accomplished_task' = q BY <1>3, <1>6
  <2>2. Len(q) \in Nat BY <1>1
  <2>3. HistoryLimit \in Nat BY TaskAssumption
  <2> QED BY <1>1, <1>3, <2>1, <2>2, <2>3 DEF Accomplished
<1> QED BY <1>2, <1>3

\* A task with dependencies comes behind them: it is WAITING when add returns.
LEMMA ChainPriority ==
  ASSUME TypeOK, PriorityOK, NEW t \in Tasks, Dependents[t] # {}, NEW s, s[t] \in Unfinished,
         NEW ts, NEW top \in MaxPriority(t, s, ts)
  PROVE  top > 0
<1>1. t \in Chain(t, s, ts) BY DEF Chain, Linked
<1>2. priority[t] <= top BY <1>1 DEF MaxPriority
<1>3. priority[t] \in Nat /\ priority[t] > 0 BY DEF TypeOK, PriorityOK, Independent
<1>4. top \in Nat BY MaxPriorityType
<1> QED BY <1>2, <1>3, <1>4

(* Steps after which the same tasks are in the heap, or fewer, and hands   *)
(* that wait hold what they held.                                          *)
LEMMA QueuedQuiet ==
  ASSUME TypeOK, QInv, UNCHANGED <<status, priority>>,
         \A t \in Tasks : heap'[t] > 0 => heap[t] > 0,
         \A w \in Workers : pc'[w] \in {"waiting", "woken"} /\ hand'[w] \in Tasks
            => pc[w] \in {"waiting", "woken"} /\ hand'[w] = hand[w]
  PROVE  QInv'
BY DEF QInv, QueuedOK, PriorityOK, Independent

\* Steps that touch the status of one task t, which no hand keeps afterwards.
LEMMA QueuedTouch ==
  ASSUME TypeOK, QInv, NEW t \in Tasks,
         \A u \in Tasks \ {t} : status'[u] = status[u] /\ priority'[u] = priority[u]
                                /\ (heap'[u] > 0 => heap[u] > 0),
         \A w \in Workers : pc'[w] \in {"waiting", "woken"} /\ hand'[w] \in Tasks
            => pc[w] \in {"waiting", "woken"} /\ hand'[w] = hand[w] /\ hand[w] # t,
         t \in Independent => status'[t] \notin {"WAITING", "FAILED"},
         t \notin Independent => priority'[t] > 0,
         heap'[t] > 0 => \/ status'[t] \in {"WAITING", "FAILED"}
                         \/ t \in Independent /\ status'[t] \in {"PENDING", "READY"}
  PROVE  QInv'
<1>1. PriorityOK' BY DEF QInv, PriorityOK, Independent
<1>2. QueuedOK' BY DEF QInv, QueuedOK, Independent
<1> QED BY <1>1, <1>2 DEF QInv

(* Each action is about one task or about none, and keeps the heap and the *)
(* hands that wait as QInv says.                                           *)
LEMMA AddAbout ==
  ASSUME IInv, TypeOK', QInv, DInv, NEW t \in Tasks, add_task(t)
  PROVE  QInv' /\ About(t)
<1> DEFINE s == [status EXCEPT ![t] = "PENDING"]
<1> DEFINE ts == tasks \cup {t}
<1>1. TypeOK /\ WaitersOK /\ NewOK /\ HistoryIsOver /\ PriorityOK BY DEF IInv, Core, LivesOK, QInv, DInv
<1>2. status[t] = "NEW" /\ heap[t] = 0 /\ Holders(t) = {}
  BY <1>1 DEF add_task, NewOK
<1>3. PICK top \in MaxPriority(t, s, ts) :
        /\ status' = IF top > 0 THEN [s EXCEPT ![t] = "WAITING"] ELSE s
        /\ priority' = IF top > 0 THEN [priority EXCEPT ![t] = top + 1] ELSE priority
  BY DEF add_task
<1>4. /\ UNCHANGED <<attempt, hand, accomplished_task>>
      /\ tasks' = tasks \cup {t} /\ heap' = [heap EXCEPT ![t] = @ + 1]
      /\ pc' = [v \in Workers |-> IF pc[v] = "dead" THEN "start" ELSE Wake(1)[v]]
      /\ Dependents[t] \subseteq Submitted
  BY DEF add_task, Push
<1>5. \A v \in Workers : /\ pc'[v] = "exec" => pc[v] = "exec"
                         /\ pc'[v] \in {"waiting", "woken"} => pc[v] \in {"waiting", "woken"}
                         /\ hand[v] # t
  BY <1>1, <1>2, <1>4, WakeFacts DEF Holders
<1>6. CASE t \in Independent
  <2>1. top = 0 BY <1>3, <1>6, NoChain
  <2>2. status' = [status EXCEPT ![t] = "PENDING"] /\ priority' = priority BY <1>3, <2>1
  <2>3. status'[t] = "PENDING" /\ \A u \in Tasks \ {t} : status'[u] = status[u] BY <1>1, <2>2 DEF TypeOK
  <2>4. QInv' BY <1>1, <1>4, <1>5, <1>6, <2>2, <2>3, QueuedTouch DEF TypeOK
  <2>5. Submits(t) BY <1>2, <1>4, <2>3 DEF Submits, Submitted, Accomplished
  <2> QED BY <1>1, <1>4, <1>5, <2>3, <2>4, <2>5 DEF About, HistoryIsOver, Accomplished
<1>7. CASE t \notin Independent
  <2>1. s[t] = "PENDING" /\ s[t] \in Unfinished BY <1>1 DEF TypeOK, Unfinished
  <2>2. top > 0 /\ top \in Nat
    <3>1. Dependents[t] # {} BY <1>7 DEF Independent
    <3> HIDE DEF s, ts
    <3> QED BY <1>1, <2>1, <3>1, ChainPriority, MaxPriorityType
  <2>3. /\ status'[t] = "WAITING" /\ \A u \in Tasks \ {t} : status'[u] = status[u]
        /\ priority'[t] = top + 1 /\ \A u \in Tasks \ {t} : priority'[u] = priority[u]
    BY <1>1, <1>3, <2>2 DEF TypeOK
  <2>6. \A u \in Tasks \ {t} : heap'[u] = heap[u] BY <1>1, <1>4 DEF TypeOK
  <2>7. priority'[t] > 0 BY <2>2, <2>3
  <2>8. \A v \in Workers : pc'[v] \in {"waiting", "woken"}
          => pc[v] \in {"waiting", "woken"} /\ hand'[v] = hand[v] /\ hand[v] # t
    BY <1>4, <1>5
  <2>4. QInv' BY <1>1, <1>7, <2>3, <2>6, <2>7, <2>8, QueuedTouch
  <2>5. Submits(t) BY <1>2, <1>4, <2>3 DEF Submits, Submitted, Accomplished
  <2> QED BY <1>1, <1>4, <1>5, <2>3, <2>4, <2>5 DEF About, HistoryIsOver, Accomplished
<1> QED BY <1>6, <1>7

LEMMA RefusedAbout ==
  ASSUME IInv, TypeOK', QInv, DInv, NEW t \in Tasks, add_task_refused(t)
  PROVE  QInv' /\ About(t)
<1>1. TypeOK /\ NewOK /\ HistoryIsOver /\ PriorityOK BY DEF IInv, Core, LivesOK, QInv, DInv
<1>2. status[t] = "NEW" /\ heap[t] = 0 /\ Holders(t) = {}
  BY <1>1 DEF add_task_refused, NewOK
<1>3. /\ status' = [status EXCEPT ![t] = "PENDING"] /\ tasks' = tasks \cup {t}
      /\ UNCHANGED <<attempt, priority, hand, heap, accomplished_task>>
      /\ pc' = [v \in Workers |-> IF pc[v] = "dead" THEN "start" ELSE pc[v]]
      /\ Dependents[t] \subseteq Submitted
      /\ Unknown(t, status', tasks')
  BY DEF add_task_refused
<1>4. t \notin Independent BY <1>3, NoChain
<1>5. \A v \in Workers : /\ pc'[v] = "exec" => pc[v] = "exec"
                         /\ pc'[v] \in {"waiting", "woken"} => pc[v] \in {"waiting", "woken"}
                         /\ hand[v] # t
  BY <1>2, <1>3 DEF Holders
<1>6. status'[t] = "PENDING" /\ \A u \in Tasks \ {t} : status'[u] = status[u] BY <1>1, <1>3 DEF TypeOK
<1>7. priority'[t] > 0 BY <1>1, <1>3, <1>4 DEF PriorityOK
<1>8. QInv' BY <1>1, <1>2, <1>3, <1>4, <1>5, <1>6, <1>7, QueuedTouch
<1>9. Submits(t) BY <1>2, <1>3, <1>6 DEF Submits, Submitted, Accomplished
<1> QED BY <1>1, <1>3, <1>5, <1>6, <1>8, <1>9 DEF About, HistoryIsOver, Accomplished

LEMMA FinishedAbout ==
  ASSUME IInv, TypeOK', QInv, DInv, NEW w \in Workers, GetFinished(w)
  PROVE  QInv' /\ \E t \in Tasks : About(t)
<1>1. TypeOK BY DEF IInv, Core, LivesOK
<1>2. PICK t \in Tasks : /\ heap[t] > 0 /\ status[t] \in ts_done /\ accomplished_task' = Filed(t)
                         /\ tasks' = tasks \ {t} /\ heap' = [heap EXCEPT ![t] = @ - 1]
  BY DEF GetFinished, IsHead, Pop
<1>3. UNCHANGED <<status, attempt, priority, pc, hand>> BY DEF GetFinished, taskVars, workerVars
<1>4. status[t] = "FAILED" /\ t \notin Independent BY <1>2 DEF QInv, QueuedOK, ts_done
<1>5. \A u \in Tasks : heap'[u] > 0 => heap[u] > 0 BY <1>1, <1>2 DEF TypeOK
<1>6. QInv' BY <1>1, <1>3, <1>5, QueuedQuiet
<1>7. Len(accomplished_task') <= HistoryLimit /\ Accomplished' \subseteq Accomplished \cup {t}
  BY <1>1, <1>2, FiledFacts
<1>8. Drops(t) BY <1>3, <1>4 DEF Drops
<1>9. About(t) BY <1>2, <1>3, <1>7, <1>8 DEF About
<1> QED BY <1>6, <1>9

LEMMA HeldAbout ==
  ASSUME IInv, TypeOK', QInv, DInv, NEW w \in Workers, GetHeld(w)
  PROVE  QInv' /\ \E t \in Tasks : About(t)
<1>1. TypeOK /\ OnePlace /\ HistoryIsOver BY DEF IInv, Core, LivesOK, DInv
<1>2. PICK t \in Tasks :
        /\ heap[t] > 0 /\ status[t] = "WAITING" /\ t \notin Independent
        /\ status' \in {status, [status EXCEPT ![t] = "FAILED"]}
        /\ heap' = [heap EXCEPT ![t] = @ - 1] /\ hand' = [hand EXCEPT ![w] = t]
  BY DEF GetHeld, IsHead, Pop, Visible, Independent
<1>3. /\ UNCHANGED <<attempt, priority, tasks, accomplished_task>>
      /\ pc' = [pc EXCEPT ![w] = "waiting"]
  BY DEF GetHeld
<1>4. heap[t] = 1 /\ Holders(t) = {} BY <1>1, <1>2 DEF OnePlace, TypeOK
<1>5. \A v \in Workers \ {w} : pc'[v] = pc[v] /\ hand'[v] = hand[v] /\ hand[v] # t
  BY <1>1, <1>2, <1>3, <1>4 DEF TypeOK, Holders
<1>6. pc'[w] = "waiting" /\ hand'[w] = t BY <1>1, <1>2, <1>3 DEF TypeOK
<1>7. /\ status'[t] \in {"WAITING", "FAILED"} /\ \A u \in Tasks \ {t} : status'[u] = status[u]
      /\ heap'[t] = 0 /\ \A u \in Tasks \ {t} : heap'[u] = heap[u]
  BY <1>1, <1>2, <1>4 DEF TypeOK
<1>8. QueuedOK'
  <2>1. \A u \in Tasks : heap'[u] > 0 =>
          status'[u] \in {"WAITING", "FAILED"} \/ (u \in Independent /\ status'[u] \in {"PENDING", "READY"})
    BY <1>7 DEF QInv, QueuedOK
  <2>2. \A u \in Independent : status'[u] \notin {"WAITING", "FAILED"}
    BY <1>2, <1>7 DEF QInv, QueuedOK, Independent
  <2>3. \A v \in Workers : pc'[v] \in {"waiting", "woken"} /\ hand'[v] \in Tasks
          => status'[hand'[v]] \in {"WAITING", "FAILED"}
    BY <1>5, <1>6, <1>7 DEF QInv, QueuedOK
  <2> QED BY <2>1, <2>2, <2>3 DEF QueuedOK, Independent
<1>9. QInv' BY <1>3, <1>8 DEF QInv, PriorityOK, Independent
<1>10. Holds(t) BY <1>2, <1>3, <1>7 DEF Holds, Accomplished
<1>11. \A v \in Workers : pc'[v] = "exec" => pc[v] = "exec" /\ hand'[v] = hand[v] BY <1>5, <1>6
<1>12. About(t) BY <1>1, <1>3, <1>7, <1>10, <1>11 DEF About, HistoryIsOver, Accomplished
<1> QED BY <1>9, <1>12

LEMMA TakeAbout ==
  ASSUME IInv, TypeOK', QInv, DInv, NEW w \in Workers, Take(w)
  PROVE  QInv' /\ \E t \in Tasks : About(t)
<1>1. TypeOK /\ OnePlace /\ HistoryIsOver /\ PriorityOK BY DEF IInv, Core, LivesOK, DInv, QInv
<1>2. PICK t \in Tasks :
        /\ heap[t] > 0 /\ Runnable(t)
        /\ status' = [status EXCEPT ![t] = "RUNNING"]
        /\ attempt' = [attempt EXCEPT ![t] = @ + 1]
        /\ heap' = [heap EXCEPT ![t] = @ - 1] /\ hand' = [hand EXCEPT ![w] = t]
  BY DEF Take, IsHead, Pop
<1>3. UNCHANGED <<priority, tasks, accomplished_task>> /\ pc' = [pc EXCEPT ![w] = "exec"]
  BY DEF Take
<1>4. heap[t] = 1 /\ Holders(t) = {} BY <1>1, <1>2 DEF OnePlace, TypeOK
<1>5. \A v \in Workers \ {w} : pc'[v] = pc[v] /\ hand'[v] = hand[v] /\ hand[v] # t
  BY <1>1, <1>2, <1>3, <1>4 DEF TypeOK, Holders
<1>6. pc'[w] = "exec" /\ hand'[w] = t BY <1>1, <1>2, <1>3 DEF TypeOK
<1>7. /\ status'[t] = "RUNNING" /\ \A u \in Tasks \ {t} : status'[u] = status[u]
      /\ attempt'[t] = attempt[t] + 1 /\ \A u \in Tasks \ {t} : attempt'[u] = attempt[u]
      /\ heap'[t] = 0 /\ \A u \in Tasks \ {t} : heap'[u] = heap[u]
  BY <1>1, <1>2, <1>4 DEF TypeOK
<1>8. QInv'
  <2>1. t \notin Independent => priority'[t] > 0 BY <1>1, <1>3 DEF PriorityOK
  <2>2. \A v \in Workers : pc'[v] \in {"waiting", "woken"}
          => pc[v] \in {"waiting", "woken"} /\ hand'[v] = hand[v] /\ hand[v] # t
    BY <1>5, <1>6
  <2> QED BY <1>1, <1>3, <1>7, <2>1, <2>2, QueuedTouch
<1>9. \A d \in Dependents[t] : status[d] = "DONE" \/ ~Remembered(d)
  <2>1. CASE status[t] = "WAITING" BY <1>2, <2>1 DEF Runnable, Visible, Remembered
  <2>2. CASE status[t] # "WAITING"
    <3>1. t \in Independent BY <1>2, <2>2 DEF Runnable, QInv, QueuedOK
    <3> QED BY <3>1 DEF Independent
  <2> QED BY <2>1, <2>2
<1>10. Takes(t) BY <1>2, <1>3, <1>7, <1>9 DEF Takes, Runnable, Accomplished
<1>11. \A v \in Workers : pc'[v] = "exec" => (pc[v] = "exec" /\ hand'[v] = hand[v]) \/ hand'[v] = t
  BY <1>5, <1>6
<1>12. About(t) BY <1>1, <1>3, <1>7, <1>10, <1>11 DEF About, HistoryIsOver, Accomplished
<1> QED BY <1>8, <1>12

\* A task that ends in w's hands.
LEMMA EndAbout ==
  ASSUME IInv, TypeOK', QInv, DInv, NEW w \in Workers, NEW t \in Tasks,
         NEW end \in {"DONE", "EXCEPTION", "TIMEOUT", "CANCELED"},
         NEW next \in {"start", "dead"},
         pc[w] = "exec", hand[w] = t, Final(w, t, end), TaskDone(w, t, 1, next)
  PROVE  QInv' /\ About(t)
<1>1. TypeOK /\ WaitersOK /\ HandOK /\ OnePlace /\ PriorityOK BY DEF IInv, Core, LivesOK, QInv
<1>2. /\ hand'[w] = NoTask /\ pc'[w] = next
      /\ \A v \in Workers \ {w} :
           /\ hand'[v] = hand[v]
           /\ pc'[v] = pc[v] \/ (pc[v] = "waiting" /\ pc'[v] = "woken")
  BY <1>1, TaskDoneFacts
<1>3. \A v \in Workers \ {w} : hand[v] # t
  <2> SUFFICES ASSUME NEW v \in Workers \ {w}, hand[v] = t PROVE FALSE
    OBVIOUS
  <2>1. v \in Holders(t) /\ w \in Holders(t) BY DEF Holders
  <2> QED BY <1>1, <2>1 DEF OnePlace
<1>4. /\ status' = [status EXCEPT ![t] = end] /\ UNCHANGED <<attempt, priority, heap>>
      /\ tasks' = tasks \ {t} /\ accomplished_task' = Filed(t)
  BY DEF Final
<1>5. status[t] = "RUNNING" /\ heap[t] = 0
  <2>1. w \in Holders(t) BY DEF Holders
  <2>2. heap[t] # 1 /\ heap[t] <= 1 BY <1>1, <2>1 DEF OnePlace
  <2>3. heap[t] \in Nat BY <1>1 DEF TypeOK
  <2> QED BY <1>1, <2>2, <2>3 DEF HandOK
<1>6. status'[t] = end /\ \A u \in Tasks \ {t} : status'[u] = status[u] BY <1>1, <1>4 DEF TypeOK
<1>7. \A v \in Workers : pc'[v] \in {"waiting", "woken"}
        => pc[v] \in {"waiting", "woken"} /\ hand'[v] = hand[v] /\ hand[v] # t
  BY <1>2, <1>3
<1>8. QInv'
  <2>1. t \notin Independent => priority'[t] > 0 BY <1>1, <1>4 DEF PriorityOK
  <2> QED BY <1>1, <1>4, <1>5, <1>6, <1>7, <2>1, QueuedTouch
<1>9. Len(accomplished_task') <= HistoryLimit /\ Accomplished' \subseteq Accomplished \cup {t}
  BY <1>1, <1>4, FiledFacts
<1>10. Ends(t) BY <1>4, <1>5, <1>6 DEF Ends
<1>11. \A v \in Workers : pc'[v] = "exec" => pc[v] = "exec" /\ hand'[v] = hand[v] BY <1>2
<1>12. About(t) BY <1>4, <1>6, <1>9, <1>10, <1>11 DEF About
<1> QED BY <1>8, <1>12

\* The two ways a retried task goes back.
Refiled(t, top) ==
  /\ status' = [[status EXCEPT ![t] = "READY"] EXCEPT ![t] = "WAITING"]
  /\ priority' = [priority EXCEPT ![t] = top + 1]
  /\ accomplished_task' = Filed(t)
  /\ tasks' = (tasks \cup {t}) \ {t}

Requeued(t) ==
  /\ status' = [status EXCEPT ![t] = "READY"]
  /\ tasks' = tasks \cup {t}
  /\ UNCHANGED <<priority, accomplished_task>>

LEMMA RetryAbout ==
  ASSUME IInv, TypeOK', QInv, DInv, NEW w \in Workers, Retry(w) \/ RetryLost(w)
  PROVE  QInv' /\ \E t \in Tasks : About(t)
<1>1. TypeOK /\ WaitersOK /\ HandOK /\ OnePlace /\ PriorityOK /\ HistoryIsOver
  BY DEF IInv, Core, LivesOK, QInv, DInv
<1>2. PICK t \in Tasks, n \in {1, 2}, next \in {"start", "dead"} :
        /\ pc[w] = "exec" /\ hand[w] = t /\ TaskDone(w, t, n, next)
        /\ attempt' = attempt /\ tasks \ {t} \subseteq tasks' /\ tasks' \subseteq tasks \cup {t}
        /\ \A u \in Tasks \ {t} : status'[u] = status[u] /\ priority'[u] = priority[u] /\ heap'[u] = heap[u]
        /\ accomplished_task' \in {accomplished_task, Filed(t)}
        /\ \/ /\ status'[t] = "WAITING" /\ t \notin Independent /\ priority'[t] > 0
           \/ /\ status'[t] = "READY" /\ t \in Independent /\ t \in tasks'
              /\ accomplished_task' = accomplished_task
           \/ /\ status'[t] = "READY" /\ t \notin Independent
              /\ heap'[t] = heap[t] /\ priority'[t] = priority[t]
  <2>1. CASE Retry(w)
    <3>1. PICK t \in Tasks :
            /\ pc[w] = "exec" /\ hand[w] = t /\ TaskDone(w, t, 2, "start")
            /\ attempt' = attempt /\ heap' = [heap EXCEPT ![t] = @ + 1]
            /\ \E top \in MaxPriority(t, [status EXCEPT ![t] = "READY"], tasks \cup {t}) :
                 \/ top > 0 /\ Refiled(t, top)
                 \/ top = 0 /\ Requeued(t)
      BY <2>1 DEF Retry, Executing, Push, Refiled, Requeued
    <3> DEFINE s == [status EXCEPT ![t] = "READY"]
    <3> DEFINE ts == tasks \cup {t}
    <3>2. PICK top \in MaxPriority(t, s, ts) : (top > 0 /\ Refiled(t, top)) \/ (top = 0 /\ Requeued(t))
      BY <3>1
    <3>3. s[t] = "READY" /\ s[t] \in Unfinished BY <1>1 DEF TypeOK, Unfinished
    <3> HIDE DEF s, ts
    <3>4. t \in Independent => top = 0 BY <3>2, NoChain
    <3>5. top \in Nat /\ (t \notin Independent => top > 0)
      BY <1>1, <3>2, <3>3, ChainPriority, MaxPriorityType DEF Independent
    <3>6. \A u \in Tasks \ {t} : heap'[u] = heap[u] BY <1>1, <3>1 DEF TypeOK
    <3>7. CASE t \in Independent
      <4>1. Requeued(t) BY <3>2, <3>4, <3>7
      <4>2. status'[t] = "READY" /\ \A u \in Tasks \ {t} : status'[u] = status[u]
        BY <1>1, <3>5, <4>1 DEF TypeOK, Refiled, Requeued
      <4> QED BY <3>1, <3>6, <3>7, <4>1, <4>2 DEF Requeued
    <3>8. CASE t \notin Independent
      <4>1. Refiled(t, top) BY <3>2, <3>5, <3>8
      <4>2. status'[t] = "WAITING" /\ \A u \in Tasks \ {t} : status'[u] = status[u]
        BY <1>1, <3>5, <4>1 DEF TypeOK, Refiled, Requeued
      <4>3. priority'[t] > 0 /\ \A u \in Tasks \ {t} : priority'[u] = priority[u]
        BY <1>1, <3>5, <4>1 DEF TypeOK, Refiled, Requeued
      <4> QED BY <3>1, <3>6, <3>8, <4>1, <4>2, <4>3 DEF Refiled
    <3> QED BY <3>7, <3>8
  <2>2. CASE RetryLost(w)
    <3>1. PICK t \in Tasks :
            /\ pc[w] = "exec" /\ hand[w] = t /\ TaskDone(w, t, 1, "dead")
            /\ UNCHANGED <<attempt, heap, priority, accomplished_task>>
            /\ Unknown(t, [status EXCEPT ![t] = "READY"], tasks \cup {t})
            /\ status' = [status EXCEPT ![t] = "READY"] /\ tasks' = tasks \cup {t}
      BY <2>2 DEF RetryLost, Executing
    <3>2. t \notin Independent BY <3>1, NoChain
    <3>3. status'[t] = "READY" /\ \A u \in Tasks \ {t} : status'[u] = status[u]
      BY <1>1, <3>1 DEF TypeOK
    <3> QED BY <3>1, <3>2, <3>3
  <2> QED BY <2>1, <2>2
<1>3. /\ hand'[w] = NoTask /\ pc'[w] = next
      /\ \A v \in Workers \ {w} :
           /\ hand'[v] = hand[v]
           /\ pc'[v] = pc[v] \/ (pc[v] = "waiting" /\ pc'[v] = "woken")
  BY <1>1, <1>2, TaskDoneFacts
<1>4. status[t] = "RUNNING" /\ heap[t] = 0 /\ \A v \in Holders(t) : v = w
  <2>1. w \in Holders(t) BY <1>2 DEF Holders
  <2>2. heap[t] # 1 /\ heap[t] <= 1 /\ \A v \in Holders(t) : v = w BY <1>1, <2>1 DEF OnePlace
  <2>3. heap[t] \in Nat BY <1>1 DEF TypeOK
  <2> QED BY <1>1, <1>2, <2>2, <2>3 DEF HandOK
<1>5. \A v \in Workers : pc'[v] \in {"waiting", "woken"}
        => pc[v] \in {"waiting", "woken"} /\ hand'[v] = hand[v] /\ hand[v] # t
  BY <1>3, <1>4 DEF Holders
<1>6. t \notin Independent => priority'[t] > 0 BY <1>1, <1>2 DEF PriorityOK
<1>7. QInv' BY <1>1, <1>2, <1>4, <1>5, <1>6, QueuedTouch
<1>8. Len(accomplished_task') <= HistoryLimit /\ Accomplished' \subseteq Accomplished \cup {t}
  <2>1. CASE accomplished_task' = accomplished_task BY <1>1, <2>1 DEF HistoryIsOver, Accomplished
  <2>2. CASE accomplished_task' = Filed(t) BY <1>1, <2>2, FiledFacts
  <2> QED BY <1>2, <2>1, <2>2
<1>9. Retries(t) BY <1>2, <1>4 DEF Retries, Accomplished
<1>10. \A v \in Workers : pc'[v] = "exec" => pc[v] = "exec" /\ hand'[v] = hand[v] BY <1>3
<1>11. About(t) BY <1>2, <1>8, <1>9, <1>10 DEF About
<1> QED BY <1>7, <1>11

\* A woken worker puts back a task that waits or has failed.
LEMMA ResumedQuiet ==
  ASSUME IInv, TypeOK', QInv, DInv, NEW w \in Workers, Resumed(w)
  PROVE  QInv' /\ Quiet
<1>1. TypeOK BY DEF IInv, Core, LivesOK
<1>2. /\ pc[w] = "woken" /\ hand' = [hand EXCEPT ![w] = NoTask] /\ pc' = [pc EXCEPT ![w] = "get"]
      /\ UNCHANGED <<status, attempt, priority, tasks, accomplished_task>>
      /\ heap' = IF hand[w] = NoTask THEN heap ELSE [heap EXCEPT ![hand[w]] = @ + 1]
  BY DEF Resumed, taskVars, Push
<1>3. /\ hand'[w] = NoTask /\ pc'[w] = "get"
      /\ \A v \in Workers \ {w} : hand'[v] = hand[v] /\ pc'[v] = pc[v]
  BY <1>1, <1>2 DEF TypeOK
<1>4. \A u \in Tasks : heap'[u] > 0 => heap[u] > 0 \/ u = hand[w]
  BY <1>1, <1>2 DEF TypeOK
<1>5. hand[w] \in Tasks => status[hand[w]] \in {"WAITING", "FAILED"}
  BY <1>2 DEF QInv, QueuedOK
<1>6. QInv' BY <1>2, <1>3, <1>4, <1>5 DEF QInv, QueuedOK, PriorityOK, Independent
<1>7. Quiet BY <1>2, <1>3 DEF Quiet
<1> QED BY <1>6, <1>7

\* Every other step.
LEMMA OtherQuiet ==
  ASSUME IInv, TypeOK', QInv, DInv,
         \/ \E w \in Workers : Top(w) \/ GetEmpty(w) \/ CancelIdle(w)
         \/ pause \/ resume \/ shutdown \/ UNCHANGED vars
  PROVE  QInv' /\ Quiet
<1>1. TypeOK /\ HandOK /\ NoTask \notin Tasks BY TaskAssumption DEF IInv, Core, LivesOK
<1>2. UNCHANGED <<status, attempt, priority, heap, tasks, accomplished_task>>
  BY DEF Top, GetEmpty, CancelIdle, pause, resume, shutdown, vars, taskVars, queueVars
<1>3. \A v \in Workers :
        \/ pc'[v] = pc[v] /\ hand'[v] = hand[v]
        \/ pc'[v] \notin {"exec", "waiting", "woken"}
        \/ hand'[v] = NoTask /\ pc'[v] # "exec"
  <2>1. ASSUME NEW w \in Workers, Top(w) PROVE <1>3
    BY <1>1, <2>1 DEF Top, TypeOK
  <2>2. ASSUME NEW w \in Workers, GetEmpty(w) PROVE <1>3
    BY <1>1, <2>2 DEF GetEmpty, TypeOK, HandOK
  <2>3. ASSUME NEW w \in Workers, CancelIdle(w) PROVE <1>3
    BY <1>1, <2>3 DEF CancelIdle, TypeOK
  <2>4. CASE pause \/ resume \/ shutdown \/ UNCHANGED vars
    BY <1>1, <2>4 DEF pause, resume, shutdown, vars, workerVars
  <2> QED BY <2>1, <2>2, <2>3, <2>4
<1>4. Quiet BY <1>2, <1>3 DEF Quiet
<1>5. \A v \in Workers : pc'[v] \in {"waiting", "woken"} /\ hand'[v] \in Tasks
        => pc[v] \in {"waiting", "woken"} /\ hand'[v] = hand[v]
  BY <1>1, <1>3
<1>6. QInv' BY <1>1, <1>2, <1>5, QueuedQuiet
<1> QED BY <1>4, <1>6

LEMMA DependStep == IInv /\ IInv' /\ QInv /\ DInv /\ [Next]_vars => QInv' /\ DInv'
<1> SUFFICES ASSUME IInv, IInv', QInv, DInv, [Next]_vars PROVE QInv' /\ DInv'
  OBVIOUS
<1>1. TypeOK /\ TypeOK' BY DEF IInv, Core, LivesOK
<1>2. ASSUME NEW t \in Tasks, About(t) PROVE DInv' BY <1>1, <1>2, AboutKeepsDInv
<1>3. Quiet => DInv' BY <1>1, QuietKeepsDInv
<1>4. ASSUME NEW t \in Tasks, add_task(t) \/ add_task_refused(t) PROVE QInv' /\ DInv'
  BY <1>1, <1>2, <1>4, AddAbout, RefusedAbout
<1>5. ASSUME NEW w \in Workers, WorkerStep(w) PROVE QInv' /\ DInv'
  <2>1. CASE Top(w) \/ GetEmpty(w) \/ CancelIdle(w) BY <1>1, <1>3, <2>1, OtherQuiet
  <2>2. CASE Resumed(w) BY <1>1, <1>3, <2>2, ResumedQuiet
  <2>3. CASE GetFinished(w) BY <1>1, <1>2, <2>3, FinishedAbout
  <2>4. CASE GetHeld(w) BY <1>1, <1>2, <2>4, HeldAbout
  <2>5. CASE Take(w) BY <1>1, <1>2, <2>5, TakeAbout
  <2>6. CASE Succeed(w) \/ GiveUp(w) \/ CancelExecuting(w)
    <3>1. PICK t \in Tasks, end \in {"DONE", "EXCEPTION", "TIMEOUT", "CANCELED"},
               next \in {"start", "dead"} :
            pc[w] = "exec" /\ hand[w] = t /\ Final(w, t, end) /\ TaskDone(w, t, 1, next)
      BY <2>6 DEF Succeed, GiveUp, CancelExecuting, Executing
    <3> QED BY <1>1, <1>2, <3>1, EndAbout
  <2>7. CASE Retry(w) \/ RetryLost(w) BY <1>1, <1>2, <2>7, RetryAbout
  <2> QED BY <1>5, <2>1, <2>2, <2>3, <2>4, <2>5, <2>6, <2>7 DEF WorkerStep
<1>6. CASE pause \/ resume \/ shutdown \/ UNCHANGED vars BY <1>1, <1>3, <1>6, OtherQuiet
<1> QED BY <1>4, <1>5, <1>6 DEF Next

LEMMA DependInit == Init => QInv /\ DInv
<1> SUFFICES ASSUME Init PROVE QInv /\ DInv
  OBVIOUS
<1>1. \A t \in Tasks : status[t] = "NEW" /\ heap[t] = 0 BY DEF Init
<1>2. \A w \in Workers : pc[w] = "start" BY DEF Init
<1>3. accomplished_task = <<>> /\ Accomplished = {} BY DEF Init, Accomplished
<1>4. PriorityOK BY PinnedAssumption DEF Init, PriorityOK, Independent
<1>5. QueuedOK BY <1>1, <1>2 DEF QueuedOK, Independent
<1>6. AddedOK /\ PresentOK BY <1>1 DEF AddedOK, PresentOK, Unfinished
<1>7. HistoryIsOver BY <1>3, TaskAssumption DEF HistoryIsOver
<1>8. StartedOK BY <1>2 DEF StartedOK
<1> QED BY <1>4, <1>5, <1>6, <1>7, <1>8 DEF QInv, DInv

(* In every behaviour the history is bounded and holds ended tasks only,   *)
(* and a task starts and keeps running only over dependencies that are     *)
(* DONE, forgotten or overtaken: however the tasks depend on one another.  *)
THEOREM DependenciesDoneCorrect == Spec => []DependenciesDone
<1>1. Init => QInv /\ DInv BY DependInit
<1>2. (IInv /\ ClosedOK) /\ (IInv /\ ClosedOK)' /\ (QInv /\ DInv) /\ [Next]_vars => (QInv /\ DInv)'
  BY DependStep
<1>3. QInv /\ DInv => DependenciesDone
  BY DEF DInv, StartedOK, Remembered, DependenciesDone
<1> QED BY <1>1, <1>2, <1>3, Invariant, PTL DEF Spec

-----------------------------------------------------------------------------
(* Refinement: what happens to one task is a step of its life *)

\* The moves of a task's status and attempts that TaskLifecycle knows.
Moves(t) ==
  \/ /\ status[t] = "NEW" /\ status'[t] \in {"PENDING", "WAITING"}
     /\ attempt'[t] = attempt[t]
  \/ /\ status[t] \in {"PENDING", "WAITING", "READY"} /\ status'[t] = "RUNNING"
     /\ attempt[t] < RetryLimit /\ attempt'[t] = attempt[t] + 1
  \/ /\ status[t] = "RUNNING" /\ status'[t] \in {"READY", "WAITING"}
     /\ attempt[t] < RetryLimit /\ attempt'[t] = attempt[t]
  \/ /\ status[t] \in {"WAITING", "RUNNING"} /\ status'[t] \in ts_done
     /\ attempt'[t] = attempt[t]

LEMMA OneTaskMoves ==
  ASSUME TypeOK, TypeOK', NEW t \in Tasks, Moves(t),
         \A u \in Tasks \ {t} : status'[u] = status[u] /\ attempt'[u] = attempt[u]
  PROVE  Life!Next
<1> DEFINE phase == [u \in Tasks |-> Phase(u)]
<1>1. attempt \in [Tasks -> Nat] /\ attempt' \in [Tasks -> Nat] BY DEF TypeOK
<1>2. \A u \in Tasks \ {t} : phase'[u] = phase[u] BY DEF Phase
<1>3. ASSUME NEW p, phase'[t] = p PROVE phase' = [phase EXCEPT ![t] = p]
  BY <1>2, <1>3
<1>4. CASE status[t] = "NEW" /\ status'[t] \in {"PENDING", "WAITING"} /\ attempt'[t] = attempt[t]
  <2>1. phase[t] = "new" /\ phase'[t] = "queued" BY <1>4 DEF Phase
  <2>2. phase' = [phase EXCEPT ![t] = "queued"] BY <1>3, <2>1
  <2>3. attempt' = attempt BY <1>1, <1>4
  <2> QED BY <2>1, <2>2, <2>3 DEF Life!Next, Life!Submit
<1>5. CASE /\ status[t] \in {"PENDING", "WAITING", "READY"} /\ status'[t] = "RUNNING"
           /\ attempt[t] < RetryLimit /\ attempt'[t] = attempt[t] + 1
  <2>1. phase[t] = "queued" /\ phase'[t] = "running" BY <1>5 DEF Phase
  <2>2. phase' = [phase EXCEPT ![t] = "running"] BY <1>3, <2>1
  <2>3. attempt' = [attempt EXCEPT ![t] = @ + 1] BY <1>1, <1>5
  <2> QED BY <1>5, <2>1, <2>2, <2>3 DEF Life!Next, Life!Start
<1>6. CASE /\ status[t] = "RUNNING" /\ status'[t] \in {"READY", "WAITING"}
           /\ attempt[t] < RetryLimit /\ attempt'[t] = attempt[t]
  <2>1. phase[t] = "running" /\ phase'[t] = "queued" BY <1>6 DEF Phase
  <2>2. phase' = [phase EXCEPT ![t] = "queued"] BY <1>3, <2>1
  <2>3. attempt' = attempt BY <1>1, <1>6
  <2> QED BY <1>6, <2>1, <2>2, <2>3 DEF Life!Next, Life!Again
<1>7. CASE /\ status[t] \in {"WAITING", "RUNNING"} /\ status'[t] \in ts_done
           /\ attempt'[t] = attempt[t]
  <2>1. phase[t] \in {"queued", "running"} /\ phase'[t] = "ended" BY <1>7 DEF Phase, ts_done
  <2>2. phase' = [phase EXCEPT ![t] = "ended"] BY <1>3, <2>1
  <2>3. attempt' = attempt BY <1>1, <1>7
  <2> QED BY <2>1, <2>2, <2>3 DEF Life!Next, Life!End
<1> QED BY <1>4, <1>5, <1>6, <1>7 DEF Moves

LEMMA NothingMoves ==
  ASSUME UNCHANGED <<status, attempt>>
  PROVE  UNCHANGED <<[t \in Tasks |-> Phase(t)], attempt>>
BY DEF Phase

LEMMA LifeStep ==
  ASSUME IInv, TypeOK', [Next]_vars
  PROVE  [Life!Next]_<<[t \in Tasks |-> Phase(t)], attempt>>
<1> USE TaskAssumption
<1>1. TypeOK /\ HandOK /\ NewOK /\ AttemptsOK BY DEF IInv, Core, LivesOK
<1>2. SUFFICES \/ UNCHANGED <<status, attempt>>
               \/ \E t \in Tasks : /\ Moves(t)
                                  /\ \A u \in Tasks \ {t} : status'[u] = status[u] /\ attempt'[u] = attempt[u]
  BY <1>1, OneTaskMoves, NothingMoves
<1>4. ASSUME NEW t \in Tasks, add_task(t) \/ add_task_refused(t)
      PROVE  Moves(t) /\ \A u \in Tasks \ {t} : status'[u] = status[u] /\ attempt'[u] = attempt[u]
  <2>1. status' \in {[[status EXCEPT ![t] = "PENDING"] EXCEPT ![t] = "WAITING"],
                     [status EXCEPT ![t] = "PENDING"]}
    BY <1>4 DEF add_task, add_task_refused
  <2>2. status[t] = "NEW" /\ attempt' = attempt BY <1>4 DEF add_task, add_task_refused
  <2>3. status \in [Tasks -> TaskStatus \cup {"NEW"}] BY <1>1 DEF TypeOK
  <2>4. status'[t] \in {"PENDING", "WAITING"} /\ \A u \in Tasks \ {t} : status'[u] = status[u]
    <3>1. CASE status' = [[status EXCEPT ![t] = "PENDING"] EXCEPT ![t] = "WAITING"] BY <2>3, <3>1
    <3>2. CASE status' = [status EXCEPT ![t] = "PENDING"] BY <2>3, <3>2
    <3> QED BY <2>1, <3>1, <3>2
  <2> QED BY <2>2, <2>4 DEF Moves
<1>5. ASSUME NEW w \in Workers, WorkerStep(w)
      PROVE  \/ UNCHANGED <<status, attempt>>
             \/ \E t \in Tasks : /\ Moves(t)
                                /\ \A u \in Tasks \ {t} : status'[u] = status[u] /\ attempt'[u] = attempt[u]
  <2>1. CASE Top(w) \/ GetEmpty(w) \/ GetFinished(w) \/ Resumed(w) \/ CancelIdle(w)
    BY <2>1 DEF Top, GetEmpty, GetFinished, Resumed, CancelIdle, taskVars
  <2>2. CASE GetHeld(w)
    <3>1. PICK t \in Tasks : status[t] = "WAITING" /\ status' \in {status, [status EXCEPT ![t] = "FAILED"]}
      BY <2>2 DEF GetHeld
    <3>2. attempt' = attempt BY <2>2 DEF GetHeld
    <3> QED BY <1>1, <3>1, <3>2 DEF Moves, TypeOK, ts_done
  <2>3. CASE Take(w)
    <3>1. PICK t \in Tasks : /\ status[t] \in {"PENDING", "WAITING", "READY"}
                             /\ status' = [status EXCEPT ![t] = "RUNNING"]
                             /\ attempt' = [attempt EXCEPT ![t] = @ + 1]
      BY <2>3 DEF Take, Runnable
    <3>2. attempt[t] < RetryLimit BY <1>1, <3>1 DEF AttemptsOK
    <3> QED BY <1>1, <3>1, <3>2 DEF Moves, TypeOK
  <2>4. ASSUME NEW t \in Tasks, NEW end \in {"DONE", "EXCEPTION", "TIMEOUT", "CANCELED"},
               pc[w] = "exec", hand[w] = t, Final(w, t, end)
        PROVE  Moves(t) /\ \A u \in Tasks \ {t} : status'[u] = status[u] /\ attempt'[u] = attempt[u]
    <3>1. status[t] = "RUNNING" BY <1>1, <2>4 DEF HandOK
    <3>2. status' = [status EXCEPT ![t] = end] /\ attempt' = attempt BY <2>4 DEF Final
    <3> QED BY <1>1, <3>1, <3>2 DEF Moves, TypeOK, ts_done
  <2>5. CASE Succeed(w) \/ GiveUp(w) \/ CancelExecuting(w)
    <3>1. PICK t \in Tasks, end \in {"DONE", "EXCEPTION", "TIMEOUT", "CANCELED"} :
            pc[w] = "exec" /\ hand[w] = t /\ Final(w, t, end)
      BY <2>5 DEF Succeed, GiveUp, CancelExecuting, Executing
    <3> QED BY <2>4, <3>1
  <2>6. CASE Retry(w) \/ RetryLost(w)
    <3>1. PICK t \in Tasks : /\ pc[w] = "exec" /\ hand[w] = t /\ attempt[t] < RetryLimit
                             /\ status' \in {[status EXCEPT ![t] = "READY"],
                                             [[status EXCEPT ![t] = "READY"] EXCEPT ![t] = "WAITING"]}
                             /\ attempt' = attempt
      <4>1. CASE Retry(w) BY <4>1 DEF Retry, Executing, MayRetry
      <4>2. CASE RetryLost(w) BY <4>2 DEF RetryLost, Executing, MayRetry
      <4> QED BY <2>6, <4>1, <4>2
    <3>2. status[t] = "RUNNING" BY <1>1, <3>1 DEF HandOK
    <3> QED BY <1>1, <3>1, <3>2 DEF Moves, TypeOK
  <2> QED BY <1>5, <2>1, <2>2, <2>3, <2>5, <2>6 DEF WorkerStep
<1>6. CASE pause \/ resume \/ shutdown \/ UNCHANGED vars
  BY <1>6 DEF pause, resume, shutdown, vars, taskVars
<1> QED BY <1>4, <1>5, <1>6 DEF Next

(* Every behaviour of the queue and its workers is, task by task, a life   *)
(* TaskLifecycle allows: at most RetryLimit executions, one end, nothing   *)
(* after the end.                                                          *)
THEOREM LifecycleCorrect == Spec => Lifecycle
<1>1. Init => Life!Init
  BY DEF Init, Life!Init, Phase
<1>2. IInv /\ IInv' /\ [Next]_vars => [Life!Next]_<<[t \in Tasks |-> Phase(t)], attempt>>
  BY LifeStep DEF IInv, Core, LivesOK
<1>3. IInv /\ ClosedOK => IInv OBVIOUS
<1> QED BY <1>1, <1>2, <1>3, Invariant, PTL DEF Spec, Lifecycle, Life!Spec

-----------------------------------------------------------------------------
(* Across restarts.  What a step of the machine does to the tasks, from    *)
(* the core of the invariant alone: it touches one task or none.           *)

Files(t) ==
  /\ heap[t] > 0 /\ status[t] \in ts_done /\ status'[t] = status[t]
  /\ attempt'[t] = attempt[t] /\ t \notin tasks'

Starts(t) ==
  /\ status[t] \in {"PENDING", "WAITING", "READY"} /\ status'[t] = "RUNNING"
  /\ attempt'[t] = attempt[t] + 1 /\ (t \in tasks <=> t \in tasks') /\ Accomplished' \subseteq Accomplished

\* Nothing about other tasks than t changes, and a hand that waits holds what it held, or t.
Spares(t) ==
  /\ \A u \in Tasks \ {t} : /\ status'[u] = status[u] /\ attempt'[u] = attempt[u]
                            /\ u \in tasks <=> u \in tasks'
                            /\ heap'[u] > 0 => heap[u] > 0
  /\ Accomplished' \subseteq Accomplished \cup {t}
  /\ status'[t] \in ts_done => heap'[t] = 0
  /\ \A v \in Workers : pc'[v] \in {"waiting", "woken"} /\ hand'[v] \in Tasks =>
       \/ pc[v] \in {"waiting", "woken"} /\ hand'[v] = hand[v] /\ hand[v] # t
       \/ Holds(t) /\ hand'[v] = t

Enters(t) == Spares(t) /\ Submits(t)
Turns(t) == Spares(t) /\ (Files(t) \/ Holds(t) \/ Starts(t) \/ (Ends(t) /\ t \notin tasks') \/ Retries(t))

\* No task changes; a woken worker may put back what it held.
Rests ==
  /\ UNCHANGED <<status, attempt, tasks, accomplished_task>>
  /\ \A u \in Tasks : heap'[u] > 0 =>
       heap[u] > 0 \/ \E w \in Workers : pc[w] = "woken" /\ hand[w] = u
  /\ \A v \in Workers : pc'[v] \in {"waiting", "woken"} /\ hand'[v] \in Tasks =>
       pc[v] \in {"waiting", "woken"} /\ hand'[v] = hand[v]

LEMMA AddEnters ==
  ASSUME Core, TypeOK', NEW t \in Tasks, add_task(t) \/ add_task_refused(t)
  PROVE  Enters(t)
<1>1. TypeOK /\ WaitersOK /\ NewOK BY DEF Core
<1>2. status[t] = "NEW" /\ heap[t] = 0 /\ Holders(t) = {}
  BY <1>1 DEF add_task, add_task_refused, NewOK
<1>3. /\ status'[t] \in {"PENDING", "WAITING"}
      /\ \A u \in Tasks \ {t} : status'[u] = status[u]
  <2>1. status' \in {[[status EXCEPT ![t] = "PENDING"] EXCEPT ![t] = "WAITING"],
                     [status EXCEPT ![t] = "PENDING"]}
    BY DEF add_task, add_task_refused
  <2>2. status \in [Tasks -> TaskStatus \cup {"NEW"}] BY <1>1 DEF TypeOK
  <2>3. CASE status' = [[status EXCEPT ![t] = "PENDING"] EXCEPT ![t] = "WAITING"] BY <2>2, <2>3
  <2>4. CASE status' = [status EXCEPT ![t] = "PENDING"] BY <2>2, <2>4
  <2> QED BY <2>1, <2>3, <2>4
<1>4. /\ UNCHANGED <<attempt, hand, accomplished_task>> /\ tasks' = tasks \cup {t}
      /\ heap' \in {heap, [heap EXCEPT ![t] = @ + 1]}
      /\ Dependents[t] \subseteq Submitted
  BY DEF add_task, add_task_refused, Push
<1>5. \A v \in Workers : /\ pc'[v] \in {"waiting", "woken"} => pc[v] \in {"waiting", "woken"}
                         /\ hand[v] # t
  <2>1. \A v \in Workers : hand[v] # t BY <1>2 DEF Holders
  <2>2. CASE add_task(t) BY <1>1, <2>1, <2>2, WakeFacts DEF add_task
  <2>3. CASE add_task_refused(t) BY <2>1, <2>3 DEF add_task_refused
  <2> QED BY <2>2, <2>3
<1>6. \A u \in Tasks \ {t} : heap'[u] = heap[u] BY <1>1, <1>4 DEF TypeOK
<1>7. Spares(t) BY <1>3, <1>4, <1>5, <1>6 DEF Spares, ts_done, Accomplished
<1>8. Submits(t) BY <1>2, <1>3, <1>4 DEF Submits, Submitted, Accomplished
<1> QED BY <1>7, <1>8 DEF Enters

LEMMA FinishedTurns ==
  ASSUME Core, TypeOK', NEW w \in Workers, GetFinished(w)
  PROVE  \E t \in Tasks : Turns(t)
<1>1. TypeOK /\ OnePlace BY DEF Core
<1>2. PICK t \in Tasks : /\ heap[t] > 0 /\ status[t] \in ts_done /\ accomplished_task' = Filed(t)
                         /\ tasks' = tasks \ {t} /\ heap' = [heap EXCEPT ![t] = @ - 1]
  BY DEF GetFinished, IsHead, Pop
<1>3. UNCHANGED <<status, attempt, pc, hand>> BY DEF GetFinished, taskVars, workerVars
<1>4. heap'[t] = 0 /\ \A u \in Tasks \ {t} : heap'[u] = heap[u] BY <1>1, <1>2 DEF TypeOK, OnePlace
<1>5. Accomplished' \subseteq Accomplished \cup {t} BY <1>1, <1>2, FiledFacts
<1>6. Files(t) BY <1>2, <1>3 DEF Files
<1>7. \A v \in Workers : pc[v] \in {"waiting", "woken"} /\ hand[v] = t => FALSE
  <2> SUFFICES ASSUME NEW v \in Workers, hand[v] = t PROVE FALSE
    OBVIOUS
  <2>1. v \in Holders(t) BY DEF Holders
  <2>2. heap[t] = 1 BY <1>1, <1>2 DEF TypeOK, OnePlace
  <2> QED BY <1>1, <2>1, <2>2 DEF OnePlace
<1>8. Spares(t) BY <1>2, <1>3, <1>4, <1>5, <1>7 DEF Spares
<1> QED BY <1>6, <1>8 DEF Turns

LEMMA HeldTurns ==
  ASSUME Core, TypeOK', NEW w \in Workers, GetHeld(w)
  PROVE  \E t \in Tasks : Turns(t)
<1>1. TypeOK /\ OnePlace BY DEF Core
<1>2. PICK t \in Tasks :
        /\ heap[t] > 0 /\ status[t] = "WAITING" /\ t \notin Independent
        /\ status' \in {status, [status EXCEPT ![t] = "FAILED"]}
        /\ heap' = [heap EXCEPT ![t] = @ - 1] /\ hand' = [hand EXCEPT ![w] = t]
  BY DEF GetHeld, IsHead, Pop, Visible, Independent
<1>3. /\ UNCHANGED <<attempt, tasks, accomplished_task>>
      /\ pc' = [pc EXCEPT ![w] = "waiting"]
  BY DEF GetHeld
<1>4. heap[t] = 1 /\ Holders(t) = {} BY <1>1, <1>2 DEF OnePlace, TypeOK
<1>5. \A v \in Workers \ {w} : pc'[v] = pc[v] /\ hand'[v] = hand[v] /\ hand[v] # t
  BY <1>1, <1>2, <1>3, <1>4 DEF TypeOK, Holders
<1>6. pc'[w] = "waiting" /\ hand'[w] = t BY <1>1, <1>2, <1>3 DEF TypeOK
<1>7. /\ status'[t] \in {"WAITING", "FAILED"} /\ \A u \in Tasks \ {t} : status'[u] = status[u]
      /\ heap'[t] = 0 /\ \A u \in Tasks \ {t} : heap'[u] = heap[u]
  BY <1>1, <1>2, <1>4 DEF TypeOK
<1>8. Holds(t) BY <1>2, <1>3, <1>7 DEF Holds, Accomplished
<1>9. Spares(t) BY <1>3, <1>5, <1>6, <1>7, <1>8 DEF Spares, Accomplished
<1> QED BY <1>8, <1>9 DEF Turns

LEMMA TakeTurns ==
  ASSUME Core, TypeOK', NEW w \in Workers, Take(w)
  PROVE  \E t \in Tasks : Turns(t)
<1>1. TypeOK /\ OnePlace BY DEF Core
<1>2. PICK t \in Tasks :
        /\ heap[t] > 0 /\ status[t] \in {"PENDING", "WAITING", "READY"}
        /\ status' = [status EXCEPT ![t] = "RUNNING"]
        /\ attempt' = [attempt EXCEPT ![t] = @ + 1]
        /\ heap' = [heap EXCEPT ![t] = @ - 1] /\ hand' = [hand EXCEPT ![w] = t]
  BY DEF Take, IsHead, Pop, Runnable
<1>3. UNCHANGED <<tasks, accomplished_task>> /\ pc' = [pc EXCEPT ![w] = "exec"]
  BY DEF Take
<1>4. heap[t] = 1 /\ Holders(t) = {} BY <1>1, <1>2 DEF OnePlace, TypeOK
<1>5. \A v \in Workers \ {w} : pc'[v] = pc[v] /\ hand'[v] = hand[v] /\ hand[v] # t
  BY <1>1, <1>2, <1>3, <1>4 DEF TypeOK, Holders
<1>6. pc'[w] = "exec" BY <1>1, <1>3 DEF TypeOK
<1>7. /\ status'[t] = "RUNNING" /\ \A u \in Tasks \ {t} : status'[u] = status[u]
      /\ attempt'[t] = attempt[t] + 1 /\ \A u \in Tasks \ {t} : attempt'[u] = attempt[u]
      /\ heap'[t] = 0 /\ \A u \in Tasks \ {t} : heap'[u] = heap[u]
  BY <1>1, <1>2, <1>4 DEF TypeOK
<1>8. Starts(t) BY <1>2, <1>3, <1>7 DEF Starts, Accomplished
<1>9. Spares(t) BY <1>3, <1>5, <1>6, <1>7 DEF Spares, Accomplished
<1> QED BY <1>8, <1>9 DEF Turns

LEMMA EndTurns ==
  ASSUME Core, TypeOK', NEW w \in Workers, NEW t \in Tasks,
         NEW end \in {"DONE", "EXCEPTION", "TIMEOUT", "CANCELED"},
         NEW next \in {"start", "dead"},
         pc[w] = "exec", hand[w] = t, Final(w, t, end), TaskDone(w, t, 1, next)
  PROVE  Turns(t)
<1>1. TypeOK /\ WaitersOK /\ HandOK /\ OnePlace BY DEF Core
<1>2. /\ pc'[w] = next
      /\ \A v \in Workers \ {w} :
           /\ hand'[v] = hand[v]
           /\ pc'[v] = pc[v] \/ (pc[v] = "waiting" /\ pc'[v] = "woken")
  BY <1>1, TaskDoneFacts
<1>3. heap[t] = 0 /\ \A v \in Workers \ {w} : hand[v] # t
  <2>1. w \in Holders(t) BY DEF Holders
  <2>2. heap[t] # 1 /\ heap[t] <= 1 /\ \A v \in Holders(t) : v = w BY <1>1, <2>1 DEF OnePlace
  <2>3. heap[t] \in Nat BY <1>1 DEF TypeOK
  <2> QED BY <2>2, <2>3 DEF Holders
<1>4. /\ status' = [status EXCEPT ![t] = end] /\ UNCHANGED <<attempt, heap>>
      /\ tasks' = tasks \ {t} /\ accomplished_task' = Filed(t)
  BY DEF Final
<1>5. status[t] = "RUNNING" BY <1>1 DEF HandOK
<1>6. status'[t] = end /\ \A u \in Tasks \ {t} : status'[u] = status[u] BY <1>1, <1>4 DEF TypeOK
<1>7. \A v \in Workers : pc'[v] \in {"waiting", "woken"}
        => pc[v] \in {"waiting", "woken"} /\ hand'[v] = hand[v] /\ hand[v] # t
  BY <1>2, <1>3
<1>8. Accomplished' \subseteq Accomplished \cup {t} BY <1>1, <1>4, FiledFacts
<1>9. Ends(t) /\ t \notin tasks' BY <1>4, <1>5, <1>6 DEF Ends
<1>10. Spares(t) BY <1>3, <1>4, <1>6, <1>7, <1>8 DEF Spares
<1> QED BY <1>9, <1>10 DEF Turns

LEMMA RetryTurns ==
  ASSUME Core, TypeOK', NEW w \in Workers, Retry(w) \/ RetryLost(w)
  PROVE  \E t \in Tasks : Turns(t)
<1>1. TypeOK /\ WaitersOK /\ HandOK /\ OnePlace BY DEF Core
<1>2. PICK t \in Tasks, n \in {1, 2}, next \in {"start", "dead"} :
        /\ pc[w] = "exec" /\ hand[w] = t /\ TaskDone(w, t, n, next)
        /\ attempt' = attempt /\ heap' \in {heap, [heap EXCEPT ![t] = @ + 1]}
        /\ tasks \ {t} \subseteq tasks' /\ tasks' \subseteq tasks \cup {t}
        /\ \/ /\ status' = [[status EXCEPT ![t] = "READY"] EXCEPT ![t] = "WAITING"]
              /\ accomplished_task' = Filed(t) /\ t \notin Independent
           \/ /\ status' = [status EXCEPT ![t] = "READY"]
              /\ accomplished_task' = accomplished_task /\ t \in tasks'
  <2>1. CASE Retry(w)
    <3>1. PICK t \in Tasks :
            /\ pc[w] = "exec" /\ hand[w] = t /\ TaskDone(w, t, 2, "start")
            /\ attempt' = attempt /\ heap' = [heap EXCEPT ![t] = @ + 1]
            /\ \E top \in MaxPriority(t, [status EXCEPT ![t] = "READY"], tasks \cup {t}) :
                 \/ top > 0 /\ Refiled(t, top)
                 \/ Requeued(t)
      BY <2>1 DEF Retry, Executing, Push, Refiled, Requeued
    <3>2. CASE Requeued(t) BY <3>1, <3>2 DEF Requeued
    <3>3. ASSUME NEW top \in MaxPriority(t, [status EXCEPT ![t] = "READY"], tasks \cup {t}),
                 top > 0, Refiled(t, top)
          PROVE  t \notin Independent
      BY <3>3, NoChain
    <3>4. CASE ~Requeued(t)
      <4>1. t \notin Independent /\ \E top : Refiled(t, top) BY <3>1, <3>3, <3>4
      <4> QED BY <3>1, <4>1 DEF Refiled
    <3> QED BY <3>2, <3>4
  <2>2. CASE RetryLost(w) BY <2>2 DEF RetryLost, Executing
  <2> QED BY <2>1, <2>2
<1>3. /\ pc'[w] = next
      /\ \A v \in Workers \ {w} :
           /\ hand'[v] = hand[v]
           /\ pc'[v] = pc[v] \/ (pc[v] = "waiting" /\ pc'[v] = "woken")
  BY <1>1, <1>2, TaskDoneFacts
<1>4. \A v \in Workers \ {w} : hand[v] # t
  <2>1. w \in Holders(t) BY <1>2 DEF Holders
  <2>2. \A v \in Holders(t) : v = w BY <1>1, <2>1 DEF OnePlace
  <2> QED BY <2>2 DEF Holders
<1>5. status[t] = "RUNNING" BY <1>1, <1>2 DEF HandOK
<1>6. /\ \A u \in Tasks \ {t} : status'[u] = status[u] /\ heap'[u] = heap[u]
      /\ \/ status'[t] = "WAITING" /\ accomplished_task' = Filed(t) /\ t \notin Independent
         \/ status'[t] = "READY" /\ accomplished_task' = accomplished_task /\ t \in tasks'
  <2>1. \A u \in Tasks \ {t} : heap'[u] = heap[u] BY <1>1, <1>2 DEF TypeOK
  <2>2. \A u \in Tasks \ {t} : status'[u] = status[u] BY <1>1, <1>2 DEF TypeOK
  <2>3. \/ status'[t] = "WAITING" /\ accomplished_task' = Filed(t) /\ t \notin Independent
        \/ status'[t] = "READY" /\ accomplished_task' = accomplished_task /\ t \in tasks'
    BY <1>1, <1>2 DEF TypeOK
  <2> QED BY <2>1, <2>2, <2>3
<1>7. \A v \in Workers : pc'[v] \in {"waiting", "woken"}
        => pc[v] \in {"waiting", "woken"} /\ hand'[v] = hand[v] /\ hand[v] # t
  BY <1>3, <1>4
<1>8. Accomplished' \subseteq Accomplished \cup {t} /\ (t \in Independent => Accomplished' \subseteq Accomplished)
  <2>1. CASE accomplished_task' = accomplished_task BY <2>1 DEF Accomplished
  <2>2. CASE accomplished_task' = Filed(t) /\ t \notin Independent BY <1>1, <2>2, FiledFacts
  <2> QED BY <1>6, <2>1, <2>2
<1>9. Retries(t) BY <1>2, <1>5, <1>6, <1>8 DEF Retries
<1>10. Spares(t) BY <1>2, <1>6, <1>7, <1>8 DEF Spares, ts_done
<1> QED BY <1>9, <1>10 DEF Turns

LEMMA OtherRests ==
  ASSUME Core, TypeOK',
         \/ \E w \in Workers : Top(w) \/ GetEmpty(w) \/ CancelIdle(w) \/ Resumed(w)
         \/ pause \/ resume \/ shutdown \/ UNCHANGED vars
  PROVE  Rests
<1>1. TypeOK /\ HandOK /\ NoTask \notin Tasks BY TaskAssumption DEF Core
<1>2. UNCHANGED <<status, attempt, tasks, accomplished_task>>
  BY DEF Top, GetEmpty, CancelIdle, Resumed, pause, resume, shutdown, vars, taskVars, queueVars
<1>3. \A u \in Tasks : heap'[u] > 0 =>
        heap[u] > 0 \/ \E w \in Workers : pc[w] = "woken" /\ hand[w] = u
  <2>1. CASE heap' = heap BY <2>1
  <2>2. ASSUME NEW w \in Workers, Resumed(w), heap' # heap PROVE <1>3
    <3>1. pc[w] = "woken" /\ hand[w] \in Tasks /\ heap' = [heap EXCEPT ![hand[w]] = @ + 1]
      BY <1>1, <2>2 DEF Resumed, Push, TypeOK
    <3> QED BY <1>1, <3>1 DEF TypeOK
  <2>3. heap' = heap \/ \E w \in Workers : Resumed(w)
    BY DEF Top, GetEmpty, CancelIdle, pause, resume, shutdown, vars, queueVars
  <2> QED BY <2>1, <2>2, <2>3
<1>4. \A v \in Workers : pc'[v] \in {"waiting", "woken"} /\ hand'[v] \in Tasks =>
        pc[v] \in {"waiting", "woken"} /\ hand'[v] = hand[v]
  <2>1. ASSUME NEW w \in Workers, Top(w) PROVE <1>4
    BY <1>1, <2>1 DEF Top, TypeOK
  <2>2. ASSUME NEW w \in Workers, GetEmpty(w) PROVE <1>4
    BY <1>1, <2>2 DEF GetEmpty, TypeOK, HandOK
  <2>3. ASSUME NEW w \in Workers, CancelIdle(w) PROVE <1>4
    BY <1>1, <2>3 DEF CancelIdle, TypeOK
  <2>4. ASSUME NEW w \in Workers, Resumed(w) PROVE <1>4
    BY <1>1, <2>4 DEF Resumed, TypeOK
  <2>5. CASE pause \/ resume \/ shutdown \/ UNCHANGED vars
    BY <1>1, <2>5 DEF pause, resume, shutdown, vars, workerVars
  <2> QED BY <2>1, <2>2, <2>3, <2>4, <2>5
<1> QED BY <1>2, <1>3, <1>4 DEF Rests

LEMMA WorkerTurns ==
  ASSUME Core, TypeOK', NEW w \in Workers, WorkerStep(w)
  PROVE  Rests \/ \E t \in Tasks : Turns(t)
<1>1. CASE Top(w) \/ GetEmpty(w) \/ CancelIdle(w) \/ Resumed(w) BY <1>1, OtherRests
<1>2. CASE GetFinished(w) BY <1>2, FinishedTurns
<1>3. CASE GetHeld(w) BY <1>3, HeldTurns
<1>4. CASE Take(w) BY <1>4, TakeTurns
<1>5. CASE Succeed(w) \/ GiveUp(w) \/ CancelExecuting(w)
  <2>1. PICK t \in Tasks, end \in {"DONE", "EXCEPTION", "TIMEOUT", "CANCELED"},
             next \in {"start", "dead"} :
          pc[w] = "exec" /\ hand[w] = t /\ Final(w, t, end) /\ TaskDone(w, t, 1, next)
    BY <1>5 DEF Succeed, GiveUp, CancelExecuting, Executing
  <2> QED BY <2>1, EndTurns
<1>6. CASE Retry(w) \/ RetryLost(w) BY <1>6, RetryTurns
<1> QED BY <1>1, <1>2, <1>3, <1>4, <1>5, <1>6 DEF WorkerStep

-----------------------------------------------------------------------------
(* The file.  What it or the saving thread says of a task is older than    *)
(* what the task is now, and no task they know is one nobody submitted.    *)

\* The largest of some numbers given to the members of a finite set.
LEMMA LargestExists ==
  ASSUME NEW S, IsFiniteSet(S), S # {}, NEW f, \A x \in S : f[x] \in Nat
  PROVE  \E x \in S : \A y \in S : f[y] <= f[x]
<1> DEFINE Above(x) == {y \in S : f[y] > f[x]}
<1> DEFINE family == {Above(x) : x \in S}
<1>1. family \subseteq SUBSET S /\ family # {} OBVIOUS
<1>2. FiniteSubsetsOf(S) = SUBSET S BY FS_FiniteSubsetsOfFinite
<1>3. IsWellFoundedOn(StrictSubsetOrdering(S), SUBSET S)
  BY <1>2, FS_StrictSubsetOrderingWellFounded
<1>4. PICK least \in family : \A other \in family : <<other, least>> \notin StrictSubsetOrdering(S)
  <2> HIDE DEF family
  <2> QED BY <1>1, <1>3, WFMin
<1>5. PICK x \in S : least = Above(x) BY <1>4
<1>6. ASSUME NEW y \in S, f[y] > f[x] PROVE FALSE
  <2>1. Above(y) \subseteq Above(x) BY <1>6
  <2>2. y \in Above(x) /\ y \notin Above(y) BY <1>6
  <2>3. <<Above(y), Above(x)>> \in StrictSubsetOrdering(S)
    BY <2>1, <2>2 DEF StrictSubsetOrdering
  <2>4. Above(y) \in family OBVIOUS
  <2> QED BY <1>4, <1>5, <2>3, <2>4
<1> QED BY <1>6

Image ==
  [pending : SUBSET Tasks, accomplished : Seq(Tasks), saved : SUBSET Tasks,
   status : [Tasks -> TaskStatus \cup {"NEW"}], attempt : [Tasks -> Nat],
   event : [Tasks -> BOOLEAN], priority : [Tasks -> Nat]]

PersistTypeOK ==
  /\ saver \in [phase : {"idle", "table", "objects"}, known : SUBSET Tasks, image : Image]
  /\ disk \in Image
  /\ agent \in {"booting", "up", "failed"}

TablesOK == \A t \in tasks \cup Accomplished : status[t] # "NEW"

BootOK == agent = "booting" => \A t \in Tasks : status[t] = "NEW"

SaverOK ==
  /\ saver.phase # "objects" => saver.image.saved = {}
  /\ saver.image.saved \subseteq saver.image.pending \cup Filed_in(saver.image)
  /\ \A t \in saver.known \cup saver.image.pending \cup Filed_in(saver.image) : status[t] # "NEW"
  /\ \A t \in saver.image.saved :
       /\ saver.image.status[t] # "NEW"
       /\ saver.image.status[t] = "DONE" => status[t] = "DONE"

DiskOK ==
  /\ disk.saved = disk.pending \cup Filed_in(disk)
  /\ \A t \in disk.saved :
       /\ disk.status[t] # "NEW"
       /\ disk.status[t] = "DONE" => status[t] \in {"DONE", "NEW"}

FileOK == PersistTypeOK /\ TablesOK /\ BootOK /\ SaverOK /\ DiskOK

LEMMA ImageFacts ==
  ASSUME NEW image \in Image
  PROVE  /\ image.pending \subseteq Tasks /\ image.saved \subseteq Tasks
         /\ image.accomplished \in Seq(Tasks)
         /\ Filed_in(image) \subseteq Tasks
         /\ image.status \in [Tasks -> TaskStatus \cup {"NEW"}]
         /\ image.attempt \in [Tasks -> Nat] /\ image.event \in [Tasks -> BOOLEAN]
         /\ image.priority \in [Tasks -> Nat]
<1>1. image.accomplished \in Seq(Tasks) BY DEF Image
<1>2. Filed_in(image) \subseteq Tasks BY <1>1 DEF Filed_in
<1> QED BY <1>1, <1>2 DEF Image

LEMMA NoSnapshotType == NoSnapshot \in Image /\ Filed_in(NoSnapshot) = {}
                        /\ NoSnapshot.pending = {} /\ NoSnapshot.saved = {}
<1>1. <<>> \in Seq(Tasks) OBVIOUS
<1>2. NoSnapshot \in Image BY <1>1 DEF NoSnapshot, Image
<1>3. Filed_in(NoSnapshot) = {} BY DEF NoSnapshot, Filed_in
<1> QED BY <1>2, <1>3 DEF NoSnapshot

LEMMA IdleType == Idle \in [phase : {"idle", "table", "objects"}, known : SUBSET Tasks, image : Image]
                  /\ Idle.known = {} /\ Idle.image = NoSnapshot /\ Idle.phase = "idle"
BY NoSnapshotType DEF Idle

LEMMA AccomplishedType ==
  ASSUME TypeOK
  PROVE  Accomplished \subseteq Tasks
BY DEF TypeOK, Accomplished

\* What a machine step leaves of a task's past.
Ages ==
  \A u \in Tasks :
    /\ status[u] # "NEW" => status'[u] # "NEW"
    /\ status[u] = "DONE" => status'[u] = "DONE"

MachineStep ==
  \/ Rests
  \/ \E t \in Tasks : Turns(t)
  \/ agent = "up" /\ \E t \in Fresh : Enters(t)

LEMMA StepAges ==
  ASSUME TypeOK, MachineStep
  PROVE  Ages
<1>1. CASE Rests BY <1>1 DEF Rests, Ages
<1>2. ASSUME NEW t \in Tasks, Spares(t),
             Submits(t) \/ Files(t) \/ Holds(t) \/ Starts(t) \/ Ends(t) \/ Retries(t)
      PROVE  Ages
  <2>1. \A u \in Tasks \ {t} : status'[u] = status[u] BY <1>2 DEF Spares
  <2>2. /\ status[t] # "NEW" => status'[t] # "NEW"
        /\ status[t] = "DONE" => status'[t] = "DONE"
    BY <1>2 DEF Submits, Files, Holds, Starts, Ends, Retries
  <2> QED BY <2>1, <2>2 DEF Ages
<1> QED BY <1>1, <1>2 DEF MachineStep, Turns, Enters, Fresh

LEMMA StepKeepsFile ==
  ASSUME TypeOK, TypeOK', FileOK, MachineStep, UNCHANGED <<agent, saver, disk>>
  PROVE  FileOK'
<1>1. PersistTypeOK /\ TablesOK /\ BootOK /\ SaverOK /\ DiskOK BY DEF FileOK
<1>2. Ages BY StepAges
<1>3. PersistTypeOK' BY <1>1 DEF PersistTypeOK
<1>4. Accomplished' \subseteq Tasks /\ tasks' \subseteq Tasks
  <2>1. accomplished_task' \in Seq(Tasks) /\ tasks' \subseteq Tasks BY DEF TypeOK
  <2> QED BY <2>1 DEF Accomplished
<1>5. TablesOK'
  <2> SUFFICES ASSUME NEW u \in tasks' \cup Accomplished' PROVE status'[u] # "NEW"
    BY DEF TablesOK
  <2>1. u \in Tasks BY <1>4
  <2>2. CASE u \in tasks \cup Accomplished BY <1>1, <1>2, <2>1, <2>2 DEF TablesOK, Ages
  <2>3. CASE u \notin tasks \cup Accomplished
    <3>1. ~Rests BY <2>3 DEF Rests, Accomplished
    <3>2. ASSUME NEW t \in Tasks, Spares(t),
                 Submits(t) \/ Files(t) \/ Holds(t) \/ Starts(t) \/ Ends(t) \/ Retries(t)
          PROVE  status'[u] # "NEW"
      <4>1. u = t BY <2>1, <2>3, <3>2 DEF Spares
      <4> QED BY <3>2, <4>1 DEF Submits, Files, Holds, Starts, Ends, Retries, ts_done
    <3> QED BY <3>1, <3>2 DEF MachineStep, Turns, Enters, Fresh
  <2> QED BY <2>2, <2>3
<1>6. BootOK'
  <2> SUFFICES ASSUME agent = "booting" PROVE \A t \in Tasks : status'[t] = "NEW"
    BY DEF BootOK
  <2>1. \A t \in Tasks : status[t] = "NEW" BY <1>1 DEF BootOK
  <2>2. \A t \in Tasks : ~Turns(t)
    BY <2>1 DEF Turns, Files, Holds, Starts, Ends, Retries, ts_done
  <2>3. Rests BY <2>2 DEF MachineStep
  <2> QED BY <2>1, <2>3 DEF Rests
<1>7. SaverOK'
  <2>1. saver.image \in Image /\ saver.known \subseteq Tasks BY <1>1 DEF PersistTypeOK
  <2>2. saver.image.pending \subseteq Tasks /\ Filed_in(saver.image) \subseteq Tasks BY <2>1, ImageFacts
  <2> QED BY <1>1, <1>2, <2>1, <2>2 DEF SaverOK, Ages
<1>8. DiskOK'
  <2> SUFFICES ASSUME NEW t \in disk.saved, disk.status[t] = "DONE"
               PROVE  status'[t] \in {"DONE", "NEW"}
    BY <1>1 DEF DiskOK
  <2>1. t \in Tasks /\ status[t] \in {"DONE", "NEW"}
    BY <1>1, ImageFacts DEF DiskOK, PersistTypeOK
  <2>2. CASE status[t] = "DONE" BY <1>2, <2>1, <2>2 DEF Ages
  <2>3. CASE status[t] = "NEW"
    <3>1. CASE Rests BY <2>1, <2>3, <3>1 DEF Rests
    <3>2. ASSUME NEW u \in Tasks, Turns(u) PROVE status'[t] = "NEW"
      <4>1. u # t BY <2>3, <3>2 DEF Turns, Files, Holds, Starts, Ends, Retries, ts_done
      <4> QED BY <2>1, <2>3, <3>2, <4>1 DEF Turns, Spares
    <3>3. ASSUME NEW u \in Fresh, Enters(u) PROVE status'[t] = "NEW"
      BY <2>1, <2>3, <3>3 DEF Enters, Spares, Fresh
    <3> QED BY <3>1, <3>2, <3>3 DEF MachineStep
  <2> QED BY <2>1, <2>2, <2>3
<1> QED BY <1>3, <1>5, <1>6, <1>7, <1>8 DEF FileOK

LEMMA InitNext == Init' => (IInv /\ ClosedOK)'
BY InvInit, PTL

LEMMA UnchangedCore ==
  ASSUME Core, ClosedOK, UNCHANGED vars
  PROVE  Core' /\ ClosedOK'
<1>1. TypeOK BY DEF Core
<1> QED BY <1>1, CoreStep, ClosedStep

LEMMA RankType ==
  ASSUME PersistTypeOK, NEW t \in Tasks
  PROVE  Reranked(t) \in Nat
<1> USE TaskAssumption
<1> DEFINE us == {t} \cup {d \in Dependents[t] : Waits(d)}
<1>1. us \subseteq Tasks /\ us # {} /\ IsFiniteSet(us) BY FS_Subset
<1>2. \A u \in us : disk.priority[u] \in Nat BY <1>1, ImageFacts DEF PersistTypeOK
<1> DEFINE ps == {disk.priority[u] : u \in us}
<1> DEFINE last == CHOOSE p \in ps : \A q \in ps : q <= p
<1>3. Reranked(t) = 1 + last BY DEF Reranked
<1> HIDE DEF us
<1>4. \E u \in us : \A v \in us : disk.priority[v] <= disk.priority[u] BY <1>1, <1>2, LargestExists
<1>5. \E p \in ps : \A q \in ps : q <= p BY <1>4
<1>6. ps \subseteq Nat BY <1>2
<1> HIDE DEF ps
<1>7. last \in ps BY <1>5
<1> HIDE DEF last
<1> QED BY <1>3, <1>6, <1>7

\* What a queue that comes from the file holds.
LEMMA RestoredFacts ==
  ASSUME Core, ClosedOK, FileOK, agent = "booting",
         NEW queued \in SUBSET disk.pending, NEW table \in SUBSET disk.pending,
         queued \subseteq table,
         NEW filed \in Seq(Tasks), \A i \in DOMAIN filed : filed[i] \in Filed_in(disk),
         Restored(queued, table, filed)
  PROVE  /\ \A t \in Tasks :
              \/ t \in queued /\ disk.status[t] \in Unfinished /\ status'[t] = "WAITING"
              \/ t \in table \cup {filed[i] : i \in DOMAIN filed} /\ status'[t] = Loaded(t)
              \/ t \notin table \cup {filed[i] : i \in DOMAIN filed} /\ status'[t] = "NEW"
         /\ Core' /\ ClosedOK' /\ TablesOK'
         /\ \A w \in Workers : hand'[w] = NoTask
<1> USE TaskAssumption
<1>1. /\ TypeOK /\ HandOK /\ WaitersOK /\ NewOK /\ OnePlace
      /\ PersistTypeOK /\ TablesOK /\ BootOK /\ SaverOK /\ DiskOK
  BY DEF Core, FileOK
<1> DEFINE kept == {filed[i] : i \in DOMAIN filed}
<1>2. /\ table \subseteq Tasks /\ queued \subseteq Tasks /\ kept \subseteq disk.saved
      /\ table \subseteq disk.saved /\ queued \subseteq disk.saved /\ disk.saved \subseteq Tasks
      /\ disk.status \in [Tasks -> TaskStatus \cup {"NEW"}]
      /\ disk.attempt \in [Tasks -> Nat] /\ disk.event \in [Tasks -> BOOLEAN]
      /\ disk.priority \in [Tasks -> Nat]
  BY <1>1, ImageFacts DEF PersistTypeOK, DiskOK
<1>3. \A t \in Tasks : heap[t] = 0 /\ Holders(t) = {} BY <1>1 DEF BootOK, NewOK
<1>4. \A w \in Workers : hand[w] = NoTask BY <1>1, <1>3 DEF TypeOK, Holders
<1>5. \A t \in disk.saved : Loaded(t) \in TaskStatus /\ Loaded(t) \notin {"NEW", "RUNNING"}
  BY <1>1, <1>2 DEF Loaded, DiskOK, TaskStatus
<1>6. \A t \in Tasks : status'[t] = CASE t \in queued /\ Waits(t) -> "WAITING"
                                      [] t \in table \/ t \in kept -> Loaded(t)
                                      [] OTHER -> "NEW"
  BY DEF Restored
<1>7. \A t \in Tasks : Waits(t) => disk.status[t] \in Unfinished
  BY DEF Waits, Loaded, Unfinished
<1> HIDE DEF kept
<1>8. \A t \in Tasks :
        \/ t \in queued /\ disk.status[t] \in Unfinished /\ status'[t] = "WAITING"
        \/ t \in table \cup kept /\ status'[t] = Loaded(t)
        \/ t \notin table \cup kept /\ status'[t] = "NEW"
  BY <1>6, <1>7
<1>9. /\ tasks' = table /\ accomplished_task' = filed
      /\ heap' = [t \in Tasks |-> IF t \in queued THEN 1 ELSE 0]
      /\ priority' = [t \in Tasks |-> IF t \in queued /\ Waits(t) THEN Reranked(t) ELSE disk.priority[t]]
      /\ attempt' = disk.attempt /\ event' = disk.event
      /\ waiters' = Notified(Cardinality(queued)) /\ pc' = Wake(Cardinality(queued))
      /\ UNCHANGED <<hand, current_task, task_mapping, pause_event, turn, reports, closed>>
  BY DEF Restored
<1>10. Cardinality(queued) \in Nat
  <2>1. IsFiniteSet(queued) BY <1>2, FS_Subset
  <2> QED BY <2>1, FS_CardinalityType
<1> DEFINE n == Cardinality(queued)
<1>11. /\ \A v \in Workers : pc'[v] = pc[v] \/ (pc[v] = "waiting" /\ pc'[v] = "woken")
       /\ \A i \in 1..Len(waiters') : waiters'[i] \in Workers /\ pc'[waiters'[i]] = "waiting"
       /\ \A i, j \in 1..Len(waiters') : waiters'[i] = waiters'[j] => i = j
       /\ waiters' \in Seq(Workers)
       /\ pc' \in [Workers -> {"start", "paused", "get", "waiting", "woken", "exec", "dead"}]
  <2>1. n \in Nat /\ waiters' = Notified(n) /\ pc' = Wake(n) BY <1>9, <1>10
  <2> HIDE DEF n
  <2>2. Notified(n) \in Seq(Workers)
        /\ Wake(n) \in [Workers -> {"start", "paused", "get", "waiting", "woken", "exec", "dead"}]
    BY <1>1, <2>1, NotifyFacts
  <2> QED BY <1>1, <2>1, <2>2, WakeFacts
<1>12. TypeOK'
  <2>1. status' \in [Tasks -> TaskStatus \cup {"NEW"}]
    <3>1. \A t \in Tasks : status'[t] \in TaskStatus \cup {"NEW"}
      BY <1>2, <1>5, <1>8 DEF TaskStatus
    <3>2. status' = [t \in Tasks |-> status'[t]] BY DEF Restored
    <3> QED BY <3>1, <3>2
  <2>2. priority' \in [Tasks -> Nat] BY <1>1, <1>2, <1>9, RankType
  <2>3. heap' \in [Tasks -> Nat] BY <1>9
  <2> QED BY <1>1, <1>2, <1>9, <1>11, <2>1, <2>2, <2>3 DEF TypeOK
<1>13. \A t \in Tasks : Holders(t)' = {} BY <1>4, <1>9 DEF Holders
<1>14. HandOK'
  <2> SUFFICES ASSUME NEW v \in Workers
               PROVE  /\ pc'[v] \in {"start", "paused", "get", "dead"} => hand'[v] = NoTask
                      /\ pc'[v] = "exec" => hand'[v] \in Tasks /\ status'[hand'[v]] = "RUNNING"
                      /\ pc'[v] \in {"waiting", "woken"} => hand'[v] \notin Independent
    BY DEF HandOK, Independent
  <2>1. hand'[v] = NoTask /\ NoTask \notin Independent BY <1>4, <1>9 DEF Independent
  <2>2. pc'[v] # "exec" BY <1>1, <1>4, <1>11 DEF HandOK
  <2> QED BY <2>1, <2>2
<1>15. WaitersOK' BY <1>11 DEF WaitersOK
<1>16. NewOK'
  <2>1. \A t \in Tasks : status'[t] = "NEW" => t \notin queued BY <1>2, <1>5, <1>8
  <2>2. \A t \in Tasks : status'[t] = "NEW" => heap'[t] = 0 BY <1>9, <2>1
  <2> QED BY <1>13, <2>2 DEF NewOK
<1>17. OnePlace' BY <1>9, <1>13 DEF OnePlace
<1>18. ClosedOK'
  <2> SUFFICES ASSUME closed PROVE waiters' = <<>>
    BY <1>9 DEF ClosedOK
  <2>1. waiters = <<>> BY DEF ClosedOK
  <2>2. Reached(n) = 0 BY <1>10, <2>1 DEF Reached
  <2> QED BY <1>9, <2>1, <2>2 DEF Notified, Drop
<1>19. TablesOK'
  <2>1. Accomplished' = kept BY <1>9 DEF Accomplished, kept
  <2> QED BY <1>2, <1>5, <1>8, <1>9, <2>1 DEF TablesOK
<1> QED BY <1>4, <1>8, <1>9, <1>12, <1>14, <1>15, <1>16, <1>17, <1>18, <1>19 DEF Core, kept

\* Both ways to load restore tasks of the file.
LEMMA LoadFacts ==
  ASSUME FileOK, Load \/ LoadRefused
  PROVE  /\ agent = "booting" /\ agent' \in {"up", "failed"} /\ UNCHANGED <<saver, disk>>
         /\ \E queued \in SUBSET disk.pending, table \in SUBSET disk.pending, filed \in Seq(Tasks) :
              /\ queued \subseteq table
              /\ \A i \in DOMAIN filed : filed[i] \in Filed_in(disk)
              /\ Restored(queued, table, filed)
<1>1. Filed_in(disk) \subseteq Tasks BY ImageFacts DEF FileOK, PersistTypeOK
<1>2. CASE Load
  <2>0. PICK gone \in {{}, Retired} :
          \E filed \in Histories(gone) : Restored(Pending(gone), Pending(gone), filed)
    BY <1>2 DEF Load
  <2>1. PICK filed \in Histories(gone) : Restored(Pending(gone), Pending(gone), filed)
    BY <2>0
  <2>2. PICK k \in 0..Len(disk.accomplished) : filed \in [1..k -> Filed_in(disk) \ gone]
    BY DEF Histories
  <2>3. k \in Nat
    <3>1. disk.accomplished \in Seq(Tasks) BY ImageFacts DEF FileOK, PersistTypeOK
    <3> QED BY <3>1
  <2>4. filed \in Seq(Tasks)
    <3>1. filed \in [1..k -> Tasks] BY <1>1, <2>2
    <3> QED BY <2>3, <3>1
  <2>5. Pending(gone) \in SUBSET disk.pending BY DEF Pending
  <2>6. \A i \in DOMAIN filed : filed[i] \in Filed_in(disk) BY <2>2
  <2> QED BY <1>2, <2>1, <2>4, <2>5, <2>6 DEF Load, Restored
<1>3. CASE LoadRefused
  <2>0. PICK gone \in {{}, Retired} : \E t \in Pending(gone), before \in SUBSET Pending(gone) :
          Restored(before, before \cup {t}, <<>>)
    BY <1>3 DEF LoadRefused
  <2>1. PICK t \in Pending(gone), before \in SUBSET Pending(gone) :
          Restored(before, before \cup {t}, <<>>)
    BY <2>0
  <2>2. before \in SUBSET disk.pending /\ before \cup {t} \in SUBSET disk.pending BY DEF Pending
  <2>3. <<>> \in Seq(Tasks) /\ \A i \in DOMAIN <<>> : <<>>[i] \in Filed_in(disk) OBVIOUS
  <2>4. agent = "booting" /\ agent' \in {"up", "failed"} BY <1>3 DEF LoadRefused
  <2>5. UNCHANGED <<saver, disk>> BY <2>1 DEF Restored
  <2>6. before \subseteq before \cup {t} OBVIOUS
  <2> HIDE <1>3
  <2> QED BY <2>1, <2>2, <2>3, <2>4, <2>5, <2>6
<1> QED BY <1>2, <1>3

\* Steps of the machine alone, of one process or the other.
LEMMA MachineFacts ==
  ASSUME Core, ClosedOK, UNCHANGED persistVars,
         \/ agent = "up" /\ (shutdown \/ \E t \in Fresh : add_task(t) \/ add_task_refused(t))
         \/ \E w \in Workers : WorkerStep(w)
  PROVE  Core' /\ ClosedOK' /\ MachineStep
<1>1. TypeOK BY DEF Core
<1>2. Next BY DEF Next, Fresh
<1>3. Core' /\ ClosedOK' BY <1>1, <1>2, CoreStep, ClosedStep
<1>4. TypeOK' BY <1>3 DEF Core
<1>5. CASE shutdown
  <2>1. Rests BY <1>4, <1>5, OtherRests
  <2> QED BY <1>3, <2>1 DEF MachineStep
<1>6. ASSUME agent = "up", NEW t \in Fresh, add_task(t) \/ add_task_refused(t) PROVE MachineStep
  <2>1. t \in Tasks BY DEF Fresh
  <2> QED BY <1>4, <1>6, <2>1, AddEnters DEF MachineStep
<1>7. ASSUME NEW w \in Workers, WorkerStep(w) PROVE MachineStep
  BY <1>4, <1>7, WorkerTurns DEF MachineStep
<1> QED BY <1>3, <1>5, <1>6, <1>7

(* What each step of the save does to the image.  The machine stands still.*)

LEMMA TableCopied ==
  ASSUME TypeOK, SaveTable
  PROVE  /\ saver'.phase = "table" /\ saver'.known = tasks \cup Accomplished
         /\ saver'.image \in Image /\ saver'.image.pending = tasks
         /\ Filed_in(saver'.image) = {} /\ saver'.image.saved = {}
         /\ saver' \in [phase : {"idle", "table", "objects"}, known : SUBSET Tasks, image : Image]
<1> DEFINE image == [NoSnapshot EXCEPT !.pending = tasks]
<1>1. saver' = [phase |-> "table", known |-> tasks \cup Accomplished, image |-> image]
  BY DEF SaveTable, Copy
<1>2. /\ image \in Image /\ image.pending = tasks /\ image.saved = NoSnapshot.saved
      /\ image.accomplished = NoSnapshot.accomplished
  BY NoSnapshotType DEF Image, TypeOK
<1> HIDE DEF image
<1>3. Filed_in(image) = {} /\ image.saved = {} BY <1>2, NoSnapshotType DEF Filed_in
<1>4. tasks \cup Accomplished \subseteq Tasks BY AccomplishedType DEF TypeOK
<1> QED BY <1>1, <1>2, <1>3, <1>4

LEMMA HistoryCopied ==
  ASSUME TypeOK, PersistTypeOK, SaveHistory
  PROVE  /\ saver.phase = "table" /\ saver'.phase = "objects" /\ saver'.known = saver.known
         /\ saver'.image \in Image /\ saver'.image.pending = saver.image.pending
         /\ Filed_in(saver'.image) = Accomplished
         /\ saver'.image.saved = saver.image.saved /\ saver'.image.status = saver.image.status
         /\ saver' \in [phase : {"idle", "table", "objects"}, known : SUBSET Tasks, image : Image]
<1> DEFINE image == [saver.image EXCEPT !.accomplished = accomplished_task]
<1>1. saver' = [saver EXCEPT !.phase = "objects", !.image = image] /\ saver.phase = "table"
  BY DEF SaveHistory, Copy
<1>2. saver.image \in Image /\ accomplished_task \in Seq(Tasks) BY DEF PersistTypeOK, TypeOK
<1>3. /\ image \in Image /\ image.pending = saver.image.pending
      /\ image.accomplished = accomplished_task
      /\ image.saved = saver.image.saved /\ image.status = saver.image.status
  BY <1>2 DEF Image
<1> HIDE DEF image
<1>4. Filed_in(image) = Accomplished BY <1>3 DEF Filed_in, Accomplished
<1> QED BY <1>1, <1>3, <1>4 DEF PersistTypeOK

LEMMA ObjectCopied ==
  ASSUME TypeOK, PersistTypeOK, SaveObject
  PROVE  \E t \in (saver.image.pending \cup Filed_in(saver.image)) \ saver.image.saved :
           /\ saver.phase = "objects" /\ saver'.phase = "objects" /\ saver'.known = saver.known
           /\ saver'.image \in Image /\ saver'.image.pending = saver.image.pending
           /\ Filed_in(saver'.image) = Filed_in(saver.image)
           /\ saver'.image.saved = saver.image.saved \cup {t}
           /\ saver'.image.status[t] \in {status[t], "EXCEPTION"}
           /\ saver'.image.attempt[t] = attempt[t]
           /\ \A u \in Tasks \ {t} : /\ saver'.image.status[u] = saver.image.status[u]
                                     /\ saver'.image.attempt[u] = saver.image.attempt[u]
           /\ saver' \in [phase : {"idle", "table", "objects"}, known : SUBSET Tasks, image : Image]
<1>1. saver.image \in Image BY DEF PersistTypeOK
<1>2. PICK t \in (saver.image.pending \cup Filed_in(saver.image)) \ saver.image.saved :
        \E s \in Readable(t) :
          saver' = [saver EXCEPT !.image.saved = @ \cup {t},
                                 !.image.status[t] = s,
                                 !.image.attempt[t] = attempt[t],
                                 !.image.event[t] = event[t],
                                 !.image.priority[t] = priority[t]]
  BY DEF SaveObject
<1>3. PICK s \in Readable(t) :
        saver' = [saver EXCEPT !.image.saved = @ \cup {t},
                               !.image.status[t] = s,
                               !.image.attempt[t] = attempt[t],
                               !.image.event[t] = event[t],
                               !.image.priority[t] = priority[t]]
  BY <1>2
<1>4. t \in Tasks BY <1>1, ImageFacts
<1>5. s \in TaskStatus \cup {"NEW"} /\ (s = status[t] \/ s = "EXCEPTION")
  BY <1>4 DEF Readable, TypeOK, TaskStatus
<1> DEFINE image == [saver.image EXCEPT !.saved = @ \cup {t},
                       !.status = [@ EXCEPT ![t] = s],
                       !.attempt = [@ EXCEPT ![t] = attempt[t]],
                       !.event = [@ EXCEPT ![t] = event[t]],
                       !.priority = [@ EXCEPT ![t] = priority[t]]]
<1>6. saver' = [saver EXCEPT !.image = image] BY <1>1, <1>3 DEF PersistTypeOK, Image
<1>7. /\ image \in Image /\ image.pending = saver.image.pending
      /\ image.accomplished = saver.image.accomplished
      /\ image.saved = saver.image.saved \cup {t}
      /\ image.status = [saver.image.status EXCEPT ![t] = s]
      /\ image.attempt = [saver.image.attempt EXCEPT ![t] = attempt[t]]
  BY <1>1, <1>4, <1>5 DEF Image, TypeOK
<1> HIDE DEF image
<1>8. Filed_in(image) = Filed_in(saver.image) BY <1>7 DEF Filed_in
<1>9. /\ image.status[t] = s /\ image.attempt[t] = attempt[t]
      /\ \A u \in Tasks \ {t} : /\ image.status[u] = saver.image.status[u]
                                /\ image.attempt[u] = saver.image.attempt[u]
  <2>1. /\ saver.image.status \in [Tasks -> TaskStatus \cup {"NEW"}]
        /\ saver.image.attempt \in [Tasks -> Nat]
    BY <1>1, ImageFacts
  <2> QED BY <1>4, <1>7, <2>1
<1>10. /\ saver'.image = image /\ saver'.known = saver.known
       /\ saver.phase = "objects" /\ saver'.phase = "objects"
       /\ saver' \in [phase : {"idle", "table", "objects"}, known : SUBSET Tasks, image : Image]
  <2>1. saver.phase = "objects" BY DEF SaveObject
  <2> QED BY <1>6, <1>7, <2>1 DEF PersistTypeOK
<1>11. image.status[t] \in {status[t], "EXCEPTION"} BY <1>5, <1>9
<1>12. /\ saver'.image \in Image /\ saver'.image.pending = saver.image.pending
       /\ Filed_in(saver'.image) = Filed_in(saver.image)
       /\ saver'.image.saved = saver.image.saved \cup {t}
  BY <1>7, <1>8, <1>10
<1>13. /\ saver'.image.status[t] \in {status[t], "EXCEPTION"}
       /\ saver'.image.attempt[t] = attempt[t]
       /\ \A u \in Tasks \ {t} : /\ saver'.image.status[u] = saver.image.status[u]
                                /\ saver'.image.attempt[u] = saver.image.attempt[u]
  BY <1>9, <1>10, <1>11
<1> QED BY <1>10, <1>12, <1>13

LEMMA FileWritten ==
  ASSUME SaveFile
  PROVE  /\ saver.image.saved = saver.image.pending \cup Filed_in(saver.image)
         /\ disk' = saver.image /\ saver' = Idle /\ saver'.phase = "idle" /\ saver'.known = {}
         /\ saver'.image.pending = {} /\ Filed_in(saver'.image) = {} /\ saver'.image.saved = {}
BY IdleType, NoSnapshotType DEF SaveFile

LEMMA SaveKeepsFile ==
  ASSUME TypeOK, FileOK, SaveTable \/ SaveHistory \/ SaveObject \/ SaveFile
  PROVE  FileOK' /\ UNCHANGED vars
<1>0. UNCHANGED <<vars, agent>> BY DEF SaveTable, SaveHistory, SaveObject, SaveFile
<1>1. /\ PersistTypeOK /\ TablesOK /\ BootOK /\ SaverOK /\ DiskOK
      /\ saver.image \in Image /\ saver.known \subseteq Tasks
  BY DEF FileOK, PersistTypeOK
<1>2. UNCHANGED <<status, attempt, tasks, Accomplished>>
  BY <1>0 DEF vars, taskVars, queueVars, Accomplished
<1>3. TablesOK' /\ BootOK' BY <1>0, <1>1, <1>2 DEF TablesOK, BootOK
<1>4. CASE SaveTable
  <2>1. disk' = disk BY <1>4 DEF SaveTable
  <2>2. PersistTypeOK' BY <1>0, <1>1, <1>4, <2>1, TableCopied DEF PersistTypeOK
  <2>3. SaverOK' BY <1>1, <1>2, <1>4, TableCopied DEF SaverOK, TablesOK
  <2>4. DiskOK' BY <1>1, <1>2, <2>1 DEF DiskOK
  <2> QED BY <1>0, <1>3, <2>2, <2>3, <2>4 DEF FileOK
<1>5. CASE SaveHistory
  <2>1. disk' = disk BY <1>5 DEF SaveHistory
  <2>2. PersistTypeOK' BY <1>0, <1>1, <1>5, <2>1, HistoryCopied DEF PersistTypeOK
  <2>3. saver'.image.saved = {} BY <1>1, <1>5, HistoryCopied DEF SaverOK
  <2>4. \A t \in saver'.known \cup saver'.image.pending \cup Filed_in(saver'.image) : status'[t] # "NEW"
    BY <1>1, <1>2, <1>5, HistoryCopied DEF SaverOK, TablesOK
  <2>5. SaverOK' BY <2>3, <2>4 DEF SaverOK
  <2>6. DiskOK' BY <1>1, <1>2, <2>1 DEF DiskOK
  <2> QED BY <1>0, <1>3, <2>2, <2>5, <2>6 DEF FileOK
<1>6. CASE SaveObject
  <2>1. disk' = disk BY <1>6 DEF SaveObject
  <2>2. PersistTypeOK' BY <1>0, <1>1, <1>6, <2>1, ObjectCopied DEF PersistTypeOK
  <2>3. /\ saver'.phase = "objects"
        /\ saver'.image.saved \subseteq saver'.image.pending \cup Filed_in(saver'.image)
        /\ \A u \in saver'.known \cup saver'.image.pending \cup Filed_in(saver'.image) : status'[u] # "NEW"
        /\ \A u \in saver'.image.saved : /\ saver'.image.status[u] # "NEW"
                                         /\ saver'.image.status[u] = "DONE" => status'[u] = "DONE"
    <3>1. PICK v \in (saver.image.pending \cup Filed_in(saver.image)) \ saver.image.saved :
            /\ saver'.phase = "objects" /\ saver'.known = saver.known
            /\ saver'.image.pending = saver.image.pending
            /\ Filed_in(saver'.image) = Filed_in(saver.image)
            /\ saver'.image.saved = saver.image.saved \cup {v}
            /\ saver'.image.status[v] \in {status[v], "EXCEPTION"}
            /\ \A u \in Tasks \ {v} : saver'.image.status[u] = saver.image.status[u]
      BY <1>1, <1>6, ObjectCopied
    <3>2. status[v] # "NEW" /\ saver.image.saved \subseteq Tasks BY <1>1, ImageFacts DEF SaverOK
    <3>3. \A u \in saver'.image.saved : /\ saver'.image.status[u] # "NEW"
                                        /\ saver'.image.status[u] = "DONE" => status'[u] = "DONE"
      BY <1>1, <1>2, <3>1, <3>2 DEF SaverOK
    <3>4. saver'.image.saved \subseteq saver'.image.pending \cup Filed_in(saver'.image)
      BY <1>1, <3>1 DEF SaverOK
    <3>5. \A u \in saver'.known \cup saver'.image.pending \cup Filed_in(saver'.image) : status'[u] # "NEW"
      BY <1>1, <1>2, <3>1 DEF SaverOK
    <3> QED BY <3>1, <3>3, <3>4, <3>5
  <2>4. SaverOK' BY <2>3 DEF SaverOK
  <2>5. DiskOK' BY <1>1, <1>2, <2>1 DEF DiskOK
  <2> QED BY <1>0, <1>3, <2>2, <2>4, <2>5 DEF FileOK
<1>7. CASE SaveFile
  <2>1. PersistTypeOK' BY <1>0, <1>1, <1>7, FileWritten, IdleType DEF PersistTypeOK
  <2>2. SaverOK' BY <1>7, FileWritten DEF SaverOK
  <2>3. DiskOK' BY <1>1, <1>2, <1>7, FileWritten DEF DiskOK, SaverOK
  <2> QED BY <1>0, <1>3, <2>1, <2>2, <2>3 DEF FileOK
<1> QED BY <1>0, <1>4, <1>5, <1>6, <1>7

LEMMA RestartKeepsFile ==
  ASSUME FileOK, Restart
  PROVE  Core' /\ ClosedOK' /\ FileOK'
<1>1. Init' BY DEF Restart, Init
<1>2. Core' /\ ClosedOK' BY <1>1, InitNext DEF IInv
<1>3. /\ agent' = "booting" /\ saver' = Idle /\ disk' = disk /\ tasks' = {} /\ accomplished_task' = <<>>
      /\ status' = [t \in Tasks |-> "NEW"]
  BY DEF Restart
<1>4. \A t \in Tasks : status'[t] = "NEW" BY <1>3
<1>5. PersistTypeOK' BY <1>3, IdleType DEF FileOK, PersistTypeOK
<1>6. TablesOK' /\ BootOK' BY <1>3, <1>4 DEF TablesOK, BootOK, Accomplished
<1>7. SaverOK' BY <1>3, IdleType, NoSnapshotType DEF SaverOK
<1>8. DiskOK'
  <2>1. disk.saved \subseteq Tasks BY ImageFacts DEF FileOK, PersistTypeOK
  <2> QED BY <1>3, <1>4, <2>1 DEF FileOK, DiskOK
<1> QED BY <1>2, <1>5, <1>6, <1>7, <1>8 DEF FileOK

LEMMA LoadKeepsFile ==
  ASSUME Core, ClosedOK, FileOK, Load \/ LoadRefused
  PROVE  Core' /\ ClosedOK' /\ FileOK'
<1>1. /\ agent = "booting" /\ agent' \in {"up", "failed"} /\ UNCHANGED <<saver, disk>>
  BY LoadFacts
<1>2. PICK queued \in SUBSET disk.pending, table \in SUBSET disk.pending, filed \in Seq(Tasks) :
        /\ queued \subseteq table
        /\ \A i \in DOMAIN filed : filed[i] \in Filed_in(disk)
        /\ Restored(queued, table, filed)
  BY LoadFacts
<1> DEFINE kept == table \cup {filed[i] : i \in DOMAIN filed}
<1>3. /\ \A t \in Tasks :
            \/ t \in queued /\ disk.status[t] \in Unfinished /\ status'[t] = "WAITING"
            \/ t \in kept /\ status'[t] = Loaded(t)
            \/ t \notin kept /\ status'[t] = "NEW"
      /\ Core' /\ ClosedOK' /\ TablesOK'
  BY <1>1, <1>2, RestoredFacts
<1> HIDE DEF kept
<1>4. PersistTypeOK' BY <1>1 DEF FileOK, PersistTypeOK
<1>5. BootOK' BY <1>1 DEF BootOK
<1>6. /\ saver.image \in Image /\ disk \in Image /\ disk.saved \subseteq Tasks
      /\ saver.known \subseteq Tasks /\ \A t \in Tasks : status[t] = "NEW"
  BY <1>1, ImageFacts DEF FileOK, PersistTypeOK, BootOK
<1>7. SaverOK'
  <2>1. \A t \in Tasks : t \notin saver.known \cup saver.image.pending \cup Filed_in(saver.image)
    BY <1>6 DEF FileOK, SaverOK
  <2>2. saver.known = {} /\ saver.image.pending = {} /\ Filed_in(saver.image) = {}
    BY <1>6, <2>1, ImageFacts
  <2> QED BY <1>1, <2>2 DEF FileOK, SaverOK
<1>8. DiskOK'
  <2> SUFFICES ASSUME NEW t \in disk.saved, disk.status[t] = "DONE"
               PROVE  status'[t] \in {"DONE", "NEW"}
    BY <1>1 DEF FileOK, DiskOK
  <2>1. Loaded(t) = "DONE" /\ disk.status[t] \notin Unfinished BY DEF Loaded, Unfinished
  <2> QED BY <1>3, <1>6, <2>1
<1> QED BY <1>3, <1>4, <1>5, <1>7, <1>8 DEF FileOK

LEMMA PersistStep == Core /\ ClosedOK /\ FileOK /\ [PNext]_allVars => (Core /\ ClosedOK /\ FileOK)'
<1> SUFFICES ASSUME Core, ClosedOK, FileOK, [PNext]_allVars PROVE (Core /\ ClosedOK /\ FileOK)'
  OBVIOUS
<1>1. TypeOK BY DEF Core
<1>2. CASE /\ UNCHANGED persistVars
           /\ \/ agent = "up" /\ (shutdown \/ \E t \in Fresh : add_task(t) \/ add_task_refused(t))
              \/ \E w \in Workers : WorkerStep(w)
  <2>1. Core' /\ ClosedOK' /\ MachineStep BY <1>2, MachineFacts
  <2>2. TypeOK' /\ UNCHANGED <<agent, saver, disk>> BY <1>2, <2>1 DEF Core, persistVars
  <2> QED BY <1>1, <2>1, <2>2, StepKeepsFile
<1>3. CASE SaveTable \/ SaveHistory \/ SaveObject \/ SaveFile
  BY <1>1, <1>3, SaveKeepsFile, UnchangedCore
<1>4. CASE Restart BY <1>4, RestartKeepsFile
<1>5. CASE Load \/ LoadRefused BY <1>5, LoadKeepsFile
<1>6. CASE UNCHANGED allVars
  <2>1. UNCHANGED vars /\ UNCHANGED <<agent, saver, disk>> BY <1>6 DEF allVars, persistVars
  <2>2. Core' /\ ClosedOK' BY <2>1, UnchangedCore
  <2>3. TypeOK' BY <2>2 DEF Core
  <2>4. MachineStep BY <2>1, <2>3, OtherRests DEF MachineStep
  <2> QED BY <1>1, <2>1, <2>2, <2>3, <2>4, StepKeepsFile
<1> QED BY <1>2, <1>3, <1>4, <1>5, <1>6 DEF PNext

LEMMA PersistInit == PInit => Core /\ ClosedOK /\ FileOK
<1> SUFFICES ASSUME PInit PROVE Core /\ ClosedOK /\ FileOK
  OBVIOUS
<1>1. Core /\ ClosedOK BY InvInit DEF PInit, IInv
<1>2. agent = "up" /\ saver = Idle /\ disk = NoSnapshot /\ tasks = {} /\ accomplished_task = <<>>
  BY DEF PInit, Init
<1>3. PersistTypeOK BY <1>2, IdleType, NoSnapshotType DEF PersistTypeOK
<1>4. TablesOK /\ BootOK BY <1>2 DEF TablesOK, BootOK, Accomplished
<1>5. SaverOK BY <1>2, IdleType, NoSnapshotType DEF SaverOK
<1>6. DiskOK BY <1>2, NoSnapshotType DEF DiskOK
<1> QED BY <1>1, <1>3, <1>4, <1>5, <1>6 DEF FileOK

LEMMA PersistInvariant == PSpec => [](Core /\ ClosedOK /\ FileOK)
BY PersistInit, PersistStep, PTL DEF PSpec

(* In every behaviour with crashes and restarts, what the file says is     *)
(* DONE is never executed again, in this process or in a later one.        *)
THEOREM DoneStaysDoneCorrect == PSpec => []DoneStaysDone
<1>1. FileOK => DoneStaysDone
  BY DEF FileOK, DiskOK, DoneStaysDone
<1> QED BY <1>1, PersistInvariant, PTL

(* In every behaviour with crashes and restarts, a task is in the heap at  *)
(* most once or in one worker's hand: a queue loaded from a file starts no *)
(* task twice.                                                             *)
THEOREM OnePlaceAcrossRestarts == PSpec => []OnePlace
<1>1. Core => OnePlace BY DEF Core
<1> QED BY <1>1, PersistInvariant, PTL

-----------------------------------------------------------------------------
(* No save misses a task.  A task that left the table and the history      *)
(* comes back only by a retry that filed it, so the invariant says where   *)
(* a task is at each stage of its life, in memory, in the image the saving *)
(* thread collects and in the file.                                        *)

IndependentOK == \A t \in Independent : status[t] \in Unfinished => t \in tasks

HeapOK ==
  \A t \in Tasks : heap[t] > 0 /\ status[t] \in ts_done =>
    t \in tasks \/ (t \notin Independent /\ status[t] = "FAILED")

HeldOK ==
  \A w \in Workers : pc[w] \in {"waiting", "woken"} /\ hand[w] \in Tasks =>
    status[hand[w]] \in {"WAITING", "FAILED"}

\* What is filed has ended, or is a task with dependencies that a retry filed.
Past(t, s, n) == s \in ts_done \/ (t \notin Independent /\ n >= 1)

FiledOK == \A t \in Accomplished : Past(t, status[t], attempt[t])

ImageFiledOK ==
  \A t \in Filed_in(saver.image) :
    /\ Past(t, status[t], attempt[t])
    /\ t \in saver.image.saved => Past(t, saver.image.status[t], saver.image.attempt[t])

DiskFiledOK == \A t \in Filed_in(disk) : Past(t, disk.status[t], disk.attempt[t])

\* What the copies leave out of the known tasks is gone, or overtaken.
KnownOK ==
  /\ saver.phase = "table" =>
       \A t \in saver.known \ saver.image.pending : t \notin tasks \/ Overtaken(t)
  /\ saver.phase = "objects" =>
       \A t \in saver.known \ (saver.image.pending \cup Filed_in(saver.image)) :
         ~Remembered(t) \/ Overtaken(t)

TableInv == PresentOK /\ IndependentOK /\ HeapOK /\ HeldOK /\ FiledOK
CopyInv == ImageFiledOK /\ DiskFiledOK /\ KnownOK

\* A step that is about t alone.
Advances(t) ==
  /\ Spares(t)
  /\ \/ Submits(t) \/ Files(t) \/ Holds(t) \/ Starts(t) \/ Retries(t)
     \/ Ends(t) /\ t \notin tasks'

LEMMA StepMoves ==
  ASSUME MachineStep
  PROVE  Rests \/ \E t \in Tasks : Advances(t)
BY DEF MachineStep, Turns, Enters, Advances, Fresh

\* An execution out of the table is a repeated one, of a task with dependencies.
LEMMA RunningOutside ==
  ASSUME TypeOK, PresentOK, IndependentOK, NEW t \in Tasks,
         status[t] = "RUNNING", t \notin tasks
  PROVE  Dependents[t] # {} /\ attempt[t] > 1
<1>1. attempt[t] \in Nat BY DEF TypeOK
<1>2. attempt[t] > 0 /\ attempt[t] # 0 /\ attempt[t] # 1 BY <1>1 DEF PresentOK, Unfinished
<1>3. t \notin Independent BY DEF IndependentOK, Unfinished
<1> QED BY <1>1, <1>2, <1>3 DEF Independent

LEMMA StepKeepsTable ==
  ASSUME TypeOK, TypeOK', HandOK, TablesOK, TableInv, MachineStep
  PROVE  TableInv'
<1>1. PresentOK /\ IndependentOK /\ HeapOK /\ HeldOK /\ FiledOK BY DEF TableInv
<1>2. Accomplished \subseteq Tasks /\ Accomplished' \subseteq Tasks
  <2>1. accomplished_task \in Seq(Tasks) /\ accomplished_task' \in Seq(Tasks) BY DEF TypeOK
  <2> QED BY <2>1 DEF Accomplished
<1>3. CASE Rests
  <2>1. UNCHANGED <<status, attempt, tasks, Accomplished>> BY <1>3 DEF Rests, Accomplished
  <2>2. PresentOK' /\ IndependentOK' /\ FiledOK'
    BY <1>1, <2>1 DEF PresentOK, IndependentOK, FiledOK, Independent, Past
  <2>3. HeapOK'
    <3> SUFFICES ASSUME NEW u \in Tasks, heap'[u] > 0, status[u] \in ts_done
                 PROVE  u \in tasks \/ (u \notin Independent /\ status[u] = "FAILED")
      BY <2>1 DEF HeapOK, Independent
    <3>1. CASE heap[u] > 0 BY <1>1, <3>1 DEF HeapOK
    <3>2. ASSUME NEW w \in Workers, pc[w] = "woken", hand[w] = u
          PROVE  u \notin Independent /\ status[u] = "FAILED"
      BY <1>1, <3>2 DEF HeldOK, HandOK, ts_done
    <3> QED BY <1>3, <3>1, <3>2 DEF Rests
  <2>4. HeldOK' BY <1>1, <1>3, <2>1 DEF HeldOK, Rests
  <2> QED BY <2>2, <2>3, <2>4 DEF TableInv
<1>4. ASSUME NEW t \in Tasks, Advances(t) PROVE TableInv'
  <2>1. attempt[t] \in Nat /\ attempt'[t] \in Nat BY DEF TypeOK
  <2>2. \A u \in Tasks \ {t} : /\ status'[u] = status[u] /\ attempt'[u] = attempt[u]
                               /\ u \in tasks <=> u \in tasks'
                               /\ heap'[u] > 0 => heap[u] > 0
    BY <1>4 DEF Advances, Spares
  <2>3. PresentOK'
    <3> SUFFICES ASSUME NEW u \in Tasks
                 PROVE  /\ status'[u] = "RUNNING" => attempt'[u] > 0
                        /\ status'[u] \in Unfinished
                             /\ (attempt'[u] = 0 \/ (attempt'[u] = 1 /\ status'[u] = "RUNNING"))
                             => u \in tasks'
      BY DEF PresentOK
    <3>1. CASE u # t BY <1>1, <2>2, <3>1 DEF PresentOK
    <3>2. CASE u = t /\ Submits(t) BY <3>2 DEF Submits
    <3>3. CASE u = t /\ (Files(t) \/ Ends(t)) BY <3>3 DEF Files, Ends, Unfinished, ts_done
    <3>4. CASE u = t /\ Holds(t) BY <1>1, <3>4 DEF Holds, PresentOK, Unfinished
    <3>5. CASE u = t /\ Starts(t)
      <4>1. attempt[t] = 0 => t \in tasks BY <1>1, <3>5 DEF Starts, PresentOK, Unfinished
      <4> QED BY <2>1, <3>5, <4>1 DEF Starts
    <3>6. CASE u = t /\ Retries(t) BY <1>1, <2>1, <3>6 DEF Retries, PresentOK
    <3> QED BY <1>4, <3>1, <3>2, <3>3, <3>4, <3>5, <3>6 DEF Advances
  <2>4. IndependentOK'
    <3> SUFFICES ASSUME NEW u \in Independent, status'[u] \in Unfinished PROVE u \in tasks'
      BY DEF IndependentOK, Independent
    <3>1. u \in Tasks BY DEF Independent
    <3>2. CASE u # t BY <1>1, <2>2, <3>1, <3>2 DEF IndependentOK
    <3>3. CASE u = t
      <4>1. ~Files(t) /\ ~Ends(t) /\ ~Holds(t) BY <3>3 DEF Files, Ends, Holds, Unfinished, ts_done
      <4>2. CASE Submits(t) \/ Retries(t) BY <3>3, <4>2 DEF Submits, Retries
      <4>3. CASE Starts(t) BY <1>1, <3>3, <4>3 DEF Starts, IndependentOK, Unfinished
      <4> QED BY <1>4, <4>1, <4>2, <4>3 DEF Advances
    <3> QED BY <3>2, <3>3
  <2>5. HeapOK'
    <3> SUFFICES ASSUME NEW u \in Tasks, heap'[u] > 0, status'[u] \in ts_done
                 PROVE  u \in tasks' \/ (u \notin Independent /\ status'[u] = "FAILED")
      BY DEF HeapOK, Independent
    <3>1. u # t BY <1>4 DEF Advances, Spares
    <3> QED BY <1>1, <2>2, <3>1 DEF HeapOK
  <2>6. HeldOK'
    <3> SUFFICES ASSUME NEW v \in Workers, pc'[v] \in {"waiting", "woken"}, hand'[v] \in Tasks
                 PROVE  status'[hand'[v]] \in {"WAITING", "FAILED"}
      BY DEF HeldOK
    <3>1. CASE pc[v] \in {"waiting", "woken"} /\ hand'[v] = hand[v] /\ hand[v] # t
      BY <1>1, <2>2, <3>1 DEF HeldOK
    <3>2. CASE Holds(t) /\ hand'[v] = t BY <3>2 DEF Holds
    <3> QED BY <1>4, <3>1, <3>2 DEF Advances, Spares
  <2>7. FiledOK'
    <3> SUFFICES ASSUME NEW u \in Accomplished' PROVE Past(u, status'[u], attempt'[u])
      BY DEF FiledOK, Past, Independent
    <3>1. u \in Tasks BY <1>2
    <3>2. CASE u # t
      <4>1. u \in Accomplished BY <1>4, <3>2 DEF Advances, Spares
      <4> QED BY <1>1, <2>2, <3>1, <3>2, <4>1 DEF FiledOK
    <3>3. CASE u = t
      <4>1. t \in Accomplished => status[t] # "NEW" /\ Past(t, status[t], attempt[t])
        BY <1>1 DEF TablesOK, FiledOK
      <4>2. CASE Submits(t) BY <3>3, <4>1, <4>2 DEF Submits
      <4>3. CASE Files(t) BY <3>3, <4>3 DEF Files, Past
      <4>4. CASE Holds(t) BY <3>3, <4>1, <4>4 DEF Holds, Past, ts_done
      <4>5. CASE Starts(t) BY <2>1, <3>3, <4>1, <4>5 DEF Starts, Past, ts_done
      <4>6. CASE Ends(t) BY <3>3, <4>6 DEF Ends, Past, ts_done
      <4>7. CASE Retries(t)
        <5>1. attempt'[t] >= 1 BY <1>1, <2>1, <4>7 DEF Retries, PresentOK
        <5>2. t \notin Independent BY <3>3, <4>1, <4>7 DEF Retries, Past, ts_done
        <5> QED BY <3>3, <5>1, <5>2 DEF Past
      <4> QED BY <1>4, <4>2, <4>3, <4>4, <4>5, <4>6, <4>7 DEF Advances
    <3> QED BY <3>2, <3>3
  <2> QED BY <2>3, <2>4, <2>5, <2>6, <2>7 DEF TableInv
<1> QED BY <1>3, <1>4, StepMoves

\* What has left the table, or the history too, stays away or is overtaken.
LEMMA StepStaysAway ==
  ASSUME TypeOK, TypeOK', TableInv, MachineStep, NEW u \in Tasks, status[u] # "NEW"
  PROVE  /\ Overtaken(u) => Overtaken(u)'
         /\ u \notin tasks => u \notin tasks' \/ Overtaken(u)'
         /\ ~Remembered(u) => ~Remembered(u)' \/ Overtaken(u)'
         /\ Past(u, status[u], attempt[u]) => Past(u, status'[u], attempt'[u])
<1>1. PresentOK /\ IndependentOK /\ HeapOK BY DEF TableInv
<1>2. attempt[u] \in Nat /\ attempt'[u] \in Nat BY DEF TypeOK
<1>3. CASE Rests
  <2>1. UNCHANGED <<status, attempt, tasks, Accomplished>> BY <1>3 DEF Rests, Accomplished
  <2> QED BY <2>1 DEF Overtaken, Remembered
<1>4. ASSUME NEW t \in Tasks, Advances(t), t # u
      PROVE  UNCHANGED <<status[u], attempt[u]>> /\ (u \in tasks <=> u \in tasks')
             /\ (u \in Accomplished' => u \in Accomplished)
  BY <1>4 DEF Advances, Spares
<1>5. ASSUME NEW t \in Tasks, Advances(t), t # u
      PROVE  /\ Overtaken(u) => Overtaken(u)'
             /\ u \notin tasks => u \notin tasks' \/ Overtaken(u)'
             /\ ~Remembered(u) => ~Remembered(u)' \/ Overtaken(u)'
             /\ Past(u, status[u], attempt[u]) => Past(u, status'[u], attempt'[u])
  BY <1>4, <1>5 DEF Overtaken, Remembered
<1>6. CASE Advances(u)
  <2>1. ~Submits(u) BY DEF Submits
  <2>2. CASE Files(u)
    <3>1. u \notin tasks => Dependents[u] # {} /\ status[u] = "FAILED"
      BY <1>1, <2>2 DEF Files, HeapOK, Independent
    <3> QED BY <2>2, <3>1 DEF Files, Overtaken, Remembered
  <2>3. CASE Holds(u) BY <1>2, <2>3 DEF Holds, Overtaken, Remembered, Past, ts_done
  <2>4. CASE Starts(u) BY <1>2, <2>4 DEF Starts, Overtaken, Remembered, Past, ts_done
  <2>5. CASE Retries(u) \/ Ends(u)
    <3>1. status[u] = "RUNNING" /\ attempt'[u] = attempt[u] BY <2>5 DEF Retries, Ends
    <3>2. u \notin tasks => Overtaken(u)' BY <1>1, <3>1, RunningOutside DEF Overtaken
    <3> QED BY <3>1, <3>2 DEF Overtaken, Remembered, Past, ts_done
  <2> QED BY <1>6, <2>1, <2>2, <2>3, <2>4, <2>5 DEF Advances
<1> QED BY <1>3, <1>5, <1>6, StepMoves

LEMMA StepKeepsCopy ==
  ASSUME TypeOK, TypeOK', FileOK, TableInv, CopyInv, MachineStep, UNCHANGED <<saver, disk>>
  PROVE  CopyInv'
<1>1. /\ ImageFiledOK /\ DiskFiledOK /\ KnownOK /\ SaverOK
      /\ saver.image \in Image /\ saver.known \subseteq Tasks
  BY DEF CopyInv, FileOK, PersistTypeOK
<1>2. Filed_in(saver.image) \subseteq Tasks BY <1>1, ImageFacts
<1>3. Filed_in(saver.image)' = Filed_in(saver.image) /\ Filed_in(disk)' = Filed_in(disk) OBVIOUS
<1>4. ImageFiledOK' BY <1>1, <1>2, <1>3, StepStaysAway DEF ImageFiledOK, SaverOK
<1>5. DiskFiledOK' BY <1>1, <1>3 DEF DiskFiledOK
<1>6. KnownOK' BY <1>1, <1>3, StepStaysAway DEF KnownOK, SaverOK
<1> QED BY <1>4, <1>5, <1>6 DEF CopyInv

LEMMA SaveKeepsCopy ==
  ASSUME TypeOK, FileOK, TableInv, CopyInv, SaveTable \/ SaveHistory \/ SaveObject \/ SaveFile
  PROVE  TableInv' /\ CopyInv'
<1>1. /\ PersistTypeOK /\ SaverOK /\ saver.image \in Image
      /\ FiledOK /\ ImageFiledOK /\ DiskFiledOK /\ KnownOK
  BY DEF FileOK, PersistTypeOK, TableInv, CopyInv
<1>2. UNCHANGED <<status, attempt, tasks, Accomplished, heap, pc, hand>>
  <2>1. UNCHANGED vars BY SaveKeepsFile
  <2> QED BY <2>1 DEF vars, taskVars, queueVars, workerVars, Accomplished
<1>3. TableInv'
  BY <1>2 DEF TableInv, PresentOK, IndependentOK, HeapOK, HeldOK, FiledOK, Past, Independent
<1>4. CASE SaveTable
  <2>1. disk' = disk BY <1>4 DEF SaveTable
  <2>2. ImageFiledOK' BY <1>4, TableCopied DEF ImageFiledOK
  <2>3. DiskFiledOK' BY <1>1, <2>1 DEF DiskFiledOK
  <2>4. KnownOK' BY <1>2, <1>4, TableCopied DEF KnownOK
  <2> QED BY <1>3, <2>2, <2>3, <2>4 DEF CopyInv
<1>5. CASE SaveHistory
  <2>1. disk' = disk BY <1>5 DEF SaveHistory
  <2>2. saver'.image.saved = {} BY <1>1, <1>5, HistoryCopied DEF SaverOK
  <2>3. ImageFiledOK' BY <1>1, <1>2, <1>5, <2>2, HistoryCopied DEF ImageFiledOK, FiledOK
  <2>4. DiskFiledOK' BY <1>1, <2>1 DEF DiskFiledOK
  <2>5. KnownOK' BY <1>1, <1>2, <1>5, HistoryCopied DEF KnownOK, Remembered, Overtaken
  <2> QED BY <1>3, <2>3, <2>4, <2>5 DEF CopyInv
<1>6. CASE SaveObject
  <2>1. disk' = disk BY <1>6 DEF SaveObject
  <2>2. PICK t \in (saver.image.pending \cup Filed_in(saver.image)) \ saver.image.saved :
          /\ saver.phase = "objects" /\ saver'.phase = "objects" /\ saver'.known = saver.known
          /\ saver'.image.pending = saver.image.pending
          /\ Filed_in(saver'.image) = Filed_in(saver.image)
          /\ saver'.image.saved = saver.image.saved \cup {t}
          /\ saver'.image.status[t] \in {status[t], "EXCEPTION"}
          /\ saver'.image.attempt[t] = attempt[t]
          /\ \A u \in Tasks \ {t} : /\ saver'.image.status[u] = saver.image.status[u]
                                    /\ saver'.image.attempt[u] = saver.image.attempt[u]
    BY <1>1, <1>6, ObjectCopied
  <2>3. ImageFiledOK'
    <3> SUFFICES ASSUME NEW u \in Filed_in(saver.image)
                 PROVE  /\ Past(u, status[u], attempt[u])
                        /\ u \in saver'.image.saved => Past(u, saver'.image.status[u], saver'.image.attempt[u])
      BY <1>2, <2>2 DEF ImageFiledOK, Past, Independent
    <3>1. Past(u, status[u], attempt[u]) BY <1>1 DEF ImageFiledOK
    <3>2. u \in Tasks BY <1>1, ImageFacts
    <3>3. CASE u = t BY <2>2, <3>1, <3>3 DEF Past, ts_done
    <3>4. CASE u # t BY <1>1, <2>2, <3>1, <3>2, <3>4 DEF ImageFiledOK
    <3> QED BY <3>3, <3>4
  <2>4. DiskFiledOK' BY <1>1, <2>1 DEF DiskFiledOK
  <2>5. KnownOK' BY <1>1, <1>2, <2>2 DEF KnownOK, Remembered, Overtaken
  <2> QED BY <1>3, <2>3, <2>4, <2>5 DEF CopyInv
<1>7. CASE SaveFile
  <2>1. ImageFiledOK' BY <1>7, FileWritten DEF ImageFiledOK
  <2>2. DiskFiledOK' BY <1>1, <1>7, FileWritten DEF DiskFiledOK, ImageFiledOK
  <2>3. KnownOK' BY <1>7, FileWritten DEF KnownOK
  <2> QED BY <1>3, <2>1, <2>2, <2>3 DEF CopyInv
<1> QED BY <1>4, <1>5, <1>6, <1>7

LEMMA RestartKeepsCopy ==
  ASSUME CopyInv, Restart
  PROVE  TableInv' /\ CopyInv'
<1>1. /\ saver' = Idle /\ disk' = disk /\ tasks' = {} /\ accomplished_task' = <<>>
      /\ \A t \in Tasks : status'[t] = "NEW" /\ heap'[t] = 0
      /\ \A w \in Workers : pc'[w] = "start"
  BY DEF Restart
<1>2. TableInv'
  BY <1>1 DEF TableInv, PresentOK, IndependentOK, HeapOK, HeldOK, FiledOK, Accomplished,
              Independent, Unfinished, ts_done
<1>3. DiskFiledOK' BY <1>1 DEF CopyInv, DiskFiledOK
<1>4. ImageFiledOK' /\ KnownOK' BY <1>1, IdleType, NoSnapshotType DEF ImageFiledOK, KnownOK
<1> QED BY <1>2, <1>3, <1>4 DEF CopyInv

LEMMA LoadKeepsCopy ==
  ASSUME Core, ClosedOK, FileOK, CopyInv, Load \/ LoadRefused
  PROVE  TableInv' /\ CopyInv'
<1>1. /\ agent = "booting" /\ UNCHANGED <<saver, disk>>
  BY LoadFacts
<1>2. PICK queued \in SUBSET disk.pending, table \in SUBSET disk.pending, filed \in Seq(Tasks) :
        /\ queued \subseteq table
        /\ \A i \in DOMAIN filed : filed[i] \in Filed_in(disk)
        /\ Restored(queued, table, filed)
  BY LoadFacts
<1> DEFINE kept == {filed[i] : i \in DOMAIN filed}
<1>3. /\ \A t \in Tasks :
            \/ t \in queued /\ disk.status[t] \in Unfinished /\ status'[t] = "WAITING"
            \/ t \in table \cup kept /\ status'[t] = Loaded(t)
            \/ t \notin table \cup kept /\ status'[t] = "NEW"
      /\ \A w \in Workers : hand'[w] = NoTask
  BY <1>1, <1>2, RestoredFacts
<1>4. /\ tasks' = table /\ Accomplished' = kept /\ attempt' = disk.attempt
      /\ \A t \in Tasks : heap'[t] > 0 => t \in queued
  BY <1>2 DEF Restored, Accomplished
<1>5. kept \subseteq Filed_in(disk) /\ kept \subseteq Tasks
  <2>1. Filed_in(disk) \subseteq Tasks BY ImageFacts DEF FileOK, PersistTypeOK
  <2> QED BY <1>2, <2>1
<1> HIDE DEF kept
<1>6. /\ saver.image \in Image /\ saver.known \subseteq Tasks /\ \A t \in Tasks : status[t] = "NEW"
      /\ disk.attempt \in [Tasks -> Nat] /\ SaverOK
  BY <1>1, ImageFacts DEF FileOK, PersistTypeOK, BootOK
<1>7. \A t \in kept : Past(t, disk.status[t], disk.attempt[t]) BY <1>5 DEF CopyInv, DiskFiledOK
<1>8. \A t \in kept \ table : status'[t] \in ts_done \/ (t \notin Independent /\ attempt'[t] >= 1)
  BY <1>2, <1>3, <1>4, <1>5, <1>7 DEF Past, Loaded, ts_done
<1>9. TableInv'
  <2>1. \A t \in Tasks : status'[t] # "RUNNING" BY <1>3 DEF Loaded
  <2>2. PresentOK'
    BY <1>2, <1>3, <1>4, <1>6, <1>8, <2>1 DEF PresentOK, Unfinished, ts_done
  <2>3. IndependentOK' BY <1>2, <1>3, <1>4, <1>8 DEF IndependentOK, Independent, Unfinished, ts_done
  <2>4. HeapOK' BY <1>2, <1>4 DEF HeapOK
  <2>5. HeldOK' BY <1>3, TaskAssumption DEF HeldOK
  <2>6. FiledOK'
    <3> SUFFICES ASSUME NEW t \in kept PROVE Past(t, status'[t], attempt'[t])
      BY <1>4 DEF FiledOK, Past, Independent
    <3>1. t \in Tasks /\ Past(t, disk.status[t], attempt'[t]) BY <1>4, <1>5, <1>7
    <3> QED BY <1>3, <3>1 DEF Past, Loaded, Unfinished, ts_done
  <2> QED BY <2>2, <2>3, <2>4, <2>5, <2>6 DEF TableInv
<1>10. CopyInv'
  <2>1. saver.known = {} /\ Filed_in(saver.image) = {} BY <1>6, ImageFacts DEF SaverOK
  <2>2. ImageFiledOK' /\ KnownOK' BY <1>1, <2>1 DEF ImageFiledOK, KnownOK
  <2>3. DiskFiledOK' BY <1>1 DEF CopyInv, DiskFiledOK
  <2> QED BY <2>2, <2>3 DEF CopyInv
<1> QED BY <1>9, <1>10

LEMMA CopyStep ==
  Core /\ ClosedOK /\ FileOK /\ TableInv /\ CopyInv /\ (Core /\ FileOK)' /\ [PNext]_allVars
    => (TableInv /\ CopyInv)'
<1> SUFFICES ASSUME Core, ClosedOK, FileOK, TableInv, CopyInv, Core', FileOK', [PNext]_allVars
             PROVE  (TableInv /\ CopyInv)'
  OBVIOUS
<1>1. TypeOK /\ TypeOK' /\ HandOK /\ TablesOK BY DEF Core, FileOK
<1>2. CASE MachineStep /\ UNCHANGED persistVars
  <2>1. UNCHANGED <<saver, disk>> BY <1>2 DEF persistVars
  <2> QED BY <1>1, <1>2, <2>1, StepKeepsTable, StepKeepsCopy
<1>3. CASE /\ UNCHANGED persistVars
           /\ \/ agent = "up" /\ (shutdown \/ \E t \in Fresh : add_task(t) \/ add_task_refused(t))
              \/ \E w \in Workers : WorkerStep(w)
  BY <1>2, <1>3, MachineFacts
<1>4. CASE SaveTable \/ SaveHistory \/ SaveObject \/ SaveFile BY <1>1, <1>4, SaveKeepsCopy
<1>5. CASE Restart BY <1>5, RestartKeepsCopy
<1>6. CASE Load \/ LoadRefused BY <1>6, LoadKeepsCopy
<1>7. CASE UNCHANGED allVars
  <2>1. UNCHANGED vars /\ UNCHANGED persistVars BY <1>7 DEF allVars
  <2>2. MachineStep BY <1>1, <2>1, OtherRests DEF MachineStep
  <2> QED BY <1>2, <2>1, <2>2
<1> QED BY <1>3, <1>4, <1>5, <1>6, <1>7 DEF PNext

LEMMA CopyInit == PInit => TableInv /\ CopyInv
<1> SUFFICES ASSUME PInit PROVE TableInv /\ CopyInv
  OBVIOUS
<1>1. /\ saver = Idle /\ disk = NoSnapshot /\ tasks = {} /\ accomplished_task = <<>>
      /\ \A t \in Tasks : status[t] = "NEW" /\ heap[t] = 0
      /\ \A w \in Workers : pc[w] = "start"
  BY DEF PInit, Init
<1>2. TableInv
  BY <1>1 DEF TableInv, PresentOK, IndependentOK, HeapOK, HeldOK, FiledOK, Accomplished,
              Independent, Unfinished, ts_done
<1>3. CopyInv
  BY <1>1, IdleType, NoSnapshotType DEF CopyInv, ImageFiledOK, DiskFiledOK, KnownOK
<1> QED BY <1>2, <1>3

(* A save misses no task: in every behaviour with crashes and restarts,    *)
(* every task known when the save began and still known is in one of the   *)
(* two copies, or is overtaken.                                            *)
THEOREM SnapshotCompleteCorrect == PSpec => []SnapshotComplete
<1> DEFINE I == Core /\ ClosedOK /\ FileOK /\ TableInv /\ CopyInv
<1>1. PInit => I BY PersistInit, CopyInit
<1>2. I /\ [PNext]_allVars => I'
  <2> SUFFICES ASSUME I, [PNext]_allVars PROVE I'
    OBVIOUS
  <2>1. Core' /\ ClosedOK' /\ FileOK' BY PersistStep
  <2> QED BY <2>1, CopyStep
<1>3. I => SnapshotComplete
  <2> SUFFICES ASSUME KnownOK, saver.phase = "objects",
                      NEW t \in saver.known \cap (tasks \cup Accomplished),
                      t \notin saver.image.pending \cup Filed_in(saver.image)
               PROVE  Overtaken(t)
    BY DEF CopyInv, SnapshotComplete
  <2> QED BY DEF KnownOK, Remembered
<1> QED BY <1>1, <1>2, <1>3, PTL DEF PSpec
=============================================================================
