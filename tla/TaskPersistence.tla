-------------------------- MODULE TaskPersistence --------------------------
(***************************************************************************)
(* The task machine across saves, crashes and restarts of the process      *)
(* (AgentTaskQueue.to_dict and from_dict, BaseAgent._save_task and         *)
(* _load_task).  The save runs in an executor thread: it copies the table  *)
(* of pending tasks, then the history, then serialises the live AgentTask  *)
(* objects one after the other, while the loop's thread goes on between    *)
(* any two of these steps.                                                 *)
(***************************************************************************)
EXTENDS TaskMachine

CONSTANTS
  Retired,      \* the tasks whose tool may no longer be registered after a restart
  MaxSaves,     \* bound: how many saves start
  MaxCrashes    \* bound: how many times the process ends

VARIABLES
  agent,        \* "booting" until _load_task is done, "up", or "failed"
  saver,        \* what the saving thread has copied so far
  disk,         \* the task file
  saves, crashes

persistVars == <<agent, saver, disk, saves, crashes>>
allVars == <<vars, persistVars>>

NoSnapshot == [pending |-> {}, accomplished |-> <<>>, saved |-> {},
               status |-> [t \in Tasks |-> "NEW"], attempt |-> [t \in Tasks |-> 0],
               event |-> [t \in Tasks |-> FALSE], priority |-> [t \in Tasks |-> 50]]
Idle == [phase |-> "idle", known |-> {}, image |-> NoSnapshot]

Filed_in(image) == {image.accomplished[i] : i \in DOMAIN image.accomplished}

PInit ==
  /\ Init
  /\ agent = "up"
  /\ saver = Idle /\ disk = NoSnapshot
  /\ saves = 0 /\ crashes = 0

-----------------------------------------------------------------------------
(* save_agent_async: one save at a time (_persistence_lock). *)

\* to_dict copies the table of pending tasks, then the history.
Copy_swapped(image, n) == \* Fault: the history first.
  IF n = 2 THEN [image EXCEPT !.pending = tasks]
           ELSE [image EXCEPT !.accomplished = accomplished_task]
Copy(image, n) ==
  IF n = 1 THEN [image EXCEPT !.pending = tasks]
           ELSE [image EXCEPT !.accomplished = accomplished_task]

\* The first copy; "known" is what a full save must contain.
SaveTable ==
  /\ agent = "up" /\ saver.phase = "idle" /\ saves < MaxSaves
  /\ saver' = [phase |-> "table", known |-> tasks \cup Accomplished,
               image |-> Copy(NoSnapshot, 1)]
  /\ saves' = saves + 1
  /\ UNCHANGED <<vars, agent, disk, crashes>>

\* The second copy.
SaveHistory ==
  /\ saver.phase = "table"
  /\ saver' = [saver EXCEPT !.phase = "objects", !.image = Copy(@, 2)]
  /\ UNCHANGED <<vars, agent, disk, saves, crashes>>

(* The status the thread can read: between set_exception and set_ready an  *)
(* attempt that will be retried shows as EXCEPTION.                        *)
Readable(t) ==
  {status[t]} \cup
  (IF status[t] = "RUNNING" /\ attempt[t] < RetryLimit THEN {"EXCEPTION"} ELSE {})

\* v.to_dict() for one task of the two copies.
SaveObject ==
  /\ saver.phase = "objects"
  /\ \E t \in (saver.image.pending \cup Filed_in(saver.image)) \ saver.image.saved :
       \E s \in Readable(t) :
         saver' = [saver EXCEPT !.image.saved = @ \cup {t},
                                !.image.status[t] = s,
                                !.image.attempt[t] = attempt[t],
                                !.image.event[t] = event[t],
                                !.image.priority[t] = priority[t]]
  /\ UNCHANGED <<vars, agent, disk, saves, crashes>>

\* atomic_save_json: a temporary file takes the place of the old one.
SaveFile ==
  /\ saver.phase = "objects"
  /\ saver.image.saved = saver.image.pending \cup Filed_in(saver.image)
  /\ disk' = saver.image
  /\ saver' = Idle
  /\ UNCHANGED <<vars, agent, saves, crashes>>

-----------------------------------------------------------------------------
\* The process ends, at any point; a new one starts with an empty queue.
Restart ==
  /\ crashes < MaxCrashes
  /\ status' = [t \in Tasks |-> "NEW"]
  /\ attempt' = [t \in Tasks |-> 0]
  /\ event' = [t \in Tasks |-> FALSE]
  /\ priority' = [t \in Tasks |-> IF t \in Pinned THEN 0 ELSE 50]
  /\ tasks' = {} /\ accomplished_task' = <<>>
  /\ heap' = [t \in Tasks |-> 0] /\ waiters' = <<>>
  /\ pc' = [w \in Workers |-> "start"]
  /\ hand' = [w \in Workers |-> NoTask]
  /\ current_task' = [w \in Workers |-> NoTask]
  /\ task_mapping' = [t \in Tasks |-> NoWorker]
  /\ pause_event' = TRUE /\ turn' = NoWorker /\ closed' = FALSE
  /\ reports' = [t \in Tasks |-> <<>>]
  /\ agent' = "booting" /\ saver' = Idle
  /\ crashes' = crashes + 1
  /\ UNCHANGED <<disk, saves>>

\* The pending and the filed tasks of the file whose tool is still registered.
Pending(gone) == disk.pending \ gone

\* The filed ones stay in their order: the one sequence of them that does.
Histories(gone) ==
  LET old == disk.accomplished
  IN  {q \in UNION {[1..n -> Filed_in(disk) \ gone] : n \in 0..Len(old)} :
         /\ {q[i] : i \in DOMAIN q} = Filed_in(disk) \ gone
         /\ \A i, j \in DOMAIN q : i < j =>
              \E k, l \in DOMAIN old : k < l /\ old[k] = q[i] /\ old[l] = q[j]}

\* An execution the process did not survive is READY again.
Loaded_again(t) == "READY" \* Fault: whatever is in the file runs.
Loaded_asis(t) == disk.status[t] \* Fault: RUNNING stays RUNNING.
Loaded(t) == IF disk.status[t] = "RUNNING" THEN "READY" ELSE disk.status[t]

(* add finds the dependencies of an unfinished task to wait for: WAITING,  *)
(* one step below the lowest priority of its chain.                        *)
Waits(t) == Dependents[t] # {} /\ Loaded(t) \in Unfinished
Reranked(t) ==
  LET ps == {disk.priority[u] : u \in {t} \cup {d \in Dependents[t] : Waits(d)}}
  IN  1 + CHOOSE p \in ps : \A q \in ps : q <= p

(* from_dict adds the pending tasks while accomplished_task is still       *)
(* empty: a dependency that was already accomplished is unknown to add.    *)
Refused(t, gone) == Waits(t) /\ ~(Dependents[t] \subseteq Pending(gone))

\* The queue holds the tasks of "queued" and the table those of "table".
Restored(queued, table, filed) ==
  /\ tasks' = table
  /\ accomplished_task' = filed
  /\ heap' = [t \in Tasks |-> IF t \in queued THEN 1 ELSE 0]
  /\ status' = [t \in Tasks |->
       CASE t \in queued /\ Waits(t) -> "WAITING"
         [] t \in table \/ (\E i \in DOMAIN filed : filed[i] = t) -> Loaded(t)
         [] OTHER -> "NEW"]
  /\ priority' = [t \in Tasks |-> IF t \in queued /\ Waits(t) THEN Reranked(t)
                                                             ELSE disk.priority[t]]
  /\ attempt' = disk.attempt /\ event' = disk.event
  /\ waiters' = Notified(Cardinality(queued))
  /\ pc' = Wake(Cardinality(queued))
  /\ UNCHANGED <<hand, current_task, task_mapping, pause_event, turn, reports, closed,
                 saver, disk, saves, crashes>>

\* from_dict runs through: the pending tasks, then the history.
Load ==
  /\ agent = "booting" /\ turn = NoWorker
  /\ \E gone \in {{}, Retired} :
       /\ \A t \in Pending(gone) : ~Refused(t, gone)
       /\ \E filed \in Histories(gone) : Restored(Pending(gone), Pending(gone), filed)
  /\ agent' = "up"

(* add raises KeyError for t: _load_task, and with it the initiation, is   *)
(* left there.  The tasks before t in the file (any set of them here) are  *)
(* queued, t is in the table only, the history stays empty.                *)
LoadRefused ==
  /\ agent = "booting" /\ turn = NoWorker
  /\ \E gone \in {{}, Retired} : \E t \in Pending(gone) : \E before \in SUBSET Pending(gone) :
       /\ Refused(t, gone) /\ t \notin before
       /\ \A u \in before : Waits(u) => Dependents[u] \subseteq before
       /\ Restored(before, before \cup {t}, <<>>)
  /\ agent' = "failed"

-----------------------------------------------------------------------------
\* Task ids are never used twice: a task of the file is not submitted again.
Fresh == Tasks \ disk.saved

PNext ==
  \/ /\ agent = "up"
     /\ shutdown \/ \E t \in Fresh : add_task(t) \/ add_task_refused(t)
     /\ UNCHANGED persistVars
  \/ /\ \E w \in Workers : WorkerStep(w)
     /\ UNCHANGED persistVars
  \/ SaveTable \/ SaveHistory \/ SaveObject \/ SaveFile
  \/ Restart \/ Load \/ LoadRefused

PSpec == PInit /\ [][PNext]_allVars

\* The workers run, and a booting agent gets to its load.
PFairness ==
  /\ \A w \in Workers : WF_allVars(WorkerStep(w) /\ UNCHANGED persistVars)
  /\ WF_allVars(Load) /\ WF_allVars(LoadRefused)
PFairSpec == PSpec /\ PFairness

-----------------------------------------------------------------------------
(* Properties *)

(* A save misses no task: what was submitted when it began is in one of    *)
(* its two copies, however far the workers got in between, unless the      *)
(* bounded history forgot it in between (the order of the copies in        *)
(* to_dict, and of the two writes in add_accomplish).  A task that a retry *)
(* filed among the accomplished may be forgotten between the two copies    *)
(* and come back later: it is overtaken.                                   *)
SnapshotComplete ==
  saver.phase = "objects" =>
    \A t \in saver.known \cap (tasks \cup Accomplished) :
      t \in saver.image.pending \cup Filed_in(saver.image) \/ Overtaken(t)

(* What the file says is DONE is never executed again, in this process or  *)
(* after a restart (from_dict, get).                                       *)
DoneStaysDone ==
  \A t \in Tasks : t \in disk.saved /\ disk.status[t] = "DONE" => status[t] # "RUNNING"

(* A pending task without dependencies that reached the file ends,         *)
(* whatever crashes follow, unless its tool is gone, the machine is shut   *)
(* down, the load was refused because of another task, or retries that     *)
(* raised have killed every worker (EndsEventually).                       *)
SavedTaskEnds ==
  \A t \in Independent \ Retired :
    (t \in disk.pending) ~> (status[t] \in ts_done \/ closed \/ agent = "failed" \/ Deserted)
=============================================================================
