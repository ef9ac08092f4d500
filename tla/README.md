# TIYA: a verification project

TIYA ("Then I Ask You") is a chat bot on one asyncio loop: agents that talk to
a language model, run its tool calls as tasks and keep a long-term memory on
disk. This project models the parts of it whose correctness depends on the
order of events, checks them with TLC on small instances and proves the safety
of the core for every instance with TLAPS. Paths below are relative to the
repository; `agent/x.py` stands for `src/TIYA/agent/x.py`.

1. Inventory of the system
2. Plan
3. The modules, and how they correspond to the code
4. The runs: what each shows, bounds, fairness
5. The proofs
6. Findings and observations
7. What is not modelled

## 1. Inventory

### The agent

| component | state | operations | hard because |
|---|---|---|---|
| **task machine** (`agent/agent_structure.py`, `agent/agent_runtime.py`) | task objects (status, attempt, event, priority); `AgentTaskQueue`: table, bounded history, heap, condition; workers; pause event | `add_task`, `get`, `Worker.worker_loop`, retry, timeout, `pause`, `resume`, `shutdown` | workers share one heap and one condition; a retry re-enters the queue before the end-of-attempt bookkeeping; the history that dependencies are looked up in is bounded |
| **task persistence** (`to_dict`/`from_dict`, `_save_task`, `_load_task`) | the task file | save from an executor thread, load at start | the thread serialises live objects; the process may end anywhere |
| **control loop** (`agent/agent.py`) | gate event, suspend event, reaction and retry counters, open tool calls, context rounds, callbacks to merge | `run`, `handle_response`, `callback`, `_merge_callback`, `interrupt_control` | `run` waits for an `asyncio.Event` and clears it: not a lock; nine ways out; callbacks arrive in the middle of requests |
| **scheduler** (`agent/agent_scheduler.py`) | APScheduler jobs | add, remove, fire (adds a task) | jobs fire while the agent is suspended or loading |
| **chat agents, tools, skills** (`agent/group_chat_agent.py`, ...) | attention, pending replies, skills | tool bodies | a tool may wait for another task and so occupy a worker |

The control loop adds tasks; workers execute them and schedule callbacks on
ending; callbacks run the control loop again. The correctness of the three
together: no task is lost, none is executed twice at once, each ends and is
reported once, results reach the model, the loop never stops for good.

### The language model client and its queue

| component | state | operations | hard because |
|---|---|---|---|
| **LLM client** (`LLM_connect.py`, `LLM_usage.py`) | conversation context of rounds, chat queue, usage | `post`, `ask`, `stop_*`, context editing, payload construction | stopping races with answers; a tool call must have exactly one response in the payload |
| **async work queue** (`aqueue.py`) | queue, dynamic workers, interval gate | `put`, worker loop, `kill` | tasks left behind by `kill`; the same wait-then-clear event; a task in the queue has a timeout and may be cut off anywhere |

### The memory

| component | state | operations | hard because |
|---|---|---|---|
| **split ingest** (`memory/services/ingest_service.py`, `split_ingest_job_service.py`) | chunk queue, generation, gate, drain, journal, records, context events | pipelines, rebuild on overflow, ordered commit, resume | several overflows in flight at the rebuild; four-step commit; crash and resume; a resume beside a live batch |
| **buckets and locks** (`memory/engine.py`, `engine_runtime.py`, `bucket_handle.py`, `services/bucket_*`, `governance_service.py`, `record_service.py`) | buckets, redirects, title maps, one lock per bucket, the global meta lock | create, move, delete, compress, split, seal and redirect | two lock orders; bucket ids read before the lock is awaited; a rewrite spans a model call and many commits |
| **storage and indexes** (`memory/storage.py`, `index_repository.py`) | append-only files, index, journals | append, load, compact | torn writes, index behind the data |
| **maintenance** (`memory/services/optimize_service.py`, ...) | none of its own | compress, alias, forget, split | rewrites what others read |
| **migrations** (`memory/services/migration_service.py`, `storage.py`) | the live data with their version, a backup, the workspace and the rollback of a run, a lock, a journal | lock, backup, the chain of steps on a copy, the switch item by item, restore | the switch is seven deletions and moves; it may fail in the middle, its restore may fail, the process may end anywhere and start again |
| **queries, reranking** | access times | read, rank | little |

### Sessions and the bot

| component | state | operations | hard because |
|---|---|---|---|
| **dialogs** (`dialog/*.py`) | message counters, summaries, locks | take a message, summarise, answer | messages arrive during summaries |
| **chat sessions** (`qq_group.py`, `private_chat.py`, `input_hub.py`, `input_manager.py`) | table of live sessions, one history file each, notices waiting for an answer | wake, accept, reap, shut down, wait for a notice, expire it | a message for a session that is being reaped; an answer racing a timeout, an expiry or a shutdown |
| **bot entry, runtime control** (`QQ_bot.py`, `mybot.py`, `runtime_control.py`) | running components | start, hot reload, shutdown | reload during load |
| **models** (`model/*.py`), **relatedness** (`relatedness/*`) | histories, personas, graphs | read/write lock, scoring | real-valued statistics |
| **auto mapping** (`auto_mapping.py`) | a dictionary, the changes not yet written, a SQLite table, a copy in the hands of whoever writes | set, get, delete, `flush`, `persist`, `kill`, load, migration of the old JSON file | callers and writers on different threads; a failed write gives its changes back to a set that has moved on; crashes |
| **file cache** (`file_cache.py`) | files named by hash, a row with the time of use for each | add, get, renew, remove, clean up, built-in files at start | file and row are two stores; the cleanup works on a list it read earlier; the process may end between the two |
| **picture service** (`setu/*.py`) | the pages of a group that may be sent, are frozen by a request, or were used | fetch, search, choose, freeze, send, mark used, unfreeze | requests overlap; a request that fails leaves its pages frozen for a timer; the send API may time out after it has sent |
| **storage cleanup, favourites** | persisted tables | periodic deletion | little |
| **chat APIs, config, logger, helpers** | little | network, files, strings | mostly input and output |
| **`waiting_rebuild/`** | | | imported by nothing |

`PROJECT.json` lists every component with its sources and status, and the
hazards of the code, each at its line with the properties that would catch it.

## 2. Plan

In order of importance to the system, each module before those that build on it:

1. **TaskTypes, TaskMachine, TaskLifecycle**: the task machine, its abstract
   specification, proofs. *Done.*
2. **TaskPersistence**: the task machine composed with its saving thread, crashes
   and loads; proofs. *Done.*
3. **SplitIngest**: the batch, the commit, the journal and the resume; proofs. *Done.*
4. **AgentControl**: the control loop and the merge of callbacks; proofs. *Done.*
5. **BucketTree**: bucket locks, the global meta lock, redirects, titles, and the
   rewriting of buckets by compression and split; proofs of the locks and the redirects.
   *Done*, but for `optimize`, which rewrites and seals without any lock, and
   `update_memory`.
6. **AutoMapping**: write-behind persistence with failures, crashes and the
   migration of the old file; proofs. *Done.*
7. **FileCache**: files and rows, cleanup, built-in files, time; proofs. *Done.*
8. **PrivateChat**: objects of one user made and reclaimed, their queue and
   dialogs, notices; proofs. *Done.*
9. **PictureLibrary**: the pages of a group beside requests that fail; proofs. *Done.*
10. **SchemaMigration**: the upgrade of the memory's data at start; proofs. *Done.*
11. **ChatClient**: the context, the queue and the payload normalisation of the language
   model client, composed with the runs of the agent that use it; proofs. *Done.*
12. Compositions: AgentControl over the abstract TaskLifecycle instead of its own
   three-valued task; the scheduler as a further source of tasks. *Left.*

Abstract specifications worth stating: the life of a task (done); a
mutual-exclusion specification for the buckets (left). Theorems worth proving
next: `MemoriesStay` of BucketTree for operations one after the other (section 5 says why it is
not among those proved, and what is proved of the others).

## 3. The modules

One atomic action is a stretch of a coroutine between two awaits, or a part of
such a stretch; the map in `PROJECT.json` names the lines of each definition.
Definitions with a comment that begins with *Fault* are wrong variants of the
definition below them; no specification uses them. They are kept to show which
mistakes each property can see.

**TaskTypes**: statuses, callback modes, and what `Worker._callback` asks of the
agent for a mode and an end.

**TaskMachine**: `AgentTaskQueue`, `Worker`, `AgentWorkerManager` and `add_task`.
`heap[t]` counts the entries of `t` in the heap, so that a double push would
show; priorities are the code's numbers, ties are broken in every way.
`waiters` is the FIFO of the condition; a notified worker is `woken` and may run
later. `turn` names the worker in the middle of a stretch that the code does not
interrupt: `Take` of an attempt that is one too many, an outcome and the next
look at the heap. `hand[w]` is the local variable `task` of a worker, which
`get` uses to keep a waiting task off the heap. The outcomes of a tool are
`Succeed`, `GiveUp`, `Retry` and `RetryLost` (the re-add raises `KeyError`
for an evicted dependency and the worker dies). `shutdown` is
`shutdown(wait=False)`, with the cancellations arriving later.

**TaskLifecycle**: the abstract specification, a phase and a number of tries per
task. `TaskMachine!Life` refines it: phase from status, tries from attempt.

**TaskPersistence** EXTENDS TaskMachine. The saver copies the table, then the
history, then reads the live objects one at a time, with any step of the loop in
between; `SaveFile` is the atomic replacement. `Restart` keeps only the
file; `Load` and `LoadRefused` are `from_dict` with and without the
`KeyError`. A tool can have disappeared from the registry (`Retired`). A task that
was DONE already when it was loaded is filed when it comes to the head of the heap; that a scan of
`get` over what depends on it could file it a little earlier is left out.

**SplitIngest**: the coordinator (`live`), the pipelines (`place`, `item`,
`local_generation`), the resume (`resume`, `listed`, `mine`) and the disk
(`journal`, `stored`, `events`). `Release` is the end of a pipeline's
in-flight section, including the drain event. `RaiseBatch` is an exception or a
cancellation at any await of the batch, `ResumeRaise` the same for a resume,
which writes back the journal as it was listed. `Crash` keeps the disk.

**AgentControl**: each runner is a coroutine inside `run`, which may come from a
user, a review or the leader of a merge. `event` is `_run_event`;
`suspend_event` is `~suspending`. An `asyncio.Event` is modelled as it is:
`set` puts all waiters into `woken`, and a woken coroutine goes on even when the
event has been cleared again. `Enter` is everything from the gate to the
request, with its refusals; `Answered`, `Retry`, `Failed` and `Overflow` are the
outcomes of an attempt. `Overflow` is the half of `compress_context` that detaches the
calls; the run then waits for a summary at "comp", where `Compressed`, `CompressFailed` (an
exception) or `MergeTimeout` (a cancellation) find it. Whoever leaves a request under way
leaves it to the client (`orphan`), which works on it to its end: `LateAnswer` adds question
and answer to the context, or nothing. `window` has the calls of each round, and
`answered` says whether the last of them has an answer; a question without one is joined by the
next. `Handle` and `HandleEnd` are `handle_response`.
The task of a call is reduced to none, running, done, called back: what the task
machine promises of it. `overlapped` and `late` are history variables; no action depends
on them. `late` counts the rounds behind the last one whose answer somebody waited for.

**BucketTree**: the bucket tree (`tree`, `title`, `root`), the latest revision of
each record (`rec`), the locks (`owner`, `meta`) and the callers. Buckets are
numbered in the order of their creation; the key of a bucket's node record is the
bucket. `pc[p]` and `job[p]` are the place and the local variables of an operation.
It begins with `Ask`, which resolves the redirects as the code does before it waits;
`Acquire` takes one lock at a time in the order of the ids. Compression and split
share the rest: `Snapshot`; the plan of the model, which may be any plan
(`PlanSuccessor`, `PlanSplit`, `TurnToSplit`); one record after the other
(`Fetch`, `Link` for the bucket behind a node, `Out` and `In` for the two revisions
of a move, `In` alone for the rebuilt record of a compression); `Seal` and
`Switch`. `Raise` is an exception of the code itself, a sealed bucket written
to or a title that clashes, and releases the locks where it stands. `add_memory`
goes on with the automatic management: `Forget`, and, under the lock again,
`Pressure` and `Managed`. `resume_jobs` writes one memory and manages its
bucket under the meta lock and no bucket lock. `Overflow` is an ingest that finds the bucket
too full: it is compressed, by `add_memory` under the bucket's lock, by a resumed job
without it, and `Return` has the memory ingested again (kind "again"; a resumed job
manages the bucket first, and is paused with its memory unwritten by a second overflow). `CancelWait`
is the cancellation of a caller that waits: what it already holds of several locks is
then `Leaked`, held by nobody. A split makes one group; one title
stands for all. `origin`, `titled`, `gone`, `shared`, `stale` and `bare` are history
variables: `shared` says that two operations have overlapped, `stale` that a link
was changed for a bucket that was already sealed, `bare` that a bucket was compressed without
its lock while another caller held it. No action depends on them but
for the bound in `Ask`. Other callers of the same unlocked compression are not modelled: a long memory
ingested into a bucket its own call has just created (`ingest_service.py:570`), and the optimisation and
the records of `optimize_service.py:225` and `record_service.py:129`.

**AutoMapping**: the dictionary (`mem`), the changes not yet written (`dirty`), the
copy a writer works on (`taken`) and the table (`db`). A value is the number of
the change that made it, so that "older" can be said. One writer at a time holds
`_drain_lock` (`drainer`): the loop, a `flush`, the first persist of a start, or
`kill`. `DrainStart` takes the copy and clears `dirty`, `DrainCommit` is the
transaction, `DrainFail` (`sqlite3.Error`) gives the copy back to keys nobody has touched since,
and `DrainRaise` (any other exception) does not. The history variable `lost` has the keys whose
change was dropped in either way.
`Initiate` is the load, which replaces the dictionary; with keys in `Legacy` it
reads the JSON file until the row `migration_completed` is there (`Mark`).
`Restart` is a crash or an end of the process anywhere.

**FileCache**: `file` is the directory, `row` the table. What runs under `_lock` is
one step, but for the steps named `...Half`, where the file was changed and the
row was not. Threads of the executor call `add_file` (`AddLook`, `AddPlace`),
`get_file_path`, `renew` and `remove_file`; the cleanup scans for files without a
row in batches, then selects rows that are over age and deletes one at a time
(`CleanItem`, which looks again). Time is kept as ages, which `Tick` raises: a call
takes the time before it waits for the lock, so `lag` says how old the time is
that it will write.

**PrivateChat**: the objects of one user (`made`, `registry`), each with its history,
queue and worker; `Reach` is the lookup that makes a new object when the registered
one is not enabled, and loads it. `CloseBegin`, `CloseSave`, `CloseEnd` and
`CloseFails` are `shutdown`, for the reaper and for the end of the process alike.
A notice is sent (`Ask`, `AskSent`, `AskFails`), waited for (`WaitStart`, `Woken`,
`WaitTimeout`, `Settle`, `GiveUp`), answered by the next message, or expired by its
timer. A history is the set of its messages.

**PictureLibrary**: the library of a group (`available`, `frozen`, `used`, attempts) and
the requests, which choose under `_query_lock`, freeze, prepare files, send in
batches and give the rest back. `Cut` is an exception or the timeout of the queue
anywhere; `MarkFails` is an API answer that comes too late; `Timeout` is the
unfreeze task, `TimeoutEarly` the one that finds some freezes too young, which needs no bound
of its own because it uses up the timer; `End` is the end of the process, after which the file
has what memory had. Scores and filters are left open: any page may come first.

**SchemaMigration**: the places data can be (`live`, `backup`, `workspace`, `rollback`, and
`left`, the rollbacks of runs that crashed), each a function from the seven items that
are switched to what is in them. An item is gone, whole, damaged, or, for the tree and
the version, in the form of a version; `Whole` says which of these belong together.
`Open` is `MemoryStorageV3()`, which makes what is missing and refuses a database
beside an older version. `Acquire` and `LockExists` are the two outcomes of the lock;
`Step` is one step of the chain by what it needs and what it leaves; `SwitchDelete` and
`SwitchMove`, `RestoreDelete` and `RestoreCopy` go through the items one at a time.
`GiveUp` is what `except` and `finally` do, for every failure. `Interrupt` is an exception
that no `except` takes, `Crash` the end of the process; both may come anywhere.
`before`, `halfway`, `torn` and `unconfirmed` are history variables.

**ChatClient**: `Chat` of `LLM_connect.py` under `BaseAgent.run`. The context is the sequence
of its rounds; a prompt is told apart as the code's objects are, by identity, since a
retry repeats the same objects. `Normalised` is the loop at the head of
`_payload_constructor`: what is sent, and what is discarded from the context or kept
as a notice for it. `Start` is the worker of the client up to the request, with the
discarding; `Answer` and `Nothing` are its ends, whoever still waits (`Waits`: the
event of the request is not set). On the other side `Begin` is `run` up to its loop, with the
rollback, the forced stop and the results of the open calls; `Ask` puts a request
in the queue; `Unanswered`, `Timeout`, `Cancelled`, `Answered` and `Overflow`
are the ways it ends, and `Again` is the condition of the loop. `Overflow` detaches the open
calls; until `Compressed` has replaced the context they are still in it, and
`CompressionFails` (an exception, or the cancellation by `wait_for`) leaves them there. `Cancelled`
finds a run at any other of its awaits; in `Answered` a `handle_response` that is cut off or fails
makes tasks of the first calls only. `Interrupt` is
`interrupt_control`, which stops the request under way and none that waits. The gate
lets any run in that comes while it is open: AgentControl has the gate in detail. `said`,
`lost`, `late`, `unusual` and `abandoned` (the calls that were let go while the context
kept them) are history variables, as are `asked` and `away` in a run's `job`.

**MCBucketTree, MCTaskMachine, MCTaskPersistence, MCPictureLibrary, MCChatClient** give the constants
that a configuration file cannot write; the modules named **...Proofs** hold the proofs.

## 4. The runs

| run | instance | shows |
|---|---|---|
| task_machine | tasks a, b (pinned), c and e after a, d after c; 2 workers; 3 attempts; history of 1; paused with at most 4 tasks, shut down with at most 3 | no task is in two places, none is lost, each end is announced once, dependents start after the dependencies the machine remembers, no wake-up is lost for an independent task, `TaskLifecycle` is implemented, independent tasks end unless both workers have died |
| task_persistence | tasks a, c after a; 2 workers; 1 save; 1 crash; c's tool may be gone | a save misses no task (one that a retry overtook apart), what the file calls done is not executed again, what it calls pending ends |
| split_ingest | 3 chunks, 2 pipelines, 1 crash, 1 resume | chunks are conserved across overflows and the rebuild, no pipeline works across the rebuild, the journal never claims more than the disk holds, batch and resume end |
| agent_control | 1 user, 2 leaders, 3 calls (one waited for, one in the background), 1 reaction, 1 fault with what it leads to, 1 interruption; late answers | the gate is never left shut, results have one collector and are taken, self requests are bounded, answers go to calls the context has |
| bucket_tree | a root, a titled child, 1 memory anywhere or nowhere; 2 callers; 3 operations one after the other, 2 that may overlap; depth 3 | no bucket has two successors and the stored root leads to the live one, whatever interleaves, except after a compression without the lock; callers wait for ever in two ways only; with operations one after the other no memory is lost, none comes back, titles, parents and node records agree |
| auto_mapping | 1 key, 3 changes, 1 failed write, 2 starts, the key in the old file | a difference between dictionary and table is on its way to the table; what `flush` or `kill` has confirmed stays written across crashes; changes are written without another call |
| file_cache | a built-in file and another; 1 caller thread beside the starter; period 1, lag 1; 2 calls or errors, 1 end | the cleanup deletes nothing in use or permanent, the built-in files are there, space is freed in the end |
| private_chat | 1 message of the user, 1 of the bot, 1 notice; 2 objects, 1 start by itself, 1 failed shutdown, 1 end | no message is lost between objects, an answer reaches who asked, who asks comes back, an idle chat is closed |
| picture_library | 2 galleries of one page; a request by id, a search; limit 2; 2 fetches, 1 fault | a page is sent once, none is lost, what is frozen comes back |
| schema_migration | data of any earlier version, 3 faults among exceptions, interrupts and crashes | the memory starts with all it had or not at all, all data are somewhere on disk, a refused upgrade has changed nothing |
| chat_client | 1 run for the user, 2 of the agent's own; 2 asks a run, 3 calls, 2 faults, 1 interruption; rollback after 1 failed run, forced stop at the second reaction | each call that is sent has its one response, where the interface wants it, and no response is without its call; what was said stays in the context; with runs one after the other results answer their own calls, and only calls a cut-off let go are closed |
| dependents_wake | 3 workers; see section 6 | a violation of what the documentation says |

**Why these bounds are enough for the questions asked.** Two workers and three
tasks give every pair of roles (executing, waiting, holding a waiting task, just
notified), a fourth is needed for a chain, whose middle is a task that is retried and
depended on, and a history of one makes evictions happen. The fifth task and the third attempt
are for the end of all workers: c is retried, which files it and evicts a, and then the next
retries of c and of e raise, each in a worker of its own, while b is pending. The state
constraint `Bounded` keeps these five tasks within the time of a run: the machine is paused only
while at most four of them are submitted and shut down only while at most three are. dependents_wake needs a third worker, for a
notification to go to the wrong one. Three chunks and two pipelines give two
overflows in flight at once with a chunk still queued and one done; the code
allows one rebuild per batch. One crash is followed by a load or a resume that
may itself fail. In agent_control two leaders are needed because the second
callback must find the first one collecting, three calls because a response can
make one call while an older one waits and a background task ends; `MaxReact`
and `RollbackAt` are at their least values, where the limits bite at once. One fault is a request
that fails, is repeated, overflows, with whatever then ends its compression, or a timeout, and its answer
comes late; an interruption is the second. With two faults the safety properties were
checked once (1.7 million states); they are proved for any number.
In bucket_tree three operations are the length of the shortest sequences that
break titles and parents (change a child, rewrite its parent, look), and two is the
least number that overlaps. The numbers of buckets, two and three more for each operation, suffice for a
compression and for group and successor of the split the automatic management adds to it; an
operation that overflows as well can need two more, and has them as long as others of the behaviour
do not use theirs up. Two callers with two memories have more than ten million states and are not a
run. Keys of AutoMapping
do not touch each other but through the writer's copy, so one key with three changes,
a failure and two starts has every order of change, copy, failure and crash. In
file_cache a caller, the starter and the cleanup are the three kinds of threads,
and the two hashes the two kinds of files. In private_chat two objects are one
handover; in picture_library two requests over two galleries are one conflict,
and `Limit` 2 has a page that returns and one that is given up. In schema_migration
three faults are a failed switch, a failure of its restore, and a crash in the run after it. In
chat_client an interruption lets a second run in while the first one's request goes on, the
third follows both, two faults are a request that brings nothing and its retry, or an overflow and
a compression cut off, and three calls are
two that wait together and one of the next answer. Runs of a kind are symmetric, as callers and
memories are; the runs with symmetry check no liveness property, so it is sound.
The bounds `MaxSaves`, `MaxCrashes`, `MaxResumes`, `MaxAsks`, `MaxFaults`,
`MaxInterrupts`, `MaxNew`, `MaxOps`, `MaxShared`, `MaxChanges`, `MaxErrors`, `MaxStarts`, `MaxEvents`, `MaxObjs`, `MaxRouses`, `MaxEnds` and `MaxFetches` limit the environment only; no proof rests on their values (the
counters they bound have them in their types, no more).
`MaxFaults` of SchemaMigration, ChatClient and PictureLibrary (a failure of a request or an
end of the process) bounds faults of all kinds together, as `MaxEvents` does the calls and
errors of FileCache. `Reviews` is empty
in the run: a review is a leader without results, and the proofs cover both.

**Deadlock** is not checked: the system may stop, when every task has ended,
when it was shut down, or when the environment's bounds are used up. In
BucketTree, where callers do wait for each other, `NoDeadlock` says when they may do so for ever.
The liveness properties say instead that it does not stop half-way.

**Fairness.** Weak fairness of each coroutine: the asyncio loop runs every
coroutine that can run. That an execution, a request or a chunk ends at all is
fair because the code gives each a timeout (`wait_for` in `worker_loop`,
`ask_timeout` of the memory's model calls, the timeouts of the control's request
and of the tasks it waits for). In AutoMapping the loop thread and each call under way
are fair, in FileCache the threads, the cleanup and the passing of time, in
PrivateChat the worker of the queue, dialogs that come to an end, timers and the
reaper (not the timeout of a wait, which may have none), in PictureLibrary the
requests and the unfreeze timer. No fairness is assumed of the environment: users,
faults, crashes, pause, resume, interruptions, saves and the start of batches
and resumes.

`EndsEventually` and `SavedTaskEnds` are about tasks without dependencies,
because for others the documented behaviour does not hold (section 6); they
except a machine that is paused or shut down, and one whose workers have all died (`Deserted`;
section 6). `ControlGoesOn` (the gate opens, results are
taken) excepts, in its second half, a suspended agent, which waits for its user by design.

`MemoriesStay` and most of `TreeAgrees` are stated
for `Alone`: no two operations have overlapped and no link was changed for a sealed
bucket. Both exceptions are where the code does lose things (section 6); up to
them the properties bind every sequence of operations, with every plan. `SealedOnce` and the
root part of `TreeAgrees` hold for operations that overlap too, up to a compression without the
lock beside a holder of it (`bare`), and for the callers of the run: section 6 says where more of them could
break them. `NoDeadlock` excepts an `Embrace` and a lock that is `Lost`. `SnapshotComplete` excepts a task that is `Overtaken`, in the sense that follows.
`DependenciesDone` excepts a dependency that is `Overtaken`: one with dependencies of its
own that was retried, or failed with them. In the same way `HistoryIsThere` excepts an object made before the one before it had
saved, and what is said after the end of the process has saved; `SentOnce` excepts
pages sent without being frozen and messages nobody marked; `DifferenceIsPending`
and `PromiseIsKept` except a change that a failed write did not give back (`lost`); `FrozenReturns`
excepts a timer that found pages too young (`young`); `ReadyIsWhole`, `DataSurvive`
and `FailureIsHarmless` except a run that gave up in the middle of a switch (`halfway`),
and the first of them a start after one that removed the lock (`unconfirmed`) or a crash in a
restore (`torn`); `SaidStays` excepts notices whose request brought nothing (`lost`), and
questions that are in the context twice after an answer for nobody (`late`);
`PayloadPaired` excepts, of the place a response has among its neighbours and not of its
being there, what follows an answer for nobody together with overlapping runs, a forced stop or a
rollback;
`ResultsAreResponses` excepts such answers, overlapping runs, forced stops and rollbacks
(`unusual`), and of its second half the calls that a compression or a handling cut off has let
go (`abandoned`). `AnswersAreOpen` excepts runs that overlapped, and counts as the last
round the last one whose answer somebody waited for (`Open`). Section 6 says what each is.

## 5. The proofs

Checked by TLAPS with its SMT backend, Zenon and LS4, for every value of the
constants.

**TaskMachineProofs** (assumptions `TaskAssumption`: finite tasks, positive
limits, typed constants; and `PinnedAssumption`: no pinned task has dependencies, as
neither caller that pins gives it any, `agent.py:1283`, `:1300`). `OnePlace` and `NothingLost` are not inductive: that a
push is safe depends on where the worker that pushes stands and on what it has in
hand. The invariant adds `HandOK` (a worker has a task in hand exactly when it
executes, or waits with one it took from the heap), `WaitersOK` (the FIFO has each
waiting worker once and no other), `UnsubmittedOK` (a task that was not added is
nowhere), `AttemptsOK` (the attempts so far fit the status: what makes "at most
`RetryLimit` executions" hold) and `ClosedOK` (after shutdown only cancellations move).
From it follow `TypeCorrect`, `OnePlaceCorrect`, `NothingLostCorrect`,
`EndIsAnnouncedCorrect` and `LifecycleCorrect`, the refinement: every step of the
machine is a step of `TaskLifecycle` or a stutter. `DependenciesDoneCorrect` has an
invariant of its own on top. `QueuedOK` and `PriorityOK` say that a task with dependencies is
never taken from the heap unlooked at, because `add` gives it a place in the chain
and so makes it WAITING; `PresentOK` that what is unfinished and was never
retried is in the table. With them what a running task depends on comes back from being
forgotten only overtaken. Every action is shown to be about one task (`About`) or about
none (`Quiet`), and the invariant is kept by these two.

TaskPersistence is proved about in the same module. A load gives the machine a state its own
runs do not reach (a task that is DONE already, dependencies nobody will bring), so the
invariant is split. `Core`, one place for each task and what the status, the heap, the FIFO and
the hands say of one another, is kept by the steps of the machine and established
by a load: `OnePlaceAcrossRestarts`. What rests on the attempts so far (`LivesOK`) is not, and is
proved without restarts only. `DoneStaysDoneCorrect` adds `FileOK`: nothing is ever less
done than the image the saver collects or the file says (`SaverOK`, `DiskOK`), and whoever is known
to either was submitted. `SnapshotCompleteCorrect` adds `TableInv` and `CopyInv`: a task leaves
the table only for the history, and what is filed has ended or was filed by its own retry, in
memory, in the image and in the file alike (`FiledOK`, `ImageFiledOK`, `DiskFiledOK`). So what the
first copy misses is gone for good or is still in the table for the second (`KnownOK`); the
exception is the task that a retry filed, that was evicted between the two, and that is back.
The limits of a loaded queue need the greatest priority in the file to exist, for any
finite number of tasks (`LargestExists`, by the well-founded order of the subsets).

**MemoryProofs** is about SplitIngest and BucketTree.

For SplitIngest (`SplitAssumption`), `ChunkConserved` needs to know
which pipelines have an item and what the gate says while a rebuild is pending:
`PipesOK` ties place, item and generation of each pipeline to the coordinator's,
`GateOK` says that from the report of the first overflow to the rebuild nobody
enters. From these `ChunksConserved` and `RebuildIsAlone`. `JournalCorrect`
needs only what each writer remembers: `committed`, `mine` and the `listed` journal
are all stored with their events, so that whoever writes last, the journal is
honest; a completed journal is complete because a batch completes only when all
its chunks are done.

For BucketTree (`BucketAssumption`: a finite set of callers that is not empty, kinds of
operations the code has, names of memories that are not names of buckets, and `None` and `Leaked` that
are no callers) the invariant
`BucketInv` has three parts. `DataOK` with `SealsOK`: every id in the tree and in a record is
that of a bucket that exists, and a successor is younger than what it succeeds; this
is why the recursive `Resolve` is well defined (a least counterexample, by the well-founded
order of the numbers) and why redirects end at a bucket that is not sealed, `RedirectsEnd`.
`Fits` says of each place in an operation which of its local variables have been assigned. `LocksOK`
says that whoever waits for a bucket holds smaller ones only, and that the meta lock is given
back before a bucket is wanted, except by a resumed job. For `NoDeadlockCorrect` let everybody
who is not idle wait, and no lock that is waited for be lost: then each has an owner, who is not idle. The
holder of the greatest bucket anyone waits for cannot wait for a bucket itself, so
it waits for the meta lock, and whoever has that one is a resumed job that waits for a bucket.
`OrderedLocksSuffice` is the same without resumed jobs, where nobody is left to wait for: the order of
the locks suffices as long as nobody wants a lock that was lost with a cancelled caller.

**AgentControlProofs** (`ControlAssumption`). The invariant joins `TypeOK`,
`GateIsHeld`, `OneCollector`, `ReactIsBounded` and `Alone`: while no two runs
overlapped, at most one is inside the gate, and where it is determines how the
open calls relate to the last round that was claimed: past it there are only answers for nobody,
which `late` counts, and while a context is being compressed no call is open. `ReactIsBounded` rests on the finiteness of
`Selves` and the cardinality facts of `FiniteSetTheorems`.

**CacheProofs** is about AutoMapping and FileCache.

For AutoMapping (`AutoMappingAssumption`) versions order the four places a change
can be in. `Newer` says that what waits is not older than the dictionary, `Kept` that
no change is forgotten, `Asked` and `Promised` that nothing older than a promise is
left anywhere that could overwrite it: `PromiseCorrect`. `Faithful`, that what waits
is what the dictionary says, gives `DifferenceCorrect`.

For FileCache (`FileCacheAssumption`) `UsedStaysCorrect` is an action property: the
cleanup looks at a row again before it deletes, so it needs `Fresh` (a row is older
than the last use by the length of a call at most) and `Lasting` (what was last added
as permanent is there and permanent). `BuiltinCorrect` needs `Roles`, `Apart` and
`Seen`: what the starter knows between its look at the file and at the row.

**PrivateChatProofs** (`PrivateChatAssumption`). `HistoryCorrect` rests on `Ordered`
(objects follow one another; what is not enabled is somewhere in its shutdown),
`Quiet` (what the reaper closes says nothing after it has saved) and `Kept` (where
the messages are at each step of a shutdown). `AnswersCorrect` rests on `Answers`,
which follows an answer on its way to who asked.

**PictureLibraryProofs** (`PictureLibraryAssumption`). `LibraryCorrect` needs `Stages` and
`Attempted` (an attempt is a freeze). `SendingCorrect` needs that whoever has frozen a
page has it alone (`OneOwner`), sends only what it has frozen (`Held`), that what is
in the chat cannot be chosen again (`SentIsGone`), and that what nobody fetched is
nowhere (`Known`).

**SchemaMigrationProofs** (`SchemaMigrationAssumption`). That all data are somewhere is not
inductive: the proof must know where. `Good` says it for each place of a run, from "live"
to "in the rollback, and live as far as the switch has come", and what is missing when the
run is not the first. `DataCorrect`, `ReadyCorrect` and `FailureCorrect` each have an
invariant of their own (`SInv`, `RInv`, `FInv`), since each excepts something else.

**ChatClientProofs** (`ChatClientAssumption`). What is appended, discarded, flattened and
normalised are recursive functions over sequences. Each has its recursion equation and what it does to
one element more, and what holds for every sequence follows from a set that has the empty
sequence and with a sequence those longer by one (`SeqInduction`, from the least number outside
such a set). On these lemmas (`AddedFacts`, `DiscardedFacts`, `SeenFacts`) rest four invariants.

- `SaidInv`, for `SaidStaysCorrect`: what a run set out to say is said by its prompts or by the
  notices that stand for them, in the context, with the worker or in the job; a request under way
  has the prompts of whoever waits for it as long as it shares them (`RequestShares`); and no
  prompt is in the context twice, nor in it before its answer, unless an answer was late.
- `ResultsInv`, for `ResultsAreResponsesCorrect`: as long as runs follow one another and no answer
  is late, the calls that wait at the end of the context are the open ones and some of the abandoned
  (`ContextClean`), and
  the prompts of the run in its turn answer each of the open (`Resolves`, for any context
  that leaves these calls to wait). So only abandoned calls are closed and discarded, and nothing is
  an orphan. `Clean` also says that no response in the context is to a call that waits: without
  an abandoned call it is as it was (`CleanWithout`), and letting open calls go keeps it (`CleanLetGo`).
- `PairInv`, for `EachPairedCorrect`, without any exception: a call is in the context once
  (`ContextCalls`, since its number is new), who asks brings no calls (`Askers`), and the
  normalisation keeps what it has written paired but for the calls that wait (`Paired`).
- `PayloadInv`, for `PayloadPairedCorrect`, which has the same exception as the property: either no
  answer came late, or no runs overlapped, none was stopped by force with calls open and no round was
  taken back, and each case has an invariant of its own. Both speak of an account of the context (`Account`): the calls that wait, those
  that waited when one of their message was answered (`half`), those that still did when the
  model spoke next (`left`), the responses that are sent as such and what is dropped. With
  nothing `left` what is sent is `Straight` (`NormalisedStraight`); so both say that the context is
  `Even`, and what they need besides is that it stays so when prompts are discarded from the middle.
  `FitInv` is for both: the prompts of a run are responses, each once and its own, and then text.
  - `Timely` (no answer late): the context is even wherever it may be cut (`CutsEven`), since
    an overlapping rollback may take rounds from its end; a call waits at one cut only
    (`CutsApart`); what the request under way will add leaves none waiting at any of them
    (`Followed`); and a response is in the context only when its run has its answer
    (`ResponsesApart`), so that no response that was used is discarded (`UsedKept`).
  - `Whole` (not `unusual`): there is nothing to cut, but the responses of a run
    that asks again may be in the context already, from its late answer. Then they are the
    last in it (`Latest`) or not in it at all (`Unused`); the retry discards all of
    them together with the calls that are closed, and what is left is even again (`LatestCut`).

**Only model-checked**: everything that rests on fairness (`EndsEventually`,
`SavedTaskEnds`, `IngestEnds`, `ControlGoesOn`, `ChangesAreSaved`, `SpaceIsFreed`,
`ComesToRest`, `FrozenReturns`), which is out of the prover's reach as ENABLED is;
of BucketTree, `SealedOnce`, which more callers could break (section 6),
and `TreeAgrees` and `MemoriesStay`, which rest on it and on what can be reached from the
root, a set that is built step by step. The priority chain of `_rearrange_priority` is a
recursive function; that it visits the whole chain would need induction over
data and is checked by TLC only.

## 6. Findings and observations

One run shows that the code does something else than the repository says:

- **dependents_wake**: one notification follows the end of a task; an idle worker
  can take it, and a dependent task held by another waiting worker stays WAITING for
  ever although its dependencies are done (`agent_structure.py:622`;
  `docs/agent-runtime.md:93`). Every later `add` or end is another chance.

Seen while modelling, and kept in the models as the code has them, without a run:

- `_retry_times` is reset by the rollback it causes and not by a success, though the
  log speaks of consecutive failures.
- Two runs can be inside the gate at once: several are woken by one `set`, and
  `interrupt_control` opens the gate whoever is inside. `AnswersAreOpen` is stated
  for runs that have not overlapped, `ReactIsBounded` with the excess this allows.
- When whoever asked has left, the client may still add question and answer to the context
  (`LLM_connect.py:2047`). `_last_call_ids` then names calls of a round that is no longer the last and that
  has been answered once: the results of the retry or of the next run come behind the late answer.
  `Open` is defined to look past such rounds.
- `compress_context` clears `_last_call_ids` (`agent.py:2318`) and replaces the context after
  the answer of another model (`:2425`). A compression that fails or is cancelled between the two, like a
  `handle_response` that is cut off before its last call, leaves calls in the context that
  nobody will answer; the normalisation closes them, and `ResultsAreResponses` allows just
  that (`abandoned`).
- An exception in `compress_context` ends the run without counting as a failure
  (`agent.py:1251`), and the prompts of the run are lost.
- `get_tool_call_result` falls through after recording a forced stop, so a call can
  receive two responses.
- A resume that raises writes the journal back as listed: chunks are repeated.
- The trigger of the automatic resume looks for its task on another object than
  the one it stores it on; resumes still exclude one another by the meta lock.
- Creating a bucket and resuming jobs take the bucket lock and the meta lock in opposite
  orders: one of the two deadlocks `NoDeadlock` excepts, by the name `Embrace`.
- `acquire_many` takes its locks before the `try` that gives them back (`engine_runtime.py:42`): a
  caller cancelled while it waits for the second keeps the first for ever, and so does everybody who wants
  it later. This is the other one, `Lost`.
- A resumed job that overflows compresses its bucket under the meta lock only
  (`split_ingest_job_service.py:147`), and `seal_bucket_successor` does not look whether the bucket is
  sealed (`storage.py:1120`). Beside another rewrite of the bucket both give it a
  successor, the second seal wins, and the records of the first are out of reach; a memory
  written in between stays in the sealed bucket. `SealedOnce` and the root part of `TreeAgrees` except it
  by the history variable `bare`, the others by `Alone`.
- `add_memory` whose ingest overflows writes to the bucket it locked, which its own
  compression has sealed (`ingest_service.py:111`, `storage.py:946`): the memory is refused
  after the bucket has been rewritten for it.
- A split does not lock the groups it creates; another caller who compresses one in
  the middle of the split makes its next write fail after the record was grayed out.
- Compressing a child while its parent is rewritten changes the child's parent between
  the successor and the seal: "source and successor parent mismatch", and the seal is refused.
- Forgetting grays records without the lock of their bucket; a compression whose
  snapshot is older writes them again.
- After a compression the automatic management splits the bucket it locked, which
  is sealed, and not the successor.
- A compression's plan may drop the node record of a bucket; what is below is cut off.
- A split at the depth limit leaves the node of its group beside the parent it then gives
  the group, which is why `TreeAgrees` excepts that level.
- `delete_memory` of a node removes the title of the bucket the record names; when that is
  sealed, the title of its successor stays.
- `compress_context` takes the last text prompt only into the new context.
- A retried task that has dependencies is WAITING when `_task_done` runs, so it is filed in
  the bounded history while it is pending (`agent_runtime.py:131`); once evicted, what depends
  on it starts before it has run again (`DependenciesDone` excepts it by `Overtaken`).
- Such a task can also be filed, evicted and put back between the two copies of a save, which
  then has it in neither (`SnapshotComplete` excepts it).
- A bucket is checked for being sealed before the lock is waited for, and a split does not
  look again: one that waited while its bucket was compressed goes on with what was left
  behind there (`storage.py:1120`). Its first write to the sealed bucket fails, unless nothing
  is left to write: callers that forget, each with a record it read while it was in another bucket,
  can gray all of it in between, and the bucket is sealed a second time. It takes more callers
  than the run of bucket_tree has; `SealedOnce` and what rests on it are stated for that run.
- A retry of a task whose dependency the history has evicted raises `KeyError` out of
  `worker_loop` (`agent_structure.py:487`) and the worker is dead. As many such retries as there
  are workers leave nobody: what is pending rests, without a pause or a shutdown, until the
  `adjust_worker` of the next `add_task`. `EndsEventually` and `SavedTaskEnds` except this by the
  name `Deserted`.
- A task that fails with its dependency is filed inside `get()`, without event and
  callback (`agent_structure.py:610`; `docs/agent-runtime.md:104`).
- A pending task whose dependency is already in the saved history makes the load raise
  (`agent_structure.py:667`; `docs/architecture.md:180`).
- The result of a task of mode ALWAYS that ends during a request that reports it as
  unfinished never reaches the model (`agent.py:1356`; `docs/agent-runtime.md:105`).
- Compress a titled child, then its parent: the node record still names the sealed
  child, so the rebuild gives the sealed one its new parent
  (`record_primitives_service.py:136`); the live child keeps the old one, the new
  title map is empty, and `set_bucket` makes a second child of the title
  (`bucket_topology_service.py:203`). The same cause in a split
  (`bucket_split_service.py:196`): the check against moving a bucket below itself
  follows the parents, and the move makes a cycle the root does not reach.

AutoMapping:

- A change whose write failed is given back only to a key that has nothing pending; a
  read in the meantime leaves a touch pending, and the change is never written, though
  `tests/test_auto_mapping_sqlite.py:271` expects a failed write to be kept.
- When the first persist of a start fails, `migration_completed` is never set: the next
  start migrates the old file again over later writes (`redone`).
- A write before the load vanishes from memory and reaches the table (`early`).
- A change between the last drain of `kill` and the end is lost without an error.
- Only `sqlite3.Error` gives changes back (`auto_mapping.py:919`). Any other exception of a
  drain, an `OSError` or a text that cannot be encoded, drops the whole batch, though the test
  above raises just an `OSError` and expects the changes to be kept. The next `flush` finds
  nothing to write and returns as if all were written. `DifferenceIsPending` and `PromiseIsKept`
  except these keys by the name `lost`.

File cache:

- `add_file` as expiring makes a permanent row expiring (`file_cache.py:422`).
- The time of use is taken before the lock, so a later use can be overwritten by an
  earlier time; `UsedStays` allows for the length of a call.
- A permanent row whose file a half `remove` deleted stays until it is used or added.

Private chat:

- A message that comes while the reaper closes the idle object makes a new one, which loads
  the file before the old one has saved, against `docs/configuration.md:170`.
- A shutdown that fails leaves the object disabled, and the reaper does not try again,
  though it logs that it will (`private_chat.py:131`); its agent runs on beside the
  next object's.
- At the end of the process the file is saved before the queue is drained.
- An answer between the timeout of `wait_any` and `remove_notice` is swallowed; a
  notice at an object that left the registry cannot be waited for.
- Nothing saves periodically: a crash loses the messages since the last reclaim.

Picture service:

- Results of a search or by id are sent without having been frozen (`bare`).
- The timer compares how long a page has been frozen by the wall clock with the length of a
  sleep of the loop's clock, and sets no new timer when it finds a page too young
  (`setu/setu.py:4441`): after a wake-up that came early or a clock that was set back the page
  stays frozen until the next freeze sets the timer again, or the next start. `FrozenReturns`
  excepts it by the name `young`.
- Every freeze restarts the one timer, so a steady stream of requests keeps pages of
  failed ones frozen.
- An API timeout counts as not sent, and the page may be sent again (`unmarked`).
- A gallery that left with an old chunk comes back with its used pages.
- The test at `setu/setu.py:1345` is inverted: a download that runs is started again,
  which the docstring above it excludes.

Language model client:

- A response without its call is discarded from the context before the request, and the
  notice that stands for it is appended only if the request brings something: after a
  failed request, a timeout or a cancellation the result is in neither
  (`LLM_connect.py:1696`, `:2043`).
- A request cut off after its usage is known returns that usage, which counts as an
  answer: it is not asked again, and the open calls are cleared (`:2259`, `:2498`).
- A stream that breaks before any usage is decoded as the whole answer; arguments
  that were cut off become `{}` (`:1927`).
- `stop_one` stops the request that runs, not one that still waits for the worker or in its half
  second of sleep; `_running_task_id` then names the one before.
- After a timeout of whoever asked the worker may still append question and answer, and
  the retry appends the same prompts again.
- Responses are discarded by what they are, wherever they are. An answer comes late, so that
  the responses of a run that asks again are in the context already; the round of a user's
  text is taken back while a request without text is under way, whose response then has no call and is
  lost with the notice of a request that brings nothing; the retry's responses, orphans now,
  are discarded from the context together with those that had their calls. A call is left
  with other calls' responses behind it and is closed after the model has spoken again, which the
  interfaces of the models refuse. It takes seven runs and was found in an attempt to prove
  `PayloadPaired` without its exception.
- The two responses of a forced stop (`agent.py:993`): the second has no call left, and the
  normalisation closes all calls that still wait with responses of its own before their
  own ones come.

Migration:

- A start that finds the lock of an interrupted upgrade is refused with "manual confirmation
  required before removing lock" (`migration_service.py:66`), but goes through the same
  `finally` as the run that made the lock, which removes it (`:172`, `:79`). The second start
  upgrades what the crash left; `tests/test_schema_migration.py:114` looks at the first only.
- A crash in the middle of the switch from version 3 to 4: one start is refused and
  removes the lock; the next finds no index, makes the state of an empty memory,
  migrates that "successfully", and replaces the backup by what it found. The data are only
  in the directory of the run that crashed, which nothing reads.
- KeyboardInterrupt and SystemExit in the switch run `finally` only: the rollback is
  deleted and nothing is put back. A restore that fails deletes the rollback as well.
- Data of version 4 are never held up by a lock, so a crash in a restore, after the
  version was put in place, is followed by a start without some files.
- A crash between the deletion of `schema_version.json` and its move leaves no version,
  which is read as 1; every later start fails. When the database was moved and the version
  not, every start is refused as well.
- A crash in a restore, at the version, lets the next run convert data of version 3 as
  those of version 2, and the titles are lost.

## 7. What is not modelled, and why

In the modelled parts: `pinned`, `restart`, `EXPIRED` and `from_checkpoint` of the
task machine (no caller); `add_task` after a shutdown; in the control loop the
scheduled tasks, checkpoints and history files, skills, the replacement of a
call's task by `run_external_tool`, a call whose task fell out of the bounded
history, an exception inside `handle_response` (ChatClient has it); in the ingest
how the text is cut, short memories that are stored unsplit, and the
directories and file formats; in the buckets `optimize`, `update_memory`, clearing of
gray, `create_bucket` without a title, the active bucket, the children lists,
summaries, aliases, exceptions of the disk, crashes, and the garbage collection,
which deletes sealed buckets weeks later; in the mapping `clear`, `pop` as one call and the
encoding of values; in the file cache the hashing and the streaming of bytes with its temporary
files, which a crash in `add_file` (`file_cache.py:478`) leaves behind for good, since the scan for
files without a row does not take their names for those of files (`:342`); in the
private chat `MaxMessageHistory`, loading as a suspension, notices that ask for more than one reply (no
caller), and what the agent says; in
the picture service scoring, filters, tags, the fetching itself and the files; in the
migration a fresh installation, a second process, the user who removes the lock, the
reload of the settings, and the contents of records; in the client `ask` without the queue
(no caller), `stop_all` and `close`, images, the two formats in which messages are
grouped and written, usage and prices, and the settings.

Of the other parts, the scheduler and what the group dialog does beside pictures are left for
later modules. Prompts, texts, scores in real numbers, HTTP, the bot
protocol, pictures, logging and configuration stay out: they are input and output,
or data no property here distinguishes.
