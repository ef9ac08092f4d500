---------------------------- MODULE SplitIngest ----------------------------
(***************************************************************************)
(* A long memory is split into chunks; several pipelines ingest them, one  *)
(* coordinator watches, and the results are committed one after the other  *)
(* under a job journal (memory/services/ingest_service.py).  A resume      *)
(* finishes what a journal says is pending (split_ingest_job_service.py).  *)
(*                                                                         *)
(* When the bucket's context overflows, the coordinator waits until no     *)
(* pipeline is busy, rebuilds the bucket once and lets them go on.  A      *)
(* live batch holds its bucket's lock, a resume the global meta lock: the  *)
(* two run side by side, on the same journal too.                          *)
(***************************************************************************)
EXTENDS Integers, FiniteSets

CONSTANTS
  N,            \* chunk_total
  Pipelines,    \* the workers of one batch
  MaxCrashes,   \* bound: how many times the process ends
  MaxResumes    \* bound: how many times a resume starts

Chunks == 1..N
NoChunk == 0       \* no chunk

ASSUME SplitAssumption ==
  /\ N \in Nat \ {0}
  /\ MaxCrashes \in Nat /\ MaxResumes \in Nat

VARIABLES
  \* the coordinator: _add_memory_with_split, then _commit_split_ingest
  live, queue, done_indices, committed, generation, rebuilt_once,
  pause_event, rebuild_event, fatal,
  \* the pipelines: _ingest_worker
  place, item, local_generation,
  \* resume_pending_jobs
  resume, listed, mine, rgeneration,
  \* what is on disk: the journal, the records, the context events
  journal, stored, events,
  crashes, resumes

batchVars == <<live, queue, done_indices, committed, generation, rebuilt_once,
               pause_event, rebuild_event, fatal>>
pipeVars == <<place, item, local_generation>>
resumeVars == <<resume, listed, mine, rgeneration>>
diskVars == <<journal, stored, events>>
countVars == <<crashes, resumes>>
ingestVars == <<batchVars, pipeVars, resumeVars, diskVars, countVars>>

-----------------------------------------------------------------------------
(* Helpers *)

Journals == [status : {"none", "running", "paused", "completed"},
             done : SUBSET Chunks, generation : {0, 1}]
Journal(status, done, gen) == [status |-> status, done |-> done, generation |-> gen]

\* _save_job records what is committed; fault: what is ingested.
SaveJob_eager(status, marked) == journal' = Journal(status, done_indices, generation)
SaveJob(status, marked) == journal' = Journal(status, marked, generation)

InFlight == {w \in Pipelines : place[w] = "busy"}

Once(S) == [i \in Chunks |-> IF i \in S THEN 1 ELSE 0]
\* The first of S.
Least(S) == {i \in S : \A j \in S : i <= j}

Empty == \A i \in Chunks : queue[i] = 0

\* The coordinator is in its loop and the pipelines exist.
Ingesting == live \in {"watch", "drain", "drained", "rebuild", "rejournal"}

IngestInit ==
  /\ live = "idle" /\ queue = Once({})
  /\ done_indices = {} /\ committed = {}
  /\ generation = 0 /\ rebuilt_once = FALSE
  /\ pause_event = TRUE /\ rebuild_event = FALSE /\ fatal = "no"
  /\ place = [w \in Pipelines |-> "gone"]
  /\ item = [w \in Pipelines |-> NoChunk]
  /\ local_generation = [w \in Pipelines |-> 0]
  /\ resume = "off" /\ mine = {} /\ rgeneration = 0
  /\ journal = Journal("none", {}, 0) /\ listed = journal
  /\ stored = {} /\ events = {}
  /\ crashes = 0 /\ resumes = 0

-----------------------------------------------------------------------------
(* The coordinator *)

\* The journal is saved, every chunk is queued, the pipelines start.
StartBatch ==
  /\ live = "idle"
  /\ live' = "watch"
  /\ journal' = Journal("running", {}, 0)
  /\ queue' = Once(Chunks)
  /\ place' = [w \in Pipelines |-> "gate"]
  /\ UNCHANGED <<done_indices, committed, generation, rebuilt_once, pause_event,
                 rebuild_event, fatal, item, local_generation, resumeVars, stored,
                 events, countVars>>

\* The loop ends: the pipelines are cancelled, what they had in hand is dropped.
Break ==
  /\ live' = "commit"
  /\ place' = [w \in Pipelines |-> "gone"]
  /\ item' = [w \in Pipelines |-> NoChunk]

\* One look: everything is done, or the batch is given up.
Leave ==
  /\ live = "watch" /\ (done_indices = Chunks \/ fatal # "no")
  /\ Break
  /\ UNCHANGED <<queue, done_indices, committed, generation, rebuilt_once, pause_event,
                 rebuild_event, fatal, local_generation, resumeVars, diskVars, countVars>>

Drain_unwaited == "drained" \* Fault: the coordinator does not wait for the drain.
Drain == IF InFlight = {} THEN "drained" ELSE "drain"

\* One look: an overflow was reported; the report is cleared, then the drain awaited.
NoticeOverflow ==
  /\ live = "watch" /\ done_indices # Chunks /\ fatal = "no"
  /\ rebuild_event
  /\ rebuild_event' = FALSE
  /\ live' = Drain
  /\ UNCHANGED <<queue, done_indices, committed, generation, rebuilt_once, pause_event,
                 fatal, pipeVars, resumeVars, diskVars, countVars>>

(* A second report after the one rebuild: the batch is given up.  A report *)
(* that came in while the first was being drained has the same effect.     *)
DrainLimit ==
  /\ live = "drained" /\ rebuilt_once
  /\ fatal' = IF fatal = "no" THEN "limit" ELSE fatal
  /\ Break
  /\ UNCHANGED <<queue, done_indices, committed, generation, rebuilt_once, pause_event,
                 rebuild_event, local_generation, resumeVars, diskVars, countVars>>

\* The bucket is compressed; its manager is left for later or run at once.
DrainRebuild ==
  /\ live = "drained" /\ ~rebuilt_once
  /\ live' = "rebuild"
  /\ UNCHANGED <<queue, done_indices, committed, generation, rebuilt_once, pause_event,
                 rebuild_event, fatal, pipeVars, resumeVars, diskVars, countVars>>

Reopened_closed == FALSE \* Fault: pause_event is not set again.
Reopened == TRUE

\* Under state_lock: a new context, a new queue of what is pending, the gate opens.
Rebuild ==
  /\ live = "rebuild"
  /\ live' = "rejournal"
  /\ generation' = 1 /\ rebuilt_once' = TRUE
  /\ queue' = Once(Chunks \ done_indices)
  /\ pause_event' = Reopened
  /\ UNCHANGED <<done_indices, committed, rebuild_event, fatal, pipeVars, resumeVars,
                 diskVars, countVars>>

Rejournal ==
  /\ live = "rejournal"
  /\ live' = "watch"
  /\ SaveJob("running", committed)
  /\ UNCHANGED <<queue, done_indices, committed, generation, rebuilt_once, pause_event,
                 rebuild_event, fatal, pipeVars, resumeVars, stored, events, countVars>>

-----------------------------------------------------------------------------
(* A pipeline: wait at the gate, take a chunk, ingest it.  A pipeline that *)
(* finds the queue empty looks again every 20 ms, which changes nothing.   *)

Take(w) ==
  /\ Ingesting /\ place[w] = "gate" /\ pause_event
  /\ \E i \in Chunks \ done_indices :
       /\ queue[i] > 0
       /\ queue' = [queue EXCEPT ![i] = @ - 1]
       /\ item' = [item EXCEPT ![w] = i]
  /\ place' = [place EXCEPT ![w] = "busy"]
  /\ local_generation' = [local_generation EXCEPT ![w] = generation]
  /\ UNCHANGED <<live, done_indices, committed, generation, rebuilt_once, pause_event,
                 rebuild_event, fatal, resumeVars, diskVars, countVars>>

\* Nothing left to take and nothing that could come back.
Quit(w) ==
  /\ Ingesting /\ place[w] = "gate" /\ pause_event /\ Empty
  /\ done_indices = Chunks \/ (fatal # "no" /\ InFlight = {})
  /\ place' = [place EXCEPT ![w] = "gone"]
  /\ UNCHANGED <<batchVars, item, local_generation, resumeVars, diskVars, countVars>>

\* The last one in flight sets drain_event: the coordinator, if it waits, has seen it,
\* even if the gate is open and a pipeline takes the next chunk before it moves.
Release(w) ==
  /\ place' = [place EXCEPT ![w] = "gate"]
  /\ item' = [item EXCEPT ![w] = NoChunk]
  /\ live' = IF live = "drain" /\ InFlight = {w} THEN "drained" ELSE live
  /\ UNCHANGED <<local_generation, committed, generation, rebuilt_once,
                 resumeVars, diskVars, countVars>>

\* The chunk has a result: the model's, or the fallback when ingesting it raised.
Ingested(w) ==
  /\ place[w] = "busy"
  /\ done_indices' = done_indices \cup {item[w]}
  /\ Release(w)
  /\ UNCHANGED <<queue, pause_event, rebuild_event, fatal>>

PutBack_lost(w) == queue \* Fault: the chunk that overflowed is not queued again.
PutBack(w) == [queue EXCEPT ![item[w]] = @ + 1]

MayRebuild(w) == local_generation[w] = 0 /\ ~rebuilt_once

\* The context was too long: the chunk goes back, the gate closes.
Overflowed(w) ==
  /\ place[w] = "busy"
  /\ queue' = PutBack(w)
  /\ rebuild_event' = (rebuild_event \/ MayRebuild(w))
  /\ pause_event' = (pause_event /\ ~MayRebuild(w) /\ fatal # "no")
  /\ fatal' = IF MayRebuild(w) \/ fatal # "no" THEN fatal ELSE "overflow"
  /\ Release(w)
  /\ UNCHANGED done_indices

-----------------------------------------------------------------------------
(* _commit_split_ingest: chunk by chunk, in order, write the record, then  *)
(* append the context event, then mark the chunk and save the journal.     *)

ToCommit == done_indices \ committed

CommitRecord ==
  /\ live = "commit" /\ ToCommit # {}
  /\ stored' = stored \cup Least(ToCommit)
  /\ live' = "event"
  /\ UNCHANGED <<queue, done_indices, committed, generation, rebuilt_once, pause_event,
                 rebuild_event, fatal, pipeVars, resumeVars, journal, events, countVars>>

CommitEvent ==
  /\ live = "event"
  /\ events' = events \cup Least(ToCommit)
  /\ live' = "mark"
  /\ UNCHANGED <<queue, done_indices, committed, generation, rebuilt_once, pause_event,
                 rebuild_event, fatal, pipeVars, resumeVars, journal, stored, countVars>>

CommitMark ==
  /\ live = "mark"
  /\ committed' = committed \cup Least(ToCommit)
  /\ SaveJob("running", committed')
  /\ live' = "commit"
  /\ UNCHANGED <<queue, done_indices, generation, rebuilt_once, pause_event, rebuild_event,
                 fatal, pipeVars, resumeVars, stored, events, countVars>>

EndStatus == IF fatal # "no" THEN "paused" ELSE "completed"

CommitEnd ==
  /\ live = "commit" /\ ToCommit = {}
  /\ SaveJob(EndStatus, committed)
  /\ live' = "over"
  /\ UNCHANGED <<queue, done_indices, committed, generation, rebuilt_once, pause_event,
                 rebuild_event, fatal, pipeVars, resumeVars, stored, events, countVars>>

(* An exception, or the cancellation of the caller, at any of the waits:   *)
(* the pipelines are cancelled, the journal stays as it is.                *)
RaiseBatch ==
  /\ live \notin {"idle", "over"}
  /\ live' = "over"
  /\ place' = [w \in Pipelines |-> "gone"]
  /\ item' = [w \in Pipelines |-> NoChunk]
  /\ UNCHANGED <<queue, done_indices, committed, generation, rebuilt_once, pause_event,
                 rebuild_event, fatal, local_generation, resumeVars, diskVars, countVars>>

-----------------------------------------------------------------------------
(* _resume_split_job_unlocked, under the global meta lock: one resume at a *)
(* time.  "listed" is the journal the resume found, "mine" its done indices. *)

ResumeStart ==
  /\ resume = "off" /\ resumes < MaxResumes
  /\ journal.status \in {"running", "paused"}
  /\ resume' = "chunk"
  /\ listed' = journal /\ mine' = journal.done /\ rgeneration' = journal.generation
  /\ resumes' = resumes + 1
  /\ UNCHANGED <<batchVars, pipeVars, diskVars, crashes>>

ResumeSave(status) == journal' = Journal(status, mine', rgeneration')
Mine == Least(Chunks \ mine)

\* The next chunk is ingested: with a result, its record is written.
ResumeRecord ==
  /\ resume = "chunk" /\ mine # Chunks
  /\ stored' = stored \cup Mine
  /\ resume' = "event"
  /\ UNCHANGED <<batchVars, pipeVars, listed, mine, rgeneration, journal, events, countVars>>

ResumeEvent ==
  /\ resume = "event"
  /\ events' = events \cup Mine
  /\ resume' = "mark"
  /\ UNCHANGED <<batchVars, pipeVars, listed, mine, rgeneration, journal, stored, countVars>>

ResumeMark ==
  /\ resume = "mark"
  /\ mine' = mine \cup Mine
  /\ UNCHANGED rgeneration
  /\ ResumeSave("running")
  /\ resume' = "chunk"
  /\ UNCHANGED <<batchVars, pipeVars, listed, stored, events, countVars>>

\* The chunk overflows and the journal has a rebuild left: compress, manage, try again.
ResumeRebuild ==
  /\ resume = "chunk" /\ mine # Chunks /\ rgeneration = 0
  /\ rgeneration' = 1
  /\ UNCHANGED mine
  /\ ResumeSave("running")
  /\ UNCHANGED <<batchVars, pipeVars, resume, listed, stored, events, countVars>>

\* The chunk overflows in the rebuilt bucket.
ResumeOverflow ==
  /\ resume = "chunk" /\ mine # Chunks /\ rgeneration = 1
  /\ UNCHANGED <<mine, rgeneration>>
  /\ ResumeSave("paused")
  /\ resume' = "off"
  /\ UNCHANGED <<batchVars, pipeVars, listed, stored, events, countVars>>

ResumeComplete ==
  /\ resume = "chunk" /\ mine = Chunks
  /\ UNCHANGED <<mine, rgeneration>>
  /\ ResumeSave("completed")
  /\ resume' = IF listed.done = Chunks THEN "off" ELSE "tail"
  /\ UNCHANGED <<batchVars, pipeVars, listed, stored, events, countVars>>

\* The bucket is managed and the store collected; either may still raise.
ResumeManage ==
  /\ resume = "tail"
  /\ resume' = "off"
  /\ UNCHANGED <<batchVars, pipeVars, listed, mine, rgeneration, diskVars, countVars>>

\* Any step raises: the journal goes back to the listed one, paused.
ResumeRaise ==
  /\ resume # "off"
  /\ journal' = [listed EXCEPT !.status = "paused"]
  /\ resume' = "off"
  /\ UNCHANGED <<batchVars, pipeVars, listed, mine, rgeneration, stored, events, countVars>>

-----------------------------------------------------------------------------
\* The process ends: the disk stays, batch and resume are gone.
Crash ==
  /\ crashes < MaxCrashes
  /\ crashes' = crashes + 1
  /\ live' = IF live = "idle" THEN "idle" ELSE "over"
  /\ place' = [w \in Pipelines |-> "gone"]
  /\ item' = [w \in Pipelines |-> NoChunk]
  /\ resume' = "off"
  /\ UNCHANGED <<queue, done_indices, committed, generation, rebuilt_once, pause_event,
                 rebuild_event, fatal, local_generation, listed, mine, rgeneration, diskVars,
                 resumes>>

Coordinator ==
  \/ Leave \/ NoticeOverflow \/ DrainLimit \/ DrainRebuild \/ Rebuild \/ Rejournal
  \/ CommitRecord \/ CommitEvent \/ CommitMark \/ CommitEnd

Pipeline(w) == Take(w) \/ Quit(w) \/ Ingested(w) \/ Overflowed(w)

Resumer ==
  \/ ResumeRecord \/ ResumeEvent \/ ResumeMark \/ ResumeRebuild \/ ResumeOverflow
  \/ ResumeComplete \/ ResumeManage

IngestNext ==
  \/ StartBatch \/ Coordinator \/ RaiseBatch
  \/ \E w \in Pipelines : Pipeline(w)
  \/ ResumeStart \/ Resumer \/ ResumeRaise
  \/ Crash

IngestSpec == IngestInit /\ [][IngestNext]_ingestVars

\* The loop runs what can run, and every call of the model returns (ask_timeout).
Fairness ==
  /\ WF_ingestVars(Coordinator) /\ WF_ingestVars(Resumer)
  /\ \A w \in Pipelines : WF_ingestVars(Pipeline(w))
FairSpec == IngestSpec /\ Fairness

-----------------------------------------------------------------------------
(* Properties *)

IngestTypeOK ==
  /\ live \in {"idle", "watch", "drain", "drained", "rebuild", "rejournal", "commit", "event",
               "mark", "over"}
  /\ queue \in [Chunks -> Nat]
  /\ done_indices \in SUBSET Chunks /\ committed \in SUBSET Chunks
  /\ generation \in {0, 1} /\ rebuilt_once \in BOOLEAN
  /\ pause_event \in BOOLEAN /\ rebuild_event \in BOOLEAN
  /\ fatal \in {"no", "overflow", "limit"}
  /\ place \in [Pipelines -> {"gate", "busy", "gone"}]
  /\ item \in [Pipelines -> Chunks \cup {NoChunk}]
  /\ local_generation \in [Pipelines -> {0, 1}]
  /\ resume \in {"off", "chunk", "event", "mark", "tail"}
  /\ listed \in Journals /\ journal \in Journals
  /\ mine \in SUBSET Chunks /\ rgeneration \in {0, 1}
  /\ stored \in SUBSET Chunks /\ events \in SUBSET Chunks
  /\ crashes \in Nat /\ resumes \in Nat

Holders(i) == {w \in Pipelines : item[w] = i}

(* While the batch is being ingested every chunk is in exactly one place:  *)
(* once in the queue, in one pipeline's hand, or done (put_nowait after an *)
(* overflow, the new queue of the rebuild).                                *)
ChunkConserved ==
  Ingesting =>
    \A i \in Chunks :
      /\ queue[i] \in {0, 1}
      /\ \A v, w \in Holders(i) : v = w
      /\ queue[i] = 1 => Holders(i) = {} /\ i \notin done_indices
      /\ Holders(i) # {} => i \notin done_indices
      /\ queue[i] = 0 /\ Holders(i) = {} => i \in done_indices

(* No pipeline works with the context of a bucket that was rebuilt under   *)
(* it: what is in flight belongs to the current generation (drain_event,   *)
(* pause_event).                                                           *)
SameGeneration ==
  \A w \in InFlight : local_generation[w] = generation /\ live # "rebuild"

\* A batch is given up only after its one rebuild (rebuilt_once).
RebuildFirst == fatal # "no" => rebuilt_once

(* What a journal calls done is stored and has its context event, whoever  *)
(* wrote the journal last, a live batch, a resume or one that raised: a    *)
(* crash can repeat work, it cannot lose a chunk.                          *)
JournalHonest == journal.done \subseteq stored \cap events

\* A journal that no resume will ever look at again leaves nothing behind.
CompletedHasAll == journal.status = "completed" => stored = Chunks /\ events = Chunks

(* A batch that started ends, and so does a resume: nobody waits for ever  *)
(* at the gate, for the drain or for a chunk that is nowhere.              *)
IngestEnds ==
  /\ (live = "watch") ~> (live = "over")
  /\ (resume = "chunk") ~> (resume = "off")
=============================================================================
