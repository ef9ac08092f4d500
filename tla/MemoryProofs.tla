---------------------------- MODULE MemoryProofs ----------------------------
(***************************************************************************)
(* Theorems about the memory engine: the ingestion of a long memory in     *)
(* chunks (SplitIngest), for any number of chunks and pipelines, and the   *)
(* tree of buckets with its locks (BucketTree), for any callers, memories  *)
(* and kinds of operations and any number of them.                         *)
(***************************************************************************)
EXTENDS SplitIngest, BucketTree, TLAPS, FiniteSetTheorems, WellFoundedInduction

(***************************************************************************)
(* SplitIngest.                                                            *)
(***************************************************************************)

(* The inductive invariant, part by part.  A pipeline has a chunk in hand  *)
(* while it is busy, and only while the coordinator is in its loop.        *)
PipesOK ==
  /\ \A w \in Pipelines : place[w] = "busy" <=> item[w] # NoChunk
  /\ ~Ingesting => \A w \in Pipelines : place[w] = "gone"

(* From the report of the first overflow to the rebuild the gate is        *)
(* closed, and once the coordinator has seen the drain nothing is in       *)
(* flight.                                                                 *)
GateOK ==
  /\ generation = IF rebuilt_once THEN 1 ELSE 0
  /\ ~rebuilt_once /\ (rebuild_event \/ live \in {"drain", "drained", "rebuild"}) => ~pause_event
  /\ ~rebuilt_once /\ live \in {"drained", "rebuild"} => InFlight = {}
  /\ live = "rebuild" => ~rebuilt_once
  /\ live = "idle" => fatal = "no" /\ ~rebuilt_once /\ done_indices = {} /\ committed = {}
  /\ live = "rejournal" => rebuilt_once

(* What is marked, by the batch, by a resume or in the copy a resume goes  *)
(* back to, is on disk; so is, step by step, the chunk being committed.    *)
Kept(S) == S \subseteq stored \cap events
MarksOK ==
  /\ Kept(committed) /\ Kept(mine) /\ Kept(listed.done)
  /\ live = "event" => Least(ToCommit) \subseteq stored
  /\ live = "mark" => Kept(Least(ToCommit))
  /\ resume = "event" => Mine \subseteq stored
  /\ resume = "mark" => Kept(Mine)
  /\ live \in {"commit", "event", "mark"} /\ fatal = "no" => done_indices = Chunks

IngestInv == IngestTypeOK /\ PipesOK /\ GateOK /\ ChunkConserved /\ SameGeneration /\ RebuildFirst
        /\ MarksOK /\ JournalHonest /\ CompletedHasAll

LEMMA JournalType ==
  ASSUME NEW st \in {"none", "running", "paused", "completed"},
         NEW S \in SUBSET Chunks, NEW g \in {0, 1}
  PROVE  Journal(st, S, g) \in Journals
BY DEF Journal, Journals

LEMMA OnceType ==
  ASSUME NEW S
  PROVE  Once(S) \in [Chunks -> Nat]
BY DEF Once

LEMMA IngestTypeInit == IngestInit => IngestTypeOK
<1> HAVE IngestInit
<1>1. queue \in [Chunks -> Nat] BY OnceType DEF IngestInit
<1>2. journal \in Journals /\ listed \in Journals BY JournalType DEF IngestInit
<1> QED BY <1>1, <1>2 DEF IngestInit, IngestTypeOK

LEMMA IngestTypeStep ==
  ASSUME IngestTypeOK, PipesOK, [IngestNext]_ingestVars
  PROVE  IngestTypeOK'
<1> USE JournalType, OnceType DEF IngestTypeOK
<1>1. CASE StartBatch BY <1>1 DEF StartBatch, resumeVars, countVars
<1>2. CASE Leave BY <1>2 DEF Leave, Break, resumeVars, diskVars, countVars
<1>3. CASE NoticeOverflow
  BY <1>3 DEF NoticeOverflow, Drain, pipeVars, resumeVars, diskVars, countVars
<1>4. CASE DrainLimit BY <1>4 DEF DrainLimit, Break, resumeVars, diskVars, countVars
<1>5. CASE DrainRebuild BY <1>5 DEF DrainRebuild, pipeVars, resumeVars, diskVars, countVars
<1>6. CASE Rebuild BY <1>6 DEF Rebuild, Reopened, pipeVars, resumeVars, diskVars, countVars
<1>7. CASE Rejournal BY <1>7 DEF Rejournal, SaveJob, pipeVars, resumeVars, countVars
<1>8. CASE CommitRecord BY <1>8 DEF CommitRecord, ToCommit, Least, pipeVars, resumeVars, countVars
<1>9. CASE CommitEvent BY <1>9 DEF CommitEvent, ToCommit, Least, pipeVars, resumeVars, countVars
<1>10. CASE CommitMark
  BY <1>10 DEF CommitMark, SaveJob, ToCommit, Least, pipeVars, resumeVars, countVars
<1>11. CASE CommitEnd BY <1>11 DEF CommitEnd, SaveJob, EndStatus, pipeVars, resumeVars, countVars
<1>12. CASE RaiseBatch BY <1>12 DEF RaiseBatch, resumeVars, diskVars, countVars
<1>13. CASE \E w \in Pipelines : Pipeline(w)
  <2> SUFFICES ASSUME NEW w \in Pipelines, Pipeline(w) PROVE IngestTypeOK'
    BY <1>13
  <2>1. CASE Take(w) BY <2>1 DEF Take, resumeVars, diskVars, countVars
  <2>2. CASE Quit(w) BY <2>2 DEF Quit, batchVars, resumeVars, diskVars, countVars
  <2>3. CASE Ingested(w)
    BY <2>3 DEF Ingested, Release, PipesOK, resumeVars, diskVars, countVars
  <2>4. CASE Overflowed(w)
    BY <2>4 DEF Overflowed, Release, PipesOK, PutBack, MayRebuild, resumeVars, diskVars, countVars
  <2> QED BY <2>1, <2>2, <2>3, <2>4 DEF Pipeline
<1>14. CASE ResumeStart
  <2>1. journal.done \in SUBSET Chunks /\ journal.generation \in {0, 1} BY DEF Journals
  <2> QED BY <1>14, <2>1 DEF ResumeStart, batchVars, pipeVars, diskVars
<1>15. CASE ResumeRecord
  BY <1>15 DEF ResumeRecord, Mine, Least, batchVars, pipeVars, countVars
<1>16. CASE ResumeEvent
  BY <1>16 DEF ResumeEvent, Mine, Least, batchVars, pipeVars, countVars
<1>17. CASE ResumeMark
  BY <1>17 DEF ResumeMark, ResumeSave, Mine, Least, batchVars, pipeVars, countVars
<1>18. CASE ResumeRebuild
  BY <1>18 DEF ResumeRebuild, ResumeSave, batchVars, pipeVars, countVars
<1>19. CASE ResumeOverflow
  BY <1>19 DEF ResumeOverflow, ResumeSave, batchVars, pipeVars, countVars
<1>20. CASE ResumeComplete
  BY <1>20 DEF ResumeComplete, ResumeSave, batchVars, pipeVars, countVars
<1>24. CASE ResumeManage BY <1>24 DEF ResumeManage, batchVars, pipeVars, diskVars, countVars
<1>21. CASE ResumeRaise
  <2>1. [listed EXCEPT !.status = "paused"] \in Journals BY DEF Journals
  <2> QED BY <1>21, <2>1 DEF ResumeRaise, batchVars, pipeVars, countVars
<1>22. CASE Crash BY <1>22 DEF Crash, diskVars
<1>23. CASE UNCHANGED ingestVars
  BY <1>23 DEF ingestVars, batchVars, pipeVars, resumeVars, diskVars, countVars
<1> QED
  BY <1>1, <1>2, <1>3, <1>4, <1>5, <1>6, <1>7, <1>8, <1>9, <1>10, <1>11, <1>12, <1>13,
     <1>14, <1>15, <1>16, <1>17, <1>18, <1>19, <1>20, <1>21, <1>22, <1>23, <1>24
  DEF IngestNext, Coordinator, Resumer
-----------------------------------------------------------------------------
(* The pipelines, the gate and the chunks *)

\* The disk, the resume and the counters are none of the pipelines' business.
LEMMA PipesStep ==
  ASSUME IngestTypeOK, PipesOK, [IngestNext]_ingestVars
  PROVE  PipesOK'
<1> USE DEF IngestTypeOK, PipesOK, Ingesting, NoChunk, Chunks
<1>1. CASE StartBatch BY <1>1 DEF StartBatch, resumeVars, countVars
<1>2. CASE Leave BY <1>2 DEF Leave, Break
<1>3. CASE NoticeOverflow BY <1>3 DEF NoticeOverflow, Drain, pipeVars
<1>4. CASE DrainLimit BY <1>4 DEF DrainLimit, Break
<1>5. CASE DrainRebuild BY <1>5 DEF DrainRebuild, pipeVars
<1>6. CASE Rebuild BY <1>6 DEF Rebuild, pipeVars
<1>7. CASE Rejournal BY <1>7 DEF Rejournal, pipeVars
<1>8. CASE CommitRecord \/ CommitEvent \/ CommitMark \/ CommitEnd
  BY <1>8 DEF CommitRecord, CommitEvent, CommitMark, CommitEnd, pipeVars
<1>9. CASE RaiseBatch BY <1>9 DEF RaiseBatch
<1>10. CASE \E w \in Pipelines : Pipeline(w)
  <2> SUFFICES ASSUME NEW w \in Pipelines, Pipeline(w) PROVE PipesOK'
    BY <1>10
  <2>1. CASE Take(w) BY <2>1 DEF Take
  <2>2. CASE Quit(w) BY <2>2 DEF Quit, batchVars
  <2>3. CASE Ingested(w) BY <2>3 DEF Ingested, Release
  <2>4. CASE Overflowed(w) BY <2>4 DEF Overflowed, Release
  <2> QED BY <2>1, <2>2, <2>3, <2>4 DEF Pipeline
<1>11. CASE ResumeStart \/ Resumer \/ ResumeRaise
  BY <1>11 DEF ResumeStart, Resumer, ResumeRaise, ResumeRecord, ResumeEvent, ResumeMark,
     ResumeRebuild, ResumeOverflow, ResumeComplete, ResumeManage, batchVars, pipeVars
<1>12. CASE Crash BY <1>12 DEF Crash
<1>13. CASE UNCHANGED ingestVars BY <1>13 DEF ingestVars, batchVars, pipeVars
<1> QED
  BY <1>1, <1>2, <1>3, <1>4, <1>5, <1>6, <1>7, <1>8, <1>9, <1>10, <1>11, <1>12, <1>13
  DEF IngestNext, Coordinator
(* A step keeps the gate closed over the drain, and every chunk in one     *)
(* place.                                                                  *)
Flow == PipesOK /\ GateOK /\ ChunkConserved /\ SameGeneration /\ RebuildFirst

LEMMA GateStep ==
  ASSUME IngestTypeOK, Flow, [IngestNext]_ingestVars
  PROVE  GateOK' /\ SameGeneration' /\ RebuildFirst'
<1> USE DEF IngestTypeOK, Flow, PipesOK, GateOK, SameGeneration, RebuildFirst, InFlight
<1>1. CASE StartBatch BY <1>1 DEF StartBatch
<1>2. CASE Leave BY <1>2 DEF Leave, Break
<1>3. CASE NoticeOverflow BY <1>3 DEF NoticeOverflow, Drain, pipeVars
<1>4. CASE DrainLimit BY <1>4 DEF DrainLimit, Break
<1>5. CASE DrainRebuild BY <1>5 DEF DrainRebuild, pipeVars
<1>6. CASE Rebuild BY <1>6 DEF Rebuild, Reopened, pipeVars
<1>7. CASE Rejournal BY <1>7 DEF Rejournal, pipeVars
<1>8. CASE CommitRecord \/ CommitEvent \/ CommitMark \/ CommitEnd
  BY <1>8 DEF CommitRecord, CommitEvent, CommitMark, CommitEnd, pipeVars
<1>9. CASE RaiseBatch BY <1>9 DEF RaiseBatch
<1>10. CASE \E w \in Pipelines : Pipeline(w)
  <2> SUFFICES ASSUME NEW w \in Pipelines, Pipeline(w)
               PROVE  GateOK' /\ SameGeneration' /\ RebuildFirst'
    BY <1>10
  <2>1. CASE Take(w) BY <2>1 DEF Take, Ingesting
  <2>2. CASE Quit(w) BY <2>2 DEF Quit, batchVars
  <2>3. CASE Ingested(w) BY <2>3 DEF Ingested, Release, Ingesting
  <2>4. CASE Overflowed(w)
    <3>1. local_generation[w] = generation /\ place[w] = "busy" BY <2>4 DEF Overflowed
    <3>2. MayRebuild(w) <=> ~rebuilt_once BY <3>1 DEF MayRebuild
    <3>3. \A v \in Pipelines : place'[v] = IF v = w THEN "gate" ELSE place[v]
      BY <2>4 DEF Overflowed, Release
    <3>4. UNCHANGED <<generation, rebuilt_once, committed, done_indices, local_generation>>
      BY <2>4 DEF Overflowed, Release
    <3>5. live' = IF live = "drain" /\ InFlight = {w} THEN "drained" ELSE live
      BY <2>4 DEF Overflowed, Release
    <3>6. live \notin {"idle", "drained", "rebuild"} \/ rebuilt_once
      BY <3>1 DEF Ingesting
    <3>7. ~rebuilt_once => ~pause_event' /\ fatal' = "no" /\ fatal = "no"
      BY <2>4, <3>2 DEF Overflowed
    <3>8. GateOK' BY <3>1, <3>3, <3>4, <3>5, <3>6, <3>7, <2>4 DEF Overflowed, Ingesting
    <3>9. SameGeneration' BY <3>1, <3>3, <3>4, <3>5
    <3>10. RebuildFirst' BY <3>4, <3>7
    <3> QED BY <3>8, <3>9, <3>10
  <2> QED BY <2>1, <2>2, <2>3, <2>4 DEF Pipeline
<1>11. CASE ResumeStart \/ Resumer \/ ResumeRaise
  BY <1>11 DEF ResumeStart, Resumer, ResumeRaise, ResumeRecord, ResumeEvent, ResumeMark,
     ResumeRebuild, ResumeOverflow, ResumeComplete, ResumeManage, batchVars, pipeVars
<1>12. CASE Crash BY <1>12 DEF Crash
<1>13. CASE UNCHANGED ingestVars BY <1>13 DEF ingestVars, batchVars, pipeVars
<1> QED
  BY <1>1, <1>2, <1>3, <1>4, <1>5, <1>6, <1>7, <1>8, <1>9, <1>10, <1>11, <1>12, <1>13
  DEF IngestNext, Coordinator

LEMMA ChunksStep ==
  ASSUME IngestTypeOK, Flow, [IngestNext]_ingestVars
  PROVE  ChunkConserved'
<1> USE DEF IngestTypeOK, Flow, PipesOK, GateOK, ChunkConserved, Ingesting, Holders, NoChunk
<1>1. CASE StartBatch BY <1>1 DEF StartBatch, Once, Chunks
<1>2. CASE Leave BY <1>2 DEF Leave, Break
<1>3. CASE NoticeOverflow BY <1>3 DEF NoticeOverflow, Drain, pipeVars
<1>4. CASE DrainLimit BY <1>4 DEF DrainLimit, Break
<1>5. CASE DrainRebuild BY <1>5 DEF DrainRebuild, pipeVars
<1>6. CASE Rebuild BY <1>6 DEF Rebuild, Once, InFlight, Chunks, pipeVars
<1>7. CASE Rejournal BY <1>7 DEF Rejournal, pipeVars
<1>8. CASE CommitRecord \/ CommitEvent \/ CommitMark \/ CommitEnd
  BY <1>8 DEF CommitRecord, CommitEvent, CommitMark, CommitEnd, pipeVars
<1>9. CASE RaiseBatch BY <1>9 DEF RaiseBatch
<1>10. CASE \E w \in Pipelines : Pipeline(w)
  <2> SUFFICES ASSUME NEW w \in Pipelines, Pipeline(w) PROVE ChunkConserved'
    BY <1>10
  <2>1. CASE Take(w) BY <2>1 DEF Take, Chunks
  <2>2. CASE Quit(w) BY <2>2 DEF Quit, batchVars
  <2>3. CASE Ingested(w) BY <2>3 DEF Ingested, Release, Chunks
  <2>4. CASE Overflowed(w) BY <2>4 DEF Overflowed, Release, PutBack, Chunks
  <2> QED BY <2>1, <2>2, <2>3, <2>4 DEF Pipeline
<1>11. CASE ResumeStart \/ Resumer \/ ResumeRaise
  BY <1>11 DEF ResumeStart, Resumer, ResumeRaise, ResumeRecord, ResumeEvent, ResumeMark,
     ResumeRebuild, ResumeOverflow, ResumeComplete, ResumeManage, batchVars, pipeVars
<1>12. CASE Crash BY <1>12 DEF Crash
<1>13. CASE UNCHANGED ingestVars BY <1>13 DEF ingestVars, batchVars, pipeVars
<1> QED
  BY <1>1, <1>2, <1>3, <1>4, <1>5, <1>6, <1>7, <1>8, <1>9, <1>10, <1>11, <1>12, <1>13
  DEF IngestNext, Coordinator
-----------------------------------------------------------------------------
(* The journal *)

Marks == MarksOK /\ JournalHonest /\ CompletedHasAll

LEMMA MarksStep ==
  ASSUME IngestTypeOK, PipesOK, GateOK, Marks, [IngestNext]_ingestVars
  PROVE  Marks'
<1> USE DEF IngestTypeOK, Marks, MarksOK, JournalHonest, CompletedHasAll, Kept, Journals
<1>1. CASE StartBatch BY <1>1 DEF StartBatch, Journal, resumeVars, Mine, GateOK
<1>2. CASE Leave
  BY <1>2 DEF Leave, Break, ToCommit, Least, Mine, resumeVars, diskVars
<1>3. CASE NoticeOverflow
  BY <1>3 DEF NoticeOverflow, Drain, ToCommit, Least, Mine, resumeVars, diskVars
<1>4. CASE DrainLimit
  BY <1>4 DEF DrainLimit, Break, ToCommit, Least, Mine, resumeVars, diskVars
<1>5. CASE DrainRebuild
  BY <1>5 DEF DrainRebuild, ToCommit, Least, Mine, resumeVars, diskVars
<1>6. CASE Rebuild BY <1>6 DEF Rebuild, ToCommit, Least, Mine, resumeVars, diskVars
<1>7. CASE Rejournal BY <1>7 DEF Rejournal, SaveJob, Journal, Mine, resumeVars
<1>8. CASE CommitRecord BY <1>8 DEF CommitRecord, ToCommit, Least, Mine, resumeVars
<1>9. CASE CommitEvent BY <1>9 DEF CommitEvent, ToCommit, Least, Mine, resumeVars
<1>10. CASE CommitMark
  BY <1>10 DEF CommitMark, SaveJob, Journal, ToCommit, Least, Mine, resumeVars
<1>11. CASE CommitEnd
  BY <1>11 DEF CommitEnd, SaveJob, EndStatus, Journal, ToCommit, Mine, resumeVars
<1>12. CASE RaiseBatch BY <1>12 DEF RaiseBatch, Mine, resumeVars, diskVars
<1>13. CASE \E w \in Pipelines : Pipeline(w)
  <2> SUFFICES ASSUME NEW w \in Pipelines, Pipeline(w) PROVE Marks'
    BY <1>13
  <2>1. CASE Take(w) BY <2>1 DEF Take, ToCommit, Mine, resumeVars, diskVars
  <2>2. CASE Quit(w) BY <2>2 DEF Quit, ToCommit, Mine, batchVars, resumeVars, diskVars
  <2>3. CASE Ingested(w)
    BY <2>3 DEF Ingested, Release, PipesOK, Ingesting, Mine, resumeVars, diskVars
  <2>4. CASE Overflowed(w)
    BY <2>4 DEF Overflowed, Release, PipesOK, Ingesting, Mine, resumeVars, diskVars
  <2> QED BY <2>1, <2>2, <2>3, <2>4 DEF Pipeline
<1>14. CASE ResumeStart
  BY <1>14 DEF ResumeStart, ToCommit, Mine, batchVars, diskVars
<1>15. CASE ResumeRecord
  BY <1>15 DEF ResumeRecord, ToCommit, Mine, Least, batchVars
<1>16. CASE ResumeEvent
  BY <1>16 DEF ResumeEvent, ToCommit, Mine, Least, batchVars
<1>17. CASE ResumeMark
  BY <1>17 DEF ResumeMark, ResumeSave, Journal, ToCommit, Mine, Least, batchVars
<1>18. CASE ResumeRebuild
  BY <1>18 DEF ResumeRebuild, ResumeSave, Journal, ToCommit, Mine, batchVars
<1>19. CASE ResumeOverflow
  BY <1>19 DEF ResumeOverflow, ResumeSave, Journal, ToCommit, Mine, batchVars
<1>20. CASE ResumeComplete
  BY <1>20 DEF ResumeComplete, ResumeSave, Journal, ToCommit, Mine, batchVars
<1>24. CASE ResumeManage BY <1>24 DEF ResumeManage, ToCommit, Mine, batchVars, diskVars
<1>21. CASE ResumeRaise BY <1>21 DEF ResumeRaise, ToCommit, Mine, batchVars
<1>22. CASE Crash BY <1>22 DEF Crash, ToCommit, Mine, diskVars
<1>23. CASE UNCHANGED ingestVars
  BY <1>23 DEF ingestVars, batchVars, resumeVars, diskVars, ToCommit, Mine
<1> QED
  BY <1>1, <1>2, <1>3, <1>4, <1>5, <1>6, <1>7, <1>8, <1>9, <1>10, <1>11, <1>12, <1>13,
     <1>14, <1>15, <1>16, <1>17, <1>18, <1>19, <1>20, <1>21, <1>22, <1>23, <1>24
  DEF IngestNext, Coordinator, Resumer

-----------------------------------------------------------------------------
LEMMA IngestInvInit == IngestInit => IngestInv
<1> HAVE IngestInit
<1>1. IngestTypeOK BY IngestTypeInit
<1>2. PipesOK /\ GateOK /\ ChunkConserved /\ SameGeneration /\ RebuildFirst
  BY DEF IngestInit, PipesOK, GateOK, ChunkConserved, SameGeneration, RebuildFirst, Ingesting,
     InFlight, NoChunk
<1>3. MarksOK /\ JournalHonest /\ CompletedHasAll
  BY DEF IngestInit, Journal, MarksOK, Kept, JournalHonest, CompletedHasAll
<1> QED BY <1>1, <1>2, <1>3 DEF IngestInv

THEOREM IngestInvariant == IngestSpec => []IngestInv
<1>1. IngestInv /\ [IngestNext]_ingestVars => IngestInv'
  BY IngestTypeStep, PipesStep, GateStep, ChunksStep, MarksStep DEF IngestInv, Flow, Marks
<1> QED BY IngestInvInit, <1>1, PTL DEF IngestSpec

(* Every variable of the split ingest keeps its type.                      *)
THEOREM IngestTypeCorrect == IngestSpec => []IngestTypeOK
BY IngestInvariant, PTL DEF IngestInv

(* While a batch is ingested no chunk is lost and none is worked on twice, *)
(* whatever the pipelines' outcomes and the rebuild (ChunkConserved).      *)
THEOREM ChunksConserved == IngestSpec => []ChunkConserved
BY IngestInvariant, PTL DEF IngestInv

(* No ingestion spans the rebuild of its bucket, and no batch is given up  *)
(* before it (SameGeneration, RebuildFirst).                               *)
THEOREM RebuildIsAlone == IngestSpec => [](SameGeneration /\ RebuildFirst)
BY IngestInvariant, PTL DEF IngestInv

(* What the journal calls done is on disk, and a completed journal leaves  *)
(* nothing behind, across crashes and with a resume beside a live batch.   *)
THEOREM JournalCorrect == IngestSpec => [](JournalHonest /\ CompletedHasAll)
BY IngestInvariant, PTL DEF IngestInv

(***************************************************************************)
(* BucketTree.                                                             *)
(***************************************************************************)

(* The inductive invariant, part by part.  A bucket's successor is younger *)
(* than the bucket.                                                        *)
SealsOK == \A b \in Buckets : Sealed(b) => b < tree[b].sealed_to

(* What a caller at place l remembers: which operation it can be in, and   *)
(* which of its local variables have been assigned by then.                *)
Fits(l, j) ==
  /\ l = "idle" => j = NoJob
  /\ l # "idle" => j.kind # "none"
  /\ j.kind \notin {"none", "move"} => j.at # 0
  /\ j.kind = "move" => j.to # 0
  /\ j.kind = "delete" => j.key \in Keys
  /\ j.manage => j.kind \in {"compress", "split"}
  /\ j.owes # 0 => j.kind \in {"compress", "split", "manage"}
  /\ j.succ # 0 => j.at < j.succ /\ j.kind # "manage"
  /\ l = "lock" => j.kind \notin {"none", "resume", "again"}
  /\ l = "meta" => j.kind \in {"create", "resume"}
  /\ l \in {"lock", "meta"} => j.succ = 0
  /\ l = "titled" => j.kind = "create"
  /\ l = "write" => j.kind \in {"add", "resume", "again"}
  /\ l = "read" => j.kind = "delete"
  /\ l = "node" => j.kind \in {"create", "split"} /\ j.group # 0
  /\ l = "gray" => j.kind \in {"delete", "manage", "compress"} /\ j.key \in Keys
  /\ l \in {"snapshot", "plan", "switch", "managed"} => j.kind \in {"compress", "split"}
  /\ l \in {"fetch", "link", "out", "in"} => j.kind \in {"move", "compress", "split"}
  /\ l \in {"plan", "fetch", "link", "out", "in"} /\ j.kind = "compress" => DOMAIN j.seen = Keys
  /\ l \in {"fetch", "link", "out", "in"} /\ j.kind = "compress" => j.succ # 0
  /\ l \in {"fetch", "link", "out", "in"} /\ j.kind = "split" => j.group # 0
  /\ l \in {"adopt", "switch"} => j.succ # 0
  /\ l = "adopt" => j.kind = "split" /\ j.group # 0
  /\ l = "forget" => j.kind \in {"manage", "compress"}
  /\ l = "pressure" => j.kind = "manage"
  /\ l = "untitle" => j.kind = "delete"

JobsOK == \A p \in Procs : Fits(pc[p], job[p])

(* Locks are taken in the order of the bucket ids, so what a caller waits  *)
(* for is greater than all it holds.  The meta lock is taken first, and    *)
(* given back before a bucket is wanted; only a resumed job holds it all   *)
(* along, and that one holds no bucket when it begins to wait for one.     *)
LocksOK ==
  \A p \in Procs :
    /\ pc[p] = "idle" => Held(p) = {} /\ meta # p
    /\ pc[p] = "meta" => meta # p
    /\ meta = p => job[p].kind = "create" \/ "resume" \in Ops
    /\ job[p].kind = "resume" => Held(p) = {} /\ "resume" \in Ops
    /\ job[p].kind = "manage" /\ pc[p] \in {"forget", "gray"} => Held(p) = {}
    /\ pc[p] = "lock" =>
         /\ job[p].wants \ Held(p) # {}
         /\ \A a \in Held(p), b \in job[p].wants \ Held(p) : a < b
         /\ job[p].kind # "manage" => meta # p

(* The part of it that is about the tree and the records.                  *)
DataOK ==
  /\ count \in Buckets /\ root \in 1 .. count
  /\ tree \in [Buckets -> [parent : 0 .. count, sealed_to : 0 .. count, level : Nat]]
  /\ title \in [Buckets -> 0 .. count]
  /\ rec \in [Keys -> Record(count)]
  /\ gone \subseteq Keys /\ titled \subseteq 1 .. count
  /\ SealsOK

BucketInv == TypeOK /\ SealsOK /\ JobsOK /\ LocksOK

(***************************************************************************)
(* Least and greatest numbers, and the redirects: the recursive Resolve is *)
(* well defined because a chain of successors only goes up.                *)
(***************************************************************************)
LEMMA LeastNat ==
  ASSUME NEW T \in SUBSET Nat, T # {}
  PROVE  \E x \in T : \A y \in T : x <= y
<1>1. IsWellFoundedOn(OpToRel(<, Nat), Nat) BY NatLessThanWellFounded
<1>2. PICK x \in T : \A y \in T : ~ (<<y, x>> \in OpToRel(<, Nat)) BY <1>1, WFMin
<1>3. \A y \in T : ~ (y < x) BY <1>2 DEF OpToRel
<1> QED BY <1>3

LEMMA MinFacts ==
  ASSUME NEW T \in SUBSET Nat, T # {}
  PROVE  Min(T) \in T /\ \A y \in T : Min(T) <= y
  BY LeastNat DEF Min

\* A bounded set of numbers has a greatest one.
LEMMA GreatestNat ==
  ASSUME NEW bound \in Nat, NEW T \in SUBSET (0 .. bound), T # {}
  PROVE  \E x \in T : \A y \in T : y <= x
<1> DEFINE below == {bound - x : x \in T}
<1>1. below \in SUBSET Nat /\ below # {}
  <2>1. \A x \in T : bound - x \in Nat OBVIOUS
  <2>2. below \in SUBSET Nat BY <2>1
  <2>3. PICK x \in T : TRUE OBVIOUS
  <2>4. bound - x \in below OBVIOUS
  <2> QED BY <2>2, <2>4
<1>2. PICK d \in below : \A e \in below : d <= e BY <1>1, LeastNat
<1>3. PICK x \in T : d = bound - x BY <1>2
<1>4. ASSUME NEW y \in T PROVE y <= x
  <2>1. bound - y \in below OBVIOUS
  <2>2. d <= bound - y BY <2>1, <1>2
  <2> QED BY <1>3, <2>2
<1> QED BY <1>4

LEMMA BucketsFacts ==
  /\ 2 + 3 * MaxOps \in Nat /\ 2 + 3 * MaxOps >= 2
  /\ Buckets \subseteq Nat \ {0} /\ 1 \in Buckets /\ 2 \in Buckets
  /\ \A b \in Buckets : b <= 2 + 3 * MaxOps
  BY BucketAssumption DEF Buckets

\* f resolves every redirect.
ResolvesTo(f) == f = [b \in Buckets |-> IF tree[b].sealed_to = 0 THEN b ELSE f[tree[b].sealed_to]]

LEMMA ResolveExists ==
  ASSUME DataOK PROVE \E f : ResolvesTo(f)
<1> DEFINE last == 2 + 3 * MaxOps
<1> DEFINE Partial(f, n) ==
      f = [b \in (last - n + 1) .. last |->
             IF tree[b].sealed_to = 0 THEN b ELSE f[tree[b].sealed_to]]
<1> DEFINE bad == {n \in 0 .. last : ~ \E f : Partial(f, n)}
<1>0. last \in Nat /\ Buckets = 1 .. last BY BucketAssumption DEF Buckets
<1>a. \A b \in 1 .. last : tree[b].sealed_to # 0 => tree[b].sealed_to \in (b + 1) .. last
  BY <1>0 DEF DataOK, SealsOK, Sealed
<1> HIDE DEF last
<1>1. ASSUME bad # {} PROVE FALSE
  <2>1. bad \in SUBSET Nat BY <1>0
  <2>2. PICK n \in bad : \A k \in bad : n <= k BY <1>1, <2>1, LeastNat
  <2>3. n # 0
    <3> DEFINE none == [b \in (last - 0 + 1) .. last |-> b]
    <3>1. Partial(none, 0) BY <1>0
    <3> QED BY <3>1
  <2>4. n - 1 \in 0 .. last /\ n - 1 \notin bad
    <3>1. n \in 0 .. last BY <2>2
    <3>2. \A k \in bad : n <= k BY <2>2
    <3> HIDE DEF bad
    <3>3. n - 1 \in 0 .. last /\ ~(n <= n - 1) BY <2>3, <3>1, <1>0
    <3> QED BY <3>2, <3>3
  <2>5. PICK f : Partial(f, n - 1) BY <2>4
  <2>6. n \in 1 .. last BY <2>3, <1>0
  <2> DEFINE b0 == last - n + 1
  <2> DEFINE Next0(b) == IF tree[b].sealed_to = 0 THEN b ELSE f[tree[b].sealed_to]
  <2> DEFINE g == [b \in b0 .. last |-> Next0(b)]
  <2>7. \A b \in (b0 + 1) .. last : f[b] = g[b] /\ f[b] = Next0(b)
    <3>1. last - (n - 1) + 1 = b0 + 1 /\ b0 \in Int BY <2>6, <1>0
    <3>2. f = [b \in (b0 + 1) .. last |-> Next0(b)] BY <2>5, <3>1
    <3> HIDE DEF b0, Next0
    <3>3. \A b \in (b0 + 1) .. last : b \in b0 .. last BY <3>1, <1>0
    <3>4. \A b \in (b0 + 1) .. last : f[b] = Next0(b) BY <3>2, Zenon
    <3> QED BY <3>3, <3>4
  <2>8. \A b \in b0 .. last :
          tree[b].sealed_to # 0 => tree[b].sealed_to \in (b0 + 1) .. last
    BY <1>a, <1>0, <2>6
  <2>9. \A b \in b0 .. last :
          g[b] = IF tree[b].sealed_to = 0 THEN b ELSE g[tree[b].sealed_to]
    BY <2>7, <2>8
  <2>10. Partial(g, n) BY <2>9
  <2> QED BY <2>10, <2>2
<1>2. last \notin bad BY <1>1
<1>3. PICK f : Partial(f, last) BY <1>2, <1>0
<1>4. ResolvesTo(f) BY <1>3, <1>0 DEF ResolvesTo
<1> QED BY <1>4

LEMMA ResolveFacts ==
  ASSUME DataOK
  PROVE  \A b \in 1 .. count : Resolve[b] \in Live
<1>1. PICK f : ResolvesTo(f) BY ResolveExists
<1>2. ResolvesTo(Resolve) BY <1>1 DEF Resolve, ResolvesTo
<1> DEFINE bad == {b \in 1 .. count : Resolve[b] \notin Live}
<1>3. ASSUME bad # {} PROVE FALSE
  <2>1. count \in Nat /\ bad \in SUBSET (0 .. count) /\ 1 .. count \subseteq Buckets
    BY BucketAssumption DEF DataOK, Buckets
  <2>2. PICK b \in bad : \A a \in bad : a <= b BY <1>3, <2>1, GreatestNat
  <2>3. b \in Buckets /\ b \in 1 .. count BY <2>1
  <2>4. Resolve[b] = IF tree[b].sealed_to = 0 THEN b ELSE Resolve[tree[b].sealed_to]
    BY <1>2, <2>3 DEF ResolvesTo
  <2>5. tree[b].sealed_to # 0 BY <2>3, <2>4 DEF Live
  <2>6. tree[b].sealed_to \in 1 .. count /\ b < tree[b].sealed_to
    BY <2>3, <2>5, <2>1 DEF DataOK, SealsOK, Sealed
  <2>7. tree[b].sealed_to \notin bad BY <2>2, <2>6, <2>1
  <2> QED BY <2>4, <2>5, <2>6, <2>7
<1> QED BY <1>3

(***************************************************************************)
(* What a step must give for the invariant: the ways a caller goes on.     *)
(***************************************************************************)
DataSame == UNCHANGED <<tree, count, title, root, rec, gone, titled>>

LEMMA DataKept ==
  ASSUME DataOK, DataSame PROVE DataOK'
  BY DEF DataOK, DataSame, SealsOK, Sealed

LEMMA JobGrows ==
  ASSUME NEW c \in Nat, NEW d \in {c, c + 1}, NEW j \in Job(c)
  PROVE  j \in Job(d)
<1>1. Record(c) \subseteq Record(d)  /\ 1 .. c \subseteq 1 .. d /\ 0 .. c \subseteq 0 .. d
  BY DEF Record
<1>2. [Keys -> Record(c)] \subseteq [Keys -> Record(d)] BY <1>1
<1> DEFINE seen1 == {<<>>} \cup [Keys -> Record(c)]
<1> DEFINE seen2 == {<<>>} \cup [Keys -> Record(d)]
<1>3. seen1 \subseteq seen2 BY <1>2
<1> DEFINE R1 == Record(c)
<1> DEFINE R2 == Record(d)
<1>4. R1 \subseteq R2 BY <1>1
<1>5. /\ j \in [kind : Kinds \cup {"none", "manage", "again"}, at : 0 .. c, to : 0 .. c, wants : SUBSET (1 .. c),
           key : Keys \cup {0}, cur : R1, todo : SUBSET Keys, keep : SUBSET Keys,
           seen : seen1, group : 0 .. c, succ : 0 .. c, manage : BOOLEAN, owes : Keys \cup {0}]
  BY DEF Job
<1> SUFFICES j \in [kind : Kinds \cup {"none", "manage", "again"}, at : 0 .. d, to : 0 .. d, wants : SUBSET (1 .. d),
           key : Keys \cup {0}, cur : R2, todo : SUBSET Keys, keep : SUBSET Keys,
           seen : seen2, group : 0 .. d, succ : 0 .. d, manage : BOOLEAN, owes : Keys \cup {0}]
  BY DEF Job
<1> HIDE DEF seen1, seen2, R1, R2
<1> QED BY <1>1, <1>3, <1>4, <1>5

\* What the place of one caller and its job leave of the others.
LEMMA JobsKept ==
  ASSUME TypeOK, JobsOK, NEW p \in Procs, NEW l \in States, count' \in {count, count + 1},
         NEW j \in Job(count'), Fits(l, j),
         pc' = [pc EXCEPT ![p] = l], job' = [job EXCEPT ![p] = j]
  PROVE  pc' \in [Procs -> States] /\ job' \in [Procs -> Job(count')] /\ JobsOK'
<1>1. count \in Nat BY BucketsFacts DEF TypeOK
<1>2. \A q \in Procs : job[q] \in Job(count)  BY DEF TypeOK
<1>3. \A q \in Procs : job[q] \in Job(count') BY <1>1, <1>2, JobGrows
<1>4. \A q \in Procs : pc[q] \in States /\ Fits(pc[q], job[q]) BY DEF TypeOK, JobsOK
<1>5. /\ \A q \in Procs : pc'[q] = IF q = p THEN l ELSE pc[q]
      /\ \A q \in Procs : job'[q] = IF q = p THEN j ELSE job[q]
      /\ DOMAIN pc' = Procs /\ DOMAIN job' = Procs
  BY DEF TypeOK
<1>6. \A q \in Procs : Fits(pc'[q], job'[q]) BY <1>4, <1>5
<1>7. pc' \in [Procs -> States] BY <1>4, <1>5
<1>8. job' \in [Procs -> Job(count')] BY <1>3, <1>5
<1> QED BY <1>6, <1>7, <1>8 DEF JobsOK

LEMMA InvParts ==
  BucketInv => DataOK /\ JobsOK /\ LocksOK /\ TypeOK
  BY DEF BucketInv, DataOK, TypeOK

LEMMA InvFromParts ==
  ASSUME DataOK', JobsOK', LocksOK',
         owner' \in [Buckets -> Procs \cup {None, Leaked}], meta' \in Procs \cup {None},
         pc' \in [Procs -> States], job' \in [Procs -> Job(count')]
  PROVE  BucketInv'
  BY DEF BucketInv, DataOK, TypeOK

\* The caller goes on, with the locks it has.
LEMMA GoesOn ==
  ASSUME BucketInv, DataOK', count' \in {count, count + 1},
         NEW p \in Procs, NEW l \in States, NEW j \in Job(count'), Fits(l, j), Goto(p, l, j),
         l \notin {"idle", "lock", "meta"}, j.kind # "resume",
         j.kind = "manage" /\ l \in {"forget", "gray"} => Held(p) = {},
         job[p].kind = "create" => j.kind = "create"
  PROVE  BucketInv'
<1>1. DataOK /\ JobsOK /\ LocksOK /\ TypeOK BY InvParts
<1>2. pc' = [pc EXCEPT ![p] = l] /\ job' = [job EXCEPT ![p] = j] /\ owner' = owner /\ meta' = meta
  BY DEF Goto
<1>3. pc' \in [Procs -> States] /\ job' \in [Procs -> Job(count')] /\ JobsOK'
  BY <1>1, <1>2, JobsKept
<1>4. \A q \in Procs : Held(q)' = Held(q) BY <1>2 DEF Held
<1>5. /\ \A q \in Procs : pc'[q] = IF q = p THEN l ELSE pc[q]
      /\ \A q \in Procs : job'[q] = IF q = p THEN j ELSE job[q]
  BY <1>1, <1>2 DEF TypeOK
<1>6. LocksOK'
  <2> SUFFICES ASSUME NEW q \in Procs
               PROVE  /\ pc'[q] = "idle" => Held(q) = {} /\ meta # q
                      /\ pc'[q] = "meta" => meta # q
                      /\ meta = q => job'[q].kind = "create" \/ "resume" \in Ops
                      /\ job'[q].kind = "resume" => Held(q) = {} /\ "resume" \in Ops
                      /\ job'[q].kind = "manage" /\ pc'[q] \in {"forget", "gray"} => Held(q) = {}
                      /\ pc'[q] = "lock" =>
                           /\ job'[q].wants \ Held(q) # {}
                           /\ \A a \in Held(q), b \in job'[q].wants \ Held(q) : a < b
                           /\ job'[q].kind # "manage" => meta # q
    BY <1>2, <1>4 DEF LocksOK
  <2>0. meta = p => job[p].kind = "create" \/ "resume" \in Ops BY <1>1 DEF LocksOK
  <2>1. CASE q = p BY <2>0, <2>1, <1>5
  <2>2. CASE q # p BY <2>2, <1>1, <1>5 DEF LocksOK
  <2> QED BY <2>1, <2>2
<1>7. owner' \in [Buckets -> Procs \cup {None, Leaked}] /\ meta' \in Procs \cup {None}
  BY <1>1, <1>2 DEF TypeOK
<1> QED BY <1>3, <1>6, <1>7, InvFromParts

\* The locks that `async with` gives back at its end.
Freed(p) == owner' = [b \in Buckets |-> IF owner[b] = p THEN None ELSE owner[b]]

LEMMA FreedFacts ==
  ASSUME TypeOK, NEW p \in Procs, Freed(p)
  PROVE  /\ owner' \in [Buckets -> Procs \cup {None, Leaked}]
         /\ Held(p)' = {} /\ \A q \in Procs \ {p} : Held(q)' = Held(q)
<1>1. None \notin Procs BY BucketAssumption
<1>2. \A b \in Buckets : owner[b] \in Procs \cup {None, Leaked} /\ owner'[b] = IF owner[b] = p THEN None ELSE owner[b]
  BY DEF TypeOK, Freed
<1>3. owner' \in [Buckets -> Procs \cup {None, Leaked}] BY <1>2 DEF Freed
<1>4. Held(p)' = {} BY <1>1, <1>2 DEF Held
<1>5. \A q \in Procs \ {p} : Held(q)' = Held(q) BY <1>1, <1>2 DEF Held
<1> QED BY <1>3, <1>4, <1>5

\* The caller goes on without bucket locks, and with the meta lock or without.
LEMMA GivesBack ==
  ASSUME BucketInv, DataOK', count' \in {count, count + 1},
         NEW p \in Procs, NEW l \in States, NEW j \in Job(count'), Fits(l, j), Freed(p),
         pc' = [pc EXCEPT ![p] = l], job' = [job EXCEPT ![p] = j],
         meta' = meta \/ (meta = p /\ meta' = None),
         l \notin {"lock", "meta"}, j.kind # "resume",
         l = "idle" => meta' # p, l # "idle" /\ job[p].kind = "create" => j.kind = "create"
  PROVE  BucketInv'
<1>1. DataOK /\ JobsOK /\ LocksOK /\ TypeOK BY InvParts
<1>3. pc' \in [Procs -> States] /\ job' \in [Procs -> Job(count')] /\ JobsOK'
  BY <1>1, JobsKept
<1>4. /\ owner' \in [Buckets -> Procs \cup {None, Leaked}]
      /\ Held(p)' = {} /\ \A q \in Procs \ {p} : Held(q)' = Held(q)
  BY <1>1, FreedFacts
<1>5. /\ \A q \in Procs : pc'[q] = IF q = p THEN l ELSE pc[q]
      /\ \A q \in Procs : job'[q] = IF q = p THEN j ELSE job[q]
  BY <1>1 DEF TypeOK
<1>6. \A q \in Procs \ {p} : meta # q => meta' # q BY BucketAssumption
<1>7. LocksOK'
  <2> DEFINE heldp == Held(p)'
  <2> SUFFICES ASSUME NEW q \in Procs
               PROVE  /\ pc'[q] = "idle" => Held(q)' = {} /\ meta' # q
                      /\ pc'[q] = "meta" => meta' # q
                      /\ meta' = q => job'[q].kind = "create" \/ "resume" \in Ops
                      /\ job'[q].kind = "resume" => Held(q)' = {} /\ "resume" \in Ops
                      /\ job'[q].kind = "manage" /\ pc'[q] \in {"forget", "gray"} => Held(q)' = {}
                      /\ pc'[q] = "lock" =>
                           /\ job'[q].wants \ Held(q)' # {}
                           /\ \A a \in Held(q)', b \in job'[q].wants \ Held(q)' : a < b
                           /\ job'[q].kind # "manage" => meta' # q
    BY DEF LocksOK
  <2>0. /\ meta = p => job[p].kind = "create" \/ "resume" \in Ops
        /\ meta' = p => meta = p
    BY <1>1, BucketAssumption DEF LocksOK
  <2>1. CASE q = p BY <2>0, <2>1, <1>4, <1>5
  <2>2. CASE q # p
    <3>1. Held(q)' = Held(q) /\ pc'[q] = pc[q] /\ job'[q] = job[q] BY <2>2, <1>4, <1>5
    <3>2. meta # q => meta' # q BY <2>2, <1>6
    <3> QED BY <3>1, <3>2, <1>1 DEF LocksOK
  <2> QED BY <2>1, <2>2
<1>8. meta' \in Procs \cup {None} BY <1>1 DEF TypeOK
<1> QED BY <1>3, <1>4, <1>7, <1>8, InvFromParts

LEMMA NoJobFits ==
  ASSUME NEW c \in Nat PROVE NoJob \in Job(c) /\ Fits("idle", NoJob) /\ "idle" \in States
<1>1. NoRecord \in Record(c) BY DEF NoRecord, Record
<1> QED BY <1>1 DEF NoJob, Job, Fits, States, Kinds

\* The ends of an operation: it returns, it fails, it goes on to a managed one.
LEMMA FinishKeeps ==
  ASSUME BucketInv, DataOK', count' \in {count, count + 1}, NEW p \in Procs, Finish(p)
  PROVE  BucketInv'
<1>1. count' \in Nat BY BucketsFacts DEF DataOK
<1>2. Freed(p) BY DEF Finish, Freed
<1>3. NoJob \in Job(count') /\ Fits("idle", NoJob) /\ "idle" \in States BY <1>1, NoJobFits
<1>5. NoJob.kind # "resume" BY DEF NoJob
<1>4. (meta' = meta \/ (meta = p /\ meta' = None)) /\ meta' # p BY BucketAssumption DEF Finish
<1> QED BY <1>2, <1>3, <1>4, <1>5, GivesBack DEF Finish

\* Callers only name buckets that exist.
LEMMA NamedFacts ==
  ASSUME DataOK PROVE Named \subseteq 1 .. count
<1>1. \A b \in 1 .. count : Resolve[b] \in 1 .. count BY ResolveFacts DEF Live
<1>2. root \in 1 .. count BY DEF DataOK
<1>3. count \in Nat BY BucketsFacts DEF DataOK
<1>4. \A k \in Buckets : rec[k].child # 0 => rec[k].child \in 1 .. count
  BY <1>3 DEF DataOK, Record, Keys
<1> QED BY <1>1, <1>2, <1>4 DEF Named

(***************************************************************************)
(* Jobs, field by field, and the requests that begin them.                 *)
(***************************************************************************)
Fields == {"kind", "at", "to", "wants", "key", "cur", "todo", "keep", "seen", "group", "succ",
           "manage", "owes"}
IsJob(j) == DOMAIN j = Fields /\ j = [x \in Fields |-> j[x]]

LEMMA JobByFields ==
  ASSUME NEW j, NEW c \in Nat, IsJob(j),
         j.kind \in Kinds \cup {"none", "manage", "again"}, j.at \in 0 .. c, j.to \in 0 .. c,
         j.wants \in SUBSET (1 .. c), j.key \in Keys \cup {0}, j.cur \in Record(c),
         j.todo \in SUBSET Keys, j.keep \in SUBSET Keys,
         j.seen \in {<<>>} \cup [Keys -> Record(c)], j.group \in 0 .. c, j.succ \in 0 .. c,
         j.manage \in BOOLEAN, j.owes \in Keys \cup {0}
  PROVE  j \in Job(c)
  BY DEF Job, Fields, IsJob

LEMMA FieldsOfJob ==
  ASSUME NEW c \in Nat, NEW j \in Job(c)
  PROVE  /\ IsJob(j)
         /\ j.kind \in Kinds \cup {"none", "manage", "again"} /\ j.at \in 0 .. c /\ j.to \in 0 .. c
         /\ j.wants \in SUBSET (1 .. c) /\ j.key \in Keys \cup {0} /\ j.cur \in Record(c)
         /\ j.todo \in SUBSET Keys /\ j.keep \in SUBSET Keys
         /\ j.seen \in {<<>>} \cup [Keys -> Record(c)] /\ j.group \in 0 .. c /\ j.succ \in 0 .. c
         /\ j.manage \in BOOLEAN /\ j.owes \in Keys \cup {0}
  BY DEF Job, Fields, IsJob

\* A job that has just begun.
Fresh(j) ==
  /\ IsJob(j)
  /\ j.cur = NoRecord /\ j.keep = {} /\ j.seen = <<>> /\ j.succ = 0 /\ j.owes = 0

LEMMA OnFields ==
  ASSUME NEW kind, NEW b
  PROVE  LET j == On(kind, b)
         IN  /\ Fresh(j) /\ j.kind = kind /\ j.at = b /\ j.wants = {b}
             /\ j.to = 0 /\ j.key = 0 /\ j.todo = {} /\ j.group = 0
             /\ j.manage \in BOOLEAN /\ ~j.manage
  BY DEF On, NoJob, IsJob, Fields, Fresh

LEMMA FreshJob ==
  ASSUME NEW c \in Nat, NEW j, Fresh(j), j.kind \in Kinds \cup {"manage", "again"}, j.at \in 0 .. c,
         j.to \in 0 .. c, j.wants \in SUBSET (1 .. c), j.key \in Keys \cup {0},
         j.todo \in SUBSET Keys, j.group \in 0 .. c, j.manage \in BOOLEAN
  PROVE  j \in Job(c)
<1>1. NoRecord \in Record(c) BY DEF NoRecord, Record
<1> QED BY <1>1, JobByFields DEF Fresh

LEMMA OnJob ==
  ASSUME NEW c \in Nat, NEW kind \in Kinds \cup {"manage", "again"}, NEW b \in 1 .. c
  PROVE  On(kind, b) \in Job(c)
<1> DEFINE j == On(kind, b)
<1>1. /\ Fresh(j) /\ j.kind = kind /\ j.at = b /\ j.wants = {b}
      /\ j.to = 0 /\ j.key = 0 /\ j.todo = {} /\ j.group = 0 /\ j.manage \in BOOLEAN /\ ~j.manage
  BY OnFields
<1> HIDE DEF j
<1>2. j \in Job(c) BY <1>1, FreshJob
<1> QED BY <1>2 DEF j

\* A caller that holds no bucket begins to wait.
LEMMA Waits ==
  ASSUME BucketInv, DataOK', count' = count, NEW p \in Procs, NEW l \in {"lock", "meta"},
         NEW j \in Job(count), Fits(l, j), j.wants # {}, Goto(p, l, j), Held(p) = {},
         l = "meta" \/ j.kind # "manage" => meta # p,
         job[p].kind = "create" => j.kind = "create", j.kind = "resume" => "resume" \in Ops
  PROVE  BucketInv'
<1>1. DataOK /\ JobsOK /\ LocksOK /\ TypeOK BY InvParts
<1>2. pc' = [pc EXCEPT ![p] = l] /\ job' = [job EXCEPT ![p] = j] /\ owner' = owner /\ meta' = meta
  BY DEF Goto
<1>3. l \in States BY DEF States
<1>4. pc' \in [Procs -> States] /\ job' \in [Procs -> Job(count')] /\ JobsOK'
  BY <1>1, <1>2, <1>3, JobsKept
<1>5. \A q \in Procs : Held(q)' = Held(q) BY <1>2 DEF Held
<1>6. /\ \A q \in Procs : pc'[q] = IF q = p THEN l ELSE pc[q]
      /\ \A q \in Procs : job'[q] = IF q = p THEN j ELSE job[q]
  BY <1>1, <1>2 DEF TypeOK
<1>7. LocksOK'
  <2> SUFFICES ASSUME NEW q \in Procs
               PROVE  /\ pc'[q] = "idle" => Held(q) = {} /\ meta # q
                      /\ pc'[q] = "meta" => meta # q
                      /\ meta = q => job'[q].kind = "create" \/ "resume" \in Ops
                      /\ job'[q].kind = "resume" => Held(q) = {} /\ "resume" \in Ops
                      /\ job'[q].kind = "manage" /\ pc'[q] \in {"forget", "gray"} => Held(q) = {}
                      /\ pc'[q] = "lock" =>
                           /\ job'[q].wants \ Held(q) # {}
                           /\ \A a \in Held(q), b \in job'[q].wants \ Held(q) : a < b
                           /\ job'[q].kind # "manage" => meta # q
    BY <1>2, <1>5 DEF LocksOK
  <2>0. meta = p => job[p].kind = "create" \/ "resume" \in Ops BY <1>1 DEF LocksOK
  <2>1. CASE q = p BY <2>0, <2>1, <1>6
  <2>2. CASE q # p BY <2>2, <1>1, <1>6 DEF LocksOK
  <2> QED BY <2>1, <2>2
<1>8. owner' \in [Buckets -> Procs \cup {None, Leaked}] /\ meta' \in Procs \cup {None}
  BY <1>1, <1>2 DEF TypeOK
<1> QED BY <1>4, <1>7, <1>8, InvFromParts

\* An operation begins: its caller holds nothing at all.
LEMMA AskKeeps ==
  ASSUME BucketInv, NEW p \in Procs, NEW op \in Kinds, NEW j \in Job(count), Ask(p, op, j),
         j.kind = op, j.wants # {}, NEW l, l = IF op = "resume" THEN "meta" ELSE "lock",
         Fits(l, j)
  PROVE  BucketInv'
<1>1. DataOK /\ LocksOK BY InvParts
<1>2. pc[p] = "idle" /\ Goto(p, l, j) /\ count' = count /\ DataSame
  BY DEF Ask, Goto, DataSame, data
<1>3. DataOK' BY <1>1, <1>2, DataKept
<1>4. Held(p) = {} /\ meta # p BY <1>1, <1>2 DEF LocksOK
<1>5. job[p].kind = "none" BY <1>2, InvParts DEF JobsOK, Fits, NoJob
<1>6. op \in Ops BY DEF Ask
<1> QED BY <1>2, <1>3, <1>4, <1>5, <1>6, Waits

LEMMA RequestKeeps ==
  ASSUME BucketInv, NEW p \in Procs, Request(p) PROVE BucketInv'
<1>1. DataOK /\ JobsOK /\ LocksOK /\ TypeOK BY InvParts
<1>2. count \in Nat /\ Named \subseteq 1 .. count /\ NoRecord \in Record(count)
      /\ \A b \in 1 .. count : Resolve[b] \in 1 .. count
  BY <1>1, NamedFacts, BucketsFacts, ResolveFacts DEF DataOK, Live, NoRecord, Record
<1>3. \A k \in Keys : rec[k] \in Record(count) BY <1>1 DEF DataOK
<1>4. Present \subseteq Keys /\ \A k \in Present : rec[k].in \in 1 .. count
  <2>1. 2 .. count \subseteq Buckets BY BucketsFacts, <1>1 DEF DataOK, Buckets
  <2> QED BY <2>1, <1>2, <1>3 DEF Present, Keys, Record
<1>5. \A kind \in Kinds, b \in 1 .. count : On(kind, b) \in Job(count) BY <1>2, OnJob
<1>6. CASE set_bucket(p)
  <2>1. PICK b \in Named : Ask(p, "create", On("create", b)) BY <1>6 DEF set_bucket
  <2>2. On("create", b) \in Job(count) BY <1>2, <1>5 DEF Kinds
  <2> DEFINE j == On("create", b)
  <2>3. j.kind = "create" /\ j.at = b /\ j.wants = {b} /\ j.succ = 0 /\ j.owes = 0
        /\ j.manage \in BOOLEAN /\ ~j.manage
    BY OnFields DEF Fresh
  <2>5. b \in 1 .. count BY <1>2
  <2>6. Ask(p, "create", j) /\ j \in Job(count) BY <2>1, <2>2
  <2> HIDE DEF j
  <2>7. Fits("lock", j) BY <2>3, <2>5 DEF Fits
  <2> QED BY <2>3, <2>6, <2>7, AskKeeps DEF Kinds
<1>7. CASE add_memory(p)
  <2>1. PICK b \in Named, k \in Adding : Ask(p, "add", [On("add", b) EXCEPT !.key = k]) BY <1>7 DEF add_memory
  <2> DEFINE o == On("add", b)
  <2> DEFINE j == [o EXCEPT !.key = k]
  <2>2. k \in Keys /\ b \in 1 .. count BY <1>2 DEF Adding, Keys
  <2>3. /\ Fresh(o) /\ o.kind = "add" /\ o.at = b /\ o.wants = {b}
        /\ o.to = 0 /\ o.todo = {} /\ o.group = 0 /\ o.manage \in BOOLEAN /\ ~o.manage
    BY OnFields
  <2>4. Ask(p, "add", j) BY <2>1
  <2> HIDE DEF o
  <2>5. /\ Fresh(j) /\ j.kind = "add" /\ j.at = b /\ j.wants = {b} /\ j.key = k
        /\ j.to = 0 /\ j.todo = {} /\ j.group = 0 /\ j.manage \in BOOLEAN /\ ~j.manage
    BY <2>3 DEF Fresh, IsJob, Fields
  <2> HIDE DEF j
  <2>6. j \in Job(count) BY <1>2, <2>2, <2>5, FreshJob DEF Kinds
  <2>7. Fits("lock", j) BY <2>2, <2>5 DEF Fits, Fresh
  <2> QED BY <2>4, <2>5, <2>6, <2>7, AskKeeps DEF Kinds
<1>8. CASE resume_jobs(p)
  <2>1. PICK b \in Named, k \in Adding : Ask(p, "resume", [On("resume", b) EXCEPT !.key = k]) BY <1>8 DEF resume_jobs
  <2> DEFINE o == On("resume", b)
  <2> DEFINE j == [o EXCEPT !.key = k]
  <2>2. k \in Keys /\ b \in 1 .. count BY <1>2 DEF Adding, Keys
  <2>3. /\ Fresh(o) /\ o.kind = "resume" /\ o.at = b /\ o.wants = {b}
        /\ o.to = 0 /\ o.todo = {} /\ o.group = 0 /\ o.manage \in BOOLEAN /\ ~o.manage
    BY OnFields
  <2>4. Ask(p, "resume", j) BY <2>1
  <2> HIDE DEF o
  <2>5. /\ Fresh(j) /\ j.kind = "resume" /\ j.at = b /\ j.wants = {b} /\ j.key = k
        /\ j.to = 0 /\ j.todo = {} /\ j.group = 0 /\ j.manage \in BOOLEAN /\ ~j.manage
    BY <2>3 DEF Fresh, IsJob, Fields
  <2> HIDE DEF j
  <2>6. j \in Job(count) BY <1>2, <2>2, <2>5, FreshJob DEF Kinds
  <2>7. Fits("meta", j) BY <2>2, <2>5 DEF Fits, Fresh
  <2> QED BY <2>4, <2>5, <2>6, <2>7, AskKeeps DEF Kinds
<1>9. CASE delete_memory(p)
  <2>1. PICK k \in Present :
          Ask(p, "delete", [On("delete", Resolve[rec[k].in]) EXCEPT
              !.key = k, !.group = rec[k].child,
              !.to = IF rec[k].child = 0 THEN 0 ELSE tree[rec[k].child].parent])
    BY <1>9 DEF delete_memory
  <2> DEFINE b == Resolve[rec[k].in]
  <2> DEFINE child == rec[k].child
  <2> DEFINE parent == IF child = 0 THEN 0 ELSE tree[child].parent
  <2> DEFINE o == On("delete", b)
  <2> DEFINE j == [o EXCEPT !.key = k, !.group = child, !.to = parent]
  <2>2. k \in Keys /\ b \in 1 .. count BY <1>2, <1>4
  <2>3. child \in 0 .. count BY <1>3, <2>2 DEF Record
  <2>4. parent \in 0 .. count
    <3>1. child # 0 => child \in Buckets BY <2>3, <1>1, BucketsFacts DEF DataOK, Buckets
    <3> HIDE DEF child
    <3>2. child # 0 => tree[child].parent \in 0 .. count BY <3>1, <1>1 DEF DataOK
    <3> QED BY <3>2, <1>2
  <2>5. Ask(p, "delete", j) BY <2>1
  <2> HIDE DEF b, child, parent
  <2>6. /\ Fresh(o) /\ o.kind = "delete" /\ o.at = b /\ o.wants = {b}
        /\ o.todo = {} /\ o.manage \in BOOLEAN /\ ~o.manage
    BY OnFields
  <2> HIDE DEF o
  <2>7. /\ Fresh(j) /\ j.kind = "delete" /\ j.at = b /\ j.wants = {b} /\ j.key = k
        /\ j.to = parent /\ j.todo = {} /\ j.group = child /\ j.manage \in BOOLEAN /\ ~j.manage
    BY <2>6 DEF Fresh, IsJob, Fields
  <2> HIDE DEF j
  <2>8. j \in Job(count) BY <1>2, <2>2, <2>3, <2>4, <2>7, FreshJob DEF Kinds
  <2>9. Fits("lock", j) BY <2>2, <2>7 DEF Fits, Fresh
  <2> QED BY <2>5, <2>7, <2>8, <2>9, AskKeeps DEF Kinds
<1>10. CASE move_item(p)
  <2>1. PICK k \in Present, b \in Named :
          Ask(p, "move", [On("move", 0) EXCEPT !.to = b, !.todo = {k}, !.wants = {Resolve[rec[k].in], b}])
    BY <1>10 DEF move_item
  <2> DEFINE from == Resolve[rec[k].in]
  <2> DEFINE o == On("move", 0)
  <2> DEFINE j == [o EXCEPT !.to = b, !.todo = {k}, !.wants = {from, b}]
  <2>2. k \in Keys /\ b \in 1 .. count /\ from \in 1 .. count BY <1>2, <1>4
  <2>3. Ask(p, "move", j) BY <2>1
  <2> HIDE DEF from
  <2>4. /\ Fresh(o) /\ o.kind = "move" /\ o.at = 0 /\ o.key = 0 /\ o.group = 0 /\ o.manage \in BOOLEAN /\ ~o.manage
    BY OnFields
  <2> HIDE DEF o
  <2>5. /\ Fresh(j) /\ j.kind = "move" /\ j.at = 0 /\ j.wants = {from, b} /\ j.key = 0
        /\ j.to = b /\ j.todo = {k} /\ j.group = 0 /\ j.manage \in BOOLEAN /\ ~j.manage
    BY <2>4 DEF Fresh, IsJob, Fields
  <2> HIDE DEF j
  <2>6. j \in Job(count) BY <1>2, <2>2, <2>5, FreshJob DEF Kinds
  <2>7. Fits("lock", j) BY <2>2, <2>5 DEF Fits, Fresh
  <2> QED BY <2>3, <2>5, <2>6, <2>7, AskKeeps DEF Kinds
<1>11. CASE compress_bucket(p)
  <2>1. PICK b \in Named : Ask(p, "compress", On("compress", b)) BY <1>11 DEF compress_bucket
  <2>2. On("compress", b) \in Job(count) BY <1>2, <1>5 DEF Kinds
  <2> DEFINE j == On("compress", b)
  <2>3. j.kind = "compress" /\ j.at = b /\ j.wants = {b} /\ j.succ = 0 /\ j.owes = 0
        /\ j.manage \in BOOLEAN /\ ~j.manage
    BY OnFields DEF Fresh
  <2>5. b \in 1 .. count BY <1>2
  <2>6. Ask(p, "compress", j) /\ j \in Job(count) BY <2>1, <2>2
  <2> HIDE DEF j
  <2>7. Fits("lock", j) BY <2>3, <2>5 DEF Fits
  <2> QED BY <2>3, <2>6, <2>7, AskKeeps DEF Kinds
<1>12. CASE split_bucket(p)
  <2>1. PICK b \in Named : Ask(p, "split", On("split", b)) BY <1>12 DEF split_bucket
  <2>2. On("split", b) \in Job(count) BY <1>2, <1>5 DEF Kinds
  <2> DEFINE j == On("split", b)
  <2>3. j.kind = "split" /\ j.at = b /\ j.wants = {b} /\ j.succ = 0 /\ j.owes = 0
        /\ j.manage \in BOOLEAN /\ ~j.manage
    BY OnFields DEF Fresh
  <2>5. b \in 1 .. count BY <1>2
  <2>6. Ask(p, "split", j) /\ j \in Job(count) BY <2>1, <2>2
  <2> HIDE DEF j
  <2>7. Fits("lock", j) BY <2>3, <2>5 DEF Fits
  <2> QED BY <2>3, <2>6, <2>7, AskKeeps DEF Kinds
<1> QED BY <1>6, <1>7, <1>8, <1>9, <1>10, <1>11, <1>12 DEF Request

LEMMA SameData ==
  ASSUME BucketInv, UNCHANGED <<data, origin, titled, gone>>
  PROVE  DataOK' /\ count' = count
<1>1. DataSame BY DEF DataSame, data
<1> QED BY <1>1, InvParts, DataKept DEF DataSame

\* What the invariant says of one caller.
LEMMA CallerFacts ==
  ASSUME BucketInv, NEW p \in Procs
  PROVE  /\ DataOK /\ count \in Nat /\ job[p] \in Job(count) /\ IsJob(job[p])
         /\ pc[p] \in States /\ Fits(pc[p], job[p])
         /\ \A b \in 1 .. count : b \in Buckets /\ Resolve[b] \in 1 .. count
         /\ \A k \in Keys : rec[k] \in Record(count)
         /\ job[p].kind = "resume" => Held(p) = {}
         /\ job[p].kind = "manage" /\ pc[p] \in {"forget", "gray"} => Held(p) = {}
<1>1. DataOK /\ JobsOK /\ LocksOK /\ TypeOK BY InvParts
<1>2. count \in Nat /\ \A b \in 1 .. count : b \in Buckets BY <1>1, BucketsFacts DEF DataOK, Buckets
<1>3. job[p] \in Job(count) /\ pc[p] \in States BY <1>1 DEF TypeOK
<1>4. IsJob(job[p]) BY <1>2, <1>3, FieldsOfJob
<1>5. Fits(pc[p], job[p]) BY <1>1 DEF JobsOK
<1>6. \A b \in 1 .. count : Resolve[b] \in 1 .. count BY <1>1, ResolveFacts DEF Live
<1>7. \A k \in Keys : rec[k] \in Record(count) BY <1>1 DEF DataOK
<1> QED BY <1>1, <1>2, <1>3, <1>4, <1>5, <1>6, <1>7 DEF LocksOK

(***************************************************************************)
(* The locks.                                                              *)
(***************************************************************************)
NextLockFacts(p) == NextLock(p) \in job[p].wants \ Held(p)
                    /\ \A b \in job[p].wants \ Held(p) : NextLock(p) <= b

LEMMA NextLockIsLeast ==
  ASSUME BucketInv, NEW p \in Procs, pc[p] = "lock"
  PROVE  NextLockFacts(p) /\ NextLock(p) \in 1 .. count /\ NextLock(p) \in Buckets
<1>1. DataOK /\ LocksOK /\ TypeOK BY InvParts
<1>2. job[p].wants \subseteq 1 .. count BY <1>1 DEF TypeOK, Job
<1>3. job[p].wants \ Held(p) # {} BY <1>1 DEF LocksOK
<1> DEFINE rest == job[p].wants \ Held(p)
<1>4. 1 .. count \subseteq Nat /\ 1 .. count \subseteq Buckets
  BY <1>1, BucketsFacts DEF DataOK, Buckets
<1>5. rest \in SUBSET Nat /\ rest # {} BY <1>2, <1>3, <1>4
<1>6. Min(rest) \in rest /\ \A b \in rest : Min(rest) <= b BY <1>5, MinFacts
<1> QED BY <1>2, <1>4, <1>6 DEF NextLock, NextLockFacts

LEMMA AcquireKeeps ==
  ASSUME BucketInv, NEW p \in Procs, Acquire(p) PROVE BucketInv'
<1>1. DataOK /\ JobsOK /\ LocksOK /\ TypeOK BY InvParts
<1> DEFINE b == NextLock(p)
<1>2. /\ pc[p] = "lock" /\ owner[b] = None /\ owner' = [owner EXCEPT ![b] = p]
      /\ job' = job /\ meta' = meta /\ count' = count /\ DataSame
  BY DEF Acquire, DataSame, data, history
<1>3. b \in job[p].wants \ Held(p) /\ (\A c \in job[p].wants \ Held(p) : b <= c) /\ b \in Buckets
  BY <1>2, NextLockIsLeast DEF NextLockFacts
<1>4. pc' = IF job[p].wants \subseteq Held(p) \cup {b} THEN [pc EXCEPT ![p] = Start[job[p].kind]] ELSE pc
  BY DEF Acquire
<1> HIDE DEF b
<1>5. DataOK' BY <1>1, <1>2, DataKept
<1>6. None \notin Procs BY BucketAssumption
<1>7. owner' \in [Buckets -> Procs \cup {None, Leaked}] BY <1>1, <1>2 DEF TypeOK
<1>8. Held(p)' = Held(p) \cup {b} /\ \A q \in Procs \ {p} : Held(q)' = Held(q)
  BY <1>1, <1>2, <1>3, <1>6 DEF Held, TypeOK
<1>9. Fits("lock", job[p]) BY <1>1, <1>2 DEF JobsOK
<1>10. job[p] \in Job(count) BY <1>1 DEF TypeOK
<1>11. CASE job[p].wants \subseteq Held(p) \cup {b}
  <2> DEFINE l == Start[job[p].kind]
  <2>1. pc' = [pc EXCEPT ![p] = l] BY <1>4, <1>11
  <2>2. job[p].kind \in {"create", "add", "delete", "move", "compress", "split", "manage"}
    BY <1>9, <1>10 DEF Fits, Job, Kinds
  <2>3. l \in States \ {"idle", "lock", "forget", "gray"} /\ (l = "meta" => job[p].kind = "create")
    BY <2>2 DEF Start, States
  <2>a. \/ job[p].kind = "create" /\ l = "meta"
        \/ job[p].kind = "add" /\ l = "write"
        \/ job[p].kind = "delete" /\ l = "read"
        \/ job[p].kind = "move" /\ l = "fetch"
        \/ job[p].kind \in {"compress", "split"} /\ l = "snapshot"
        \/ job[p].kind = "manage" /\ l = "pressure"
    BY <2>2 DEF Start
  <2>4. Fits(l, job[p])
    <3> HIDE DEF l
    <3> QED BY <1>9, <2>a DEF Fits
  <2>5. job' = [job EXCEPT ![p] = job[p]] BY <1>1, <1>2 DEF TypeOK
  <2>6. job[p] \in Job(count') BY <1>2, <1>10
  <2>7. pc' \in [Procs -> States] /\ job' \in [Procs -> Job(count')] /\ JobsOK'
    BY <1>1, <1>2, <2>1, <2>3, <2>4, <2>5, <2>6, JobsKept
  <2>8. \A q \in Procs : pc'[q] = IF q = p THEN l ELSE pc[q] BY <1>1, <2>1 DEF TypeOK
  <2>9. job[p].kind # "resume" /\ (job[p].kind # "manage" => meta # p)
    BY <1>1, <1>2, <2>2 DEF LocksOK
  <2> HIDE DEF l
  <2>10. LocksOK'
    <3> SUFFICES ASSUME NEW q \in Procs
                 PROVE  /\ pc'[q] = "idle" => Held(q)' = {} /\ meta # q
                        /\ pc'[q] = "meta" => meta # q
                        /\ meta = q => job[q].kind = "create" \/ "resume" \in Ops
                        /\ job[q].kind = "resume" => Held(q)' = {} /\ "resume" \in Ops
                        /\ job[q].kind = "manage" /\ pc'[q] \in {"forget", "gray"} => Held(q)' = {}
                        /\ pc'[q] = "lock" =>
                             /\ job[q].wants \ Held(q)' # {}
                             /\ \A a \in Held(q)', c \in job[q].wants \ Held(q)' : a < c
                             /\ job[q].kind # "manage" => meta # q
      BY <1>2 DEF LocksOK
    <3>0. meta = p => job[p].kind = "create" \/ "resume" \in Ops BY <1>1 DEF LocksOK
    <3>1. CASE q = p BY <3>0, <3>1, <2>3, <2>8, <2>9
    <3>2. CASE q # p BY <3>2, <1>1, <1>8, <2>8 DEF LocksOK
    <3> QED BY <3>1, <3>2
  <2>11. meta' \in Procs \cup {None} BY <1>1, <1>2 DEF TypeOK
  <2> QED BY <1>5, <1>7, <2>7, <2>10, <2>11, InvFromParts
<1>12. CASE ~(job[p].wants \subseteq Held(p) \cup {b})
  <2>1. pc' = pc BY <1>4, <1>12
  <2>2. \A a \in Held(p), c \in job[p].wants \ Held(p) : a < c BY <1>1, <1>2 DEF LocksOK
  <2>3. \A a \in Held(p) \cup {b}, c \in job[p].wants \ (Held(p) \cup {b}) : a < c
    <3>1. job[p].wants \subseteq Nat BY <1>10 DEF Job
    <3> QED BY <2>2, <1>3, <3>1, BucketsFacts
  <2>4. LocksOK'
    <3> SUFFICES ASSUME NEW q \in Procs
                 PROVE  /\ pc[q] = "idle" => Held(q)' = {} /\ meta # q
                        /\ pc[q] = "meta" => meta # q
                        /\ meta = q => job[q].kind = "create" \/ "resume" \in Ops
                        /\ job[q].kind = "resume" => Held(q)' = {} /\ "resume" \in Ops
                        /\ job[q].kind = "manage" /\ pc[q] \in {"forget", "gray"} => Held(q)' = {}
                        /\ pc[q] = "lock" =>
                             /\ job[q].wants \ Held(q)' # {}
                             /\ \A a \in Held(q)', c \in job[q].wants \ Held(q)' : a < c
                             /\ job[q].kind # "manage" => meta # q
      BY <1>2, <2>1 DEF LocksOK
    <3>1. CASE q = p
      <4>1. job[p].kind # "resume" BY <1>9 DEF Fits
      <4>2. /\ job[p].kind # "manage" => meta # p
            /\ meta = p => job[p].kind = "create" \/ "resume" \in Ops
        BY <1>1, <1>2 DEF LocksOK
      <4>3. job[p].wants \ (Held(p) \cup {b}) # {} BY <1>12
      <4> QED BY <3>1, <1>2, <1>8, <2>3, <4>1, <4>2, <4>3
    <3>2. CASE q # p BY <3>2, <1>1, <1>8 DEF LocksOK
    <3> QED BY <3>1, <3>2
  <2>5. /\ meta' \in Procs \cup {None} /\ pc' \in [Procs -> States] /\ job' \in [Procs -> Job(count')]
    BY <1>1, <1>2, <2>1 DEF TypeOK
  <2>6. JobsOK' BY <1>1, <1>2, <2>1 DEF JobsOK
  <2> QED BY <1>5, <1>7, <2>4, <2>5, <2>6, InvFromParts
<1> QED BY <1>11, <1>12

LEMMA AcquireMetaKeeps ==
  ASSUME BucketInv, NEW p \in Procs, AcquireMeta(p) PROVE BucketInv'
<1>1. DataOK /\ JobsOK /\ LocksOK /\ TypeOK BY InvParts
<1> DEFINE o == job[p]
<1> DEFINE b == Resolve[job[p].at]
<1> DEFINE l == IF job[p].kind = "create" THEN "titled" ELSE "write"
<1> DEFINE j == IF job[p].kind = "create" THEN o ELSE [o EXCEPT !.at = b]
<1>2. /\ pc[p] = "meta" /\ meta = None /\ meta' = p
      /\ pc' = [pc EXCEPT ![p] = l]
      /\ owner' = owner /\ count' = count /\ DataSame
      /\ job' = IF job[p].kind = "create" THEN job ELSE [job EXCEPT ![p].at = Resolve[@]]
  BY DEF AcquireMeta, DataSame, data, history
<1>3. DataOK' BY <1>1, <1>2, DataKept
<1>4. /\ Fits("meta", o) /\ count \in Nat /\ o \in Job(count) /\ IsJob(o)
      /\ \A x \in 1 .. count : Resolve[x] \in 1 .. count
  BY <1>2, CallerFacts
<1>5. b \in 1 .. count
  <2>1. o.at # 0 BY <1>4 DEF Fits
  <2> QED BY <1>4, <2>1, FieldsOfJob
<1>6. job' = [job EXCEPT ![p] = j] BY <1>1, <1>2 DEF TypeOK
<1>a. o = job[p] OBVIOUS
<1> HIDE DEF o, b
<1>b. ASSUME o.kind = "create"
      PROVE  Fits(l, j) /\ l \in States /\ j \in Job(count') /\ j.kind = o.kind
  <2>1. j = o /\ l = "titled" BY <1>b, <1>a
  <2>2. Fits("titled", o) BY <1>4, <1>b, Zenon DEF Fits
  <2> QED BY <1>2, <1>4, <2>1, <2>2 DEF States
<1>c. ASSUME o.kind # "create"
      PROVE  Fits(l, j) /\ l \in States /\ j \in Job(count') /\ j.kind = o.kind
  <2>1. j = [o EXCEPT !.at = b] /\ l = "write" BY <1>c, <1>a
  <2>2. IsJob(j) /\ j.at = b /\ \A f \in Fields \ {"at"} : j[f] = o[f]
    BY <1>4, <2>1 DEF IsJob, Fields
  <2> HIDE DEF j
  <2>3. b \in 0 .. count BY <1>4, <1>5
  <2>4. j \in Job(count) BY <1>4, <2>2, <2>3, FieldsOfJob, JobByFields DEF Fields
  <2>5. o.kind = "resume" BY <1>4, <1>c DEF Fits
  <2>6. j.kind = "resume" /\ j.at # 0 /\ j.succ = o.succ /\ j.owes = o.owes /\ j.manage = o.manage
    BY <1>4, <1>5, <2>2, <2>5 DEF Fields
  <2>7. o.succ = 0 BY <1>4 DEF Fits
  <2>8. o.owes = 0 /\ ~o.manage BY <1>4, <2>5 DEF Fits
  <2>9. Fits("write", j) BY <2>6, <2>7, <2>8 DEF Fits
  <2> QED BY <1>2, <2>1, <2>4, <2>5, <2>6, <2>9 DEF States
<1>d. Fits(l, j) /\ l \in States /\ j \in Job(count') /\ j.kind = o.kind
  BY <1>b, <1>c
<1>7. pc' \in [Procs -> States] /\ job' \in [Procs -> Job(count')] /\ JobsOK'
  BY <1>1, <1>2, <1>6, <1>d, JobsKept
<1>8. /\ \A q \in Procs : pc'[q] = IF q = p THEN l ELSE pc[q]
      /\ \A q \in Procs : job'[q] = IF q = p THEN j ELSE job[q]
  BY <1>1, <1>2, <1>6 DEF TypeOK
<1>9. \A q \in Procs : Held(q)' = Held(q) BY <1>2 DEF Held
<1>l. l \in {"titled", "write"} OBVIOUS
<1> HIDE DEF j, l
<1>10. LocksOK'
  <2> SUFFICES ASSUME NEW q \in Procs
               PROVE  /\ pc'[q] = "idle" => Held(q) = {} /\ p # q
                      /\ pc'[q] = "meta" => p # q
                      /\ p = q => job'[q].kind = "create" \/ "resume" \in Ops
                      /\ job'[q].kind = "resume" => Held(q) = {} /\ "resume" \in Ops
                      /\ job'[q].kind = "manage" /\ pc'[q] \in {"forget", "gray"} => Held(q) = {}
                      /\ pc'[q] = "lock" =>
                           /\ job'[q].wants \ Held(q) # {}
                           /\ \A a \in Held(q), c \in job'[q].wants \ Held(q) : a < c
                           /\ job'[q].kind # "manage" => p # q
    BY <1>2, <1>9 DEF LocksOK
  <2>1. CASE q = p
    <3>1. o.kind = "resume" => Held(p) = {} /\ "resume" \in Ops BY <1>1, <1>a DEF LocksOK
    <3>2. pc'[p] \in {"titled", "write"} /\ job'[p].kind = o.kind BY <1>8, <1>d, <1>l
    <3>3. o.kind \in {"create", "resume"} BY <1>4 DEF Fits
    <3> QED BY <2>1, <3>1, <3>2, <3>3
  <2>2. CASE q # p BY <2>2, <1>1, <1>8 DEF LocksOK
  <2> QED BY <2>1, <2>2
<1>11. owner' \in [Buckets -> Procs \cup {None, Leaked}] /\ meta' \in Procs \cup {None} BY <1>1, <1>2 DEF TypeOK
<1> QED BY <1>3, <1>7, <1>10, <1>11, InvFromParts

\* A cancelled caller has nothing left: the locks it loses are nobody's.
LEMMA CancelWaitKeeps ==
  ASSUME BucketInv, NEW p \in Procs, CancelWait(p) PROVE BucketInv'
<1>1. DataOK /\ JobsOK /\ LocksOK /\ TypeOK BY InvParts
<1> DEFINE lost == IF pc[p] = "lock" THEN Leaked ELSE None
<1>2. /\ owner' = [b \in Buckets |-> IF owner[b] = p THEN lost ELSE owner[b]]
      /\ meta' = IF meta = p THEN None ELSE meta
      /\ pc' = [pc EXCEPT ![p] = "idle"] /\ job' = [job EXCEPT ![p] = NoJob]
      /\ UNCHANGED <<data, origin, titled, gone>>
  BY DEF CancelWait, history
<1>3. DataOK' /\ count' = count /\ count' \in Nat BY <1>2, SameData, BucketsFacts DEF DataOK
<1>4. NoJob \in Job(count') /\ Fits("idle", NoJob) /\ "idle" \in States BY <1>3, NoJobFits
<1>5. pc' \in [Procs -> States] /\ job' \in [Procs -> Job(count')] /\ JobsOK'
  BY <1>1, <1>2, <1>3, <1>4, JobsKept
<1>6. lost \in {None, Leaked} /\ lost \notin Procs BY BucketAssumption
<1> HIDE DEF lost
<1>7. \A b \in Buckets : owner[b] \in Procs \cup {None, Leaked}
                         /\ owner'[b] = IF owner[b] = p THEN lost ELSE owner[b]
  BY <1>1, <1>2 DEF TypeOK
<1>8. owner' \in [Buckets -> Procs \cup {None, Leaked}] BY <1>2, <1>6, <1>7
<1>9. Held(p)' = {} /\ \A q \in Procs \ {p} : Held(q)' = Held(q) BY <1>6, <1>7 DEF Held
<1>10. meta' \in Procs \cup {None} /\ meta' # p /\ \A q \in Procs \ {p} : meta' = q <=> meta = q
  BY <1>1, <1>2, BucketAssumption DEF TypeOK
<1>11. /\ \A q \in Procs : pc'[q] = IF q = p THEN "idle" ELSE pc[q]
       /\ \A q \in Procs : job'[q] = IF q = p THEN NoJob ELSE job[q]
  BY <1>1, <1>2 DEF TypeOK
<1>12. LocksOK'
  <2> SUFFICES ASSUME NEW q \in Procs
               PROVE  /\ pc'[q] = "idle" => Held(q)' = {} /\ meta' # q
                      /\ pc'[q] = "meta" => meta' # q
                      /\ meta' = q => job'[q].kind = "create" \/ "resume" \in Ops
                      /\ job'[q].kind = "resume" => Held(q)' = {} /\ "resume" \in Ops
                      /\ job'[q].kind = "manage" /\ pc'[q] \in {"forget", "gray"} => Held(q)' = {}
                      /\ pc'[q] = "lock" =>
                           /\ job'[q].wants \ Held(q)' # {}
                           /\ \A a \in Held(q)', b \in job'[q].wants \ Held(q)' : a < b
                           /\ job'[q].kind # "manage" => meta' # q
    BY DEF LocksOK
  <2>1. CASE q = p
    <3>1. NoJob.kind = "none" BY DEF NoJob
    <3> QED BY <2>1, <1>9, <1>10, <1>11, <3>1
  <2>2. CASE q # p
    <3>1. Held(q)' = Held(q) /\ pc'[q] = pc[q] /\ job'[q] = job[q] /\ (meta' = q <=> meta = q)
      BY <2>2, <1>9, <1>10, <1>11
    <3> QED BY <3>1, <1>1 DEF LocksOK
  <2> QED BY <2>1, <2>2
<1> QED BY <1>3, <1>5, <1>8, <1>10, <1>12, InvFromParts

(***************************************************************************)
(* The steps of a caller, one lemma per action.                            *)
(***************************************************************************)
\* create_bucket keeps the tree in order, whatever the parent.
LEMMA GrowKeeps ==
  ASSUME DataOK, NEW parent \in 0 .. count, NEW level \in Nat, NEW first, Grow(parent, level, first),
         root' = root, rec' = rec, gone' = gone, titled' \subseteq 1 .. count',
         title' \in [Buckets -> 0 .. count']
  PROVE  DataOK'
<1>1. count \in Nat /\ count' = count + 1 /\ count' \in Buckets /\ count \in Buckets
  BY BucketsFacts DEF DataOK, Grow, New
<1> DEFINE node == [parent |-> parent, sealed_to |-> 0, level |-> level]
<1>2. tree' = [tree EXCEPT ![count + 1] = node] BY DEF Grow, New, Info
<1>3. node \in [parent : 0 .. count', sealed_to : 0 .. count', level : Nat] BY <1>1
<1>4. \A b \in Buckets : tree[b] \in [parent : 0 .. count', sealed_to : 0 .. count', level : Nat]
  BY <1>1 DEF DataOK
<1> HIDE DEF node
<1>5. tree' \in [Buckets -> [parent : 0 .. count', sealed_to : 0 .. count', level : Nat]]
  BY <1>2, <1>3, <1>4 DEF DataOK
<1>6. Record(count) \subseteq Record(count') BY <1>1 DEF Record
<1>7. rec' \in [Keys -> Record(count')] BY <1>6 DEF DataOK
<1>8. SealsOK'
  <2>1. node.sealed_to = 0 BY DEF node
  <2>2. \A b \in Buckets : tree'[b] = IF b = count + 1 THEN node ELSE tree[b] BY <1>2 DEF DataOK
  <2> QED BY <2>1, <2>2 DEF DataOK, SealsOK, Sealed
<1>9. root' \in 1 .. count' BY <1>1 DEF DataOK
<1>10. gone' \subseteq Keys BY DEF DataOK
<1> QED BY <1>1, <1>5, <1>7, <1>8, <1>9, <1>10 DEF DataOK

LEMMA ReparentKeeps ==
  ASSUME DataOK, NEW b \in 0 .. count, NEW new \in 0 .. count, NEW preserve \in BOOLEAN,
         Reparent(b, new, preserve)
  PROVE  DataOK' /\ count' = count
<1>1. count \in Nat BY BucketsFacts DEF DataOK
<1>2. tree' = [tree EXCEPT ![b].parent = new] /\ count' = count /\ root' = root /\ rec' = rec
      /\ gone' = gone /\ titled' = titled
  BY DEF Reparent
<1>3. tree' \in [Buckets -> [parent : 0 .. count, sealed_to : 0 .. count, level : Nat]]
  BY <1>2 DEF DataOK
<1>4. \A a \in Buckets : tree'[a].sealed_to = tree[a].sealed_to BY <1>2 DEF DataOK
<1>5. SealsOK' BY <1>4 DEF DataOK, SealsOK, Sealed
<1>6. title' \in [Buckets -> 0 .. count]
  <2> DEFINE old == tree[b].parent
  <2>1. title' = [title EXCEPT ![old] = IF preserve THEN @ ELSE 0, ![new] = b] \/ title' = title
    BY DEF Reparent
  <2> HIDE DEF old
  <2> QED BY <2>1, <1>1 DEF DataOK
<1> QED BY <1>2, <1>3, <1>5, <1>6 DEF DataOK

\* A record is written: add_memory, set_gray, move, the node of a bucket.
LEMMA WriteKeeps ==
  ASSUME DataOK, NEW k, NEW r \in Record(count), rec' = [rec EXCEPT ![k] = r],
         UNCHANGED <<tree, count, title, root, titled>>, gone' \subseteq Keys
  PROVE  DataOK'
<1>1. rec' \in [Keys -> Record(count)] BY DEF DataOK
<1>2. SealsOK' BY DEF DataOK, SealsOK, Sealed
<1> QED BY <1>1, <1>2 DEF DataOK

LEMMA UnlockKeeps ==
  ASSUME BucketInv, DataOK', count' = count, NEW p \in Procs, NEW l \in States, NEW j \in Job(count),
         Fits(l, j), Unlock(p, l, j), l \notin {"idle", "lock", "meta"}, j.kind # "resume",
         job[p].kind = "create" => j.kind = "create"
  PROVE  BucketInv'
<1>1. Freed(p) BY DEF Unlock, Freed
<1> QED BY <1>1, GivesBack DEF Unlock

LEMMA ManageFacts ==
  ASSUME NEW c \in Nat, NEW b \in 1 .. c, NEW key \in Keys \cup {0}, NEW j, j = Manage(b, key)
  PROVE  j \in Job(c) /\ Fits("forget", j) /\ j.kind = "manage"
<1> DEFINE o == On("manage", b)
<1> DEFINE direct == Direct(b) \cap Memories
<1>1. /\ Fresh(o) /\ o.kind = "manage" /\ o.at = b /\ o.wants = {b}
      /\ o.to = 0 /\ o.group = 0 /\ o.manage \in BOOLEAN /\ ~o.manage
  BY OnFields
<1>2. j = [o EXCEPT !.key = key, !.todo = direct] BY DEF Manage
<1>3. direct \subseteq Keys BY DEF Keys
<1> HIDE DEF o, direct
<1>4. /\ Fresh(j) /\ j.kind = "manage" /\ j.at = b /\ j.wants = {b} /\ j.key = key /\ j.todo = direct
      /\ j.to = 0 /\ j.group = 0 /\ j.manage \in BOOLEAN /\ ~j.manage
  BY <1>1, <1>2 DEF Fresh, IsJob, Fields
<1>5. j \in Job(c) BY <1>3, <1>4, FreshJob
<1>6. Fits("forget", j) BY <1>4 DEF Fits, Fresh
<1> QED BY <1>4, <1>5, <1>6

\* A job that has still to write the memory whose ingest overflowed.
LEMMA OwingJob ==
  ASSUME NEW c \in Nat, NEW j \in Job(c), NEW key \in Keys \cup {0}, NEW l, Fits(l, j),
         j.kind \in {"compress", "split", "manage"}, NEW m, m = [j EXCEPT !.owes = key]
  PROVE  m \in Job(c) /\ Fits(l, m) /\ m.kind = j.kind
<1>1. IsJob(m) /\ m.owes = key /\ \A f \in Fields \ {"owes"} : m[f] = j[f]
  BY FieldsOfJob DEF IsJob, Fields
<1>2. m \in Job(c) BY <1>1, FieldsOfJob, JobByFields DEF Fields
<1>3. Fits(l, m)
  <2>1. /\ m.kind = j.kind /\ m.at = j.at /\ m.to = j.to /\ m.key = j.key /\ m.seen = j.seen
        /\ m.group = j.group /\ m.succ = j.succ /\ m.manage = j.manage
    BY <1>1 DEF Fields
  <2>2. l # "idle"
    <3>1. NoJob.kind = "none" BY DEF NoJob
    <3> QED BY <3>1 DEF Fits
  <2> QED BY <2>1, <2>2 DEF Fits
<1>4. m.kind = j.kind BY <1>1 DEF Fields
<1> QED BY <1>2, <1>3, <1>4

\* The rewrite an overflow called for is over, and the operation with it, or not.
LEMMA ReturnKeeps ==
  ASSUME BucketInv, DataOK', count' = count, NEW p \in Procs, Return(p), pc[p] # "idle"
  PROVE  BucketInv'
<1> DEFINE at == job[p].at
<1> DEFINE b == IF meta = p THEN Resolve[at] ELSE at
<1> DEFINE owes == job[p].owes
<1> DEFINE again == [On("again", b) EXCEPT !.key = owes]
<1> DEFINE manage == Manage(at, 0)
<1> DEFINE managing == [manage EXCEPT !.owes = owes]
<1>1. /\ DataOK /\ count \in Nat /\ job[p] \in Job(count) /\ Fits(pc[p], job[p])
      /\ \A x \in 1 .. count : x \in Buckets /\ Resolve[x] \in 1 .. count
  BY CallerFacts
<1>2. CASE owes = 0 /\ Finish(p) BY <1>2, FinishKeeps
<1>3. CASE owes # 0
  <2>1. job[p].kind \in {"compress", "split", "manage"} /\ owes \in Keys \cup {0}
    BY <1>1, <1>3, FieldsOfJob DEF Fits
  <2>2. at \in 1 .. count
    <3>1. at # 0 BY <1>1, <2>1 DEF Fits
    <3> QED BY <1>1, <3>1, FieldsOfJob
  <2>3. b \in 1 .. count BY <1>1, <2>2
  <2>4. Goto(p, "write", again) \/ Unlock(p, "write", again)
        \/ (Held(p) = {} /\ Goto(p, "forget", managing))
    BY <1>3 DEF Return
  <2>5. manage \in Job(count) /\ Fits("forget", manage) /\ manage.kind = "manage"
    BY <1>1, <2>2, ManageFacts
  <2> HIDE DEF manage
  <2>6. managing \in Job(count) /\ Fits("forget", managing) /\ managing.kind = "manage"
    BY <1>1, <2>1, <2>5, OwingJob
  <2> DEFINE o == On("again", b)
  <2>7. /\ Fresh(o) /\ o.kind = "again" /\ o.at = b /\ o.wants = {b}
        /\ o.to = 0 /\ o.todo = {} /\ o.group = 0 /\ o.manage \in BOOLEAN /\ ~o.manage
    BY OnFields
  <2>8. again = [o EXCEPT !.key = owes] OBVIOUS
  <2> HIDE DEF o, again, b, managing, owes
  <2>9. /\ Fresh(again) /\ again.kind = "again" /\ again.at = b /\ again.wants = {b} /\ again.key = owes
        /\ again.to = 0 /\ again.todo = {} /\ again.group = 0 /\ again.manage \in BOOLEAN
        /\ ~again.manage
    BY <2>7, <2>8 DEF Fresh, IsJob, Fields
  <2>10. again \in Job(count) BY <1>1, <2>1, <2>3, <2>9, FreshJob
  <2>11. Fits("write", again) BY <2>3, <2>9 DEF Fits, Fresh
  <2>12. CASE Goto(p, "write", again)
    BY <2>1, <2>9, <2>10, <2>11, <2>12, GoesOn DEF States
  <2>13. CASE Unlock(p, "write", again)
    BY <2>1, <2>9, <2>10, <2>11, <2>13, UnlockKeeps DEF States
  <2>14. CASE Held(p) = {} /\ Goto(p, "forget", managing)
    BY <2>1, <2>6, <2>14, GoesOn DEF States
  <2> QED BY <2>4, <2>12, <2>13, <2>14
<1> QED BY <1>2, <1>3 DEF Return

LEMMA RaiseKeeps ==
  ASSUME BucketInv, NEW p \in Procs, Raise(p), pc[p] # "idle"
  PROVE  BucketInv'
<1>1. DataOK /\ JobsOK /\ LocksOK /\ TypeOK BY InvParts
<1>2. CASE ~job[p].manage /\ Return(p) /\ UNCHANGED <<data, origin, titled, gone>>
  BY <1>2, SameData, ReturnKeeps
<1>3. CASE /\ job[p].manage
           /\ pc' = [pc EXCEPT ![p] = "managed"]
           /\ UNCHANGED <<data, owner, meta, job, origin, titled, gone>>
  <2>1. DataOK' /\ count' = count BY <1>3, SameData
  <2>4. job[p] \in Job(count') BY <1>1, <2>1 DEF TypeOK
  <2>5. Fits(pc[p], job[p]) BY <1>1 DEF JobsOK
  <2>6. Fits("managed", job[p]) BY <1>3, <2>5, Zenon DEF Fits
  <2>7. job' = [job EXCEPT ![p] = job[p]] BY <1>1, <1>3 DEF TypeOK
  <2>8. Goto(p, "managed", job[p]) BY <1>3, <2>7 DEF Goto
  <2>9. job[p].kind \in {"compress", "split"} BY <1>3, <2>5 DEF Fits
  <2> QED BY <2>1, <2>4, <2>6, <2>8, <2>9, GoesOn DEF States
<1> QED BY <1>2, <1>3 DEF Raise

LEMMA CompleteKeeps ==
  ASSUME BucketInv, DataOK', count' = count, NEW p \in Procs, Complete(p), pc[p] # "idle"
  PROVE  BucketInv'
<1>1. DataOK /\ JobsOK /\ LocksOK /\ TypeOK BY InvParts
<1>2. CASE ~job[p].manage BY <1>2, ReturnKeeps DEF Complete
<1>3. CASE job[p].manage
  <2>4. job[p] \in Job(count') BY <1>1 DEF TypeOK
  <2>5. Fits(pc[p], job[p]) BY <1>1 DEF JobsOK
  <2>6. Fits("managed", job[p]) BY <1>3, <2>5, Zenon DEF Fits
  <2>8. Goto(p, "managed", job[p]) BY <1>3 DEF Complete
  <2>9. job[p].kind \in {"compress", "split"} BY <1>3, <2>5 DEF Fits
  <2> QED BY <2>4, <2>6, <2>8, <2>9, GoesOn DEF States
<1> QED BY <1>2, <1>3

LEMMA ExceptType ==
  ASSUME NEW D, NEW R, NEW f \in [D -> R], NEW x, NEW v \in R
  PROVE  [f EXCEPT ![x] = v] \in [D -> R]
  OBVIOUS

LEMMA GetOrCreateKeeps ==
  ASSUME BucketInv, NEW p \in Procs, GetOrCreate(p) PROVE BucketInv'
<1> DEFINE at == job[p].at
<1> DEFINE child == Resolve[title[at]]
<1> DEFINE parent == Resolve[at]
<1> DEFINE found == IF title[at] = 0 THEN FALSE ELSE tree[child].parent = at
<1>1. /\ DataOK /\ count \in Nat /\ job[p] \in Job(count) /\ IsJob(job[p]) /\ Fits(pc[p], job[p])
      /\ \A b \in 1 .. count : b \in Buckets /\ Resolve[b] \in 1 .. count
  BY CallerFacts
<1>2. pc[p] = "titled" /\ root' = root /\ rec' = rec /\ gone' = gone BY DEF GetOrCreate
<1>3. job[p].kind = "create" /\ at # 0 /\ at \in 0 .. count
  BY <1>1, <1>2, FieldsOfJob DEF Fits
<1>4. at \in 1 .. count /\ at \in Buckets /\ parent \in 1 .. count /\ parent \in Buckets
  BY <1>1, <1>3
<1>5. title[at] \in 0 .. count BY <1>1, <1>4 DEF DataOK
<1>6. CASE /\ found
           /\ title' = [title EXCEPT ![at] = child]
           /\ Finish(p) /\ UNCHANGED <<tree, count, origin, titled>>
  <2>1. title[at] \in 1 .. count BY <1>5, <1>6, <1>1
  <2>2. child \in 1 .. count BY <1>1, <2>1
  <2>a. title \in [Buckets -> 0 .. count] /\ child \in 0 .. count BY <1>1, <2>2 DEF DataOK
  <2>3. title' \in [Buckets -> 0 .. count] BY <1>6, <2>a, ExceptType
  <2>4. SealsOK' BY <1>1, <1>6 DEF DataOK, SealsOK, Sealed
  <2>5. DataOK' BY <1>1, <1>2, <1>6, <2>3, <2>4 DEF DataOK
  <2> QED BY <1>6, <2>5, FinishKeeps
<1>7. CASE /\ tree[parent].level >= MaxDepth
           /\ title' = [title EXCEPT ![at] = 0]
           /\ Finish(p) /\ UNCHANGED <<tree, count, origin, titled>>
  <2>a. title \in [Buckets -> 0 .. count] /\ 0 \in 0 .. count BY <1>1 DEF DataOK
  <2>3. title' \in [Buckets -> 0 .. count] BY <1>7, <2>a, ExceptType
  <2>4. SealsOK' BY <1>1, <1>7 DEF DataOK, SealsOK, Sealed
  <2>5. DataOK' BY <1>1, <1>2, <1>7, <2>3, <2>4 DEF DataOK
  <2> QED BY <1>7, <2>5, FinishKeeps
<1>8. CASE /\ tree[parent].level < MaxDepth
           /\ Grow(parent, tree[parent].level + 1, New)
           /\ title' = [[title EXCEPT ![at] = 0] EXCEPT ![parent] = New]
           /\ titled' = titled \cup {New}
           /\ Goto(p, "node", [job[p] EXCEPT !.group = New, !.cur = Node(parent)])
  <2>1. count' = count + 1 /\ New = count + 1 BY <1>8 DEF Grow, New
  <2>a. title \in [Buckets -> 0 .. count'] /\ 0 \in 0 .. count' /\ New \in 0 .. count'
    BY <1>1, <2>1 DEF DataOK
  <2>b. [title EXCEPT ![at] = 0] \in [Buckets -> 0 .. count'] BY <2>a, ExceptType
  <2>2. title' \in [Buckets -> 0 .. count'] BY <1>8, <2>a, <2>b, ExceptType
  <2>3. titled' \subseteq 1 .. count' BY <1>1, <1>8, <2>1 DEF DataOK
  <2>4. tree[parent].level + 1 \in Nat /\ parent \in 0 .. count BY <1>1, <1>4 DEF DataOK
  <2>5. DataOK' BY <1>1, <1>2, <1>8, <2>2, <2>3, <2>4, GrowKeeps
  <2> DEFINE j == [job[p] EXCEPT !.group = New, !.cur = Node(parent)]
  <2>6. Node(parent) \in Record(count') BY <1>1, <1>4, <2>1 DEF Node, Record
  <2>7. job[p] \in Job(count') BY <1>1, <2>1, JobGrows
  <2> DEFINE o == job[p]
  <2> DEFINE node == Node(parent)
  <2>o. job[p].kind = o.kind OBVIOUS
  <2>8. j = [o EXCEPT !.group = New, !.cur = node] OBVIOUS
  <2>9. Goto(p, "node", j) BY <1>8
  <2>10. IsJob(o) /\ Fits("titled", o) /\ o.kind = "create" BY <1>1, <1>2, <1>3
  <2>11. count' \in Nat /\ New \in 0 .. count' /\ New # 0 BY <1>1, <2>1
  <2>12. o \in Job(count') /\ node \in Record(count') BY <2>6, <2>7
  <2> HIDE DEF o, node
  <2>13. /\ IsJob(j) /\ j.group = New /\ j.cur = node
         /\ \A f \in Fields \ {"group", "cur"} : j[f] = o[f]
    BY <2>8, <2>10 DEF IsJob, Fields
  <2> HIDE DEF j
  <2>14. j \in Job(count')
    BY <2>11, <2>12, <2>13, FieldsOfJob, JobByFields DEF Fields
  <2>15. Fits("node", j) BY <2>10, <2>11, <2>13 DEF Fits, Fields
  <2>16. j.kind = "create" BY <2>10, <2>13 DEF Fields
  <2> QED BY <2>1, <2>5, <2>9, <2>14, <2>15, <2>16, <2>o, GoesOn DEF States
<1> QED BY <1>6, <1>7, <1>8 DEF GetOrCreate

LEMMA WriteNodeKeeps ==
  ASSUME BucketInv, NEW p \in Procs, WriteNode(p) PROVE BucketInv'
<1>1. /\ DataOK /\ count \in Nat /\ job[p] \in Job(count) /\ IsJob(job[p]) /\ Fits(pc[p], job[p])
  BY CallerFacts
<1>2. pc[p] = "node" BY DEF WriteNode
<1>3. job[p].kind \in {"create", "split"} /\ job[p].group # 0 BY <1>1, <1>2 DEF Fits
<1>4. CASE Raise(p) BY <1>2, <1>4, RaiseKeeps
<1>5. CASE /\ rec' = [rec EXCEPT ![job[p].group] = job[p].cur]
           /\ UNCHANGED <<tree, count, title, root, origin, titled, gone>>
           /\ IF job[p].kind = "create" THEN Finish(p)
              ELSE Goto(p, "fetch", [job[p] EXCEPT !.to = job[p].group])
  <2>1. job[p].cur \in Record(count) /\ job[p].group \in 0 .. count BY <1>1, FieldsOfJob
  <2>2. gone' \subseteq Keys BY <1>1, <1>5 DEF DataOK
  <2>3. DataOK' /\ count' = count BY <1>1, <1>5, <2>1, <2>2, WriteKeeps
  <2>4. CASE job[p].kind = "create" BY <1>5, <2>3, <2>4, FinishKeeps
  <2>5. CASE job[p].kind # "create"
    <3> DEFINE o == job[p]
    <3> DEFINE j == [o EXCEPT !.to = o.group]
    <3>o. job[p].kind = o.kind OBVIOUS
    <3>1. Goto(p, "fetch", j) BY <1>5, <2>5
    <3>2. o.kind = "split" /\ o.group # 0 /\ Fits("node", o) /\ o \in Job(count) /\ IsJob(o)
      BY <1>1, <1>2, <1>3, <2>5
    <3>3. o.group \in 0 .. count BY <2>1
    <3> HIDE DEF o
    <3>4. IsJob(j) /\ j.to = o.group /\ \A f \in Fields \ {"to"} : j[f] = o[f]
      BY <3>2 DEF IsJob, Fields
    <3> HIDE DEF j
    <3>5. j \in Job(count) BY <1>1, <3>2, <3>3, <3>4, FieldsOfJob, JobByFields DEF Fields
    <3>6. Fits("fetch", j) BY <3>2, <3>4 DEF Fits, Fields
    <3>7. j.kind = "split" BY <3>2, <3>4 DEF Fields
    <3> QED BY <3>2, <2>3, <3>1, <3>5, <3>6, <3>7, <3>o, GoesOn DEF States
  <2> QED BY <2>4, <2>5
<1> QED BY <1>4, <1>5 DEF WriteNode

\* A rewrite of the same bucket begins, with the locks that are held.
LEMMA RewriteKeeps ==
  ASSUME BucketInv, UNCHANGED <<data, origin, titled, gone>>, NEW p \in Procs,
         NEW kind \in {"compress", "split"}, NEW manage \in BOOLEAN, NEW owes \in Keys \cup {0},
         job[p].at # 0, job[p].kind # "create",
         Goto(p, "snapshot", [On(kind, job[p].at) EXCEPT !.manage = manage, !.owes = owes])
  PROVE  BucketInv'
<1> DEFINE at == job[p].at
<1> DEFINE o == On(kind, at)
<1> DEFINE j == [o EXCEPT !.manage = manage]
<1> DEFINE m == [j EXCEPT !.owes = owes]
<1>1. count \in Nat /\ at \in 1 .. count BY CallerFacts, FieldsOfJob
<1>2. DataOK' /\ count' = count BY SameData
<1>3. /\ Fresh(o) /\ o.kind = kind /\ o.at = at /\ o.wants = {at}
      /\ o.to = 0 /\ o.key = 0 /\ o.todo = {} /\ o.group = 0
  BY OnFields
<1>4. Goto(p, "snapshot", m) OBVIOUS
<1> HIDE DEF o, at
<1>5. /\ Fresh(j) /\ j.kind = kind /\ j.at = at /\ j.wants = {at}
      /\ j.to = 0 /\ j.key = 0 /\ j.todo = {} /\ j.group = 0 /\ j.manage = manage
  BY <1>3 DEF Fresh, IsJob, Fields
<1> HIDE DEF j
<1>6. j \in Job(count) BY <1>1, <1>5, FreshJob DEF Kinds
<1>7. Fits("snapshot", j) BY <1>1, <1>5 DEF Fits, Fresh
<1>8. m \in Job(count) /\ Fits("snapshot", m) /\ m.kind = kind BY <1>1, <1>5, <1>6, <1>7, OwingJob
<1> HIDE DEF m
<1> QED BY <1>2, <1>4, <1>8, GoesOn DEF States

LEMMA OverflowKeeps ==
  ASSUME BucketInv, NEW p \in Procs, Overflow(p) PROVE BucketInv'
<1> DEFINE o == On("compress", job[p].at)
<1>1. count \in Nat /\ job[p] \in Job(count) /\ Fits("write", job[p])
  BY CallerFacts DEF Overflow
<1>2. job[p].at # 0 /\ job[p].kind # "create" BY <1>1 DEF Fits
<1>3. job[p].key \in Keys \cup {0} BY <1>1, FieldsOfJob
<1>4. UNCHANGED <<data, origin, titled, gone>> /\ Goto(p, "snapshot", [o EXCEPT !.owes = job[p].key])
  BY DEF Overflow
<1>5. IsJob(o) /\ o.manage = FALSE BY DEF On, NoJob, IsJob, Fields
<1>6. [o EXCEPT !.owes = job[p].key] = [o EXCEPT !.manage = FALSE, !.owes = job[p].key]
  <2> HIDE DEF o
  <2> QED BY <1>5 DEF IsJob, Fields
<1> QED BY <1>2, <1>3, <1>4, <1>6, RewriteKeeps

LEMMA WriteMemoryKeeps ==
  ASSUME BucketInv, NEW p \in Procs, WriteMemory(p) PROVE BucketInv'
<1> DEFINE b == IF meta = p THEN Resolve[job[p].at] ELSE job[p].at
<1> DEFINE j == Manage(b, job[p].key)
<1>1. /\ DataOK /\ count \in Nat /\ job[p] \in Job(count) /\ IsJob(job[p]) /\ Fits(pc[p], job[p])
      /\ \A a \in 1 .. count : a \in Buckets /\ Resolve[a] \in 1 .. count
  BY CallerFacts
<1>2. pc[p] = "write" BY DEF WriteMemory
<1>3. job[p].kind \in {"add", "resume", "again"} /\ job[p].at # 0 BY <1>1, <1>2 DEF Fits
<1>4. job[p].at \in 1 .. count /\ job[p].key \in Keys \cup {0} BY <1>1, <1>3, FieldsOfJob
<1>5. b \in 1 .. count BY <1>1, <1>4
<1>6. CASE Throw(p)
  <2>1. DataOK' /\ count' = count BY <1>6, SameData DEF Throw
  <2> QED BY <1>6, <2>1, FinishKeeps DEF Throw
<1>7. CASE /\ rec' = [rec EXCEPT ![job[p].key] = [NoRecord EXCEPT !.in = b]]
           /\ UNCHANGED <<tree, count, title, root, origin, titled, gone>>
           /\ IF Sealed(job[p].at) THEN Finish(p) ELSE Unlock(p, "forget", j)
  <2> HIDE DEF b
  <2>1. [NoRecord EXCEPT !.in = b] \in Record(count)
    <3>1. NoRecord \in Record(count) BY <1>1 DEF NoRecord, Record
    <3> QED BY <1>1, <1>5, <3>1 DEF Record
  <2>2. gone' \subseteq Keys BY <1>1, <1>7 DEF DataOK
  <2>3. DataOK' /\ count' = count BY <1>1, <1>7, <2>1, <2>2, WriteKeeps
  <2>4. j \in Job(count) /\ Fits("forget", j) /\ j.kind = "manage"
    BY <1>1, <1>4, <1>5, ManageFacts
  <2> HIDE DEF j
  <2>5. CASE Unlock(p, "forget", j) BY <1>3, <2>3, <2>4, <2>5, UnlockKeeps DEF States
  <2>6. CASE Finish(p) BY <2>3, <2>6, FinishKeeps
  <2> QED BY <1>7, <2>5, <2>6
<1> QED BY <1>6, <1>7 DEF WriteMemory

LEMMA ReadMemoryKeeps ==
  ASSUME BucketInv, NEW p \in Procs, ReadMemory(p) PROVE BucketInv'
<1>1. /\ DataOK /\ count \in Nat /\ job[p] \in Job(count) /\ IsJob(job[p]) /\ Fits(pc[p], job[p])
      /\ \A k \in Keys : rec[k] \in Record(count)
  BY CallerFacts
<1>2. pc[p] = "read" /\ DataOK' /\ count' = count BY SameData DEF ReadMemory
<1>3. job[p].kind = "delete" /\ job[p].key \in Keys BY <1>1, <1>2 DEF Fits
<1>4. CASE Unlock(p, "untitle", job[p])
  <2> DEFINE o == job[p]
  <2>o. job[p].kind = o.kind OBVIOUS
  <2>1. Unlock(p, "untitle", o) /\ o \in Job(count) /\ Fits("read", o) BY <1>1, <1>2, <1>4
  <2> HIDE DEF o
  <2>2. Fits("untitle", o) BY <2>1 DEF Fits
  <2> QED BY <1>3, <1>2, <2>1, <2>2, <2>o, UnlockKeeps DEF States
<1>5. CASE Goto(p, "gray", [job[p] EXCEPT !.cur = rec[job[p].key]])
  <2> DEFINE o == job[p]
  <2>o. job[p].kind = o.kind OBVIOUS
  <2> DEFINE r == rec[job[p].key]
  <2> DEFINE j == [o EXCEPT !.cur = r]
  <2>1. Goto(p, "gray", j) BY <1>5
  <2>2. o.kind = "delete" /\ o.key \in Keys /\ Fits("read", o) /\ o \in Job(count) /\ IsJob(o)
    BY <1>1, <1>2, <1>3
  <2>3. r \in Record(count) BY <1>1, <1>3
  <2> HIDE DEF o, r
  <2>4. IsJob(j) /\ j.cur = r /\ \A f \in Fields \ {"cur"} : j[f] = o[f]
    BY <2>2 DEF IsJob, Fields
  <2> HIDE DEF j
  <2>5. j \in Job(count) BY <1>1, <2>2, <2>3, <2>4, FieldsOfJob, JobByFields DEF Fields
  <2>6. Fits("gray", j) BY <2>2, <2>4 DEF Fits, Fields
  <2>7. j.kind = "delete" BY <2>2, <2>4 DEF Fields
  <2> QED BY <2>2, <1>2, <2>1, <2>5, <2>6, <2>7, <2>o, GoesOn DEF States
<1> QED BY <1>4, <1>5 DEF ReadMemory

LEMMA GrayMemoryKeeps ==
  ASSUME BucketInv, NEW p \in Procs, GrayMemory(p) PROVE BucketInv'
<1> DEFINE o == job[p]
<1>o. job[p].kind = o.kind OBVIOUS
<1>1. /\ DataOK /\ count \in Nat /\ o \in Job(count) /\ IsJob(o) /\ Fits(pc[p], o)
      /\ o.kind = "manage" /\ pc[p] \in {"forget", "gray"} => Held(p) = {}
  BY CallerFacts
<1>2. pc[p] = "gray" BY DEF GrayMemory
<1>3. o.kind \in {"delete", "manage", "compress"} /\ o.key \in Keys BY <1>1, <1>2 DEF Fits
<1>4. CASE Raise(p) BY <1>2, <1>4, RaiseKeeps
<1>5. CASE /\ rec' = [rec EXCEPT ![o.key] = [o.cur EXCEPT !.gray = TRUE]]
           /\ gone' = gone \cup {o.key}
           /\ UNCHANGED <<tree, count, title, root, origin, titled>>
           /\ IF o.kind = "delete" THEN Unlock(p, "untitle", o) ELSE Goto(p, "forget", o)
  <2> HIDE DEF o
  <2>1. o.cur \in Record(count) BY <1>1, FieldsOfJob
  <2>2. [o.cur EXCEPT !.gray = TRUE] \in Record(count) BY <2>1 DEF Record
  <2>3. gone' \subseteq Keys BY <1>1, <1>3, <1>5 DEF DataOK
  <2>4. DataOK' /\ count' = count BY <1>1, <1>5, <2>2, <2>3, WriteKeeps
  <2>5. CASE o.kind = "delete"
    <3>1. Fits("untitle", o) BY <2>5, <1>1, <1>2 DEF Fits
    <3> QED BY <1>1, <1>5, <2>4, <2>5, <3>1, <1>o, UnlockKeeps DEF States
  <2>6. CASE o.kind # "delete"
    <3>1. Fits("forget", o) BY <1>1, <1>2, <1>3, <2>6 DEF Fits
    <3> QED BY <1>1, <1>2, <1>3, <1>5, <2>4, <2>6, <3>1, <1>o, GoesOn DEF States
  <2> QED BY <2>5, <2>6
<1> QED BY <1>4, <1>5 DEF GrayMemory

LEMMA UntitleKeeps ==
  ASSUME BucketInv, NEW p \in Procs, Untitle(p) PROVE BucketInv'
<1>1. DataOK /\ count \in Nat BY CallerFacts
<1>2. title' \in [Buckets -> 0 .. count]
  <2>1. \A b \in Buckets : title[b] \in 0 .. count /\ 0 \in 0 .. count BY <1>1 DEF DataOK
  <2> QED BY <2>1 DEF Untitle
<1>3. UNCHANGED <<tree, count, root, rec, titled, gone>> /\ Finish(p) BY DEF Untitle
<1>4. SealsOK' BY <1>1, <1>3 DEF DataOK, SealsOK, Sealed
<1>5. DataOK' BY <1>1, <1>2, <1>3, <1>4 DEF DataOK
<1> QED BY <1>3, <1>5, FinishKeeps

LEMMA SnapshotKeeps ==
  ASSUME BucketInv, NEW p \in Procs, Snapshot(p) PROVE BucketInv'
<1> DEFINE o == job[p]
<1> DEFINE direct == Direct(job[p].at)
<1>o. job[p].kind = o.kind OBVIOUS
<1>1. /\ DataOK /\ count \in Nat /\ o \in Job(count) /\ IsJob(o) /\ Fits(pc[p], o)
  BY CallerFacts
<1>2. pc[p] = "snapshot" /\ DataOK' /\ count' = count BY SameData DEF Snapshot
<1>3. o.kind \in {"compress", "split"} BY <1>1, <1>2 DEF Fits
<1>5. CASE Complete(p) BY <1>2, <1>5, CompleteKeeps
<1>6. CASE Goto(p, "plan", [o EXCEPT !.todo = direct, !.seen = rec])
  <2> DEFINE j == [o EXCEPT !.todo = direct, !.seen = rec]
  <2>1. direct \subseteq Keys BY DEF Direct
  <2>2. rec \in [Keys -> Record(count)] BY <1>1 DEF DataOK
  <2> HIDE DEF o, direct
  <2>3. IsJob(j) /\ j.todo = direct /\ j.seen = rec /\ \A f \in Fields \ {"todo", "seen"} : j[f] = o[f]
    BY <1>1 DEF IsJob, Fields
  <2>4. Goto(p, "plan", j) BY <1>6
  <2> HIDE DEF j
  <2>5. j \in Job(count) BY <1>1, <2>1, <2>2, <2>3, FieldsOfJob, JobByFields DEF Fields
  <2>6. Fits("snapshot", o) BY <1>1, <1>2
  <2>7. Fits("plan", j) BY <2>2, <2>3, <2>6 DEF Fits, Fields
  <2>8. j.kind \in {"compress", "split"} BY <1>3, <2>3 DEF Fields
  <2> QED BY <1>3, <1>2, <2>4, <2>5, <2>7, <2>8, <1>o, GoesOn DEF States
<1> QED BY <1>5, <1>6 DEF Snapshot

\* The successor of a bucket exists: a compression fills it, a split gives it its group.
LEMMA SuccessorKeeps ==
  ASSUME BucketInv, NEW p \in Procs, NEW k \in Job(count), Successor(p, k), gone' = gone,
         k.kind = job[p].kind, k.at = job[p].at, k.at # 0,
         k.kind \in {"compress", "split"},
         k.kind = "compress" => DOMAIN k.seen = Keys,
         k.kind = "split" => k.group # 0
  PROVE  BucketInv'
<1> DEFINE at == job[p].at
<1> DEFINE l == IF job[p].kind = "split" THEN "adopt" ELSE "fetch"
<1> DEFINE j == [k EXCEPT !.succ = New, !.to = New]
<1>1. DataOK /\ count \in Nat /\ IsJob(k) /\ k.at \in 0 .. count
      /\ \A b \in 1 .. count : b \in Buckets
  BY CallerFacts, FieldsOfJob
<1>2. at \in Buckets /\ at \in 1 .. count BY <1>1
<1>3. tree[at].parent \in 0 .. count /\ tree[at].level \in Nat BY <1>1, <1>2 DEF DataOK
<1>4. /\ Grow(tree[at].parent, tree[at].level, origin[at])
      /\ Goto(p, l, j) /\ UNCHANGED <<title, root, rec, titled>>
  BY DEF Successor
<1>5. count' = count + 1 /\ New = count + 1 BY <1>4 DEF Grow, New
<1>6. titled' \subseteq 1 .. count' /\ title' \in [Buckets -> 0 .. count']
  <2>1. title \in [Buckets -> 0 .. count] /\ titled \subseteq 1 .. count BY <1>1 DEF DataOK
  <2>2. 0 .. count \subseteq 0 .. count' /\ 1 .. count \subseteq 1 .. count' BY <1>1, <1>5
  <2> QED BY <1>4, <2>1, <2>2
<1> HIDE DEF at
<1>7. DataOK' BY <1>1, <1>3, <1>4, <1>6, GrowKeeps
<1>8. k \in Job(count') BY <1>1, <1>5, JobGrows
<1>9. IsJob(j) /\ j.succ = New /\ j.to = New /\ \A f \in Fields \ {"succ", "to"} : j[f] = k[f]
  BY <1>1 DEF IsJob, Fields
<1>10. count' \in Nat /\ New \in 0 .. count' /\ New # 0 /\ k.at < New BY <1>1, <1>5
<1>11. Goto(p, l, j) BY <1>4
<1>12. l = IF k.kind = "split" THEN "adopt" ELSE "fetch" OBVIOUS
<1> HIDE DEF j, l
<1>13. j \in Job(count') BY <1>8, <1>9, <1>10, FieldsOfJob, JobByFields DEF Fields
<1>14. j.kind \in {"compress", "split"} /\ l \in {"adopt", "fetch"} BY <1>9, <1>12 DEF Fields
<1>15. Fits(l, j)
  <2>1. j.succ # 0 /\ j.at < j.succ /\ j.at # 0 BY <1>9, <1>10 DEF Fields
  <2>2. j.kind = k.kind /\ j.group = k.group /\ j.seen = k.seen BY <1>9 DEF Fields
  <2> QED BY <1>12, <1>14, <2>1, <2>2 DEF Fits
<1> QED BY <1>5, <1>7, <1>11, <1>13, <1>14, <1>15, GoesOn DEF States

LEMMA PlanSuccessorKeeps ==
  ASSUME BucketInv, NEW p \in Procs, PlanSuccessor(p) PROVE BucketInv'
<1> DEFINE o == job[p]
<1>1. /\ DataOK /\ count \in Nat /\ o \in Job(count) /\ IsJob(o) /\ Fits(pc[p], o)
  BY CallerFacts
<1>2. pc[p] = "plan" /\ o.kind = "compress" /\ gone' = gone BY DEF PlanSuccessor
<1>3. PICK drop \in SUBSET o.todo : Successor(p, [o EXCEPT !.todo = @ \ drop, !.keep = drop])
  BY DEF PlanSuccessor
<1> DEFINE j == [o EXCEPT !.todo = @ \ drop, !.keep = drop]
<1>4. Successor(p, j) /\ o.kind = job[p].kind /\ o.at = job[p].at BY <1>3
<1> HIDE DEF o
<1>5. IsJob(j) /\ j.todo = o.todo \ drop /\ j.keep = drop /\ \A f \in Fields \ {"todo", "keep"} : j[f] = o[f]
  BY <1>1 DEF IsJob, Fields
<1> HIDE DEF j
<1>6. o.todo \in SUBSET Keys BY <1>1, FieldsOfJob
<1>7. j \in Job(count) BY <1>1, <1>5, <1>6, FieldsOfJob, JobByFields DEF Fields
<1>8. DOMAIN o.seen = Keys /\ o.at # 0 BY <1>1, <1>2 DEF Fits
<1>9. j.kind = "compress" /\ j.at = o.at /\ j.seen = o.seen BY <1>2, <1>5 DEF Fields
<1> QED BY <1>2, <1>4, <1>7, <1>8, <1>9, SuccessorKeeps

LEMMA PlanSplitKeeps ==
  ASSUME BucketInv, NEW p \in Procs, PlanSplit(p) PROVE BucketInv'
<1> DEFINE o == job[p]
<1> DEFINE at == job[p].at
<1> DEFINE below == tree[at].level < MaxDepth
<1> DEFINE parent == IF below THEN Resolve[at] ELSE tree[at].parent
<1> DEFINE level == IF below THEN tree[parent].level + 1 ELSE tree[at].level
<1>o. job[p].kind = o.kind OBVIOUS
<1>1. /\ DataOK /\ count \in Nat /\ o \in Job(count) /\ IsJob(o) /\ Fits(pc[p], o)
      /\ \A b \in 1 .. count : b \in Buckets /\ Resolve[b] \in 1 .. count
  BY CallerFacts
<1>2. pc[p] = "plan" /\ o.kind = "split" BY DEF PlanSplit
<1>3. at \in 1 .. count
  <2>1. at # 0 BY <1>1, <1>2 DEF Fits
  <2>2. at \in 0 .. count BY <1>1, FieldsOfJob
  <2> QED BY <1>1, <2>1, <2>2
<1>4. parent \in 0 .. count
  <2>1. tree[at].parent \in 0 .. count BY <1>1, <1>3 DEF DataOK
  <2>2. Resolve[at] \in 1 .. count BY <1>1, <1>3
  <2> QED BY <1>1, <2>1, <2>2
<1>5. CASE Raise(p) BY <1>2, <1>5, RaiseKeeps
<1>6. CASE /\ parent # 0 /\ (below => tree[parent].level < MaxDepth)
           /\ Grow(parent, level, New)
           /\ UNCHANGED <<title, root, rec, titled, gone>>
           /\ \E move \in SUBSET o.todo \ {{}} :
                 Goto(p, "node", [o EXCEPT !.todo = move, !.keep = @ \cup (o.todo \ move),
                                           !.group = New, !.cur = Node(parent)])
  <2>1. PICK move \in SUBSET o.todo :
          Goto(p, "node", [o EXCEPT !.todo = move, !.keep = @ \cup (o.todo \ move),
                                    !.group = New, !.cur = Node(parent)])
    BY <1>6
  <2>2. level \in Nat
    <3>1. parent \in Buckets
      <4>1. parent # 0 BY <1>6
      <4> HIDE DEF parent
      <4>2. parent \in 1 .. count BY <1>1, <1>4, <4>1
      <4> QED BY <1>1, <4>2
    <3>2. \A b \in Buckets : tree[b].level \in Nat BY <1>1 DEF DataOK
    <3>3. at \in Buckets BY <1>1, <1>3
    <3> QED BY <3>1, <3>2, <3>3
  <2> HIDE DEF level
  <2>3. count' = count + 1 /\ New = count + 1 BY <1>6 DEF Grow, New
  <2>4. titled' \subseteq 1 .. count' /\ title' \in [Buckets -> 0 .. count']
    <3>1. title \in [Buckets -> 0 .. count] /\ titled \subseteq 1 .. count BY <1>1 DEF DataOK
    <3>2. 0 .. count \subseteq 0 .. count' /\ 1 .. count \subseteq 1 .. count' BY <1>1, <2>3
    <3> QED BY <1>6, <3>1, <3>2
  <2>5. Grow(parent, level, New) /\ root' = root /\ rec' = rec /\ gone' = gone BY <1>6
  <2> DEFINE node == Node(parent)
  <2> DEFINE j == [o EXCEPT !.todo = move, !.keep = @ \cup (o.todo \ move), !.group = New, !.cur = node]
  <2>6. Goto(p, "node", j) BY <2>1
  <2> HIDE DEF parent, o
  <2>7. DataOK' BY <1>1, <1>4, <2>2, <2>4, <2>5, GrowKeeps
  <2>8. node \in Record(count') BY <1>1, <1>4, <2>3 DEF Node, Record
  <2>9. o \in Job(count') BY <1>1, <2>3, JobGrows
  <2> HIDE DEF node
  <2>10. /\ IsJob(j) /\ j.todo = move /\ j.keep = o.keep \cup (o.todo \ move) /\ j.group = New /\ j.cur = node
         /\ \A f \in Fields \ {"todo", "keep", "group", "cur"} : j[f] = o[f]
    BY <1>1 DEF IsJob, Fields
  <2> HIDE DEF j
  <2>11. count' \in Nat /\ New \in 0 .. count' /\ New # 0 BY <1>1, <2>3
  <2>12. o.todo \in SUBSET Keys /\ o.keep \in SUBSET Keys BY <1>1, FieldsOfJob
  <2>13. j.todo \in SUBSET Keys /\ j.keep \in SUBSET Keys BY <2>10, <2>12
  <2>14. j \in Job(count')
    BY <2>8, <2>9, <2>10, <2>11, <2>13, FieldsOfJob, JobByFields DEF Fields
  <2>15. Fits("plan", o) BY <1>1, <1>2
  <2>16. Fits("node", j) BY <1>2, <2>10, <2>11, <2>15 DEF Fits, Fields
  <2>17. j.kind = "split" BY <1>2, <2>10 DEF Fields
  <2> QED BY <1>2, <2>3, <2>6, <2>7, <2>14, <2>16, <2>17, <1>o, GoesOn DEF States
<1> QED BY <1>5, <1>6 DEF PlanSplit

LEMMA TurnToSplitKeeps ==
  ASSUME BucketInv, NEW p \in Procs, TurnToSplit(p) PROVE BucketInv'
<1>1. count \in Nat /\ job[p] \in Job(count) /\ Fits("plan", job[p]) /\ job[p].kind = "compress"
  BY CallerFacts DEF TurnToSplit
<1>2. job[p].at # 0 BY <1>1 DEF Fits
<1>3. job[p].manage \in BOOLEAN /\ job[p].owes \in Keys \cup {0} BY <1>1, FieldsOfJob
<1> QED BY <1>1, <1>2, <1>3, RewriteKeeps DEF TurnToSplit, Turn

LEMMA PressureKeeps ==
  ASSUME BucketInv, NEW p \in Procs, Pressure(p) PROVE BucketInv'
<1>1. count \in Nat /\ job[p] \in Job(count) /\ Fits("pressure", job[p])
  BY CallerFacts DEF Pressure
<1>2. job[p].at # 0 /\ job[p].kind = "manage" BY <1>1, CallerFacts DEF Pressure, Fits
<1>3. pc[p] = "pressure" /\ DataOK' /\ count' = count BY SameData DEF Pressure
<1>4. CASE Return(p) BY <1>3, <1>4, ReturnKeeps
<1>5. CASE Goto(p, "snapshot", Turn(p, "compress", TRUE))
  <2>1. job[p].owes \in Keys \cup {0} BY <1>1, FieldsOfJob
  <2> QED BY <1>2, <1>5, <2>1, RewriteKeeps DEF Pressure, Turn
<1> QED BY <1>4, <1>5 DEF Pressure

LEMMA ManagedKeeps ==
  ASSUME BucketInv, NEW p \in Procs, Managed(p) PROVE BucketInv'
<1>1. count \in Nat /\ job[p] \in Job(count) /\ Fits("managed", job[p])
  BY CallerFacts DEF Managed
<1>2. job[p].at # 0 /\ job[p].kind # "create" /\ job[p].owes \in Keys \cup {0}
  BY <1>1, FieldsOfJob DEF Fits
<1>3. pc[p] = "managed" /\ DataOK' /\ count' = count BY SameData DEF Managed
<1>4. CASE Return(p) BY <1>3, <1>4, ReturnKeeps
<1>5. CASE Goto(p, "snapshot", Turn(p, "split", FALSE))
  BY <1>2, <1>5, RewriteKeeps DEF Managed, Turn
<1> QED BY <1>4, <1>5 DEF Managed

LEMMA FetchKeeps ==
  ASSUME BucketInv, NEW p \in Procs, NEW k \in job[p].todo, Fetch(p, k) PROVE BucketInv'
<1> DEFINE o == job[p]
<1> DEFINE read == IF o.kind = "compress" THEN o.seen[k] ELSE rec[k]
<1> DEFINE to == IF o.kind = "move" THEN Resolve[o.to] ELSE o.to
<1> DEFINE cur == IF o.kind = "move" /\ read.child # 0 THEN [read EXCEPT !.child = Resolve[@]] ELSE read
<1>o. job[p].kind = o.kind OBVIOUS
<1>1. /\ DataOK /\ count \in Nat /\ o \in Job(count) /\ IsJob(o) /\ Fits(pc[p], o)
      /\ \A b \in 1 .. count : b \in Buckets /\ Resolve[b] \in 1 .. count
      /\ \A x \in Keys : rec[x] \in Record(count)
  BY CallerFacts
<1>2. pc[p] = "fetch" /\ DataOK' /\ count' = count BY SameData DEF Fetch
<1>3. o.kind \in {"move", "compress", "split"} /\ o.kind # "resume" /\ o.kind # "manage"
  BY <1>1, <1>2 DEF Fits
<1>4. k \in Keys /\ o.todo \in SUBSET Keys BY <1>1, FieldsOfJob
<1>5. CASE Goto(p, "fetch", [o EXCEPT !.todo = @ \ {k}])
  <2> DEFINE j == [o EXCEPT !.todo = @ \ {k}]
  <2>1. Goto(p, "fetch", j) BY <1>5
  <2> HIDE DEF o
  <2>2. IsJob(j) /\ j.todo = o.todo \ {k} /\ \A f \in Fields \ {"todo"} : j[f] = o[f]
    BY <1>1 DEF IsJob, Fields
  <2> HIDE DEF j
  <2>3. j.todo \in SUBSET Keys BY <1>4, <2>2
  <2>4. j \in Job(count) BY <1>1, <2>2, <2>3, FieldsOfJob, JobByFields DEF Fields
  <2>5. Fits("fetch", o) BY <1>1, <1>2
  <2>6. Fits("fetch", j) BY <2>2, <2>5 DEF Fits, Fields
  <2>7. j.kind # "resume" /\ j.kind # "manage" BY <1>3, <2>2 DEF Fields
  <2> QED BY <1>3, <1>2, <2>1, <2>4, <2>6, <2>7, <1>o, GoesOn DEF States
<1>6. CASE Goto(p, IF cur.child # 0 THEN "link" ELSE IF Carries(p) THEN "out" ELSE "in",
                [o EXCEPT !.todo = @ \ {k}, !.key = k, !.to = to, !.cur = cur])
  <2> DEFINE j == [o EXCEPT !.todo = @ \ {k}, !.key = k, !.to = to, !.cur = cur]
  <2>1. PICK l \in {"link", "out", "in"} : Goto(p, l, j) BY <1>6
  <2>2. read \in Record(count)
    <3>1. CASE o.kind = "compress"
      <4>1. DOMAIN o.seen = Keys BY <1>1, <1>2, <3>1 DEF Fits
      <4>2. o.seen \in {<<>>} \cup [Keys -> Record(count)] BY <1>1, FieldsOfJob
      <4>3. 1 \in Keys BY BucketsFacts DEF Keys
      <4>4. DOMAIN <<>> = {} OBVIOUS
      <4>5. o.seen \in [Keys -> Record(count)] BY <4>1, <4>2, <4>3, <4>4
      <4> QED BY <1>4, <3>1, <4>5
    <3>2. CASE o.kind # "compress" BY <1>1, <1>4, <3>2
    <3> QED BY <3>1, <3>2
  <2>3. o.to \in 0 .. count BY <1>1, FieldsOfJob
  <2>4. to \in 0 .. count
    <3>1. o.kind = "move" => o.to # 0 BY <1>1 DEF Fits
    <3>2. o.kind = "move" => Resolve[o.to] \in 1 .. count BY <1>1, <2>3, <3>1
    <3> QED BY <1>1, <2>3, <3>2
  <2> HIDE DEF read
  <2>5. cur \in Record(count)
    <3>1. read.child # 0 => Resolve[read.child] \in 0 .. count BY <1>1, <2>2 DEF Record
    <3>2. (cur = [read EXCEPT !.child = Resolve[@]] /\ read.child # 0) \/ cur = read OBVIOUS
    <3>3. read.child # 0 => [read EXCEPT !.child = Resolve[@]] \in Record(count)
      BY <2>2, <3>1 DEF Record
    <3> QED BY <2>2, <3>2, <3>3
  <2> HIDE DEF o, to, cur
  <2>6. /\ IsJob(j) /\ j.todo = o.todo \ {k} /\ j.key = k /\ j.to = to /\ j.cur = cur
        /\ \A f \in Fields \ {"todo", "key", "to", "cur"} : j[f] = o[f]
    BY <1>1 DEF IsJob, Fields
  <2> HIDE DEF j
  <2>7. j.todo \in SUBSET Keys BY <1>4, <2>6
  <2>8. j \in Job(count) BY <1>1, <1>4, <2>4, <2>5, <2>6, <2>7, FieldsOfJob, JobByFields DEF Fields
  <2>9. Fits("fetch", o) BY <1>1, <1>2
  <2>10. o.kind = "move" => to # 0
    <3>1. o.kind = "move" => o.to # 0 BY <1>1 DEF Fits
    <3>2. o.kind = "move" => Resolve[o.to] \in 1 .. count BY <1>1, <2>3, <3>1
    <3> QED BY <3>2, <1>1 DEF to
  <2>11. Fits(l, j) BY <1>3, <2>6, <2>9, <2>10 DEF Fits, Fields
  <2>12. j.kind # "resume" /\ j.kind # "manage" BY <1>3, <2>6 DEF Fields
  <2> QED BY <1>3, <1>2, <2>1, <2>8, <2>11, <2>12, <1>o, GoesOn DEF States
<1> QED BY <1>5, <1>6 DEF Fetch

LEMMA LinkKeeps ==
  ASSUME BucketInv, NEW p \in Procs, Link(p) PROVE BucketInv'
<1> DEFINE o == job[p]
<1>o. job[p].kind = o.kind OBVIOUS
<1>1. /\ DataOK /\ count \in Nat /\ o \in Job(count) /\ Fits(pc[p], o) BY CallerFacts
<1>2. pc[p] = "link" BY DEF Link
<1>3. CASE Raise(p) BY <1>2, <1>3, RaiseKeeps
<1>4. CASE /\ Reparent(o.cur.child, o.to, Preserving(p))
           /\ Goto(p, IF o.kind = "move" /\ o.cur.in = o.to THEN "fetch"
                      ELSE IF Carries(p) THEN "out" ELSE "in", o)
  <2>1. PICK l \in {"fetch", "out", "in"} : Goto(p, l, o) BY <1>4
  <2>2. Preserving(p) \in BOOLEAN BY DEF Preserving
  <2>3. Reparent(o.cur.child, o.to, Preserving(p)) BY <1>4
  <2> HIDE DEF o
  <2>4. o.cur.child \in 0 .. count /\ o.to \in 0 .. count
    <3>1. o.cur \in Record(count) /\ o.to \in 0 .. count BY <1>1, FieldsOfJob
    <3> QED BY <3>1 DEF Record
  <2>5. DataOK' /\ count' = count BY <1>1, <2>2, <2>3, <2>4, ReparentKeeps
  <2>6. Fits(l, o) /\ o.kind # "resume" /\ o.kind # "manage" BY <1>1, <1>2 DEF Fits
  <2> QED BY <1>1, <2>1, <2>5, <2>6, <1>o, GoesOn DEF States
<1> QED BY <1>3, <1>4 DEF Link

LEMMA AdoptKeeps ==
  ASSUME BucketInv, NEW p \in Procs, Adopt(p) PROVE BucketInv'
<1> DEFINE o == job[p]
<1>o. job[p].kind = o.kind OBVIOUS
<1>1. /\ DataOK /\ count \in Nat /\ o \in Job(count) /\ Fits(pc[p], o) BY CallerFacts
<1>2. pc[p] = "adopt" BY DEF Adopt
<1>3. CASE Raise(p) BY <1>2, <1>3, RaiseKeeps
<1>4. CASE Reparent(o.group, o.succ, TRUE) /\ Goto(p, "fetch", o)
  <2> HIDE DEF o
  <2>1. o.group \in 0 .. count /\ o.succ \in 0 .. count BY <1>1, FieldsOfJob
  <2>2. DataOK' /\ count' = count BY <1>1, <1>4, <2>1, ReparentKeeps
  <2>3. Fits("fetch", o) /\ o.kind # "resume" /\ o.kind # "manage" BY <1>1, <1>2 DEF Fits
  <2> QED BY <1>1, <1>4, <2>2, <2>3, <1>o, GoesOn DEF States
<1> QED BY <1>3, <1>4 DEF Adopt

LEMMA OutKeeps ==
  ASSUME BucketInv, NEW p \in Procs, Out(p) PROVE BucketInv'
<1> DEFINE o == job[p]
<1>o. job[p].kind = o.kind OBVIOUS
<1>1. /\ DataOK /\ count \in Nat /\ o \in Job(count) /\ Fits(pc[p], o) BY CallerFacts
<1>2. pc[p] = "out" BY DEF Out
<1>3. CASE Raise(p) BY <1>2, <1>3, RaiseKeeps
<1>4. CASE /\ rec' = [rec EXCEPT ![o.key] = [o.cur EXCEPT !.gray = TRUE]]
           /\ UNCHANGED <<tree, count, title, root, origin, titled, gone>>
           /\ Goto(p, "in", o)
  <2> HIDE DEF o
  <2>1. o.cur \in Record(count) BY <1>1, FieldsOfJob
  <2>2. [o.cur EXCEPT !.gray = TRUE] \in Record(count) BY <2>1 DEF Record
  <2>3. gone' \subseteq Keys BY <1>1, <1>4 DEF DataOK
  <2>4. DataOK' /\ count' = count BY <1>1, <1>4, <2>2, <2>3, WriteKeeps
  <2>5. Fits("in", o) /\ o.kind # "resume" /\ o.kind # "manage" BY <1>1, <1>2 DEF Fits
  <2> QED BY <1>1, <1>4, <2>4, <2>5, <1>o, GoesOn DEF States
<1> QED BY <1>3, <1>4 DEF Out

LEMMA InKeeps ==
  ASSUME BucketInv, NEW p \in Procs, In(p) PROVE BucketInv'
<1> DEFINE o == job[p]
<1>o. job[p].kind = o.kind OBVIOUS
<1>1. /\ DataOK /\ count \in Nat /\ o \in Job(count) /\ Fits(pc[p], o) BY CallerFacts
<1>2. pc[p] = "in" BY DEF In
<1>3. CASE Raise(p) BY <1>2, <1>3, RaiseKeeps
<1>4. CASE /\ rec' = [rec EXCEPT ![o.key] = [o.cur EXCEPT !.in = o.to, !.gray = FALSE]]
           /\ UNCHANGED <<tree, count, title, root, origin, titled, gone>>
           /\ Goto(p, "fetch", o)
  <2> HIDE DEF o
  <2>1. o.cur \in Record(count) /\ o.to \in 0 .. count BY <1>1, FieldsOfJob
  <2>2. [o.cur EXCEPT !.in = o.to, !.gray = FALSE] \in Record(count) BY <2>1 DEF Record
  <2>3. gone' \subseteq Keys BY <1>1, <1>4 DEF DataOK
  <2>4. DataOK' /\ count' = count BY <1>1, <1>4, <2>2, <2>3, WriteKeeps
  <2>5. Fits("fetch", o) /\ o.kind # "resume" /\ o.kind # "manage" BY <1>1, <1>2 DEF Fits
  <2> QED BY <1>1, <1>4, <2>4, <2>5, <1>o, GoesOn DEF States
<1> QED BY <1>3, <1>4 DEF In

LEMMA GroupedKeeps ==
  ASSUME BucketInv, NEW p \in Procs, Grouped(p) PROVE BucketInv'
<1> DEFINE o == job[p]
<1> DEFINE j == [o EXCEPT !.todo = @ \cup o.keep \cup {o.group}]
<1>1. /\ DataOK /\ count \in Nat /\ o \in Job(count) /\ IsJob(o) /\ Fits(pc[p], o)
      /\ \A b \in 1 .. count : b \in Buckets
  BY CallerFacts
<1>2. pc[p] = "fetch" /\ o.kind = "split" /\ gone' = gone /\ Successor(p, j) BY DEF Grouped
<1>3. o.kind = job[p].kind /\ o.at = job[p].at OBVIOUS
<1> HIDE DEF o
<1>4. IsJob(j) /\ j.todo = o.todo \cup o.keep \cup {o.group} /\ \A f \in Fields \ {"todo"} : j[f] = o[f]
  BY <1>1 DEF IsJob, Fields
<1> HIDE DEF j
<1>5. o.todo \in SUBSET Keys /\ o.keep \in SUBSET Keys /\ o.group \in 0 .. count BY <1>1, FieldsOfJob
<1>6. o.at # 0 /\ o.group # 0 BY <1>1, <1>2 DEF Fits
<1>7. o.group \in Keys BY <1>1, <1>5, <1>6 DEF Keys
<1>8. j.todo \in SUBSET Keys BY <1>4, <1>5, <1>7
<1>9. j \in Job(count) BY <1>1, <1>4, <1>8, FieldsOfJob, JobByFields DEF Fields
<1>10. j.kind = "split" /\ j.at = o.at /\ j.group = o.group BY <1>2, <1>4 DEF Fields
<1> QED BY <1>2, <1>3, <1>6, <1>9, <1>10, SuccessorKeeps

LEMMA SealKeeps ==
  ASSUME BucketInv, NEW p \in Procs, Seal(p) PROVE BucketInv'
<1> DEFINE o == job[p]
<1> DEFINE at == o.at
<1> DEFINE succ == o.succ
<1>o. job[p].kind = o.kind OBVIOUS
<1>1. /\ DataOK /\ count \in Nat /\ o \in Job(count) /\ Fits(pc[p], o)
      /\ \A b \in 1 .. count : b \in Buckets
  BY CallerFacts
<1>2. pc[p] = "fetch" /\ o.kind # "move" /\ (o.kind = "split" => succ # 0)
  BY DEF Seal, Rebuilt
<1>3. o.kind \in {"compress", "split"} /\ succ # 0 /\ at < succ /\ at # 0
  BY <1>1, <1>2 DEF Fits
<1>4. at \in 1 .. count /\ succ \in 1 .. count BY <1>1, <1>3, FieldsOfJob
<1>5. CASE Raise(p) BY <1>2, <1>5, RaiseKeeps
<1>6. CASE ~Raise(p)
  <2>1. /\ tree' = [tree EXCEPT ![at].sealed_to = succ]
        /\ gone' = IF o.kind = "split" THEN gone ELSE gone \cup o.keep
        /\ UNCHANGED <<count, root, rec, origin, titled>>
        /\ Goto(p, "switch", o)
    BY <1>6 DEF Seal
  <2>2. title' \in [Buckets -> 0 .. count]
    <3>1. title[at] \in 0 .. count /\ succ \in 0 .. count /\ \A b \in Buckets : title[b] \in 0 .. count
      BY <1>1, <1>4 DEF DataOK
    <3> DEFINE parent == tree[at].parent
    <3> DEFINE inherits == IF title[at] = 0 THEN FALSE ELSE tree[title[at]].parent = succ
    <3>2. title' = [b \in Buckets |-> IF b = succ /\ inherits THEN title[at]
                                      ELSE IF b = parent /\ title[b] = at THEN succ
                                      ELSE title[b]]
      BY <1>6 DEF Seal
    <3> HIDE DEF parent, inherits, at, succ
    <3> QED BY <3>1, <3>2
  <2> HIDE DEF o
  <2>3. tree' \in [Buckets -> [parent : 0 .. count, sealed_to : 0 .. count, level : Nat]]
    BY <1>1, <1>4, <2>1 DEF DataOK
  <2>4. SealsOK'
    <3>1. \A b \in Buckets : tree'[b].sealed_to = IF b = at THEN succ ELSE tree[b].sealed_to
      BY <1>1, <2>1 DEF DataOK
    <3> QED BY <1>1, <1>3, <3>1 DEF DataOK, SealsOK, Sealed
  <2>5. gone' \subseteq Keys
    <3>1. o.keep \in SUBSET Keys BY <1>1, FieldsOfJob
    <3> QED BY <1>1, <2>1, <3>1 DEF DataOK
  <2>6. DataOK' /\ count' = count BY <1>1, <2>1, <2>2, <2>3, <2>4, <2>5 DEF DataOK
  <2>7. Fits("switch", o) BY <1>1, <1>2, <1>3 DEF Fits
  <2> QED BY <1>1, <1>3, <2>1, <2>6, <2>7, <1>o, GoesOn DEF States
<1> QED BY <1>5, <1>6

LEMMA SwitchKeeps ==
  ASSUME BucketInv, NEW p \in Procs, Switch(p) PROVE BucketInv'
<1> DEFINE o == job[p]
<1> DEFINE direct == Direct(job[p].succ) \cap Memories
<1>o. job[p].kind = o.kind OBVIOUS
<1>1. /\ DataOK /\ count \in Nat /\ o \in Job(count) /\ IsJob(o) /\ Fits(pc[p], o)
      /\ \A b \in 1 .. count : b \in Buckets
  BY CallerFacts
<1>2. pc[p] = "switch" /\ root' = IF root = o.at THEN o.succ ELSE root BY DEF Switch
<1>3. o.succ # 0 BY <1>1, <1>2 DEF Fits
<1>4. o.succ \in 1 .. count BY <1>1, <1>3, FieldsOfJob
<1>5. UNCHANGED <<tree, count, title, rec, titled, gone>> BY DEF Switch
<1>6. SealsOK' BY <1>1, <1>5 DEF DataOK, SealsOK, Sealed
<1>7. DataOK' /\ count' = count BY <1>1, <1>2, <1>4, <1>5, <1>6 DEF DataOK
<1>8. CASE Complete(p) BY <1>2, <1>7, <1>8, CompleteKeeps
<1>9. CASE o.kind = "compress" /\ Goto(p, "forget", [o EXCEPT !.todo = direct])
  <2> DEFINE j == [o EXCEPT !.todo = direct]
  <2>1. Goto(p, "forget", j) BY <1>9
  <2>2. direct \subseteq Keys BY DEF Direct
  <2> HIDE DEF o, direct
  <2>3. IsJob(j) /\ j.todo = direct /\ \A f \in Fields \ {"todo"} : j[f] = o[f]
    BY <1>1 DEF IsJob, Fields
  <2> HIDE DEF j
  <2>4. j \in Job(count) BY <1>1, <2>2, <2>3, FieldsOfJob, JobByFields DEF Fields
  <2>5. Fits("switch", o) /\ o.kind = "compress" BY <1>1, <1>2, <1>9
  <2>6. Fits("forget", j) BY <2>3, <2>5 DEF Fits, Fields
  <2>7. j.kind = "compress" BY <2>3, <2>5 DEF Fields
  <2> QED BY <2>5, <1>7, <2>1, <2>4, <2>6, <2>7, <1>o, GoesOn DEF States
<1> QED BY <1>8, <1>9 DEF Switch

LEMMA ForgetKeeps ==
  ASSUME BucketInv, NEW p \in Procs, NEW k \in job[p].todo, Forget(p, k) PROVE BucketInv'
<1> DEFINE o == job[p]
<1> DEFINE rest == [o EXCEPT !.todo = @ \ {k}]
<1> DEFINE marked == [rest EXCEPT !.key = k, !.cur = rec[k]]
<1>o. job[p].kind = o.kind OBVIOUS
<1>1. /\ DataOK /\ count \in Nat /\ o \in Job(count) /\ IsJob(o) /\ Fits(pc[p], o)
      /\ \A x \in Keys : rec[x] \in Record(count)
      /\ o.kind = "manage" /\ pc[p] \in {"forget", "gray"} => Held(p) = {}
  BY CallerFacts
<1>2. pc[p] = "forget" /\ DataOK' /\ count' = count BY SameData DEF Forget
<1>3. Goto(p, "forget", rest) \/ Goto(p, "gray", marked) BY DEF Forget
<1>4. o.kind \in {"manage", "compress"} BY <1>1, <1>2 DEF Fits
<1>5. k \in Keys /\ o.todo \in SUBSET Keys BY <1>1, FieldsOfJob
<1>6. rec[k] \in Record(count) BY <1>1, <1>5
<1> HIDE DEF o
<1>7. IsJob(rest) /\ rest.todo = o.todo \ {k} /\ \A f \in Fields \ {"todo"} : rest[f] = o[f]
  BY <1>1 DEF IsJob, Fields
<1> HIDE DEF rest
<1>8. IsJob(marked) /\ marked.key = k /\ marked.cur = rec[k]
      /\ \A f \in Fields \ {"key", "cur"} : marked[f] = rest[f]
  BY <1>7 DEF IsJob, Fields
<1> HIDE DEF marked
<1>9. rest.todo \in SUBSET Keys BY <1>5, <1>7
<1>10. rest \in Job(count) BY <1>1, <1>7, <1>9, FieldsOfJob, JobByFields DEF Fields
<1>11. marked \in Job(count) BY <1>1, <1>5, <1>6, <1>8, <1>10, FieldsOfJob, JobByFields DEF Fields
<1>12. Fits("forget", o) BY <1>1, <1>2
<1>13. Fits("forget", rest) BY <1>7, <1>12 DEF Fits, Fields
<1>14. Fits("gray", marked) BY <1>5, <1>8, <1>13 DEF Fits, Fields
<1>15. rest.kind = o.kind /\ marked.kind = o.kind BY <1>7, <1>8 DEF Fields
<1>16. o.kind = "manage" => Held(p) = {} BY <1>1, <1>2
<1>17. CASE Goto(p, "forget", rest)
  BY <1>2, <1>4, <1>10, <1>13, <1>15, <1>16, <1>17, <1>o, GoesOn DEF States
<1>18. CASE Goto(p, "gray", marked)
  BY <1>2, <1>4, <1>11, <1>14, <1>15, <1>16, <1>18, <1>o, GoesOn DEF States
<1> QED BY <1>3, <1>17, <1>18

LEMMA ForgottenKeeps ==
  ASSUME BucketInv, NEW p \in Procs, Forgotten(p) PROVE BucketInv'
<1> DEFINE o == job[p]
<1> DEFINE b == Resolve[job[p].at]
<1> DEFINE j == [o EXCEPT !.at = b, !.wants = {b}]
<1>o. job[p].kind = o.kind OBVIOUS
<1>1. /\ DataOK /\ count \in Nat /\ o \in Job(count) /\ IsJob(o) /\ Fits(pc[p], o)
      /\ \A a \in 1 .. count : a \in Buckets /\ Resolve[a] \in 1 .. count
      /\ o.kind = "manage" /\ pc[p] \in {"forget", "gray"} => Held(p) = {}
  BY CallerFacts
<1>2. pc[p] = "forget" /\ DataOK' /\ count' = count BY SameData DEF Forgotten
<1>3. CASE Complete(p) BY <1>2, <1>3, CompleteKeeps
<1>4. CASE o.kind = "manage" /\ Goto(p, "lock", j)
  <2>1. o.at # 0 /\ o.at \in 0 .. count BY <1>1, <1>4, FieldsOfJob DEF Fits
  <2>2. b \in 1 .. count BY <1>1, <2>1
  <2>3. Goto(p, "lock", j) /\ o.kind = "manage" /\ Fits("forget", o) BY <1>1, <1>2, <1>4
  <2> HIDE DEF o, b
  <2>4. IsJob(j) /\ j.at = b /\ j.wants = {b} /\ \A f \in Fields \ {"at", "wants"} : j[f] = o[f]
    BY <1>1 DEF IsJob, Fields
  <2> HIDE DEF j
  <2>5. j \in Job(count)
    <3>1. b \in 0 .. count /\ {b} \in SUBSET (1 .. count) BY <1>1, <2>2
    <3> QED BY <1>1, <3>1, <2>4, FieldsOfJob, JobByFields DEF Fields
  <2>6. o.succ = 0 /\ ~o.manage BY <2>3 DEF Fits
  <2>7. j.kind = "manage" /\ j.succ = o.succ /\ j.manage = o.manage BY <2>3, <2>4 DEF Fields
  <2>8. Fits("lock", j) BY <2>2, <2>4, <2>6, <2>7 DEF Fits
  <2> QED BY <1>1, <1>2, <2>3, <2>4, <2>5, <2>7, <2>8, <1>o, Waits
<1> QED BY <1>3, <1>4 DEF Forgotten

(***************************************************************************)
(* The invariant, and what follows from it.                                *)
(***************************************************************************)
LEMMA StepKeeps ==
  ASSUME BucketInv, NEW p \in Procs, Step(p) PROVE BucketInv'
<1>1. CASE Acquire(p) BY <1>1, AcquireKeeps
<1>2. CASE AcquireMeta(p) BY <1>2, AcquireMetaKeeps
<1>3. CASE GetOrCreate(p) BY <1>3, GetOrCreateKeeps
<1>4. CASE WriteNode(p) BY <1>4, WriteNodeKeeps
<1>5. CASE WriteMemory(p) BY <1>5, WriteMemoryKeeps
<1>6. CASE ReadMemory(p) BY <1>6, ReadMemoryKeeps
<1>7. CASE GrayMemory(p) BY <1>7, GrayMemoryKeeps
<1>8. CASE Untitle(p) BY <1>8, UntitleKeeps
<1>9. CASE Snapshot(p) BY <1>9, SnapshotKeeps
<1>10. CASE PlanSuccessor(p) BY <1>10, PlanSuccessorKeeps
<1>11. CASE PlanSplit(p) BY <1>11, PlanSplitKeeps
<1>12. CASE TurnToSplit(p) BY <1>12, TurnToSplitKeeps
<1>13. CASE \E k \in job[p].todo : Fetch(p, k) \/ Forget(p, k)
  BY <1>13, FetchKeeps, ForgetKeeps
<1>14. CASE Link(p) BY <1>14, LinkKeeps
<1>15. CASE Adopt(p) BY <1>15, AdoptKeeps
<1>16. CASE Out(p) BY <1>16, OutKeeps
<1>17. CASE In(p) BY <1>17, InKeeps
<1>18. CASE Moved(p)
  <2>1. DataOK' /\ count' = count /\ Finish(p) BY <1>18, SameData DEF Moved
  <2> QED BY <2>1, FinishKeeps
<1>19. CASE Grouped(p) BY <1>19, GroupedKeeps
<1>20. CASE Seal(p) BY <1>20, SealKeeps
<1>21. CASE Switch(p) BY <1>21, SwitchKeeps
<1>22. CASE Forgotten(p) BY <1>22, ForgottenKeeps
<1>23. CASE Pressure(p) BY <1>23, PressureKeeps
<1>24. CASE Managed(p) BY <1>24, ManagedKeeps
<1>25. CASE CancelWait(p) BY <1>25, CancelWaitKeeps
<1>26. CASE Overflow(p) BY <1>26, OverflowKeeps
<1> QED
  BY <1>1, <1>2, <1>3, <1>4, <1>5, <1>6, <1>7, <1>8, <1>9, <1>10, <1>11, <1>12, <1>13, <1>14,
     <1>15, <1>16, <1>17, <1>18, <1>19, <1>20, <1>21, <1>22, <1>23, <1>24, <1>25,
     <1>26 DEF Step

LEMMA StutterKeeps ==
  ASSUME BucketInv, UNCHANGED vars PROVE BucketInv'
<1>1. DataOK /\ JobsOK /\ LocksOK /\ TypeOK BY InvParts
<1>2. DataSame /\ UNCHANGED <<owner, meta, pc, job>> /\ count' = count
  BY DEF vars, data, history, DataSame
<1>3. DataOK' BY <1>1, <1>2, DataKept
<1>4. JobsOK' BY <1>1, <1>2 DEF JobsOK
<1>5. LocksOK' BY <1>1, <1>2 DEF LocksOK, Held
<1> QED BY <1>1, <1>2, <1>3, <1>4, <1>5, InvFromParts DEF TypeOK

LEMMA InitBucketInv == Init => BucketInv
<1> SUFFICES ASSUME Init PROVE BucketInv OBVIOUS
<1>1. count = 2 /\ count \in Buckets /\ root \in 1 .. count BY BucketsFacts DEF Init
<1>2. \A b \in Buckets : tree[b] = CASE b = 1 -> Info(0, 1) [] b = 2 -> Info(1, 2) [] OTHER -> Info(0, 0)
  BY DEF Init
<1>3. \A b \in Buckets : tree[b] \in [parent : 0 .. 2, sealed_to : 0 .. 2, level : Nat]
                       /\ tree[b].sealed_to = 0
  BY <1>2 DEF Info
<1>4. tree \in [Buckets -> [parent : 0 .. count, sealed_to : 0 .. count, level : Nat]]
  BY <1>1, <1>3 DEF Init
<1>5. SealsOK BY <1>3 DEF SealsOK, Sealed
<1>6. title \in [Buckets -> 0 .. count] BY <1>1 DEF Init
<1>7. rec \in [Keys -> Record(count)]
  <2>1. PICK where \in [Memories -> 0 .. 2] :
          rec = [k \in Keys |-> IF k = 2 THEN [in |-> 1, gray |-> FALSE, child |-> 2]
                   ELSE [NoRecord EXCEPT !.in = IF k \in Memories THEN where[k] ELSE 0]]
    BY DEF Init
  <2>2. NoRecord \in Record(2) /\ [in |-> 1, gray |-> FALSE, child |-> 2] \in Record(2)
    BY DEF NoRecord, Record
  <2>3. \A n \in 0 .. 2 : [NoRecord EXCEPT !.in = n] \in Record(2) BY <2>2 DEF Record
  <2>4. \A k \in Keys : (IF k \in Memories THEN where[k] ELSE 0) \in 0 .. 2 OBVIOUS
  <2>5. \A k \in Keys : rec[k] \in Record(2) BY <2>1, <2>2, <2>3, <2>4
  <2> QED BY <1>1, <2>1, <2>5
<1>8. DataOK BY <1>1, <1>4, <1>5, <1>6, <1>7 DEF DataOK, Init
<1>9. /\ owner \in [Buckets -> Procs \cup {None, Leaked}] /\ meta \in Procs \cup {None}
      /\ pc = [p \in Procs |-> "idle"] /\ job = [p \in Procs |-> NoJob]
  BY DEF Init
<1>10. NoJob \in Job(count) /\ Fits("idle", NoJob) /\ "idle" \in States BY <1>1, NoJobFits
<1>11. pc \in [Procs -> States] /\ job \in [Procs -> Job(count)] /\ JobsOK
  BY <1>9, <1>10 DEF JobsOK
<1>12. LocksOK
  <2>1. \A p \in Procs : Held(p) = {} /\ meta # p /\ pc[p] = "idle"
    BY BucketAssumption, <1>9 DEF Init, Held
  <2>2. \A p \in Procs : job[p].kind \notin {"resume", "manage"} BY <1>9 DEF NoJob
  <2> QED BY <2>1, <2>2 DEF LocksOK
<1> QED BY <1>8, <1>9, <1>11, <1>12 DEF BucketInv, DataOK, TypeOK

LEMMA BucketInvariant == Spec => []BucketInv
<1>1. BucketInv /\ [Next]_vars => BucketInv'
  <2>1. ASSUME BucketInv, Next PROVE BucketInv'
    <3>1. PICK p \in Procs : Request(p) \/ Step(p) BY <2>1 DEF Next
    <3> QED BY <2>1, <3>1, RequestKeeps, StepKeeps
  <2> QED BY <2>1, StutterKeeps
<1> QED BY <1>1, InitBucketInv, PTL DEF Spec

(* Every variable keeps its type: every id, in the tree, in a record or in *)
(* what a caller remembers across its waits, is that of a bucket that has  *)
(* been created.                                                           *)
THEOREM BucketTypeCorrect == Spec => []TypeOK
  BY BucketInvariant, PTL DEF BucketInv

(* The redirects of sealed buckets never lead in a circle, nor to a bucket *)
(* that was not created: from every bucket they end at one that is not     *)
(* sealed, so _resolve_bucket_redirect_chain never leaves its loop because *)
(* it has visited a bucket or misses one (bucket_topology_service.py:102). *)
THEOREM RedirectsEnd == Spec => [](\A b \in 1 .. count : Resolve[b] \in Live)
<1>1. BucketInv => \A b \in 1 .. count : Resolve[b] \in Live BY InvParts, ResolveFacts
<1> QED BY <1>1, BucketInvariant, PTL

(* Deadlock.  If everybody waits who is not idle, and for no lost lock,    *)
(* take the caller p that waits for the greatest bucket lock.  Its holder  *)
(* r does not wait for a bucket, because that one would be greater; so r   *)
(* waits for the meta lock, and whoever has that waits for a bucket, which *)
(* is not greater than the one r holds.                                    *)
LEMMA StuckEmbrace ==
  ASSUME BucketInv PROVE NoDeadlock
<1> SUFFICES ASSUME Stuck, ~Lost PROVE Embrace BY DEF NoDeadlock
<1>1. LocksOK /\ TypeOK BY InvParts
<1>2. None \notin Procs /\ Leaked \notin Procs BY BucketAssumption
<1>w. \A q \in Procs : meta = q \/ Held(q) # {} => Waiting(q) BY <1>1 DEF Stuck, LocksOK
<1> DEFINE waiters == {p \in Procs : pc[p] = "lock"}
<1> DEFINE wanted == {NextLock(p) : p \in waiters}
<1> DEFINE last == 2 + 3 * MaxOps
<1>3. \A p \in waiters : /\ NextLockFacts(p) /\ NextLock(p) \in Buckets
                        /\ owner[NextLock(p)] \in Procs
  <2> SUFFICES ASSUME NEW p \in waiters
               PROVE  /\ NextLockFacts(p) /\ NextLock(p) \in Buckets
                      /\ owner[NextLock(p)] \in Procs
    OBVIOUS
  <2>1. NextLockFacts(p) /\ NextLock(p) \in Buckets BY NextLockIsLeast
  <2>2. owner[NextLock(p)] # None BY DEF Stuck, Waiting
  <2>3. owner[NextLock(p)] # Leaked BY DEF Lost
  <2> QED BY <1>1, <2>1, <2>2, <2>3 DEF TypeOK
<1>4. waiters # {}
  <2>1. ASSUME waiters = {} PROVE FALSE
    <3>1. PICK p \in Procs : pc[p] # "idle" BY DEF Stuck, Quiet
    <3>2. pc[p] = "meta" /\ meta # None BY <2>1, <3>1 DEF Stuck, Waiting
    <3>3. meta \in Procs BY <1>1, <3>2 DEF TypeOK
    <3>4. pc[meta] = "meta" BY <1>w, <2>1, <3>3 DEF Waiting
    <3> QED BY <1>1, <3>3, <3>4 DEF LocksOK
  <2> QED BY <2>1
<1>5. wanted \in SUBSET (0 .. last) /\ wanted # {} /\ last \in Nat
  <2>1. \A p \in waiters : NextLock(p) \in Buckets BY <1>3
  <2>2. Buckets \subseteq 0 .. last /\ last \in Nat BY BucketsFacts
  <2> HIDE DEF last, waiters
  <2>3. wanted # {} BY <1>4
  <2> QED BY <2>1, <2>2, <2>3
<1>6. PICK b \in wanted : \A c \in wanted : c <= b BY <1>5, GreatestNat
<1>7. PICK p \in waiters : b = NextLock(p) OBVIOUS
<1> DEFINE r == owner[b]
<1>8. r \in Procs /\ b \in Held(r) BY <1>3, <1>7 DEF Held
<1> HIDE DEF r, wanted, last
<1>9. pc[r] # "lock"
  <2> SUFFICES ASSUME pc[r] = "lock" PROVE FALSE OBVIOUS
  <2>1. NextLock(r) \in job[r].wants \ Held(r) /\ NextLock(r) \in Buckets
    BY <1>3, <1>8 DEF NextLockFacts
  <2>2. b < NextLock(r) BY <1>1, <1>8, <2>1 DEF LocksOK
  <2>3. NextLock(r) \in wanted BY <1>8 DEF wanted
  <2>4. NextLock(r) <= b BY <1>6, <2>3
  <2>5. b \in Nat /\ NextLock(r) \in Nat BY <1>3, <1>7, <2>1, BucketsFacts
  <2> QED BY <2>2, <2>4, <2>5
<1>10. pc[r] = "meta" /\ meta # None BY <1>w, <1>8, <1>9 DEF Waiting
<1>11. meta \in Procs /\ meta # r BY <1>1, <1>8, <1>10 DEF TypeOK, LocksOK
<1>12. pc[meta] = "lock"
  <2>1. pc[meta] \in {"lock", "meta"} BY <1>w, <1>11 DEF Waiting
  <2> QED BY <1>1, <1>11, <2>1 DEF LocksOK
<1>13. NextLock(meta) <= b BY <1>6, <1>11, <1>12 DEF wanted
<1> QED BY <1>8, <1>10, <1>11, <1>12, <1>13 DEF Embrace

(* The operations under way all wait only in two ways: a lock was lost     *)
(* with a caller cancelled while it waited for a second one, or a resumed  *)
(* job holds the global meta lock and wants a bucket, while a caller that  *)
(* holds that bucket or a later one waits for the meta lock.               *)
THEOREM NoDeadlockCorrect == Spec => []NoDeadlock
  BY BucketInvariant, StuckEmbrace, PTL

(* The order of the bucket locks, and the meta lock that a new child takes *)
(* after its bucket's and never with another to come, are enough for the   *)
(* callers of a running bot: as long as no job is resumed and none waits   *)
(* for a lock that a cancelled caller lost, an operation under way can go  *)
(* on.                                                                     *)
THEOREM OrderedLocksSuffice ==
  Spec => []("resume" \notin Ops /\ ~Lost => ~Stuck)
<1>1. ASSUME BucketInv, "resume" \notin Ops, ~Lost, Stuck PROVE FALSE
  <2>1. PICK q \in Procs : meta = q /\ pc[q] = "lock"
    BY <1>1, StuckEmbrace DEF NoDeadlock, Embrace
  <2>2. job[q].kind = "create" BY <1>1, <2>1, InvParts DEF LocksOK
  <2> QED BY <1>1, <2>1, <2>2, InvParts DEF LocksOK
<1>2. BucketInv => ("resume" \notin Ops /\ ~Lost => ~Stuck) BY <1>1
<1> QED BY <1>2, BucketInvariant, PTL
=============================================================================
