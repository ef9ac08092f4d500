------------------------------ MODULE FileCache ------------------------------
(***************************************************************************)
(* The file cache of file_cache.py: files named by their hash, and a row   *)
(* in SQLite for each.  Threads of the executor add, get, renew and remove *)
(* files; the cleanup gives rows to files without one and deletes what was *)
(* not used for a period; at start, ensure_builtin_resources makes the     *)
(* built-in files permanent.  The process may end anywhere.                *)
(*                                                                         *)
(* What runs under _lock is one step, but for the steps named ...Half,     *)
(* where the file was changed and the row was not: an error of SQLite      *)
(* there, or the end of the process.                                       *)
(*                                                                         *)
(* Times are ages, which Tick raises; an age above Old is no different     *)
(* from Old.  A call takes the time before it waits for the lock, so it    *)
(* may write a use that is up to MaxLag old.                               *)
(***************************************************************************)
EXTENDS Naturals, FiniteSets

CONSTANTS Hashes, Procs,
          Starter,      \* the thread of ensure_builtin_resources
          Builtin,      \* hashes of the built-in resources
          NoHash,
          Expire,       \* FileCacheExpire, in ticks
          MaxLag,       \* bound: ticks a call or a cleanup lasts
          Batch,        \* _cleanup_batch_size
          MaxEvents,    \* bound: calls and errors, and the ends before them
          MaxEnds       \* bound: ends of the process

ASSUME FileCacheAssumption ==
    /\ Builtin \in SUBSET Hashes /\ Starter \notin Procs /\ NoHash \notin Hashes
    /\ Expire \in Nat /\ MaxLag \in Nat /\ MaxLag <= Expire
    /\ Batch \in Nat \ {0}
    /\ MaxEvents \in Nat /\ MaxEnds \in Nat

VARIABLES
    up,        \* the process runs
    file,      \* the hashes whose file is there
    row,       \* the rows of `files': the age of use_time, and the retention
    pc, arg,   \* per thread: the step of its call, and what it is about
    todo,      \* built-in hashes still to be looked at
    cpc,       \* the cleanup: "wait", "scan", "select", "items"
    lag,       \* ticks since the start of the cleanup
    indexed, unseen, pending,  \* _rebuild_orphan_index
    passed, rows,              \* what the selects returned, what is left of the last
    stop,      \* close() was called
    calls, errors, ends,       \* counters of the bounds
    since,     \* history: age of the last use a caller knows of
    lasting,   \* history: hashes last added as permanent and not removed since
    installed, \* history: built-in hashes this start has seen to
    undone     \* history: those that a caller changed since they were looked at

cleaner == <<cpc, lag, indexed, unseen, pending, passed, rows>>
thread == <<pc, arg>>
history == <<since, lasting, installed, undone>>
vars == <<up, file, row, thread, todo, cleaner, stop, calls, errors, ends, history>>

------------------------------------------------------------------------------
Old == Expire + MaxLag + 1
Age == 0..Old
Retention == {"expiring", "permanent"}
Row == [age : Age, retention : Retention \cup {"none"}]
NoRow == [age |-> 0, retention |-> "none"]
HasRow(h) == row[h].retention # "none"
Permanent(h) == row[h].retention = "permanent"
Threads == Procs \cup {Starter}
NoArg == [hash |-> NoHash, retention |-> "expiring", lag |-> 0]
Steps == {"idle", "look", "place", "get", "renew", "remove", "check", "meta"}

TypeOK ==
    /\ up \in BOOLEAN /\ stop \in BOOLEAN
    /\ file \in SUBSET Hashes
    /\ row \in [Hashes -> Row]
    /\ pc \in [Threads -> Steps]
    /\ arg \in [Threads -> [hash : Hashes \cup {NoHash}, retention : Retention, lag : 0..MaxLag]]
    /\ todo \in SUBSET Builtin
    /\ cpc \in {"wait", "scan", "select", "items"} /\ lag \in 0..MaxLag
    /\ indexed \subseteq Hashes /\ unseen \subseteq Hashes /\ pending \subseteq Hashes
    /\ passed \subseteq Hashes /\ rows \subseteq Hashes
    /\ lasting \subseteq Hashes /\ installed \subseteq Hashes /\ undone \subseteq Hashes
    /\ calls \in 0..MaxEvents /\ errors \in 0..MaxEvents /\ ends \in 0..MaxEnds
    /\ since \in [Hashes -> Age]

Init ==
    /\ up = TRUE /\ file = {} /\ row = [h \in Hashes |-> NoRow]
    /\ pc = [p \in Threads |-> "idle"] /\ arg = [p \in Threads |-> NoArg]
    /\ cpc = "wait" /\ lag = 0
    /\ indexed = {} /\ unseen = {} /\ pending = {} /\ passed = {} /\ rows = {}
    /\ todo = Builtin /\ stop = FALSE
    /\ calls = 0 /\ errors = 0 /\ ends = 0
    /\ since = [h \in Hashes |-> 0]
    /\ lasting = {} /\ installed = {} /\ undone = {}

------------------------------------------------------------------------------
\* Calls

Call(p, step, h, retention) ==
    /\ up /\ p \in Procs /\ pc[p] = "idle" /\ calls + errors + ends < MaxEvents
    /\ calls' = calls + 1
    /\ pc' = [pc EXCEPT ![p] = step]
    /\ arg' = [arg EXCEPT ![p] = [hash |-> h, retention |-> retention, lag |-> 0]]
    /\ UNCHANGED <<up, file, row, todo, cleaner, stop, errors, ends, history>>

Return(p) ==
    /\ pc' = [pc EXCEPT ![p] = "idle"]
    /\ arg' = [arg EXCEPT ![p] = NoArg]

\* A use writes the time its call began.
Used(p, h) ==
    since' = [since EXCEPT ![h] = IF arg[p].lag < @ THEN arg[p].lag ELSE @]

\* _upsert_file_locked: the retention is the new one, whatever it was.
Upsert(p, h) ==
    /\ row' = [row EXCEPT ![h] = [age |-> arg[p].lag, retention |-> arg[p].retention]]
    /\ Used(p, h)
    /\ lasting' = IF arg[p].retention = "permanent" THEN lasting \cup {h} ELSE lasting \ {h}
    /\ installed' = IF p = Starter THEN installed \cup {h} ELSE installed
    /\ undone' = IF arg[p].retention = "permanent" THEN undone ELSE undone \cup {h}
    /\ todo' = IF p = Starter THEN todo \ {h} ELSE todo

\* add_file, first section
AddLook(p) ==
    LET h == arg[p].hash IN
    /\ pc[p] = "look"
    /\ \/ h \in file /\ Upsert(p, h) /\ Return(p)
       \/ /\ h \notin file
          /\ pc' = [pc EXCEPT ![p] = "place"]
          /\ UNCHANGED <<row, arg, todo, history>>
    /\ UNCHANGED <<up, file, cleaner, stop, calls, errors, ends>>

\* second section: the temporary file takes its place
AddPlace(p) ==
    LET h == arg[p].hash IN
    /\ pc[p] = "place"
    /\ file' = file \cup {h}
    /\ Upsert(p, h) /\ Return(p)
    /\ UNCHANGED <<up, cleaner, stop, calls, errors, ends>>

AddPlaceHalf(p) ==
    /\ pc[p] = "place" /\ calls + errors + ends < MaxEvents
    /\ errors' = errors + 1
    /\ file' = file \cup {arg[p].hash}
    /\ todo' = IF p = Starter THEN {} ELSE todo
    /\ Return(p)
    /\ UNCHANGED <<up, row, cleaner, stop, calls, ends, history>>

get_file_path(p) ==
    LET h == arg[p].hash IN
    /\ pc[p] = "get" /\ Return(p)
    /\ \/ /\ h \in file
          /\ row' = [row EXCEPT ![h] = [age |-> arg[p].lag,
                                        retention |-> IF HasRow(h) THEN row[h].retention
                                                      ELSE "expiring"]]
          /\ Used(p, h)
       \/ /\ h \notin file
          /\ row' = [row EXCEPT ![h] = NoRow]
          /\ UNCHANGED since
    /\ UNCHANGED <<up, file, todo, cleaner, stop, calls, errors, ends,
                   lasting, installed, undone>>

renew(p) ==
    LET h == arg[p].hash IN
    /\ pc[p] = "renew" /\ Return(p)
    /\ IF HasRow(h)
       THEN row' = [row EXCEPT ![h].age = arg[p].lag] /\ Used(p, h)
       ELSE UNCHANGED <<row, since>>
    /\ UNCHANGED <<up, file, todo, cleaner, stop, calls, errors, ends,
                   lasting, installed, undone>>

Removed(h) ==
    /\ file' = file \ {h}
    /\ lasting' = lasting \ {h} /\ undone' = undone \cup {h}

remove_file(p) ==
    LET h == arg[p].hash IN
    /\ pc[p] = "remove" /\ Return(p)
    /\ Removed(h)
    /\ row' = [row EXCEPT ![h] = NoRow]
    /\ UNCHANGED <<up, todo, cleaner, stop, calls, errors, ends, since, installed>>

remove_half(p) ==
    /\ pc[p] = "remove" /\ calls + errors + ends < MaxEvents /\ Return(p)
    /\ errors' = errors + 1
    /\ Removed(arg[p].hash)
    /\ UNCHANGED <<up, row, todo, cleaner, stop, calls, ends, since, installed>>

------------------------------------------------------------------------------
\* ensure_builtin_resources, one hash after the other

\* check_file_exists, which takes no lock
EnsureCheck(h) ==
    /\ up /\ pc[Starter] = "idle" /\ h \in todo
    /\ pc' = [pc EXCEPT ![Starter] = IF h \in file THEN "meta" ELSE "look"]
    /\ arg' = [arg EXCEPT ![Starter] = [hash |-> h, retention |-> "permanent", lag |-> 0]]
    /\ undone' = undone \ {h}
    /\ UNCHANGED <<up, file, row, todo, cleaner, stop, calls, errors, ends,
                   since, lasting, installed>>

\* Fault: a file that is there is left as it is.
AlreadyPermanent_exists(h) == TRUE

AlreadyPermanent(h) == Permanent(h)

EnsureMeta ==
    LET h == arg[Starter].hash IN
    /\ pc[Starter] = "meta"
    /\ IF AlreadyPermanent(h)
       THEN /\ Return(Starter)
            /\ todo' = todo \ {h} /\ installed' = installed \cup {h}
       ELSE /\ pc' = [pc EXCEPT ![Starter] = "look"]
            /\ arg' = [arg EXCEPT ![Starter].lag = 0]
            /\ UNCHANGED <<todo, installed>>
    /\ UNCHANGED <<up, file, row, cleaner, stop, calls, errors, ends,
                   since, lasting, undone>>

------------------------------------------------------------------------------
\* cleanup_once

CleanStart ==
    /\ up /\ cpc = "wait" /\ ~stop
    /\ cpc' = "scan" /\ lag' = 0
    /\ indexed' = {h \in Hashes : HasRow(h)} /\ unseen' = Hashes
    /\ UNCHANGED <<up, file, row, thread, todo, pending, passed, rows, stop,
                   calls, errors, ends, history>>

\* Fault: files without a row are not looked for.
Orphan_never(h) == FALSE

Orphan(h) == h \in file /\ h \notin indexed

\* The directories are read without the lock.
CleanScan(h) ==
    /\ cpc = "scan" /\ h \in unseen /\ Cardinality(pending) < Batch
    /\ unseen' = unseen \ {h}
    /\ pending' = IF Orphan(h) THEN pending \cup {h} ELSE pending
    /\ UNCHANGED <<up, file, row, thread, todo, cpc, lag, indexed, passed, rows,
                   stop, calls, errors, ends, history>>

\* INSERT OR IGNORE of what is still there
CleanFlush ==
    /\ cpc = "scan" /\ (unseen = {} \/ Cardinality(pending) >= Batch)
    /\ row' = [h \in Hashes |->
                 IF h \in pending \cap file /\ ~HasRow(h)
                 THEN [age |-> lag, retention |-> "expiring"] ELSE row[h]]
    /\ pending' = {}
    /\ IF unseen = {} THEN cpc' = "select" /\ indexed' = {}
                      ELSE UNCHANGED <<cpc, indexed>>
    /\ UNCHANGED <<up, file, thread, todo, lag, unseen, passed, rows,
                   stop, calls, errors, ends, history>>

\* use_time < cutoff, which is as old as the cleanup
Expired(h) == row[h].retention = "expiring" /\ row[h].age > Expire + lag

\* In the order of the rows, which is left open; a row made meanwhile is fresh.
CleanSelect ==
    LET expired == {h \in Hashes : Expired(h)} \ passed IN
    /\ cpc = "select"
    /\ \/ /\ expired # {}
          /\ \E S \in SUBSET expired :
                /\ Cardinality(S) = Batch \/ (S = expired /\ Cardinality(S) < Batch)
                /\ rows' = S /\ passed' = passed \cup S
          /\ cpc' = "items"
          /\ UNCHANGED lag
       \/ /\ expired = {}
          /\ cpc' = "wait" /\ lag' = 0 /\ passed' = {}
          /\ UNCHANGED rows
    /\ UNCHANGED <<up, file, row, thread, todo, indexed, unseen, pending, stop,
                   calls, errors, ends, history>>

\* Fault: what the select returned is not looked at again.
StillExpired_unchecked(h) == TRUE

StillExpired(h) == Expired(h)

\* After the last of a batch: on, or, closing, the end
NextRows(S) ==
    /\ rows' = S
    /\ cpc' = IF S # {} THEN "items" ELSE IF stop THEN "wait" ELSE "select"
    /\ IF S = {} /\ stop
       THEN lag' = 0 /\ passed' = {}
       ELSE UNCHANGED <<lag, passed>>

CleanItem(h) ==
    /\ cpc = "items" /\ h \in rows
    /\ NextRows(rows \ {h})
    /\ IF StillExpired(h)
       THEN file' = file \ {h} /\ row' = [row EXCEPT ![h] = NoRow]
       ELSE UNCHANGED <<file, row>>
    /\ UNCHANGED <<up, thread, todo, indexed, unseen, pending, stop, calls, errors, ends,
                   history>>

\* unlink raises: the next one
CleanItemFails(h) ==
    /\ cpc = "items" /\ h \in rows /\ StillExpired(h) /\ calls + errors + ends < MaxEvents
    /\ errors' = errors + 1
    /\ NextRows(rows \ {h})
    /\ UNCHANGED <<up, file, row, thread, todo, indexed, unseen, pending, stop, calls, ends,
                   history>>

\* The DELETE raises: _cleanup_loop logs it and waits for the next time.
CleanItemHalf(h) ==
    /\ cpc = "items" /\ h \in rows /\ StillExpired(h) /\ calls + errors + ends < MaxEvents
    /\ errors' = errors + 1
    /\ file' = file \ {h}
    /\ cpc' = "wait" /\ lag' = 0 /\ rows' = {} /\ passed' = {}
    /\ UNCHANGED <<up, row, thread, todo, indexed, unseen, pending, stop, calls, ends, history>>

------------------------------------------------------------------------------
\* Time, the end of the process and its next start

Older(a) == IF a < Old THEN a + 1 ELSE a

\* Nobody is more than MaxLag ticks under way.
Tick ==
    /\ \A p \in Threads : pc[p] # "idle" => arg[p].lag < MaxLag
    /\ cpc # "wait" => lag < MaxLag
    /\ row' = [h \in Hashes |-> IF HasRow(h) THEN [row[h] EXCEPT !.age = Older(@)] ELSE NoRow]
    /\ since' = [h \in Hashes |-> Older(since[h])]
    /\ arg' = [p \in Threads |-> IF pc[p] = "idle" THEN arg[p] ELSE [arg[p] EXCEPT !.lag = @ + 1]]
    /\ lag' = IF cpc = "wait" THEN 0 ELSE lag + 1
    /\ UNCHANGED <<up, file, pc, todo, cpc, indexed, unseen, pending, passed, rows,
                   stop, calls, errors, ends, lasting, installed, undone>>

\* close(): the cleanup is awaited and ends after its batch.
Close ==
    /\ up /\ ~stop /\ ends < MaxEnds
    /\ stop' = TRUE
    /\ UNCHANGED <<up, file, row, thread, todo, cleaner, calls, errors, ends, history>>

\* The end after close(), or anywhere else
End ==
    /\ up /\ ends < MaxEnds
    /\ ends' = ends + 1
    /\ up' = FALSE /\ stop' = FALSE /\ todo' = {}
    /\ pc' = [p \in Threads |-> "idle"] /\ arg' = [p \in Threads |-> NoArg]
    /\ cpc' = "wait" /\ lag' = 0
    /\ indexed' = {} /\ unseen' = {} /\ pending' = {} /\ passed' = {} /\ rows' = {}
    /\ installed' = {} /\ undone' = {}
    /\ UNCHANGED <<file, row, calls, errors, since, lasting>>

\* start_storage_runtime: the cleanup first, then the built-in files
Start ==
    /\ ~up /\ up' = TRUE
    /\ todo' = Builtin
    /\ UNCHANGED <<file, row, thread, cleaner, stop, calls, errors, ends, history>>

CallerStep(p) ==
    \/ \E h \in Hashes, r \in Retention : Call(p, "look", h, r)
    \/ \E h \in Hashes, op \in {"get", "renew", "remove"} : Call(p, op, h, "expiring")

ThreadStep(p) ==
    AddLook(p) \/ AddPlace(p) \/ AddPlaceHalf(p) \/ get_file_path(p) \/ renew(p)
    \/ remove_file(p) \/ remove_half(p)

EnsureStep == EnsureMeta \/ \E h \in Builtin : EnsureCheck(h)

CleanStep ==
    \/ CleanStart \/ CleanFlush \/ CleanSelect
    \/ \E h \in Hashes : CleanScan(h) \/ CleanItem(h) \/ CleanItemFails(h) \/ CleanItemHalf(h)

Next ==
    \/ \E p \in Procs : CallerStep(p)
    \/ \E p \in Threads : ThreadStep(p)
    \/ EnsureStep \/ CleanStep
    \/ Tick \/ Close \/ End \/ Start

\* Threads go on, time passes, the cleanup comes round, and a process that was
\* closed or has ended starts again.
Fairness ==
    /\ \A p \in Threads : WF_vars(ThreadStep(p))
    /\ WF_vars(EnsureStep) /\ WF_vars(CleanStep)
    /\ WF_vars(Tick) /\ WF_vars(Start) /\ WF_vars(stop /\ End)

Spec == Init /\ [][Next]_vars /\ Fairness

------------------------------------------------------------------------------
\* Properties

\* The cleanup deletes no file that was used within the period, the length of a
\* call apart, and none that was last added as permanent: whatever comes between
\* its select and its deletion, and whichever call waited for the lock longest.
UsedStays ==
    [][\A h \in file \ file' :
          \/ since[h] > Expire - MaxLag /\ h \notin lasting
          \/ \E p \in Procs : pc[p] = "remove" /\ pc'[p] = "idle" /\ arg[p].hash = h]_vars

\* A built-in file that the start has seen to is there and permanent, unless a
\* caller removed it or added the same bytes as expiring: the cleanup, which
\* starts first and may be deleting that file, and readers do not undo it.
BuiltinIsThere == \A h \in installed \ undone : h \in file /\ Permanent(h)

\* When callers have stopped, every file and row that is not permanent goes in
\* the end, after errors and ends of the process between a file and its row too.
SpaceIsFreed ==
    \A h \in Hashes : <>[](h \in file \/ HasRow(h) => Permanent(h))
=============================================================================
