----------------------------- MODULE AutoMapping -----------------------------
(***************************************************************************)
(* The persistent mapping of auto_mapping.py: a dictionary in memory, the  *)
(* changes not yet written (_dirty_data), and the SQLite table `entries'.  *)
(* Callers change the dictionary on any thread; a loop thread, flush,      *)
(* persist, the initiation and kill write the changes, one at a time under *)
(* _drain_lock, each with a copy it took before; the process may crash and *)
(* start again.                                                            *)
(*                                                                         *)
(* A value is the number of the change that made it, so that later values  *)
(* are larger.  A cell that is not live keeps the number of its deletion;  *)
(* the code keeps nothing there.                                           *)
(*                                                                         *)
(* Which keys are over age is left open: _drain_expire_handler may delete   *)
(* any.  early, lost, promised, wanted and redone are history: they guard   *)
(* nothing.                                                                *)
(***************************************************************************)
EXTENDS Naturals, FiniteSets

CONSTANTS Keys,
          MaxChanges,   \* bound: sets and deletions
          MaxErrors,    \* bound: drains that fail
          MaxStarts,    \* bound: starts of the process
          Legacy        \* keys of the JSON file of the old format beside the table

ASSUME AutoMappingAssumption ==
    /\ MaxChanges \in Nat
    /\ MaxErrors \in Nat
    /\ MaxStarts \in Nat \ {0}
    /\ Legacy \in SUBSET Keys

VARIABLES
    boot,      \* of this start: "load", "first", "mark", "done"
    life,      \* "open", "closing" (kill was called), "drained", "closed"
    mem,       \* _mapping
    dirty,     \* _dirty_data
    db,        \* the rows of `entries'
    marked,    \* the row migration_completed = '1'
    drainer,   \* who holds _drain_lock
    taken,     \* the drainer's copy of _dirty_data
    awake,     \* _persist_awake
    loop,      \* the persist loop: "wait" on the condition, or "due"
    flush,     \* a caller is in flush()
    changes, failures, starts,   \* counters of the bounds
    early,     \* keys written before the load, which then replaced the dictionary
    lost,      \* keys whose change a failed drain gave up
    promised,  \* per key, the change flush or kill said was written
    wanted,    \* per key, the change that flush or kill was asked for
    redone     \* the migration ran again over changes already written

caller == <<changes, flush>>
writer == <<drainer, taken, loop>>
table  == <<db, marked>>
mappingHistory == <<early, lost, promised, wanted, redone>>
mappingVars == <<boot, life, mem, dirty, table, writer, awake, caller,
          failures, starts, mappingHistory>>

------------------------------------------------------------------------------
\* Cells, pending changes
Ver == 0..MaxChanges
Cell == [ver : Ver, live : BOOLEAN]
NoCell == [ver |-> 0, live |-> FALSE]
Nothing == [op |-> "none", ver |-> 0]
Pend == [op : {"upsert", "touch", "delete"}, ver : Ver] \cup {Nothing}
Clean == [k \in Keys |-> Nothing]
Drainers == {"loop", "flush", "first", "kill"}

Running == boot # "load" /\ life # "closed"      \* _enable
Writes(e) == e.op \in {"upsert", "delete"}
Pending(k) == LET e == IF Writes(dirty[k]) THEN dirty[k] ELSE taken[k]
              IN  Writes(e) /\ e.ver = mem[k].ver
Later(a, b) == IF a >= b THEN a ELSE b

MappingTypeOK ==
    /\ boot \in {"load", "first", "mark", "done"}
    /\ life \in {"open", "closing", "drained", "closed"}
    /\ mem \in [Keys -> Cell] /\ db \in [Keys -> Cell]
    /\ dirty \in [Keys -> Pend] /\ taken \in [Keys -> Pend]
    /\ early \in SUBSET Keys /\ lost \in SUBSET Keys
    /\ marked \in BOOLEAN /\ awake \in BOOLEAN /\ redone \in BOOLEAN
    /\ drainer \in Drainers \cup {"nobody"}
    /\ loop \in {"wait", "due"}
    /\ flush \in BOOLEAN
    /\ changes \in Ver /\ failures \in 0..MaxErrors /\ starts \in 1..MaxStarts
    /\ promised \in [Keys -> Ver] /\ wanted \in [Keys -> Ver]

MappingInit ==
    /\ boot = "load" /\ life = "open"
    /\ mem = [k \in Keys |-> NoCell] /\ dirty = Clean
    /\ db = [k \in Keys |-> NoCell] /\ marked = FALSE
    /\ drainer = "nobody" /\ taken = Clean
    /\ awake = FALSE /\ loop = "wait"
    /\ flush = FALSE /\ changes = 0 /\ failures = 0 /\ starts = 1
    /\ early = {} /\ lost = {} /\ redone = FALSE
    /\ promised = [k \in Keys |-> 0] /\ wanted = [k \in Keys |-> 0]

------------------------------------------------------------------------------
\* Callers: nothing refuses them before the load or after kill.

Change(k, op, live) ==
    /\ changes < MaxChanges
    /\ changes' = changes + 1
    /\ mem' = [mem EXCEPT ![k] = [ver |-> changes + 1, live |-> live]]
    /\ dirty' = [dirty EXCEPT ![k] = [op |-> op, ver |-> changes + 1]]
    /\ early' = early \ {k}

\* Fault: a new value does not wake the loop.
set_item_silent(k) ==
    /\ Change(k, "upsert", TRUE)
    /\ UNCHANGED <<boot, life, table, writer, awake, flush, failures, starts,
                   lost, promised, wanted, redone>>

set_item(k) ==
    /\ Change(k, "upsert", TRUE)
    /\ awake' = TRUE
    /\ UNCHANGED <<boot, life, table, writer, flush, failures, starts,
                   lost, promised, wanted, redone>>

\* pop and remove end here too
delete_item(k) ==
    /\ mem[k].live
    /\ Change(k, "delete", FALSE)
    /\ awake' = TRUE
    /\ UNCHANGED <<boot, life, table, writer, flush, failures, starts,
                   lost, promised, wanted, redone>>

\* setdefault in the code: a pending upsert stays
MarkTouched(k) ==
    dirty' = IF dirty[k] = Nothing
             THEN [dirty EXCEPT ![k] = [op |-> "touch", ver |-> 0]]
             ELSE dirty

get(k) ==
    /\ mem[k].live
    /\ MarkTouched(k)
    /\ awake' = (awake \/ dirty[k] = Nothing)
    /\ UNCHANGED <<boot, life, mem, table, writer, caller, failures, starts, mappingHistory>>

\* The value again, under a new time
touch(k) ==
    /\ mem[k].live
    /\ dirty' = [dirty EXCEPT ![k] = [op |-> "upsert", ver |-> mem[k].ver]]
    /\ awake' = (awake \/ dirty[k] = Nothing)
    /\ UNCHANGED <<boot, life, mem, table, writer, caller, failures, starts, mappingHistory>>

------------------------------------------------------------------------------
\* _drain_dirty

\* The first section: under the data lock, copy and clear.
Take(d) ==
    /\ drainer = "nobody" /\ Running
    /\ dirty # Clean
    /\ drainer' = d /\ taken' = dirty /\ dirty' = Clean
    /\ UNCHANGED <<boot, life, mem, table, awake, loop, caller, failures, starts, mappingHistory>>

\* Fault: flush does not look at the answer of _drain_dirty.
SaysUnchecked(d, ok) == d \in {"flush", "kill"}

\* The caller goes on as if all was written.
Says(d, ok) == ok /\ d \in {"flush", "kill"}

\* What the caller of _drain_dirty does with its answer, or with an exception.
Goes(d, ok) ==
    /\ boot' = IF d = "first" /\ ok THEN "mark"
               ELSE IF d = "first" THEN "done" ELSE boot
    /\ flush' = (flush /\ d # "flush")
    /\ loop' = IF d = "loop" THEN "wait" ELSE loop
    /\ promised' = IF Says(d, ok)
                   THEN [k \in Keys |-> IF k \in lost THEN promised[k]
                                        ELSE Later(promised[k], wanted[k])]
                   ELSE promised
    /\ wanted' = IF d \in {"flush", "kill"} THEN [k \in Keys |-> 0] ELSE wanted

\* kill closes whatever the answer is; an exception keeps it from that.
Drained(d) == life' = IF d = "kill" THEN "drained" ELSE life
Raised(d) == life' = IF d = "kill" THEN "open" ELSE life

Asks(d) ==
    CASE d = "first"   -> boot = "first"
      [] d = "loop"    -> loop = "due"
      [] d = "flush"   -> flush
      [] d = "kill"    -> life = "closing"

\* Nothing to write
DrainNothing(d) ==
    /\ Asks(d) /\ drainer = "nobody" /\ Running /\ dirty = Clean
    /\ Goes(d, TRUE) /\ Drained(d)
    /\ UNCHANGED <<mem, dirty, table, drainer, taken, awake, changes,
                   failures, starts, early, lost, redone>>

DrainStart(d) == Asks(d) /\ Take(d)

Written(k) ==
    CASE taken[k].op = "upsert" -> [ver |-> taken[k].ver, live |-> TRUE]
      [] taken[k].op = "delete" -> [ver |-> taken[k].ver, live |-> FALSE]
      [] OTHER -> db[k]     \* an UPDATE of update_at, no row of which may exist

\* One transaction
DrainCommit ==
    /\ drainer # "nobody"
    /\ db' = [k \in Keys |-> Written(k)]
    /\ drainer' = "nobody" /\ taken' = Clean
    /\ lost' = {k \in lost : ~Writes(taken[k])}
    /\ Goes(drainer, TRUE) /\ Drained(drainer)
    /\ UNCHANGED <<mem, dirty, marked, awake, changes, failures, starts,
                   early, redone>>

\* Fault: a failed drain forgets its copy.
RestoredNothing(k) == dirty[k]

\* What comes back after a failure: newer entries win, a touch too.
Restored(k) == IF dirty[k] = Nothing THEN taken[k] ELSE dirty[k]

\* A value that cannot be encoded, or an error of SQLite
DrainFail ==
    /\ drainer # "nobody" /\ failures < MaxErrors
    /\ failures' = failures + 1
    /\ dirty' = [k \in Keys |-> Restored(k)]
    /\ lost' = lost \cup {k \in Keys : Writes(taken[k]) /\ dirty[k].op = "touch"}
    /\ drainer' = "nobody" /\ taken' = Clean
    /\ Goes(drainer, FALSE) /\ Drained(drainer)
    /\ UNCHANGED <<mem, table, awake, changes, starts, early, redone>>

\* Any other exception of the transaction: the copy is gone with its changes.
DrainRaise ==
    /\ drainer # "nobody" /\ failures < MaxErrors
    /\ failures' = failures + 1
    /\ lost' = lost \cup {k \in Keys : Writes(taken[k])}
    /\ drainer' = "nobody" /\ taken' = Clean
    /\ Goes(drainer, FALSE) /\ Raised(drainer)
    /\ UNCHANGED <<mem, dirty, table, awake, changes, starts, early, redone>>

------------------------------------------------------------------------------
\* The persist loop, the TTL and flush

\* Both waits: for a change, and for the period to pass
LoopWake ==
    /\ boot # "load" /\ life # "closed"
    /\ drainer # "loop" /\ awake
    /\ awake' = FALSE /\ loop' = "due"
    /\ UNCHANGED <<boot, life, mem, dirty, table, drainer, taken, caller, failures, starts, mappingHistory>>

\* _drain_expire_handler, for one key: under the data lock
ExpireKey(k) == Running /\ delete_item(k)

\* flush, flush_async; persist is the same with nobody there for the answer
CallFlush ==
    /\ Running /\ ~flush /\ life = "open"
    /\ flush' = TRUE
    /\ wanted' = [k \in Keys |-> mem[k].ver]
    /\ UNCHANGED <<boot, life, mem, dirty, table, writer, awake, changes,
                   failures, starts, early, lost, promised, redone>>

------------------------------------------------------------------------------
\* Start, shutdown, crash

\* _initiate up to the start of the loop: callers may have written before.
Initiate ==
    LET migrate == ~marked /\ Legacy # {} IN
    /\ boot = "load" /\ boot' = "first"
    /\ mem' = IF migrate
              THEN [k \in Keys |-> [ver |-> 0, live |-> k \in Legacy]] ELSE db
    /\ dirty' = IF migrate
                THEN [k \in Keys |-> IF k \in Legacy THEN [op |-> "upsert", ver |-> 0]
                                     ELSE Nothing]
                ELSE dirty
    /\ db' = IF migrate THEN [k \in Keys |-> NoCell] ELSE db
    /\ redone' = (redone \/ (migrate /\ \E k \in Keys : db[k].ver > 0))
    /\ early' = IF migrate THEN {} ELSE {k \in Keys : dirty[k] # Nothing}
    /\ UNCHANGED <<life, marked, writer, awake, caller, failures, starts,
                   lost, promised, wanted>>

\* The second half of _first_persist, a transaction of its own
Mark ==
    /\ boot = "mark" /\ boot' = "done"
    /\ marked' = TRUE
    /\ UNCHANGED <<life, mem, dirty, db, writer, awake, caller, failures,
                   starts, mappingHistory>>

\* One promise at a time: kill does not race a flush here.
CallKill ==
    /\ boot # "load" /\ life = "open" /\ ~flush
    /\ life' = "closing"
    /\ wanted' = [k \in Keys |-> mem[k].ver]
    /\ UNCHANGED <<boot, mem, dirty, table, writer, awake, caller, failures,
                   starts, early, lost, promised, redone>>

\* _enable = False, once nobody drains; the loop thread is joined
CloseMapping ==
    /\ life = "drained" /\ drainer # "loop"
    /\ life' = "closed" /\ awake' = TRUE /\ loop' = "wait"
    /\ UNCHANGED <<boot, mem, dirty, table, drainer, taken, caller, failures, starts, mappingHistory>>

\* The process ends, by a crash anywhere or after kill, and starts again.
Restart ==
    /\ starts < MaxStarts
    /\ starts' = starts + 1
    /\ boot' = "load" /\ life' = "open"
    /\ mem' = [k \in Keys |-> NoCell] /\ dirty' = Clean
    /\ drainer' = "nobody" /\ taken' = Clean /\ awake' = FALSE /\ loop' = "wait"
    /\ flush' = FALSE /\ early' = {} /\ lost' = {}
    /\ wanted' = [k \in Keys |-> 0]
    /\ UNCHANGED <<table, changes, failures, promised, redone>>

MappingNext ==
    \/ \E k \in Keys : set_item(k) \/ delete_item(k) \/ get(k) \/ touch(k) \/ ExpireKey(k)
    \/ \E d \in Drainers : DrainNothing(d) \/ DrainStart(d)
    \/ DrainCommit \/ DrainFail \/ DrainRaise
    \/ LoopWake \/ CallFlush
    \/ Initiate \/ Mark \/ CallKill \/ CloseMapping \/ Restart

\* The loop thread, the executor's threads and the database go on.
MappingFairness ==
    /\ WF_mappingVars(Initiate) /\ WF_mappingVars(Mark) /\ WF_mappingVars(LoopWake)
    /\ WF_mappingVars(DrainCommit)
    /\ SF_mappingVars(DrainStart("loop"))

MappingSpec == MappingInit /\ [][MappingNext]_mappingVars /\ MappingFairness

------------------------------------------------------------------------------
\* Properties

\* A key whose row differs from the dictionary is on its way to the table: its
\* change is in _dirty_data or in the copy of the drainer.  It is not where a
\* caller wrote before the load, where a drain failed after a read had put a
\* touch in place of the change (auto_mapping.py:535, :918), and where a drain
\* failed by an exception that is not of SQLite (:913), until the key is
\* written again.
DifferenceIsPending ==
    boot = "load" \/ \A k \in Keys : mem[k] = db[k] \/ Pending(k) \/ k \in early \cup lost

\* What flush or kill said was written stays written, through later failures,
\* crashes and starts, unless the migration from JSON runs a second time.  A
\* change that a failed drain gave up does not count: the next flush finds
\* nothing to write and says that it is written all the same.
PromiseIsKept ==
    redone \/ \A k \in Keys : promised[k] <= db[k].ver

\* A change reaches the table without another call, unless a drain fails, the
\* mapping is closed or the process ends: no wake-up of the loop is lost.
ChangesAreSaved ==
    \A k \in Keys, v \in 1..MaxChanges :
        (boot = "done" /\ life = "open" /\ mem[k].ver = v)
            ~> (db[k].ver >= v \/ failures > 0 \/ life # "open" \/ boot # "done")
=============================================================================
