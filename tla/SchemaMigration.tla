---------------------------- MODULE SchemaMigration ----------------------------
(***************************************************************************)
(* The upgrade of the memory's data at start, of memory/services/           *)
(* migration_service.py and memory/storage.py: a copy of the live data is  *)
(* taken through the chain of steps in a workspace, then it takes the      *)
(* place of the live data, one item after the other.  The process may end  *)
(* anywhere, and start again with what is on disk.                         *)
(*                                                                         *)
(* Data are seven items, in the order in which they are switched: the files *)
(* of records; the directories of buckets; state.json and the indexes       *)
(* beside it; the bucket tree; the SQLite index, which takes the place of   *)
(* these two in version 4; schema_version.json; and bucket_mapping.json,    *)
(* the titles before version 3.                                            *)
(***************************************************************************)
EXTENDS Naturals

CONSTANTS MaxFaults   \* bound: exceptions, interrupts and crashes

ASSUME SchemaMigrationAssumption == MaxFaults \in Nat

VARIABLES
    live,      \* the data of the memory
    backup,    \* pre_upgrade_latest
    workspace, rollback,   \* of the run under way, in its directory run_root
    left,      \* the rollbacks in directories of runs that crashed
    lock,      \* migration.lock: "free", "held" by this run, "stale" of a crashed one
    journal,   \* status in migration_journal.json
    pc,        \* where the start is
    n,         \* item that is switched or restored
    faults,    \* counter of the bound
    before,     \* history: the data this start found
    halfway,    \* history: a run gave up in the middle of a switch and cleaned up
    torn,       \* history: a crash while a failed switch was put back
    unconfirmed \* history: the lock of a crashed run was removed by a start

run == <<workspace, rollback, n>>
history == <<before, halfway, torn, unconfirmed>>
vars == <<live, backup, run, left, lock, journal, pc, faults, history>>

------------------------------------------------------------------------------
\* Data

Items == <<"memories", "buckets", "state", "tree", "sqlite", "version", "mapping">>
Item == {"memories", "buckets", "state", "tree", "sqlite", "version", "mapping"}
Last == 7
Version == {"v1", "v2", "v3", "v4"}

\* "damaged": there, without what it should have.  A tree is "plain" before
\* version 3 and "titled" with its titles.
Content == {"gone", "whole", "damaged", "plain", "titled"} \cup Version
Data == [Item -> Content]
Nothing == [i \in Item |-> "gone"]

\* What the program has written: nothing is missing, and the version fits.
Whole(d) ==
    /\ d["memories"] = "whole" /\ d["buckets"] = "whole"
    /\ IF d["sqlite"] = "gone"
       THEN /\ d["state"] = "whole"
            /\ \/ d["tree"] = "plain" /\ d["version"] \in {"gone", "v1", "v2"} /\ d["mapping"] = "whole"
               \/ d["tree"] = "titled" /\ d["version"] = "v3" /\ d["mapping"] = "gone"
       ELSE d["sqlite"] = "whole" /\ d["version"] = "v4"

TypeOK ==
    /\ live \in Data /\ backup \in Data /\ workspace \in Data /\ rollback \in Data
    /\ before \in Data /\ left \in SUBSET Data
    /\ lock \in {"free", "held", "stale"}
    /\ journal \in {"none", "running", "failed", "success"}
    /\ pc \in {"off", "open", "backup", "clone", "steps", "switch", "gap", "restore",
               "regap", "finish", "refused", "ready"}
    /\ n \in 1..Last /\ faults \in 0..MaxFaults
    /\ halfway \in BOOLEAN /\ torn \in BOOLEAN /\ unconfirmed \in BOOLEAN

Legacy(version) ==
    LET titled == version = "v3"
    IN  [Nothing EXCEPT !["memories"] = "whole", !["buckets"] = "whole", !["state"] = "whole",
                        !["tree"] = IF titled THEN "titled" ELSE "plain",
                        !["version"] = version,
                        !["mapping"] = IF titled THEN "gone" ELSE "whole"]

\* Data of an earlier version; the first did not write its version.
Init ==
    /\ live \in {Legacy(v) : v \in {"gone", "v1", "v2", "v3"}}
    /\ backup = Nothing /\ workspace = Nothing /\ rollback = Nothing /\ left = {}
    /\ lock = "free" /\ journal = "none" /\ pc = "off" /\ n = 1 /\ faults = 0
    /\ before = live /\ halfway = FALSE /\ torn = FALSE /\ unconfirmed = FALSE

------------------------------------------------------------------------------
\* Opening data: MemoryStorageV3()

\* activate_v4
Disagrees(d) == d["sqlite"] # "gone" /\ d["version"] \notin {"gone", "v4"}

\* Without data an empty index; without an index that of an empty memory
Opened(d) ==
    IF d["sqlite"] # "gone" THEN d
    ELSE IF \A i \in {"memories", "buckets", "state", "tree", "version"} : d[i] = "gone"
         THEN [d EXCEPT !["sqlite"] = "damaged", !["version"] = "v4"]
         ELSE [d EXCEPT !["state"] = IF @ = "gone" THEN "damaged" ELSE @,
                        !["tree"] = IF @ = "gone" THEN "damaged" ELSE @]

\* read_schema_version: without the file it is 1.
Read(d) == IF d["version"] = "gone" THEN "v1" ELSE d["version"]

Open ==
    /\ pc \in {"off", "refused"}
    /\ before' = live
    /\ IF Disagrees(live)
       THEN pc' = "refused" /\ UNCHANGED live
       ELSE pc' = "open" /\ live' = Opened(live)
    /\ UNCHANGED <<backup, run, left, lock, journal, faults, halfway, torn, unconfirmed>>

\* The data are of this version.
UpToDate ==
    /\ pc = "open" /\ Read(live) = "v4"
    /\ pc' = "ready"
    /\ UNCHANGED <<live, backup, run, left, lock, journal, faults, history>>

------------------------------------------------------------------------------
\* The lock

\* What except and finally do: the journal, the lock whoever made it, the
\* directory of the run.
GiveUp ==
    /\ journal' = "failed" /\ lock' = "free" /\ pc' = "refused"
    /\ workspace' = Nothing /\ rollback' = Nothing /\ n' = 1

\* Fault: the file of the lock is opened whether it exists or not.
Blocked_never == FALSE

\* os.O_CREAT | os.O_EXCL
Blocked == lock = "stale"

Acquire ==
    /\ pc = "open" /\ Read(live) # "v4" /\ ~Blocked
    /\ lock' = "held" /\ journal' = "running" /\ pc' = "backup"
    /\ UNCHANGED <<live, backup, run, left, faults, history>>

LockExists ==
    /\ pc = "open" /\ Read(live) # "v4" /\ Blocked
    /\ GiveUp
    /\ unconfirmed' = TRUE
    /\ UNCHANGED <<live, backup, left, faults, before, halfway, torn>>

------------------------------------------------------------------------------
\* Backup, workspace and steps

\* clone_live_dataset(pre_backup_dir): what was there goes first.
BackupDelete ==
    /\ pc = "backup" /\ pc' = "clone"
    /\ backup' = Nothing
    /\ UNCHANGED <<live, run, left, lock, journal, faults, history>>

Clone ==
    /\ pc = "clone" /\ pc' = "steps"
    /\ backup' = live
    /\ workspace' = [Opened(live) EXCEPT !["version"] = Read(live)]
    /\ UNCHANGED <<live, rollback, n, left, lock, journal, faults, history>>

\* What each step refuses: the second writes the tree as a file, the third
\* looks for the latest revision of each record.
Refuses(d) ==
    \/ d["version"] = "v2" /\ d["sqlite"] # "gone"
    \/ d["version"] = "v3" /\ d["state"] = "whole" /\ d["memories"] = "gone"

\* The titles come from the old mapping, whatever the tree has.
Titled(d) ==
    IF d["tree"] = "plain" /\ d["mapping"] = "whole" THEN "titled" ELSE "damaged"

Imported(d) ==
    IF d["state"] = "whole" /\ d["tree"] = "titled" THEN "whole" ELSE "damaged"

\* The first step patches records and tree where they are.
Applied(d) ==
    IF d["version"] = "v1" THEN [d EXCEPT !["version"] = "v2"]
    ELSE IF d["version"] = "v2"
    THEN [d EXCEPT !["tree"] = Titled(d), !["mapping"] = "gone", !["version"] = "v3"]
    ELSE [d EXCEPT !["sqlite"] = Imported(d), !["state"] = "gone", !["tree"] = "gone",
                   !["version"] = "v4"]

Step ==
    /\ pc = "steps" /\ workspace["version"] # "v4" /\ ~Refuses(workspace)
    /\ workspace' = Applied(workspace)
    /\ UNCHANGED <<live, backup, rollback, n, left, lock, journal, pc, faults, history>>

StepRefused ==
    /\ pc = "steps" /\ Refuses(workspace)
    /\ GiveUp
    /\ UNCHANGED <<live, backup, left, faults, history>>

\* Any other exception on the way to the switch
RunFails ==
    /\ pc \in {"backup", "clone", "steps"} /\ faults < MaxFaults
    /\ faults' = faults + 1
    /\ GiveUp
    /\ UNCHANGED <<live, backup, left, history>>

------------------------------------------------------------------------------
\* The switch: replace_live_dataset_from_workspace

\* Fault: the switch begins without a rollback.
Kept_nothing(d) == Nothing

Kept(d) == d

SwitchStart ==
    /\ pc = "steps" /\ workspace["version"] = "v4"
    /\ rollback' = Kept(live)
    /\ pc' = "switch" /\ n' = 1
    /\ UNCHANGED <<live, backup, workspace, left, lock, journal, faults, history>>

SwitchDelete ==
    /\ pc = "switch" /\ pc' = "gap"
    /\ live' = [live EXCEPT ![Items[n]] = "gone"]
    /\ UNCHANGED <<backup, run, left, lock, journal, faults, history>>

SwitchMove ==
    /\ pc = "gap"
    /\ live' = [live EXCEPT ![Items[n]] = workspace[Items[n]]]
    /\ workspace' = [workspace EXCEPT ![Items[n]] = "gone"]
    /\ IF n = Last THEN pc' = "finish" /\ UNCHANGED n ELSE pc' = "switch" /\ n' = n + 1
    /\ UNCHANGED <<backup, rollback, left, lock, journal, faults, history>>

\* A file that cannot be deleted or moved
SwitchFails ==
    /\ pc \in {"switch", "gap"} /\ faults < MaxFaults
    /\ faults' = faults + 1
    /\ pc' = "restore" /\ n' = 1
    /\ UNCHANGED <<live, backup, workspace, rollback, left, lock, journal, history>>

\* _restore_live_dataset_from_snapshot
RestoreDelete ==
    /\ pc = "restore" /\ pc' = "regap"
    /\ live' = [live EXCEPT ![Items[n]] = "gone"]
    /\ UNCHANGED <<backup, run, left, lock, journal, faults, history>>

\* Fault: the items that had not been switched are not put back.
Restored_first(i) == IF i = "memories" THEN rollback[i] ELSE "gone"

Restored(i) == rollback[i]

RestoreCopy ==
    /\ pc = "regap"
    /\ live' = [live EXCEPT ![Items[n]] = Restored(Items[n])]
    /\ IF n = Last
       THEN GiveUp
       ELSE pc' = "restore" /\ n' = n + 1 /\ UNCHANGED <<workspace, rollback, lock, journal>>
    /\ UNCHANGED <<backup, left, faults, history>>

\* The same file cannot be put back either; the rollback is deleted all the same.
RestoreFails ==
    /\ pc \in {"restore", "regap"} /\ faults < MaxFaults
    /\ faults' = faults + 1
    /\ GiveUp
    /\ halfway' = TRUE
    /\ UNCHANGED <<live, backup, left, before, torn, unconfirmed>>

------------------------------------------------------------------------------
\* The end of a run

Finish ==
    /\ pc = "finish" /\ pc' = "ready"
    /\ live' = [live EXCEPT !["version"] = "v4"]
    /\ journal' = "success" /\ lock' = "free"
    /\ workspace' = Nothing /\ rollback' = Nothing /\ n' = 1
    /\ UNCHANGED <<backup, left, faults, history>>

\* The database cannot be opened, or a file not be written, after the switch.
FinishFails ==
    /\ pc = "finish" /\ faults < MaxFaults
    /\ faults' = faults + 1
    /\ GiveUp
    /\ UNCHANGED <<live, backup, left, history>>

\* KeyboardInterrupt and SystemExit pass every except; finally cleans up.
Interrupt ==
    /\ pc \notin {"off", "open", "refused", "ready"} /\ faults < MaxFaults
    /\ faults' = faults + 1
    /\ lock' = "free" /\ pc' = "off"
    /\ workspace' = Nothing /\ rollback' = Nothing /\ n' = 1
    /\ halfway' = (halfway \/ pc \in {"switch", "gap", "restore", "regap"})
    /\ UNCHANGED <<live, backup, left, journal, before, torn, unconfirmed>>

Crash ==
    /\ pc \notin {"off", "open", "refused", "ready"} /\ faults < MaxFaults
    /\ faults' = faults + 1
    /\ lock' = "stale" /\ pc' = "off"
    /\ left' = left \cup {rollback}
    /\ torn' = (torn \/ pc \in {"restore", "regap"})
    /\ workspace' = Nothing /\ rollback' = Nothing /\ n' = 1
    /\ UNCHANGED <<live, backup, journal, before, halfway, unconfirmed>>

Stop ==
    /\ pc = "ready" /\ pc' = "off"
    /\ UNCHANGED <<live, backup, run, left, lock, journal, faults, history>>

Next ==
    \/ Open \/ UpToDate \/ Acquire \/ LockExists
    \/ BackupDelete \/ Clone \/ Step \/ StepRefused \/ RunFails
    \/ SwitchStart \/ SwitchDelete \/ SwitchMove \/ SwitchFails
    \/ RestoreDelete \/ RestoreCopy \/ RestoreFails
    \/ Finish \/ FinishFails \/ Interrupt \/ Crash \/ Stop

Spec == Init /\ [][Next]_vars

------------------------------------------------------------------------------
\* Properties

\* A memory that starts, or whose journal says the upgrade succeeded, has all it
\* had: no upgrade works on what an interrupted one left, unless a start removed
\* the lock that was to prevent it, a run cleaned up in the middle of a switch,
\* or the process ended while a switch that had failed was put back.
ReadyIsWhole ==
    pc = "ready" \/ journal = "success"
        => (Whole(live) /\ live["version"] = "v4") \/ unconfirmed \/ halfway \/ torn

\* Whatever fails, and wherever the process ends, all the data are somewhere on
\* disk, those of one version together: live, in the backup, or in the directory
\* of a run.  Apart from a run that cleaned up in the middle of a switch.
DataSurvive ==
    \/ halfway \/ Whole(live) \/ Whole(backup) \/ Whole(rollback)
    \/ \E d \in left : Whole(d)

\* A start that is refused leaves data it found whole as they can be used: each
\* step and each item of the switch may fail, the switch as a whole has
\* happened or not.
FailureIsHarmless == pc = "refused" /\ Whole(before) => Whole(live) \/ halfway
=============================================================================
