------------------------- MODULE SchemaMigrationProofs -------------------------
(***************************************************************************)
(* What SchemaMigration keeps, however many faults come: the types, that   *)
(* the data survive, that a memory that starts has all of them, and that a *)
(* refused start does no harm.                                             *)
(*                                                                         *)
(* All three rest on one predicate, Good: where the whole data are at each *)
(* place of a run.  They differ in what they say of runs that were cut off *)
(* while it did not hold.                                                  *)
(***************************************************************************)
EXTENDS SchemaMigration, TLAPS

Idle == {"off", "open", "refused", "ready"}
Switching == {"switch", "gap"}
Restoring == {"restore", "regap"}

\* Whole, and still of an earlier version
Old(d) == Whole(d) /\ d["sqlite"] = "gone"

\* What the chain of steps makes of old data, on its way and in the end
Stage(d) ==
    /\ d["memories"] = "whole" /\ d["buckets"] = "whole"
    /\ \/ d["version"] \in {"v1", "v2"} /\ d["state"] = "whole" /\ d["tree"] = "plain"
          /\ d["sqlite"] = "gone" /\ d["mapping"] = "whole"
       \/ d["version"] = "v3" /\ d["state"] = "whole" /\ d["tree"] = "titled"
          /\ d["sqlite"] = "gone" /\ d["mapping"] = "gone"
       \/ d["version"] = "v4" /\ d["state"] = "gone" /\ d["tree"] = "gone"
          /\ d["sqlite"] = "whole" /\ d["mapping"] = "gone"

Final(i) ==
    IF i \in {"memories", "buckets", "sqlite"} THEN "whole"
    ELSE IF i = "version" THEN "v4" ELSE "gone"

\* Half switched: the items before n are new, those after it old.
Halves ==
    /\ \A k \in 1..Last : k < n => live[Items[k]] = Final(Items[k])
    /\ \A k \in 1..Last : k >= n => workspace[Items[k]] = Final(Items[k])
    /\ \A k \in 1..Last : k > n \/ (k = n /\ pc = "switch") => live[Items[k]] = rollback[Items[k]]

Good ==
    /\ pc \in {"off", "open", "refused"} => Whole(live)
    /\ pc = "ready" => Whole(live) /\ live["version"] = "v4"
    /\ pc \in {"backup", "clone", "steps"} => Old(live)
    /\ pc = "steps" => Stage(workspace)
    /\ pc \in Switching => Old(rollback) /\ Halves
    /\ pc \in Restoring => Old(rollback) /\ \A k \in 1..Last : k < n => live[Items[k]] = rollback[Items[k]]
    /\ pc = "finish" => Whole(live) /\ live["version"] = "v4"

\* What a run has written of itself
RunOK == pc \notin Idle => journal = "running" /\ lock = "held"

JournalOK == journal = "success" => pc \in Idle /\ live["version"] = "v4"

\* Half switched data, which the lock and their version keep from being used
Held ==
    /\ lock = "stale" /\ pc \in {"off", "open", "refused"} /\ journal # "success"
    /\ live["version"] # "v4"
    /\ live["memories"] # "gone" \/ live["buckets"] # "gone"

\* The steps after which whole data may be nowhere but in a directory
CutOff == Crash \/ Interrupt \/ RestoreFails

Quiet ==
    \/ Open \/ UpToDate \/ Acquire \/ LockExists
    \/ BackupDelete \/ Clone \/ Step \/ StepRefused \/ RunFails
    \/ SwitchStart \/ SwitchDelete \/ SwitchMove \/ SwitchFails
    \/ RestoreDelete \/ RestoreCopy \/ Finish \/ FinishFails \/ Stop

USE SchemaMigrationAssumption
USE DEF run, history, Last

------------------------------------------------------------------------------
\* The items

LEMMA ItemsAre ==
  /\ Items[1] = "memories" /\ Items[2] = "buckets" /\ Items[3] = "state" /\ Items[4] = "tree"
  /\ Items[5] = "sqlite" /\ Items[6] = "version" /\ Items[7] = "mapping"
BY DEF Items

LEMMA ItemsOK ==
  /\ \A k \in 1..Last : Items[k] \in Item
  /\ \A i \in Item : \E k \in 1..Last : Items[k] = i
  /\ \A j, k \in 1..Last : Items[j] = Items[k] => j = k
<1>1. \A k \in 1..Last : k = 1 \/ k = 2 \/ k = 3 \/ k = 4 \/ k = 5 \/ k = 6 \/ k = 7
  OBVIOUS
<1>2. \A k \in 1..Last : Items[k] \in Item
  BY <1>1, ItemsAre DEF Item
<1>3. \A i \in Item : \E k \in 1..Last : Items[k] = i
  BY ItemsAre DEF Item
<1>4. \A j, k \in 1..Last : Items[j] = Items[k] => j = k
  BY <1>1, ItemsAre
<1> QED
  BY <1>2, <1>3, <1>4

------------------------------------------------------------------------------
\* Every variable keeps its type.

LEMMA DataOK ==
  /\ Nothing \in Data
  /\ \A d \in Data : Opened(d) \in Data /\ Applied(d) \in Data /\ Read(d) \in Content
<1>1. Nothing \in Data
  BY DEF Data, Nothing, Content
<1>2. ASSUME NEW d \in Data PROVE Read(d) \in Content /\ Opened(d) \in Data
  BY <1>2 DEF Data, Opened, Read, Content, Version, Item
<1>3. ASSUME NEW d \in Data PROVE Applied(d) \in Data
  <2>1. Titled(d) \in Content /\ Imported(d) \in Content
    BY DEF Titled, Imported, Content
  <2>2. {"gone", "v2", "v3", "v4"} \subseteq Content
    BY DEF Content, Version
  <2>3. \A i \in Item, c \in Content : [d EXCEPT ![i] = c] \in Data
    BY <1>3 DEF Data
  <2>4. CASE d["version"] = "v1"
    BY <2>2, <2>3, <2>4 DEF Applied, Item
  <2>5. CASE d["version"] = "v2"
    BY <1>3, <2>1, <2>2, <2>5 DEF Applied, Item, Data
  <2>6. CASE d["version"] \notin {"v1", "v2"}
    BY <1>3, <2>1, <2>2, <2>6 DEF Applied, Item, Data
  <2> QED
    BY <2>4, <2>5, <2>6
<1> QED
  BY <1>1, <1>2, <1>3

LEMMA TypeInit == Init => TypeOK
<1> SUFFICES ASSUME Init PROVE TypeOK
  OBVIOUS
<1>1. \A v \in {"gone", "v1", "v2", "v3"} : Legacy(v) \in Data
  BY DataOK DEF Legacy, Data, Item, Content, Version
<1>2. live \in Data /\ before \in Data
  BY <1>1 DEF Init
<1>3. backup \in Data /\ workspace \in Data /\ rollback \in Data
  BY DataOK DEF Init
<1>4. left \in SUBSET Data /\ n \in 1..Last /\ faults \in 0..MaxFaults
  BY DEF Init
<1>5. /\ lock \in {"free", "held", "stale"}
      /\ journal \in {"none", "running", "failed", "success"} /\ pc = "off"
      /\ halfway \in BOOLEAN /\ torn \in BOOLEAN /\ unconfirmed \in BOOLEAN
  BY DEF Init
<1> QED
  BY <1>2, <1>3, <1>4, <1>5 DEF TypeOK

LEMMA GiveUpTypes ==
  ASSUME GiveUp
  PROVE  /\ workspace' \in Data /\ rollback' \in Data
         /\ lock' \in {"free", "held", "stale"}
         /\ journal' \in {"none", "running", "failed", "success"}
         /\ pc' = "refused" /\ n' = 1
BY DataOK DEF GiveUp

LEMMA TypeStep == TypeOK /\ [Next]_vars => TypeOK'
<1> SUFFICES ASSUME TypeOK, [Next]_vars PROVE TypeOK'
  OBVIOUS
<1>a. \A d \in Data, i \in Item, c \in Content : [d EXCEPT ![i] = c] \in Data
  BY DEF Data
<1>b. \A d \in Data, i \in Item : d[i] \in Content
  BY DEF Data
<1>c. "gone" \in Content /\ "v4" \in Content /\ "version" \in Item
  BY DEF Content, Version, Item
<1>d. Items[n] \in Item
  BY ItemsOK DEF TypeOK
<1>1. CASE Open
  BY <1>1, DataOK DEF Open, TypeOK
<1>2. CASE UpToDate
  BY <1>2 DEF UpToDate, TypeOK
<1>3. CASE Acquire
  BY <1>3 DEF Acquire, TypeOK
<1>4. CASE LockExists
  BY <1>4, GiveUpTypes DEF LockExists, TypeOK
<1>5. CASE BackupDelete
  BY <1>5, DataOK DEF BackupDelete, TypeOK
<1>6. CASE Clone
  <2>1. workspace' \in Data
    BY <1>6, <1>a, <1>c, DataOK DEF Clone, TypeOK
  <2> QED
    BY <1>6, <2>1 DEF Clone, TypeOK
<1>7. CASE Step
  BY <1>7, DataOK DEF Step, TypeOK
<1>8. CASE StepRefused
  BY <1>8, GiveUpTypes DEF StepRefused, TypeOK
<1>9. CASE RunFails
  BY <1>9, GiveUpTypes DEF RunFails, TypeOK
<1>10. CASE SwitchStart
  BY <1>10 DEF SwitchStart, Kept, TypeOK
<1>11. CASE SwitchDelete
  <2>1. live' \in Data
    BY <1>11, <1>a, <1>c, <1>d DEF SwitchDelete, TypeOK
  <2> QED
    BY <1>11, <2>1 DEF SwitchDelete, TypeOK
<1>12. CASE SwitchMove
  <2>1. live' \in Data /\ workspace' \in Data
    BY <1>12, <1>a, <1>b, <1>c, <1>d DEF SwitchMove, TypeOK
  <2> QED
    BY <1>12, <2>1 DEF SwitchMove, TypeOK
<1>13. CASE SwitchFails
  BY <1>13 DEF SwitchFails, TypeOK
<1>14. CASE RestoreDelete
  <2>1. live' \in Data
    BY <1>14, <1>a, <1>c, <1>d DEF RestoreDelete, TypeOK
  <2> QED
    BY <1>14, <2>1 DEF RestoreDelete, TypeOK
<1>15. CASE RestoreCopy
  <2>1. live' \in Data
    BY <1>15, <1>a, <1>b, <1>d DEF RestoreCopy, Restored, TypeOK
  <2> QED
    BY <1>15, <2>1, GiveUpTypes DEF RestoreCopy, TypeOK
<1>16. CASE RestoreFails
  BY <1>16, GiveUpTypes DEF RestoreFails, TypeOK
<1>17. CASE Finish
  <2>1. live' \in Data
    BY <1>17, <1>a, <1>c DEF Finish, TypeOK
  <2> QED
    BY <1>17, <2>1, DataOK DEF Finish, TypeOK
<1>18. CASE FinishFails
  BY <1>18, GiveUpTypes DEF FinishFails, TypeOK
<1>19. CASE Interrupt
  BY <1>19, DataOK DEF Interrupt, TypeOK
<1>20. CASE Crash
  BY <1>20, DataOK DEF Crash, TypeOK
<1>21. CASE Stop
  BY <1>21 DEF Stop, TypeOK
<1>22. CASE UNCHANGED vars
  BY <1>22 DEF vars, TypeOK
<1> QED
  BY <1>1, <1>2, <1>3, <1>4, <1>5, <1>6, <1>7, <1>8, <1>9, <1>10, <1>11, <1>12, <1>13,
     <1>14, <1>15, <1>16, <1>17, <1>18, <1>19, <1>20, <1>21, <1>22 DEF Next

\* The values keep their types, whatever comes.
THEOREM TypeCorrect == Spec => []TypeOK
BY TypeInit, TypeStep, PTL DEF Spec

------------------------------------------------------------------------------
\* Where the whole data are

LEMMA WholeOpens ==
  ASSUME NEW d \in Data, Whole(d)
  PROVE  Opened(d) = d /\ ~Disagrees(d) /\ (Read(d) # "v4" => Old(d))
<1>1. Opened(d) = d
  BY DEF Opened, Whole, Data
<1> QED
  BY <1>1 DEF Disagrees, Read, Old, Whole

\* The steps take old data to the new version, and refuse none on the way.
LEMMA StagesFollow ==
  ASSUME NEW d \in Data
  PROVE  /\ Old(d) => Stage([Opened(d) EXCEPT !["version"] = Read(d)])
         /\ Stage(d) => ~Refuses(d)
         /\ Stage(d) /\ d["version"] # "v4" => Stage(Applied(d))
         /\ Stage(d) /\ d["version"] = "v4" => \A i \in Item : d[i] = Final(i)
<1>1. Old(d) => Stage([Opened(d) EXCEPT !["version"] = Read(d)])
  <2> SUFFICES ASSUME Old(d) PROVE Stage([d EXCEPT !["version"] = Read(d)])
    BY WholeOpens DEF Old
  <2> QED
    BY DEF Old, Whole, Stage, Read, Data, Item
<1>2. Stage(d) => ~Refuses(d)
  BY DEF Stage, Refuses
<1>3. ASSUME Stage(d), d["version"] # "v4" PROVE Stage(Applied(d))
  <2>1. CASE d["version"] = "v1"
    BY <1>3, <2>1 DEF Stage, Applied, Data, Item
  <2>2. CASE d["version"] = "v2"
    <3>1. Titled(d) = "titled"
      BY <1>3, <2>2 DEF Stage, Titled
    <3> QED
      BY <1>3, <2>2, <3>1 DEF Stage, Applied, Data, Item
  <2>3. CASE d["version"] = "v3"
    <3>1. Imported(d) = "whole"
      BY <1>3, <2>3 DEF Stage, Imported
    <3> QED
      BY <1>3, <2>3, <3>1 DEF Stage, Applied, Data, Item
  <2> QED
    BY <1>3, <2>1, <2>2, <2>3 DEF Stage
<1>4. Stage(d) /\ d["version"] = "v4" => \A i \in Item : d[i] = Final(i)
  BY DEF Stage, Final, Item
<1> QED
  BY <1>1, <1>2, <1>3, <1>4

LEMMA FinalIsWhole ==
  ASSUME NEW d \in Data, \A k \in 1..Last : d[Items[k]] = Final(Items[k])
  PROVE  Whole(d) /\ d["version"] = "v4"
<1>1. /\ d["memories"] = "whole" /\ d["buckets"] = "whole" /\ d["sqlite"] = "whole"
      /\ d["version"] = "v4"
  BY ItemsAre DEF Final
<1> QED
  BY <1>1 DEF Whole

LEMMA RestoredIsSame ==
  ASSUME NEW c \in Data, NEW d \in Data, \A k \in 1..Last : c[Items[k]] = d[Items[k]]
  PROVE  c = d
<1>1. \A i \in Item : c[i] = d[i]
  BY ItemsOK
<1> QED
  BY <1>1 DEF Data

LEMMA GoodInit == Init => Good
<1> SUFFICES ASSUME Init PROVE Whole(live)
  BY DEF Init, Good, Switching, Restoring
<1> QED
  BY DEF Init, Legacy, Whole, Nothing, Item

\* Every step but the three that cut a run off keeps track of the data.
LEMMA GoodStep == TypeOK /\ Good /\ Quiet => Good'
<1> SUFFICES ASSUME TypeOK, Good, Quiet PROVE Good'
  OBVIOUS
<1> USE DEF Switching, Restoring
<1>1. CASE Open
  <2>1. Whole(live)
    BY <1>1 DEF Open, Good
  <2>2. pc' = "open" /\ live' = live
    BY <1>1, <2>1, WholeOpens DEF Open, TypeOK
  <2> QED
    BY <2>1, <2>2 DEF Good, Whole
<1>2. CASE UpToDate
  <2>1. Whole(live) /\ live["version"] = "v4"
    BY <1>2 DEF UpToDate, Good, Read
  <2> QED
    BY <1>2, <2>1 DEF UpToDate, Good, Whole
<1>3. CASE Acquire
  <2>1. Old(live)
    BY <1>3, WholeOpens DEF Acquire, Good, TypeOK
  <2> QED
    BY <1>3, <2>1 DEF Acquire, Good, Old, Whole
<1>4. CASE LockExists \/ Stop \/ FinishFails \/ RunFails
  <2>1. Whole(live) /\ live' = live /\ pc' \in {"refused", "off"}
    BY <1>4 DEF LockExists, Stop, FinishFails, RunFails, GiveUp, Good, Old
  <2> QED
    BY <2>1 DEF Good, Whole
<1>5. CASE BackupDelete
  BY <1>5 DEF BackupDelete, Good, Old, Whole
<1>6. CASE Clone
  <2>1. Old(live) /\ Stage(workspace')
    BY <1>6, StagesFollow DEF Clone, Good, TypeOK
  <2> QED
    BY <1>6, <2>1 DEF Clone, Good, Old, Whole, Stage
<1>7. CASE Step
  <2>1. Old(live) /\ Stage(workspace')
    BY <1>7, StagesFollow DEF Step, Good, TypeOK
  <2> QED
    BY <1>7, <2>1 DEF Step, Good, Old, Whole, Stage
<1>8. CASE StepRefused
  BY <1>8, StagesFollow DEF StepRefused, Good, TypeOK
<1>9. CASE SwitchStart
  <2>1. Old(live) /\ \A i \in Item : workspace[i] = Final(i)
    BY <1>9, StagesFollow DEF SwitchStart, Good, TypeOK
  <2>2. Halves'
    BY <1>9, <2>1, ItemsOK DEF SwitchStart, Halves, Kept, Final
  <2> QED
    BY <1>9, <2>1, <2>2 DEF SwitchStart, Good, Old, Whole, Kept
<1>10. CASE SwitchDelete
  <2>1. Halves /\ Old(rollback)
    BY <1>10 DEF SwitchDelete, Good
  <2>2. \A k \in 1..Last : k # n => live'[Items[k]] = live[Items[k]]
    BY <1>10, ItemsOK DEF SwitchDelete, TypeOK, Data
  <2>3. Halves'
    BY <1>10, <2>1, <2>2 DEF SwitchDelete, Halves, TypeOK, Final
  <2> QED
    BY <1>10, <2>1, <2>3 DEF SwitchDelete, Good, Old, Whole
<1>11. CASE SwitchMove
  <2>1. Halves /\ Old(rollback)
    BY <1>11 DEF SwitchMove, Good
  <2>2. \A k \in 1..Last : k # n => /\ live'[Items[k]] = live[Items[k]]
                                    /\ workspace'[Items[k]] = workspace[Items[k]]
    BY <1>11, ItemsOK DEF SwitchMove, TypeOK, Data
  <2>3. live'[Items[n]] = Final(Items[n])
    BY <1>11, <2>1, ItemsOK DEF SwitchMove, Halves, TypeOK, Data
  <2>4. CASE n = Last
    <3>1. \A k \in 1..Last : live'[Items[k]] = Final(Items[k])
      BY <2>1, <2>2, <2>3, <2>4 DEF Halves, TypeOK
    <3>2. live' \in Data
      BY <1>11, TypeStep DEF Next, TypeOK
    <3>3. Whole(live') /\ live'["version"] = "v4"
      BY <3>1, <3>2, FinalIsWhole
    <3> QED
      BY <1>11, <2>4, <3>3 DEF SwitchMove, Good, Whole
  <2>5. CASE n # Last
    <3>1. n' = n + 1 /\ pc' = "switch" /\ rollback' = rollback
      BY <1>11, <2>5 DEF SwitchMove
    <3>2. \A k \in 1..Last : k < n' => live'[Items[k]] = Final(Items[k])
      BY <2>1, <2>2, <2>3, <3>1 DEF Halves, TypeOK
    <3>3. \A k \in 1..Last : k >= n' => workspace'[Items[k]] = Final(Items[k])
      BY <2>1, <2>2, <3>1 DEF Halves, TypeOK
    <3>4. \A k \in 1..Last : k >= n' => live'[Items[k]] = rollback'[Items[k]]
      BY <2>1, <2>2, <3>1 DEF Halves, TypeOK
    <3>5. \A i \in Item : Final(i)' = Final(i)
      BY DEF Final
    <3>6. Halves'
      BY <3>1, <3>2, <3>3, <3>4, ItemsOK DEF Halves, TypeOK, Final
    <3> QED
      BY <2>1, <3>1, <3>6 DEF Good, Old, Whole
  <2> QED
    BY <2>4, <2>5
<1>12. CASE SwitchFails
  BY <1>12 DEF SwitchFails, Good, Old, Whole
<1>13. CASE RestoreDelete
  <2>1. Old(rollback) /\ \A k \in 1..Last : k < n => live[Items[k]] = rollback[Items[k]]
    BY <1>13 DEF RestoreDelete, Good
  <2>2. \A k \in 1..Last : k < n => live'[Items[k]] = live[Items[k]]
    BY <1>13, ItemsOK DEF RestoreDelete, TypeOK, Data
  <2> QED
    BY <1>13, <2>1, <2>2 DEF RestoreDelete, Good, Old, Whole
<1>14. CASE RestoreCopy
  <2>1. Old(rollback) /\ \A k \in 1..Last : k < n => live[Items[k]] = rollback[Items[k]]
    BY <1>14 DEF RestoreCopy, Good
  <2>2. \A k \in 1..Last : k # n => live'[Items[k]] = live[Items[k]]
    BY <1>14, ItemsOK DEF RestoreCopy, TypeOK, Data
  <2>3. live'[Items[n]] = rollback[Items[n]]
    BY <1>14, ItemsOK DEF RestoreCopy, Restored, TypeOK, Data
  <2>4. CASE n = Last
    <3>1. \A k \in 1..Last : live'[Items[k]] = rollback[Items[k]]
      BY <2>1, <2>2, <2>3, <2>4 DEF TypeOK
    <3>2. live' \in Data
      BY <1>14, TypeStep DEF Next, TypeOK
    <3>3. Whole(live')
      BY <2>1, <3>1, <3>2, RestoredIsSame DEF TypeOK, Old
    <3>4. pc' = "refused"
      BY <1>14, <2>4 DEF RestoreCopy, GiveUp
    <3> QED
      BY <3>3, <3>4 DEF Good, Whole
  <2>5. CASE n # Last
    <3>1. n' = n + 1 /\ pc' = "restore" /\ rollback' = rollback
      BY <1>14, <2>5 DEF RestoreCopy
    <3>2. \A k \in 1..Last : k < n' => live'[Items[k]] = rollback'[Items[k]]
      BY <2>1, <2>2, <2>3, <3>1 DEF TypeOK
    <3> QED
      BY <2>1, <3>1, <3>2 DEF Good, Old, Whole
  <2> QED
    BY <2>4, <2>5
<1>15. CASE Finish
  <2>1. Whole(live) /\ live["version"] = "v4" /\ live' = live
    BY <1>15 DEF Finish, Good, TypeOK, Data
  <2> QED
    BY <1>15, <2>1 DEF Finish, Good, Whole
<1> QED
  BY <1>1, <1>2, <1>3, <1>4, <1>5, <1>6, <1>7, <1>8, <1>9, <1>10, <1>11, <1>12, <1>13, <1>14,
     <1>15 DEF Quiet

\* A run that is cut off before or after the switch leaves the live data whole.
LEMMA GoodCut ==
  ASSUME TypeOK, Good, Crash \/ Interrupt, pc \notin Switching \cup Restoring
  PROVE  Good'
<1>1. Whole(live) /\ live' = live /\ pc' = "off"
  BY DEF Crash, Interrupt, Good, Old, TypeOK, Switching, Restoring
<1> QED
  BY <1>1 DEF Good, Whole, Switching, Restoring

LEMMA NextIs == Next => Quiet \/ CutOff
BY DEF Next, Quiet, CutOff

LEMMA Stutter ==
  ASSUME UNCHANGED vars
  PROVE  Good' <=> Good
BY DEF vars, Good, Whole, Old, Stage, Halves, Final, Switching, Restoring

------------------------------------------------------------------------------
\* The data survive

KeptSomewhere == halfway \/ (\E d \in left : Whole(d)) \/ Good

SInv == TypeOK /\ KeptSomewhere

LEMMA LeftStays == [Next]_vars => left \subseteq left' /\ (halfway => halfway')
<1> SUFFICES ASSUME [Next]_vars PROVE left \subseteq left' /\ (halfway => halfway')
  OBVIOUS
<1>1. CASE Interrupt
  BY <1>1 DEF Interrupt
<1>2. CASE Crash
  BY <1>2 DEF Crash
<1>3. CASE RestoreFails \/ LockExists
  BY <1>3 DEF RestoreFails, LockExists
<1>4. CASE \/ Open \/ UpToDate \/ Acquire \/ BackupDelete \/ Clone \/ Step \/ StepRefused \/ RunFails
           \/ SwitchStart \/ SwitchDelete \/ SwitchMove \/ SwitchFails \/ RestoreDelete
           \/ RestoreCopy \/ Finish \/ FinishFails \/ Stop \/ UNCHANGED vars
  BY <1>4 DEF Open, UpToDate, Acquire, BackupDelete, Clone, Step, StepRefused, RunFails,
              SwitchStart, SwitchDelete, SwitchMove, SwitchFails, RestoreDelete, RestoreCopy,
              Finish, FinishFails, Stop, vars
<1> QED
  BY <1>1, <1>2, <1>3, <1>4 DEF Next

LEMMA SInvStep == SInv /\ [Next]_vars => SInv'
<1> SUFFICES ASSUME SInv, [Next]_vars PROVE KeptSomewhere'
  BY TypeStep DEF SInv
<1>1. CASE halfway \/ \E d \in left : Whole(d)
  BY <1>1, LeftStays DEF KeptSomewhere, Whole
<1>2. CASE Good
  <2>1. CASE UNCHANGED vars
    BY <1>2, <2>1, Stutter DEF KeptSomewhere
  <2>2. CASE Quiet
    BY <1>2, <2>2, GoodStep DEF KeptSomewhere, SInv
  <2>3. CASE RestoreFails
    BY <2>3 DEF RestoreFails, KeptSomewhere
  <2>4. CASE (Crash \/ Interrupt) /\ pc \notin Switching \cup Restoring
    BY <1>2, <2>4, GoodCut DEF KeptSomewhere, SInv
  <2>5. CASE Interrupt /\ pc \in Switching \cup Restoring
    BY <2>5 DEF Interrupt, KeptSomewhere, Switching, Restoring
  <2>6. CASE Crash /\ pc \in Switching \cup Restoring
    <3>1. Whole(rollback) /\ rollback \in left'
      BY <1>2, <2>6 DEF Crash, Good, Old
    <3> QED
      BY <3>1 DEF KeptSomewhere, Whole
  <2> QED
    BY <2>1, <2>2, <2>3, <2>4, <2>5, <2>6, NextIs DEF CutOff
<1> QED
  BY <1>1, <1>2 DEF SInv, KeptSomewhere

\* Whatever fails and wherever the process ends, all the data are somewhere on
\* disk, unless a run cleaned up in the middle of a switch.
THEOREM DataCorrect == Spec => []DataSurvive
<1>1. Init => SInv
  BY TypeInit, GoodInit DEF SInv, KeptSomewhere
<1>2. SInv => DataSurvive
  BY DEF SInv, KeptSomewhere, DataSurvive, Good, Old, TypeOK, Switching, Restoring
<1> QED
  BY <1>1, <1>2, SInvStep, PTL DEF Spec

------------------------------------------------------------------------------
\* A memory that starts is whole

Guarded == halfway \/ torn \/ unconfirmed \/ (Good /\ JournalOK) \/ Held

RInv == TypeOK /\ RunOK /\ Guarded

LEMMA ExcusesStay ==
  [Next]_vars => (halfway => halfway') /\ (torn => torn') /\ (unconfirmed => unconfirmed')
<1> SUFFICES ASSUME [Next]_vars PROVE (halfway => halfway') /\ (torn => torn') /\ (unconfirmed => unconfirmed')
  OBVIOUS
<1>1. CASE Interrupt
  BY <1>1 DEF Interrupt
<1>2. CASE Crash
  BY <1>2 DEF Crash
<1>3. CASE RestoreFails \/ LockExists
  BY <1>3 DEF RestoreFails, LockExists
<1>4. CASE \/ Open \/ UpToDate \/ Acquire \/ BackupDelete \/ Clone \/ Step \/ StepRefused \/ RunFails
           \/ SwitchStart \/ SwitchDelete \/ SwitchMove \/ SwitchFails \/ RestoreDelete
           \/ RestoreCopy \/ Finish \/ FinishFails \/ Stop \/ UNCHANGED vars
  BY <1>4 DEF Open, UpToDate, Acquire, BackupDelete, Clone, Step, StepRefused, RunFails,
              SwitchStart, SwitchDelete, SwitchMove, SwitchFails, RestoreDelete, RestoreCopy,
              Finish, FinishFails, Stop, vars
<1> QED
  BY <1>1, <1>2, <1>3, <1>4 DEF Next

LEMMA RunStep == RunOK /\ [Next]_vars => RunOK'
<1> USE DEF RunOK, Idle
<1> SUFFICES ASSUME RunOK, [Next]_vars PROVE RunOK'
  OBVIOUS
<1>1. CASE Open \/ UpToDate \/ Acquire \/ LockExists \/ BackupDelete \/ Clone \/ Step
  BY <1>1 DEF Open, UpToDate, Acquire, LockExists, BackupDelete, Clone, Step, GiveUp
<1>2. CASE StepRefused \/ RunFails \/ SwitchStart \/ SwitchDelete \/ SwitchMove \/ SwitchFails
  BY <1>2 DEF StepRefused, RunFails, SwitchStart, SwitchDelete, SwitchMove, SwitchFails, GiveUp
<1>3. CASE RestoreDelete \/ RestoreCopy \/ RestoreFails
  BY <1>3 DEF RestoreDelete, RestoreCopy, RestoreFails, GiveUp
<1>4. CASE Finish \/ FinishFails \/ Interrupt \/ Crash \/ Stop \/ UNCHANGED vars
  BY <1>4 DEF Finish, FinishFails, Interrupt, Crash, Stop, GiveUp, vars
<1> QED
  BY <1>1, <1>2, <1>3, <1>4 DEF Next

LEMMA JournalStep == TypeOK /\ RunOK /\ Good /\ JournalOK /\ Quiet => JournalOK'
<1> SUFFICES ASSUME TypeOK, RunOK, Good, JournalOK, Quiet PROVE JournalOK'
  OBVIOUS
<1> USE DEF JournalOK, Idle, RunOK
<1>1. CASE Open
  <2>1. live' = live
    BY <1>1, WholeOpens DEF Open, Good, TypeOK
  <2> QED
    BY <1>1, <2>1 DEF Open
<1>2. CASE UpToDate \/ Acquire \/ LockExists \/ BackupDelete \/ Clone \/ Step \/ Stop
  BY <1>2 DEF UpToDate, Acquire, LockExists, BackupDelete, Clone, Step, GiveUp, Stop
<1>3. CASE StepRefused \/ RunFails \/ SwitchStart \/ SwitchDelete \/ SwitchMove \/ SwitchFails
  BY <1>3 DEF StepRefused, RunFails, SwitchStart, SwitchDelete, SwitchMove, SwitchFails, GiveUp
<1>4. CASE RestoreDelete \/ RestoreCopy
  BY <1>4 DEF RestoreDelete, RestoreCopy, GiveUp
<1>5. CASE Finish \/ FinishFails
  BY <1>5, GoodStep DEF Finish, FinishFails, GiveUp, Good
<1> QED
  BY <1>1, <1>2, <1>3, <1>4, <1>5 DEF Quiet

\* A crash in the middle of the switch: until the version is moved, nothing takes
\* the data for new; after it, they are whole.
LEMMA CrashInSwitch ==
  ASSUME TypeOK, RunOK, Good, Crash, pc \in Switching
  PROVE  (Good /\ JournalOK)' \/ Held'
<1>1. Halves /\ Old(rollback) /\ journal = "running"
  BY DEF Good, RunOK, Idle, Switching
<1>2. /\ live' = live /\ pc' = "off" /\ lock' = "stale" /\ journal' = "running"
  BY <1>1 DEF Crash
<1>3. rollback["version"] # "v4" /\ rollback["memories"] = "whole" /\ rollback["buckets"] = "whole"
  BY <1>1 DEF Old, Whole
<1>4. live["memories"] # "gone" \/ live["buckets"] # "gone"
  <2>1. CASE n = 1
    <3>1. live[Items[2]] = rollback[Items[2]]
      BY <1>1, <2>1 DEF Halves
    <3> QED
      BY <1>3, <3>1, ItemsAre
  <2>2. CASE n > 1
    <3>1. live[Items[1]] = Final(Items[1])
      BY <1>1, <2>2 DEF Halves, TypeOK
    <3> QED
      BY <3>1, ItemsAre DEF Final
  <2> QED
    BY <2>1, <2>2 DEF TypeOK
<1>5. CASE live["version"] # "v4"
  BY <1>2, <1>4, <1>5 DEF Held
<1>6. CASE live["version"] = "v4"
  <2>1. n > 5
    <3>1. n < 6 => live[Items[6]] = rollback[Items[6]]
      BY <1>1 DEF Halves, TypeOK
    <3> QED
      BY <1>3, <1>6, <3>1, ItemsAre DEF TypeOK
  <2>2. live["memories"] = "whole" /\ live["buckets"] = "whole" /\ live["sqlite"] = "whole"
    <3>1. \A k \in {1, 2, 5} : live[Items[k]] = Final(Items[k])
      BY <1>1, <2>1 DEF Halves, TypeOK
    <3> QED
      BY <3>1, ItemsAre DEF Final
  <2>3. Whole(live)
    BY <1>6, <2>2 DEF Whole
  <2> QED
    BY <1>2, <1>6, <2>3 DEF Good, JournalOK, Idle, Whole, Switching, Restoring
<1> QED
  BY <1>5, <1>6

\* Half switched data stay as they are until a start removes the lock.
LEMMA HeldStep == TypeOK /\ Held /\ [Next]_vars => Held' \/ unconfirmed'
<1> SUFFICES ASSUME TypeOK, Held, [Next]_vars PROVE Held' \/ unconfirmed'
  OBVIOUS
<1> USE DEF Held
<1>1. CASE Open
  <2>1. CASE Disagrees(live)
    BY <1>1, <2>1 DEF Open
  <2>2. CASE ~Disagrees(live)
    <3>1. /\ Opened(live)["version"] = live["version"]
          /\ Opened(live)["memories"] = live["memories"] /\ Opened(live)["buckets"] = live["buckets"]
      BY DEF Opened, TypeOK, Data, Item
    <3> QED
      BY <1>1, <2>2, <3>1 DEF Open
  <2> QED
    BY <2>1, <2>2
<1>2. CASE UpToDate \/ Acquire
  BY <1>2 DEF UpToDate, Acquire, Read, Blocked
<1>3. CASE LockExists
  BY <1>3 DEF LockExists
<1>4. CASE UNCHANGED vars
  BY <1>4 DEF vars
<1>5. CASE BackupDelete \/ Clone \/ Step \/ StepRefused \/ RunFails \/ SwitchStart \/ SwitchDelete
           \/ SwitchMove \/ SwitchFails \/ RestoreDelete \/ RestoreCopy \/ RestoreFails \/ Finish
           \/ FinishFails \/ Interrupt \/ Crash \/ Stop
  BY <1>5 DEF BackupDelete, Clone, Step, StepRefused, RunFails, SwitchStart, SwitchDelete,
              SwitchMove, SwitchFails, RestoreDelete, RestoreCopy, RestoreFails, Finish,
              FinishFails, Interrupt, Crash, Stop
<1> QED
  BY <1>1, <1>2, <1>3, <1>4, <1>5 DEF Next

LEMMA RInvStep == RInv /\ [Next]_vars => RInv'
<1> SUFFICES ASSUME RInv, [Next]_vars PROVE Guarded'
  BY TypeStep, RunStep DEF RInv
<1>1. CASE halfway \/ torn \/ unconfirmed
  BY <1>1, ExcusesStay DEF Guarded
<1>2. CASE Held
  BY <1>2, HeldStep DEF Guarded, RInv
<1>3. CASE Good /\ JournalOK
  <2>1. CASE UNCHANGED vars
    BY <1>3, <2>1, Stutter DEF Guarded, JournalOK, vars
  <2>2. CASE Quiet
    BY <1>3, <2>2, GoodStep, JournalStep DEF Guarded, RInv
  <2>3. CASE RestoreFails
    BY <2>3 DEF RestoreFails, Guarded
  <2>4. CASE (Crash \/ Interrupt) /\ pc \notin Switching \cup Restoring
    <3>1. JournalOK'
      BY <1>3, <2>4 DEF JournalOK, Crash, Interrupt, Idle
    <3> QED
      BY <1>3, <2>4, <3>1, GoodCut DEF Guarded, RInv
  <2>5. CASE Interrupt /\ pc \in Switching \cup Restoring
    BY <2>5 DEF Interrupt, Guarded, Switching, Restoring
  <2>6. CASE Crash /\ pc \in Switching
    BY <1>3, <2>6, CrashInSwitch DEF Guarded, RInv
  <2>7. CASE Crash /\ pc \in Restoring
    BY <2>7 DEF Crash, Guarded, Restoring
  <2> QED
    BY <2>1, <2>2, <2>3, <2>4, <2>5, <2>6, <2>7, NextIs DEF CutOff
<1> QED
  BY <1>1, <1>2, <1>3 DEF RInv, Guarded

\* A memory that starts, or whose upgrade the journal calls a success, has all
\* it had, unless the lock was removed or a switch was cut off while it failed.
THEOREM ReadyCorrect == Spec => []ReadyIsWhole
<1>1. Init => RInv
  <2>1. Init => RunOK /\ JournalOK
    BY DEF Init, RunOK, JournalOK, Idle
  <2> QED
    BY <2>1, TypeInit, GoodInit DEF RInv, Guarded
<1>2. RInv => ReadyIsWhole
  <2> SUFFICES ASSUME RInv, Good, JournalOK, pc = "ready" \/ journal = "success"
               PROVE  Whole(live) /\ live["version"] = "v4"
    BY DEF RInv, Guarded, Held, ReadyIsWhole
  <2> QED
    BY DEF Good, JournalOK, Idle
<1> QED
  BY <1>1, <1>2, RInvStep, PTL DEF Spec

------------------------------------------------------------------------------
\* A refused start does no harm

FInv == TypeOK /\ (halfway \/ ~Whole(before) \/ pc = "off" \/ Good)

LEMMA BeforeStays == [Next]_vars => Open \/ before' = before
BY DEF Next, UpToDate, Acquire, LockExists, BackupDelete, Clone, Step, StepRefused, RunFails,
       SwitchStart, SwitchDelete, SwitchMove, SwitchFails, RestoreDelete, RestoreCopy,
       RestoreFails, Finish, FinishFails, Interrupt, Crash, Stop, GiveUp, vars

LEMMA FInvStep == FInv /\ [Next]_vars => FInv'
<1> SUFFICES ASSUME FInv, [Next]_vars
             PROVE  (halfway \/ ~Whole(before) \/ pc = "off" \/ Good)'
  BY TypeStep DEF FInv
<1>1. CASE Open
  <2>1. CASE Whole(live)
    <3>1. pc' = "open" /\ live' = live
      BY <1>1, <2>1, WholeOpens DEF Open, FInv, TypeOK
    <3> QED
      BY <2>1, <3>1 DEF Good, Whole, Switching, Restoring
  <2>2. CASE ~Whole(live)
    BY <1>1, <2>2 DEF Open, Whole
  <2> QED
    BY <2>1, <2>2
<1>2. CASE ~Open /\ (halfway \/ ~Whole(before))
  BY <1>2, LeftStays, BeforeStays DEF Whole
<1>3. CASE ~Open /\ pc = "off"
  <2>1. UNCHANGED vars
    BY <1>3 DEF Next, UpToDate, Acquire, LockExists, BackupDelete, Clone, Step, StepRefused,
                RunFails, SwitchStart, SwitchDelete, SwitchMove, SwitchFails, RestoreDelete,
                RestoreCopy, RestoreFails, Finish, FinishFails, Interrupt, Crash, Stop, Refuses
  <2> QED
    BY <1>3, <2>1 DEF vars
<1>4. CASE Good
  <2>1. CASE UNCHANGED vars
    BY <1>4, <2>1, Stutter
  <2>2. CASE Quiet
    BY <1>4, <2>2, GoodStep DEF FInv
  <2>3. CASE CutOff
    BY <2>3 DEF CutOff, RestoreFails, Crash, Interrupt
  <2> QED
    BY <2>1, <2>2, <2>3, NextIs
<1> QED
  BY <1>1, <1>2, <1>3, <1>4 DEF FInv

\* A start that is refused leaves the data it found whole as they can be used,
\* unless a run cleaned up in the middle of a switch.
THEOREM FailureCorrect == Spec => []FailureIsHarmless
<1>1. Init => FInv
  BY TypeInit, GoodInit DEF FInv
<1>2. FInv => FailureIsHarmless
  BY DEF FInv, FailureIsHarmless, Good
<1> QED
  BY <1>1, <1>2, FInvStep, PTL DEF Spec

=============================================================================
