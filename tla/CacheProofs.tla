----------------------------- MODULE CacheProofs -----------------------------
(***************************************************************************)
(* What FileCache keeps, for any hashes, threads, periods and bounds: the  *)
(* types, the files in use, and the built-in files.                        *)
(*                                                                         *)
(* What AutoMapping keeps, for any keys and bounds: the types, that a      *)
(* change not in the table is on its way to it, and that what flush or     *)
(* kill said was written is in the table.                                  *)
(*                                                                         *)
(* Versions order the four places a change can be in: what waits to be     *)
(* written is never older than the dictionary, and nothing older than a    *)
(* promise is left that could overwrite it.                                *)
(***************************************************************************)
EXTENDS FileCache, AutoMapping, TLAPS

\* The starter only adds, and only as permanent; the others never look at metadata.
Roles ==
    /\ pc[Starter] \in {"idle", "check", "meta", "look", "place"}
    /\ pc[Starter] # "idle" => /\ arg[Starter].hash \in Builtin
                               /\ arg[Starter].retention = "permanent"
    /\ \A p \in Procs : pc[p] \notin {"check", "meta"}
    /\ \A p \in Threads : pc[p] # "idle" => arg[p].hash \in Hashes

\* A row is older than the last use by the length of a call at most.
Fresh == \A h \in Hashes : HasRow(h) => row[h].age <= since[h] + MaxLag

\* What was last added as permanent is there and permanent.
Lasting == \A h \in lasting : h \in file /\ Permanent(h)

\* What the starter has seen and no caller has changed, while it asks for the row
Seen ==
    pc[Starter] = "meta" /\ arg[Starter].hash \notin undone /\ Permanent(arg[Starter].hash)
        => arg[Starter].hash \in file

\* What is looked at was not seen to yet, and nothing is while the process is down.
Apart ==
    /\ todo \cap installed = {}
    /\ ~up => installed = {} /\ pc[Starter] = "idle"

UInv == TypeOK /\ Roles /\ Fresh /\ Lasting
BInv == TypeOK /\ Roles /\ Apart /\ Seen /\ BuiltinIsThere

USE FileCacheAssumption

------------------------------------------------------------------------------
\* Every variable keeps its type.

LEMMA TypeInit == Init => TypeOK
<1>1. NoRow \in Row /\ NoArg \in [hash : Hashes \cup {NoHash}, retention : Retention, lag : 0..MaxLag]
  BY DEF NoRow, Row, Age, Old, Retention, NoArg
<1>2. 0 \in Age /\ 0 \in 0..MaxLag /\ 0 \in 0..MaxEvents /\ 0 \in 0..MaxEnds
  BY DEF Age, Old
<1> QED
  <2>1. ASSUME Init
        PROVE  /\ row \in [Hashes -> Row] /\ since \in [Hashes -> Age]
               /\ arg \in [Threads -> [hash : Hashes \cup {NoHash}, retention : Retention, lag : 0..MaxLag]]
               /\ pc \in [Threads -> Steps]
    BY <1>1, <1>2, <2>1 DEF Init, Steps
  <2> QED
    BY <1>2, <2>1 DEF Init, TypeOK

LEMMA AgesOK ==
  /\ \A a \in 0..MaxLag : a \in Age
  /\ \A a \in Age : Older(a) \in Age
BY DEF Age, Old, Older

LEMMA UpsertTypes ==
  ASSUME TypeOK, NEW p \in Threads, NEW h \in Hashes, Upsert(p, h), Return(p)
  PROVE  /\ row' \in [Hashes -> Row] /\ since' \in [Hashes -> Age]
         /\ lasting' \in SUBSET Hashes /\ installed' \in SUBSET Hashes /\ undone' \in SUBSET Hashes
         /\ todo' \in SUBSET Builtin
         /\ pc' \in [Threads -> Steps]
         /\ arg' \in [Threads -> [hash : Hashes \cup {NoHash}, retention : Retention, lag : 0..MaxLag]]
<1>1. arg[p].lag \in Age /\ arg[p].retention \in Retention
  BY AgesOK DEF TypeOK
<1>2. since' \in [Hashes -> Age] /\ row' \in [Hashes -> Row]
  BY <1>1 DEF Upsert, Used, TypeOK, Row
<1>3. NoArg \in [hash : Hashes \cup {NoHash}, retention : Retention, lag : 0..MaxLag]
  BY DEF NoArg, Retention
<1>4. pc' \in [Threads -> Steps]
      /\ arg' \in [Threads -> [hash : Hashes \cup {NoHash}, retention : Retention, lag : 0..MaxLag]]
  BY <1>3 DEF Return, TypeOK, Steps
<1> QED
  BY <1>2, <1>4 DEF Upsert, TypeOK

LEMMA ReturnTypes ==
  ASSUME TypeOK, NEW p \in Threads, Return(p)
  PROVE  /\ pc' \in [Threads -> Steps]
         /\ arg' \in [Threads -> [hash : Hashes \cup {NoHash}, retention : Retention, lag : 0..MaxLag]]
BY DEF Return, TypeOK, Steps, NoArg, Retention

LEMMA NoRowOK == NoRow \in Row
BY DEF NoRow, Row, Age, Old, Retention

LEMMA ThreadTypes ==
  ASSUME TypeOK, Roles, NEW p \in Threads, ThreadStep(p)
  PROVE  TypeOK'
<1> DEFINE h == arg[p].hash
<1>1. pc[p] # "idle" => h \in Hashes
  BY DEF Roles
<1>2. CASE AddLook(p)
  <2>1. CASE h \in file /\ Upsert(p, h) /\ Return(p)
    BY <1>1, <1>2, <2>1, UpsertTypes DEF AddLook, TypeOK, cleaner, thread
  <2>2. CASE pc' = [pc EXCEPT ![p] = "place"] /\ UNCHANGED <<row, arg, todo, history>>
    BY <1>2, <2>2 DEF AddLook, TypeOK, cleaner, thread, history, Steps
  <2> QED
    BY <1>2, <2>1, <2>2 DEF AddLook
<1>3. CASE AddPlace(p)
  BY <1>1, <1>3, UpsertTypes DEF AddPlace, TypeOK, cleaner, thread
<1>4. CASE AddPlaceHalf(p)
  <2>1. errors' \in 0..MaxEvents /\ file' \subseteq Hashes /\ todo' \subseteq Builtin
    BY <1>1, <1>4 DEF AddPlaceHalf, TypeOK
  <2> QED
    BY <1>4, <2>1, ReturnTypes DEF AddPlaceHalf, TypeOK, cleaner, thread, history
<1>5. CASE get_file_path(p)
  <2>1. arg[p].lag \in Age
    BY AgesOK DEF TypeOK
  <2>2. row' \in [Hashes -> Row]
    <3>1. row[h].retention # "none" => row[h].retention \in Retention
      BY <1>1, <1>5 DEF get_file_path, TypeOK, Row, Retention
    <3>2. (IF HasRow(h) THEN row[h].retention ELSE "expiring") \in Retention
      BY <3>1 DEF HasRow, Retention
    <3> QED
      <4> DEFINE r == [age |-> arg[p].lag, retention |-> IF HasRow(h) THEN row[h].retention ELSE "expiring"]
      <4>1. r \in Row
        BY <2>1, <3>2 DEF Row
      <4>2. row' = [row EXCEPT ![h] = r] \/ row' = [row EXCEPT ![h] = NoRow]
        BY <1>5 DEF get_file_path
      <4> HIDE DEF r
      <4> QED
        BY <4>1, <4>2, NoRowOK DEF TypeOK
  <2>3. since' \in [Hashes -> Age]
    BY <1>5, <2>1 DEF get_file_path, Used, TypeOK
  <2> QED
    BY <1>5, <2>2, <2>3, ReturnTypes DEF get_file_path, TypeOK, cleaner, thread
<1>6. CASE renew(p)
  <2>1. arg[p].lag \in Age
    BY AgesOK DEF TypeOK
  <2>2. row' \in [Hashes -> Row]
    <3>1. CASE row' = row
      BY <3>1 DEF TypeOK
    <3>2. CASE row' = [row EXCEPT ![h].age = arg[p].lag]
      <4>1. row[h] \in Row
        BY <1>1, <1>6 DEF renew, TypeOK
      <4> DEFINE r == [row[h] EXCEPT !.age = arg[p].lag]
      <4>2. r \in Row
        BY <4>1, <2>1 DEF Row
      <4>3. row' = [row EXCEPT ![h] = r]
        BY <3>2
      <4> HIDE DEF r
      <4> QED
        BY <4>2, <4>3 DEF TypeOK
    <3> QED
      BY <1>6, <3>1, <3>2 DEF renew
  <2>3. since' \in [Hashes -> Age]
    BY <1>6, <2>1 DEF renew, Used, TypeOK
  <2> QED
    BY <1>6, <2>2, <2>3, ReturnTypes DEF renew, TypeOK, cleaner, thread
<1>7. CASE remove_file(p) \/ remove_half(p)
  <2>1. row' \in [Hashes -> Row] /\ errors' \in 0..MaxEvents
    BY <1>1, <1>7, NoRowOK DEF remove_file, remove_half, TypeOK
  <2>2. file' \subseteq Hashes /\ lasting' \subseteq Hashes /\ undone' \subseteq Hashes
    BY <1>1, <1>7 DEF remove_file, remove_half, Removed, TypeOK
  <2> QED
    BY <1>7, <2>1, <2>2, ReturnTypes DEF remove_file, remove_half, TypeOK, cleaner, thread
<1> QED
  BY <1>2, <1>3, <1>4, <1>5, <1>6, <1>7 DEF ThreadStep

LEMMA CleanTypes ==
  ASSUME TypeOK, CleanStep
  PROVE  TypeOK'
<1>1. CASE CleanStart
  BY <1>1 DEF CleanStart, TypeOK, thread, history
<1>2. CASE CleanFlush
  <2>1. row' \in [Hashes -> Row]
    BY <1>2, AgesOK DEF CleanFlush, TypeOK, Row, Retention
  <2> QED
    BY <1>2, <2>1 DEF CleanFlush, TypeOK, thread, history
<1>3. CASE CleanSelect
  BY <1>3 DEF CleanSelect, TypeOK, thread, history
<1>4. ASSUME NEW h \in Hashes, CleanScan(h) PROVE TypeOK'
  BY <1>4 DEF CleanScan, TypeOK, thread, history
<1>5. ASSUME NEW h \in Hashes, CleanItem(h) PROVE TypeOK'
  BY <1>5, NoRowOK DEF CleanItem, NextRows, TypeOK, thread, history
<1>6. ASSUME NEW h \in Hashes, CleanItemFails(h) PROVE TypeOK'
  BY <1>6 DEF CleanItemFails, NextRows, TypeOK, thread, history
<1>7. ASSUME NEW h \in Hashes, CleanItemHalf(h) PROVE TypeOK'
  BY <1>7 DEF CleanItemHalf, TypeOK, thread, history
<1> QED
  BY <1>1, <1>2, <1>3, <1>4, <1>5, <1>6, <1>7 DEF CleanStep

LEMMA TickTypes ==
  ASSUME TypeOK, Tick
  PROVE  TypeOK'
<1>1. row' \in [Hashes -> Row] /\ since' \in [Hashes -> Age]
  BY AgesOK, NoRowOK DEF Tick, TypeOK, Row
<1>2. lag' \in 0..MaxLag
  BY DEF Tick, TypeOK
<1>3. arg' \in [Threads -> [hash : Hashes \cup {NoHash}, retention : Retention, lag : 0..MaxLag]]
  BY DEF Tick, TypeOK
<1> QED
  BY <1>1, <1>2, <1>3 DEF Tick, TypeOK

LEMMA TypeStep == TypeOK /\ Roles /\ [Next]_vars => TypeOK'
<1> SUFFICES ASSUME TypeOK, Roles, [Next]_vars PROVE TypeOK'
  OBVIOUS
<1>1. ASSUME NEW p \in Procs, CallerStep(p) PROVE TypeOK'
  <2>1. PICK step \in {"look", "get", "renew", "remove"}, h \in Hashes, r \in Retention : Call(p, step, h, r)
    BY <1>1 DEF CallerStep, Retention
  <2> QED
    BY <2>1 DEF Call, TypeOK, cleaner, history, Steps, Threads
<1>2. CASE EnsureStep
  <2>1. ASSUME NEW h \in Builtin, EnsureCheck(h) PROVE TypeOK'
    BY <2>1 DEF EnsureCheck, TypeOK, cleaner, history, Steps, Threads, Retention
  <2>2. CASE EnsureMeta
    <3>1. Starter \in Threads /\ arg[Starter].hash \in Hashes
      BY <2>2 DEF Threads, EnsureMeta, Roles
    <3>2. CASE AlreadyPermanent(arg[Starter].hash)
      BY <2>2, <3>1, <3>2, ReturnTypes DEF EnsureMeta, TypeOK, cleaner
    <3>3. CASE ~AlreadyPermanent(arg[Starter].hash)
      BY <2>2, <3>1, <3>3 DEF EnsureMeta, TypeOK, cleaner, Steps
    <3> QED
      BY <3>2, <3>3
  <2> QED
    BY <1>2, <2>1, <2>2 DEF EnsureStep
<1>3. CASE Close \/ Start
  BY <1>3 DEF Close, Start, TypeOK, thread, cleaner, history
<1>4. CASE End
  <2>1. ends' \in 0..MaxEnds /\ lag' \in 0..MaxLag
    BY <1>4 DEF End, TypeOK
  <2>2. pc' \in [Threads -> Steps]
        /\ arg' \in [Threads -> [hash : Hashes \cup {NoHash}, retention : Retention, lag : 0..MaxLag]]
    BY <1>4 DEF End, Steps, NoArg, Retention
  <2> QED
    BY <1>4, <2>1, <2>2 DEF End, TypeOK
<1>5. CASE UNCHANGED vars
  BY <1>5 DEF vars, TypeOK, thread, cleaner, history
<1> QED
  BY <1>1, <1>2, <1>3, <1>4, <1>5, ThreadTypes, CleanTypes, TickTypes DEF Next

------------------------------------------------------------------------------
\* Roles

LEMMA RolesStep == TypeOK /\ Roles /\ [Next]_vars => Roles'
<1> SUFFICES ASSUME TypeOK, Roles, [Next]_vars PROVE Roles'
  OBVIOUS
<1> USE DEF Roles, thread
<1>1. /\ pc \in [Threads -> Steps] /\ Starter \notin Procs /\ Threads = Procs \cup {Starter}
      /\ Builtin \subseteq Hashes /\ DOMAIN arg = Threads
  BY DEF TypeOK, Threads
<1>2. ASSUME NEW p \in Procs, CallerStep(p) PROVE Roles'
  BY <1>1, <1>2 DEF CallerStep, Call
<1>3. ASSUME NEW p \in Threads, Return(p) PROVE Roles'
  BY <1>1, <1>3 DEF Return
<1>4. ASSUME NEW p \in Threads, ThreadStep(p) PROVE Roles'
  <2>1. CASE AddLook(p)
    BY <1>1, <1>3, <2>1 DEF AddLook
  <2> QED
    BY <1>3, <1>4, <2>1 DEF ThreadStep, AddPlace, AddPlaceHalf, get_file_path, renew, remove_file, remove_half
<1>5. CASE EnsureStep
  <2>1. ASSUME NEW h \in Builtin, EnsureCheck(h) PROVE Roles'
    BY <1>1, <2>1 DEF EnsureCheck
  <2>2. CASE EnsureMeta
    <3>1. CASE AlreadyPermanent(arg[Starter].hash)
      BY <1>1, <1>3, <2>2, <3>1 DEF EnsureMeta
    <3>2. CASE ~AlreadyPermanent(arg[Starter].hash)
      <4>1. /\ pc' = [pc EXCEPT ![Starter] = "look"]
            /\ \A p \in Threads : arg'[p].hash = arg[p].hash /\ arg'[p].retention = arg[p].retention
        BY <2>2, <3>2 DEF EnsureMeta, TypeOK
      <4>2. pc[Starter] = "meta"
        BY <2>2 DEF EnsureMeta
      <4> QED
        BY <1>1, <4>1, <4>2
    <3> QED
      BY <3>1, <3>2
  <2> QED
    BY <1>5, <2>1, <2>2 DEF EnsureStep
<1>6. CASE CleanStep
  BY <1>6 DEF CleanStep, CleanStart, CleanFlush, CleanSelect, CleanScan, CleanItem, CleanItemFails, CleanItemHalf
<1>7. CASE Tick
  <2>1. pc' = pc /\ \A p \in Threads : arg'[p].hash = arg[p].hash /\ arg'[p].retention = arg[p].retention
    BY <1>7 DEF Tick, TypeOK
  <2> QED
    BY <1>1, <2>1
<1>8. CASE End
  BY <1>1, <1>8 DEF End
<1>9. CASE Close \/ Start \/ UNCHANGED vars
  BY <1>9 DEF Close, Start, vars
<1> QED
  BY <1>2, <1>4, <1>5, <1>6, <1>7, <1>8, <1>9 DEF Next

------------------------------------------------------------------------------
\* Files in use

\* A use, and what add_file writes: what h is before and after
LEMMA UseFacts ==
  ASSUME TypeOK, NEW p \in Threads, NEW h \in Hashes, Used(p, h)
  PROVE  /\ since'[h] \in Age /\ arg[p].lag \in 0..MaxLag /\ arg[p].lag <= since'[h] + MaxLag
         /\ \A g \in Hashes \ {h} : since'[g] = since[g]
<1>1. since \in [Hashes -> Age] /\ arg[p].lag \in 0..MaxLag
  BY DEF TypeOK
<1>2. since'[h] \in {arg[p].lag, since[h]} /\ \A g \in Hashes \ {h} : since'[g] = since[g]
  BY <1>1 DEF Used
<1> QED
  BY <1>1, <1>2 DEF Age, Old

LEMMA UpsertUses ==
  ASSUME UInv, NEW p \in Threads, NEW h \in Hashes, Upsert(p, h),
         h \in file', file \subseteq file'
  PROVE  Fresh' /\ Lasting'
<1>1. /\ TypeOK /\ Fresh /\ Lasting
  BY DEF UInv
<1>2. /\ row'[h].age = arg[p].lag /\ row'[h].retention = arg[p].retention
      /\ \A g \in Hashes \ {h} : row'[g] = row[g]
  BY <1>1 DEF Upsert, TypeOK
<1>3. lasting \subseteq Hashes
  BY <1>1 DEF TypeOK
<1>4. Fresh'
  <2> SUFFICES ASSUME NEW g \in Hashes, HasRow(g)' PROVE row'[g].age <= since'[g] + MaxLag
    BY DEF Fresh
  <2>1. CASE g = h
    BY <1>1, <1>2, <2>1, UseFacts DEF Upsert
  <2>2. CASE g # h
    BY <1>1, <1>2, <2>2, UseFacts DEF Upsert, Fresh, HasRow
  <2> QED
    BY <2>1, <2>2
<1>5. Lasting'
  BY <1>1, <1>2, <1>3 DEF Upsert, Lasting, Permanent
<1> QED
  BY <1>4, <1>5

LEMMA ThreadUses ==
  ASSUME UInv, NEW p \in Threads, ThreadStep(p)
  PROVE  Fresh' /\ Lasting'
<1>1. /\ TypeOK /\ Fresh /\ Lasting /\ file \subseteq Hashes /\ lasting \subseteq Hashes
      /\ row \in [Hashes -> Row] /\ since \in [Hashes -> Age]
  BY DEF UInv, TypeOK
<1>2. PICK h \in Hashes : h = arg[p].hash
  BY DEF UInv, Roles, ThreadStep, AddLook, AddPlace, AddPlaceHalf, get_file_path, renew,
         remove_file, remove_half
<1>3. CASE AddLook(p)
  <2>1. CASE h \in file /\ Upsert(p, h)
    BY <1>2, <1>3, <2>1, UpsertUses DEF AddLook
  <2>2. CASE UNCHANGED <<row, history>>
    BY <1>1, <1>3, <2>2 DEF AddLook, history, Fresh, Lasting, HasRow, Permanent
  <2> QED
    BY <1>2, <1>3, <2>1, <2>2 DEF AddLook
<1>4. CASE AddPlace(p)
  <2>1. Upsert(p, h) /\ file' = file \cup {h}
    BY <1>2, <1>4 DEF AddPlace
  <2> QED
    BY <1>2, <2>1, UpsertUses
<1>5. CASE AddPlaceHalf(p)
  <2>1. file' = file \cup {h} /\ row' = row /\ since' = since /\ lasting' = lasting
    BY <1>2, <1>5 DEF AddPlaceHalf, history
  <2> QED
    BY <1>1, <2>1 DEF Fresh, Lasting, HasRow, Permanent
<1>6. CASE get_file_path(p)
  <2>1. file' = file /\ lasting' = lasting
    BY <1>6 DEF get_file_path
  <2>2. CASE h \in file /\ row'[h] = [age |-> arg[p].lag,
                                      retention |-> IF HasRow(h) THEN row[h].retention
                                                    ELSE "expiring"]
             /\ (\A g \in Hashes \ {h} : row'[g] = row[g]) /\ Used(p, h)
    <3>1. row'[h].age = arg[p].lag /\ (Permanent(h) => Permanent(h)')
      BY <2>2 DEF Permanent, HasRow
    <3>2. \A g \in Hashes \ {h} : (HasRow(g)' => HasRow(g)) /\ (Permanent(g) => Permanent(g)')
      BY <2>2 DEF HasRow, Permanent
    <3>3. Fresh'
      BY <1>1, <1>2, <2>2, <3>1, <3>2, UseFacts DEF Fresh
    <3> QED
      BY <1>1, <2>1, <3>1, <3>2, <3>3 DEF Lasting
  <2>3. CASE h \notin file /\ row' = [row EXCEPT ![h] = NoRow] /\ since' = since
    <3>1. \A g \in Hashes : (HasRow(g)' => g # h /\ row'[g] = row[g])
                            /\ (g # h => row'[g] = row[g])
      BY <1>1, <1>2, <2>3 DEF HasRow, NoRow
    <3> QED
      BY <1>1, <2>1, <2>3, <3>1 DEF Fresh, Lasting, HasRow, Permanent
  <2>4. CASE h \notin file
    BY <1>2, <1>6, <2>3, <2>4 DEF get_file_path
  <2>5. CASE h \in file
    BY <1>1, <1>2, <1>6, <2>2, <2>5 DEF get_file_path
  <2> QED
    BY <2>4, <2>5
<1>7. CASE renew(p)
  <2>1. file' = file /\ lasting' = lasting
    BY <1>7 DEF renew
  <2>2. CASE row' = [row EXCEPT ![h].age = arg[p].lag] /\ Used(p, h)
    <3>1. /\ row'[h].age = arg[p].lag /\ row'[h].retention = row[h].retention
          /\ \A g \in Hashes \ {h} : row'[g] = row[g]
      BY <1>1, <1>2, <2>2 DEF Row
    <3>2. Fresh'
      BY <1>1, <1>2, <2>2, <3>1, UseFacts DEF Fresh, HasRow
    <3> QED
      BY <1>1, <2>1, <3>1, <3>2 DEF Lasting, Permanent
  <2>3. CASE UNCHANGED <<row, since>>
    BY <1>1, <2>1, <2>3 DEF Fresh, Lasting, HasRow, Permanent
  <2> QED
    BY <1>2, <1>7, <2>2, <2>3 DEF renew
<1>8. CASE remove_file(p) \/ remove_half(p)
  <2>1. /\ file' = file \ {h} /\ lasting' = lasting \ {h} /\ since' = since
        /\ row' \in {row, [row EXCEPT ![h] = NoRow]}
    BY <1>2, <1>8 DEF remove_file, remove_half, Removed
  <2>2. \A g \in Hashes : (HasRow(g)' => row'[g] = row[g]) /\ (g # h => row'[g] = row[g])
    BY <1>1, <1>2, <2>1 DEF HasRow, NoRow
  <2> QED
    BY <1>1, <2>1, <2>2 DEF Fresh, Lasting, HasRow, Permanent
<1> QED
  BY <1>3, <1>4, <1>5, <1>6, <1>7, <1>8 DEF ThreadStep

LEMMA CleanUses ==
  ASSUME UInv, CleanStep
  PROVE  Fresh' /\ Lasting'
<1>1. /\ TypeOK /\ Fresh /\ Lasting /\ lasting \subseteq Hashes
      /\ row \in [Hashes -> Row] /\ since \in [Hashes -> Age] /\ lag \in 0..MaxLag
  BY DEF UInv, TypeOK
<1>2. since' = since /\ lasting' = lasting
  BY DEF CleanStep, CleanStart, CleanFlush, CleanSelect, CleanScan, CleanItem, CleanItemFails,
         CleanItemHalf, history
<1>3. CASE CleanFlush
  <2>1. file' = file
    BY <1>3 DEF CleanFlush
  <2>2. \A g \in Hashes : row'[g] = row[g] \/ (row'[g].age = lag /\ ~HasRow(g))
    BY <1>3 DEF CleanFlush
  <2>3. \A g \in Hashes : lag <= since[g] + MaxLag
    BY <1>1 DEF Age, Old
  <2> QED
    BY <1>1, <1>2, <2>1, <2>2, <2>3 DEF Fresh, Lasting, HasRow, Permanent
<1>4. ASSUME NEW h \in Hashes, CleanItem(h) \/ CleanItemHalf(h) PROVE Fresh' /\ Lasting'
  <2>1. CASE UNCHANGED <<file, row>>
    BY <1>1, <1>2, <2>1 DEF Fresh, Lasting, HasRow, Permanent
  <2>2. CASE StillExpired(h) /\ file' = file \ {h} /\ row' \in {row, [row EXCEPT ![h] = NoRow]}
    <3>1. h \notin lasting
      BY <1>1, <2>2 DEF StillExpired, Expired, Lasting, Permanent
    <3>2. \A g \in Hashes : (HasRow(g)' => row'[g] = row[g]) /\ (g # h => row'[g] = row[g])
      BY <1>1, <2>2 DEF HasRow, NoRow
    <3> QED
      BY <1>1, <1>2, <2>2, <3>1, <3>2 DEF Fresh, Lasting, HasRow, Permanent
  <2> QED
    BY <1>4, <2>1, <2>2 DEF CleanItem, CleanItemHalf
<1>5. CASE UNCHANGED <<file, row>>
  BY <1>1, <1>2, <1>5 DEF Fresh, Lasting, HasRow, Permanent
<1> QED
  BY <1>3, <1>4, <1>5 DEF CleanStep, CleanStart, CleanSelect, CleanScan, CleanItemFails

LEMMA TickUses ==
  ASSUME UInv, Tick
  PROVE  Fresh' /\ Lasting'
<1>1. /\ TypeOK /\ Fresh /\ Lasting /\ lasting \subseteq Hashes
      /\ row \in [Hashes -> Row] /\ since \in [Hashes -> Age]
  BY DEF UInv, TypeOK
<1>2. \A g \in Hashes : since'[g] = Older(since[g]) /\ row'[g].retention = row[g].retention
                        /\ (HasRow(g) => row'[g].age = Older(row[g].age))
  BY <1>1 DEF Tick, HasRow, NoRow, Row
<1>3. \A a, s \in Age : a <= s + MaxLag => Older(a) <= Older(s) + MaxLag
  BY DEF Age, Old, Older
<1>4. \A g \in Hashes : row[g].age \in Age /\ since[g] \in Age
  BY <1>1 DEF Row
<1>5. file' = file /\ lasting' = lasting
  BY DEF Tick
<1>6. Fresh'
  BY <1>1, <1>2, <1>3, <1>4 DEF Fresh, HasRow
<1> QED
  BY <1>1, <1>2, <1>5, <1>6 DEF Lasting, Permanent

LEMMA UInvInit == Init => UInv
<1>1. ASSUME Init PROVE Roles
  BY <1>1 DEF Init, Roles, Threads
<1>2. ASSUME Init PROVE Fresh /\ Lasting
  BY <1>2 DEF Init, Fresh, Lasting, HasRow, NoRow
<1> QED
  BY <1>1, <1>2, TypeInit DEF UInv

LEMMA UInvStep == UInv /\ [Next]_vars => UInv'
<1> SUFFICES ASSUME UInv, [Next]_vars PROVE UInv'
  OBVIOUS
<1>1. TypeOK' /\ Roles'
  BY TypeStep, RolesStep DEF UInv
<1>2. Fresh' /\ Lasting'
  <2>1. CASE UNCHANGED <<file, row, since, lasting>>
    BY <2>1 DEF UInv, Fresh, Lasting, HasRow, Permanent
  <2>2. ASSUME NEW p \in Procs, CallerStep(p) PROVE UNCHANGED <<file, row, since, lasting>>
    BY <2>2 DEF CallerStep, Call, history
  <2>3. CASE EnsureStep \/ Close \/ Start \/ End \/ UNCHANGED vars
    BY <2>1, <2>3 DEF EnsureStep, EnsureMeta, EnsureCheck, Close, Start, End, vars, history
  <2> QED
    BY <2>1, <2>2, <2>3, ThreadUses, CleanUses, TickUses DEF Next
<1> QED
  BY <1>1, <1>2 DEF UInv

------------------------------------------------------------------------------
\* The built-in files

LEMMA BInvInit == Init => BInv
<1>1. ASSUME Init PROVE Roles /\ Apart /\ Seen /\ BuiltinIsThere
  BY <1>1 DEF Init, Roles, Apart, Seen, BuiltinIsThere, Threads
<1> QED
  BY <1>1, TypeInit DEF BInv

\* What an add does: its file is there, its retention is that of the call.
LEMMA UpsertKeeps ==
  ASSUME BInv, NEW p \in Threads, NEW h \in Hashes, Upsert(p, h), Return(p),
         h = arg[p].hash, pc[p] \in {"look", "place"},
         h \in file', file \subseteq file'
  PROVE  Seen' /\ BuiltinIsThere'
<1>1. TypeOK /\ Roles /\ Seen /\ BuiltinIsThere
  BY DEF BInv
<1>2. /\ row'[h].retention = arg[p].retention /\ \A g \in Hashes \ {h} : row'[g] = row[g]
      /\ installed \subseteq Hashes /\ arg[Starter].hash \in Hashes \cup {NoHash}
  BY <1>1 DEF Upsert, TypeOK, Threads
<1>3. BuiltinIsThere'
  <2> SUFFICES ASSUME NEW g \in installed' \ undone' PROVE g \in file' /\ Permanent(g)'
    BY DEF BuiltinIsThere
  <2>1. CASE g = h
    BY <1>1, <1>2, <2>1 DEF Upsert, Permanent, TypeOK, Retention
  <2>2. CASE g # h
    BY <1>1, <1>2, <2>2 DEF Upsert, BuiltinIsThere, Permanent
  <2> QED
    BY <2>1, <2>2
<1>4. Seen'
  <2>1. CASE p = Starter
    BY <1>1, <2>1 DEF Return, Seen, TypeOK
  <2>2. CASE p # Starter
    <3>1. pc'[Starter] = pc[Starter] /\ arg'[Starter] = arg[Starter]
      BY <1>1, <2>2 DEF Return, TypeOK, Threads
    <3>2. undone \subseteq undone'
      BY DEF Upsert
    <3> QED
      BY <1>1, <1>2, <3>1, <3>2 DEF Seen, Permanent, Roles
  <2> QED
    BY <2>1, <2>2
<1> QED
  BY <1>3, <1>4

\* A step that leaves the starter, and loses nothing that was permanent, keeps both.
LEMMA OthersKeep ==
  ASSUME BInv, UNCHANGED <<pc[Starter], arg[Starter].hash>>, installed' = installed,
         undone \subseteq undone',
         \A g \in Hashes \ undone' : /\ g \in file /\ Permanent(g) => g \in file' /\ Permanent(g)'
                                     /\ Permanent(g)' => Permanent(g)
  PROVE  Seen' /\ BuiltinIsThere'
<1>1. installed \subseteq Hashes /\ (pc[Starter] # "idle" => arg[Starter].hash \in Hashes)
  BY DEF BInv, TypeOK, Roles
<1> QED
  BY <1>1 DEF BInv, Seen, BuiltinIsThere

LEMMA ThreadKeeps ==
  ASSUME BInv, NEW p \in Threads, ThreadStep(p)
  PROVE  Seen' /\ BuiltinIsThere'
<1>1. /\ TypeOK /\ Roles /\ Seen /\ BuiltinIsThere /\ file \subseteq Hashes
      /\ row \in [Hashes -> Row] /\ Starter \in Threads
  BY DEF BInv, TypeOK, Threads
<1>2. PICK h \in Hashes : h = arg[p].hash
  BY DEF BInv, Roles, ThreadStep, AddLook, AddPlace, AddPlaceHalf, get_file_path, renew,
         remove_file, remove_half
<1>3. CASE (AddLook(p) /\ h \in file) \/ AddPlace(p)
  <2>1. /\ Upsert(p, h) /\ Return(p) /\ pc[p] \in {"look", "place"}
        /\ h \in file' /\ file \subseteq file'
    BY <1>2, <1>3 DEF AddLook, AddPlace
  <2> QED
    BY <1>2, <2>1, UpsertKeeps
<1>4. CASE AddLook(p) /\ h \notin file
  <2>1. /\ pc' = [pc EXCEPT ![p] = "place"] /\ UNCHANGED <<file, row, arg, history>>
        /\ pc[p] = "look"
    BY <1>2, <1>4 DEF AddLook
  <2>2. pc'[Starter] = "meta" => pc[Starter] = "meta"
    BY <1>1, <2>1 DEF TypeOK
  <2> QED
    BY <1>1, <2>1, <2>2 DEF history, Seen, BuiltinIsThere, Permanent
<1>5. CASE p = Starter /\ ~AddLook(p) /\ ~AddPlace(p)
  <2>1. AddPlaceHalf(p)
    BY <1>1, <1>5 DEF ThreadStep, Roles, get_file_path, renew, remove_file, remove_half
  <2>2. pc'[Starter] = "idle"
    BY <1>1, <1>5, <2>1 DEF AddPlaceHalf, Return, TypeOK
  <2> QED
    BY <1>1, <2>1, <2>2 DEF AddPlaceHalf, history, Seen, BuiltinIsThere, Permanent
<1>6. CASE p # Starter /\ ~AddLook(p) /\ ~AddPlace(p)
  <2>1. Return(p)
    BY <1>6 DEF ThreadStep, AddPlaceHalf, get_file_path, renew, remove_file, remove_half
  <2>2. pc'[Starter] = pc[Starter] /\ arg'[Starter] = arg[Starter]
    BY <1>1, <1>6, <2>1 DEF Return, TypeOK
  <2>3. installed' = installed /\ undone \subseteq undone'
    BY <1>6 DEF ThreadStep, AddPlaceHalf, get_file_path, renew, remove_file, remove_half, history, Removed
  <2>4. \A g \in Hashes \ undone' :
           /\ g \in file /\ Permanent(g) => g \in file' /\ Permanent(g)'
           /\ Permanent(g)' => Permanent(g)
    <3>1. CASE AddPlaceHalf(p)
      BY <3>1 DEF AddPlaceHalf, Permanent
    <3>2. CASE get_file_path(p)
      <4>1. CASE h \in file
        <5>1. /\ row'[h].retention = (IF HasRow(h) THEN row[h].retention ELSE "expiring")
              /\ \A g \in Hashes \ {h} : row'[g] = row[g]
              /\ file' = file
          BY <1>1, <1>2, <3>2, <4>1 DEF get_file_path
        <5> QED
          BY <5>1 DEF Permanent, HasRow
      <4>2. CASE h \notin file
        <5>1. row' = [row EXCEPT ![h] = NoRow] /\ file' = file
          BY <1>2, <3>2, <4>2 DEF get_file_path
        <5> QED
          BY <1>1, <4>2, <5>1 DEF Permanent, NoRow
      <4> QED
        BY <4>1, <4>2
    <3>3. CASE renew(p)
      <4>1. /\ file' = file /\ \A g \in Hashes : row'[g].retention = row[g].retention
        BY <1>1, <1>2, <3>3 DEF renew, Row
      <4> QED
        BY <4>1 DEF Permanent
    <3>4. CASE remove_file(p) \/ remove_half(p)
      <4>1. /\ file' = file \ {h} /\ h \in undone'
            /\ row' \in {row, [row EXCEPT ![h] = NoRow]}
        BY <1>2, <3>4 DEF remove_file, remove_half, Removed
      <4> QED
        BY <1>1, <4>1 DEF Permanent
    <3> QED
      BY <1>6, <3>1, <3>2, <3>3, <3>4 DEF ThreadStep
  <2> QED
    BY <2>2, <2>3, <2>4, OthersKeep
<1> QED
  BY <1>2, <1>3, <1>4, <1>5, <1>6 DEF AddLook

LEMMA ApartStep == BInv /\ [Next]_vars => Apart'
<1> SUFFICES ASSUME BInv, [Next]_vars PROVE Apart'
  OBVIOUS
<1>1. TypeOK /\ Roles /\ Apart /\ pc \in [Threads -> Steps] /\ Starter \in Threads
  BY DEF BInv, TypeOK, Threads
<1>2. CASE UNCHANGED <<up, todo, installed>> /\ (pc[Starter] = "idle" => pc'[Starter] = "idle")
  BY <1>1, <1>2 DEF Apart
<1>3. ASSUME NEW p \in Procs, CallerStep(p) PROVE Apart'
  <2>1. UNCHANGED <<up, todo, installed>> /\ pc'[Starter] = pc[Starter]
    BY <1>1, <1>3 DEF CallerStep, Call, history
  <2> QED
    BY <1>2, <2>1
<1>4. ASSUME NEW p \in Threads, ThreadStep(p) PROVE Apart'
  <2>1. /\ up' = up /\ pc[p] # "idle" /\ (pc[Starter] = "idle" => pc'[Starter] = "idle")
        /\ todo' \subseteq todo
        /\ (installed' = installed \/ (p = Starter /\ installed' = installed \cup {arg[p].hash}
                                                 /\ todo' = todo \ {arg[p].hash}))
    BY <1>1, <1>4 DEF ThreadStep, AddLook, AddPlace, AddPlaceHalf, get_file_path, renew, remove_file,
                      remove_half, Upsert, Return, history
  <2> QED
    BY <1>1, <2>1 DEF Apart
<1>5. CASE EnsureStep
  <2>1. /\ up' = up /\ todo' \subseteq todo
        /\ (installed' = installed
            \/ (installed' = installed \cup {arg[Starter].hash} /\ todo' = todo \ {arg[Starter].hash}))
    BY <1>5 DEF EnsureStep, EnsureMeta, EnsureCheck
  <2>2. up
    BY <1>1, <1>5 DEF EnsureStep, EnsureMeta, EnsureCheck, Apart
  <2> QED
    BY <1>1, <2>1, <2>2 DEF Apart
<1>6. CASE CleanStep \/ Close \/ Tick \/ UNCHANGED vars
  <2>1. UNCHANGED <<up, todo, installed, pc>>
    BY <1>6 DEF CleanStep, CleanStart, CleanFlush, CleanSelect, CleanScan, CleanItem, CleanItemFails,
                CleanItemHalf, Close, Tick, vars, thread, history
  <2> QED
    BY <1>2, <2>1
<1>7. CASE End \/ Start
  BY <1>1, <1>7 DEF End, Start, Apart, thread, history
<1> QED
  BY <1>3, <1>4, <1>5, <1>6, <1>7 DEF Next

LEMMA BInvStep == BInv /\ [Next]_vars => BInv'
<1> SUFFICES ASSUME BInv, [Next]_vars PROVE BInv'
  OBVIOUS
<1>1. TypeOK' /\ Roles'
  BY TypeStep, RolesStep DEF BInv
<1>2. Seen' /\ BuiltinIsThere'
  <2>0. /\ TypeOK /\ Roles /\ Seen /\ BuiltinIsThere /\ Starter \in Threads
        /\ row \in [Hashes -> Row] /\ installed \subseteq Hashes
    BY DEF BInv, TypeOK, Threads
  <2>1. ASSUME NEW p \in Procs, CallerStep(p) PROVE Seen' /\ BuiltinIsThere'
    <3>1. /\ UNCHANGED <<file, row, history>>
          /\ pc'[Starter] = pc[Starter] /\ arg'[Starter] = arg[Starter]
      BY <2>0, <2>1 DEF CallerStep, Call, TypeOK
    <3> QED
      BY <2>0, <3>1 DEF history, Seen, BuiltinIsThere, Permanent
  <2>2. ASSUME NEW h \in Builtin, EnsureCheck(h) PROVE Seen' /\ BuiltinIsThere'
    <3>1. /\ UNCHANGED <<file, row, installed>> /\ undone' = undone \ {h}
          /\ pc'[Starter] = (IF h \in file THEN "meta" ELSE "look")
          /\ arg'[Starter].hash = h /\ h \notin installed
      BY <2>0, <2>2 DEF EnsureCheck, TypeOK, BInv, Apart
    <3> QED
      BY <2>0, <3>1 DEF Seen, BuiltinIsThere, Permanent
  <2>3. CASE EnsureMeta
    <3>1. /\ UNCHANGED <<file, row, undone>> /\ pc'[Starter] # "meta"
          /\ installed' \subseteq installed \cup {arg[Starter].hash}
          /\ arg[Starter].hash \in installed' \ installed
               => pc[Starter] = "meta" /\ Permanent(arg[Starter].hash)
      BY <2>0, <2>3 DEF EnsureMeta, AlreadyPermanent, Return, TypeOK
    <3> QED
      BY <2>0, <3>1 DEF Seen, BuiltinIsThere, Permanent
  <2>4. CASE CleanStep
    <3>1. UNCHANGED <<pc, arg, installed, undone>>
      BY <2>4 DEF CleanStep, CleanStart, CleanFlush, CleanSelect, CleanScan, CleanItem,
                  CleanItemFails, CleanItemHalf, thread, history
    <3>2. \A g \in Hashes :
             /\ g \in file /\ Permanent(g) => g \in file' /\ Permanent(g)'
             /\ Permanent(g)' => Permanent(g)
      <4>1. CASE CleanFlush
        BY <4>1 DEF CleanFlush, Permanent, HasRow
      <4>2. CASE UNCHANGED <<file, row>>
        BY <4>2 DEF Permanent
      <4>3. ASSUME NEW h \in Hashes, StillExpired(h), file' = file \ {h},
                   row' \in {row, [row EXCEPT ![h] = NoRow]}
            PROVE  \A g \in Hashes :
                      /\ g \in file /\ Permanent(g) => g \in file' /\ Permanent(g)'
                      /\ Permanent(g)' => Permanent(g)
        <5>1. ~Permanent(h) /\ (\A g \in Hashes \ {h} : row'[g] = row[g])
              /\ row'[h] \in {row[h], NoRow}
          BY <2>0, <4>3 DEF StillExpired, Expired, Permanent
        <5> QED
          BY <4>3, <5>1 DEF Permanent, NoRow
      <4> QED
        BY <2>4, <4>1, <4>2, <4>3 DEF CleanStep, CleanStart, CleanSelect, CleanScan, CleanItem,
                                      CleanItemFails, CleanItemHalf
    <3> QED
      BY <3>1, <3>2, OthersKeep
  <2>5. CASE Tick
    <3>1. /\ UNCHANGED <<pc, file, installed, undone>> /\ arg'[Starter].hash = arg[Starter].hash
      BY <2>0, <2>5 DEF Tick, TypeOK
    <3>2. \A g \in Hashes : row'[g].retention = row[g].retention
      BY <2>0, <2>5 DEF Tick, Row, HasRow, NoRow
    <3> QED
      BY <3>1, <3>2, OthersKeep DEF Permanent
  <2>6. CASE End
    BY <2>0, <2>6 DEF End, Seen, BuiltinIsThere
  <2>7. CASE Close \/ Start \/ UNCHANGED vars
    BY <2>0, <2>7 DEF Close, Start, vars, thread, history, Seen, BuiltinIsThere, Permanent
  <2> QED
    BY <2>1, <2>2, <2>3, <2>4, <2>5, <2>6, <2>7, ThreadKeeps DEF Next, EnsureStep
<1> QED
  BY <1>1, <1>2, ApartStep DEF BInv

------------------------------------------------------------------------------
\* Every variable keeps its type.
THEOREM TypeCorrect == Spec => []TypeOK
<1>1. BInv => TypeOK
  BY DEF BInv
<1> QED
  BY <1>1, BInvInit, BInvStep, PTL DEF Spec

\* What ensure_builtin_resources has seen to stays there and permanent until a
\* caller removes it or adds it as expiring.
THEOREM BuiltinCorrect == Spec => []BuiltinIsThere
<1>1. BInv => BuiltinIsThere
  BY DEF BInv
<1> QED
  BY <1>1, BInvInit, BInvStep, PTL DEF Spec

\* The cleanup deletes no file in use and none last added as permanent: what a
\* step deletes was removed by a call, or is expired, with a row that is no
\* older than the last use by more than a call.
THEOREM UsedStaysCorrect == Spec => UsedStays
<1>1. ASSUME UInv, [Next]_vars, NEW h \in file, h \notin file'
      PROVE  \/ since[h] > Expire - MaxLag /\ h \notin lasting
             \/ \E p \in Procs : pc[p] = "remove" /\ pc'[p] = "idle" /\ arg[p].hash = h
  <2>1. /\ TypeOK /\ Roles /\ Fresh /\ Lasting /\ h \in Hashes /\ since[h] \in Nat
        /\ row[h].age \in Nat /\ lag \in Nat
    BY <1>1 DEF UInv, TypeOK, Age, Row
  <2>2. CASE CleanStep
    <3>1. StillExpired(h)
      BY <1>1, <2>2 DEF CleanStep, CleanStart, CleanFlush, CleanSelect, CleanScan, CleanItem,
                        CleanItemFails, CleanItemHalf
    <3>2. HasRow(h) /\ row[h].age > Expire /\ ~Permanent(h)
      BY <2>1, <3>1 DEF StillExpired, Expired, HasRow, Permanent
    <3> QED
      BY <2>1, <3>2 DEF Fresh, Lasting
  <2>3. ASSUME NEW p \in Threads, ThreadStep(p)
        PROVE  \E q \in Procs : pc[q] = "remove" /\ pc'[q] = "idle" /\ arg[q].hash = h
    <3>1. (remove_file(p) \/ remove_half(p)) /\ h = arg[p].hash
      BY <1>1, <2>3 DEF ThreadStep, AddLook, AddPlace, AddPlaceHalf, get_file_path, renew,
                        remove_file, remove_half, Removed
    <3>2. pc[p] = "remove" /\ pc'[p] = "idle"
      BY <2>1, <3>1 DEF remove_file, remove_half, Return, TypeOK
    <3>3. p \in Procs
      BY <2>1, <3>2 DEF Roles, Threads
    <3> QED
      BY <3>1, <3>2, <3>3
  <2>4. ~UNCHANGED file
    BY <1>1
  <2> QED
    BY <1>1, <2>2, <2>3, <2>4 DEF Next, CallerStep, Call, EnsureStep, EnsureMeta, EnsureCheck, Tick,
                                  Close, End, Start, vars
<1>2. UInv /\ [Next]_vars => [\A h \in file \ file' :
          \/ since[h] > Expire - MaxLag /\ h \notin lasting
          \/ \E p \in Procs : pc[p] = "remove" /\ pc'[p] = "idle" /\ arg[p].hash = h]_vars
  BY <1>1
<1> QED
  BY <1>2, UInvInit, UInvStep, PTL DEF Spec, UsedStays

------------------------------------------------------------------------------
\* AutoMapping

\* Who drains, and when nobody can
Drain ==
    /\ drainer = "nobody" => taken = Clean
    /\ boot = "load" => drainer = "nobody" /\ ~flush /\ life = "open"
    /\ drainer = "flush" => flush
    /\ drainer = "kill" => life = "closing"

Counted(k) ==
    /\ mem[k].ver <= changes /\ db[k].ver <= changes
    /\ dirty[k].ver <= changes /\ taken[k].ver <= changes
    /\ wanted[k] <= mem[k].ver
    /\ boot = "load" => wanted[k] = 0

\* What waits is not older than the dictionary, or than the table before the load.
Newer(k) ==
    /\ boot = "load" => /\ mem[k].live => mem[k].ver >= db[k].ver
                        /\ Writes(dirty[k]) => dirty[k].ver >= db[k].ver
    /\ boot # "load" /\ Writes(dirty[k]) => dirty[k].ver >= mem[k].ver
    /\ Writes(taken[k]) /\ ~Writes(dirty[k]) => taken[k].ver >= mem[k].ver

\* No change is forgotten.
Kept(k) ==
    boot # "load" /\ k \notin lost
        => mem[k].ver <= db[k].ver \/ Writes(dirty[k]) \/ Writes(taken[k])

\* What flush or kill asked for is in the copy they took, or written.
Asked(k) ==
    drainer \in {"flush", "kill"} =>
        /\ Writes(taken[k]) => wanted[k] <= taken[k].ver
        /\ ~Writes(taken[k]) /\ k \notin lost => wanted[k] <= db[k].ver

Promised(k) ==
    ~redone => /\ promised[k] <= db[k].ver
               /\ Writes(taken[k]) => promised[k] <= taken[k].ver
               /\ boot # "load" => promised[k] <= mem[k].ver

Promises == \A k \in Keys : Counted(k) /\ Newer(k) /\ Kept(k) /\ Asked(k) /\ Promised(k)

PInv == MappingTypeOK /\ Drain /\ Promises

Same(e, c) == e.ver = c.ver /\ (e.op = "upsert" <=> c.live)

\* Except before the load, what waits is what the dictionary says.
Faithful(k) ==
    boot # "load" /\ k \notin early =>
        /\ Writes(dirty[k]) => Same(dirty[k], mem[k])
        /\ Writes(taken[k]) /\ ~Writes(dirty[k]) => Same(taken[k], mem[k])
        /\ k \in lost \/ mem[k] = db[k] \/ Writes(dirty[k]) \/ Writes(taken[k])

DInv == MappingTypeOK /\ Drain /\ \A k \in Keys : Faithful(k)

HIDE FileCacheAssumption
USE AutoMappingAssumption

------------------------------------------------------------------------------
\* Every variable keeps its type.
LEMMA MappingTypeStep == MappingTypeOK /\ [MappingNext]_mappingVars => MappingTypeOK'
<1> USE DEF MappingTypeOK, Ver, Cell, NoCell, Nothing, Pend, Clean, Drainers,
            writer, table, caller, mappingHistory
<1> SUFFICES ASSUME MappingTypeOK, [MappingNext]_mappingVars PROVE MappingTypeOK'
  OBVIOUS
<1>1. ASSUME NEW k \in Keys, set_item(k) PROVE MappingTypeOK'
  BY <1>1 DEF set_item, Change
<1>2. ASSUME NEW k \in Keys, delete_item(k) PROVE MappingTypeOK'
  BY <1>2 DEF delete_item, Change
<1>3. ASSUME NEW k \in Keys, get(k) PROVE MappingTypeOK'
  BY <1>3 DEF get, MarkTouched
<1>4. ASSUME NEW k \in Keys, touch(k) PROVE MappingTypeOK'
  BY <1>4 DEF touch
<1>5. ASSUME NEW k \in Keys, ExpireKey(k) PROVE MappingTypeOK'
  BY <1>2, <1>5 DEF ExpireKey
<1>6. ASSUME NEW d \in Drainers, NEW ok \in BOOLEAN, Goes(d, ok)
      PROVE /\ boot' \in {"load", "first", "mark", "done"}
            /\ flush' \in BOOLEAN /\ loop' \in {"wait", "due"}
            /\ promised' \in [Keys -> Ver] /\ wanted' \in [Keys -> Ver]
  BY <1>6 DEF Goes, Later
<1>7. ASSUME NEW d \in Drainers, DrainNothing(d) PROVE MappingTypeOK'
  BY <1>6, <1>7 DEF DrainNothing, Drained
<1>8. ASSUME NEW d \in Drainers, DrainStart(d) PROVE MappingTypeOK'
  BY <1>8 DEF DrainStart, Take
<1>9. CASE DrainCommit
  <2>1. drainer \in Drainers /\ Goes(drainer, TRUE)
    BY <1>9 DEF DrainCommit
  <2>2. \A k \in Keys : Written(k) \in Cell
    BY DEF Written
  <2>3. db' \in [Keys -> Cell] /\ taken' \in [Keys -> Pend] /\ lost' \in SUBSET Keys
    BY <1>9, <2>2 DEF DrainCommit
  <2> QED
    BY <1>6, <1>9, <2>1, <2>3 DEF DrainCommit, Drained
<1>10. CASE DrainFail
  <2>1. drainer \in Drainers /\ Goes(drainer, FALSE)
    BY <1>10 DEF DrainFail
  <2>2. dirty' \in [Keys -> Pend] /\ taken' \in [Keys -> Pend] /\ lost' \in SUBSET Keys
    BY <1>10 DEF DrainFail, Restored
  <2>3. failures' \in 0..MaxErrors
    BY <1>10 DEF DrainFail
  <2> QED
    BY <1>6, <1>10, <2>1, <2>2, <2>3 DEF DrainFail, Drained
<1>19. CASE DrainRaise
  <2>1. drainer \in Drainers /\ Goes(drainer, FALSE)
    BY <1>19 DEF DrainRaise
  <2>2. taken' \in [Keys -> Pend] /\ lost' \in SUBSET Keys
    BY <1>19 DEF DrainRaise
  <2>3. failures' \in 0..MaxErrors
    BY <1>19 DEF DrainRaise
  <2> QED
    BY <1>6, <1>19, <2>1, <2>2, <2>3 DEF DrainRaise, Raised
<1>11. CASE LoopWake
  BY <1>11 DEF LoopWake
<1>12. CASE CallFlush
  BY <1>12 DEF CallFlush
<1>13. CASE Initiate
  BY <1>13 DEF Initiate
<1>14. CASE Mark
  BY <1>14 DEF Mark
<1>15. CASE CallKill
  BY <1>15 DEF CallKill
<1>16. CASE CloseMapping
  BY <1>16 DEF CloseMapping
<1>17. CASE Restart
  <2>1. starts' \in 1..MaxStarts
    BY <1>17 DEF Restart
  <2>2. /\ mem' \in [Keys -> Cell] /\ dirty' \in [Keys -> Pend]
        /\ taken' \in [Keys -> Pend] /\ wanted' \in [Keys -> Ver]
    BY <1>17 DEF Restart
  <2> QED
    BY <1>17, <2>1, <2>2 DEF Restart
<1>18. CASE UNCHANGED mappingVars
  BY <1>18 DEF mappingVars
<1> QED
  BY <1>1, <1>2, <1>3, <1>4, <1>5, <1>7, <1>8, <1>9, <1>10, <1>11, <1>12,
     <1>13, <1>14, <1>15, <1>16, <1>17, <1>18, <1>19 DEF MappingNext

LEMMA MappingTypeInit == MappingInit => MappingTypeOK
<1>1. NoCell \in Cell /\ Nothing \in Pend /\ 0 \in Ver
  BY DEF Ver, Cell, NoCell, Nothing, Pend
<1>2. 1 \in 1..MaxStarts /\ 0 \in 0..MaxErrors
  OBVIOUS
<1>3. ASSUME MappingInit
      PROVE  /\ mem \in [Keys -> Cell] /\ db \in [Keys -> Cell]
             /\ dirty \in [Keys -> Pend] /\ taken \in [Keys -> Pend]
             /\ promised \in [Keys -> Ver] /\ wanted \in [Keys -> Ver]
  BY <1>1, <1>3 DEF MappingInit, Clean
<1>4. ASSUME MappingInit
      PROVE  /\ boot = "load" /\ life = "open" /\ marked = FALSE /\ drainer = "nobody"
             /\ awake = FALSE /\ loop = "wait" /\ flush = FALSE /\ redone = FALSE
             /\ early = {} /\ lost = {} /\ changes = 0 /\ failures = 0 /\ starts = 1
  BY <1>4 DEF MappingInit
<1> QED
  BY <1>1, <1>2, <1>3, <1>4 DEF MappingTypeOK

THEOREM MappingTypeCorrect == MappingSpec => []MappingTypeOK
BY MappingTypeInit, MappingTypeStep, PTL DEF MappingSpec

------------------------------------------------------------------------------
\* Who drains

LEMMA DrainStep == MappingTypeOK /\ Drain /\ [MappingNext]_mappingVars => Drain'
<1> USE DEF Drain, writer, table, caller, mappingHistory
<1> SUFFICES ASSUME MappingTypeOK, Drain, [MappingNext]_mappingVars PROVE Drain'
  OBVIOUS
<1>1. ASSUME NEW k \in Keys, set_item(k) \/ get(k) \/ touch(k) \/ delete_item(k)
      PROVE Drain'
  <2>1. UNCHANGED <<boot, life, drainer, taken, flush>>
    BY <1>1 DEF set_item, get, touch, delete_item
  <2> QED
    BY <2>1
<1>2. ASSUME NEW k \in Keys, ExpireKey(k) PROVE Drain'
  BY <1>1, <1>2 DEF ExpireKey
<1>3. ASSUME NEW d \in Drainers, DrainNothing(d) PROVE Drain'
  BY <1>3 DEF DrainNothing, Goes, Drained, Asks, Drainers, Running
<1>4. ASSUME NEW d \in Drainers, DrainStart(d) PROVE Drain'
  BY <1>4 DEF DrainStart, Take, Asks, Drainers, Running
<1>5. CASE DrainCommit
  BY <1>5 DEF DrainCommit, Goes, Drained
<1>6. CASE DrainFail
  BY <1>6 DEF DrainFail, Goes, Drained
<1>9. CASE DrainRaise
  BY <1>9 DEF DrainRaise, Goes, Raised
<1>7. CASE LoopWake \/ CallFlush \/ Initiate \/ Mark \/ CallKill \/ CloseMapping \/ Restart
  BY <1>7 DEF LoopWake, CallFlush, Initiate, Mark, CallKill, CloseMapping, Restart, Running
<1>8. CASE UNCHANGED mappingVars
  BY <1>8 DEF mappingVars
<1> QED
  BY <1>1, <1>2, <1>3, <1>4, <1>5, <1>6, <1>7, <1>8, <1>9 DEF MappingNext

------------------------------------------------------------------------------
\* Promises

LEMMA Versions ==
  ASSUME MappingTypeOK, NEW k \in Keys
  PROVE  /\ changes \in Nat
         /\ mem[k].ver \in Nat /\ db[k].ver \in Nat
         /\ dirty[k].ver \in Nat /\ taken[k].ver \in Nat
         /\ promised[k] \in Nat /\ wanted[k] \in Nat
         /\ ~Writes(Nothing)
BY DEF MappingTypeOK, Ver, Cell, Pend, Nothing, Writes

\* A change makes the newest version, in the dictionary and in _dirty_data.
LEMMA ChangePromises ==
  ASSUME PInv, NEW c \in Keys, NEW op \in {"upsert", "delete"}, NEW live \in BOOLEAN,
         Change(c, op, live),
         UNCHANGED <<boot, life, db, drainer, taken, flush, lost, promised, wanted, redone>>
  PROVE  Promises'
<1> SUFFICES ASSUME NEW k \in Keys
             PROVE  (Counted(k) /\ Newer(k) /\ Kept(k) /\ Asked(k) /\ Promised(k))'
  BY DEF Promises
<1>1. MappingTypeOK /\ Counted(k) /\ Newer(k) /\ Kept(k) /\ Asked(k) /\ Promised(k)
  BY DEF PInv, Promises
<1>2. changes' = changes + 1
  BY DEF Change
<1>3. /\ k = c => /\ mem'[k] = [ver |-> changes + 1, live |-> live]
                  /\ dirty'[k] = [op |-> op, ver |-> changes + 1]
      /\ k # c => mem'[k] = mem[k] /\ dirty'[k] = dirty[k]
  BY <1>1 DEF Change, MappingTypeOK
<1> QED
  <2>1. CASE k = c
    <3>1. mem'[k].ver = changes + 1 /\ dirty'[k].ver = changes + 1 /\ Writes(dirty'[k])
      BY <1>3, <2>1 DEF Writes
    <3> QED
      BY <1>1, <1>2, <3>1, Versions DEF Counted, Newer, Kept, Asked, Promised
  <2>2. CASE k # c
    BY <1>1, <1>2, <1>3, <2>2, Versions DEF Counted, Newer, Kept, Asked, Promised
  <2> QED
    BY <2>1, <2>2

\* A read or a touch puts nothing older than the dictionary into _dirty_data.
LEMMA TouchPromises ==
  ASSUME PInv, NEW c \in Keys, get(c) \/ touch(c)
  PROVE  Promises'
<1> SUFFICES ASSUME NEW k \in Keys
             PROVE  (Counted(k) /\ Newer(k) /\ Kept(k) /\ Asked(k) /\ Promised(k))'
  BY DEF Promises
<1>1. MappingTypeOK /\ Counted(k) /\ Newer(k) /\ Kept(k) /\ Asked(k) /\ Promised(k)
  BY DEF PInv, Promises
<1>2. UNCHANGED <<boot, mem, db, drainer, taken, changes, lost, promised, wanted, redone>>
  BY DEF get, touch, caller, writer, table, mappingHistory
<1>3. \/ dirty'[k] = dirty[k]
      \/ dirty'[k] = [op |-> "touch", ver |-> 0] /\ dirty[k] = Nothing
      \/ dirty'[k] = [op |-> "upsert", ver |-> mem[k].ver] /\ mem[k].live
  BY <1>1 DEF get, touch, MarkTouched, MappingTypeOK
<1>4. \/ dirty'[k] = dirty[k]
      \/ dirty'[k].ver = 0 /\ ~Writes(dirty'[k]) /\ ~Writes(dirty[k])
      \/ dirty'[k].ver = mem[k].ver /\ Writes(dirty'[k]) /\ mem[k].live
  BY <1>1, <1>3, Versions DEF Writes
<1> QED
  BY <1>1, <1>2, <1>4, Versions DEF Counted, Newer, Kept, Asked, Promised

\* Taking the copy: with _dirty_data clear, the copy holds all that waits.
LEMMA TakePromises ==
  ASSUME PInv, NEW d \in Drainers, Take(d)
  PROVE  Promises'
<1> SUFFICES ASSUME NEW k \in Keys
             PROVE  (Counted(k) /\ Newer(k) /\ Kept(k) /\ Asked(k) /\ Promised(k))'
  BY DEF Promises
<1>1. MappingTypeOK /\ Counted(k) /\ Newer(k) /\ Kept(k) /\ Promised(k)
  BY DEF PInv, Promises
<1>2. UNCHANGED <<boot, mem, db, changes, lost, promised, wanted, redone>>
  BY DEF Take, table, caller, mappingHistory
<1>3. boot # "load" /\ taken[k] = Nothing /\ taken'[k] = dirty[k] /\ dirty'[k] = Nothing
  BY DEF PInv, Drain, Take, Running, Clean
<1>4. ~Writes(Nothing) /\ Nothing.ver = 0
  BY DEF Writes, Nothing
<1> QED
  BY <1>1, <1>2, <1>3, <1>4, Versions DEF Counted, Newer, Kept, Asked, Promised

\* An answer of _drain_dirty promises only to flush and kill, and only when it is good.
LEMMA GoesPromises ==
  ASSUME MappingTypeOK, NEW d \in Drainers, NEW ok \in BOOLEAN, Goes(d, ok), boot # "load", NEW k \in Keys
  PROVE  /\ boot' # "load"
         /\ \/ promised'[k] = promised[k]
            \/ ok /\ d \in {"flush", "kill"} /\ k \notin lost /\ promised'[k] = wanted[k]
         /\ wanted'[k] \in {0, wanted[k]}
BY DEF Goes, Says, Later, MappingTypeOK

LEMMA NothingPromises ==
  ASSUME PInv, NEW d \in Drainers, DrainNothing(d)
  PROVE  Promises'
<1> SUFFICES ASSUME NEW k \in Keys
             PROVE  (Counted(k) /\ Newer(k) /\ Kept(k) /\ Asked(k) /\ Promised(k))'
  BY DEF Promises
<1>1. MappingTypeOK /\ Counted(k) /\ Newer(k) /\ Kept(k) /\ Promised(k)
  BY DEF PInv, Promises
<1>2. /\ UNCHANGED <<mem, dirty, db, drainer, taken, changes, lost, redone>>
      /\ drainer = "nobody" /\ boot # "load" /\ Goes(d, TRUE)
  BY DEF DrainNothing, Running, table
<1>3. dirty[k] = Nothing /\ taken[k] = Nothing
  BY DEF PInv, Drain, DrainNothing, Clean
<1>4. wanted'[k] \in {0, wanted[k]} /\ boot' # "load"
      /\ \/ promised'[k] = promised[k]
         \/ k \notin lost /\ promised'[k] = wanted[k]
  BY <1>1, <1>2, GoesPromises
<1>5. ~Writes(Nothing)
  BY DEF Writes, Nothing
<1>6. (Counted(k) /\ Newer(k) /\ Kept(k) /\ Asked(k))'
  BY <1>1, <1>2, <1>3, <1>4, <1>5, Versions DEF Counted, Newer, Kept, Asked
<1>7. Promised(k)'
  BY <1>1, <1>2, <1>3, <1>4, <1>5, Versions DEF Counted, Kept, Promised
<1> QED
  BY <1>6, <1>7

LEMMA CommitPromises ==
  ASSUME PInv, DrainCommit
  PROVE  Promises'
<1> SUFFICES ASSUME NEW k \in Keys
             PROVE  (Counted(k) /\ Newer(k) /\ Kept(k) /\ Asked(k) /\ Promised(k))'
  BY DEF Promises
<1>1. MappingTypeOK /\ Counted(k) /\ Newer(k) /\ Kept(k) /\ Asked(k) /\ Promised(k)
  BY DEF PInv, Promises
<1>2. /\ UNCHANGED <<mem, dirty, changes, redone>>
      /\ drainer' = "nobody" /\ boot # "load" /\ drainer \in Drainers /\ Goes(drainer, TRUE)
  BY <1>1 DEF PInv, Drain, DrainCommit, MappingTypeOK
<1>3. taken'[k] = Nothing /\ ~Writes(Nothing) /\ Nothing.ver = 0
  BY DEF DrainCommit, Clean, Writes, Nothing
<1>4. /\ Writes(taken[k]) => db'[k].ver = taken[k].ver /\ k \notin lost'
      /\ ~Writes(taken[k]) => db'[k] = db[k] /\ (k \in lost' <=> k \in lost)
  BY <1>1 DEF DrainCommit, Written, Writes, MappingTypeOK
<1>5. wanted'[k] \in {0, wanted[k]} /\ boot' # "load"
      /\ \/ promised'[k] = promised[k]
         \/ drainer \in {"flush", "kill"} /\ k \notin lost /\ promised'[k] = wanted[k]
  BY <1>1, <1>2, GoesPromises
<1>6. (Counted(k) /\ Newer(k) /\ Kept(k) /\ Asked(k))'
  BY <1>1, <1>2, <1>3, <1>4, <1>5, Versions DEF Counted, Newer, Kept, Asked
<1>7. Promised(k)'
  BY <1>1, <1>2, <1>3, <1>4, <1>5, Versions DEF Counted, Newer, Asked, Promised
<1> QED
  BY <1>6, <1>7

LEMMA FailPromises ==
  ASSUME PInv, DrainFail
  PROVE  Promises'
<1> SUFFICES ASSUME NEW k \in Keys
             PROVE  (Counted(k) /\ Newer(k) /\ Kept(k) /\ Asked(k) /\ Promised(k))'
  BY DEF Promises
<1>1. MappingTypeOK /\ Counted(k) /\ Newer(k) /\ Kept(k) /\ Asked(k) /\ Promised(k)
  BY DEF PInv, Promises
<1>2. /\ UNCHANGED <<mem, db, changes, redone>>
      /\ drainer' = "nobody" /\ boot # "load" /\ drainer \in Drainers /\ Goes(drainer, FALSE)
  BY <1>1 DEF PInv, Drain, DrainFail, MappingTypeOK, table
<1>3. taken'[k] = Nothing /\ ~Writes(Nothing) /\ Nothing.ver = 0
  BY DEF DrainFail, Clean, Writes, Nothing
<1>4. /\ dirty'[k] = IF dirty[k] = Nothing THEN taken[k] ELSE dirty[k]
      /\ k \in lost' <=> k \in lost \/ (Writes(taken[k]) /\ dirty[k].op = "touch")
      /\ dirty[k] = Nothing \/ dirty[k].op = "touch" \/ Writes(dirty[k])
  BY <1>1 DEF DrainFail, Restored, MappingTypeOK, Pend, Writes
<1>5. wanted'[k] \in {0, wanted[k]} /\ boot' # "load" /\ promised'[k] = promised[k]
  BY <1>1, <1>2, GoesPromises
<1>6. (Counted(k) /\ Newer(k) /\ Kept(k) /\ Asked(k))'
  BY <1>1, <1>2, <1>3, <1>4, <1>5, Versions DEF Counted, Newer, Kept, Asked
<1>7. Promised(k)'
  BY <1>1, <1>2, <1>3, <1>4, <1>5, Versions DEF Promised
<1> QED
  BY <1>6, <1>7

\* What an exception takes along is lost, and nobody is promised anything.
LEMMA RaisePromises ==
  ASSUME PInv, DrainRaise
  PROVE  Promises'
<1> SUFFICES ASSUME NEW k \in Keys
             PROVE  (Counted(k) /\ Newer(k) /\ Kept(k) /\ Asked(k) /\ Promised(k))'
  BY DEF Promises
<1>1. MappingTypeOK /\ Counted(k) /\ Newer(k) /\ Kept(k) /\ Asked(k) /\ Promised(k)
  BY DEF PInv, Promises
<1>2. /\ UNCHANGED <<mem, dirty, db, changes, redone>>
      /\ drainer' = "nobody" /\ boot # "load" /\ drainer \in Drainers /\ Goes(drainer, FALSE)
  BY <1>1 DEF PInv, Drain, DrainRaise, MappingTypeOK, table
<1>3. taken'[k] = Nothing /\ ~Writes(Nothing) /\ Nothing.ver = 0
  BY DEF DrainRaise, Clean, Writes, Nothing
<1>4. k \in lost' <=> k \in lost \/ Writes(taken[k])
  BY DEF DrainRaise
<1>5. wanted'[k] \in {0, wanted[k]} /\ boot' # "load" /\ promised'[k] = promised[k]
  BY <1>1, <1>2, GoesPromises
<1>6. (Counted(k) /\ Newer(k) /\ Kept(k) /\ Asked(k))'
  BY <1>1, <1>2, <1>3, <1>4, <1>5, Versions DEF Counted, Newer, Kept, Asked
<1>7. Promised(k)'
  BY <1>1, <1>2, <1>3, <1>5, Versions DEF Promised
<1> QED
  BY <1>6, <1>7

\* After the load the dictionary is the table; after a migration everything is of version 0.
LEMMA InitiatePromises ==
  ASSUME PInv, Initiate
  PROVE  Promises'
<1> SUFFICES ASSUME NEW k \in Keys
             PROVE  (Counted(k) /\ Newer(k) /\ Kept(k) /\ Asked(k) /\ Promised(k))'
  BY DEF Promises
<1>1. MappingTypeOK /\ Counted(k) /\ Newer(k) /\ Kept(k) /\ Asked(k) /\ Promised(k)
  BY DEF PInv, Promises
<1>2. /\ boot = "load" /\ boot' # "load" /\ drainer = "nobody" /\ taken[k] = Nothing
      /\ UNCHANGED <<drainer, taken, changes, lost, promised, wanted>>
  BY DEF PInv, Drain, Initiate, Clean, writer, caller
<1>3. ~Writes(Nothing) /\ Nothing.ver = 0
  BY DEF Writes, Nothing
<1>4. CASE ~marked /\ Legacy # {}
  <2>1. /\ mem'[k].ver = 0 /\ db'[k].ver = 0 /\ dirty'[k].ver = 0
        /\ ~redone' => ~redone /\ db[k].ver = 0
    <3>1. /\ mem' = [c \in Keys |-> [ver |-> 0, live |-> c \in Legacy]]
          /\ db' = [c \in Keys |-> NoCell]
          /\ dirty' = [c \in Keys |-> IF c \in Legacy THEN [op |-> "upsert", ver |-> 0] ELSE Nothing]
          /\ redone' = (redone \/ \E c \in Keys : db[c].ver > 0)
      BY <1>4 DEF Initiate
    <3>2. mem'[k].ver = 0 /\ db'[k].ver = 0 /\ dirty'[k].ver = 0
      BY <3>1 DEF NoCell, Nothing
    <3>3. ~redone' => ~redone /\ ~(db[k].ver > 0)
      BY <3>1, Zenon
    <3> QED
      BY <1>1, <3>2, <3>3, Versions
  <2> QED
    BY <1>1, <1>2, <1>3, <2>1, Versions DEF Counted, Newer, Kept, Asked, Promised
<1>5. CASE ~(~marked /\ Legacy # {})
  <2>1. mem' = db /\ dirty' = dirty /\ db' = db /\ redone' = redone
    BY <1>5, <1>1 DEF Initiate, MappingTypeOK
  <2> QED
    BY <1>1, <1>2, <1>3, <2>1, Versions DEF Counted, Newer, Kept, Asked, Promised
<1> QED
  BY <1>4, <1>5

LEMMA RestartPromises ==
  ASSUME PInv, Restart
  PROVE  Promises'
<1> SUFFICES ASSUME NEW k \in Keys
             PROVE  (Counted(k) /\ Newer(k) /\ Kept(k) /\ Asked(k) /\ Promised(k))'
  BY DEF Promises
<1>1. MappingTypeOK /\ Counted(k) /\ Promised(k)
  BY DEF PInv, Promises
<1>2. /\ mem'[k] = NoCell /\ dirty'[k] = Nothing /\ taken'[k] = Nothing /\ wanted'[k] = 0
      /\ boot' = "load" /\ drainer' = "nobody"
      /\ UNCHANGED <<db, changes, promised, redone>>
  BY DEF Restart, Clean, table
<1>3. ~Writes(Nothing) /\ Nothing.ver = 0 /\ NoCell.ver = 0 /\ ~NoCell.live
  BY DEF Writes, Nothing, NoCell
<1> QED
  BY <1>1, <1>2, <1>3, Versions DEF Counted, Newer, Kept, Asked, Promised

\* flush and kill ask for what the dictionary has, while the other is not under way.
LEMMA AskPromises ==
  ASSUME PInv, CallFlush \/ CallKill
  PROVE  Promises'
<1> SUFFICES ASSUME NEW k \in Keys
             PROVE  (Counted(k) /\ Newer(k) /\ Kept(k) /\ Asked(k) /\ Promised(k))'
  BY DEF Promises
<1>1. MappingTypeOK /\ Counted(k) /\ Newer(k) /\ Kept(k) /\ Asked(k) /\ Promised(k)
  BY DEF PInv, Promises
<1>2. /\ boot # "load" /\ drainer \notin {"flush", "kill"} /\ wanted'[k] = mem[k].ver
      /\ UNCHANGED <<boot, mem, dirty, db, drainer, taken, changes, lost, promised, redone>>
  BY DEF PInv, Drain, CallFlush, CallKill, Running, table, writer, caller
<1> QED
  BY <1>1, <1>2, Versions DEF Counted, Newer, Kept, Asked, Promised

LEMMA PromiseStep == PInv /\ [MappingNext]_mappingVars => Promises'
<1> SUFFICES ASSUME PInv, [MappingNext]_mappingVars PROVE Promises'
  OBVIOUS
<1>1. ASSUME NEW k \in Keys, set_item(k) PROVE Promises'
  BY <1>1, ChangePromises DEF set_item, table, writer
<1>2. ASSUME NEW k \in Keys, delete_item(k) PROVE Promises'
  BY <1>2, ChangePromises DEF delete_item, table, writer
<1>3. ASSUME NEW k \in Keys, ExpireKey(k) PROVE Promises'
  BY <1>2, <1>3 DEF ExpireKey
<1>4. ASSUME NEW d \in Drainers, DrainStart(d) PROVE Promises'
  BY <1>4, TakePromises DEF DrainStart
<1>5. CASE LoopWake \/ CloseMapping \/ UNCHANGED mappingVars
  <2>1. UNCHANGED <<boot, mem, dirty, db, drainer, taken, changes, lost, promised, wanted, redone>>
    BY <1>5 DEF LoopWake, CloseMapping, mappingVars, table, writer, caller, mappingHistory
  <2> QED
    BY <2>1 DEF PInv, Promises, Counted, Newer, Kept, Asked, Promised
<1>6. CASE Mark
  <2>1. /\ boot = "mark" /\ boot' = "done"
        /\ UNCHANGED <<mem, dirty, db, drainer, taken, changes, lost, promised, wanted, redone>>
    BY <1>6 DEF Mark, writer, caller, mappingHistory
  <2> QED
    BY <2>1 DEF PInv, Promises, Counted, Newer, Kept, Asked, Promised
<1> QED
  BY <1>1, <1>2, <1>3, <1>4, <1>5, <1>6, TouchPromises, NothingPromises, CommitPromises,
     FailPromises, RaisePromises, InitiatePromises, RestartPromises, AskPromises DEF MappingNext

LEMMA PromiseInit == MappingInit => PInv
<1> SUFFICES ASSUME MappingInit PROVE PInv
  OBVIOUS
<1>1. MappingTypeOK /\ Drain
  BY MappingTypeInit DEF MappingInit, Drain
<1>2. ASSUME NEW k \in Keys
      PROVE  Counted(k) /\ Newer(k) /\ Kept(k) /\ Asked(k) /\ Promised(k)
  BY DEF MappingInit, Counted, Newer, Kept, Asked, Promised, Clean, Nothing, NoCell, Writes
<1> QED
  BY <1>1, <1>2 DEF PInv, Promises

\* What flush or kill said was written is in the table, whatever fails, crashes
\* or starts again afterwards, unless the migration runs a second time.
THEOREM PromiseCorrect == MappingSpec => []PromiseIsKept
<1>1. PInv /\ [MappingNext]_mappingVars => PInv'
  BY MappingTypeStep, DrainStep, PromiseStep DEF PInv
<1>2. PInv => PromiseIsKept
  BY DEF PInv, Promises, Promised, PromiseIsKept
<1> QED
  BY <1>1, <1>2, PromiseInit, PTL DEF MappingSpec

------------------------------------------------------------------------------
\* What differs is on its way

LEMMA ChangeFaithful ==
  ASSUME DInv, NEW c \in Keys, NEW k \in Keys, NEW op, NEW live \in BOOLEAN,
         Change(c, op, live), op = IF live THEN "upsert" ELSE "delete",
         UNCHANGED <<boot, db, taken, lost>>
  PROVE  Faithful(k)'
<1>1. MappingTypeOK /\ Faithful(k)
  BY DEF DInv
<1>2. /\ k = c => /\ mem'[k] = [ver |-> changes + 1, live |-> live]
                  /\ dirty'[k] = [op |-> op, ver |-> changes + 1]
      /\ k # c => mem'[k] = mem[k] /\ dirty'[k] = dirty[k] /\ (k \in early' <=> k \in early)
  BY <1>1 DEF Change, MappingTypeOK
<1>3. CASE k = c
  BY <1>2, <1>3 DEF Faithful, Writes, Same
<1>4. CASE k # c
  BY <1>1, <1>2, <1>4 DEF Faithful
<1> QED
  BY <1>3, <1>4

LEMMA TouchFaithful ==
  ASSUME DInv, NEW c \in Keys, get(c) \/ touch(c), NEW k \in Keys
  PROVE  Faithful(k)'
<1>1. MappingTypeOK /\ Faithful(k)
  BY DEF DInv
<1>2. UNCHANGED <<boot, mem, db, taken, early, lost>>
  BY DEF get, touch, writer, table, mappingHistory
<1>3. \/ dirty'[k] = dirty[k]
      \/ dirty'[k] = [op |-> "touch", ver |-> 0] /\ dirty[k] = Nothing
      \/ dirty'[k] = [op |-> "upsert", ver |-> mem[k].ver] /\ mem[k].live
  BY <1>1 DEF get, touch, MarkTouched, MappingTypeOK
<1> QED
  BY <1>1, <1>2, <1>3 DEF Faithful, Same, Writes, Nothing

LEMMA DrainFaithful ==
  ASSUME DInv, NEW k \in Keys,
         (\E d \in Drainers : DrainNothing(d) \/ DrainStart(d)) \/ DrainCommit
         \/ DrainFail \/ DrainRaise
  PROVE  Faithful(k)'
<1>1. MappingTypeOK /\ Faithful(k) /\ boot # "load"
  BY DEF DInv, Drain, DrainNothing, DrainStart, Take, DrainCommit, DrainFail, DrainRaise, Running
<1>2. ~Writes(Nothing)
  BY DEF Writes, Nothing
<1>3. CASE \E d \in Drainers : DrainNothing(d)
  BY <1>1, <1>3 DEF DrainNothing, Faithful, table
<1>4. CASE \E d \in Drainers : DrainStart(d)
  <2>1. /\ taken[k] = Nothing /\ taken'[k] = dirty[k] /\ dirty'[k] = Nothing
        /\ UNCHANGED <<boot, mem, db, early, lost>>
    BY <1>4 DEF DInv, Drain, DrainStart, Take, Clean, table, mappingHistory
  <2> QED
    BY <1>1, <1>2, <2>1 DEF Faithful
<1>5. CASE DrainCommit
  <2>1. /\ Writes(taken[k]) => /\ db'[k] = [ver |-> taken[k].ver, live |-> taken[k].op = "upsert"]
                               /\ k \notin lost'
        /\ ~Writes(taken[k]) => db'[k] = db[k] /\ (k \in lost' <=> k \in lost)
    BY <1>1, <1>5 DEF DrainCommit, Written, Writes, MappingTypeOK
  <2>2. UNCHANGED <<mem, dirty, early>> /\ taken'[k] = Nothing
    BY <1>5 DEF DrainCommit, Clean
  <2>3. Same(taken[k], mem[k]) => mem[k] = [ver |-> taken[k].ver, live |-> taken[k].op = "upsert"]
    BY <1>1 DEF Same, MappingTypeOK, Cell
  <2> QED
    BY <1>1, <1>2, <2>1, <2>2, <2>3 DEF Faithful
<1>6. CASE DrainFail
  <2>1. /\ dirty'[k] = IF dirty[k] = Nothing THEN taken[k] ELSE dirty[k]
        /\ k \in lost' <=> k \in lost \/ (Writes(taken[k]) /\ dirty[k].op = "touch")
        /\ dirty[k] = Nothing \/ dirty[k].op = "touch" \/ Writes(dirty[k])
    BY <1>1, <1>6 DEF DrainFail, Restored, MappingTypeOK, Pend, Writes
  <2>2. UNCHANGED <<mem, db, early>> /\ taken'[k] = Nothing
    BY <1>6 DEF DrainFail, Clean, table
  <2> QED
    BY <1>1, <1>2, <2>1, <2>2 DEF Faithful
<1>7. CASE DrainRaise
  <2>1. /\ UNCHANGED <<mem, dirty, db, early>> /\ taken'[k] = Nothing
        /\ k \in lost' <=> k \in lost \/ Writes(taken[k])
    BY <1>7 DEF DrainRaise, Clean, table
  <2> QED
    BY <1>1, <1>2, <2>1 DEF Faithful
<1> QED
  BY <1>3, <1>4, <1>5, <1>6, <1>7

LEMMA InitiateFaithful ==
  ASSUME DInv, Initiate, NEW k \in Keys
  PROVE  Faithful(k)'
<1>1. taken[k] = Nothing /\ taken' = taken
  BY DEF DInv, Drain, Initiate, Clean, writer
<1>2. ~Writes(Nothing)
  BY DEF Writes, Nothing
<1>3. CASE ~marked /\ Legacy # {}
  <2>1. /\ mem'[k] = [ver |-> 0, live |-> k \in Legacy]
        /\ db'[k] = NoCell
        /\ dirty'[k] = IF k \in Legacy THEN [op |-> "upsert", ver |-> 0] ELSE Nothing
    BY <1>3 DEF Initiate
  <2>2. CASE k \in Legacy
    <3>1. Writes(dirty'[k]) /\ Same(dirty'[k], mem'[k])
      <4>1. (k \in Legacy) = TRUE
        BY <2>2
      <4>2. mem'[k] = [ver |-> 0, live |-> TRUE]
        BY <2>1, <4>1, Zenon
      <4> QED
        BY <2>1, <2>2, <4>2 DEF Same, Writes
    <3> QED
      BY <1>1, <1>2, <3>1 DEF Faithful
  <2>3. CASE k \notin Legacy
    <3>1. mem'[k] = db'[k] /\ dirty'[k] = Nothing
      <4>1. (k \in Legacy) = FALSE
        BY <2>3
      <4>2. mem'[k] = [ver |-> 0, live |-> FALSE]
        BY <2>1, <4>1, Zenon
      <4> QED
        BY <2>1, <2>3, <4>2 DEF NoCell
    <3> QED
      BY <1>1, <1>2, <3>1 DEF Faithful
  <2> QED
    BY <2>2, <2>3
<1>4. CASE ~(~marked /\ Legacy # {})
  <2>1. mem' = db /\ db' = db /\ dirty' = dirty /\ (k \notin early' => dirty[k] = Nothing)
    BY <1>4 DEF Initiate, DInv, MappingTypeOK
  <2> QED
    BY <1>1, <1>2, <2>1 DEF Faithful
<1> QED
  BY <1>3, <1>4

\* A key whose row is not what the dictionary says is in _dirty_data or in the
\* drainer's copy, with the last change.
THEOREM DifferenceCorrect == MappingSpec => []DifferenceIsPending
<1>1. MappingInit => DInv
  BY MappingTypeInit DEF MappingInit, DInv, Drain, Faithful
<1>2. DInv /\ [MappingNext]_mappingVars => DInv'
  <2> SUFFICES ASSUME DInv, [MappingNext]_mappingVars, NEW k \in Keys PROVE Faithful(k)'
    BY MappingTypeStep, DrainStep DEF DInv
  <2>1. ASSUME NEW c \in Keys, set_item(c) PROVE Faithful(k)'
    BY <2>1, ChangeFaithful DEF set_item, table, writer
  <2>2. ASSUME NEW c \in Keys, delete_item(c) PROVE Faithful(k)'
    BY <2>2, ChangeFaithful DEF delete_item, table, writer
  <2>3. ASSUME NEW c \in Keys, ExpireKey(c) PROVE Faithful(k)'
    BY <2>2, <2>3 DEF ExpireKey
  <2>4. CASE LoopWake \/ CloseMapping \/ CallFlush \/ CallKill \/ Mark \/ UNCHANGED mappingVars
    <3>1. /\ UNCHANGED <<mem, dirty, db, taken, early, lost>>
          /\ boot' = boot \/ (boot = "mark" /\ boot' = "done")
      BY <2>4 DEF LoopWake, CloseMapping, CallFlush, CallKill, Mark, mappingVars, table, writer, caller, mappingHistory
    <3> QED
      BY <3>1 DEF DInv, Faithful
  <2>5. CASE Restart
    BY <2>5 DEF Restart, Faithful
  <2> QED
    BY <2>1, <2>2, <2>3, <2>4, <2>5, TouchFaithful, DrainFaithful, InitiateFaithful DEF MappingNext
<1>3. DInv => DifferenceIsPending
  BY DEF DInv, Faithful, DifferenceIsPending, Pending, Same
<1> QED
  BY <1>1, <1>2, <1>3, PTL DEF MappingSpec
=============================================================================
