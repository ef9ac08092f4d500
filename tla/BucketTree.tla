----------------------------- MODULE BucketTree -----------------------------
(***************************************************************************)
(* The tree of memory buckets, the redirects between a bucket and its      *)
(* successor, and the locks: one per bucket and the global meta lock.      *)
(*                                                                         *)
(* A bucket is never rewritten in place.  A compression or a split creates *)
(* a successor, writes the records into it and seals the old bucket, which *)
(* from then on redirects.  An operation resolves the redirect first and   *)
(* waits for the lock of what it resolved after that.                      *)
(***************************************************************************)
EXTENDS Integers, FiniteSets, FiniteSetsExt

CONSTANTS
  Procs,     \* coroutines that call the engine
  Memories,  \* keys of memories
  None,      \* no owner of a lock
  Leaked,    \* the owner of a lock whose holder is gone without releasing it
  Ops,       \* the kinds of operations they call
  MaxOps,    \* bound: operations in a behaviour
  MaxShared, \* bound: operations begun while another may be running
  MaxDepth   \* max_bucket_depth

Kinds == {"create", "add", "delete", "move", "compress", "split", "resume"}

\* Bucket ids in the order of creation (bound: an operation creates about three).
Buckets == 1 .. 2 + 3 * MaxOps

ASSUME BucketAssumption ==
  /\ IsFiniteSet(Procs) /\ Procs # {}
  /\ None \notin Procs /\ Leaked \notin Procs \cup {None}
  /\ Memories \cap Buckets = {}
  /\ Ops \subseteq Kinds
  /\ MaxOps \in Nat /\ MaxShared \in Nat /\ MaxDepth \in Nat

Keys == Memories \cup Buckets   \* the key of a bucket's node record is the bucket

VARIABLES
  tree,    \* bucket -> parent, sealed_to (0: not sealed), level
  count,   \* buckets created so far
  title,   \* child_title_maps for one title: parent -> child (0: none)
  root,    \* root_bucket_id
  rec,     \* latest revision of a key: bucket (0: no record), gray, child
  owner,   \* BucketLockManager: who holds the lock of a bucket
  meta,    \* _global_meta_lock
  pc, job, \* a coroutine and the local variables of its operation
  ops,     \* operations begun
  origin,  \* history: the bucket a chain of successors began with
  titled,  \* history: buckets created with the title
  gone,    \* history: memories dropped by a compression or deleted
  shared,  \* history: two operations have overlapped
  stale,   \* history: a link was changed for a bucket that was sealed
  bare     \* history: a bucket was rewritten without its lock while another held it

data == <<tree, count, title, root, rec>>
history == <<origin, titled, gone, shared, stale, bare>>
steady == <<ops, shared, stale, bare>>   \* what few actions change
vars == <<data, owner, meta, pc, job, ops, history>>

NoRecord == [in |-> 0, gray |-> FALSE, child |-> 0]
NoJob == [kind |-> "none", at |-> 0, to |-> 0, wants |-> {}, key |-> 0, cur |-> NoRecord,
          todo |-> {}, keep |-> {}, seen |-> <<>>, group |-> 0, succ |-> 0,
          manage |-> FALSE, owes |-> 0]

Live == {b \in 1 .. count : tree[b].sealed_to = 0}
Sealed(b) == tree[b].sealed_to # 0

\* _resolve_bucket_redirect_chain: a successor is younger than its source.
Resolve == LET latest[b \in Buckets] ==
                 IF tree[b].sealed_to = 0 THEN b ELSE latest[tree[b].sealed_to]
           IN  latest

\* Buckets a caller has a handle of: the root and the children of node records.
Named == {Resolve[root]} \cup {Resolve[rec[k].child] : k \in {j \in Buckets : rec[j].child # 0}}

\* load_bucket_snapshot without gray records.
Direct(b) == {k \in Keys : rec[k].in = b /\ ~rec[k].gray}

\* Buckets a query reaches from the root: the nodes of a bucket, redirected.
Children(S) == {Resolve[rec[k].child] : k \in {j \in Buckets : ~rec[j].gray /\ rec[j].in \in S}}
Within(S) == LET within[n \in 0 .. count] ==
                   IF n = 0 THEN S ELSE within[n - 1] \cup Children(within[n - 1])
             IN  within[count]
Reached == Within({Resolve[root]})

\* _is_bucket_descendant_unlocked.
Descends(b, ancestor) ==
  LET above[n \in 0 .. count] ==
        IF n = 0 THEN {b} ELSE above[n - 1] \cup {tree[c].parent : c \in above[n - 1] \ {0}}
  IN  ancestor \in above[count]

Quiet == \A p \in Procs : pc[p] = "idle"
Held(p) == {b \in Buckets : owner[b] = p}

\* The end of an operation, by return or exception: `async with` releases the locks.
Finish(p) ==
  /\ owner' = [b \in Buckets |-> IF owner[b] = p THEN None ELSE owner[b]]
  /\ meta' = IF meta = p THEN None ELSE meta
  /\ pc' = [pc EXCEPT ![p] = "idle"]
  /\ job' = [job EXCEPT ![p] = NoJob]
\* The end of `async with` of the bucket lock alone; the operation goes on.
Unlock(p, l, j) ==
  /\ owner' = [b \in Buckets |-> IF owner[b] = p THEN None ELSE owner[b]]
  /\ pc' = [pc EXCEPT ![p] = l]
  /\ job' = [job EXCEPT ![p] = j]
  /\ UNCHANGED meta
Throw(p) == Finish(p) /\ UNCHANGED <<data, origin, titled, gone>>
Goto(p, l, j) ==
  /\ pc' = [pc EXCEPT ![p] = l]
  /\ job' = [job EXCEPT ![p] = j]
  /\ UNCHANGED <<owner, meta>>

On(kind, b) == [NoJob EXCEPT !.kind = kind, !.at = b, !.wants = {b}]
\* _auto_manage_bucket of an unsealed bucket begins with the forgetting.
Manage(b, key) == [On("manage", b) EXCEPT !.key = key, !.todo = Direct(b) \cap Memories]

\* The end of an operation, or of the rewrite an overflow called for: then the
\* memory is ingested again, by a resumed job after it has managed the bucket.
Return(p) ==
  LET at == job[p].at
      again == [On("again", IF meta = p THEN Resolve[at] ELSE at) EXCEPT !.key = job[p].owes]
      manages == Held(p) = {} /\ job[p].kind # "manage" /\ ~Sealed(at)
  IN  \/ job[p].owes = 0 /\ Finish(p)
      \/ job[p].owes # 0 /\ meta # p /\ Goto(p, "write", again)
      \/ /\ job[p].owes # 0 /\ meta = p /\ manages
         /\ Goto(p, "forget", [Manage(at, 0) EXCEPT !.owes = job[p].owes])
      \/ job[p].owes # 0 /\ meta = p /\ ~manages /\ Unlock(p, "write", again)

\* The end of a compression or split; _auto_manage_bucket goes on after the one
\* it called, and catches what that one raised, as the caller of an overflow's does.
Complete(p) == IF job[p].manage THEN Goto(p, "managed", job[p]) ELSE Return(p)
Raise(p) ==
  \/ ~job[p].manage /\ Return(p) /\ UNCHANGED <<data, origin, titled, gone>>
  \/ /\ job[p].manage
     /\ pc' = [pc EXCEPT ![p] = "managed"]
     /\ UNCHANGED <<data, owner, meta, job, origin, titled, gone>>

(***************************************************************************)
(* The beginning of an operation: resolve, then wait for the locks.        *)
(***************************************************************************)
Ask(p, op, j) ==
  /\ pc[p] = "idle" /\ op \in Ops
  /\ ops < IF Quiet THEN MaxOps ELSE MaxShared
  /\ shared' = (shared \/ ~Quiet)
  /\ ops' = ops + 1
  /\ pc' = [pc EXCEPT ![p] = IF op = "resume" THEN "meta" ELSE "lock"]
  /\ job' = [job EXCEPT ![p] = j]
  /\ UNCHANGED <<data, owner, meta, origin, titled, gone, stale, bare>>

Adding == {k \in Memories : rec[k].in = 0 /\ \A q \in Procs : k \notin {job[q].key, job[q].owes}}
Present == {k \in Memories \cup 2 .. count : rec[k].in # 0 /\ ~rec[k].gray}

set_bucket(p)  == \E b \in Named : Ask(p, "create", On("create", b))
add_memory(p)  == \E b \in Named, k \in Adding : Ask(p, "add", [On("add", b) EXCEPT !.key = k])
resume_jobs(p) == \E b \in Named, k \in Adding : Ask(p, "resume", [On("resume", b) EXCEPT !.key = k])
\* delete_memory: the parent of a child bucket is read before the wait for the lock.
delete_memory(p) ==
  \E k \in Present :
    LET child == rec[k].child
    IN  Ask(p, "delete", [On("delete", Resolve[rec[k].in]) EXCEPT
              !.key = k, !.group = child, !.to = IF child = 0 THEN 0 ELSE tree[child].parent])
move_item(p) ==
  \E k \in Present, b \in Named :
    Ask(p, "move", [On("move", 0) EXCEPT !.to = b, !.todo = {k}, !.wants = {Resolve[rec[k].in], b}])
compress_bucket(p) == \E b \in Named : Ask(p, "compress", On("compress", b))
split_bucket(p)    == \E b \in Named : Ask(p, "split", On("split", b))
Request(p) ==
  \/ set_bucket(p) \/ add_memory(p) \/ resume_jobs(p) \/ delete_memory(p) \/ move_item(p)
  \/ compress_bucket(p) \/ split_bucket(p)

\* Fault: the lock of the target first, in no order.
NextLock_target(p) == IF job[p].to \in job[p].wants \ Held(p) THEN job[p].to ELSE Min(job[p].wants \ Held(p))
\* acquire_many: the locks in the order of the ids, one await each.
NextLock(p) == Min(job[p].wants \ Held(p))
Start == [create |-> "meta", add |-> "write", delete |-> "read",
          move |-> "fetch", compress |-> "snapshot", split |-> "snapshot",
          manage |-> "pressure"]
\* A compression or split of a bucket by a caller that does not hold its lock.
Unlocked(b) ==
  \E q \in Procs : /\ job[q].kind \in {"compress", "split"} /\ job[q].at = b
                   /\ pc[q] # "lock" /\ owner[b] # q
Acquire(p) ==
  /\ pc[p] = "lock" /\ owner[NextLock(p)] = None
  /\ owner' = [owner EXCEPT ![NextLock(p)] = p]
  /\ pc' = IF job[p].wants \subseteq Held(p) \cup {NextLock(p)}
           THEN [pc EXCEPT ![p] = Start[job[p].kind]] ELSE pc
  /\ bare' = (bare \/ Unlocked(NextLock(p)))
  /\ UNCHANGED <<data, meta, job, ops, origin, titled, gone, shared, stale>>
AcquireMeta(p) ==
  /\ pc[p] = "meta" /\ meta = None
  /\ meta' = p
  /\ pc' = [pc EXCEPT ![p] = IF job[p].kind = "create" THEN "titled" ELSE "write"]
  /\ job' = IF job[p].kind = "create" THEN job ELSE [job EXCEPT ![p].at = Resolve[@]]
  /\ UNCHANGED <<data, owner, ops, history>>

\* A caller is cancelled while it waits.  acquire_many gives back what it holds
\* only once it has all: the locks held by a wait for a later one are lost.
CancelWait(p) ==
  LET lost == IF pc[p] = "lock" THEN Leaked ELSE None
  IN  /\ \/ pc[p] = "lock" /\ owner[NextLock(p)] # None
         \/ pc[p] = "meta" /\ meta # None
      /\ owner' = [b \in Buckets |-> IF owner[b] = p THEN lost ELSE owner[b]]
      /\ meta' = IF meta = p THEN None ELSE meta
      /\ pc' = [pc EXCEPT ![p] = "idle"]
      /\ job' = [job EXCEPT ![p] = NoJob]
      /\ UNCHANGED <<data, ops, history>>

(***************************************************************************)
(* Creating buckets.                                                       *)
(***************************************************************************)
New == count + 1
Info(parent, level) == [parent |-> parent, sealed_to |-> 0, level |-> level]

\* The storage part of create_bucket; node records are written by WriteNode.
Grow(parent, level, first) ==
  /\ New \in Buckets
  /\ count' = New
  /\ tree' = [tree EXCEPT ![New] = Info(parent, level)]
  /\ origin' = [origin EXCEPT ![New] = first]

Node(parent) == [in |-> parent, gray |-> FALSE, child |-> New]

\* set_bucket_with_id after its locks: the titled child, or a new one.
GetOrCreate(p) ==
  LET at == job[p].at
      child == Resolve[title[at]]
      parent == Resolve[at]
      found == IF title[at] = 0 THEN FALSE ELSE tree[child].parent = at
  IN  /\ pc[p] = "titled"
      /\ UNCHANGED <<root, rec, gone, steady>>
      /\ \/ /\ found
            /\ title' = [title EXCEPT ![at] = child]
            /\ Finish(p) /\ UNCHANGED <<tree, count, origin, titled>>
         \/ /\ ~found
            /\ \/ /\ tree[parent].level < MaxDepth
                  /\ Grow(parent, tree[parent].level + 1, New)
                  /\ title' = [[title EXCEPT ![at] = 0] EXCEPT ![parent] = New]
                  /\ titled' = titled \cup {New}
                  /\ Goto(p, "node", [job[p] EXCEPT !.group = New, !.cur = Node(parent)])
               \/ /\ tree[parent].level >= MaxDepth
                  /\ title' = [title EXCEPT ![at] = 0]
                  /\ Finish(p) /\ UNCHANGED <<tree, count, origin, titled>>

\* The node record of a new bucket, in the bucket that was its parent then.
WriteNode(p) ==
  /\ pc[p] = "node"
  /\ UNCHANGED steady
  /\ \/ Sealed(job[p].cur.in) /\ Raise(p)
     \/ /\ ~Sealed(job[p].cur.in)
        /\ rec' = [rec EXCEPT ![job[p].group] = job[p].cur]
        /\ UNCHANGED <<tree, count, title, root, origin, titled, gone>>
        /\ IF job[p].kind = "create" THEN Finish(p)
           ELSE Goto(p, "fetch", [job[p] EXCEPT !.to = job[p].group])

(***************************************************************************)
(* Adding and deleting a memory.                                           *)
(***************************************************************************)
\* The ingest overflows, once: the bucket is compressed, by a resumed job without
\* the bucket's lock, and the memory is ingested again.
Overflow(p) ==
  LET at == job[p].at
  IN  /\ pc[p] = "write" /\ job[p].kind # "again"
      /\ bare' = (bare \/ owner[at] \in Procs \ {p})
      /\ Goto(p, "snapshot", [On("compress", at) EXCEPT !.owes = job[p].key])
      /\ UNCHANGED <<data, ops, origin, titled, gone, shared, stale>>

\* A resumed job resolves again and writes without a bucket lock; it is paused,
\* its memory unwritten, when the ingest overflows once more.
WriteMemory(p) ==
  LET b == IF meta = p THEN Resolve[job[p].at] ELSE job[p].at
      manage == Manage(b, job[p].key)
  IN  /\ pc[p] = "write"
      /\ UNCHANGED steady
      /\ \/ Sealed(b) /\ Throw(p)
         \/ job[p].kind = "again" /\ meta = p /\ Throw(p)
         \/ /\ ~Sealed(b)
            /\ rec' = [rec EXCEPT ![job[p].key] = [NoRecord EXCEPT !.in = b]]
            /\ UNCHANGED <<tree, count, title, root, origin, titled, gone>>
            /\ IF Sealed(job[p].at) THEN Finish(p) ELSE Unlock(p, "forget", manage)

\* set_gray reads the record again under the lock of the bucket it was in.
ReadMemory(p) ==
  /\ pc[p] = "read"
  /\ UNCHANGED <<data, steady, origin, titled, gone>>
  /\ IF rec[job[p].key].gray THEN Unlock(p, "untitle", job[p])
     ELSE Goto(p, "gray", [job[p] EXCEPT !.cur = rec[job[p].key]])
GrayMemory(p) ==
  /\ pc[p] = "gray"
  /\ UNCHANGED steady
  /\ \/ Sealed(job[p].cur.in) /\ Raise(p)
     \/ /\ ~Sealed(job[p].cur.in)
        /\ rec' = [rec EXCEPT ![job[p].key] = [job[p].cur EXCEPT !.gray = TRUE]]
        /\ gone' = gone \cup {job[p].key}
        /\ UNCHANGED <<tree, count, title, root, origin, titled>>
        /\ IF job[p].kind = "delete" THEN Unlock(p, "untitle", job[p])
           ELSE Goto(p, "forget", job[p])
\* remove_child_title_refs of a deleted node, after the lock is released.
Untitle(p) ==
  LET parent == job[p].to
  IN  /\ pc[p] = "untitle"
      /\ title' = [b \in Buckets |-> IF b = parent /\ title[b] = job[p].group THEN 0 ELSE title[b]]
      /\ stale' = (stale \/ (parent # 0 /\ Sealed(job[p].group)))
      /\ Finish(p)
      /\ UNCHANGED <<tree, count, root, rec, ops, shared, bare, origin, titled, gone>>

(***************************************************************************)
(* Rewriting a bucket: snapshot, plan of the model, successor, records.    *)
(***************************************************************************)
Carries(p) == job[p].kind \in {"move", "split"}   \* gray the record out, then write it in

\* Fault: no look at the seal after the wait for the lock.
Snapshot_unchecked(p) ==
  /\ pc[p] = "snapshot"
  /\ UNCHANGED <<data, steady, origin, titled, gone>>
  /\ LET at == job[p].at
         enough == IF job[p].kind = "split" THEN 2 ELSE 1
     IN  IF Cardinality(Direct(at)) < enough THEN Complete(p)
         ELSE Goto(p, "plan", [job[p] EXCEPT !.todo = Direct(at), !.seen = rec])
Snapshot(p) ==
  /\ pc[p] = "snapshot"
  /\ UNCHANGED <<data, steady, origin, titled, gone>>
  /\ LET at == job[p].at
         enough == IF job[p].kind = "split" THEN 2 ELSE 1
     IN  IF job[p].kind = "compress" /\ Sealed(at) THEN Complete(p)
         ELSE IF Cardinality(Direct(at)) < enough THEN Complete(p)
         ELSE Goto(p, "plan", [job[p] EXCEPT !.todo = Direct(at), !.seen = rec])

\* create_bucket of the successor: parent and level of the source as they are now.
Successor(p, j) ==
  /\ Grow(tree[job[p].at].parent, tree[job[p].at].level, origin[job[p].at])
  /\ Goto(p, IF job[p].kind = "split" THEN "adopt" ELSE "fetch",
          [j EXCEPT !.succ = New, !.to = New])
  /\ UNCHANGED <<title, root, rec, titled>>

\* The plan may drop any record, the node of a bucket too.
PlanSuccessor(p) ==
  /\ pc[p] = "plan" /\ job[p].kind = "compress"
  /\ UNCHANGED <<steady, gone>>
  /\ \E drop \in SUBSET job[p].todo :
        Successor(p, [job[p] EXCEPT !.todo = @ \ drop, !.keep = drop])

\* One new group: a child of the bucket or, at the depth limit, its sibling.
PlanSplit(p) ==
  LET at == job[p].at
      below == tree[at].level < MaxDepth
      parent == IF below THEN Resolve[at] ELSE tree[at].parent
  IN  /\ pc[p] = "plan" /\ job[p].kind = "split"
      /\ UNCHANGED steady
      /\ \/ /\ parent = 0 \/ (below /\ tree[parent].level >= MaxDepth)
            /\ Raise(p)
         \/ /\ parent # 0 /\ (below => tree[parent].level < MaxDepth)
            /\ Grow(parent, IF below THEN tree[parent].level + 1 ELSE tree[at].level, New)
            /\ UNCHANGED <<title, root, rec, titled, gone>>
            /\ \E move \in SUBSET job[p].todo \ {{}} :
                 Goto(p, "node", [job[p] EXCEPT !.todo = move, !.keep = @ \cup (job[p].todo \ move),
                                                !.group = New, !.cur = Node(parent)])

Turn(p, kind, manage) == [On(kind, job[p].at) EXCEPT !.manage = manage, !.owes = job[p].owes]

\* A compression whose result would still be too large becomes a split.
TurnToSplit(p) ==
  /\ pc[p] = "plan" /\ job[p].kind = "compress"
  /\ UNCHANGED <<data, steady, origin, titled, gone>>
  /\ Goto(p, "snapshot", Turn(p, "split", job[p].manage))

\* The checks of _move_item_unlocked for the node of a bucket.
Misplaced(child, to) ==
  LET span == Max({tree[b].level : b \in {c \in 1 .. count : Descends(c, child)}}) - tree[child].level
  IN  child = root \/ Descends(to, child) \/ tree[to].level + 1 + span > MaxDepth

\* The next record: a compression takes it from its snapshot, the others as it is now.
Fetch(p, k) ==
  LET kind == job[p].kind
      read == IF kind = "compress" THEN job[p].seen[k] ELSE rec[k]
      to == IF kind = "move" THEN Resolve[job[p].to] ELSE job[p].to
      cur == IF kind = "move" /\ read.child # 0 THEN [read EXCEPT !.child = Resolve[@]] ELSE read
      skip == \/ cur.gray
              \/ kind = "split" /\ cur.in # job[p].at
              \/ kind = "move" /\ Sealed(cur.in)
              \/ kind = "move" /\ cur.child # 0 /\ Misplaced(cur.child, to)
              \/ kind = "move" /\ cur.child = 0 /\ cur.in = to
  IN  /\ pc[p] = "fetch" /\ k \in job[p].todo
      /\ UNCHANGED <<data, steady, origin, titled, gone>>
      /\ IF skip THEN Goto(p, "fetch", [job[p] EXCEPT !.todo = @ \ {k}])
         ELSE Goto(p, IF cur.child # 0 THEN "link" ELSE IF Carries(p) THEN "out" ELSE "in",
                   [job[p] EXCEPT !.todo = @ \ {k}, !.key = k, !.to = to, !.cur = cur])

(***************************************************************************)
(* storage.reparent_bucket.  `preserve` keeps the title in the map of the  *)
(* old parent; only the title that names the bucket itself is moved.       *)
(***************************************************************************)
\* Fault: the title is not taken along.
Reparent_untitled(b, new, preserve) ==
  LET old == tree[b].parent
      named == old # 0 /\ title[old] = b
  IN  /\ tree' = [tree EXCEPT ![b].parent = new]
      /\ title' = IF named /\ ~preserve THEN [title EXCEPT ![old] = 0] ELSE title
      /\ UNCHANGED <<count, root, rec, origin, titled, gone>>

Reparent(b, new, preserve) ==
  LET old == tree[b].parent
      named == old # 0 /\ title[old] = b
  IN  /\ tree' = [tree EXCEPT ![b].parent = new]
      /\ title' = IF named THEN [title EXCEPT ![old] = IF preserve THEN @ ELSE 0, ![new] = b]
                  ELSE title
      /\ UNCHANGED <<count, root, rec, origin, titled, gone>>
Clash(b, new) ==
  LET old == tree[b].parent
  IN  old # 0 /\ title[old] = b /\ title[new] \notin {0, b}

Preserving(p) == job[p].kind # "move" /\ (job[p].kind = "split" => job[p].succ # 0)

Link(p) ==
  /\ pc[p] = "link"
  /\ UNCHANGED <<ops, shared, bare>>
  /\ stale' = (stale \/ Sealed(job[p].cur.child) \/ Sealed(job[p].cur.in))
  /\ \/ Clash(job[p].cur.child, job[p].to) /\ Raise(p)
     \/ /\ ~Clash(job[p].cur.child, job[p].to)
        /\ Reparent(job[p].cur.child, job[p].to, Preserving(p))
        /\ Goto(p, IF job[p].kind = "move" /\ job[p].cur.in = job[p].to THEN "fetch"
                   ELSE IF Carries(p) THEN "out" ELSE "in", job[p])

\* The new group of a split goes below the successor.
Adopt(p) ==
  /\ pc[p] = "adopt"
  /\ UNCHANGED steady
  /\ \/ Clash(job[p].group, job[p].succ) /\ Raise(p)
     \/ /\ ~Clash(job[p].group, job[p].succ)
        /\ Reparent(job[p].group, job[p].succ, TRUE)
        /\ Goto(p, "fetch", job[p])

\* Two revisions: gray where the record was, then in its new bucket.
Out(p) ==
  /\ pc[p] = "out"
  /\ UNCHANGED steady
  /\ \/ Sealed(job[p].cur.in) /\ Raise(p)
     \/ /\ ~Sealed(job[p].cur.in)
        /\ rec' = [rec EXCEPT ![job[p].key] = [job[p].cur EXCEPT !.gray = TRUE]]
        /\ UNCHANGED <<tree, count, title, root, origin, titled, gone>>
        /\ Goto(p, "in", job[p])
In(p) ==
  /\ pc[p] = "in"
  /\ UNCHANGED steady
  /\ \/ Sealed(job[p].to) /\ Raise(p)
     \/ /\ ~Sealed(job[p].to)
        /\ rec' = [rec EXCEPT ![job[p].key] = [job[p].cur EXCEPT !.in = job[p].to, !.gray = FALSE]]
        /\ UNCHANGED <<tree, count, title, root, origin, titled, gone>>
        /\ Goto(p, "fetch", job[p])

Moved(p) ==
  /\ pc[p] = "fetch" /\ job[p].todo = {} /\ job[p].kind = "move"
  /\ Finish(p)
  /\ UNCHANGED <<data, steady, origin, titled, gone>>
\* Fault: the records the plan keeps are not carried over.
Grouped_bare(p) ==
  /\ pc[p] = "fetch" /\ job[p].todo = {} /\ job[p].kind = "split" /\ job[p].succ = 0
  /\ Successor(p, [job[p] EXCEPT !.todo = @ \cup {job[p].group}])
  /\ UNCHANGED <<steady, gone>>
Grouped(p) ==
  /\ pc[p] = "fetch" /\ job[p].todo = {} /\ job[p].kind = "split" /\ job[p].succ = 0
  /\ Successor(p, [job[p] EXCEPT !.todo = @ \cup job[p].keep \cup {job[p].group}])
  /\ UNCHANGED <<steady, gone>>

(***************************************************************************)
(* storage.seal_bucket_successor, and the switch of the root after it.     *)
(***************************************************************************)
Rebuilt(p) ==
  /\ pc[p] = "fetch" /\ job[p].todo = {} /\ job[p].kind # "move"
  /\ job[p].kind = "split" => job[p].succ # 0
Seal(p) ==
  LET at == job[p].at
      succ == job[p].succ
      parent == tree[at].parent
      inherits == IF title[at] = 0 THEN FALSE ELSE tree[title[at]].parent = succ
      refused == \/ parent # tree[succ].parent
                 \/ inherits /\ title[succ] \notin {0, title[at]}
  IN  /\ Rebuilt(p)
      /\ UNCHANGED steady
      /\ \/ refused /\ Raise(p)
         \/ /\ ~refused
            /\ tree' = [tree EXCEPT ![at].sealed_to = succ]
            /\ title' = [b \in Buckets |-> IF b = succ /\ inherits THEN title[at]
                                          ELSE IF b = parent /\ title[b] = at THEN succ
                                          ELSE title[b]]
            /\ gone' = IF job[p].kind = "split" THEN gone ELSE gone \cup job[p].keep
            /\ UNCHANGED <<count, root, rec, origin, titled>>
            /\ Goto(p, "switch", job[p])
\* Fault: every successor becomes the root.
Switch_any(p) ==
  /\ pc[p] = "switch"
  /\ root' = job[p].succ
  /\ UNCHANGED <<tree, count, title, rec, steady, origin, titled, gone>>
  /\ \/ job[p].kind = "split" /\ Complete(p)
     \/ /\ job[p].kind = "compress"
        /\ Goto(p, "forget", [job[p] EXCEPT !.todo = Direct(job[p].succ) \cap Memories])
Switch(p) ==
  /\ pc[p] = "switch"
  /\ root' = IF root = job[p].at THEN job[p].succ ELSE root
  /\ UNCHANGED <<tree, count, title, rec, steady, origin, titled, gone>>
  /\ \/ job[p].kind = "split" /\ Complete(p)
     \/ /\ job[p].kind = "compress"
        /\ Goto(p, "forget", [job[p] EXCEPT !.todo = Direct(job[p].succ) \cap Memories])

\* _apply_forgetting: no lock of the bucket is held.
Forget(p, k) ==
  /\ pc[p] = "forget" /\ k \in job[p].todo
  /\ UNCHANGED <<data, steady, origin, titled, gone>>
  /\ LET rest == [job[p] EXCEPT !.todo = @ \ {k}]
     IN  \/ Goto(p, "forget", rest)
         \/ ~rec[k].gray /\ Goto(p, "gray", [rest EXCEPT !.key = k, !.cur = rec[k]])
Forgotten(p) ==
  /\ pc[p] = "forget" /\ job[p].todo = {}
  /\ UNCHANGED <<data, steady, origin, titled, gone>>
  /\ IF job[p].kind # "manage" THEN Complete(p)
     ELSE Goto(p, "lock", [job[p] EXCEPT !.at = Resolve[@], !.wants = {Resolve[job[p].at]}])
Pressure(p) ==
  /\ pc[p] = "pressure"
  /\ UNCHANGED <<data, steady, origin, titled, gone>>
  /\ \/ Return(p)
     \/ ~Sealed(job[p].at) /\ Goto(p, "snapshot", Turn(p, "compress", TRUE))

\* After its compression: the pressure of the bucket it locked decides, which is
\* sealed by now, and that bucket is split.
Managed(p) ==
  /\ pc[p] = "managed"
  /\ UNCHANGED <<data, steady, origin, titled, gone>>
  /\ Return(p) \/ Goto(p, "snapshot", Turn(p, "split", FALSE))

(***************************************************************************)
(* The specification.                                                      *)
(***************************************************************************)
Init ==
  /\ tree = [b \in Buckets |-> CASE b = 1 -> Info(0, 1) [] b = 2 -> Info(1, 2) [] OTHER -> Info(0, 0)]
  /\ count = 2
  /\ title = [b \in Buckets |-> IF b = 1 THEN 2 ELSE 0]
  /\ root = 1
  /\ rec \in {[k \in Keys |-> IF k = 2 THEN [in |-> 1, gray |-> FALSE, child |-> 2]
                            ELSE [NoRecord EXCEPT !.in = IF k \in Memories THEN place[k] ELSE 0]] :
             place \in [Memories -> 0 .. 2]}
  /\ owner = [b \in Buckets |-> None] /\ meta = None
  /\ pc = [p \in Procs |-> "idle"] /\ job = [p \in Procs |-> NoJob]
  /\ ops = 0
  /\ origin = [b \in Buckets |-> b] /\ titled = {2} /\ gone = {}
  /\ shared = FALSE /\ stale = FALSE /\ bare = FALSE

Step(p) ==
  \/ Acquire(p) \/ AcquireMeta(p) \/ CancelWait(p)
  \/ GetOrCreate(p) \/ WriteNode(p)
  \/ Overflow(p) \/ WriteMemory(p) \/ ReadMemory(p) \/ GrayMemory(p) \/ Untitle(p)
  \/ Snapshot(p) \/ PlanSuccessor(p) \/ PlanSplit(p) \/ TurnToSplit(p)
  \/ \E k \in job[p].todo : Fetch(p, k) \/ Forget(p, k)
  \/ Link(p) \/ Adopt(p) \/ Out(p) \/ In(p)
  \/ Moved(p) \/ Grouped(p) \/ Seal(p) \/ Switch(p)
  \/ Forgotten(p) \/ Pressure(p) \/ Managed(p)
Next == \E p \in Procs : Request(p) \/ Step(p)
Spec == Init /\ [][Next]_vars


(***************************************************************************)
(* Properties.                                                             *)
(***************************************************************************)
States == {"idle", "lock", "meta", "titled", "node", "write", "read", "gray", "untitle",
           "snapshot", "plan", "fetch", "link", "adopt", "out", "in", "switch",
           "forget", "pressure", "managed"}

Record(c) == [in : 0 .. c, gray : BOOLEAN, child : 0 .. c]
Job(c) == [kind : Kinds \cup {"none", "manage", "again"}, at : 0 .. c, to : 0 .. c, wants : SUBSET (1 .. c),
           key : Keys \cup {0}, cur : Record(c), todo : SUBSET Keys, keep : SUBSET Keys,
           seen : {<<>>} \cup [Keys -> Record(c)], group : 0 .. c, succ : 0 .. c,
           manage : BOOLEAN, owes : Keys \cup {0}]

\* Every variable keeps its type; an id, in the tree, a record or a job, is that
\* of a bucket that exists.
TypeOK ==
  /\ count \in Buckets /\ root \in 1 .. count
  /\ tree \in [Buckets -> [parent : 0 .. count, sealed_to : 0 .. count, level : Nat]]
  /\ title \in [Buckets -> 0 .. count]
  /\ rec \in [Keys -> Record(count)]
  /\ owner \in [Buckets -> Procs \cup {None, Leaked}] /\ meta \in Procs \cup {None}
  /\ pc \in [Procs -> States] /\ job \in [Procs -> Job(count)]
  /\ gone \subseteq Keys /\ titled \subseteq 1 .. count

\* One caller at a time, and no link ever changed for a sealed bucket: what the
\* locks and the redirects have to give.
Alone == Quiet /\ ~shared /\ ~stale

\* A memory that was stored and neither deleted nor dropped by a plan is found
\* from the root, however its bucket has been compressed, split or moved; below
\* a node that was dropped it stays where the node leads.  What was deleted,
\* forgotten or dropped never comes back: no later rewrite carries it into a
\* bucket a query reaches.
Cut == Within({Resolve[rec[b].child] : b \in gone \cap Buckets})
MemoriesStay ==
  Alone =>
    /\ \A k \in Memories \ gone :
         rec[k].in # 0 => ~rec[k].gray /\ rec[k].in \in Reached \cup Cut
    /\ \A k \in gone : rec[k].gray \/ rec[k].in \notin Reached

\* A child that was created for a title, and is still below its parent, is the
\* one the parent finds for the title: "Get or create a same-title child with
\* setdefault concurrency semantics" (bucket_topology_service.py:203).
TitleIsFound ==
  Quiet => \A b \in Reached :
             origin[b] \in titled /\ Resolve[tree[b].parent] \in Reached
               => LET found == title[Resolve[tree[b].parent]]
                  IN  IF found = 0 THEN FALSE ELSE Resolve[found] = b

\* The tree and the records tell the same story: the bucket a node leads to has
\* the node's bucket as its parent.  Buckets at the depth limit are excepted: a
\* split there leaves the node of a new group beside the parent it gave it.
NodesAgree ==
  Alone => \A k \in Buckets :
    LET child == Resolve[rec[k].child]
    IN  rec[k].in \in Live /\ ~rec[k].gray /\ tree[child].level < MaxDepth
          => tree[child].parent = rec[k].in

\* A bucket is sealed once: two rewrites never give it two successors, however
\* the callers of an instance interleave.  Excepted is what follows once a bucket
\* was compressed without its lock, for a resumed job's overflow, while another
\* caller held that lock.
SealedOnce ==
  [][bare' \/ \A b \in Buckets : Sealed(b) => tree'[b].sealed_to = tree[b].sealed_to]_vars

\* The bucket the tree began with and the root that is stored redirect to the
\* same live bucket, between the sealing of the root and its switch too; with the
\* exception of SealedOnce.
RootAgrees == bare \/ Resolve[1] = Resolve[root]

\* The tree, the records, the titles and the stored root tell one story, at every
\* step; titles, as far as the code keeps them, while operations do not overlap.
TreeAgrees == NodesAgree /\ RootAgrees /\ (Alone => TitleIsFound)

\* The operations under way all wait only in two ways: a lock was lost with a
\* cancelled caller, or a resumed job holds the meta lock and wants a bucket,
\* while a caller that waits for the meta lock holds that bucket or a later one,
\* which keeps the holder from going on.
Waiting(p) == \/ pc[p] = "lock" /\ owner[NextLock(p)] # None
              \/ pc[p] = "meta" /\ meta # None
Embrace == \E p, q \in Procs :
             /\ pc[p] = "meta" /\ meta = q /\ pc[q] = "lock"
             /\ \E b \in Held(p) : NextLock(q) <= b
Lost == \E p \in Procs : pc[p] = "lock" /\ owner[NextLock(p)] = Leaked
Stuck == ~Quiet /\ \A p \in Procs : pc[p] = "idle" \/ Waiting(p)
NoDeadlock == Stuck => Embrace \/ Lost
=============================================================================
