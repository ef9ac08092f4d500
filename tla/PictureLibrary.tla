---------------------------- MODULE PictureLibrary ----------------------------
(***************************************************************************)
(* The picture library of one group, of setu/setu.py: which pages of which *)
(* galleries may still be sent, which a request has frozen, which were     *)
(* used; and the requests of dialog/group_dialog.py, which choose pages,   *)
(* freeze them, send some and give the rest back.  What a request that     *)
(* fails leaves frozen comes back with a timer.                            *)
(*                                                                         *)
(* Everything runs on one event loop: a step goes from one suspension to   *)
(* the next.  _data_lock is never held across one and persist follows each *)
(* change, so what is here is also what the file has.  Scores, filters and *)
(* the order of the pages are left open: any page may come first.          *)
(***************************************************************************)
EXTENDS Naturals, FiniteSets

CONSTANTS Pages, Illusts,
          Illust,       \* the gallery of each page
          Requests,
          Searches,     \* requests in natural language, which search without the lock
          Origins,      \* requests of a gallery by its id, with the gallery itself
          NoRequest,
          Limit,        \* UnfreezeTimesLimit
          Count, Many,  \* pages asked for; that times SubstituteMultiplier
          MaxFetches,   \* bound: fetches of galleries, and the faults before them
          MaxFaults     \* bound: failures and ends of the process

ASSUME PictureLibraryAssumption ==
    /\ Illust \in [Pages -> Illusts] /\ NoRequest \notin Requests
    /\ Searches \in SUBSET Requests /\ Origins \in SUBSET Requests
    /\ Limit \in Nat \ {0} /\ Count \in Nat \ {0} /\ Many \in Nat
    /\ MaxFetches \in Nat /\ MaxFaults \in Nat

VARIABLES
    chunks,    \* galleries the group knows
    available, \* _available_illusts: their pages
    tries,     \* its attempts, per page
    banned,    \* _ban_pages
    used,      \* _used_illusts
    frozen,    \* _freeze: per request its pages
    attempts,  \* the attempts of the pages of a request
    timer,     \* _unfreeze_task is pending
    query,     \* who holds _query_lock
    pc,        \* per request: "idle", "asked", "found", "chosen", "frozen", "sending", "over"
    work,      \* the results; when sending, the candidates not yet tried
    batch, said, success,      \* sending: under way; in the chat, not marked; marked
    fetches, errors, ends,     \* counters of the bounds
    times,     \* history: how often a page was frozen
    sends,     \* history: how often it appeared in the chat
    gone,      \* history: galleries that left with an old chunk
    bare,      \* history: pages in a payload that its request has not frozen
    unmarked,  \* history: pages in the chat that nobody marked as used
    young      \* history: requests whose freeze the last timer found too young

library == <<chunks, available, tries, banned, used>>
freezes == <<frozen, attempts, timer>>
sending == <<batch, said, success>>
bounds == <<fetches, errors, ends>>
history == <<times, sends, gone, bare, unmarked, young>>
vars == <<library, freezes, query, pc, work, sending, bounds, history>>

------------------------------------------------------------------------------
Steps == {"idle", "asked", "found", "chosen", "frozen", "sending", "over"}
Running(r) == pc[r] \notin {"idle", "over"}
PagesOf(G) == {p \in Pages : Illust[p] \in G}

TypeOK ==
    /\ chunks \subseteq Illusts /\ available \subseteq Pages
    /\ banned \subseteq Pages /\ used \subseteq Pages
    /\ tries \in [Pages -> Nat]
    /\ frozen \in [Requests -> SUBSET Pages]
    /\ attempts \in [Requests -> [Pages -> Nat]]
    /\ timer \in BOOLEAN /\ query \in Requests \cup {NoRequest}
    /\ pc \in [Requests -> Steps]
    /\ work \in [Requests -> SUBSET Pages] /\ batch \in [Requests -> SUBSET Pages]
    /\ said \in [Requests -> SUBSET Pages] /\ success \in [Requests -> SUBSET Pages]
    /\ fetches \in Nat /\ errors \in Nat /\ ends \in Nat
    /\ times \in [Pages -> Nat] /\ sends \in [Pages -> Nat]
    /\ gone \subseteq Illusts /\ bare \subseteq Pages /\ unmarked \subseteq Pages
    /\ young \subseteq Requests

None == [r \in Requests |-> {}]
Zero == [p \in Pages |-> 0]

Init ==
    /\ chunks = {} /\ available = {} /\ tries = Zero /\ banned = {} /\ used = {}
    /\ frozen = None /\ attempts = [r \in Requests |-> Zero] /\ timer = TRUE
    /\ query = NoRequest /\ pc = [r \in Requests |-> "idle"]
    /\ work = None /\ batch = None /\ said = None /\ success = None
    /\ fetches = 0 /\ errors = 0 /\ ends = 0
    /\ times = Zero /\ sends = Zero
    /\ gone = {} /\ bare = {} /\ unmarked = {} /\ young = {}

------------------------------------------------------------------------------
\* Galleries come and go

\* _commit_new_illusts: an old chunk goes when there are too many, then the new
\* galleries come.
Commit(new, old) ==
    LET kept == chunks \ old
        added == new \ kept
    IN  /\ chunks' = kept \cup added
        /\ available' = (available \ PagesOf(old)) \cup PagesOf(added)
        /\ tries' = [p \in Pages |-> IF Illust[p] \in added THEN 0 ELSE tries[p]]
        /\ gone' = gone \cup old

\* At any time: a task of its own fetches now and then, and so do a small
\* library, a search, an id, and a choice that was short.
Fetch ==
    /\ fetches + errors + ends < MaxFetches
    /\ fetches' = fetches + 1
    /\ \E new \in SUBSET Illusts, old \in SUBSET chunks : Commit(new, old)
    /\ UNCHANGED <<banned, used, freezes, query, pc, work, sending, errors, ends,
                   times, sends, bare, unmarked, young>>

------------------------------------------------------------------------------
\* A request: choose, freeze, prepare

Ask(r) ==
    /\ pc[r] = "idle" /\ pc' = [pc EXCEPT ![r] = "asked"]
    /\ UNCHANGED <<library, freezes, query, work, sending, bounds, history>>

OnePerIllust(W) == \A p, q \in W : Illust[p] = Illust[q] => p = q

\* What _get_single_page lets through, for up to n galleries
Picks(n) == {W \in SUBSET (available \ banned) : OnePerIllust(W) /\ Cardinality(W) <= n}

\* _get_query_setu: the search takes too long for the lock.
Search(r) ==
    /\ pc[r] = "asked" /\ r \in Searches
    /\ \E W \in Picks(Many) : work' = [work EXCEPT ![r] = W]
    /\ pc' = [pc EXCEPT ![r] = "found"]
    /\ UNCHANGED <<library, freezes, query, sending, bounds, history>>

\* The gallery asked for by its id: available, or not banned
Origin(r) ==
    {O \in SUBSET (IF r \in Origins THEN available \cup (Pages \ banned) ELSE {}) :
        Cardinality(O) <= 1}

\* Under _query_lock: results of the group's own library take the place of
\* those of the same gallery.
Choose(r) ==
    /\ pc[r] = IF r \in Searches THEN "found" ELSE "asked"
    /\ query = NoRequest /\ query' = r
    /\ \E W \in Picks(Many), O \in Origin(r) :
          LET rest == {p \in work[r] \cup O : \A q \in W : Illust[q] # Illust[p]}
          IN  /\ OnePerIllust(rest)
              /\ work' = [work EXCEPT ![r] = W \cup rest]
              /\ attempts' = [attempts EXCEPT ![r] =
                                 [p \in Pages |-> IF p \in W THEN tries[p] ELSE 0]]
    /\ pc' = [pc EXCEPT ![r] = "chosen"]
    /\ UNCHANGED <<library, frozen, timer, sending, bounds, history>>

\* Fault: a freeze sets no timer.
TimerSet_never(F) == FALSE

\* A freeze with pages in it starts the time anew.
TimerSet(F) == timer \/ F # {}

\* freeze, and the lock is released; without results the request is over.
Freeze(r) ==
    LET F == work[r] \cap available IN
    /\ pc[r] = "chosen"
    /\ frozen' = [frozen EXCEPT ![r] = F]
    /\ available' = available \ F
    /\ attempts' = [attempts EXCEPT ![r] = [p \in Pages |-> IF p \in F THEN @[p] + 1 ELSE @[p]]]
    /\ timer' = TimerSet(F)
    /\ young' = IF F = {} THEN young ELSE {}
    /\ times' = [p \in Pages |-> IF p \in F THEN times[p] + 1 ELSE times[p]]
    /\ bare' = bare \cup (work[r] \ F)
    /\ query' = NoRequest
    /\ pc' = [pc EXCEPT ![r] = IF work[r] = {} THEN "over" ELSE "frozen"]
    /\ UNCHANGED <<chunks, tries, banned, used, work, sending, bounds, sends, gone, unmarked>>

\* _pixiv_payload_maker and the files: only pages whose picture is there remain.
Prepare(r) ==
    /\ pc[r] = "frozen"
    /\ \E C \in SUBSET work[r] : work' = [work EXCEPT ![r] = C]
    /\ pc' = [pc EXCEPT ![r] = "sending"]
    /\ UNCHANGED <<library, freezes, query, sending, bounds, history>>

------------------------------------------------------------------------------
\* Sending, in batches of what is still missing

Batch(r) ==
    /\ pc[r] = "sending" /\ batch[r] = {} /\ said[r] = {}
    /\ work[r] # {} /\ Cardinality(success[r]) < Count
    /\ \E B \in SUBSET work[r] :
          /\ LET missing == Count - Cardinality(success[r])
             IN  IF Cardinality(work[r]) <= missing THEN B = work[r]
                                                    ELSE Cardinality(B) = missing
          /\ batch' = [batch EXCEPT ![r] = B]
          /\ work' = [work EXCEPT ![r] = @ \ B]
    /\ UNCHANGED <<library, freezes, query, pc, said, success, bounds, history>>

\* The message is in the chat.
Say(r, p) ==
    /\ p \in batch[r]
    /\ batch' = [batch EXCEPT ![r] = @ \ {p}]
    /\ said' = [said EXCEPT ![r] = @ \cup {p}]
    /\ sends' = [sends EXCEPT ![p] = @ + 1]
    /\ UNCHANGED <<library, freezes, query, pc, work, success, bounds,
                   times, gone, bare, unmarked, young>>

\* The picture is an advertisement, or it cannot be sent.
SayFails(r, p) ==
    /\ p \in batch[r]
    /\ batch' = [batch EXCEPT ![r] = @ \ {p}]
    /\ banned' \in {banned, banned \cup {p}}
    /\ UNCHANGED <<chunks, available, tries, used, freezes, query, pc, work, said, success,
                   bounds, history>>

\* Fault: a page that was sent stays frozen.
Consumed_kept(F, p) == F

Consumed(F, p) == F \ {p}

\* mark_used
Mark(r, p) ==
    /\ p \in said[r]
    /\ said' = [said EXCEPT ![r] = @ \ {p}]
    /\ success' = [success EXCEPT ![r] = @ \cup {p}]
    /\ used' = used \cup {p}
    /\ available' = available \ {p}
    /\ frozen' = [frozen EXCEPT ![r] = Consumed(@, p)]
    /\ UNCHANGED <<chunks, tries, banned, attempts, timer, query, pc, work, batch, bounds, history>>

\* The answer of the API comes too late, or an error before mark_used.  A page
\* that was sent from the cache is prepared and sent again.
MarkFails(r, p) ==
    /\ p \in said[r] /\ errors + ends < MaxFaults
    /\ errors' = errors + 1
    /\ said' = [said EXCEPT ![r] = @ \ {p}]
    /\ unmarked' = unmarked \cup {p}
    /\ batch' \in {batch, [batch EXCEPT ![r] = @ \cup {p}]}
    /\ UNCHANGED <<library, freezes, query, pc, work, success, fetches, ends,
                   times, sends, gone, bare, young>>

\* Fault: one attempt too early.
Returned_early(r) == {p \in frozen[r] : attempts[r][p] + 1 < Limit}

Returned(r) == {p \in frozen[r] : attempts[r][p] < Limit}

\* unfreeze, for the freezes of R; a page gets the attempts of the last of them
\* that gives it back.
Unfreeze(R) ==
    LET back(p) == {r \in R : p \in Returned(r)} IN
    /\ frozen' = [r \in Requests |-> IF r \in R THEN {} ELSE frozen[r]]
    /\ attempts' = [r \in Requests |-> IF r \in R THEN Zero ELSE attempts[r]]
    /\ available' = available \cup {p \in Pages : back(p) # {}}
    /\ \E last \in [Pages -> Requests] :
          /\ \A p \in Pages : back(p) # {} => last[p] \in back(p)
          /\ tries' = [p \in Pages |-> IF back(p) = {} THEN tries[p] ELSE attempts[last[p]][p]]

\* The end of _process_payload
Finish(r) ==
    /\ pc[r] = "sending" /\ batch[r] = {} /\ said[r] = {}
    /\ work[r] = {} \/ Cardinality(success[r]) >= Count
    /\ Unfreeze({r})
    /\ pc' = [pc EXCEPT ![r] = "over"]
    /\ work' = [work EXCEPT ![r] = {}] /\ success' = [success EXCEPT ![r] = {}]
    /\ UNCHANGED <<chunks, banned, used, timer, query, batch, said, bounds, history>>

\* An exception anywhere, or the timeout of the task in the queue
Cut(r) ==
    /\ Running(r) /\ errors + ends < MaxFaults
    /\ errors' = errors + 1
    /\ pc' = [pc EXCEPT ![r] = "over"]
    /\ query' = IF query = r THEN NoRequest ELSE query
    /\ unmarked' = unmarked \cup said[r]
    /\ work' = [work EXCEPT ![r] = {}] /\ batch' = [batch EXCEPT ![r] = {}]
    /\ said' = [said EXCEPT ![r] = {}] /\ success' = [success EXCEPT ![r] = {}]
    /\ UNCHANGED <<library, freezes, fetches, ends, times, sends, gone, bare, young>>

------------------------------------------------------------------------------
\* The timer, and the end of the process

\* unfreeze after its sleep.  A task has as much time as a freeze and started
\* before it, so whoever has frozen pages by then is over.
Fire(R) ==
    /\ \A r \in Requests : frozen[r] # {} => ~Running(r)
    /\ timer' = FALSE
    /\ Unfreeze(R)
    /\ young' = {r \in Requests \ R : frozen[r] # {}}
    /\ UNCHANGED <<chunks, banned, used, query, pc, work, sending, fetches, errors,
                   ends, times, sends, gone, bare, unmarked>>

\* Every freeze is old enough.
Timeout == timer /\ Fire(Requests)

\* The age of a freeze is of the wall clock and the sleep of the loop's: when
\* the one is behind, freezes look too young, stay, and no timer is set again.
TimeoutEarly ==
    /\ timer
    /\ \E R \in SUBSET Requests :
          /\ \E r \in Requests \ R : frozen[r] # {}
          /\ Fire(R)

\* The end of the process anywhere, and its start with the file
End ==
    /\ errors + ends < MaxFaults
    /\ ends' = ends + 1
    /\ pc' = [r \in Requests |-> IF Running(r) THEN "over" ELSE pc[r]]
    /\ query' = NoRequest /\ timer' = TRUE
    /\ unmarked' = unmarked \cup UNION {said[r] : r \in Requests}
    /\ work' = None /\ batch' = None /\ said' = None /\ success' = None
    /\ young' = {}
    /\ UNCHANGED <<library, frozen, attempts, fetches, errors, times, sends, gone, bare>>

Proceed(r) ==
    \/ Search(r) \/ Choose(r) \/ Freeze(r) \/ Prepare(r) \/ Batch(r) \/ Finish(r)
    \/ \E p \in Pages : Say(r, p) \/ SayFails(r, p) \/ Mark(r, p)

Next ==
    \/ \E r \in Requests :
          \/ Ask(r) \/ Proceed(r) \/ Cut(r)
          \/ \E p \in Pages : MarkFails(r, p)
    \/ Fetch \/ Timeout \/ TimeoutEarly \/ End

\* The event loop runs what can run, and the timer fires.
Fairness == WF_vars(Timeout) /\ \A r \in Requests : WF_vars(Proceed(r))

Spec == Init /\ [][Next]_vars /\ Fairness

------------------------------------------------------------------------------
\* Properties

\* Whatever requests run beside each other, fail or are cut off, a page appears
\* in the chat once.  Apart from pages a request sends without having frozen
\* them, from messages nobody marked, and from galleries that an old chunk took
\* along, which may come again.
SentOnce ==
    \A p \in Pages : p \in bare \cup unmarked \/ Illust[p] \in gone \/ sends[p] <= 1

\* A page of a known gallery can still be sent, is frozen, or was used; it is
\* given up only after it was frozen Limit times.
NothingLost ==
    \A p \in PagesOf(chunks) :
        \/ p \in available \cup used \/ times[p] >= Limit
        \/ \E r \in Requests : p \in frozen[r]

\* When no more requests come, nothing stays frozen, whatever they left behind
\* and whenever the process ended.  Apart from freezes that the timer found too
\* young when it fired: those wait for the next freeze, or the next start.
FrozenReturns == <>[](\A r \in Requests : frozen[r] # {} => r \in young)
=============================================================================
