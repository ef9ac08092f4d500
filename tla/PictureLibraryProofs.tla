------------------------- MODULE PictureLibraryProofs -------------------------
(***************************************************************************)
(* What PictureLibrary keeps, for any galleries, requests and bounds: the  *)
(* types, that no page is lost, and that none is sent twice.               *)
(***************************************************************************)
EXTENDS PictureLibrary, TLAPS

\* A request freezes once, and has messages under way only while it is sending.
Stages ==
    \A r \in Requests :
        /\ pc[r] \in {"idle", "asked", "found", "chosen"} => frozen[r] = {}
        /\ pc[r] # "sending" => batch[r] = {} /\ said[r] = {}

\* An attempt is a freeze.
Attempted ==
    \A p \in Pages : tries[p] <= times[p] /\ \A r \in Requests : attempts[r][p] <= times[p]

LInv == TypeOK /\ Stages /\ Attempted /\ NothingLost

\* The pages SentOnce is about
Clean(p) == p \notin bare \cup unmarked /\ Illust[p] \notin gone

\* A page is a candidate, under way, or in the chat.
Apart ==
    \A r \in Requests : \A p \in Pages :
        /\ ~(p \in work[r] /\ p \in batch[r])
        /\ ~(p \in work[r] /\ p \in said[r])
        /\ ~(p \in batch[r] /\ p \in said[r])

\* Whoever has frozen a page has it alone.
OneOwner ==
    \A p \in Pages : Clean(p) =>
        \A r \in Requests : p \in frozen[r] =>
            p \notin available /\ \A q \in Requests : p \in frozen[q] => q = r

\* What a request sends it has frozen.
Held ==
    \A r \in Requests : pc[r] \in {"frozen", "sending"} =>
        \A p \in work[r] \cup batch[r] \cup said[r] : Clean(p) => p \in frozen[r]

\* What is in the chat cannot be chosen again.
SentIsGone ==
    \A p \in Pages : Clean(p) /\ sends[p] # 0 =>
        /\ p \notin available
        /\ (\E r \in Requests : p \in said[r]) \/ (\A r \in Requests : p \notin frozen[r])

\* What nobody fetched is nowhere.
Known ==
    \A p \in Pages : Clean(p) /\ Illust[p] \notin chunks =>
        /\ p \notin available /\ sends[p] = 0
        /\ \A r \in Requests : p \notin frozen[r]

SInv == TypeOK /\ Stages /\ Apart /\ OneOwner /\ Held /\ SentIsGone /\ Known /\ SentOnce

USE PictureLibraryAssumption
USE DEF library, freezes, sending, bounds, history

------------------------------------------------------------------------------
\* Every variable keeps its type.

LEMMA TypeInit == Init => TypeOK
  BY DEF Init, TypeOK, None, Zero, Steps

LEMMA UnfreezeTypes ==
  ASSUME TypeOK, NEW R \in SUBSET Requests, Unfreeze(R)
  PROVE  /\ frozen' \in [Requests -> SUBSET Pages] /\ available' \subseteq Pages
         /\ attempts' \in [Requests -> [Pages -> Nat]] /\ tries' \in [Pages -> Nat]
<1>1. /\ frozen' \in [Requests -> SUBSET Pages] /\ available' \subseteq Pages
      /\ attempts' \in [Requests -> [Pages -> Nat]]
  BY DEF TypeOK, Unfreeze, Zero
<1>2. tries' \in [Pages -> Nat]
  BY DEF TypeOK, Unfreeze, Returned
<1> QED
  BY <1>1, <1>2

\* The timer that fires gives the freezes of some requests back.
LEMMA Fires ==
  ASSUME TypeOK, Timeout \/ TimeoutEarly
  PROVE  \E R \in SUBSET Requests : Fire(R) /\ errors' \in Nat
<1>1. CASE Timeout
  <2>1. Fire(Requests) /\ errors' \in Nat /\ Requests \in SUBSET Requests
    BY <1>1 DEF Timeout, Fire, TypeOK
  <2> QED
    BY <2>1
<1>2. CASE TimeoutEarly
  <2>1. PICK R \in SUBSET Requests : Fire(R)
    BY <1>2 DEF TimeoutEarly
  <2>2. errors' \in Nat
    BY <2>1 DEF Fire, TypeOK
  <2> QED
    BY <2>1, <2>2
<1> QED
  BY <1>1, <1>2

LEMMA TypeStep == TypeOK /\ [Next]_vars => TypeOK'
<1> SUFFICES ASSUME TypeOK, [Next]_vars PROVE TypeOK'
  OBVIOUS
<1>1. ASSUME NEW r \in Requests, Ask(r) PROVE TypeOK'
  BY <1>1 DEF TypeOK, Ask, Steps
<1>2. ASSUME Fetch PROVE TypeOK'
  <2>1. /\ chunks' \subseteq Illusts /\ available' \subseteq Pages /\ gone' \subseteq Illusts
        /\ tries' \in [Pages -> Nat]
    BY <1>2 DEF TypeOK, Fetch, Commit, PagesOf
  <2> QED
    BY <1>2, <2>1 DEF TypeOK, Fetch
<1>3. ASSUME NEW r \in Requests, Search(r) PROVE TypeOK'
  BY <1>3 DEF TypeOK, Search, Picks, Steps
<1>4. ASSUME NEW r \in Requests, Choose(r) PROVE TypeOK'
  <2>1. work' \in [Requests -> SUBSET Pages] /\ attempts' \in [Requests -> [Pages -> Nat]]
    BY <1>4 DEF TypeOK, Choose, Picks, Origin
  <2> QED
    BY <1>4, <2>1 DEF TypeOK, Choose, Steps
<1>5. ASSUME NEW r \in Requests, Freeze(r) PROVE TypeOK'
  <2>1. /\ frozen' \in [Requests -> SUBSET Pages] /\ available' \subseteq Pages
        /\ bare' \subseteq Pages
    BY <1>5 DEF TypeOK, Freeze
  <2>2. attempts' \in [Requests -> [Pages -> Nat]] /\ times' \in [Pages -> Nat]
    BY <1>5 DEF TypeOK, Freeze
  <2>3. timer' \in BOOLEAN /\ query' \in Requests \cup {NoRequest} /\ pc' \in [Requests -> Steps]
    BY <1>5 DEF TypeOK, Freeze, Steps, TimerSet
  <2> QED
    BY <1>5, <2>1, <2>2, <2>3 DEF TypeOK, Freeze
<1>6. ASSUME NEW r \in Requests, Prepare(r) PROVE TypeOK'
  BY <1>6 DEF TypeOK, Prepare, Steps
<1>7. ASSUME NEW r \in Requests, Batch(r) PROVE TypeOK'
  BY <1>7 DEF TypeOK, Batch
<1>8. ASSUME NEW r \in Requests, NEW p \in Pages, Say(r, p) PROVE TypeOK'
  BY <1>8 DEF TypeOK, Say
<1>9. ASSUME NEW r \in Requests, NEW p \in Pages, SayFails(r, p) PROVE TypeOK'
  BY <1>9 DEF TypeOK, SayFails
<1>10. ASSUME NEW r \in Requests, NEW p \in Pages, Mark(r, p) PROVE TypeOK'
  BY <1>10 DEF TypeOK, Mark, Consumed
<1>11. ASSUME NEW r \in Requests, NEW p \in Pages, MarkFails(r, p) PROVE TypeOK'
  <2>1. unmarked' \subseteq Pages /\ said' \in [Requests -> SUBSET Pages]
    BY <1>11 DEF TypeOK, MarkFails
  <2>2. batch' \in [Requests -> SUBSET Pages]
    <3>1. CASE batch' = batch
      BY <3>1 DEF TypeOK
    <3>2. CASE batch' = [batch EXCEPT ![r] = @ \cup {p}]
      BY <3>2 DEF TypeOK
    <3> QED
      BY <1>11, <3>1, <3>2 DEF MarkFails
  <2> QED
    BY <1>11, <2>1, <2>2 DEF TypeOK, MarkFails
<1>12. ASSUME NEW r \in Requests, Finish(r) PROVE TypeOK'
  <2>1. {r} \in SUBSET Requests /\ Unfreeze({r})
    BY <1>12 DEF Finish
  <2> QED
    BY <1>12, <2>1, UnfreezeTypes DEF TypeOK, Finish, Steps
<1>13. ASSUME NEW r \in Requests, Cut(r) PROVE TypeOK'
  BY <1>13 DEF TypeOK, Cut, Steps
<1>14. CASE Timeout \/ TimeoutEarly
  <2>1. PICK R \in SUBSET Requests : Fire(R) /\ errors' \in Nat
    BY <1>14, Fires
  <2>2. Unfreeze(R) /\ timer' \in BOOLEAN /\ young' \subseteq Requests
    BY <2>1 DEF Fire
  <2>3. /\ frozen' \in [Requests -> SUBSET Pages] /\ available' \subseteq Pages
        /\ attempts' \in [Requests -> [Pages -> Nat]] /\ tries' \in [Pages -> Nat]
    BY <2>2, UnfreezeTypes
  <2>4. UNCHANGED <<chunks, banned, used, query, pc, work, sending, fetches, ends,
                    times, sends, gone, bare, unmarked>>
    BY <2>1 DEF Fire
  <2> QED
    BY <2>1, <2>2, <2>3, <2>4 DEF TypeOK
<1>15. CASE End
  <2>1. unmarked' \subseteq Pages
    BY <1>15 DEF TypeOK, End
  <2> QED
    BY <1>15, <2>1 DEF TypeOK, End, None, Steps
<1>16. CASE UNCHANGED vars
  BY <1>16 DEF TypeOK, vars
<1> QED
  BY <1>1, <1>2, <1>3, <1>4, <1>5, <1>6, <1>7, <1>8, <1>9, <1>10, <1>11, <1>12, <1>13,
     <1>14, <1>15, <1>16 DEF Next, Proceed

\* What is frozen, sent or used are pages, by requests that exist.
THEOREM TypeCorrect == Spec => []TypeOK
  BY TypeInit, TypeStep, PTL DEF Spec

------------------------------------------------------------------------------
\* No page is lost.

LEMMA UnfreezeFacts ==
  ASSUME TypeOK, NEW R \in SUBSET Requests, Unfreeze(R)
  PROVE  /\ \A r \in Requests : frozen'[r] = IF r \in R THEN {} ELSE frozen[r]
         /\ available \subseteq available'
         /\ \A p \in Pages : p \in available' => p \in available \/ \E r \in R : p \in frozen[r]
         /\ \A p \in Pages : \A r \in R :
               p \in frozen[r] => p \in available' \/ attempts[r][p] >= Limit
<1>1. /\ \A r \in Requests : frozen'[r] = IF r \in R THEN {} ELSE frozen[r]
      /\ available \subseteq available'
  BY DEF Unfreeze, TypeOK
<1>2. \A p \in Pages : p \in available' => p \in available \/ \E r \in R : p \in frozen[r]
  BY DEF Unfreeze, Returned, TypeOK
<1>3. ASSUME NEW p \in Pages, NEW r \in R, p \in frozen[r], attempts[r][p] < Limit
      PROVE  p \in available'
  BY <1>3 DEF Unfreeze, Returned, TypeOK
<1>4. \A p \in Pages : \A r \in R : attempts[r][p] \in Nat
  BY DEF TypeOK
<1> QED
  BY <1>1, <1>2, <1>3, <1>4

LEMMA UnfreezeAttempts ==
  ASSUME TypeOK, Attempted, NEW R \in SUBSET Requests, Unfreeze(R), UNCHANGED times
  PROVE  Attempted'
<1>1. \A p \in Pages : tries'[p] = tries[p] \/ \E r \in R : tries'[p] = attempts[r][p]
  BY DEF Unfreeze, Returned, TypeOK
<1>2. \A p \in Pages : \A r \in Requests : attempts'[r][p] \in {0, attempts[r][p]}
  BY DEF Unfreeze, TypeOK, Zero
<1>3. ASSUME NEW p \in Pages PROVE tries'[p] <= times'[p]
  BY <1>1 DEF Attempted
<1>4. ASSUME NEW p \in Pages, NEW r \in Requests PROVE attempts'[r][p] <= times'[p]
  <2>1. times[p] \in Nat /\ attempts[r][p] <= times[p] /\ times'[p] = times[p]
    BY DEF Attempted, TypeOK
  <2> QED
    BY <1>2, <2>1
<1> QED
  BY <1>3, <1>4 DEF Attempted

LEMMA LInit == Init => LInv
  BY TypeInit DEF Init, LInv, Stages, Attempted, NothingLost, None, Zero, PagesOf

LEMMA StagesStep == TypeOK /\ Stages /\ [Next]_vars => Stages'
<1> SUFFICES ASSUME TypeOK, Stages, [Next]_vars PROVE Stages'
  OBVIOUS
<1>1. ASSUME NEW r \in Requests, Ask(r) \/ Search(r) \/ Choose(r) \/ Freeze(r) \/ Prepare(r)
      PROVE  Stages'
  <2>1. /\ pc' = [pc EXCEPT ![r] = pc'[r]] /\ batch' = batch /\ said' = said
        /\ pc[r] # "sending" /\ \A q \in Requests : q # r => frozen'[q] = frozen[q]
    BY <1>1 DEF TypeOK, Ask, Search, Choose, Freeze, Prepare
  <2>2. CASE Ask(r) \/ Search(r) \/ Choose(r)
    <3>1. pc[r] \in {"idle", "asked", "found"} /\ frozen' = frozen
      BY <2>2 DEF Ask, Search, Choose
    <3> QED BY <2>1, <3>1 DEF TypeOK, Stages
  <2>3. CASE Freeze(r) \/ Prepare(r)
    <3>1. pc'[r] \in {"over", "frozen", "sending"} BY <2>3 DEF TypeOK, Freeze, Prepare
    <3> QED BY <2>1, <3>1 DEF TypeOK, Stages
  <2> QED BY <1>1, <2>2, <2>3
<1>2. ASSUME NEW r \in Requests, Batch(r) \/ Cut(r) PROVE Stages'
  BY <1>2 DEF TypeOK, Stages, Batch, Cut
<1>3. ASSUME NEW r \in Requests, NEW p \in Pages,
             Say(r, p) \/ SayFails(r, p) \/ Mark(r, p) \/ MarkFails(r, p)
      PROVE  Stages'
  <2>1. pc[r] = "sending"
    BY <1>3 DEF Stages, Say, SayFails, Mark, MarkFails
  <2>2. /\ pc' = pc
        /\ \A q \in Requests : frozen'[q] \subseteq frozen[q]
        /\ \A q \in Requests : q # r => batch'[q] = batch[q] /\ said'[q] = said[q]
    <3>1. CASE Say(r, p) BY <3>1 DEF TypeOK, Say
    <3>2. CASE SayFails(r, p) BY <3>2 DEF TypeOK, SayFails
    <3>3. CASE Mark(r, p) BY <3>3 DEF TypeOK, Mark, Consumed
    <3>4. CASE MarkFails(r, p) BY <3>4 DEF TypeOK, MarkFails
    <3> QED BY <1>3, <3>1, <3>2, <3>3, <3>4
  <2> QED
    BY <2>1, <2>2 DEF Stages, TypeOK
<1>4. ASSUME NEW r \in Requests, Finish(r) PROVE Stages'
  <2>1. /\ \A q \in Requests : frozen'[q] = IF q \in {r} THEN {} ELSE frozen[q]
        /\ {r} \in SUBSET Requests
    BY <1>4, UnfreezeFacts DEF Finish
  <2> QED
    BY <1>4, <2>1 DEF TypeOK, Stages, Finish
<1>5. CASE Timeout \/ TimeoutEarly
  <2>1. PICK R \in SUBSET Requests : Fire(R)
    BY <1>5, Fires
  <2>2. Unfreeze(R) /\ UNCHANGED <<pc, work, batch, said>>
    BY <2>1 DEF Fire
  <2>3. \A q \in Requests : frozen'[q] = IF q \in R THEN {} ELSE frozen[q]
    BY <2>2, UnfreezeFacts
  <2> QED
    BY <2>2, <2>3 DEF TypeOK, Stages
<1>6. CASE End
  BY <1>6 DEF TypeOK, Stages, End, Running, None
<1>7. CASE Fetch \/ UNCHANGED vars
  BY <1>7 DEF Stages, Fetch, vars
<1> QED
  BY <1>1, <1>2, <1>3, <1>4, <1>5, <1>6, <1>7 DEF Next, Proceed

LEMMA AttemptedStep == TypeOK /\ Attempted /\ [Next]_vars => Attempted'
<1> SUFFICES ASSUME TypeOK, Attempted, [Next]_vars PROVE Attempted'
  OBVIOUS
<1>1. ASSUME Fetch PROVE Attempted'
  BY <1>1 DEF TypeOK, Attempted, Fetch, Commit
<1>2. ASSUME NEW r \in Requests, Choose(r) PROVE Attempted'
  BY <1>2 DEF TypeOK, Attempted, Choose
<1>3. ASSUME NEW r \in Requests, Freeze(r) PROVE Attempted'
  <2> SUFFICES ASSUME NEW p \in Pages
               PROVE  tries'[p] <= times'[p] /\ \A q \in Requests : attempts'[q][p] <= times'[p]
    BY DEF Attempted
  <2>1. tries'[p] = tries[p] /\ times'[p] \in {times[p], times[p] + 1}
    BY <1>3 DEF Freeze, TypeOK
  <2>2. ASSUME NEW q \in Requests PROVE attempts'[q][p] <= times'[p]
    <3>1. CASE q # r
      BY <1>3, <2>1, <3>1 DEF Freeze, TypeOK, Attempted
    <3>2. CASE q = r
      <4>1. CASE p \in work[r] \cap available
        BY <1>3, <3>2, <4>1 DEF Freeze, TypeOK, Attempted
      <4>2. CASE p \notin work[r] \cap available
        BY <1>3, <3>2, <4>2 DEF Freeze, TypeOK, Attempted
      <4> QED
        BY <4>1, <4>2
    <3> QED
      BY <3>1, <3>2
  <2> QED
    BY <2>1, <2>2 DEF Attempted, TypeOK
<1>4. ASSUME NEW r \in Requests, Finish(r) PROVE Attempted'
  BY <1>4, UnfreezeAttempts DEF Finish
<1>5. CASE Timeout \/ TimeoutEarly
  <2>1. PICK R \in SUBSET Requests : Fire(R)
    BY <1>5, Fires
  <2> QED
    BY <2>1, UnfreezeAttempts DEF Fire
<1>6. ASSUME UNCHANGED <<tries, times, attempts>> PROVE Attempted'
  BY <1>6 DEF Attempted
<1>7. ASSUME NEW r \in Requests, NEW p \in Pages,
             Say(r, p) \/ SayFails(r, p) \/ Mark(r, p) \/ MarkFails(r, p)
      PROVE  Attempted'
  BY <1>6, <1>7 DEF Say, SayFails, Mark, MarkFails
<1>8. ASSUME NEW r \in Requests, Ask(r) \/ Search(r) \/ Prepare(r) \/ Batch(r) \/ Cut(r)
      PROVE  Attempted'
  BY <1>6, <1>8 DEF Ask, Search, Prepare, Batch, Cut
<1>9. CASE End \/ UNCHANGED vars
  BY <1>6, <1>9 DEF End, vars
<1> QED
  BY <1>1, <1>2, <1>3, <1>4, <1>5, <1>7, <1>8, <1>9 DEF Next, Proceed

LEMMA LStep == LInv /\ [Next]_vars => LInv'
<1> SUFFICES ASSUME LInv, [Next]_vars PROVE NothingLost'
  BY TypeStep, StagesStep, AttemptedStep DEF LInv
<1> USE DEF LInv
<1>1. ASSUME Fetch PROVE NothingLost'
  BY <1>1 DEF TypeOK, NothingLost, Fetch, Commit, PagesOf
<1>2. ASSUME NEW r \in Requests, Freeze(r) PROVE NothingLost'
  <2>1. frozen[r] = {}
    BY <1>2 DEF Stages, Freeze
  <2>2. ASSUME NEW p \in Pages
        PROVE  /\ times'[p] >= times[p]
               /\ p \in available => p \in available' \/ p \in frozen'[r]
               /\ \A q \in Requests : p \in frozen[q] => p \in frozen'[q]
    BY <1>2, <2>1 DEF TypeOK, Freeze
  <2> QED
    BY <1>2, <2>2 DEF TypeOK, NothingLost, Freeze, PagesOf
<1>3. ASSUME NEW r \in Requests, NEW p \in Pages, Mark(r, p) PROVE NothingLost'
  BY <1>3 DEF TypeOK, NothingLost, Mark, Consumed, PagesOf
<1>4. ASSUME NEW R \in SUBSET Requests, Unfreeze(R), UNCHANGED <<chunks, used, times>>
      PROVE  NothingLost'
  <2> SUFFICES ASSUME NEW p \in PagesOf(chunks)
               PROVE  \/ p \in available' \cup used \/ times[p] >= Limit
                      \/ \E r \in Requests : p \in frozen'[r]
    BY <1>4 DEF NothingLost, PagesOf
  <2>1. p \in Pages
    BY DEF PagesOf
  <2>2. CASE \E r \in Requests : p \in frozen[r]
    <3>1. PICK r \in Requests : p \in frozen[r]
      BY <2>2
    <3>2. CASE r \in R
      <4>1. p \in available' \/ attempts[r][p] >= Limit
        BY <1>4, <2>1, <3>1, <3>2, UnfreezeFacts
      <4>2. attempts[r][p] <= times[p] /\ attempts[r][p] \in Nat /\ times[p] \in Nat
        BY <2>1, <3>1 DEF Attempted, TypeOK
      <4> QED
        BY <4>1, <4>2
    <3>3. CASE r \notin R
      BY <1>4, <3>1, <3>3, UnfreezeFacts
    <3> QED
      BY <3>2, <3>3
  <2>3. CASE ~\E r \in Requests : p \in frozen[r]
    BY <1>4, <2>3, UnfreezeFacts DEF NothingLost
  <2> QED
    BY <2>2, <2>3
<1>5. ASSUME NEW r \in Requests, Finish(r) PROVE NothingLost'
  BY <1>4, <1>5 DEF Finish
<1>6. CASE Timeout \/ TimeoutEarly
  <2>1. PICK R \in SUBSET Requests : Fire(R)
    BY <1>6, Fires
  <2> QED
    BY <1>4, <2>1 DEF Fire
<1>7. ASSUME UNCHANGED <<chunks, available, used, frozen, times>> PROVE NothingLost'
  BY <1>7 DEF NothingLost, PagesOf
<1>8. ASSUME NEW r \in Requests, NEW p \in Pages,
             Say(r, p) \/ SayFails(r, p) \/ MarkFails(r, p)
      PROVE  NothingLost'
  BY <1>7, <1>8 DEF Say, SayFails, MarkFails
<1>9. ASSUME NEW r \in Requests,
             Ask(r) \/ Search(r) \/ Choose(r) \/ Prepare(r) \/ Batch(r) \/ Cut(r)
      PROVE  NothingLost'
  BY <1>7, <1>9 DEF Ask, Search, Choose, Prepare, Batch, Cut
<1>10. CASE End \/ UNCHANGED vars
  BY <1>7, <1>10 DEF End, vars
<1> QED
  BY <1>1, <1>2, <1>3, <1>5, <1>6, <1>8, <1>9, <1>10 DEF Next, Proceed

\* However requests overlap, fail or are cut off, a page of a known gallery can
\* still be sent, is frozen, was used, or was frozen Limit times.
THEOREM LibraryCorrect == Spec => []NothingLost
<1>1. LInv => NothingLost
  BY DEF LInv
<1> QED
  BY <1>1, LInit, LStep, PTL DEF Spec

------------------------------------------------------------------------------
\* No page is sent twice.

LEMMA SInit == Init => SInv
  BY TypeInit DEF Init, SInv, Stages, Apart, OneOwner, Held, SentIsGone, Known, SentOnce, None, Zero

LEMMA MarkFailsFacts ==
  ASSUME TypeOK, NEW r \in Requests, NEW p \in Pages, MarkFails(r, p)
  PROVE  /\ UNCHANGED <<chunks, available, frozen, work, pc, sends, gone, bare>>
         /\ p \in said[r] /\ unmarked' = unmarked \cup {p}
         /\ \A q \in Requests : said'[q] = IF q = r THEN said[q] \ {p} ELSE said[q]
         /\ \A q \in Requests : batch'[q] = batch[q] \/ (q = r /\ batch'[q] = batch[q] \cup {p})
<1>1. /\ UNCHANGED <<chunks, available, frozen, work, pc, sends, gone, bare>>
      /\ p \in said[r] /\ unmarked' = unmarked \cup {p}
  BY DEF MarkFails
<1>2. \A q \in Requests : said'[q] = IF q = r THEN said[q] \ {p} ELSE said[q]
  BY DEF MarkFails, TypeOK
<1>3. \A q \in Requests : batch'[q] = batch[q] \/ (q = r /\ batch'[q] = batch[q] \cup {p})
  <2>1. CASE batch' = batch
    BY <2>1
  <2>2. CASE batch' = [batch EXCEPT ![r] = @ \cup {p}]
    BY <2>2 DEF TypeOK
  <2> QED
    BY <2>1, <2>2 DEF MarkFails
<1> QED
  BY <1>1, <1>2, <1>3

LEMMA ApartStep == TypeOK /\ Stages /\ Apart /\ [Next]_vars => Apart'
<1> SUFFICES ASSUME TypeOK, Stages, Apart, [Next]_vars PROVE Apart'
  OBVIOUS
<1>1. ASSUME NEW r \in Requests, Search(r) \/ Choose(r) PROVE Apart'
  <2>1. batch[r] = {} /\ said[r] = {}
    BY <1>1 DEF Stages, Search, Choose
  <2>2. /\ \A q \in Requests : q # r => work'[q] = work[q]
        /\ batch' = batch /\ said' = said
    BY <1>1 DEF TypeOK, Search, Choose
  <2> QED
    BY <2>1, <2>2 DEF Apart
<1>2. ASSUME NEW r \in Requests, Prepare(r) \/ Batch(r) \/ Finish(r) \/ Cut(r) PROVE Apart'
  BY <1>2 DEF TypeOK, Apart, Prepare, Batch, Finish, Cut
<1>3. ASSUME NEW r \in Requests, NEW p \in Pages,
             Say(r, p) \/ SayFails(r, p) \/ Mark(r, p) \/ MarkFails(r, p)
      PROVE  Apart'
  <2>1. CASE Say(r, p)
    BY <2>1 DEF TypeOK, Apart, Say
  <2>2. CASE SayFails(r, p)
    BY <2>2 DEF TypeOK, Apart, SayFails
  <2>4. CASE Mark(r, p)
    <3>1. /\ UNCHANGED <<work, batch>>
          /\ \A q \in Requests : said'[q] \subseteq said[q]
      BY <2>4 DEF TypeOK, Mark
    <3> QED
      BY <3>1 DEF Apart
  <2>3. CASE MarkFails(r, p)
    <3>1. /\ work' = work /\ p \in said[r]
          /\ \A q \in Requests : said'[q] = IF q = r THEN said[q] \ {p} ELSE said[q]
          /\ \A q \in Requests : batch'[q] = batch[q] \/ (q = r /\ batch'[q] = batch[q] \cup {p})
      BY <2>3, MarkFailsFacts
    <3>2. ASSUME NEW q \in Requests, NEW u \in Pages
          PROVE  /\ ~(u \in work[q] /\ u \in batch'[q])
                 /\ ~(u \in work[q] /\ u \in said'[q])
                 /\ ~(u \in batch'[q] /\ u \in said'[q])
      <4>1. /\ ~(u \in work[q] /\ u \in batch[q])
            /\ ~(u \in work[q] /\ u \in said[q])
            /\ ~(u \in batch[q] /\ u \in said[q])
        BY DEF Apart
      <4> QED
        BY <3>1, <4>1
    <3> QED
      BY <3>1, <3>2 DEF Apart
  <2> QED
    BY <1>3, <2>1, <2>2, <2>3, <2>4
<1>4. CASE End
  BY <1>4 DEF Apart, End, None
<1>5. ASSUME UNCHANGED <<work, batch, said>> PROVE Apart'
  BY <1>5 DEF Apart
<1>6. ASSUME NEW r \in Requests, Ask(r) \/ Freeze(r) PROVE Apart'
  BY <1>5, <1>6 DEF Ask, Freeze
<1>7. CASE Fetch \/ UNCHANGED vars
  BY <1>5, <1>7 DEF Fetch, vars
<1>8. CASE Timeout \/ TimeoutEarly
  <2>1. PICK R \in SUBSET Requests : Fire(R)
    BY <1>8, Fires
  <2> QED
    BY <1>5, <2>1 DEF Fire
<1> QED
  BY <1>1, <1>2, <1>3, <1>4, <1>6, <1>7, <1>8 DEF Next, Proceed

\* What is frozen, available and sent does not change, or only messages do.
Ownership == OneOwner /\ Held /\ SentIsGone /\ Known /\ SentOnce

LEMMA SFetch ==
  ASSUME SInv, Fetch
  PROVE  Ownership'
<1>1. PICK new \in SUBSET Illusts, old \in SUBSET chunks : Commit(new, old)
  BY DEF Fetch
<1>2. /\ \A p \in Pages : Clean(p)' => Clean(p) /\ Illust[p] \notin old
      /\ UNCHANGED <<frozen, work, batch, said, sends, pc>>
  BY <1>1 DEF Fetch, Commit, Clean
<1>3. \A p \in Pages : Clean(p)' /\ Illust[p] \notin chunks' => Illust[p] \notin chunks
  BY <1>1, <1>2 DEF Commit
<1>4. \A p \in Pages : Clean(p)' /\ p \in available' =>
          Illust[p] \in chunks' /\ (p \in available \/ Illust[p] \notin chunks)
  <2>1. \A p \in Pages : p \in available /\ Clean(p) => Illust[p] \in chunks
    BY DEF SInv, Known
  <2> QED
    BY <1>1, <1>2, <2>1 DEF Commit, PagesOf
<1>5. OneOwner'
  BY <1>2, <1>4 DEF OneOwner, SInv, Known
<1>6. Held'
  BY <1>2 DEF Held, SInv, TypeOK
<1>7. SentIsGone'
  BY <1>2, <1>4 DEF SentIsGone, SInv, Known
<1>8. Known'
  BY <1>2, <1>3, <1>4 DEF Known, SInv
<1>9. SentOnce'
  BY <1>2 DEF SentOnce, SInv, Clean
<1> QED
  BY <1>5, <1>6, <1>7, <1>8, <1>9 DEF Ownership

LEMMA SFreeze ==
  ASSUME SInv, NEW r \in Requests, Freeze(r)
  PROVE  Ownership'
<1> DEFINE F == work[r] \cap available
<1>1. /\ frozen[r] = {} /\ batch[r] = {} /\ said[r] = {}
  BY DEF SInv, Stages, Freeze
<1>2. /\ \A q \in Requests : frozen'[q] = IF q = r THEN F ELSE frozen[q]
      /\ available' = available \ F /\ bare' = bare \cup (work[r] \ F)
      /\ \A q \in Requests : q # r => pc'[q] = pc[q]
      /\ UNCHANGED <<chunks, work, batch, said, sends, gone, unmarked>>
  BY DEF SInv, TypeOK, Freeze
<1>3. \A p \in Pages : Clean(p)' => Clean(p) /\ (p \in work[r] => p \in F)
  BY <1>2 DEF Clean
<1> HIDE DEF F
<1>4. F \subseteq available /\ F \subseteq Pages
  BY DEF F, SInv, TypeOK
<1>5. OneOwner'
  BY <1>1, <1>2, <1>3, <1>4 DEF OneOwner, SInv
<1>6. Held'
  <2> SUFFICES ASSUME NEW q \in Requests, pc'[q] \in {"frozen", "sending"},
                      NEW p \in work[q] \cup batch[q] \cup said[q], Clean(p)'
               PROVE  p \in frozen'[q]
    BY <1>2 DEF Held
  <2>1. p \in Pages
    BY DEF SInv, TypeOK
  <2>2. CASE q = r
    BY <1>1, <1>2, <1>3, <2>1, <2>2
  <2>3. CASE q # r
    BY <1>2, <1>3, <2>1, <2>3 DEF Held, SInv
  <2> QED
    BY <2>2, <2>3
<1>7. SentIsGone'
  <2> SUFFICES ASSUME NEW p \in Pages, Clean(p)', sends[p] # 0
               PROVE  /\ p \notin available'
                      /\ (\E q \in Requests : p \in said[q]) \/ (\A q \in Requests : p \notin frozen'[q])
    BY <1>2 DEF SentIsGone
  <2>1. p \notin available /\ p \notin F
    BY <1>3, <1>4 DEF SInv, SentIsGone
  <2> QED
    BY <1>2, <1>3, <2>1 DEF SInv, SentIsGone
<1>8. Known'
  BY <1>2, <1>3, <1>4 DEF Known, SInv
<1>9. SentOnce'
  BY <1>2 DEF SentOnce, SInv
<1> QED
  BY <1>5, <1>6, <1>7, <1>8, <1>9 DEF Ownership

LEMMA SSay ==
  ASSUME SInv, NEW r \in Requests, NEW p \in Pages, Say(r, p)
  PROVE  Ownership'
<1>1. /\ UNCHANGED <<chunks, available, frozen, work, pc, gone, bare, unmarked>>
      /\ p \in batch[r] /\ pc[r] = "sending"
      /\ \A q \in Requests : /\ batch'[q] \subseteq batch[q]
                             /\ said'[q] = IF q = r THEN said[q] \cup {p} ELSE said[q]
      /\ \A q \in Pages : sends'[q] = IF q = p THEN sends[q] + 1 ELSE sends[q]
  BY DEF SInv, TypeOK, Stages, Say
<1>2. \A q \in Pages : Clean(q)' <=> Clean(q)
  BY <1>1 DEF Clean
<1>3. Clean(p) => p \in frozen[r]
  BY <1>1 DEF SInv, Held
<1>4. Clean(p) => sends[p] = 0
  <2> SUFFICES ASSUME Clean(p), sends[p] # 0 PROVE FALSE
    OBVIOUS
  <2>1. PICK q \in Requests : p \in said[q]
    BY <1>3 DEF SInv, SentIsGone
  <2>2. p \in frozen[q]
    BY <2>1 DEF SInv, Stages, Held
  <2>3. q = r
    BY <1>3, <2>2 DEF SInv, OneOwner
  <2> QED
    BY <1>1, <2>1, <2>3 DEF SInv, Apart
<1>5. OneOwner'
  BY <1>1, <1>2 DEF OneOwner, SInv
<1>6. Held'
  <2> SUFFICES ASSUME NEW q \in Requests, pc[q] \in {"frozen", "sending"},
                      NEW u \in work[q] \cup batch'[q] \cup said'[q], Clean(u)'
               PROVE  u \in frozen[q]
    BY <1>1 DEF Held
  <2>2. u \in work[q] \cup batch[q] \cup said[q]
    BY <1>1
  <2>1. u \in work[q] \cup batch[q] \cup said[q] /\ u \in Pages
    BY <2>2 DEF SInv, TypeOK
  <2> QED
    BY <1>2, <2>1 DEF Held, SInv
<1>7. SentIsGone'
  BY <1>1, <1>2, <1>3, ZenonT(60) DEF SentIsGone, OneOwner, SInv
<1>8. Known'
  BY <1>1, <1>2, <1>3 DEF Known, SInv
<1>9. SentOnce'
  <2> SUFFICES ASSUME NEW q \in Pages, Clean(q)' PROVE sends'[q] <= 1
    BY <1>1 DEF SentOnce, Clean
  <2>1. Clean(q)
    BY <1>2
  <2>2. CASE q = p
    BY <1>1, <1>4, <2>1, <2>2
  <2>3. CASE q # p
    BY <1>1, <2>1, <2>3 DEF SInv, SentOnce, Clean
  <2> QED
    BY <2>2, <2>3
<1> QED
  BY <1>5, <1>6, <1>7, <1>8, <1>9 DEF Ownership

LEMMA SMark ==
  ASSUME SInv, NEW r \in Requests, NEW p \in Pages, Mark(r, p)
  PROVE  Ownership'
<1>1. /\ UNCHANGED <<chunks, batch, work, pc, sends, gone, bare, unmarked>>
      /\ p \in said[r] /\ pc[r] = "sending"
      /\ available' = available \ {p}
      /\ \A q \in Requests : /\ said'[q] = IF q = r THEN said[q] \ {p} ELSE said[q]
                             /\ frozen'[q] = IF q = r THEN frozen[q] \ {p} ELSE frozen[q]
  BY DEF SInv, TypeOK, Stages, Mark, Consumed
<1>2. \A q \in Pages : Clean(q)' <=> Clean(q)
  BY <1>1 DEF Clean
<1>3. Clean(p) => p \in frozen[r]
  BY <1>1 DEF SInv, Held
<1>5. OneOwner'
  BY <1>1, <1>2 DEF OneOwner, SInv
<1>6. Held'
  <2> SUFFICES ASSUME NEW q \in Requests, pc[q] \in {"frozen", "sending"},
                      NEW u \in work[q] \cup batch[q] \cup said'[q], Clean(u)'
               PROVE  u \in frozen'[q]
    BY <1>1 DEF Held
  <2>1. u \in work[q] \cup batch[q] \cup said[q] /\ u \in Pages
    BY <1>1 DEF SInv, TypeOK
  <2>2. u \in frozen[q]
    BY <1>2, <2>1 DEF Held, SInv
  <2>3. ~(q = r /\ u = p)
    BY <1>1 DEF SInv, Apart
  <2> QED
    BY <1>1, <2>2, <2>3
<1>7. SentIsGone'
  <2> SUFFICES ASSUME NEW q \in Pages, Clean(q), sends[q] # 0
               PROVE  /\ q \notin available'
                      /\ (\E t \in Requests : q \in said'[t]) \/ (\A t \in Requests : q \notin frozen'[t])
    BY <1>1, <1>2 DEF SentIsGone
  <2>1. CASE q = p
    BY <1>1, <1>3, <2>1 DEF SInv, OneOwner
  <2>2. CASE q # p
    BY <1>1, <2>2 DEF SInv, SentIsGone
  <2> QED
    BY <2>1, <2>2
<1>8. Known'
  BY <1>1, <1>2 DEF Known, SInv
<1>9. SentOnce'
  BY <1>1 DEF SentOnce, SInv
<1> QED
  BY <1>5, <1>6, <1>7, <1>8, <1>9 DEF Ownership

LEMMA SUnfreeze ==
  ASSUME SInv, NEW R \in SUBSET Requests, Unfreeze(R),
         \A r \in R : frozen[r] # {} => said[r] = {} /\ pc'[r] \notin {"frozen", "sending"},
         \A r \in Requests : pc'[r] = "over" \/ (pc'[r] = pc[r] /\ work'[r] = work[r]),
         UNCHANGED <<chunks, batch, said, sends, gone, bare, unmarked>>
  PROVE  Ownership'
<1>1. /\ \A r \in Requests : frozen'[r] = IF r \in R THEN {} ELSE frozen[r]
      /\ \A p \in Pages : p \in available' => p \in available \/ \E r \in R : p \in frozen[r]
  BY UnfreezeFacts DEF SInv
<1>2. \A q \in Pages : Clean(q)' <=> Clean(q)
  BY DEF Clean
<1>3. OneOwner'
  BY <1>1, <1>2 DEF OneOwner, SInv
<1>4. Held'
  <2> SUFFICES ASSUME NEW q \in Requests, pc'[q] \in {"frozen", "sending"},
                      NEW u \in work'[q] \cup batch[q] \cup said[q], Clean(u)'
               PROVE  u \in frozen'[q]
    BY DEF Held
  <2>1. pc'[q] = pc[q] /\ u \in work[q] \cup batch[q] \cup said[q] /\ u \in Pages
    BY DEF SInv, TypeOK
  <2>2. u \in frozen[q]
    BY <1>2, <2>1 DEF Held, SInv
  <2> QED
    BY <1>1, <2>2
<1>5. SentIsGone'
  <2> SUFFICES ASSUME NEW q \in Pages, Clean(q), sends[q] # 0
               PROVE  /\ q \notin available'
                      /\ (\E t \in Requests : q \in said[t]) \/ (\A t \in Requests : q \notin frozen'[t])
    BY <1>2 DEF SentIsGone
  <2>1. CASE \A t \in Requests : q \notin frozen[t]
    BY <1>1, <2>1 DEF SInv, SentIsGone
  <2>2. CASE \E t \in Requests : q \in said[t]
    <3>1. PICK t \in Requests : q \in said[t]
      BY <2>2
    <3>2. q \in frozen[t] /\ t \notin R
      BY <3>1 DEF SInv, Stages, Held
    <3>3. \A w \in R : q \notin frozen[w]
      BY <3>2 DEF SInv, OneOwner
    <3> QED
      BY <1>1, <3>1, <3>3 DEF SInv, SentIsGone
  <2> QED
    BY <2>1, <2>2 DEF SInv, SentIsGone
<1>6. Known'
  BY <1>1, <1>2 DEF Known, SInv
<1>7. SentOnce'
  BY DEF SentOnce, SInv
<1> QED
  BY <1>3, <1>4, <1>5, <1>6, <1>7 DEF Ownership

\* The steps that move no page between the library and a freeze
LEMMA SSame ==
  ASSUME SInv, UNCHANGED <<chunks, available, frozen, sends, gone>>,
         bare \subseteq bare', unmarked \subseteq unmarked',
         \A r \in Requests : pc'[r] \in {"frozen", "sending"} =>
            /\ pc[r] \in {"frozen", "sending"}
            /\ work'[r] \cup batch'[r] \cup said'[r] \subseteq work[r] \cup batch[r] \cup said[r],
         \A r \in Requests : said[r] \subseteq said'[r] \cup unmarked'
  PROVE  Ownership'
<1>1. \A p \in Pages : Clean(p)' => Clean(p)
  BY DEF Clean
<1>2. OneOwner'
  BY <1>1 DEF OneOwner, SInv
<1>3. Held'
  <2> SUFFICES ASSUME NEW q \in Requests, pc'[q] \in {"frozen", "sending"},
                      NEW u \in work'[q] \cup batch'[q] \cup said'[q], Clean(u)'
               PROVE  u \in frozen[q]
    BY DEF Held
  <2>1. u \in work[q] \cup batch[q] \cup said[q] /\ u \in Pages
    BY DEF SInv, TypeOK
  <2> QED
    BY <1>1, <2>1 DEF Held, SInv
<1>4. SentIsGone'
  BY <1>1 DEF SentIsGone, SInv, Clean
<1>5. Known'
  BY <1>1 DEF Known, SInv
<1>6. SentOnce'
  BY DEF SentOnce, SInv
<1> QED
  BY <1>2, <1>3, <1>4, <1>5, <1>6 DEF Ownership

LEMMA SStep == SInv /\ [Next]_vars => SInv'
<1> SUFFICES ASSUME SInv, [Next]_vars PROVE Ownership'
  BY TypeStep, StagesStep, ApartStep DEF SInv, Ownership
<1>1. ASSUME NEW r \in Requests, Ask(r) \/ Search(r) \/ Choose(r) \/ Prepare(r) \/ Batch(r) \/ Cut(r)
      PROVE  Ownership'
  <2>1. UNCHANGED <<chunks, available, frozen, sends, gone>> /\ bare \subseteq bare'
    BY <1>1 DEF Ask, Search, Choose, Prepare, Batch, Cut
  <2>2. unmarked \subseteq unmarked' /\ \A q \in Requests : said[q] \subseteq said'[q] \cup unmarked'
    BY <1>1 DEF SInv, TypeOK, Ask, Search, Choose, Prepare, Batch, Cut
  <2>3. \A q \in Requests : pc'[q] \in {"frozen", "sending"} =>
            /\ pc[q] \in {"frozen", "sending"}
            /\ work'[q] \cup batch'[q] \cup said'[q] \subseteq work[q] \cup batch[q] \cup said[q]
    <3>1. CASE Ask(r) \/ Search(r) \/ Choose(r)
      BY <3>1, ZenonT(60) DEF SInv, TypeOK, Ask, Search, Choose
    <3>2. CASE Prepare(r) \/ Cut(r)
      BY <3>2 DEF SInv, TypeOK, Prepare, Cut
    <3>3. CASE Batch(r)
      BY <3>3 DEF SInv, TypeOK, Batch
    <3> QED
      BY <1>1, <3>1, <3>2, <3>3
  <2> QED
    BY <2>1, <2>2, <2>3, SSame
<1>2. ASSUME NEW r \in Requests, NEW p \in Pages, SayFails(r, p) \/ MarkFails(r, p)
      PROVE  Ownership'
  <2>1. CASE SayFails(r, p)
    <3>1. UNCHANGED <<chunks, available, frozen, sends, gone, work, pc, said, bare, unmarked>>
      BY <2>1 DEF SayFails
    <3>2. \A q \in Requests : batch'[q] \subseteq batch[q]
      BY <2>1 DEF SInv, TypeOK, SayFails
    <3> QED
      BY <3>1, <3>2, SSame
  <2>2. CASE MarkFails(r, p)
    <3>1. /\ UNCHANGED <<chunks, available, frozen, sends, gone, work, pc>>
          /\ bare \subseteq bare' /\ unmarked \subseteq unmarked'
      BY <2>2, MarkFailsFacts DEF SInv
    <3>4. /\ p \in said[r] /\ unmarked' = unmarked \cup {p}
          /\ \A q \in Requests : said'[q] = IF q = r THEN said[q] \ {p} ELSE said[q]
          /\ \A q \in Requests : batch'[q] = batch[q] \/ (q = r /\ batch'[q] = batch[q] \cup {p})
      BY <2>2, MarkFailsFacts DEF SInv
    <3>2. \A q \in Requests : said[q] \subseteq said'[q] \cup unmarked'
      BY <3>4
    <3>3. \A q \in Requests : batch'[q] \cup said'[q] \subseteq batch[q] \cup said[q]
      BY <3>4
    <3> QED
      BY <3>1, <3>2, <3>3, SSame
  <2> QED
    BY <1>2, <2>1, <2>2
<1>3. ASSUME NEW r \in Requests, Finish(r) PROVE Ownership'
  <2>1. {r} \in SUBSET Requests /\ Unfreeze({r}) /\ said[r] = {} /\ pc'[r] = "over"
    BY <1>3 DEF SInv, TypeOK, Finish
  <2>2. /\ \A q \in Requests : pc'[q] = "over" \/ (pc'[q] = pc[q] /\ work'[q] = work[q])
        /\ UNCHANGED <<chunks, batch, said, sends, gone, bare, unmarked>>
    BY <1>3 DEF SInv, TypeOK, Finish
  <2> QED
    BY <2>1, <2>2, SUnfreeze
<1>4. CASE Timeout \/ TimeoutEarly
  <2>1. PICK R \in SUBSET Requests : Fire(R)
    BY <1>4, Fires DEF SInv
  <2>2. /\ Unfreeze(R)
        /\ UNCHANGED <<chunks, batch, said, sends, gone, bare, unmarked, work, pc>>
    BY <2>1 DEF Fire
  <2>3. \A q \in Requests : frozen[q] # {} => said[q] = {} /\ pc'[q] \notin {"frozen", "sending"}
    BY <2>1, <2>2 DEF SInv, Stages, Fire, Running
  <2> QED
    BY <2>2, <2>3, SUnfreeze
<1>5. CASE End
  <2>1. UNCHANGED <<chunks, available, frozen, sends, gone>> /\ bare \subseteq bare'
    BY <1>5 DEF End
  <2>2. unmarked \subseteq unmarked' /\ \A q \in Requests : said[q] \subseteq said'[q] \cup unmarked'
    BY <1>5 DEF End
  <2>3. \A q \in Requests : pc'[q] \notin {"frozen", "sending"}
    BY <1>5 DEF SInv, TypeOK, End, Running
  <2> QED
    BY <2>1, <2>2, <2>3, SSame
<1>6. CASE UNCHANGED vars
  <2>1. UNCHANGED <<chunks, available, frozen, sends, gone, bare, unmarked, pc, work, batch, said>>
    BY <1>6 DEF vars
  <2> QED
    BY <2>1, SSame
<1> QED
  BY <1>1, <1>2, <1>3, <1>4, <1>5, <1>6, SFetch, SFreeze, SSay, SMark DEF Next, Proceed

\* Whatever requests run beside each other, fail or are cut off, a page appears
\* in the chat once, apart from what nobody froze or nobody marked.
THEOREM SendingCorrect == Spec => []SentOnce
<1>1. SInv => SentOnce
  BY DEF SInv
<1> QED
  BY <1>1, SInit, SStep, PTL DEF Spec
=============================================================================
