-------------------------- MODULE PrivateChatProofs --------------------------
(***************************************************************************)
(* What PrivateChat keeps, for any messages, notices and bounds: the types,*)
(* the history, and the answers to notices.                                *)
(***************************************************************************)
EXTENDS PrivateChat, TLAPS

\* Objects are made one after the other; only the registered one is enabled, and
\* what is not enabled any more is somewhere in its shutdown.
Ordered ==
    /\ registry <= made
    /\ \A o \in enable : o = registry /\ o <= made /\ close[o] = "no"
    /\ \A o \in Objs : o <= made /\ o \notin enable => close[o] # "no"
    /\ \A o \in Objs : o > made => /\ close[o] = "no" /\ o \notin loaded /\ o \notin main
                                   /\ queue[o] = <<>> /\ work[o] = NoMsg
    /\ \A o \in Objs : close[o] # "no" => closer[o] \in {"reaper", "exit"}
    /\ registry # 0 => close[registry] # "done"
    /\ enable \subseteq loaded

\* Who asks does so at an object that was made, and that is not due.
Asking ==
    \A n \in Notices :
        /\ at[n] <= made
        /\ pc[n] = "asking" => at[n] \in Objs /\ at[n] \notin due

\* What the reaper closes says nothing after it has saved.
Quiet ==
    \A o \in Objs :
        /\ close[o] \in {"drain", "done"} => o \notin main
        /\ close[o] \in {"begun", "drain", "done"} /\ closer[o] = "reaper" =>
              /\ queue[o] = <<>> /\ work[o] = NoMsg
              /\ \A n \in Notices : ~(pc[n] = "asking" /\ at[n] = o)

\* Where the messages are
Kept ==
    overlap \/ late \/
        /\ registry = 0 => told \subseteq file
        /\ registry # 0 => IF close[registry] = "drain" THEN told \subseteq file
                           ELSE told \subseteq hist[registry]
        /\ \A o \in Objs : o <= made /\ o # registry => close[o] \in {"drain", "done"}

HInv == TypeOK /\ Ordered /\ Asking /\ Quiet /\ Kept

\* Where an answer is, on its way to who asked
Answers ==
    \A n \in Notices :
        /\ Open(n) => pc[n] \in {"asked", "waiting", "giveup"} \/ (pc[n] = "done" /\ n \in lost)
        /\ n \in got => /\ pc[n] \in {"asked", "waiting", "settle", "giveup", "done"}
                        /\ status[n] = "answered" \/ n \in lost
                        /\ pc[n] = "done" => n \in answer \cup lost
        /\ pc[n] \in {"none", "asking"} => n \notin got /\ n \notin timer

AInv == TypeOK /\ Answers

USE PrivateChatAssumption

------------------------------------------------------------------------------
\* Every variable keeps its type.

LEMMA TypeInit == Init => TypeOK
<1> SUFFICES ASSUME Init PROVE TypeOK
  OBVIOUS
<1>1. queue \in [Objs -> Seq(Msgs)] /\ line \in Seq(Notices)
  BY DEF Init
<1>2. work \in [Objs -> Msgs \cup {NoMsg}] /\ hist \in [Objs -> SUBSET Items]
  BY DEF Init
<1>3. at \in [Notices -> 0..MaxObjs] /\ status \in [Notices -> Status] /\ pc \in [Notices -> Waiter]
  BY DEF Init, Status, Waiter
<1>4. /\ close \in [Objs -> {"no", "begun", "drain", "done", "failed"}]
      /\ closer \in [Objs -> {"none", "reaper", "exit"}]
  BY DEF Init
<1>5. made \in 0..MaxObjs /\ registry \in 0..MaxObjs
  BY DEF Init
<1>6. rouses \in 0..MaxRouses /\ errors \in 0..MaxErrors /\ ends \in 0..MaxEnds
  BY DEF Init
<1>7. /\ enable \subseteq Objs /\ loaded \subseteq Objs /\ file \subseteq Items /\ told \subseteq Items
      /\ manage \subseteq Objs /\ main \subseteq Objs /\ busy \subseteq main /\ due \subseteq Objs
      /\ refd \subseteq Notices /\ timer \subseteq Notices /\ answer \subseteq Notices
      /\ got \subseteq Notices /\ lost \subseteq Notices
  BY DEF Init
<1>8. reaper \in {"none", "wait", "closing"} /\ wake \in BOOLEAN /\ overlap \in BOOLEAN /\ late \in BOOLEAN
  BY DEF Init
<1> QED
  BY <1>1, <1>2, <1>3, <1>4, <1>5, <1>6, <1>7, <1>8 DEF TypeOK

LEMMA ReachTypes ==
  ASSUME TypeOK, NEW o \in Objs, Reach(o)
  PROVE  /\ made' \in 0..MaxObjs /\ registry' \in 0..MaxObjs
         /\ enable' \subseteq Objs /\ loaded' \subseteq Objs /\ due' \subseteq Objs
         /\ overlap' \in BOOLEAN /\ reaper' \in {"none", "wait", "closing"} /\ wake' \in BOOLEAN
         /\ Load(o) \in [Objs -> SUBSET Items]
<1>1. /\ loaded' \subseteq Objs /\ due' \subseteq Objs
      /\ reaper' \in {"none", "wait", "closing"} /\ wake' \in BOOLEAN
  BY DEF TypeOK, Reach, Touch
<1>2. Load(o) \in [Objs -> SUBSET Items]
  BY DEF TypeOK, Load
<1>3. /\ made' \in 0..MaxObjs /\ registry' \in 0..MaxObjs
      /\ enable' \subseteq Objs /\ overlap' \in BOOLEAN
  <2>1. CASE Serving
    BY <2>1 DEF TypeOK, Reach, object
  <2>2. CASE ~Serving
    <3>1. made' = o /\ registry' = o /\ enable' = enable \cup {o} /\ o \in 0..MaxObjs
      BY <2>2 DEF Reach, Objs
    <3>2. overlap' \in BOOLEAN
      BY <2>2 DEF Reach, TypeOK
    <3> QED
      BY <3>1, <3>2 DEF TypeOK
  <2> QED
    BY <2>1, <2>2
<1> QED
  BY <1>1, <1>2, <1>3

LEMMA TypeStep == TypeOK /\ [Next]_vars => TypeOK'
<1> SUFFICES ASSUME TypeOK, [Next]_vars PROVE TypeOK'
  OBVIOUS
<1> USE DEF object, dialogs, closing, notices, bounds
<1>1. ASSUME NEW o \in Objs, NEW m \in Msgs, accept_message(m, o) PROVE TypeOK'
  <2>1. /\ hist' \in [Objs -> SUBSET Items] /\ told' \subseteq Items
        /\ queue' \in [Objs -> Seq(Msgs)]
    BY <1>1, ReachTypes DEF accept_message, TypeOK, Items
  <2> QED
    BY <1>1, <2>1, ReachTypes DEF accept_message, TypeOK
<1>2. ASSUME NEW o \in Objs, Take(o) PROVE TypeOK'
  <2>1. queue[o] \in Seq(Msgs) /\ queue[o] # <<>>
    BY <1>2 DEF Take, TypeOK
  <2>2. Head(queue[o]) \in Msgs /\ Tail(queue[o]) \in Seq(Msgs)
    BY <2>1
  <2>3. \A i \in OpenAt(o) : line[i] \in Notices
    BY DEF OpenAt, TypeOK
  <2>4. work' \in [Objs -> Msgs \cup {NoMsg}] /\ status' \in [Notices -> Status] /\ got' \subseteq Notices
    <3>1. ASSUME NEW i \in OpenAt(o), status' = [status EXCEPT ![line[i]] = "answered"],
                 got' = got \cup {line[i]},
                 work' \in {work, [work EXCEPT ![o] = Head(queue[o])]}
          PROVE  /\ work' \in [Objs -> Msgs \cup {NoMsg}] /\ status' \in [Notices -> Status]
                 /\ got' \subseteq Notices
      <4>1. work \in [Objs -> Msgs \cup {NoMsg}]
        BY DEF TypeOK
      <4>2. [work EXCEPT ![o] = Head(queue[o])] \in [Objs -> Msgs \cup {NoMsg}]
        BY <2>2, <4>1
      <4>3. work' \in [Objs -> Msgs \cup {NoMsg}]
        BY <3>1, <4>1, <4>2
      <4> QED
        BY <2>3, <3>1, <4>3 DEF TypeOK, Status
    <3>2. ASSUME work' = [work EXCEPT ![o] = Head(queue[o])], UNCHANGED <<status, got>>
          PROVE  /\ work' \in [Objs -> Msgs \cup {NoMsg}] /\ status' \in [Notices -> Status]
                 /\ got' \subseteq Notices
      BY <2>2, <3>2 DEF TypeOK
    <3> QED
      BY <1>2, <3>1, <3>2 DEF Take
  <2> QED
    BY <1>2, <2>2, <2>4 DEF Take, TypeOK
<1>3. ASSUME NEW o \in Objs, NEW x \in Outs, Says(o, x) PROVE TypeOK'
  BY <1>3 DEF Says, Tell, Touch, TypeOK, Items
<1>4. ASSUME NEW o \in Objs, Finish(o) \/ Rouse(o) \/ Rest(o) PROVE TypeOK'
  <2>1. /\ work' \in [Objs -> Msgs \cup {NoMsg}] /\ rouses' \in 0..MaxRouses
        /\ manage' \subseteq Objs /\ main' \subseteq Objs /\ busy' \subseteq main'
    <3>1. CASE Finish(o)
      BY <3>1 DEF Finish, TypeOK
    <3>2. CASE Rouse(o)
      BY <3>2 DEF Rouse, TypeOK
    <3>3. CASE Rest(o)
      BY <3>3 DEF Rest, TypeOK
    <3> QED
      BY <1>4, <3>1, <3>2, <3>3
  <2> QED
    BY <1>4, <2>1 DEF Finish, Rouse, Rest, TypeOK
<1>5. ASSUME NEW o \in Objs, ManageTimeout(o) PROVE TypeOK'
  BY <1>5 DEF ManageTimeout, Touch, TypeOK
<1>6. ASSUME NEW n \in Notices, NEW o \in Objs, Ask(n, o) PROVE TypeOK'
  <2>1. pc' \in [Notices -> Waiter] /\ at' \in [Notices -> 0..MaxObjs]
    BY <1>6 DEF Ask, TypeOK, Waiter, Objs
  <2> QED
    BY <1>6, <2>1, ReachTypes DEF Ask, TypeOK
<1>7. ASSUME NEW n \in Notices, AskSent(n) PROVE TypeOK'
  <2>1. /\ hist' \in [Objs -> SUBSET Items] /\ told' \subseteq Items /\ late' \in BOOLEAN
    BY <1>7 DEF AskSent, Tell, TypeOK, Items
  <2>2. line' \in Seq(Notices)
    BY <1>7 DEF AskSent, TypeOK
  <2> QED
    BY <1>7, <2>1, <2>2 DEF AskSent, TypeOK, Status, Waiter
<1>8. ASSUME NEW n \in Notices, WaiterStep(n) \/ WaitTimeout(n) \/ Expire(n), ~AskSent(n) PROVE TypeOK'
  BY <1>8, ZenonT(60) DEF WaiterStep, AskFails, WaitStart, Woken, Settle, GiveUp, WaitTimeout, Expire, NoticeStep,
              remove_notice, TypeOK, Status, Waiter
<1>9. ASSUME NEW o \in Objs, NEW who \in {"reaper", "exit"}, CloseBegin(o, who),
             reaper' \in {"none", "wait", "closing"}, wake' \in BOOLEAN, UNCHANGED bounds
      PROVE  TypeOK'
  <2>1. status' \in [Notices -> Status]
    BY <1>9 DEF CloseBegin, Cancelled, TypeOK, Status
  <2> QED
    BY <1>9, <2>1 DEF CloseBegin, TypeOK
<1>10. ASSUME NEW o \in Objs, CloseSave(o) \/ CloseFails(o) \/ Due(o) PROVE TypeOK'
  <2>1. CASE CloseSave(o)
    BY <2>1 DEF CloseSave, TypeOK
  <2>2. CASE CloseFails(o)
    BY <2>2 DEF CloseFails, ReaperGoesOn, TypeOK
  <2>3. CASE Due(o)
    BY <2>3 DEF Due, TypeOK
  <2> QED
    BY <1>10, <2>1, <2>2, <2>3
<1>11. ASSUME NEW o \in Objs, CloseEnd(o) PROVE TypeOK'
  <2>1. /\ work' \in [Objs -> Msgs \cup {NoMsg}] /\ registry' \in 0..MaxObjs
        /\ close' \in [Objs -> {"no", "begun", "drain", "done", "failed"}]
        /\ wake' \in BOOLEAN /\ reaper' \in {"none", "wait", "closing"}
    BY <1>11 DEF CloseEnd, Unregistered, TypeOK
  <2> QED
    BY <1>11, <2>1 DEF CloseEnd, TypeOK
<1>12. ASSUME NEW o \in Objs, ExitClose(o) PROVE TypeOK'
  BY <1>9, <1>12 DEF ExitClose, TypeOK
<1>13. CASE ReaperCycle
  <2>1. Serving => registry \in Objs
    BY DEF Serving, TypeOK
  <2>2. CASE Serving /\ registry \in due /\ Idle(registry)
    BY <1>9, <1>13, <2>1, <2>2 DEF ReaperCycle, TypeOK
  <2>3. CASE ~(Serving /\ registry \in due /\ Idle(registry))
    BY <1>13, <2>3 DEF ReaperCycle, ReaperGoesOn, TypeOK
  <2> QED
    BY <2>2, <2>3
<1>14. CASE End
  <2>1. queue' \in [Objs -> Seq(Msgs)] /\ line' \in Seq(Notices)
    BY <1>14 DEF End
  <2>2. work' \in [Objs -> Msgs \cup {NoMsg}] /\ hist' \in [Objs -> SUBSET Items]
    BY <1>14 DEF End
  <2>3. at' \in [Notices -> 0..MaxObjs] /\ status' \in [Notices -> Status] /\ pc' \in [Notices -> Waiter]
    BY <1>14 DEF End, Status, Waiter
  <2>4. /\ close' \in [Objs -> {"no", "begun", "drain", "done", "failed"}]
        /\ closer' \in [Objs -> {"none", "reaper", "exit"}]
    BY <1>14 DEF End
  <2>5. /\ made' \in 0..MaxObjs /\ registry' \in 0..MaxObjs
        /\ rouses' \in 0..MaxRouses /\ errors' \in 0..MaxErrors /\ ends' \in 0..MaxEnds
    BY <1>14 DEF End, TypeOK
  <2>6. /\ enable' \subseteq Objs /\ loaded' \subseteq Objs /\ file' \subseteq Items /\ told' \subseteq Items
        /\ manage' \subseteq Objs /\ main' \subseteq Objs /\ busy' \subseteq main' /\ due' \subseteq Objs
        /\ refd' \subseteq Notices /\ timer' \subseteq Notices /\ answer' \subseteq Notices
        /\ got' \subseteq Notices /\ lost' \subseteq Notices
        /\ reaper' \in {"none", "wait", "closing"} /\ wake' \in BOOLEAN
        /\ overlap' \in BOOLEAN /\ late' \in BOOLEAN
    BY <1>14 DEF End, TypeOK
  <2> QED
    BY <2>1, <2>2, <2>3, <2>4, <2>5, <2>6 DEF TypeOK
<1>15. CASE UNCHANGED vars
  BY <1>15 DEF vars, TypeOK
<1> QED
  BY <1>1, <1>2, <1>3, <1>4, <1>5, <1>6, <1>7, <1>8, <1>10, <1>11, <1>12, <1>13, <1>14, <1>15
     DEF Next, ObjectStep, WaiterStep

\* Every variable keeps its type.
THEOREM TypeCorrect == Spec => []TypeOK
BY TypeInit, TypeStep, PTL DEF Spec

------------------------------------------------------------------------------
\* An answer that was taken is not lost on its way.

\* Taking a message for a notice keeps track of the answer.
LEMMA AnswersTake ==
  ASSUME AInv, NEW o \in Objs, Take(o) PROVE Answers'
<1> USE DEF AInv, TypeOK, Answers, Open
<1>1. CASE UNCHANGED <<status, got>>
  BY <1>1 DEF Take
<1>2. CASE \E i \in OpenAt(o) : status' = [status EXCEPT ![line[i]] = "answered"]
                                /\ got' = got \cup {line[i]}
  <2> PICK i \in OpenAt(o) : status' = [status EXCEPT ![line[i]] = "answered"]
                             /\ got' = got \cup {line[i]}
    BY <1>2
  <2> DEFINE n == line[i]
  <2>1. n \in Notices /\ status[n] = "open"
    BY DEF OpenAt
  <2> HIDE DEF n
  <2>2. status' = [status EXCEPT ![n] = "answered"] /\ got' = got \cup {n}
    BY DEF n
  <2>3. UNCHANGED <<pc, lost, answer, timer>>
    BY DEF Take
  <2> QED
    BY <2>1, <2>2, <2>3
<1> QED
  BY <1>1, <1>2 DEF Take

\* So do who asks and who waits, and the timers.
LEMMA AnswersWait ==
  ASSUME AInv, NEW n \in Notices,
         WaiterStep(n) \/ WaitTimeout(n) \/ Expire(n)
  PROVE  Answers'
<1> USE DEF AInv, TypeOK, Answers, Open
<1>1. CASE AskSent(n)
  <2>1. pc' = [pc EXCEPT ![n] = "asked"] /\ status' = [status EXCEPT ![n] = "open"]
        /\ pc[n] = "asking" /\ timer' = timer \cup {n} /\ UNCHANGED <<got, lost, answer>>
    BY <1>1 DEF AskSent, notices
  <2> QED
    BY <2>1
<1>2. CASE AskFails(n)
  BY <1>2 DEF AskFails
<1>3. CASE WaitStart(n)
  BY <1>3 DEF WaitStart
<1>4. CASE Woken(n) \/ WaitTimeout(n)
  BY <1>4 DEF Woken, WaitTimeout
<1>5. CASE Settle(n)
  BY <1>5 DEF Settle, remove_notice
<1>6. CASE GiveUp(n)
  BY <1>6 DEF GiveUp, remove_notice
<1>7. CASE Expire(n)
  BY <1>7 DEF Expire
<1> QED
  BY <1>1, <1>2, <1>3, <1>4, <1>5, <1>6, <1>7 DEF WaiterStep

\* A shutdown leaves what was answered.
LEMMA AnswersClose ==
  ASSUME AInv, NEW o, NEW who, CloseBegin(o, who) PROVE Answers'
<1>1. \A n \in Notices : status'[n] = status[n] \/ (status[n] = "open" /\ status'[n] = "cancelled")
  BY DEF CloseBegin, Cancelled
<1>2. UNCHANGED <<pc, got, lost, answer>> /\ timer' \subseteq timer
  BY DEF CloseBegin
<1> QED
  BY <1>1, <1>2 DEF AInv, Answers, Open

LEMMA AnswersStep == AInv /\ [Next]_vars => AInv'
<1> SUFFICES ASSUME AInv, [Next]_vars PROVE Answers'
  BY TypeStep DEF AInv
<1>1. ASSUME UNCHANGED <<status, timer, pc, answer, got, lost>> PROVE Answers'
  BY <1>1 DEF AInv, Answers, Open
<1>2. ASSUME NEW o \in Objs, ObjectStep(o) PROVE Answers'
  BY <1>1, <1>2, AnswersTake DEF ObjectStep, Finish, Rest, ManageTimeout, CloseSave, CloseEnd, Due, notices
<1>3. ASSUME NEW o \in Objs,
             \/ Rouse(o) \/ CloseFails(o)
             \/ \E m \in Msgs : accept_message(m, o)
             \/ \E x \in Outs : Says(o, x)
      PROVE  Answers'
  BY <1>1, <1>3 DEF Rouse, CloseFails, accept_message, Says, notices
<1>4. ASSUME NEW o \in Objs, NEW n \in Notices, Ask(n, o) PROVE Answers'
  <2>1. pc[n] = "none" /\ pc' = [pc EXCEPT ![n] = "asking"]
        /\ UNCHANGED <<status, timer, answer, got, lost>>
    BY <1>4 DEF Ask
  <2> QED
    BY <2>1 DEF AInv, TypeOK, Answers, Open
<1>5. ASSUME NEW o \in Objs, ExitClose(o) PROVE Answers'
  BY <1>5, AnswersClose DEF ExitClose
<1>6. CASE ReaperCycle
  BY <1>1, <1>6, AnswersClose DEF ReaperCycle, notices
<1>7. CASE End
  <2>1. /\ status' = [n \in Notices |-> "none"] /\ pc' = [n \in Notices |-> "none"]
        /\ timer' = {} /\ got' = {}
    BY <1>7 DEF End
  <2> QED
    BY <2>1 DEF Answers, Open
<1>8. CASE UNCHANGED vars
  BY <1>1, <1>8 DEF vars, notices
<1> QED
  BY <1>2, <1>3, <1>4, <1>5, <1>6, <1>7, <1>8, AnswersWait DEF Next

\* An answer taken for a notice reaches who asked, a shutdown between the two
\* included, but for an expiry or the end of the waiter's time.
THEOREM AnswersCorrect == Spec => []AnswerArrives
<1>1. Init => AInv
  <2> SUFFICES ASSUME Init PROVE Answers
    BY TypeInit DEF AInv
  <2>1. /\ status = [n \in Notices |-> "none"] /\ pc = [n \in Notices |-> "none"]
        /\ timer = {} /\ got = {}
    BY DEF Init
  <2> QED
    BY <2>1 DEF Answers, Open
<1>2. AInv => AnswerArrives
  BY DEF AInv, Answers, AnswerArrives, TypeOK
<1> QED
  BY <1>1, <1>2, AnswersStep, PTL DEF Spec

------------------------------------------------------------------------------
\* No message is lost between reclaims and new objects.

\* What changes nothing that HInv speaks of
LEMMA HSame ==
  ASSUME HInv, UNCHANGED <<object, loaded, hist, file, queue, work, main, closing, at, told, overlap, late>>,
         due' \subseteq due, \A n \in Notices : pc'[n] = "asking" => pc[n] = "asking"
  PROVE  Ordered' /\ Asking' /\ Quiet' /\ Kept'
<1> USE DEF object, closing
<1>1. Ordered'
  BY DEF HInv, Ordered
<1>2. Asking'
  BY DEF HInv, Asking
<1>3. Quiet'
  BY DEF HInv, Quiet
<1>4. Kept'
  BY DEF HInv, Kept
<1> QED
  BY <1>1, <1>2, <1>3, <1>4

\* The object that is reached is enabled, and holds the history.
LEMMA HReach ==
  ASSUME HInv, NEW o \in Objs, Reach(o), UNCHANGED <<closing, file, late>>
  PROVE  /\ close[o] = "no" /\ o <= made' /\ o \in enable' /\ due' = due \ {o}
         /\ made <= made' /\ registry' = o /\ enable' = {o} /\ o \in loaded'
         /\ \A q \in Objs : q <= made' => q <= made \/ q = o
         /\ \A q \in Objs : q <= made /\ q # o => close[q] # "no"
         /\ overlap' \/ late' \/ /\ told \subseteq Load(o)[o]
                                 /\ \A q \in Objs : q <= made' /\ q # o => close[q] \in {"drain", "done"}
<1> USE DEF HInv, closing
<1>0. made \in Nat /\ registry \in Nat /\ hist \in [Objs -> SUBSET Items]
  BY DEF TypeOK
<1>00. due' = due \ {o} /\ loaded' = loaded \cup {o}
  BY DEF Reach, Touch
<1>1. CASE Serving
  <2>1. o = registry /\ o \in enable /\ UNCHANGED <<made, registry, enable, overlap>>
    BY <1>1 DEF Reach, Serving, object
  <2>2. o <= made /\ close[o] = "no" /\ o \in loaded /\ enable = {o}
    BY <2>1 DEF Ordered
  <2>3. \A q \in Objs : q <= made /\ q # o => close[q] # "no"
    BY <2>2 DEF Ordered
  <2>4. overlap \/ late \/ /\ told \subseteq hist[o]
                           /\ \A q \in Objs : q <= made /\ q # o => close[q] \in {"drain", "done"}
    BY <1>0, <2>1, <2>2 DEF Kept, Objs
  <2> QED
    BY <1>0, <1>00, <2>1, <2>2, <2>3, <2>4 DEF Load
<1>2. CASE ~Serving
  <2>1. /\ o = made + 1 /\ made' = o /\ registry' = o /\ enable' = enable \cup {o}
        /\ overlap' = (overlap \/ \E q \in Objs : close[q] \in {"begun", "failed"})
    BY <1>2 DEF Reach
  <2>2. enable = {}
    BY <1>2 DEF Ordered, Serving
  <2>3. close[o] = "no" /\ o \notin loaded
    BY <1>0, <2>1 DEF Ordered
  <2>4. \A q \in Objs : q <= made => close[q] # "no"
    BY <2>2 DEF Ordered
  <2>5. Load(o)[o] = file
    BY <1>0, <2>3 DEF Load
  <2>6. ASSUME ~overlap', ~late'
        PROVE  told \subseteq file /\ \A q \in Objs : q <= made => close[q] \in {"drain", "done"}
    <3>1. ~overlap /\ ~late /\ \A q \in Objs : close[q] \notin {"begun", "failed"}
      BY <2>1, <2>6
    <3>2. CASE registry = 0
      BY <1>0, <3>1, <3>2 DEF Kept, Objs
    <3>3. CASE registry # 0
      <4>1. registry \in Objs /\ registry <= made /\ close[registry] # "done" /\ close[registry] # "no"
        BY <1>0, <2>4, <3>3 DEF TypeOK, Ordered, Objs
      <4>2. close[registry] = "drain"
        BY <3>1, <4>1 DEF TypeOK
      <4> QED
        BY <3>1, <3>3, <4>1, <4>2 DEF Kept
    <3> QED
      BY <3>2, <3>3
  <2>7. \A q \in Objs : q <= made' => q <= made \/ q = o
    BY <1>0, <2>1 DEF Objs
  <2> QED
    BY <1>0, <1>00, <2>1, <2>2, <2>3, <2>4, <2>5, <2>6, <2>7 DEF Objs
<1> QED
  BY <1>1, <1>2

LEMMA HAccept ==
  ASSUME HInv, NEW m \in Msgs, NEW o \in Objs, accept_message(m, o)
  PROVE  Ordered' /\ Asking' /\ Quiet' /\ Kept'
<1> USE DEF closing, notices, dialogs
<1>1. /\ Reach(o) /\ hist' = [Load(o) EXCEPT ![o] = @ \cup {m}] /\ told' = told \cup {m}
      /\ queue' = [queue EXCEPT ![o] = Append(@, m)]
      /\ UNCHANGED <<file, work, main, close, closer, at, pc, late>>
  BY DEF accept_message
<1>2. /\ close[o] = "no" /\ o <= made' /\ due' = due \ {o}
      /\ made <= made' /\ registry' = o /\ enable' = {o} /\ o \in loaded'
      /\ \A q \in Objs : q <= made' => q <= made \/ q = o
      /\ \A q \in Objs : q <= made /\ q # o => close[q] # "no"
      /\ overlap' \/ late' \/ /\ told \subseteq Load(o)[o]
                              /\ \A q \in Objs : q <= made' /\ q # o => close[q] \in {"drain", "done"}
  BY <1>1, HReach
<1>30. Load(o) \in [Objs -> SUBSET Items] /\ made' \in 0..MaxObjs
  BY <1>1, ReachTypes DEF HInv
<1>31. made \in 0..MaxObjs /\ loaded' = loaded \cup {o}
  BY <1>1 DEF HInv, TypeOK, Reach
<1>3. Load(o) \in [Objs -> SUBSET Items] /\ made \in Nat /\ made' \in Nat /\ loaded' = loaded \cup {o}
  BY <1>30, <1>31
<1>4. hist'[o] = Load(o)[o] \cup {m} /\ \A q \in Objs : q # o => queue'[q] = queue[q]
  BY <1>1, <1>3 DEF HInv, TypeOK
<1>5. Ordered'
  BY <1>1, <1>2, <1>3, <1>4 DEF HInv, Ordered, Objs
<1>6. Asking'
  BY <1>1, <1>2, <1>3 DEF HInv, TypeOK, Asking
<1>7. Quiet'
  BY <1>1, <1>2, <1>4 DEF HInv, Quiet
<1>8. Kept'
  BY <1>1, <1>2, <1>4 DEF Kept, Objs
<1> QED
  BY <1>5, <1>6, <1>7, <1>8

LEMMA HAsk ==
  ASSUME HInv, NEW n \in Notices, NEW o \in Objs, Ask(n, o)
  PROVE  Ordered' /\ Asking' /\ Quiet' /\ Kept'
<1> USE DEF closing, notices, dialogs
<1>1. /\ Reach(o) /\ hist' = Load(o)
      /\ pc' = [pc EXCEPT ![n] = "asking"] /\ at' = [at EXCEPT ![n] = o]
      /\ UNCHANGED <<file, queue, work, main, close, closer, told, late>>
  BY DEF Ask
<1>2. /\ close[o] = "no" /\ o <= made' /\ due' = due \ {o}
      /\ made <= made' /\ registry' = o /\ enable' = {o} /\ o \in loaded'
      /\ \A q \in Objs : q <= made' => q <= made \/ q = o
      /\ \A q \in Objs : q <= made /\ q # o => close[q] # "no"
      /\ overlap' \/ late' \/ /\ told \subseteq Load(o)[o]
                              /\ \A q \in Objs : q <= made' /\ q # o => close[q] \in {"drain", "done"}
  BY <1>1, HReach
<1>3. made \in Nat /\ made' \in Nat /\ loaded' = loaded \cup {o}
  BY <1>1, ReachTypes DEF HInv, TypeOK, Reach
<1>30. \A k \in Notices : at[k] \in Nat
  BY DEF HInv, TypeOK
<1>4. \A k \in Notices : k # n => pc'[k] = pc[k] /\ at'[k] = at[k]
  BY <1>1 DEF HInv, TypeOK
<1>40. at'[n] = o
  BY <1>1 DEF HInv, TypeOK
<1>5. Ordered'
  BY <1>1, <1>2, <1>3 DEF HInv, Ordered, Objs
<1>6. Asking'
  BY <1>2, <1>3, <1>30, <1>4, <1>40 DEF HInv, Asking, Objs
<1>7. Quiet'
  BY <1>1, <1>2, <1>4, <1>40 DEF HInv, Quiet
<1>8. Kept'
  BY <1>1, <1>2 DEF Kept, Objs
<1> QED
  BY <1>5, <1>6, <1>7, <1>8

LEMMA HTake ==
  ASSUME HInv, NEW o \in Objs, Take(o)
  PROVE  Ordered' /\ Asking' /\ Quiet' /\ Kept'
<1> USE DEF closing, object, dialogs
<1>1. /\ queue[o] # <<>>
      /\ \A q \in Objs : q # o => queue'[q] = queue[q] /\ work'[q] = work[q]
      /\ UNCHANGED <<made, registry, enable, loaded, hist, file, main, due, close, closer, at, pc,
                     told, overlap, late>>
  BY DEF Take, HInv, TypeOK
<1>2. o <= made
  BY <1>1 DEF HInv, TypeOK, Ordered, Objs
<1>3. Ordered'
  BY <1>1, <1>2 DEF HInv, TypeOK, Ordered, Objs
<1>4. Asking' /\ Kept'
  BY <1>1 DEF HInv, Asking, Kept
<1>5. Quiet'
  BY <1>1 DEF HInv, Quiet
<1> QED
  BY <1>3, <1>4, <1>5

\* What is said is kept, at the registered object or after the end has saved.
LEMMA HTell ==
  ASSUME HInv, NEW o \in Objs, NEW x, Tell(o, x), o <= made,
         work[o] # NoMsg \/ o \in main \/ \E n \in Notices : pc[n] = "asking" /\ at[n] = o,
         UNCHANGED <<object, file, closing, overlap>>
  PROVE  Kept'
<1> USE DEF object, closing
<1>1. /\ hist' = [hist EXCEPT ![o] = @ \cup {x}] /\ told' = told \cup {x}
      /\ late' = (late \/ (close[o] \in {"drain", "done"} /\ closer[o] = "exit"))
  BY DEF Tell
<1> SUFFICES ASSUME ~overlap, ~late' PROVE Kept'
  BY DEF Kept
<1>2. ~late /\ ~(close[o] \in {"drain", "done"} /\ closer[o] = "exit")
  BY <1>1
<1>3. close[o] \notin {"drain", "done"}
  <2>1. ASSUME close[o] \in {"drain", "done"} PROVE FALSE
    <3>1. closer[o] = "reaper"
      BY <1>2, <2>1 DEF HInv, Ordered
    <3> QED
      BY <2>1, <3>1 DEF HInv, Quiet
  <2> QED
    BY <2>1
<1>4. o = registry
  BY <1>2, <1>3 DEF HInv, Kept
<1>5. registry # 0
  BY <1>4 DEF Objs
<1>6. told \subseteq hist[o] /\ \A q \in Objs : q <= made /\ q # registry => close[q] \in {"drain", "done"}
  BY <1>2, <1>3, <1>4, <1>5 DEF HInv, Kept
<1>7. told' \subseteq hist'[o]
  BY <1>1, <1>6 DEF HInv, TypeOK
<1> QED
  BY <1>3, <1>4, <1>5, <1>6, <1>7 DEF Kept

LEMMA HSays ==
  ASSUME HInv, NEW o \in Objs, NEW x \in Outs, Says(o, x)
  PROVE  Ordered' /\ Asking' /\ Quiet' /\ Kept'
<1> USE DEF closing, object, dialogs, notices
<1>1. /\ work[o] # NoMsg \/ o \in main
      /\ Tell(o, x) /\ due' = due \ {o}
      /\ UNCHANGED <<made, registry, enable, loaded, file, queue, work, main, close, closer, at, pc, overlap>>
  BY DEF Says, Touch, HInv, TypeOK
<1>2. o <= made
  BY <1>1 DEF HInv, Ordered, TypeOK, Objs
<1>3. Kept'
  BY <1>1, <1>2, HTell
<1>4. Ordered' /\ Asking' /\ Quiet'
  BY <1>1 DEF HInv, Ordered, Asking, Quiet
<1> QED
  BY <1>3, <1>4

LEMMA HAskSent ==
  ASSUME HInv, NEW n \in Notices, AskSent(n)
  PROVE  Ordered' /\ Asking' /\ Quiet' /\ Kept'
<1> USE DEF closing, object, dialogs, notices
<1>1. /\ pc[n] = "asking" /\ pc' = [pc EXCEPT ![n] = "asked"]
      /\ Tell(at[n], n)
      /\ UNCHANGED <<made, registry, enable, loaded, file, queue, work, main, close, closer, at, due, overlap>>
  BY DEF AskSent
<1>2. at[n] \in Objs /\ at[n] <= made
  BY <1>1 DEF HInv, Asking
<1>3. Kept'
  BY <1>1, <1>2, HTell
<1>4. \A k \in Notices : pc'[k] = "asking" => pc[k] = "asking"
  BY <1>1 DEF HInv, TypeOK
<1>5. Ordered'
  BY <1>1 DEF HInv, Ordered
<1>6. Asking' /\ Quiet'
  BY <1>1, <1>4 DEF HInv, Asking, Quiet
<1> QED
  BY <1>3, <1>5, <1>6

LEMMA HFinish ==
  ASSUME HInv, NEW o \in Objs, Finish(o)
  PROVE  Ordered' /\ Asking' /\ Quiet' /\ Kept'
<1> USE DEF closing, object, notices, dialogs
<1>1. /\ work[o] # NoMsg /\ work' = [work EXCEPT ![o] = NoMsg]
      /\ main' = main \/ (o \in enable /\ main' = main \cup {o})
      /\ UNCHANGED <<made, registry, enable, loaded, hist, file, queue, due, close, closer, at, pc,
                     told, overlap, late>>
  BY DEF Finish
<1>2. \A q \in Objs : work'[q] = NoMsg \/ work'[q] = work[q]
  BY <1>1 DEF HInv, TypeOK
<1>3. o \in enable => close[o] = "no" /\ o <= made
  BY DEF HInv, Ordered
<1>4. \A q \in Objs : q \in main' => q \in main \/ (close[q] = "no" /\ q <= made)
  BY <1>1, <1>3
<1>5. Ordered'
  BY <1>1, <1>2, <1>4 DEF HInv, TypeOK, Ordered, Objs
<1>6. Quiet'
  BY <1>1, <1>2, <1>4 DEF HInv, Quiet
<1>7. Asking' /\ Kept'
  BY <1>1 DEF HInv, Asking, Kept
<1> QED
  BY <1>5, <1>6, <1>7

\* A shutdown begins at the registered object; the reaper's at one that is idle.
LEMMA HCloseBegin ==
  ASSUME HInv, NEW o \in Objs, NEW who \in {"reaper", "exit"}, CloseBegin(o, who),
         o = registry, close[o] \in {"no", "failed"},
         who = "reaper" => o \in due /\ Idle(o)
  PROVE  Ordered' /\ Asking' /\ Quiet' /\ Kept'
<1> USE DEF closing, object, notices, dialogs
<1>1. /\ enable' = enable \ {o}
      /\ close' = [close EXCEPT ![o] = "begun"] /\ closer' = [closer EXCEPT ![o] = who]
      /\ UNCHANGED <<made, registry, loaded, hist, file, queue, work, main, due, at, pc,
                     told, overlap, late>>
  BY DEF CloseBegin
<1>2. /\ close'[o] = "begun" /\ closer'[o] = who
      /\ \A q \in Objs : q # o => close'[q] = close[q] /\ closer'[q] = closer[q]
  BY <1>1 DEF HInv, TypeOK
<1>3. o <= made
  BY DEF HInv, Ordered
<1>4. who = "reaper" => /\ queue[o] = <<>> /\ work[o] = NoMsg
                        /\ \A n \in Notices : ~(pc[n] = "asking" /\ at[n] = o)
  BY DEF Idle, HInv, Asking
<1>5. Ordered'
  <2>1. \A q \in enable' : q = registry /\ q <= made /\ close'[q] = "no"
    BY <1>1, <1>2 DEF HInv, TypeOK, Ordered
  <2>2. \A q \in Objs : q <= made /\ q \notin enable' => close'[q] # "no"
    BY <1>1, <1>2 DEF HInv, Ordered
  <2>3. \A q \in Objs : q > made => q # o
    BY <1>3 DEF HInv, TypeOK, Objs
  <2>4. \A q \in Objs : q > made => close'[q] = "no"
    BY <1>2, <2>3 DEF HInv, Ordered
  <2>5. \A q \in Objs : close'[q] # "no" => closer'[q] \in {"reaper", "exit"}
    BY <1>2 DEF HInv, Ordered
  <2>6. registry # 0 => close'[registry] # "done"
    BY <1>2
  <2> QED
    BY <1>1, <2>1, <2>2, <2>4, <2>5, <2>6 DEF HInv, Ordered
<1>6. Asking'
  BY <1>1 DEF HInv, Asking
<1>7. Quiet'
  BY <1>1, <1>2, <1>4 DEF HInv, Quiet
<1>8. Kept'
  BY <1>1, <1>2 DEF HInv, Kept, Objs
<1> QED
  BY <1>5, <1>6, <1>7, <1>8

LEMMA HCloseSave ==
  ASSUME HInv, NEW o \in Objs, CloseSave(o)
  PROVE  Ordered' /\ Asking' /\ Quiet' /\ Kept'
<1> USE DEF closing, object, notices, dialogs
<1>1. /\ close[o] = "begun" /\ close' = [close EXCEPT ![o] = "drain"]
      /\ main' = main \ {o} /\ file' = hist[o]
      /\ UNCHANGED <<made, registry, enable, loaded, hist, queue, work, due, closer, at, pc,
                     told, overlap, late>>
  BY DEF CloseSave
<1>2. close'[o] = "drain" /\ \A q \in Objs : q # o => close'[q] = close[q]
  BY <1>1 DEF HInv, TypeOK
<1>3. Ordered'
  BY <1>1, <1>2 DEF HInv, TypeOK, Ordered, Objs
<1>4. Asking'
  BY <1>1 DEF HInv, Asking
<1>5. Quiet'
  BY <1>1, <1>2 DEF HInv, Quiet
<1>6. Kept'
  <2> SUFFICES ASSUME ~overlap, ~late PROVE Kept'
    BY <1>1 DEF Kept
  <2>1. o <= made
    BY <1>1 DEF HInv, TypeOK, Ordered, Objs
  <2>2. o = registry /\ registry # 0
    BY <1>1, <2>1 DEF HInv, Kept, Objs
  <2> QED
    BY <1>1, <1>2, <2>2 DEF HInv, Kept
<1> QED
  BY <1>3, <1>4, <1>5, <1>6

LEMMA HCloseFails ==
  ASSUME HInv, NEW o \in Objs, CloseFails(o)
  PROVE  Ordered' /\ Asking' /\ Quiet' /\ Kept'
<1> USE DEF closing, object, notices, dialogs
<1>1. /\ close[o] = "begun" /\ close' = [close EXCEPT ![o] = "failed"]
      /\ UNCHANGED <<made, registry, enable, loaded, hist, file, queue, work, main, due, closer, at, pc,
                     told, overlap, late>>
  BY DEF CloseFails
<1>2. close'[o] = "failed" /\ \A q \in Objs : q # o => close'[q] = close[q]
  BY <1>1 DEF HInv, TypeOK
<1>3. Ordered'
  BY <1>1, <1>2 DEF HInv, TypeOK, Ordered, Objs
<1>4. Asking'
  BY <1>1 DEF HInv, Asking
<1>5. Quiet'
  BY <1>1, <1>2 DEF HInv, Quiet
<1>6. Kept'
  BY <1>1, <1>2 DEF HInv, Kept
<1> QED
  BY <1>3, <1>4, <1>5, <1>6

\* The object leaves the registry, and another's shutdown may be cut off.
LEMMA HCloseEnd ==
  ASSUME HInv, NEW o \in Objs, CloseEnd(o)
  PROVE  Ordered' /\ Asking' /\ Quiet' /\ Kept'
<1> USE DEF closing, object, notices, dialogs
<1>1. /\ close[o] = "drain" /\ work' = [work EXCEPT ![o] = NoMsg]
      /\ registry' = IF registry = o THEN 0 ELSE registry
      /\ UNCHANGED <<made, enable, loaded, hist, file, queue, main, due, closer, at, pc,
                     told, overlap, late>>
  BY DEF CloseEnd, Unregistered
<1>2. /\ close'[o] = "done"
      /\ \A q \in Objs : q # o => close'[q] = close[q] \/ (close[q] = "begun" /\ close'[q] = "failed")
  BY DEF CloseEnd, HInv, TypeOK
<1>3. \A q \in Objs : work'[q] = NoMsg \/ work'[q] = work[q]
  BY <1>1 DEF HInv, TypeOK
<1>4. o \notin enable
  BY <1>1 DEF HInv, Ordered
<1>5. Ordered'
  <2>1. \A q \in enable' : q = registry' /\ q <= made /\ close'[q] = "no"
    BY <1>1, <1>2, <1>4 DEF HInv, TypeOK, Ordered
  <2>2. \A q \in Objs : close[q] # "no" <=> close'[q] # "no"
    BY <1>1, <1>2
  <2>3. \A q \in Objs : q > made => work'[q] = NoMsg
    BY <1>3 DEF HInv, Ordered
  <2>4. registry' # 0 => registry' \in Objs /\ registry' # o /\ registry' <= made
    BY <1>1 DEF HInv, TypeOK, Ordered, Objs
  <2>5. registry' # 0 => close'[registry'] # "done"
    BY <1>1, <1>2, <2>4 DEF HInv, Ordered
  <2>6. registry' <= made
    BY <1>1 DEF HInv, TypeOK, Ordered
  <2> QED
    BY <1>1, <2>1, <2>2, <2>3, <2>5, <2>6 DEF HInv, Ordered
<1>6. Asking'
  BY <1>1 DEF HInv, Asking
<1>7. Quiet'
  BY <1>1, <1>2, <1>3 DEF HInv, Quiet
<1>8. Kept'
  <2> SUFFICES ASSUME ~overlap, ~late PROVE Kept'
    BY <1>1 DEF Kept
  <2>1. CASE registry = o
    <3>1. registry' = 0 /\ told \subseteq file /\ o # 0
      BY <1>1, <2>1 DEF HInv, Kept, Objs
    <3>2. \A q \in Objs : q <= made /\ q # o => close'[q] = close[q] /\ close[q] \in {"drain", "done"}
      BY <1>2, <2>1 DEF HInv, Kept
    <3> QED
      BY <1>1, <1>2, <3>1, <3>2 DEF Kept
  <2>2. CASE registry # o
    <3>1. \A q \in Objs : q <= made /\ q # registry => close'[q] \in {"drain", "done"}
      BY <1>2, <2>2 DEF HInv, Kept
    <3>2. registry # 0 => (close'[registry] = "drain" <=> close[registry] = "drain")
      BY <1>2, <2>2 DEF HInv, TypeOK, Objs
    <3> QED
      BY <1>1, <2>2, <3>1, <3>2 DEF HInv, Kept
  <2> QED
    BY <2>1, <2>2
<1> QED
  BY <1>5, <1>6, <1>7, <1>8

LEMMA HDue ==
  ASSUME HInv, NEW o \in Objs, Due(o)
  PROVE  Ordered' /\ Asking' /\ Quiet' /\ Kept'
<1> USE DEF closing, object, notices, dialogs
<1>1. /\ \A n \in Notices : ~(pc[n] = "asking" /\ at[n] = o)
      /\ due' = due \cup {o}
      /\ UNCHANGED <<made, registry, enable, loaded, hist, file, queue, work, main, close, closer, at, pc,
                     told, overlap, late>>
  BY DEF Due
<1> QED
  BY <1>1 DEF HInv, Ordered, Asking, Quiet, Kept

LEMMA HEnd ==
  ASSUME HInv, End
  PROVE  Ordered' /\ Asking' /\ Quiet' /\ Kept'
<1>1. /\ made' = 0 /\ registry' = 0 /\ enable' = {} /\ loaded' = {} /\ main' = {} /\ due' = {}
      /\ close' = [o \in Objs |-> "no"] /\ queue' = [o \in Objs |-> <<>>]
      /\ work' = [o \in Objs |-> NoMsg]
      /\ at' = [n \in Notices |-> 0] /\ pc' = [n \in Notices |-> "none"]
      /\ told' = file /\ file' = file
  BY DEF End
<1> QED
  BY <1>1 DEF Ordered, Asking, Quiet, Kept, Objs

LEMMA HInit == Init => HInv
<1> SUFFICES ASSUME Init PROVE Ordered /\ Asking /\ Quiet /\ Kept
  BY TypeInit DEF HInv
<1>1. /\ made = 0 /\ registry = 0 /\ enable = {} /\ loaded = {} /\ main = {} /\ due = {}
      /\ close = [o \in Objs |-> "no"] /\ queue = [o \in Objs |-> <<>>]
      /\ work = [o \in Objs |-> NoMsg]
      /\ at = [n \in Notices |-> 0] /\ pc = [n \in Notices |-> "none"]
      /\ told = {} /\ file = {}
  BY DEF Init
<1> QED
  BY <1>1 DEF Ordered, Asking, Quiet, Kept, Objs

LEMMA HStep == HInv /\ [Next]_vars => HInv'
<1> SUFFICES ASSUME HInv, [Next]_vars PROVE Ordered' /\ Asking' /\ Quiet' /\ Kept'
  BY TypeStep DEF HInv
<1> DEFINE Goal == Ordered' /\ Asking' /\ Quiet' /\ Kept'
<1> USE DEF dialogs, notices
<1>1. ASSUME NEW o \in Objs, ObjectStep(o) PROVE Goal
  <2>1. CASE Rest(o) \/ ManageTimeout(o)
    <3>1. /\ UNCHANGED <<object, loaded, hist, file, queue, work, main, closing, at, told, overlap, late, pc>>
          /\ due' \subseteq due
      BY <2>1 DEF Rest, ManageTimeout, Touch
    <3> QED
      BY <3>1, HSame
  <2> QED
    BY <1>1, <2>1, HTake, HFinish, HCloseSave, HCloseEnd, HDue DEF ObjectStep
<1>2. ASSUME NEW o \in Objs, Rouse(o) PROVE Goal
  BY <1>2, HSame DEF Rouse
<1>3. ASSUME NEW o \in Objs, ExitClose(o) PROVE Goal
  BY <1>3, HCloseBegin DEF ExitClose
<1>4. ASSUME NEW n \in Notices, WaiterStep(n) \/ WaitTimeout(n) \/ Expire(n), ~AskSent(n) PROVE Goal
  <2>1. /\ UNCHANGED <<object, loaded, hist, file, queue, work, main, closing, due, at, told, overlap, late>>
        /\ \A k \in Notices : pc'[k] = "asking" => pc[k] = "asking"
    BY <1>4 DEF WaiterStep, AskFails, WaitStart, Woken, Settle, GiveUp, WaitTimeout, Expire, NoticeStep,
                HInv, TypeOK
  <2> QED
    BY <2>1, HSame
<1>5. CASE ReaperCycle
  <2>1. CASE Serving /\ registry \in due /\ Idle(registry)
    <3>1. CloseBegin(registry, "reaper")
      BY <1>5, <2>1 DEF ReaperCycle
    <3>2. registry \in Objs /\ close[registry] = "no"
      BY <2>1 DEF Serving, HInv, TypeOK, Ordered
    <3> QED
      BY <2>1, <3>1, <3>2, HCloseBegin
  <2>2. CASE ~(Serving /\ registry \in due /\ Idle(registry))
    BY <1>5, <2>2, HSame DEF ReaperCycle
  <2> QED
    BY <2>1, <2>2
<1>6. CASE UNCHANGED vars
  BY <1>6, HSame DEF vars
<1> QED
  BY <1>1, <1>2, <1>3, <1>4, <1>5, <1>6, HAccept, HSays, HAsk, HAskSent, HCloseFails, HEnd
     DEF Next, WaiterStep

\* Between reclaims and new objects no message is lost, apart from an object made
\* before the one before it had saved, and from what is said while the end of the
\* process waits for the queue.
THEOREM HistoryCorrect == Spec => []HistoryIsThere
<1>1. HInv => HistoryIsThere
  <2> SUFFICES ASSUME HInv, ~overlap, ~late
               PROVE  /\ Serving => told \subseteq hist[registry]
                      /\ registry = 0 => told \subseteq file
    BY DEF HistoryIsThere
  <2>1. Serving => registry # 0 /\ close[registry] = "no"
    BY DEF Serving, HInv, TypeOK, Ordered, Objs
  <2> QED
    BY <2>1 DEF HInv, Kept
<1> QED
  BY <1>1, HInit, HStep, PTL DEF Spec
=============================================================================
