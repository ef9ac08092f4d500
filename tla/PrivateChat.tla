----------------------------- MODULE PrivateChat -----------------------------
(***************************************************************************)
(* The private chat with one user, of private_chat.py: the objects made    *)
(* for it one after the other, their histories and the file they share,    *)
(* the queue with its single worker (aqueue.py), the dialogs that keep an  *)
(* object busy, the reaper that closes an idle one, and the notices that   *)
(* ask the user something and wait for the answer.                         *)
(*                                                                         *)
(* Everything runs on one event loop: a step goes from one suspension to   *)
(* the next.  Locks that are never contended, and loading, do not suspend. *)
(* A history is the set of its messages; what goes beyond                  *)
(* MaxMessageHistory is left out.                                          *)
(***************************************************************************)
EXTENDS Naturals, Sequences

CONSTANTS Msgs,         \* messages of the user
          Outs,         \* messages of the bot
          Notices,      \* requests of NoticeManager, and the messages they send
          NoMsg,
          MaxObjs,      \* bound: objects made
          MaxRouses,    \* bound: times the agent starts by itself
          MaxErrors,    \* bound: shutdowns that fail or are cut off
          MaxEnds       \* bound: ends of the process

Objs == 1..MaxObjs
Items == Msgs \cup Outs \cup Notices

ASSUME PrivateChatAssumption ==
    /\ Msgs \cap Outs = {} /\ Msgs \cap Notices = {} /\ Outs \cap Notices = {}
    /\ NoMsg \notin Items
    /\ MaxObjs \in Nat /\ MaxRouses \in Nat /\ MaxErrors \in Nat /\ MaxEnds \in Nat

VARIABLES
    made,      \* objects made so far
    registry,  \* PRIVATE_CHATS: the user's object, 0 if there is none
    enable, loaded, hist,      \* _enable, _loaded, message_history
    file,      \* private_persist.json
    queue, work,               \* aqueue: what waits, what the worker runs
    manage, main, busy,        \* the management dialog, the main dialog, its agent at work
    due,       \* objects without activity for ChatObjectTimeout
    close, closer,             \* shutdown(): its step, and whose call it is
    reaper, wake,              \* "none", "wait", "closing"; _PRIVATE_CHAT_REAPER_WAKE
    at, line, status, refd, timer,  \* notices: object, _notice_queue, response,
                                    \* _notice_responses, _notice_expiry_tasks
    pc,        \* who asked: "none", "asking", "asked", "waiting", "settle", "giveup", "done"
    answer,    \* notices whose waiter was given the answer
    rouses, errors, ends,      \* counters of the bounds
    told,      \* history: messages of this process, and those it found
    overlap,   \* history: an object was made while one before it was not saved
    late,      \* history: a message came after the end of the process had saved
    got, lost  \* history: notices answered; answers that time took away

object == <<made, registry, enable>>
dialogs == <<manage, main, busy>>
closing == <<close, closer>>
notices == <<at, line, status, refd, timer, pc, answer, got, lost>>
bounds == <<rouses, errors, ends>>
vars == <<object, loaded, hist, file, queue, work, dialogs, due, closing, reaper, wake,
          notices, bounds, told, overlap, late>>

------------------------------------------------------------------------------
Status == {"none", "open", "answered", "cancelled", "expired"}
Waiter == {"none", "asking", "asked", "waiting", "settle", "giveup", "done"}

TypeOK ==
    /\ made \in 0..MaxObjs /\ registry \in 0..MaxObjs
    /\ enable \subseteq Objs /\ loaded \subseteq Objs
    /\ hist \in [Objs -> SUBSET Items] /\ file \subseteq Items
    /\ queue \in [Objs -> Seq(Msgs)] /\ work \in [Objs -> Msgs \cup {NoMsg}]
    /\ manage \subseteq Objs /\ main \subseteq Objs /\ busy \subseteq main
    /\ due \subseteq Objs
    /\ close \in [Objs -> {"no", "begun", "drain", "done", "failed"}]
    /\ closer \in [Objs -> {"none", "reaper", "exit"}]
    /\ reaper \in {"none", "wait", "closing"} /\ wake \in BOOLEAN
    /\ at \in [Notices -> 0..MaxObjs] /\ line \in Seq(Notices)
    /\ status \in [Notices -> Status] /\ refd \subseteq Notices /\ timer \subseteq Notices
    /\ pc \in [Notices -> Waiter] /\ answer \subseteq Notices
    /\ rouses \in 0..MaxRouses /\ errors \in 0..MaxErrors /\ ends \in 0..MaxEnds
    /\ told \subseteq Items /\ overlap \in BOOLEAN /\ late \in BOOLEAN
    /\ got \subseteq Notices /\ lost \subseteq Notices

Init ==
    /\ made = 0 /\ registry = 0 /\ enable = {} /\ loaded = {}
    /\ hist = [o \in Objs |-> {}]
    /\ queue = [o \in Objs |-> <<>>] /\ work = [o \in Objs |-> NoMsg]
    /\ manage = {} /\ main = {} /\ busy = {} /\ due = {}
    /\ close = [o \in Objs |-> "no"] /\ closer = [o \in Objs |-> "none"]
    /\ reaper = "none" /\ wake = FALSE
    /\ at = [n \in Notices |-> 0] /\ line = <<>>
    /\ status = [n \in Notices |-> "none"] /\ refd = {} /\ timer = {}
    /\ pc = [n \in Notices |-> "none"] /\ answer = {} /\ got = {} /\ lost = {}
    /\ overlap = FALSE /\ late = FALSE
    /\ file = {} /\ told = {}
    /\ rouses = 0 /\ errors = 0 /\ ends = 0

------------------------------------------------------------------------------
\* Reaching the object

\* get_or_create finds an object it may use.
Serving == registry \in enable

\* touch_activity, with the reaper started or woken
Touch(o) ==
    /\ due' = due \ {o}
    /\ reaper' = IF reaper = "none" THEN "wait" ELSE reaper
    /\ wake' = TRUE

\* A message goes into the history.
Tell(o, x) ==
    /\ hist' = [hist EXCEPT ![o] = @ \cup {x}]
    /\ told' = told \cup {x}
    /\ late' = (late \/ (close[o] \in {"drain", "done"} /\ closer[o] = "exit"))

Load(o) == IF o \in loaded THEN hist ELSE [hist EXCEPT ![o] = file]

\* get_or_create, _ensure_loaded and touch_activity, for o
Reach(o) ==
    /\ IF Serving
       THEN o = registry /\ UNCHANGED <<object, overlap>>
       ELSE /\ o = made + 1
            /\ made' = o /\ registry' = o /\ enable' = enable \cup {o}
            /\ overlap' = (overlap \/ \E q \in Objs : close[q] \in {"begun", "failed"})
    /\ loaded' = loaded \cup {o}
    /\ Touch(o)

\* accept_message: up to the queue there is no suspension.
accept_message(m, o) ==
    /\ m \notin told
    /\ Reach(o)
    /\ hist' = [Load(o) EXCEPT ![o] = @ \cup {m}] /\ told' = told \cup {m}
    /\ queue' = [queue EXCEPT ![o] = Append(@, m)]
    /\ UNCHANGED <<file, work, dialogs, closing, notices, bounds, late>>

------------------------------------------------------------------------------
\* The worker, and the dialogs

Open(n) == status[n] = "open"

\* Where notices of o stand that a message may still answer: the others are
\* passed over, and dropped, by _consume_notice.
OpenAt(o) == {i \in 1..Len(line) : Open(line[i]) /\ at[line[i]] = o}

\* message_flow: an open notice takes the message, for itself (intercept) or
\* beside the dialogs; without one the dialogs get it.  Every notice asks for
\* one reply (expected_replies).
Take(o) ==
    /\ queue[o] # <<>> /\ work[o] = NoMsg /\ close[o] # "done"
    /\ queue' = [queue EXCEPT ![o] = Tail(@)]
    /\ \/ \E i \in OpenAt(o) :
             /\ \A j \in OpenAt(o) : i <= j
             /\ status' = [status EXCEPT ![line[i]] = "answered"] /\ got' = got \cup {line[i]}
             /\ work' \in {work, [work EXCEPT ![o] = Head(queue[o])]}
       \/ /\ OpenAt(o) = {}
          /\ work' = [work EXCEPT ![o] = Head(queue[o])]
          /\ UNCHANGED <<status, got>>
    /\ UNCHANGED <<object, loaded, hist, file, dialogs, due, closing, reaper, wake, at, line,
                   refd, timer, pc, answer, lost, bounds, told, overlap, late>>

\* say, system_send: a command's answer, or the agent's words
Says(o, x) ==
    /\ work[o] # NoMsg \/ o \in busy
    /\ x \notin told
    /\ Tell(o, x) /\ Touch(o)
    /\ UNCHANGED <<object, loaded, file, queue, work, dialogs, closing, notices, bounds, overlap>>

\* The message opens or closes the management dialog, or reaches the main
\* dialog, which is made if the chat is on, and may start its agent.
Finish(o) ==
    /\ work[o] # NoMsg
    /\ work' = [work EXCEPT ![o] = NoMsg]
    /\ \/ UNCHANGED dialogs
       \/ /\ manage' \in {manage \cup {o}, manage \ {o}}
          /\ UNCHANGED <<main, busy>>
       \/ /\ o \in enable
          /\ main' = main \cup {o} /\ busy' \in {busy, busy \cup {o}}
          /\ UNCHANGED manage
    /\ UNCHANGED <<object, loaded, hist, file, queue, due, closing, reaper, wake, notices,
                   bounds, told, overlap, late>>

\* The agent starts by itself, for a task or at a time.
Rouse(o) ==
    /\ o \in main \ busy /\ rouses < MaxRouses
    /\ rouses' = rouses + 1 /\ busy' = busy \cup {o}
    /\ UNCHANGED <<object, loaded, hist, file, queue, work, manage, main, due, closing,
                   reaper, wake, notices, errors, ends, told, overlap, late>>

Rest(o) ==
    /\ o \in busy /\ busy' = busy \ {o}
    /\ UNCHANGED <<object, loaded, hist, file, queue, work, manage, main, due, closing,
                   reaper, wake, notices, bounds, told, overlap, late>>

\* _wait_for_timeout of the management dialog closes it and says so.
ManageTimeout(o) ==
    /\ o \in manage /\ manage' = manage \ {o}
    /\ Touch(o)
    /\ UNCHANGED <<object, loaded, hist, file, queue, work, main, busy, closing, notices,
                   bounds, told, overlap, late>>

------------------------------------------------------------------------------
\* Notices

\* request_someone, up to the message on its way
Ask(n, o) ==
    /\ pc[n] = "none"
    /\ Reach(o)
    /\ hist' = Load(o)
    /\ pc' = [pc EXCEPT ![n] = "asking"] /\ at' = [at EXCEPT ![n] = o]
    /\ UNCHANGED <<file, queue, work, dialogs, closing, line, status, refd, timer, answer,
                   got, lost, bounds, told, late>>

\* The message was sent: register_notice.
AskSent(n) ==
    /\ pc[n] = "asking"
    /\ Tell(at[n], n)
    /\ pc' = [pc EXCEPT ![n] = "asked"] /\ status' = [status EXCEPT ![n] = "open"]
    /\ refd' = refd \cup {n} /\ timer' = timer \cup {n} /\ line' = Append(line, n)
    /\ UNCHANGED <<object, loaded, file, queue, work, dialogs, due, closing, reaper, wake, at,
                   answer, got, lost, bounds, overlap>>

AskFails(n) ==
    /\ pc[n] = "asking"
    /\ pc' = [pc EXCEPT ![n] = "done"]
    /\ UNCHANGED <<object, loaded, hist, file, queue, work, dialogs, due, closing, reaper, wake,
                   at, line, status, refd, timer, answer, got, lost, bounds, told, overlap, late>>

\* A step of the waiter that changes its responses only
NoticeStep ==
    UNCHANGED <<object, loaded, hist, file, queue, work, dialogs, due, closing, reaper, wake,
                at, line, bounds, told, overlap, late>>

\* wait_any looks for the notice at the objects registered by now.
WaitStart(n) ==
    /\ pc[n] = "asked"
    /\ IF registry = at[n] /\ n \in refd
       THEN pc' = [pc EXCEPT ![n] = "waiting"] /\ UNCHANGED lost
       ELSE pc' = [pc EXCEPT ![n] = "done"] /\ lost' = lost \cup {n}
    /\ UNCHANGED <<status, refd, timer, answer, got>> /\ NoticeStep

Woken(n) ==
    /\ pc[n] = "waiting" /\ ~Open(n)
    /\ pc' = [pc EXCEPT ![n] = "settle"]
    /\ UNCHANGED <<status, refd, timer, answer, got, lost>> /\ NoticeStep

WaitTimeout(n) ==
    /\ pc[n] = "waiting" /\ Open(n)
    /\ pc' = [pc EXCEPT ![n] = "giveup"]
    /\ UNCHANGED <<status, refd, timer, answer, got, lost>> /\ NoticeStep

remove_notice(n) == refd' = refd \ {n} /\ timer' = timer \ {n}

\* The waiter looks at what woke it.
Settle(n) ==
    /\ pc[n] = "settle"
    /\ pc' = [pc EXCEPT ![n] = "done"]
    /\ answer' = IF status[n] = "answered" THEN answer \cup {n} ELSE answer
    /\ remove_notice(n)
    /\ UNCHANGED <<status, got, lost>> /\ NoticeStep

\* It had no answer when its time was over.
GiveUp(n) ==
    /\ pc[n] = "giveup"
    /\ pc' = [pc EXCEPT ![n] = "done"]
    /\ status' = [status EXCEPT ![n] = IF Open(n) THEN "cancelled" ELSE @]
    /\ lost' = lost \cup {n}
    /\ remove_notice(n)
    /\ UNCHANGED <<answer, got>> /\ NoticeStep

\* _expire_notice, which does not ask whether the notice was answered
Expire(n) ==
    /\ n \in timer
    /\ status' = [status EXCEPT ![n] = IF @ = "cancelled" THEN @ ELSE "expired"]
    /\ lost' = lost \cup {n}
    /\ refd' = refd \ {n} /\ timer' = timer \ {n}
    /\ UNCHANGED <<pc, answer, got>> /\ NoticeStep

------------------------------------------------------------------------------
\* shutdown()

\* Fault: what was answered is cancelled with the rest.
Cancelled_all(s) == "cancelled"

\* Fault: those who wait are not told.
Cancelled_none(s) == s

\* NoticeResponse.cancel
Cancelled(s) == IF s = "open" THEN "cancelled" ELSE s

\* No longer enabled, and the notices are cancelled.
CloseBegin(o, who) ==
    /\ enable' = enable \ {o}
    /\ status' = [n \in Notices |-> IF n \in refd /\ at[n] = o THEN Cancelled(status[n])
                                    ELSE status[n]]
    /\ timer' = {n \in timer : at[n] # o}
    /\ close' = [close EXCEPT ![o] = "begun"] /\ closer' = [closer EXCEPT ![o] = who]
    /\ UNCHANGED <<made, registry, loaded, hist, file, queue, work, dialogs, due, at, line, refd,
                   pc, answer, got, lost, told, overlap, late>>

\* The dialogs were closed: save.
CloseSave(o) ==
    /\ close[o] = "begun"
    /\ close' = [close EXCEPT ![o] = "drain"]
    /\ manage' = manage \ {o} /\ main' = main \ {o} /\ busy' = busy \ {o}
    /\ file' = hist[o]
    /\ UNCHANGED <<object, loaded, hist, queue, work, due, closer, reaper, wake, notices, bounds,
                   told, overlap, late>>

\* The reaper goes on as long as there is an enabled object.
ReaperGoesOn == IF Serving THEN "wait" ELSE "none"

\* A dialog's save or shutdown fails, or the time for all of it is over.
CloseFails(o) ==
    /\ close[o] = "begun" /\ errors < MaxErrors
    /\ errors' = errors + 1
    /\ close' = [close EXCEPT ![o] = "failed"]
    /\ reaper' = IF closer[o] = "reaper" THEN ReaperGoesOn ELSE reaper
    /\ manage' = manage \ {o}
    /\ UNCHANGED <<object, loaded, hist, file, queue, work, main, busy, due, closer, wake,
                   notices, rouses, ends, told, overlap, late>>

\* Only the object that is registered is taken out.
Unregistered(o) == IF registry = o THEN 0 ELSE registry

\* aqueue.kill waits for the queue, at the end of the process for a time only, and
\* stops the worker; then the object leaves the registry.  The last one stops the
\* reaper, which may be closing an object before it.
CloseEnd(o) ==
    /\ close[o] = "drain"
    /\ (queue[o] = <<>> /\ work[o] = NoMsg) \/ closer[o] = "exit"
    /\ work' = [work EXCEPT ![o] = NoMsg]
    /\ registry' = Unregistered(o)
    /\ LET stays == registry' \in enable
           cut == {q \in Objs : closer[o] = "exit" /\ ~stays /\ close[q] = "begun"
                                /\ closer[q] = "reaper"} IN
       /\ close' = [q \in Objs |-> IF q = o THEN "done" ELSE IF q \in cut THEN "failed" ELSE close[q]]
       /\ wake' = stays
       /\ reaper' = IF closer[o] = "reaper" \/ cut # {} \/ reaper # "closing"
                    THEN IF stays THEN "wait" ELSE "none"
                    ELSE reaper
    /\ UNCHANGED <<made, enable, loaded, hist, file, queue, dialogs, due, closer, notices,
                   bounds, told, overlap, late>>

\* shutdown_all, at the end of the process
ExitClose(o) ==
    /\ ends < MaxEnds
    /\ o = registry /\ close[o] \in {"no", "failed"}
    /\ CloseBegin(o, "exit")
    /\ UNCHANGED <<reaper, wake, bounds>>

------------------------------------------------------------------------------
\* The reaper

\* The time without activity passes; a message on its way takes less.
Due(o) ==
    /\ o \in enable \ due /\ \A n \in Notices : ~(pc[n] = "asking" /\ at[n] = o)
    /\ due' = due \cup {o}
    /\ UNCHANGED <<object, loaded, hist, file, queue, work, dialogs, closing, reaper, wake,
                   notices, bounds, told, overlap, late>>

\* Fault: what the worker runs does not count.
Idle_queue_only(o) ==
    /\ \A n \in refd : at[n] # o
    /\ o \notin manage /\ queue[o] = <<>> /\ o \notin busy

\* _is_idle
Idle(o) ==
    /\ \A n \in refd : at[n] # o
    /\ o \notin manage /\ queue[o] = <<>> /\ work[o] = NoMsg /\ o \notin busy

\* _private_chat_reaper_cycle, up to the wait for the next deadline
ReaperCycle ==
    /\ reaper = "wait"
    /\ wake \/ ~Serving \/ registry \in due
    /\ wake' = FALSE
    /\ IF Serving /\ registry \in due /\ Idle(registry)
       THEN CloseBegin(registry, "reaper") /\ reaper' = "closing" /\ UNCHANGED bounds
       ELSE /\ reaper' = ReaperGoesOn
            /\ UNCHANGED <<object, loaded, hist, file, queue, work, dialogs, due, closing, notices,
                           bounds, told, overlap, late>>

\* The process ends, closed or not, and starts with the file.
End ==
    /\ ends < MaxEnds /\ ends' = ends + 1
    /\ made' = 0 /\ registry' = 0 /\ enable' = {} /\ loaded' = {}
    /\ hist' = [o \in Objs |-> {}]
    /\ queue' = [o \in Objs |-> <<>>] /\ work' = [o \in Objs |-> NoMsg]
    /\ manage' = {} /\ main' = {} /\ busy' = {} /\ due' = {}
    /\ close' = [o \in Objs |-> "no"] /\ closer' = [o \in Objs |-> "none"]
    /\ reaper' = "none" /\ wake' = FALSE
    /\ at' = [n \in Notices |-> 0] /\ line' = <<>>
    /\ status' = [n \in Notices |-> "none"] /\ refd' = {} /\ timer' = {}
    /\ pc' = [n \in Notices |-> "none"] /\ answer' = {} /\ got' = {} /\ lost' = {}
    /\ overlap' = FALSE /\ late' = FALSE
    /\ told' = file
    /\ UNCHANGED <<file, rouses, errors>>

ObjectStep(o) ==
    \/ Take(o) \/ Finish(o) \/ Rest(o) \/ ManageTimeout(o)
    \/ CloseSave(o) \/ CloseEnd(o) \/ Due(o)

WaiterStep(n) ==
    \/ AskSent(n) \/ AskFails(n) \/ WaitStart(n) \/ Woken(n) \/ Settle(n) \/ GiveUp(n)

Next ==
    \/ \E o \in Objs :
          \/ ObjectStep(o) \/ Rouse(o) \/ CloseFails(o) \/ ExitClose(o)
          \/ \E m \in Msgs : accept_message(m, o)
          \/ \E x \in Outs : Says(o, x)
          \/ \E n \in Notices : Ask(n, o)
    \/ \E n \in Notices : WaiterStep(n) \/ WaitTimeout(n) \/ Expire(n)
    \/ ReaperCycle \/ End

\* The event loop runs what can run, timers fire, agents and dialogs come to an
\* end.  Nothing makes a wait time out: wait_any may have no timeout.
Fairness ==
    /\ \A o \in Objs : /\ WF_vars(Take(o)) /\ WF_vars(Finish(o)) /\ WF_vars(Rest(o))
                       /\ WF_vars(ManageTimeout(o)) /\ WF_vars(CloseSave(o))
                       /\ WF_vars(CloseEnd(o)) /\ WF_vars(Due(o))
    /\ \A n \in Notices : WF_vars(WaiterStep(n)) /\ WF_vars(Expire(n))
    /\ WF_vars(ReaperCycle)

Spec == Init /\ [][Next]_vars /\ Fairness

------------------------------------------------------------------------------
\* Properties

\* Between reclaims and new objects no message is lost: what was said is in the
\* object that serves, and in the file when there is none.  Apart from an object
\* made before the one before it had saved, and from what is said while the end
\* of the process waits for the queue, after the save.
HistoryIsThere ==
    overlap \/ late \/ /\ Serving => told \subseteq hist[registry]
                       /\ registry = 0 => told \subseteq file

\* An answer that was taken for a notice reaches who asked, a shutdown between
\* the two included, unless the notice expired, the waiter's time was over or it
\* came to wait when the object was gone.
AnswerArrives ==
    \A n \in got : pc[n] = "done" => n \in answer \cup lost

\* Whoever asks comes back, however the object is closed meanwhile.
AskerReturns ==
    \A n \in Notices : pc[n] # "none" ~> pc[n] \in {"none", "done"}

\* When nobody writes any more, the object is closed and leaves the registry,
\* unless its shutdown failed.
ChatIsReclaimed ==
    <>[](registry = 0 \/ close[registry] = "failed")

\* What was begun comes to an end: neither who asks nor the object is left behind.
ComesToRest == AskerReturns /\ ChatIsReclaimed
=============================================================================
