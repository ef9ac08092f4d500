---------------------------- MODULE AgentControl ----------------------------
(***************************************************************************)
(* The control loop of an agent (agent/agent.py, BaseAgent): run() asks    *)
(* the model, handle_response() turns its tool calls into tasks, and       *)
(* callback() brings the results of tasks back, several at once            *)
(* (_merge_callback).                                                      *)
(*                                                                         *)
(* run() guards itself with an asyncio.Event: wait, then clear.  One set() *)
(* wakes everybody who waits, and whoever was woken goes on even if the    *)
(* event is clear again by then: the gate is not a lock, and the model     *)
(* keeps it as it is.                                                      *)
(***************************************************************************)
EXTENDS Integers, Sequences, FiniteSets

CONSTANTS
  Users,          \* the loops that run() what users say, from_user = True
  Reviews,        \* the runs of the agent's own prompts, from_user = False
  Leaders,        \* the coroutines of _merge_callback that collect results
  Calls,          \* tool calls the model may make
  Background,     \* tasks that run from the start and answer no call
  Always,         \* the calls whose callback brings the result,
  CallOnly,       \*   whose callback only runs the control; the others: NEVER
  Waited,         \* the calls handle_response waits for
  MaxReact,       \* MaxReactTimes
  RollbackAt,     \* the failures after which the last round is taken back
  MaxAsks,        \* bound: runs of each user and each review
  MaxFaults,      \* bound: failed, repeated or overflowing requests, timeouts of a leader
  MaxInterrupts,  \* bound: interrupt_control
  MaxNew          \* bound: tool calls in one response

Selves == Reviews \cup Leaders
Runners == Users \cup Selves

ASSUME ControlAssumption ==
  /\ Users \cap Selves = {} /\ Reviews \cap Leaders = {}
  /\ IsFiniteSet(Selves)
  /\ Background \subseteq Calls /\ Always \cap CallOnly = {}
  /\ MaxReact \in Nat \ {0} /\ RollbackAt \in Nat

VARIABLES
  event, suspending, react_times, retry_times, last_call_ids,
  window,        \* the rounds of the context: the tool calls of each
  answered,      \* the last of them has an answer
  orphan,        \* the client works on a request whose caller has left
  merge_calls,   \* the tasks whose callback waits to be merged,
  bare,          \*   those among them that brought no result of their own
  task,          \* the task of each call
  pc, woken,     \* where each runner is; who was woken by an event's set()
  todo,          \* the calls of its response a runner still handles
  told,          \* the results that are in a runner's request
  overlapped,    \* history: two runs were inside the gate at once
  late,          \* history: rounds nobody claimed behind the last one that was
  asks, faults, interrupts

gateVars == <<event, suspending, pc, woken>>
limitVars == <<react_times, retry_times>>
windowVars == <<window, answered, late>>
callVars == <<last_call_ids, windowVars, orphan, todo>>
mergeVars == <<merge_calls, bare>>
histVars == <<overlapped>>
countVars == <<asks, faults, interrupts>>
vars == <<gateVars, limitVars, callVars, mergeVars, task, told, histVars, countVars>>

-----------------------------------------------------------------------------
(* Helpers *)

Finished == {c \in Calls : task[c] \in {"done", "called"}}
Inside == {r \in Runners : pc[r] \in {"ask", "comp", "handle"}}

AtEvent == {r \in Runners : pc[r] \in {"pause", "take", "gate"}}
AtSuspend == {r \in Runners : pc[r] \in {"susp", "hold"}}

\* asyncio.Event.wait(): at once if the event is set, else when a set() came by.
Pass(r) == event \/ r \in woken
PassSuspend(r) == ~suspending \/ r \in woken

\* r goes on, out of every wait.
Goto(r, place) == pc' = [pc EXCEPT ![r] = place]

\* event.set() by r, which is then somewhere else.
OpenGate(r, place) ==
  /\ Goto(r, place)
  /\ event' = TRUE
  /\ woken' = (woken \cup AtEvent) \ {r}

Running == {c \in Calls : task[c] = "running"}
Fresh == {c \in Calls : task[c] = "none"}

Init ==
  /\ event = TRUE /\ suspending = FALSE
  /\ react_times = 0 /\ retry_times = 0 /\ last_call_ids = {}
  /\ window = <<{}>> /\ answered = TRUE /\ orphan = FALSE /\ late = 0
  /\ merge_calls = {} /\ bare = {}
  /\ task = [c \in Calls |-> IF c \in Background THEN "running" ELSE "none"]
  /\ pc = [r \in Runners |-> "idle"] /\ woken = {}
  /\ todo = [r \in Runners |-> {}] /\ told = [r \in Runners |-> {}]
  /\ overlapped = FALSE
  /\ asks = [r \in Users \cup Reviews |-> 0] /\ faults = 0 /\ interrupts = 0

-----------------------------------------------------------------------------
(* run(): the gate and what is done behind it before the request *)

\* A self request of a suspended agent first waits for the user.
Entry(r) == IF r \in Selves /\ suspending THEN "hold" ELSE "gate"

Call(r) ==
  /\ r \in Users \cup Reviews
  /\ pc[r] = "idle" /\ asks[r] < MaxAsks
  /\ asks' = [asks EXCEPT ![r] = @ + 1]
  /\ Goto(r, Entry(r))
  /\ UNCHANGED <<event, suspending, woken, limitVars, callVars, mergeVars, task, told,
                 histVars, faults, interrupts>>

Held(r) ==
  /\ pc[r] = "hold" /\ PassSuspend(r)
  /\ Goto(r, "gate")
  /\ woken' = woken \ {r}
  /\ UNCHANGED <<event, suspending, limitVars, callVars, mergeVars, task, told,
                 histVars, countVars>>

Detached_kept == last_call_ids \* Fault: the calls of the round taken back stay.
Detached == {}

\* back2last_round and _detach_tool_calls_for_context_reset.
RollBack ==
  IF retry_times >= RollbackAt /\ window # <<>>
    THEN /\ window' = SubSeq(window, 1, Len(window) - 1)
         /\ answered' = TRUE /\ late' = 0
         /\ last_call_ids' = Detached
         /\ retry_times' = 0
    ELSE UNCHANGED <<windowVars, last_call_ids, retry_times>>

\* The user ends a suspension and starts a new count of self requests.
Resume(r) ==
  IF r \in Users
    THEN suspending' = FALSE /\ react_times' = 0
    ELSE UNCHANGED <<suspending, react_times>>

\* Only a leader without results can come with nothing to say.
HasPrompts(r) == r \in Leaders /\ told[r] = {} => last_call_ids' # {}

MayReact_ge(r) == react_times' <= MaxReact \* Fault: > for >=.
MayReact(r) == react_times' < MaxReact

Refused_shut(r) == event' = FALSE /\ Goto(r, "idle") /\ UNCHANGED woken \* Fault: no event.set().
Refused(r) == OpenGate(r, "idle")

(* The gate is passed and closed; up to the request nothing is awaited.    *)
(* get_tool_call_result answers every call of the last response, with the  *)
(* result of what has ended and "not finished" for the rest.               *)
Enter(r) ==
  /\ pc[r] = "gate" /\ Pass(r)
  /\ Resume(r) /\ RollBack
  /\ IF HasPrompts(r) /\ MayReact(r) /\ ~suspending'
       THEN /\ Goto(r, "ask") /\ event' = FALSE
            /\ woken' = (woken \cup (IF r \in Users THEN AtSuspend ELSE {})) \ {r}
            /\ told' = [told EXCEPT ![r] = @ \cup (last_call_ids' \cap Finished)]
       ELSE /\ Refused(r)
            /\ told' = [told EXCEPT ![r] = {}]
  /\ overlapped' = (overlapped \/ Inside # {})
  /\ UNCHANGED <<orphan, todo, mergeVars, task, countVars>>

-----------------------------------------------------------------------------
(* run(): the request and the response *)

\* A question and its answer come into the context; the question joins a round
\* that has no answer.  An answer of nothing but its usage is none.
Extends == answered \/ window = <<>>
AddRound(new) ==
  /\ window' = IF Extends THEN Append(window, new) ELSE [window EXCEPT ![Len(window)] = new]
  /\ answered' \in {TRUE, new # {}}

\* The model answers: all its former calls are settled, the new ones are handled.
\* The client has one request after the other.
Answered(r) ==
  /\ pc[r] = "ask" /\ ~orphan
  /\ \E new \in SUBSET Fresh :
       /\ Cardinality(new) <= MaxNew
       /\ todo' = [todo EXCEPT ![r] = new]
       /\ AddRound(new)
  /\ late' = 0
  /\ last_call_ids' = {}
  /\ react_times' = IF r \in Selves THEN react_times + 1 ELSE react_times
  /\ told' = [told EXCEPT ![r] = {}]
  /\ Goto(r, "handle")
  /\ UNCHANGED <<event, suspending, woken, retry_times, orphan, mergeVars, task,
                 overlapped, countVars>>

\* What ends a compression is counted with the overflow that began it.
CountFault(r) ==
  IF pc[r] = "comp" THEN UNCHANGED faults ELSE faults < MaxFaults /\ faults' = faults + 1

\* A caller leaves the request it waits for: the client goes on with it.
LeaveRequest == orphan' = TRUE

(* The end of a request nobody waits for: it may have brought nothing, or  *)
(* its question and answer are added to the context all the same.  The     *)
(* calls of the answer become no tasks, and so are not named here.         *)
LateAnswer ==
  /\ orphan /\ orphan' = FALSE
  /\ \/ UNCHANGED windowVars
     \/ /\ window' = IF Extends THEN Append(window, {}) ELSE window
        /\ late' = IF Extends THEN late + 1 ELSE late
        /\ answered' \in BOOLEAN
  /\ UNCHANGED <<gateVars, limitVars, last_call_ids, todo, mergeVars, task, told, histVars,
                 countVars>>

\* The wait takes too long, and the loop of run() asks again.
Retry(r) ==
  /\ pc[r] = "ask" /\ ~suspending
  /\ CountFault(r)
  /\ LeaveRequest
  /\ UNCHANGED <<gateVars, limitVars, last_call_ids, windowVars, todo, mergeVars, task, told,
                 histVars, asks, interrupts>>

\* Every attempt failed; while the agent is being suspended it does not count.
Failed(r) ==
  /\ pc[r] = "ask"
  /\ CountFault(r)
  /\ retry_times' = IF suspending THEN retry_times ELSE retry_times + 1
  /\ told' = [told EXCEPT ![r] = {}]
  /\ LeaveRequest
  /\ OpenGate(r, "idle")
  /\ UNCHANGED <<suspending, react_times, last_call_ids, windowVars, todo, mergeVars, task,
                 histVars, asks, interrupts>>

(* The context is too long: compress_context detaches the calls and asks   *)
(* for a summary; then what the request said goes into a new window, and   *)
(* the request is tried again.                                             *)
Overflow(r) ==
  /\ pc[r] = "ask"
  /\ CountFault(r)
  /\ last_call_ids' = Detached
  /\ Goto(r, "comp")
  /\ UNCHANGED <<event, suspending, woken, limitVars, windowVars, orphan, todo, mergeVars,
                 task, told, histVars, asks, interrupts>>

Replaced == window' = <<>> /\ answered' = TRUE /\ late' = 0
Compressed(r) ==
  /\ pc[r] = "comp"
  /\ Replaced
  /\ IF suspending
       THEN OpenGate(r, "idle") /\ told' = [told EXCEPT ![r] = {}]
       ELSE Goto(r, "ask") /\ UNCHANGED <<event, woken, told>>
  /\ UNCHANGED <<suspending, limitVars, last_call_ids, orphan, todo, mergeVars, task,
                 histVars, countVars>>

\* An exception, before the context is replaced or after, ends the run uncounted.
CompressFailed(r) ==
  /\ pc[r] = "comp"
  /\ CountFault(r)
  /\ UNCHANGED windowVars \/ Replaced
  /\ told' = [told EXCEPT ![r] = {}]
  /\ OpenGate(r, "idle")
  /\ UNCHANGED <<suspending, limitVars, last_call_ids, orphan, todo, mergeVars, task,
                 histVars, asks, interrupts>>

-----------------------------------------------------------------------------
(* handle_response *)

\* The next call becomes a task of the task machine.
Handle(r, c) ==
  /\ pc[r] = "handle"
  /\ c \in todo[r] /\ task[c] = "none"
  /\ task' = [task EXCEPT ![c] = "running"]
  /\ last_call_ids' = last_call_ids \cup {c}
  /\ todo' = [todo EXCEPT ![r] = IF c \in Waited THEN @ ELSE @ \ {c}]
  /\ UNCHANGED <<gateVars, limitVars, windowVars, orphan, mergeVars, told, histVars,
                 countVars>>

\* Whatever is to be waited for has ended; the agent is saved and the gate opens.
HandleEnd(r) ==
  /\ pc[r] = "handle"
  /\ todo[r] \subseteq Finished
  /\ todo' = [todo EXCEPT ![r] = {}]
  /\ OpenGate(r, "idle")
  /\ UNCHANGED <<suspending, limitVars, last_call_ids, windowVars, orphan, mergeVars, task,
                 told, histVars, countVars>>

-----------------------------------------------------------------------------
(* The task machine ends tasks; callback() and _merge_callback *)

TaskEnds(c) ==
  /\ task[c] = "running"
  /\ task' = [task EXCEPT ![c] = "done"]
  /\ UNCHANGED <<gateVars, limitVars, callVars, mergeVars, told, histVars, countVars>>

\* Who is first in the list collects for all that come before it takes them.
Lead_always(r) == TRUE \* Fault: every callback starts a request of its own.
Lead(r) == merge_calls = {}

(* A callback whose call still waits for its response only runs the        *)
(* control: the result is to go into that response.                        *)
Merge(c, r) ==
  /\ task[c] = "done" /\ c \in Always \cup CallOnly
  /\ task' = [task EXCEPT ![c] = "called"]
  /\ merge_calls' = merge_calls \cup {c}
  /\ bare' = IF c \in CallOnly \cup last_call_ids THEN bare \cup {c} ELSE bare
  /\ IF Lead(r)
       THEN pc[r] = "idle" /\ Goto(r, "susp")
       ELSE UNCHANGED pc
  /\ UNCHANGED <<event, suspending, woken, limitVars, callVars, told, histVars, countVars>>

MergeResumed(r) ==
  /\ pc[r] = "susp" /\ PassSuspend(r)
  /\ Goto(r, "pause")
  /\ woken' = woken \ {r}
  /\ UNCHANGED <<event, suspending, limitVars, callVars, mergeVars, task, told,
                 histVars, countVars>>

\* Half a second for the users' messages that are waiting.
MergePause(r) ==
  /\ pc[r] = "pause" /\ Pass(r)
  /\ Goto(r, "take")
  /\ woken' = woken \ {r}
  /\ UNCHANGED <<event, suspending, limitVars, callVars, mergeVars, task, told,
                 histVars, countVars>>

Emptied_kept == merge_calls \* Fault: _merge_calls is not cleared.
Emptied == {}

\* The list is taken; with nothing to say and no call to answer nothing is run.
MergeTake(r) ==
  /\ pc[r] = "take" /\ Pass(r)
  /\ merge_calls' = Emptied /\ bare' = {}
  /\ told' = [told EXCEPT ![r] = merge_calls \ bare]
  /\ Goto(r, IF merge_calls \ bare = {} /\ last_call_ids = {} THEN "idle" ELSE Entry(r))
  /\ woken' = woken \ {r}
  /\ UNCHANGED <<event, suspending, limitVars, callVars, task, histVars, countVars>>

\* The leader's run() takes too long: it is cancelled where it waits.
MergeTimeout(r) ==
  /\ r \in Leaders /\ pc[r] \in {"hold", "gate", "ask", "comp", "handle"}
  /\ CountFault(r)
  /\ IF r \in Inside
       THEN OpenGate(r, "idle")
       ELSE Goto(r, "idle") /\ woken' = woken \ {r} /\ UNCHANGED event
  /\ todo' = [todo EXCEPT ![r] = {}]
  /\ told' = [told EXCEPT ![r] = {}]
  /\ IF pc[r] = "ask" THEN LeaveRequest ELSE UNCHANGED orphan
  /\ UNCHANGED windowVars \/ (pc[r] = "comp" /\ Replaced)
  /\ UNCHANGED <<suspending, limitVars, last_call_ids, mergeVars, task, histVars, asks,
                 interrupts>>

-----------------------------------------------------------------------------
(* interrupt_control: the request that is being posted, if one is, returns *)
(* in the same turn of the loop; the gate is opened whoever is inside.     *)
interrupt_control ==
  /\ interrupts < MaxInterrupts
  /\ interrupts' = interrupts + 1
  /\ suspending' = TRUE
  /\ event' = TRUE /\ woken' = woken \cup AtEvent
  /\ \/ UNCHANGED <<pc, told, orphan>>
     \/ \E r \in Runners :
          /\ pc[r] = "ask" /\ ~orphan
          /\ Goto(r, "idle")
          /\ told' = [told EXCEPT ![r] = {}]
          /\ LeaveRequest
  /\ UNCHANGED <<limitVars, last_call_ids, windowVars, todo, mergeVars, task, histVars, asks,
                 faults>>

-----------------------------------------------------------------------------
Run(r) ==
  \/ Held(r) \/ Enter(r) \/ Answered(r) \/ Compressed(r) \/ HandleEnd(r)
  \/ \E c \in Calls : Handle(r, c)

Collect(r) == MergeResumed(r) \/ MergePause(r) \/ MergeTake(r)

Next ==
  \/ \E r \in Runners :
       Call(r) \/ Run(r) \/ Retry(r) \/ Failed(r) \/ Overflow(r) \/ CompressFailed(r)
  \/ \E r \in Leaders : Collect(r) \/ MergeTimeout(r) \/ \E c \in Calls : Merge(c, r)
  \/ \E c \in Calls : TaskEnds(c)
  \/ LateAnswer \/ interrupt_control

Spec == Init /\ [][Next]_vars

\* The loop runs what can run; requests and tasks have timeouts of their own.
Fairness ==
  /\ \A r \in Runners : WF_vars(Run(r))
  /\ \A r \in Leaders : WF_vars(Collect(r))
  /\ \A c \in Calls : WF_vars(TaskEnds(c))
  /\ WF_vars(LateAnswer)
FairSpec == Spec /\ Fairness

-----------------------------------------------------------------------------
(* Properties *)

Places == {"idle", "susp", "pause", "take", "hold", "gate", "ask", "comp", "handle"}
TypeOK ==
  /\ event \in BOOLEAN /\ suspending \in BOOLEAN
  /\ react_times \in Nat /\ retry_times \in Nat
  /\ last_call_ids \subseteq Calls
  /\ window \in Seq(SUBSET Calls) /\ answered \in BOOLEAN /\ orphan \in BOOLEAN
  /\ merge_calls \subseteq Calls /\ bare \subseteq merge_calls
  /\ task \in [Calls -> {"none", "running", "done", "called"}]
  /\ pc \in [Runners -> Places] /\ woken \subseteq AtEvent \cup AtSuspend
  /\ todo \in [Runners -> SUBSET Calls] /\ told \in [Runners -> SUBSET Calls]
  /\ overlapped \in BOOLEAN /\ late \in Nat
  /\ asks \in [Users \cup Reviews -> Nat] /\ faults \in Nat /\ interrupts \in Nat

(* A closed gate has somebody behind it who will open it: none of the many *)
(* ways out of run() leaves it closed (every event.set() of run).          *)
GateIsHeld == ~event => Inside # {}

Collecting == {r \in Leaders : pc[r] \in {"susp", "pause", "take"}}

(* The results that wait to be merged have exactly one collector, and a    *)
(* collector has results: no callback is left in the list, none starts a   *)
(* second request (the test and the append under _cb_merge_lock).          *)
OneCollector ==
  /\ \A r, s \in Collecting : r = s
  /\ merge_calls # {} <=> Collecting # {}

AskingSelves == {r \in Selves : pc[r] \in {"ask", "comp"}}

(* Without a word from the user the agent asks itself at most MaxReact     *)
(* times; because the gate is no lock, requests that pass it together may  *)
(* exceed that by one each (the test of _react_times before the request,   *)
(* the count after it).                                                    *)
ReactIsBounded ==
  react_times + Cardinality(AskingSelves) <= MaxReact - 1 + Cardinality(Selves)

\* The calls of the last response in the context that somebody waited for.
Open == IF late < Len(window) THEN window[Len(window) - late] ELSE {}

(* As long as runs do not overlap, the next request answers only calls the *)
(* context still has: a round that is taken back, a context that is        *)
(* compressed and a response that replaces another settle theirs first.    *)
(* What comes after the round of these calls are answers for nobody, of    *)
(* requests whose callers have left.                                       *)
AnswersAreOpen == overlapped \/ last_call_ids \subseteq Open

\* A closed gate opens again.
GateOpens == ~event ~> event

\* Results waiting to be merged are taken, unless the agent is suspended.
ResultsAreTaken == (merge_calls # {}) ~> (merge_calls = {} \/ suspending)

\* The control never stops for good: through nine ways out of a run, cancellations
\* and interruptions, neither who waits at the gate nor what waits for a leader does.
ControlGoesOn == GateOpens /\ ResultsAreTaken
=============================================================================
