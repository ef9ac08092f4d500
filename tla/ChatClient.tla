------------------------------ MODULE ChatClient ------------------------------
(***************************************************************************)
(* The client of the language model, LLM_connect.py, under the runs of an   *)
(* agent (agent.py): the context of rounds, the queue of requests and its   *)
(* one worker, the normalisation of what is sent, and the ways in which a   *)
(* request and whoever asked for it part company.                          *)
(*                                                                         *)
(* A prompt is text of a run, a call, a response to a call, a reply, or a   *)
(* notice, which is a response without its call, sent as text.  Prompts are *)
(* told apart as the code's objects are: a request that is repeated repeats *)
(* the same prompts.                                                       *)
(***************************************************************************)
EXTENDS Naturals, Sequences, FiniteSets, SequencesExt

CONSTANTS
    Users,          \* runs of the agent a user asks for
    Selves,         \* runs it asks of itself when tasks end
    MaxAsks,        \* control_retry_limit + 1
    ReactLimit,     \* MaxReactTimes
    RollbackAt,     \* failed runs after which the last round is taken back
    MaxCalls,       \* bound: calls the model makes
    MaxInterrupts,  \* bound: interrupt_control
    MaxFaults       \* bound: requests that bring nothing, timeouts, overflows

ASSUME ChatClientAssumption ==
    /\ Users \cap Selves = {} /\ IsFiniteSet(Users \cup Selves)
    /\ MaxAsks \in Nat \ {0} /\ ReactLimit \in Nat \ {0} /\ RollbackAt \in Nat \ {0}
    /\ MaxCalls \in Nat /\ MaxInterrupts \in Nat /\ MaxFaults \in Nat

VARIABLES
    context,    \* rounds of the context
    queue,      \* requests not yet begun
    worker,     \* the request under way
    first,      \* _first_SSE_retry
    payload,    \* what the request under way has sent
    pc, job,    \* of each run: its place; its prompts, requests, turns, answer
    open,       \* _last_call_ids
    gate, suspending, react, failures,
    calls, interrupts, faults,   \* counters of the bounds
    said,       \* history: what answered requests have said
    lost,       \* history: notices of requests that brought nothing
    late,       \* history: an answer came after whoever asked for it had left
    abandoned,  \* history: calls that were let go while the context kept them
    unusual     \* history: runs overlapped, a round was taken back, a call stopped

client == <<context, queue, worker, payload>>
agent == <<open, gate, suspending, react, failures>>
history == <<said, lost, late, abandoned, unusual>>
vars == <<client, first, pc, job, agent, calls, interrupts, faults, history>>

Run == Users \cup Selves

------------------------------------------------------------------------------
\* Prompts and the context

Text(r) == [kind |-> "text", run |-> r]
Call(c) == [kind |-> "call", call |-> c]
Response(c, r, n) == [kind |-> "response", call |-> c, run |-> r, n |-> n]
Notice(c) == [kind |-> "notice", call |-> c]
Missing(c) == [kind |-> "missing", call |-> c]
Reply == [kind |-> "reply"]

CallIds == 1..MaxCalls
Prompt ==
    [kind : {"text"}, run : Run] \cup [kind : {"call", "notice"}, call : CallIds]
        \cup [kind : {"response"}, call : CallIds, run : Run, n : {1, 2}] \cup {Reply}
Sent == Prompt \cup [kind : {"missing"}, call : CallIds]

IsUser(p) == p.kind \in {"text", "notice"}
IsAssistant(p) == p.kind \in {"call", "reply"}
IsResponse(p) == p.kind \in {"response", "missing"}

Messages(rounds) ==
    LET flat[i \in 0..Len(rounds)] == IF i = 0 THEN <<>> ELSE flat[i - 1] \o rounds[i]
    IN  flat[Len(rounds)]

\* Context._unpack_prompts: a round begins where the assistant has spoken.
Unpack(rounds, p) ==
    IF rounds = <<>> \/ (~IsAssistant(p) /\ IsAssistant(Last(Last(rounds))))
    THEN Append(rounds, <<p>>)
    ELSE [rounds EXCEPT ![Len(rounds)] = Append(@, p)]

Added(rounds, prompts) ==
    LET added[i \in 0..Len(prompts)] ==
            IF i = 0 THEN rounds ELSE Unpack(added[i - 1], prompts[i])
    IN  added[Len(prompts)]

Without(prompts, discarded) ==
    LET kept[i \in 0..Len(prompts)] ==
            IF i = 0 THEN <<>>
            ELSE IF prompts[i] \in discarded THEN kept[i - 1]
            ELSE Append(kept[i - 1], prompts[i])
    IN  kept[Len(prompts)]

\* Context.discard_prompt_ids: a round of which nothing is left goes.
Discarded(rounds, discarded) ==
    Without([i \in DOMAIN rounds |-> Without(rounds[i], discarded)], {<<>>})

\* What the model can read of runs and of calls' results
Marks(prompts) ==
    {<<"run", p.run>> : p \in {q \in ToSet(prompts) : q.kind = "text"}}
        \cup {<<"result", p.call>> : p \in {q \in ToSet(prompts) : q.kind \in {"response", "notice"}}}

------------------------------------------------------------------------------
\* Normalisation: _payload_constructor

Unsent == [sent |-> <<>>, pending |-> {}, orphans |-> {}, closed |-> {}, notices |-> <<>>]

\* _append_missing_tool_responses
Closed(s) ==
    LET pending == SetToSeq(s.pending)
    IN  [s EXCEPT !.sent = @ \o [i \in DOMAIN pending |-> Missing(pending[i])],
                  !.closed = @ \cup {Call(c) : c \in s.pending},
                  !.pending = {}]

\* Fault: calls that wait are left to wait when a response has no call.
Orphaned_open(s, p) ==
    [s EXCEPT !.sent = Append(@, Notice(p.call)),
              !.notices = Append(@, Notice(p.call)),
              !.orphans = @ \cup {p}]

Orphaned(s, p) == Orphaned_open(Closed(s), p)

Normal(s, p) ==
    IF p.kind = "call"
    THEN [s EXCEPT !.sent = Append(@, p), !.pending = @ \cup {p.call}]
    ELSE IF p.kind = "response"
    THEN IF p.call \in s.pending
         THEN [s EXCEPT !.sent = Append(@, p), !.pending = @ \ {p.call}]
         ELSE Orphaned(s, p)
    ELSE LET t == IF IsUser(p) THEN Closed(s) ELSE s
         IN  [t EXCEPT !.sent = Append(@, p)]

Seen(prompts) ==
    LET seen[i \in 0..Len(prompts)] ==
            IF i = 0 THEN Unsent ELSE Normal(seen[i - 1], prompts[i])
    IN  seen[Len(prompts)]

Normalised(prompts) == Closed(Seen(prompts))

------------------------------------------------------------------------------
Idle == [run |-> "none", ask |-> 0, prompts |-> <<>>, shared |-> FALSE,
         discards |-> {}, notices |-> <<>>]

\* "asked" is what the run set out to say, "away" the calls that its compression let
\* go: history variables.
NoJob == [prompts |-> <<>>, ask |-> 0, tries |-> 0, got |-> {}, asked |-> {}, away |-> {}]

Mark == ({"run"} \X Run) \cup ({"result"} \X CallIds)

TypeOK ==
    /\ context \in Seq(Seq(Prompt) \ {<<>>})
    /\ queue \in Seq([run : Run, ask : Nat])
    /\ worker = Idle \/ worker \in [run : Run, ask : Nat, prompts : Seq(Prompt), shared : BOOLEAN,
                                     discards : SUBSET Prompt, notices : Seq(Prompt)]
    /\ payload \in Seq(Sent)
    /\ job \in [Run -> [prompts : Seq(Prompt), ask : Nat, tries : Nat, got : SUBSET CallIds,
                        asked : SUBSET Mark, away : SUBSET CallIds]]
    /\ pc \in [Run -> {"new", "ask", "asking", "compressing", "nothing", "answered", "done"}]
    /\ \A r \in Run : /\ job[r].got \subseteq 1..calls /\ job[r].away \subseteq 1..calls
                      /\ pc[r] \in {"new", "done"} => job[r] = NoJob
                      /\ pc[r] \in {"asking", "nothing"} => job[r].tries > 0
    /\ open \subseteq 1..calls /\ abandoned \subseteq 1..calls /\ calls \in 0..MaxCalls
    /\ interrupts \in 0..MaxInterrupts /\ faults \in 0..MaxFaults
    /\ react \in Nat /\ failures \in Nat
    /\ said \subseteq Mark /\ lost \subseteq Mark
    /\ \A b \in {first, gate, suspending, late, unusual} : b \in BOOLEAN

Init ==
    /\ context = <<>> /\ queue = <<>> /\ worker = Idle /\ first = TRUE /\ payload = <<>>
    /\ pc = [r \in Run |-> "new"] /\ job = [r \in Run |-> NoJob]
    /\ open = {} /\ gate = TRUE /\ suspending = FALSE /\ react = 0 /\ failures = 0
    /\ calls = 0 /\ interrupts = 0 /\ faults = 0
    /\ said = {} /\ lost = {} /\ late = FALSE /\ abandoned = {} /\ unusual = FALSE

\* Whoever made the request waits for it: its event is not set.
Waits(request) == pc[request.run] = "asking" /\ job[request.run].ask = request.ask

Inside(r) == pc[r] \notin {"new", "done"}

Goto(r, place) == pc' = [pc EXCEPT ![r] = place]

\* Every way out of run() opens the gate.
Leave(r) ==
    /\ Goto(r, "done") /\ gate' = TRUE
    /\ job' = [job EXCEPT ![r] = NoJob]

CountFault == faults < MaxFaults /\ faults' = faults + 1

------------------------------------------------------------------------------
\* A run of the agent

\* get_tool_call_result: a call that is stopped by force gets two responses.
Results(r, forced) ==
    LET last == Without([c \in 1..calls |-> c], (1..calls) \ open)
    IN  Messages([i \in DOMAIN last |->
            IF forced THEN <<Response(last[i], r, 1), Response(last[i], r, 2)>>
                      ELSE <<Response(last[i], r, 1)>>])

\* Fault: what was said comes before the results.
Question_wordsFirst(results, words) == words \o results

Question(results, words) == results \o words

Times(r) == IF r \in Users THEN 0 ELSE react
RollsBack == failures >= RollbackAt /\ context # <<>>

\* run() up to the loop.  A user always says something; a run of the agent's own may
\* have nothing but results, and a round taken back has its calls listed in text.
Begin(r) ==
    /\ pc[r] = "new" /\ gate
    /\ r \in Users \/ ~suspending
    /\ \E speaks \in BOOLEAN :
        LET forced == Times(r) >= ReactLimit - 1
            listed == RollsBack /\ open # {}
            results == IF RollsBack THEN <<>> ELSE Results(r, forced)
            words == IF speaks \/ listed THEN <<Text(r)>> ELSE <<>>
            new == Question(results, words)
        IN  /\ r \in Users => speaks
            /\ IF new = <<>> \/ Times(r) >= ReactLimit
               THEN Leave(r)
               ELSE /\ Goto(r, "ask") /\ gate' = FALSE
                    /\ job' = [job EXCEPT ![r] = [NoJob EXCEPT !.prompts = new, !.asked = Marks(new)]]
            /\ unusual' = (unusual \/ RollsBack \/ (forced /\ results # <<>>)
                                   \/ \E s \in Run : Inside(s))
    /\ suspending' = (suspending /\ r \in Selves)
    /\ react' = Times(r)
    /\ IF RollsBack
       THEN /\ context' = Front(context)
            /\ open' = {} /\ failures' = 0
            /\ said' = said \cap Marks(Messages(context'))
       ELSE UNCHANGED <<context, open, failures, said>>
    /\ UNCHANGED <<queue, worker, payload, first, calls, interrupts, faults, lost,
                   late, abandoned>>

\* Chat.ask up to the wait
Ask(r) ==
    /\ pc[r] = "ask"
    /\ Goto(r, "asking")
    /\ job' = [job EXCEPT ![r].tries = @ + 1, ![r].ask = @ + 1]
    /\ queue' = Append(queue, [run |-> r, ask |-> job'[r].ask])
    /\ UNCHANGED <<context, worker, payload, first, agent, calls, interrupts, faults, history>>

\* ContextOverflowError and the first half of compress_context: what was to be
\* said becomes one text, the responses in it too.
Overflow(r) ==
    /\ pc[r] = "ask" /\ context # <<>>
    /\ CountFault
    /\ Goto(r, "compressing")
    /\ job' = [job EXCEPT ![r].tries = @ + 1, ![r].prompts = <<Text(r)>>,
                          ![r].asked = {<<"run", r>>}, ![r].away = open]
    /\ open' = {}
    /\ worker' = IF worker.run = r THEN [worker EXCEPT !.shared = FALSE] ELSE worker
    /\ UNCHANGED <<context, queue, payload, first, gate, suspending, react, failures, calls,
                   interrupts, history>>

\* The loop of run() after a turn without an answer
Again(r) ==
    IF job[r].tries < MaxAsks /\ ~suspending
    THEN Goto(r, "ask") /\ UNCHANGED <<job, gate, failures>>
    ELSE Leave(r) /\ failures' = IF suspending THEN failures ELSE failures + 1

\* The second half, when there is a summary: replace_context
Replaced == context' = <<>> /\ said' = {}
Compressed(r) ==
    /\ pc[r] = "compressing"
    /\ Replaced
    /\ Again(r)
    /\ UNCHANGED <<queue, worker, payload, first, open, suspending, react, calls, interrupts,
                   faults, lost, late, abandoned, unusual>>

\* An exception or a cancellation in compress_context ends the run uncounted, before
\* the context is replaced or after.  The calls are detached from the start.
CompressionFails(r) ==
    /\ pc[r] = "compressing"
    /\ CountFault
    /\ \/ abandoned' = abandoned \cup job[r].away /\ UNCHANGED <<context, said>>
       \/ Replaced /\ UNCHANGED abandoned
    /\ Leave(r)
    /\ UNCHANGED <<queue, worker, payload, first, open, suspending, react, failures, calls,
                   interrupts, lost, late, unusual>>

\* ask() returns None; the very first failure is asked again at once.
Unanswered(r) ==
    /\ pc[r] = "nothing"
    /\ IF first
       THEN /\ Goto(r, "ask")
            /\ job' = [job EXCEPT ![r].tries = @ - 1]
            /\ UNCHANGED <<gate, failures>>
       ELSE Again(r)
    /\ first' = FALSE
    /\ UNCHANGED <<client, open, suspending, react, calls, interrupts, faults, history>>

Timeout(r) ==
    /\ pc[r] = "asking"
    /\ CountFault
    /\ Again(r)
    /\ UNCHANGED <<client, first, open, suspending, react, calls, interrupts, history>>

\* wait_for of _merge_callback cuts the run off, be it between the answer and the run.
Cancelled(r) ==
    /\ r \in Selves /\ pc[r] \in {"ask", "asking", "nothing", "answered"}
    /\ CountFault
    /\ late' = (late \/ pc[r] = "answered")
    /\ Leave(r)
    /\ UNCHANGED <<client, first, open, suspending, react, failures, calls, interrupts, said,
                   lost, abandoned, unusual>>

\* run() after an answer, with handle_response: when that is cut off or fails, only the
\* calls before are tasks.
Answered(r) ==
    /\ pc[r] = "answered"
    /\ \E tasks \in SUBSET job[r].got :
        /\ open' = tasks
        /\ abandoned' = abandoned \cup (job[r].got \ tasks)
        /\ IF tasks = job[r].got THEN UNCHANGED faults ELSE CountFault
    /\ react' = IF r \in Selves THEN react + 1 ELSE react
    /\ first' = FALSE
    /\ Leave(r)
    /\ UNCHANGED <<client, suspending, failures, calls, interrupts, said, lost, late, unusual>>

\* interrupt_control: stop_one ends the request under way, none that waits for
\* the worker, and the gate opens whoever is inside.
Interrupt ==
    /\ interrupts < MaxInterrupts
    /\ interrupts' = interrupts + 1
    /\ suspending' = TRUE /\ gate' = TRUE
    /\ IF worker # Idle /\ Waits(worker)
       THEN Goto(worker.run, "nothing") /\ first' = FALSE
       ELSE UNCHANGED <<pc, first>>
    /\ UNCHANGED <<client, job, open, react, failures, calls, faults, history>>

------------------------------------------------------------------------------
\* The worker of the client

\* run() and post() up to the request: a copy has the question, the context only
\* loses what is discarded.
Start ==
    /\ worker = Idle /\ queue # <<>>
    /\ queue' = Tail(queue)
    /\ IF ~Waits(Head(queue))
       THEN UNCHANGED <<context, worker, payload>>
       ELSE LET prompts == job[Head(queue).run].prompts
                normal == Normalised(Messages(Added(context, prompts)))
                discards == normal.orphans \cup normal.closed
            IN  /\ payload' = normal.sent
                /\ context' = Discarded(context, discards)
                /\ worker' = [run |-> Head(queue).run, ask |-> Head(queue).ask,
                              prompts |-> prompts, shared |-> TRUE,
                              discards |-> discards, notices |-> normal.notices]
    /\ UNCHANGED <<first, pc, job, agent, calls, interrupts, faults, history>>

\* The request brings nothing: an error, the timeout, a cancellation, no content.
Nothing ==
    /\ worker # Idle
    /\ IF Waits(worker)
       THEN CountFault /\ Goto(worker.run, "nothing")
       ELSE UNCHANGED <<faults, pc>>
    /\ lost' = lost \cup Marks(worker.notices)
    /\ worker' = Idle /\ payload' = <<>>
    /\ first' \in {first, FALSE}
    /\ UNCHANGED <<context, queue, job, agent, calls, interrupts, said, late, abandoned, unusual>>

\* What the model answers, all of it or as far as it came: text, calls, or nothing
\* but its usage, which an answer that was cut off is reduced to.
Answers ==
    {<<>>, <<Reply>>} \cup
    {[i \in 1..n |-> Call(calls + i)] : n \in {k \in 1..2 : calls + k <= MaxCalls}}

\* Fault: the responses that had no call are not kept as notices.
Kept_responses(prompts) == Without(prompts, worker.discards)

Kept(prompts) == Without(prompts, worker.discards) \o worker.notices

\* post() after the request and the rest of run(), whether anybody waits or not
Answer ==
    /\ worker # Idle
    /\ \E answer \in Answers :
        LET r == worker.run
            prompts == Kept(worker.prompts)
            new == {p.call : p \in {q \in ToSet(answer) : q.kind = "call"}}
            mine == IF worker.shared /\ Inside(r) THEN [job EXCEPT ![r].prompts = prompts] ELSE job
        IN  /\ context' = Added(Added(context, prompts), answer)
            /\ calls' = calls + Cardinality(new)
            /\ IF Waits(worker)
               THEN /\ Goto(r, "answered")
                    /\ job' = [mine EXCEPT ![r].got = new]
                    /\ said' = said \cup job[r].asked
                    /\ UNCHANGED late
               ELSE /\ job' = mine /\ late' = TRUE
                    /\ UNCHANGED <<pc, said>>
    /\ worker' = Idle /\ payload' = <<>>
    /\ first' \in {first, FALSE}
    /\ UNCHANGED <<queue, agent, interrupts, faults, lost, abandoned, unusual>>

Next ==
    \/ \E r \in Run :
          \/ Begin(r) \/ Ask(r) \/ Overflow(r) \/ Compressed(r) \/ CompressionFails(r)
          \/ Unanswered(r) \/ Timeout(r) \/ Cancelled(r) \/ Answered(r)
    \/ Interrupt \/ Start \/ Nothing \/ Answer

Spec == Init /\ [][Next]_vars

------------------------------------------------------------------------------
\* Properties

\* Each call has its one response before the user speaks again, and there is no
\* response without its call.
EachPaired(s) ==
    \A i \in DOMAIN s :
        /\ s[i].kind = "call" =>
            \E j \in DOMAIN s :
                /\ j > i /\ IsResponse(s[j]) /\ s[j].call = s[i].call
                /\ \A k \in i..j : ~IsUser(s[k])
        /\ IsResponse(s[i]) =>
            /\ \E j \in 1..(i - 1) : s[j] = Call(s[i].call)
            /\ \A j \in DOMAIN s : IsResponse(s[j]) /\ s[j].call = s[i].call => j = i

\* The model does not speak after a response while a call before it waits for its own.
Straight(s) ==
    \A i, j, k \in DOMAIN s :
        i < j /\ j < k /\ s[i].kind = "call" /\ IsResponse(s[j]) /\ IsAssistant(s[k]) =>
            \E n \in i..k : IsResponse(s[n]) /\ s[n].call = s[i].call

\* In what is sent, each call has one response, among those that follow the calls of
\* its message directly, and there is no response without its call: the interfaces
\* of the models refuse anything else.  Whatever overlaps and comes late, calls and
\* responses are paired; only an answer that comes late together with runs that
\* overlap or are stopped by force, or a round that is taken back, can leave a call
\* behind other messages.
PayloadPaired == EachPaired(payload) /\ ((late /\ unusual) \/ Straight(payload))

\* What a request that was answered has said, questions and results of calls, stays
\* in the context until a round is taken back or the context compressed, however
\* runs overlap, requests are repeated, and prompts are discarded, but for a notice
\* whose request brings nothing; and unless an answer came for nobody, no question
\* is in it twice.
SaidStays ==
    /\ said \subseteq Marks(Messages(context)) \cup Marks(worker.notices) \cup lost
    /\ late \/ LET messages == Messages(context)
               IN  \A i, j \in DOMAIN messages :
                      messages[i].kind = "text" /\ messages[i] = messages[j] => i = j

\* The normalisation is a last resort: as long as runs follow one another and no
\* answer comes late, failed requests, retries and compressions leave each call to
\* be answered by its own response, and no response to be told as a notice.  What it
\* has to close are only calls that a compression let go and then failed to take from
\* the context, or that a response cut off in its handling left without a task.
ResultsAreResponses ==
    late \/ unusual \/ \A i \in DOMAIN payload :
        /\ payload[i].kind # "notice"
        /\ payload[i].kind = "missing" => payload[i].call \in abandoned
=============================================================================
