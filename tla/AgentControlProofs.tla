------------------------- MODULE AgentControlProofs -------------------------
(***************************************************************************)
(* What AgentControl promises, for any number of users, reviews, callback  *)
(* collectors and calls.                                                   *)
(***************************************************************************)
EXTENDS AgentControl, FiniteSetTheorems, SequenceTheorems, TLAPS

\* While runs have not overlapped, one is inside; what it still handles is open, and
\* while it compresses there is nothing to answer.
Alone ==
  ~overlapped =>
    /\ \A r, s \in Inside : r = s
    /\ \A r \in Inside : pc[r] = "handle" => todo[r] \subseteq Open
    /\ \A r \in Inside : pc[r] = "comp" => last_call_ids = {}
    /\ last_call_ids \subseteq Open

IInv ==
  /\ TypeOK
  /\ GateIsHeld
  /\ OneCollector
  /\ ReactIsBounded
  /\ Alone

-----------------------------------------------------------------------------
(* Types *)

LEMMA FrontType ==
  ASSUME NEW S, NEW s \in Seq(S), s # <<>>
  PROVE  SubSeq(s, 1, Len(s) - 1) \in Seq(S)
<1> DEFINE n == Len(s) - 1
<1>1. n \in Int BY EmptySeq
<1>2. \A i \in 1 .. n : s[i] \in S BY <1>1, ElementOfSeq
<1> HIDE DEF n
<1>3. SubSeq(s, 1, n) \in Seq(S)
  BY <1>1, <1>2, SubSeqProperties
<1> QED BY <1>3 DEF n

LEMMA RoundAdded ==
  ASSUME TypeOK, NEW new \in SUBSET Calls, AddRound(new)
  PROVE  /\ window' \in Seq(SUBSET Calls) /\ window' # <<>>
         /\ window'[Len(window')] = new /\ answered' \in BOOLEAN
<1>1. window \in Seq(SUBSET Calls) BY DEF TypeOK
<1>2. answered' \in BOOLEAN BY DEF AddRound
<1>3. CASE Extends
  <2>1. window' = Append(window, new) BY <1>3 DEF AddRound
  <2> QED BY <1>1, <1>2, <2>1, AppendProperties
<1>4. CASE ~Extends
  <2>1. window' = [window EXCEPT ![Len(window)] = new] /\ window # <<>>
    BY <1>4 DEF AddRound, Extends
  <2>2. Len(window) \in 1 .. Len(window) BY <1>1, <2>1, EmptySeq, LenProperties
  <2> QED BY <1>1, <1>2, <2>1, <2>2, ExceptSeq
<1> QED BY <1>3, <1>4

\* The context after a step that keeps it or replaces it.
LEMMA WindowType ==
  ASSUME TypeOK, UNCHANGED windowVars \/ Replaced
  PROVE  window' \in Seq(SUBSET Calls) /\ late' \in Nat /\ answered' \in BOOLEAN
<1>1. CASE UNCHANGED windowVars
  <2>1. window' = window /\ late' = late /\ answered' = answered BY <1>1 DEF windowVars
  <2> QED BY <2>1 DEF TypeOK
<1>2. CASE Replaced
  BY <1>2 DEF Replaced
<1> QED BY <1>1, <1>2

LEMMA TypeInit == Init => TypeOK
<1> SUFFICES ASSUME Init PROVE TypeOK
  OBVIOUS
<1>1. window \in Seq(SUBSET Calls) BY DEF Init
<1>2. task \in [Calls -> {"none", "running", "done", "called"}] BY DEF Init
<1>3. /\ pc \in [Runners -> Places] /\ answered \in BOOLEAN /\ orphan \in BOOLEAN /\ late \in Nat
      /\ todo \in [Runners -> SUBSET Calls] /\ told \in [Runners -> SUBSET Calls]
  BY DEF Init, Places
<1>4. asks \in [Users \cup Reviews -> Nat] /\ faults \in Nat /\ interrupts \in Nat
  BY DEF Init
<1>5. woken \subseteq AtEvent \cup AtSuspend BY DEF Init
<1> QED BY <1>1, <1>2, <1>3, <1>4, <1>5 DEF Init, TypeOK

LEMMA TypeStep == TypeOK /\ [Next]_vars => TypeOK'
<1> SUFFICES ASSUME TypeOK, [Next]_vars PROVE TypeOK'
  OBVIOUS
<1> USE ControlAssumption DEF TypeOK, Places, Runners, Selves, AtEvent, AtSuspend
<1>1. ASSUME NEW r \in Runners, Call(r) PROVE TypeOK'
  BY <1>1 DEF Call, Goto, Entry, limitVars, callVars, windowVars, mergeVars, histVars
<1>2. ASSUME NEW r \in Runners, Held(r) PROVE TypeOK'
  BY <1>2 DEF Held, Goto, limitVars, callVars, windowVars, mergeVars, histVars, countVars
<1>3. ASSUME NEW r \in Runners, Enter(r) PROVE TypeOK'
  <2>1. /\ last_call_ids' \subseteq Calls /\ window' \in Seq(SUBSET Calls)
        /\ retry_times' \in Nat /\ answered' \in BOOLEAN /\ late' \in Nat
    <3>1. RollBack BY <1>3 DEF Enter
    <3>2. CASE retry_times >= RollbackAt /\ window # <<>>
      <4>1. SubSeq(window, 1, Len(window) - 1) \in Seq(SUBSET Calls) BY <3>2, FrontType
      <4>2. /\ window' = SubSeq(window, 1, Len(window) - 1) /\ last_call_ids' = {}
            /\ retry_times' = 0 /\ answered' = TRUE /\ late' = 0
        BY <3>1, <3>2, Zenon DEF RollBack, Detached
      <4> QED BY <4>1, <4>2
    <3>3. CASE ~(retry_times >= RollbackAt /\ window # <<>>)
      BY <3>1, <3>3 DEF RollBack, windowVars
    <3> QED BY <3>2, <3>3
  <2>2. suspending' \in BOOLEAN /\ react_times' \in Nat
    <3>1. Resume(r) BY <1>3 DEF Enter
    <3>2. CASE r \in Users
      <4>1. suspending' = FALSE /\ react_times' = 0 BY <3>1, <3>2, Zenon DEF Resume
      <4> QED BY <4>1
    <3>3. CASE r \notin Users BY <3>1, <3>3 DEF Resume
    <3> QED BY <3>2, <3>3
  <2>3. /\ event' \in BOOLEAN /\ pc' \in [Runners -> Places]
        /\ woken' \subseteq (AtEvent \cup AtSuspend)'
    <3>1. CASE HasPrompts(r) /\ MayReact(r) /\ ~suspending'
      BY <1>3, <3>1, ZenonT(60) DEF Enter, Goto
    <3>2. CASE ~(HasPrompts(r) /\ MayReact(r) /\ ~suspending')
      BY <1>3, <3>2, ZenonT(60) DEF Enter, Refused, OpenGate, Goto
    <3> QED BY <3>1, <3>2
  <2>4. told' \in [Runners -> SUBSET Calls] /\ overlapped' \in BOOLEAN
    BY <1>3 DEF Enter, Finished
  <2> QED
    BY <1>3, <2>1, <2>2, <2>3, <2>4 DEF Enter, mergeVars, countVars
<1>4. ASSUME NEW r \in Runners, Answered(r) PROVE TypeOK'
  <2>1. PICK new \in SUBSET Fresh : todo' = [todo EXCEPT ![r] = new] /\ AddRound(new)
    BY <1>4 DEF Answered
  <2>2. new \in SUBSET Calls BY <2>1 DEF Fresh
  <2>3. window' \in Seq(SUBSET Calls) /\ answered' \in BOOLEAN BY <2>1, <2>2, RoundAdded
  <2> QED BY <1>4, <2>1, <2>2, <2>3 DEF Answered, Goto, mergeVars, countVars
<1>5. ASSUME NEW r \in Runners, Failed(r) PROVE TypeOK'
  BY <1>5 DEF Failed, CountFault, LeaveRequest, OpenGate, Goto, windowVars, mergeVars, histVars
<1>6. ASSUME NEW r \in Runners, Overflow(r) PROVE TypeOK'
  BY <1>6 DEF Overflow, CountFault, Detached, Goto, limitVars, windowVars, mergeVars, histVars
<1>17. ASSUME NEW r \in Runners, Retry(r) PROVE TypeOK'
  BY <1>17 DEF Retry, CountFault, LeaveRequest, gateVars, limitVars, windowVars, mergeVars, histVars
<1>18. CASE LateAnswer
  <2>1. /\ window' \in Seq(SUBSET Calls) /\ late' \in Nat /\ answered' \in BOOLEAN
    <3>1. CASE UNCHANGED windowVars BY <3>1, WindowType
    <3>2. CASE ~UNCHANGED windowVars
      <4>1. /\ window' = IF Extends THEN Append(window, {}) ELSE window
            /\ late' = IF Extends THEN late + 1 ELSE late
            /\ answered' \in BOOLEAN
        BY <1>18, <3>2 DEF LateAnswer
      <4>2. {} \in SUBSET Calls /\ window \in Seq(SUBSET Calls) OBVIOUS
      <4>3. Append(window, {}) \in Seq(SUBSET Calls) BY <4>2, AppendProperties
      <4> QED BY <4>1, <4>2, <4>3
    <3> QED BY <3>1, <3>2
  <2> QED
    BY <1>18, <2>1 DEF LateAnswer, gateVars, limitVars, mergeVars, histVars, countVars
<1>19. ASSUME NEW r \in Runners, Compressed(r) PROVE TypeOK'
  <2>1. /\ event' \in BOOLEAN /\ pc' \in [Runners -> Places]
        /\ woken' \subseteq (AtEvent \cup AtSuspend)'
        /\ told' \in [Runners -> SUBSET Calls]
    <3>1. CASE suspending
      <4>1. /\ event' = TRUE /\ woken' = (woken \cup AtEvent) \ {r} /\ Goto(r, "idle")
            /\ told' = [told EXCEPT ![r] = {}] /\ pc[r] = "comp"
        BY <1>19, <3>1, Zenon DEF Compressed, OpenGate
      <4>2. pc' \in [Runners -> Places] /\ told' \in [Runners -> SUBSET Calls]
        BY <4>1 DEF Goto
      <4>3. woken' \subseteq (AtEvent \cup AtSuspend)' BY <4>1 DEF Goto
      <4> QED BY <4>1, <4>2, <4>3
    <3>2. CASE ~suspending BY <1>19, <3>2 DEF Compressed, Goto
    <3> QED BY <3>1, <3>2
  <2> QED BY <1>19, <2>1 DEF Compressed, Replaced, limitVars, mergeVars, histVars, countVars
<1>20. ASSUME NEW r \in Runners, CompressFailed(r) PROVE TypeOK'
  <2>1. window' \in Seq(SUBSET Calls) /\ late' \in Nat /\ answered' \in BOOLEAN
    BY <1>20, WindowType DEF CompressFailed
  <2> QED
    BY <1>20, <2>1
    DEF CompressFailed, CountFault, OpenGate, Goto, limitVars, mergeVars, histVars
<1>7. ASSUME NEW r \in Runners, NEW c \in Calls, Handle(r, c) PROVE TypeOK'
  BY <1>7 DEF Handle, gateVars, limitVars, windowVars, mergeVars, histVars, countVars
<1>8. ASSUME NEW r \in Runners, HandleEnd(r) PROVE TypeOK'
  BY <1>8 DEF HandleEnd, OpenGate, Goto, limitVars, windowVars, mergeVars, histVars, countVars
<1>9. ASSUME NEW c \in Calls, TaskEnds(c) PROVE TypeOK'
  BY <1>9 DEF TaskEnds, gateVars, limitVars, callVars, windowVars, mergeVars, histVars, countVars
<1>10. ASSUME NEW c \in Calls, NEW r \in Leaders, Merge(c, r) PROVE TypeOK'
  BY <1>10 DEF Merge, Lead, Goto, limitVars, callVars, windowVars, histVars, countVars
<1>11. ASSUME NEW r \in Leaders, MergeResumed(r) PROVE TypeOK'
  BY <1>11 DEF MergeResumed, Goto, limitVars, callVars, windowVars, mergeVars, histVars, countVars
<1>12. ASSUME NEW r \in Leaders, MergePause(r) PROVE TypeOK'
  BY <1>12 DEF MergePause, Goto, limitVars, callVars, windowVars, mergeVars, histVars, countVars
<1>13. ASSUME NEW r \in Leaders, MergeTake(r) PROVE TypeOK'
  BY <1>13 DEF MergeTake, Goto, Entry, Emptied, limitVars, callVars, windowVars, histVars, countVars
<1>14. ASSUME NEW r \in Leaders, MergeTimeout(r) PROVE TypeOK'
  <2>1. /\ window' \in Seq(SUBSET Calls) /\ late' \in Nat /\ answered' \in BOOLEAN
        /\ orphan' \in BOOLEAN /\ faults' \in Nat
    <3>1. UNCHANGED windowVars \/ Replaced BY <1>14 DEF MergeTimeout
    <3>2. IF pc[r] = "ask" THEN orphan' = TRUE ELSE orphan' = orphan
      BY <1>14, Zenon DEF MergeTimeout, LeaveRequest
    <3>3. orphan' \in BOOLEAN BY <3>2, Zenon
    <3>4. CountFault(r) BY <1>14 DEF MergeTimeout
    <3>5. faults' \in Nat BY <3>4 DEF CountFault
    <3> QED BY <3>1, <3>3, <3>5, WindowType
  <2>2. /\ event' \in BOOLEAN /\ pc' \in [Runners -> Places]
        /\ woken' \subseteq (AtEvent \cup AtSuspend)'
    <3>1. CASE r \in Inside
      BY <1>14, <3>1 DEF MergeTimeout, OpenGate, Goto
    <3>2. CASE r \notin Inside
      BY <1>14, <3>2 DEF MergeTimeout, Goto
    <3> QED BY <3>1, <3>2
  <2> QED BY <1>14, <2>1, <2>2 DEF MergeTimeout, limitVars, mergeVars, histVars
<1>15. CASE interrupt_control
  <2>1. /\ suspending' = TRUE /\ event' = TRUE /\ woken' = woken \cup AtEvent
        /\ interrupts' = interrupts + 1
        /\ UNCHANGED <<limitVars, last_call_ids, windowVars, todo, mergeVars, task, histVars,
                       asks, faults>>
    BY <1>15 DEF interrupt_control
  <2>2. \/ UNCHANGED <<pc, told, orphan>>
        \/ \E r \in Runners : /\ pc[r] = "ask" /\ Goto(r, "idle")
                              /\ told' = [told EXCEPT ![r] = {}] /\ orphan' = TRUE
    BY <1>15, Zenon DEF interrupt_control, LeaveRequest
  <2>3. /\ pc' \in [Runners -> Places] /\ told' \in [Runners -> SUBSET Calls]
        /\ AtEvent \subseteq AtEvent' /\ AtSuspend \subseteq AtSuspend'
        /\ orphan' \in BOOLEAN
    <3>1. CASE UNCHANGED <<pc, told, orphan>> BY <3>1
    <3>2. ASSUME NEW r \in Runners, pc[r] = "ask", Goto(r, "idle"),
                 told' = [told EXCEPT ![r] = {}], orphan' = TRUE
          PROVE  /\ pc' \in [Runners -> Places] /\ told' \in [Runners -> SUBSET Calls]
                 /\ AtEvent \subseteq AtEvent' /\ AtSuspend \subseteq AtSuspend'
                 /\ orphan' \in BOOLEAN
      BY <3>2 DEF Goto
    <3> QED BY <2>2, <3>1, <3>2
  <2> QED BY <2>1, <2>3 DEF limitVars, windowVars, mergeVars, histVars
<1>16. CASE UNCHANGED vars
  BY <1>16 DEF vars, gateVars, limitVars, callVars, windowVars, mergeVars, histVars, countVars
<1> QED
  BY <1>1, <1>2, <1>3, <1>4, <1>5, <1>6, <1>7, <1>8, <1>9, <1>10, <1>11, <1>12, <1>13,
     <1>14, <1>15, <1>16, <1>17, <1>18, <1>19, <1>20
  DEF Next, Run, Collect

-----------------------------------------------------------------------------
(* The gate *)

LEMMA GateStep == TypeOK /\ GateIsHeld /\ [Next]_vars => GateIsHeld'
<1> SUFFICES ASSUME TypeOK, GateIsHeld, [Next]_vars PROVE GateIsHeld'
  OBVIOUS
<1> USE DEF TypeOK, GateIsHeld, Inside, Runners, Selves
<1>1. ASSUME NEW r \in Runners, Call(r) PROVE GateIsHeld'
  BY <1>1 DEF Call, Goto, Entry
<1>2. ASSUME NEW r \in Runners, Held(r) PROVE GateIsHeld'
  BY <1>2 DEF Held, Goto
<1>3. ASSUME NEW r \in Runners, Enter(r) PROVE GateIsHeld'
  <2>1. CASE pc' = [pc EXCEPT ![r] = "ask"]
    BY <1>3, <2>1 DEF Enter
  <2>2. CASE event' /\ pc' = [pc EXCEPT ![r] = "idle"]
    BY <1>3, <2>2 DEF Enter
  <2> QED BY <1>3, <2>1, <2>2 DEF Enter, Refused, OpenGate, Goto
<1>4. ASSUME NEW r \in Runners, Answered(r) PROVE GateIsHeld'
  BY <1>4 DEF Answered, Goto
<1>5. ASSUME NEW r \in Runners, Failed(r) PROVE GateIsHeld'
  BY <1>5 DEF Failed, OpenGate, Goto
<1>6. ASSUME NEW r \in Runners, Overflow(r) PROVE GateIsHeld'
  BY <1>6 DEF Overflow, Goto
<1>17. ASSUME NEW r \in Runners, Retry(r) PROVE GateIsHeld'
  BY <1>17 DEF Retry, gateVars
<1>18. CASE LateAnswer
  BY <1>18 DEF LateAnswer, gateVars
<1>19. ASSUME NEW r \in Runners, Compressed(r) PROVE GateIsHeld'
  BY <1>19 DEF Compressed, OpenGate, Goto
<1>20. ASSUME NEW r \in Runners, CompressFailed(r) PROVE GateIsHeld'
  BY <1>20 DEF CompressFailed, OpenGate, Goto
<1>7. ASSUME NEW r \in Runners, NEW c \in Calls, Handle(r, c) PROVE GateIsHeld'
  BY <1>7 DEF Handle, gateVars
<1>8. ASSUME NEW r \in Runners, HandleEnd(r) PROVE GateIsHeld'
  BY <1>8 DEF HandleEnd, OpenGate, Goto
<1>9. ASSUME NEW c \in Calls, TaskEnds(c) PROVE GateIsHeld'
  BY <1>9 DEF TaskEnds, gateVars
<1>10. ASSUME NEW c \in Calls, NEW r \in Leaders, Merge(c, r) PROVE GateIsHeld'
  BY <1>10 DEF Merge, Goto
<1>11. ASSUME NEW r \in Leaders, MergeResumed(r) PROVE GateIsHeld'
  BY <1>11 DEF MergeResumed, Goto
<1>12. ASSUME NEW r \in Leaders, MergePause(r) PROVE GateIsHeld'
  BY <1>12 DEF MergePause, Goto
<1>13. ASSUME NEW r \in Leaders, MergeTake(r) PROVE GateIsHeld'
  BY <1>13 DEF MergeTake, Goto, Entry
<1>14. ASSUME NEW r \in Leaders, MergeTimeout(r) PROVE GateIsHeld'
  BY <1>14 DEF MergeTimeout, OpenGate, Goto
<1>15. CASE interrupt_control
  BY <1>15 DEF interrupt_control
<1>16. CASE UNCHANGED vars
  BY <1>16 DEF vars, gateVars
<1> QED
  BY <1>1, <1>2, <1>3, <1>4, <1>5, <1>6, <1>7, <1>8, <1>9, <1>10, <1>11, <1>12, <1>13,
     <1>14, <1>15, <1>16, <1>17, <1>18, <1>19, <1>20
  DEF Next, Run, Collect

-----------------------------------------------------------------------------
(* The collector *)

LEMMA CollectorStep == TypeOK /\ OneCollector /\ [Next]_vars => OneCollector'
<1> SUFFICES ASSUME TypeOK, OneCollector, [Next]_vars PROVE OneCollector'
  OBVIOUS
<1> USE DEF TypeOK, OneCollector, Collecting, Runners, Selves
<1>1. ASSUME NEW r \in Runners, Call(r) PROVE OneCollector'
  BY <1>1 DEF Call, Goto, Entry, mergeVars
<1>2. ASSUME NEW r \in Runners, Held(r) PROVE OneCollector'
  BY <1>2 DEF Held, Goto, mergeVars
<1>3. ASSUME NEW r \in Runners, Enter(r) PROVE OneCollector'
  BY <1>3 DEF Enter, Refused, OpenGate, Goto, mergeVars
<1>4. ASSUME NEW r \in Runners, Answered(r) PROVE OneCollector'
  BY <1>4 DEF Answered, Goto, mergeVars
<1>5. ASSUME NEW r \in Runners, Failed(r) PROVE OneCollector'
  BY <1>5 DEF Failed, OpenGate, Goto, mergeVars
<1>6. ASSUME NEW r \in Runners, Overflow(r) PROVE OneCollector'
  BY <1>6 DEF Overflow, Goto, mergeVars
<1>17. ASSUME NEW r \in Runners, Retry(r) PROVE OneCollector'
  BY <1>17 DEF Retry, gateVars, mergeVars
<1>18. CASE LateAnswer
  BY <1>18 DEF LateAnswer, gateVars, mergeVars
<1>19. ASSUME NEW r \in Runners, Compressed(r) PROVE OneCollector'
  BY <1>19 DEF Compressed, OpenGate, Goto, mergeVars
<1>20. ASSUME NEW r \in Runners, CompressFailed(r) PROVE OneCollector'
  BY <1>20 DEF CompressFailed, OpenGate, Goto, mergeVars
<1>7. ASSUME NEW r \in Runners, NEW c \in Calls, Handle(r, c) PROVE OneCollector'
  BY <1>7 DEF Handle, gateVars, mergeVars
<1>8. ASSUME NEW r \in Runners, HandleEnd(r) PROVE OneCollector'
  BY <1>8 DEF HandleEnd, OpenGate, Goto, mergeVars
<1>9. ASSUME NEW c \in Calls, TaskEnds(c) PROVE OneCollector'
  BY <1>9 DEF TaskEnds, gateVars, mergeVars
<1>10. ASSUME NEW c \in Calls, NEW r \in Leaders, Merge(c, r) PROVE OneCollector'
  <2>1. CASE Lead(r) BY <1>10, <2>1 DEF Merge, Lead, Goto
  <2>2. CASE ~Lead(r) BY <1>10, <2>2 DEF Merge, Lead
  <2> QED BY <2>1, <2>2
<1>11. ASSUME NEW r \in Leaders, MergeResumed(r) PROVE OneCollector'
  BY <1>11 DEF MergeResumed, Goto, mergeVars
<1>12. ASSUME NEW r \in Leaders, MergePause(r) PROVE OneCollector'
  BY <1>12 DEF MergePause, Goto, mergeVars
<1>13. ASSUME NEW r \in Leaders, MergeTake(r) PROVE OneCollector'
  BY <1>13 DEF MergeTake, Goto, Entry, Emptied
<1>14. ASSUME NEW r \in Leaders, MergeTimeout(r) PROVE OneCollector'
  BY <1>14 DEF MergeTimeout, OpenGate, Goto, mergeVars
<1>15. CASE interrupt_control
  BY <1>15 DEF interrupt_control, Goto, mergeVars
<1>16. CASE UNCHANGED vars
  BY <1>16 DEF vars, gateVars, mergeVars
<1> QED
  BY <1>1, <1>2, <1>3, <1>4, <1>5, <1>6, <1>7, <1>8, <1>9, <1>10, <1>11, <1>12, <1>13,
     <1>14, <1>15, <1>16, <1>17, <1>18, <1>19, <1>20
  DEF Next, Run, Collect

-----------------------------------------------------------------------------
(* The limit of self requests *)

LEMMA AskingCount ==
  /\ IsFiniteSet(AskingSelves)
  /\ Cardinality(Selves) \in Nat
  /\ Cardinality(AskingSelves) \in Nat /\ Cardinality(AskingSelves) <= Cardinality(Selves)
  /\ IsFiniteSet(AskingSelves')
  /\ Cardinality(AskingSelves') \in Nat /\ Cardinality(AskingSelves') <= Cardinality(Selves)
<1>1. AskingSelves \subseteq Selves /\ AskingSelves' \subseteq Selves
  BY DEF AskingSelves
<1> QED BY <1>1, ControlAssumption, FS_Subset, FS_CardinalityType

\* Nobody new asks, and nothing is counted.
LEMMA Fewer ==
  ASSUME TypeOK, ReactIsBounded,
         AskingSelves' \subseteq AskingSelves, react_times' = react_times
  PROVE  ReactIsBounded'
<1>1. Cardinality(AskingSelves') <= Cardinality(AskingSelves)
  BY AskingCount, FS_Subset
<1> QED BY <1>1, AskingCount, ControlAssumption DEF ReactIsBounded, TypeOK

LEMMA ReactStep == TypeOK /\ ReactIsBounded /\ [Next]_vars => ReactIsBounded'
<1> SUFFICES ASSUME TypeOK, ReactIsBounded, [Next]_vars PROVE ReactIsBounded'
  OBVIOUS
<1> USE ControlAssumption DEF TypeOK, Runners
<1>1. ASSUME NEW r \in Runners, Call(r) PROVE ReactIsBounded'
  <2>1. AskingSelves' \subseteq AskingSelves /\ react_times' = react_times
    BY <1>1 DEF Call, Goto, Entry, limitVars, AskingSelves
  <2> QED BY <2>1, Fewer
<1>2. ASSUME NEW r \in Runners, Held(r) PROVE ReactIsBounded'
  <2>1. AskingSelves' \subseteq AskingSelves /\ react_times' = react_times
    BY <1>2 DEF Held, Goto, limitVars, AskingSelves
  <2> QED BY <2>1, Fewer
<1>3. ASSUME NEW r \in Runners, Enter(r) PROVE ReactIsBounded'
  <2>1. Resume(r) BY <1>3 DEF Enter
  <2>2. react_times' \in Nat BY <1>3, TypeStep DEF Next, Run
  <2>3. CASE r \in Users
    <3>1. react_times' = 0 BY <2>1, <2>3, Zenon DEF Resume
    <3>2. Cardinality(AskingSelves') \in Nat /\ Cardinality(AskingSelves') <= Cardinality(Selves)
      BY AskingCount
    <3> QED BY <3>1, <3>2, AskingCount DEF ReactIsBounded
  <2>4. CASE r \notin Users /\ react_times' < MaxReact
    <3>1. Cardinality(AskingSelves') \in Nat /\ Cardinality(AskingSelves') <= Cardinality(Selves)
      BY AskingCount
    <3> QED BY <2>2, <2>4, <3>1, AskingCount DEF ReactIsBounded
  <2>5. CASE r \notin Users /\ ~(react_times' < MaxReact)
    <3>1. Refused(r) BY <1>3, <2>5 DEF Enter, MayReact
    <3>2. react_times' = react_times BY <2>1, <2>5, Zenon DEF Resume
    <3>3. AskingSelves' \subseteq AskingSelves
      BY <3>1 DEF Refused, OpenGate, Goto, AskingSelves
    <3> QED BY <3>2, <3>3, Fewer
  <2> QED BY <2>2, <2>3, <2>4, <2>5
<1>4. ASSUME NEW r \in Runners, Answered(r) PROVE ReactIsBounded'
  <2>1. CASE r \in Selves
    <3>1. AskingSelves' = AskingSelves \ {r} /\ r \in AskingSelves /\ react_times' = react_times + 1
      BY <1>4, <2>1 DEF Answered, Goto, AskingSelves
    <3>2. Cardinality(AskingSelves') = Cardinality(AskingSelves) - 1
      BY <3>1, AskingCount, FS_RemoveElement
    <3> QED BY <3>1, <3>2, AskingCount DEF ReactIsBounded
  <2>2. CASE r \notin Selves
    <3>1. AskingSelves' \subseteq AskingSelves /\ react_times' = react_times
      BY <1>4, <2>2 DEF Answered, Goto, AskingSelves
    <3> QED BY <3>1, Fewer
  <2> QED BY <2>1, <2>2
<1>5. ASSUME NEW r \in Runners, Failed(r) PROVE ReactIsBounded'
  <2>1. AskingSelves' \subseteq AskingSelves /\ react_times' = react_times
    BY <1>5 DEF Failed, OpenGate, Goto, AskingSelves
  <2> QED BY <2>1, Fewer
<1>6. ASSUME NEW r \in Runners, Overflow(r) PROVE ReactIsBounded'
  <2>1. AskingSelves' \subseteq AskingSelves /\ react_times' = react_times
    BY <1>6 DEF Overflow, Goto, limitVars, AskingSelves
  <2> QED BY <2>1, Fewer
<1>17. ASSUME NEW r \in Runners, Retry(r) PROVE ReactIsBounded'
  <2>1. AskingSelves' \subseteq AskingSelves /\ react_times' = react_times
    BY <1>17 DEF Retry, gateVars, limitVars, AskingSelves
  <2> QED BY <2>1, Fewer
<1>18. CASE LateAnswer
  <2>1. AskingSelves' \subseteq AskingSelves /\ react_times' = react_times
    BY <1>18 DEF LateAnswer, gateVars, limitVars, AskingSelves
  <2> QED BY <2>1, Fewer
<1>19. ASSUME NEW r \in Runners, Compressed(r) PROVE ReactIsBounded'
  <2>1. AskingSelves' \subseteq AskingSelves /\ react_times' = react_times
    BY <1>19 DEF Compressed, OpenGate, Goto, limitVars, AskingSelves
  <2> QED BY <2>1, Fewer
<1>20. ASSUME NEW r \in Runners, CompressFailed(r) PROVE ReactIsBounded'
  <2>1. AskingSelves' \subseteq AskingSelves /\ react_times' = react_times
    BY <1>20 DEF CompressFailed, OpenGate, Goto, limitVars, AskingSelves
  <2> QED BY <2>1, Fewer
<1>7. ASSUME NEW r \in Runners, NEW c \in Calls, Handle(r, c) PROVE ReactIsBounded'
  <2>1. AskingSelves' \subseteq AskingSelves /\ react_times' = react_times
    BY <1>7 DEF Handle, gateVars, limitVars, AskingSelves
  <2> QED BY <2>1, Fewer
<1>8. ASSUME NEW r \in Runners, HandleEnd(r) PROVE ReactIsBounded'
  <2>1. AskingSelves' \subseteq AskingSelves /\ react_times' = react_times
    BY <1>8 DEF HandleEnd, OpenGate, Goto, limitVars, AskingSelves
  <2> QED BY <2>1, Fewer
<1>9. ASSUME NEW c \in Calls, TaskEnds(c) PROVE ReactIsBounded'
  <2>1. AskingSelves' \subseteq AskingSelves /\ react_times' = react_times
    BY <1>9 DEF TaskEnds, gateVars, limitVars, AskingSelves
  <2> QED BY <2>1, Fewer
<1>10. ASSUME NEW c \in Calls, NEW r \in Leaders, Merge(c, r) PROVE ReactIsBounded'
  <2>1. AskingSelves' \subseteq AskingSelves /\ react_times' = react_times
    BY <1>10 DEF Merge, Goto, limitVars, AskingSelves
  <2> QED BY <2>1, Fewer
<1>11. ASSUME NEW r \in Leaders, MergeResumed(r) PROVE ReactIsBounded'
  <2>1. AskingSelves' \subseteq AskingSelves /\ react_times' = react_times
    BY <1>11 DEF MergeResumed, Goto, limitVars, AskingSelves
  <2> QED BY <2>1, Fewer
<1>12. ASSUME NEW r \in Leaders, MergePause(r) PROVE ReactIsBounded'
  <2>1. AskingSelves' \subseteq AskingSelves /\ react_times' = react_times
    BY <1>12 DEF MergePause, Goto, limitVars, AskingSelves
  <2> QED BY <2>1, Fewer
<1>13. ASSUME NEW r \in Leaders, MergeTake(r) PROVE ReactIsBounded'
  <2>1. AskingSelves' \subseteq AskingSelves /\ react_times' = react_times
    BY <1>13 DEF MergeTake, Goto, Entry, limitVars, AskingSelves
  <2> QED BY <2>1, Fewer
<1>14. ASSUME NEW r \in Leaders, MergeTimeout(r) PROVE ReactIsBounded'
  <2>1. AskingSelves' \subseteq AskingSelves /\ react_times' = react_times
    BY <1>14 DEF MergeTimeout, OpenGate, Goto, limitVars, AskingSelves
  <2> QED BY <2>1, Fewer
<1>15. CASE interrupt_control
  <2>1. AskingSelves' \subseteq AskingSelves /\ react_times' = react_times
    BY <1>15 DEF interrupt_control, Goto, limitVars, AskingSelves
  <2> QED BY <2>1, Fewer
<1>16. CASE UNCHANGED vars
  <2>1. AskingSelves' \subseteq AskingSelves /\ react_times' = react_times
    BY <1>16 DEF vars, gateVars, limitVars, AskingSelves
  <2> QED BY <2>1, Fewer
<1> QED
  BY <1>1, <1>2, <1>3, <1>4, <1>5, <1>6, <1>7, <1>8, <1>9, <1>10, <1>11, <1>12, <1>13,
     <1>14, <1>15, <1>16, <1>17, <1>18, <1>19, <1>20
  DEF Next, Run, Collect

-----------------------------------------------------------------------------
(* The calls of the last response *)

LEMMA AloneStep == TypeOK /\ Alone /\ [Next]_vars => Alone'
<1> SUFFICES ASSUME TypeOK, Alone, [Next]_vars PROVE Alone'
  OBVIOUS
<1> USE DEF TypeOK, Alone, Inside, Open, Runners, Selves
<1>1. ASSUME NEW r \in Runners, Call(r) PROVE Alone'
  BY <1>1 DEF Call, Goto, Entry, callVars, windowVars, histVars
<1>2. ASSUME NEW r \in Runners, Held(r) PROVE Alone'
  BY <1>2 DEF Held, Goto, callVars, windowVars, histVars
<1>3. ASSUME NEW r \in Runners, Enter(r) PROVE Alone'
  <2>1. CASE Inside # {}
    BY <1>3, <2>1 DEF Enter
  <2>2. CASE Inside = {} /\ ~overlapped
    <3>1. Inside' \subseteq {r} /\ \A q \in Inside' : pc'[q] = "ask"
      BY <1>3, <2>2 DEF Enter, Refused, OpenGate, Goto
    <3>2. last_call_ids' \subseteq Open'
      <4>1. RollBack BY <1>3 DEF Enter
      <4> QED BY <2>2, <4>1 DEF RollBack, Detached, windowVars
    <3> QED BY <3>1, <3>2
  <2>3. CASE overlapped
    BY <1>3, <2>3 DEF Enter
  <2> QED BY <2>1, <2>2, <2>3
<1>4. ASSUME NEW r \in Runners, Answered(r) PROVE Alone'
  <2>1. PICK new \in SUBSET Fresh : todo' = [todo EXCEPT ![r] = new] /\ AddRound(new)
    BY <1>4 DEF Answered
  <2>2. todo'[r] = Open'
    <3>1. /\ window' \in Seq(SUBSET Calls) /\ window' # <<>> /\ window'[Len(window')] = new
      BY <2>1, RoundAdded DEF Fresh
    <3>2. late' = 0 BY <1>4 DEF Answered
    <3>3. Len(window') \in Nat \ {0} BY <3>1, EmptySeq, LenProperties
    <3> QED BY <2>1, <3>1, <3>2, <3>3
  <2>3. last_call_ids' = {} /\ overlapped' = overlapped
    BY <1>4 DEF Answered
  <2>4. Inside' = Inside /\ r \in Inside /\ pc'[r] = "handle"
    BY <1>4 DEF Answered, Goto
  <2> QED BY <2>2, <2>3, <2>4
<1>5. ASSUME NEW r \in Runners, Failed(r) PROVE Alone'
  BY <1>5 DEF Failed, OpenGate, Goto, windowVars, histVars
<1>6. ASSUME NEW r \in Runners, Overflow(r) PROVE Alone'
  BY <1>6 DEF Overflow, Detached, Goto, windowVars, histVars
<1>17. ASSUME NEW r \in Runners, Retry(r) PROVE Alone'
  BY <1>17 DEF Retry, gateVars, windowVars, histVars
<1>18. CASE LateAnswer
  <2>1. Open' = Open
    <3>1. CASE UNCHANGED windowVars BY <3>1 DEF windowVars
    <3>2. CASE ~Extends /\ ~UNCHANGED windowVars BY <1>18, <3>2 DEF LateAnswer, windowVars
    <3>3. CASE Extends /\ ~UNCHANGED windowVars
      <4>1. window' = Append(window, {}) /\ late' = late + 1 BY <1>18, <3>3 DEF LateAnswer
      <4>2. Len(window') = Len(window) + 1 /\ \A i \in 1 .. Len(window) : window'[i] = window[i]
        BY <4>1, AppendProperties
      <4>3. Len(window) \in Nat BY LenProperties
      <4> QED BY <4>1, <4>2, <4>3
    <3> QED BY <3>1, <3>2, <3>3
  <2> QED BY <1>18, <2>1 DEF LateAnswer, gateVars, histVars
<1>19. ASSUME NEW r \in Runners, Compressed(r) PROVE Alone'
  <2>1. last_call_ids' = last_call_ids /\ overlapped' = overlapped /\ r \in Inside /\ pc[r] = "comp"
    BY <1>19 DEF Compressed, histVars
  <2>2. Inside' \subseteq Inside /\ (pc'[r] = "ask" \/ Inside' = Inside \ {r})
    BY <1>19 DEF Compressed, OpenGate, Goto
  <2> QED BY <2>1, <2>2
<1>20. ASSUME NEW r \in Runners, CompressFailed(r) PROVE Alone'
  <2>1. last_call_ids' = last_call_ids /\ overlapped' = overlapped /\ r \in Inside /\ pc[r] = "comp"
    BY <1>20 DEF CompressFailed, histVars
  <2>2. Inside' = Inside \ {r}
    BY <1>20 DEF CompressFailed, OpenGate, Goto
  <2> QED BY <2>1, <2>2
<1>7. ASSUME NEW r \in Runners, NEW c \in Calls, Handle(r, c) PROVE Alone'
  BY <1>7 DEF Handle, gateVars, windowVars, histVars
<1>8. ASSUME NEW r \in Runners, HandleEnd(r) PROVE Alone'
  BY <1>8 DEF HandleEnd, OpenGate, Goto, windowVars, histVars
<1>9. ASSUME NEW c \in Calls, TaskEnds(c) PROVE Alone'
  BY <1>9 DEF TaskEnds, gateVars, callVars, windowVars, histVars
<1>10. ASSUME NEW c \in Calls, NEW r \in Leaders, Merge(c, r) PROVE Alone'
  BY <1>10 DEF Merge, Goto, callVars, windowVars, histVars
<1>11. ASSUME NEW r \in Leaders, MergeResumed(r) PROVE Alone'
  BY <1>11 DEF MergeResumed, Goto, callVars, windowVars, histVars
<1>12. ASSUME NEW r \in Leaders, MergePause(r) PROVE Alone'
  BY <1>12 DEF MergePause, Goto, callVars, windowVars, histVars
<1>13. ASSUME NEW r \in Leaders, MergeTake(r) PROVE Alone'
  BY <1>13 DEF MergeTake, Goto, Entry, callVars, windowVars, histVars
<1>14. ASSUME NEW r \in Leaders, MergeTimeout(r) PROVE Alone'
  <2>1. /\ last_call_ids' = last_call_ids /\ overlapped' = overlapped
        /\ Inside' = Inside \ {r} /\ \A q \in Inside' : pc'[q] = pc[q] /\ todo'[q] = todo[q]
    BY <1>14 DEF MergeTimeout, OpenGate, Goto, histVars
  <2>2. CASE UNCHANGED windowVars
    BY <2>1, <2>2 DEF windowVars
  <2>3. CASE pc[r] = "comp"
    <3>1. r \in Inside BY <2>3
    <3> QED BY <2>1, <2>3, <3>1
  <2> QED BY <1>14, <2>2, <2>3 DEF MergeTimeout
<1>15. CASE interrupt_control
  BY <1>15 DEF interrupt_control, Goto, windowVars, histVars
<1>16. CASE UNCHANGED vars
  BY <1>16 DEF vars, gateVars, callVars, windowVars, histVars
<1> QED
  BY <1>1, <1>2, <1>3, <1>4, <1>5, <1>6, <1>7, <1>8, <1>9, <1>10, <1>11, <1>12, <1>13,
     <1>14, <1>15, <1>16, <1>17, <1>18, <1>19, <1>20
  DEF Next, Run, Collect

-----------------------------------------------------------------------------
LEMMA InvInit == Init => IInv
<1> SUFFICES ASSUME Init PROVE IInv
  OBVIOUS
<1>1. TypeOK BY TypeInit
<1>2. GateIsHeld /\ OneCollector BY DEF Init, GateIsHeld, OneCollector, Collecting, Selves, Runners
<1>3. ReactIsBounded
  <2>1. AskingSelves = {} BY DEF Init, AskingSelves, Runners
  <2> QED BY <2>1, AskingCount, FS_EmptySet, ControlAssumption DEF Init, ReactIsBounded
<1>4. Alone BY DEF Init, Alone, Inside
<1> QED BY <1>1, <1>2, <1>3, <1>4 DEF IInv

(* The inductive invariant: the types, the gate, the collector, the limit  *)
(* and the calls, each preserved by every step of run, handle_response,    *)
(* the callback merge and interrupt_control.                               *)
THEOREM Invariant == Spec => []IInv
<1>1. Init => IInv BY InvInit
<1>2. IInv /\ [Next]_vars => IInv'
  BY TypeStep, GateStep, CollectorStep, ReactStep, AloneStep DEF IInv
<1> QED BY <1>1, <1>2, PTL DEF Spec

\* The types of the control loop's state; who was woken still waits.
THEOREM TypeCorrect == Spec => []TypeOK
BY Invariant, PTL DEF IInv

\* A closed gate always has a run behind it, whichever way runs leave it.
THEOREM GateCorrect == Spec => []GateIsHeld
BY Invariant, PTL DEF IInv

\* The results that wait to be merged always have exactly one collector.
THEOREM CollectorCorrect == Spec => []OneCollector
BY Invariant, PTL DEF IInv

\* The self requests without the user stay within the limit and the overlap.
THEOREM ReactCorrect == Spec => []ReactIsBounded
BY Invariant, PTL DEF IInv

\* Without overlapping runs only calls the context still has are answered.
THEOREM AnswersCorrect == Spec => []AnswersAreOpen
<1>1. IInv => AnswersAreOpen BY DEF IInv, Alone, AnswersAreOpen
<1> QED BY <1>1, Invariant, PTL
=============================================================================
