------------------------- MODULE CallRuntimeProofs -------------------------
(***************************************************************************)
(* Proofs about CallRuntime, for every configuration, every number of      *)
(* turns and every combination of executors that the assumptions allow.    *)
(***************************************************************************)
EXTENDS CallRuntime, TLAPS

-----------------------------------------------------------------------------
(* The state machine's operators stay within their types. *)

\* add_turn keeps a conversation a conversation.
LEMMA AddTurnType ==
    ASSUME NEW c \in Conversation
    PROVE  AddTurn(c) \in Conversation /\ AddTurn(c).current = c.current
  BY DEF AddTurn, Conversation

\* apply_transition to a name of the configuration gives a conversation there.
LEMMA ApplyTransitionType ==
    ASSUME NEW c \in Conversation, NEW n \in StateNames
    PROVE  ApplyTransition(c, n) \in Conversation /\ ApplyTransition(c, n).current = n
  BY DEF ApplyTransition, Conversation

\* evaluate_transition only produces names of the configuration.
LEMMA EvaluateTransitionType ==
    ASSUME NEW c \in Conversation, NEW i \in Intents
    PROVE  EvaluateTransition(c, i) \in Transitions
  <1> DEFINE stay == [new |-> c.current, tool |-> "none", trigger |-> "none"]
             up   == [new |-> EscalateTo[c.current], tool |-> "none",
                      trigger |-> "max_turns_escalation"]
  <1>1. stay \in Transitions
    BY DEF Conversation, Transitions
  <1>2. c.current \in States => up \in Transitions
    BY ConfigAssumption DEF Transitions
  <1>3. c.current \in States /\ Target[c.current][i] # "none" => Routed(c, i) \in Transitions
    <2> SUFFICES ASSUME c.current \in States, Target[c.current][i] # "none"
                 PROVE  Routed(c, i) \in Transitions
      OBVIOUS
    <2> DEFINE dest == Target[c.current][i]
               base == IF IntentTool[i] \in Tools THEN "tool_call"
                       ELSE IF dest = "previous" THEN c.previous ELSE dest
               new  == IF Trigger[i] \in States THEN Trigger[i] ELSE base
    <2>1. dest \in StateNames \cup {"previous"}
      BY ConfigAssumption
    <2>2. base \in StateNames
      BY <2>1, ConfigAssumption DEF Conversation
    <2>3. new \in StateNames
      BY <2>2, ConfigAssumption
    <2>4. /\ IntentTool[i] \in ToolNames \cup {"none"}
          /\ Trigger[i] \in {"handoff", "graceful_exit", "none"}
      BY ConfigAssumption
    <2>5. Routed(c, i) = [new |-> new, tool |-> IntentTool[i], trigger |-> Trigger[i]]
      BY DEF Routed
    <2> QED
      BY <2>3, <2>4, <2>5 DEF Transitions
  <1> QED
    BY <1>1, <1>2, <1>3 DEF EvaluateTransition

-----------------------------------------------------------------------------
(* Steps shared by several actions. *)

\* Every phase the code writes is a phase.
LEMMA SetPhaseType ==
    ASSUME TypeOK, NEW p \in Phases, SetPhase(p)
    PROVE  phase' \in Phases /\ ended' \in BOOLEAN
  BY DEF SetPhase, TypeOK

\* A coroutine that ends, or enters the handoff, keeps its locals typed.
LEMMA FinishType ==
    ASSUME TypeOK, NEW t \in Turns, NEW l \in Running \cup Ended, Finish(t, l)
    PROVE  /\ pc' \in [Turns -> {"idle"} \cup Running \cup Ended]
           /\ transition' \in [Turns -> Transitions]
           /\ origin' \in [Turns -> StateNames]
           /\ shouldHandoff' \in [Turns -> BOOLEAN]
  <1>1. NoTransition \in Transitions /\ "initial" \in StateNames
    BY ConfigAssumption DEF NoTransition, Transitions
  <1> QED
    BY <1>1 DEF Finish, Goto, TypeOK

\* The end of _process_turn keeps the context and the locals typed.
LEMMA ConcludeType ==
    ASSUME TypeOK, NEW t \in Turns, NEW c \in Conversation, NEW tr, NEW h,
           Conclude(t, c, tr, h)
    PROVE  /\ conv' \in Conversation
           /\ phase' \in Phases
           /\ ended' \in BOOLEAN
           /\ pc' \in [Turns -> {"idle"} \cup Running \cup Ended]
           /\ transition' \in [Turns -> Transitions]
           /\ origin' \in [Turns -> StateNames]
           /\ shouldHandoff' \in [Turns -> BOOLEAN]
  <1>1. "handoff" \in StateNames
    BY ConfigAssumption
  <1>2. {"done", "bridge"} \subseteq Running \cup Ended
    BY DEF Running, Ended, HandoffPcs
  <1>3. CASE tr.trigger = "graceful_exit"
    BY <1>2, <1>3, FinishType, SetPhaseType DEF Conclude, Phases
  <1>4. CASE tr.trigger # "graceful_exit" /\ h
    BY <1>1, <1>2, <1>4, FinishType, SetPhaseType, ApplyTransitionType DEF Conclude, Phases
  <1>5. CASE tr.trigger # "graceful_exit" /\ ~h
    BY <1>2, <1>5, FinishType DEF Conclude, TypeOK
  <1> QED
    BY <1>3, <1>4, <1>5

\* Entering the tool bridge keeps the context typed and the turn running.
LEMMA EnterToolType ==
    ASSUME TypeOK, NEW t \in Turns, NEW k, EnterTool(t, k)
    PROVE  /\ phase' \in Phases
           /\ ended' \in BOOLEAN
           /\ pc' \in [Turns -> {"idle"} \cup Running \cup Ended]
           /\ toolResult' \in [Turns -> Results]
           /\ task' \in [Turns -> {"none", "created", "running", "returned", "cancelled"}]
  <1> USE DEF Results, Answers, Running, Goto, Phases
  <1>1. CASE k \notin Tools \/ k \in MissingOpId
    BY <1>1 DEF EnterTool, TypeOK
  <1>2. CASE ~(k \notin Tools \/ k \in MissingOpId) /\ phase = "EXITED"
    BY <1>2 DEF EnterTool, TypeOK
  <1>3. CASE ~(k \notin Tools \/ k \in MissingOpId) /\ phase # "EXITED" /\ k \in HasFiller
    BY <1>3 DEF EnterTool, SetPhase, TypeOK
  <1>4. CASE ~(k \notin Tools \/ k \in MissingOpId) /\ phase # "EXITED" /\ k \notin HasFiller
    BY <1>4 DEF EnterTool, SetPhase, TypeOK
  <1> QED
    BY <1>1, <1>2, <1>3, <1>4

\* The state a turn returns to is a state name.
LEMMA ReturnStateType ==
    ASSUME TypeOK, NEW t \in Turns
    PROVE  ReturnState(t) \in StateNames
  BY ConfigAssumption DEF ReturnState, TypeOK

\* Type correctness: in every configuration each variable of the call holds only
\* what the code can store in it.
THEOREM TypeCorrect == Spec => []TypeOK
  <1>1. Init => TypeOK
    <2> SUFFICES ASSUME Init PROVE TypeOK
      OBVIOUS
    <2>1. /\ "initial" \in StateNames
          /\ NoTransition \in Transitions
          /\ <<>> \in Seq(ReceiptStatus)
      BY ConfigAssumption DEF NoTransition, Transitions
    <2>2. conv \in Conversation
      BY <2>1 DEF Init, Conversation
    <2> QED
      BY <2>1, <2>2 DEF Init, TypeOK, Phases, Results
  <1>2. TypeOK /\ [Next]_vars => TypeOK'
    <2> SUFFICES ASSUME TypeOK, [Next]_vars PROVE TypeOK'
      OBVIOUS
    <2>1. CASE Close
      BY <2>1, SetPhaseType DEF Close, TypeOK, Phases, locals
    <2>2. ASSUME NEW t \in Turns, BeginTurn(t) PROVE TypeOK'
      BY <2>2 DEF BeginTurn, Goto, TypeOK, Running, Ended, locals, context
    <2>3. ASSUME NEW t \in Turns, ClassifierAnswers(t) PROVE TypeOK'
      <3> PICK i \in Intents : Classified(t, i)
        BY <2>3 DEF ClassifierAnswers
      <3> DEFINE c == AddTurn(conv)
                 tr == EvaluateTransition(c, i)
                 h == tr.new = "handoff" \/ tr.trigger = "handoff"
      <3>1. c \in Conversation /\ c.current \in StateNames
        BY AddTurnType DEF TypeOK, Conversation
      <3>2. tr \in Transitions /\ tr.new \in StateNames
        BY <3>1, EvaluateTransitionType DEF Transitions
      <3>3. ApplyTransition(c, tr.new) \in Conversation
        BY <3>1, <3>2, ApplyTransitionType
      <3>4. UNCHANGED <<toolResults, inflight, receipts, answer, sink, mode>>
        BY DEF Classified
      <3>5. CASE tr.tool # "none"
        <4>1. /\ conv' = ApplyTransition(c, tr.new)
              /\ transition' = [transition EXCEPT ![t] = tr]
              /\ origin' = [origin EXCEPT ![t] = c.current]
              /\ shouldHandoff' = [shouldHandoff EXCEPT ![t] = h]
              /\ EnterTool(t, tr.tool)
          BY <3>5 DEF Classified
        <4>2. /\ transition' \in [Turns -> Transitions]
              /\ origin' \in [Turns -> StateNames]
              /\ shouldHandoff' \in [Turns -> BOOLEAN]
          BY <4>1, <3>1, <3>2 DEF TypeOK
        <4> HIDE DEF c, tr, h
        <4> QED
          BY <4>1, <4>2, <3>3, <3>4, EnterToolType DEF TypeOK
      <3>6. CASE tr.tool = "none"
        <4>1. /\ Conclude(t, ApplyTransition(c, tr.new), tr, h)
              /\ UNCHANGED <<toolResult, task>>
          BY <3>6 DEF Classified
        <4> HIDE DEF c, tr, h
        <4> QED
          BY <4>1, <3>3, <3>4, ConcludeType DEF TypeOK
      <3> QED
        BY <3>5, <3>6
    <2>4. ASSUME NEW t \in Turns, ToolFillerDone(t) PROVE TypeOK'
      BY <2>4 DEF ToolFillerDone, SetPhase, Goto, TypeOK, Phases, Running, Results, Answers, locals
    <2>5. ASSUME NEW t \in Turns, StartExecutor(t) PROVE TypeOK'
      BY <2>5 DEF StartExecutor, WithoutExecutor, TypeOK, Answers, locals, context
    <2>6. ASSUME NEW t \in Turns, ToolAnswers(t) PROVE TypeOK'
      BY <2>6 DEF ToolAnswers, ExecutorReturns, TypeOK, Answers, locals, context
    <2>7. ASSUME NEW t \in Turns, CollectTool(t) PROVE TypeOK'
      <3>1. /\ phase' \in Phases
            /\ ended' \in BOOLEAN
        BY <2>7 DEF CollectTool, SetPhase, PhaseAfterTool, TypeOK, Phases
      <3>2. toolResults' \in [Tools -> {"none", "real", "simulated"}]
        BY <2>7 DEF CollectTool, TypeOK
      <3>3. toolResult' \in [Turns -> Results]
        BY <2>7 DEF CollectTool, TypeOK, Results
      <3> QED
        BY <2>7, <3>1, <3>2, <3>3 DEF CollectTool, Goto, TypeOK, Running, locals
    <2>8. ASSUME NEW t \in Turns, ToolTimeout(t) PROVE TypeOK'
      <3>1. phase' \in Phases /\ ended' \in BOOLEAN
        BY <2>8 DEF ToolTimeout, SetPhase, PhaseAfterTool, TypeOK, Phases
      <3>2. /\ toolResult' \in [Turns -> Results]
            /\ inflight' \subseteq Turns
            /\ task' \in [Turns -> {"none", "created", "running", "returned", "cancelled"}]
        <4>1. CASE Authority[transition[t].tool] = "executor"
          <5>1. /\ inflight' = inflight \cup {t}
                /\ task' = task
                /\ toolResult' = [toolResult EXCEPT ![t] = "uncertain"]
            BY <2>8, <4>1 DEF ToolTimeout, Retain
          <5> QED
            BY <5>1 DEF TypeOK, Results
        <4>2. CASE Authority[transition[t].tool] # "executor"
          BY <2>8, <4>2 DEF ToolTimeout, CancelTask, TypeOK, Results
        <4> QED
          BY <4>1, <4>2
      <3> QED
        BY <2>8, <3>1, <3>2 DEF ToolTimeout, Goto, TypeOK, Running, locals
    <2>9. ASSUME NEW t \in Turns, AfterTool(t) PROVE TypeOK'
      <3>1. UNCHANGED <<toolResults, inflight, toolResult, receipts, task, answer, sink, mode>>
        BY <2>9 DEF AfterTool
      <3>2. CASE phase = "EXITED" \/ transition[t].tool \notin Tools
        <4>1. /\ UNCHANGED <<phase, conv, ended>>
              /\ \E l \in Ended : Finish(t, l)
          BY <2>9, <3>2 DEF AfterTool, Ended
        <4> QED
          BY <4>1, <3>1, FinishType DEF TypeOK
      <3>3. CASE ~(phase = "EXITED" \/ transition[t].tool \notin Tools)
        <4> DEFINE c == IF FallbackHandoff(t) THEN conv ELSE ApplyTransition(conv, ReturnState(t))
        <4>1. c \in Conversation
          BY ReturnStateType, ApplyTransitionType DEF TypeOK
        <4>2. Conclude(t, c, transition[t], FallbackHandoff(t))
          BY <2>9, <3>3 DEF AfterTool
        <4> HIDE DEF c
        <4> QED
          BY <3>1, <4>1, <4>2, ConcludeType DEF TypeOK
      <3> QED
        BY <3>2, <3>3
    <2>10. ASSUME NEW t \in Turns, BridgeFillerDone(t) PROVE TypeOK'
      <3>1. receipts' \in [Turns -> Seq(ReceiptStatus)]
        <4>1. [i \in 1..Deliveries |-> IF DryRun THEN "simulated" ELSE "not_delivered"]
                 \in Seq(ReceiptStatus)
          BY ConfigAssumption DEF ReceiptStatus
        <4> QED
          BY <2>10, <4>1 DEF BridgeFillerDone, TypeOK
      <3> QED
        BY <2>10, <3>1 DEF BridgeFillerDone, Teardown, SetPhase, Goto, TypeOK, Phases,
                           Running, HandoffPcs, locals
    <2>11. ASSUME NEW t \in Turns, DeliveryAnswers(t) PROVE TypeOK'
      <3> PICK a \in {"returns", "noEffect", "raises"}, effect \in BOOLEAN :
                 DeliveryReturns(t, a, effect)
        BY <2>11 DEF DeliveryAnswers
      <3>1. Receipt(a) \in ReceiptStatus
        BY DEF Receipt, ReceiptStatus
      <3>2. receipts[t] \in Seq(ReceiptStatus)
        BY DEF TypeOK
      <3>3. /\ Append(receipts[t], Receipt(a)) \in Seq(ReceiptStatus)
            /\ Len(receipts[t]) + 1 \in Nat
        BY <3>1, <3>2
      <3>4. receipts' \in [Turns -> Seq(ReceiptStatus)]
        BY <3>3 DEF DeliveryReturns, TypeOK
      <3>5. sink' \subseteq Turns \X Nat
        BY <3>3 DEF DeliveryReturns, TypeOK
      <3>6. /\ phase' \in Phases
            /\ ended' \in BOOLEAN
            /\ pc' \in [Turns -> {"idle"} \cup Running \cup Ended]
        BY DEF DeliveryReturns, Teardown, SetPhase, Goto, TypeOK, Phases, Running, HandoffPcs
      <3> QED
        BY <3>4, <3>5, <3>6 DEF DeliveryReturns, TypeOK, locals
    <2>12. ASSUME NEW t \in Turns, TransferDone(t) PROVE TypeOK'
      BY <2>12 DEF TransferDone, SetPhase, Goto, TypeOK, Phases, Ended, locals
    <2>13. ASSUME NEW t \in Turns, CallbackRaises(t) PROVE TypeOK'
      <3>1. "raised" \in Running \cup Ended /\ Finish(t, "raised")
        BY <2>13 DEF CallbackRaises, Ended
      <3> QED
        BY <2>13, <3>1, FinishType DEF CallbackRaises, TypeOK, context
    <2>14. CASE UNCHANGED vars
      BY <2>14 DEF vars, TypeOK
    <2> QED
      BY <2>1, <2>2, <2>3, <2>4, <2>5, <2>6, <2>7, <2>8, <2>9, <2>10, <2>11, <2>12,
         <2>13, <2>14 DEF Next
  <1> QED
    BY <1>1, <1>2, PTL DEF Spec

-----------------------------------------------------------------------------
(* What the shared steps do to the program counter and the phase. *)

\* A turn that concludes is done or enters the handoff; only the handoff's phase and
\* EXITED are written.
LEMMA ConcludeStep ==
    ASSUME NEW t \in Turns, NEW c, NEW tr, NEW h, Conclude(t, c, tr, h)
    PROVE  \/ /\ pc' = [pc EXCEPT ![t] = "done"]
              /\ phase' = phase
              /\ ended' = ended
           \/ /\ pc' = [pc EXCEPT ![t] = "done"]
              /\ phase' = "EXITED"
              /\ ended' = TRUE
           \/ /\ h
              /\ pc' = [pc EXCEPT ![t] = "bridge"]
              /\ phase' = "HANDOFF_BRIDGE"
              /\ ended' = ended
  <1>1. CASE tr.trigger = "graceful_exit"
    BY <1>1 DEF Conclude, Finish, Goto, SetPhase
  <1>2. CASE tr.trigger # "graceful_exit" /\ h
    BY <1>2 DEF Conclude, Finish, Goto, SetPhase
  <1>3. CASE tr.trigger # "graceful_exit" /\ ~h
    BY <1>3 DEF Conclude, Finish, Goto
  <1> QED
    BY <1>1, <1>2, <1>3

\* A turn that enters the tool bridge leaves an ended call at EXITED, and only
\* creates a task when it goes on to wait for it.
LEMMA EnterToolStep ==
    ASSUME NEW t \in Turns, NEW k, EnterTool(t, k)
    PROVE  /\ phase' = "EXITED" <=> phase = "EXITED"
           /\ ended' = ended
           /\ \/ pc' = [pc EXCEPT ![t] = "metric"] /\ task' = task
              \/ pc' = [pc EXCEPT ![t] = "filler"] /\ task' = task
              \/ pc' = [pc EXCEPT ![t] = "tool"] /\ task' = [task EXCEPT ![t] = "created"]
  <1>1. CASE k \notin Tools \/ k \in MissingOpId
    BY <1>1 DEF EnterTool, Goto
  <1>2. CASE ~(k \notin Tools \/ k \in MissingOpId) /\ phase = "EXITED"
    BY <1>2 DEF EnterTool, Goto
  <1>3. CASE ~(k \notin Tools \/ k \in MissingOpId) /\ phase # "EXITED" /\ k \in HasFiller
    BY <1>3 DEF EnterTool, Goto, SetPhase
  <1>4. CASE ~(k \notin Tools \/ k \in MissingOpId) /\ phase # "EXITED" /\ k \notin HasFiller
    BY <1>4 DEF EnterTool, Goto, SetPhase
  <1> QED
    BY <1>1, <1>2, <1>3, <1>4

\* A turn that answers its caller's words either concludes or enters the tool bridge.
LEMMA ClassifiedStep ==
    ASSUME NEW t \in Turns, ClassifierAnswers(t)
    PROVE  /\ pc[t] = "classify"
           /\ UNCHANGED <<inflight, receipts, answer, sink>>
           /\ \/ /\ UNCHANGED <<toolResult, task>>
                 /\ \E c, tr, h : Conclude(t, c, tr, h)
              \/ \E k : EnterTool(t, k)
  <1> PICK i \in Intents : Classified(t, i)
    BY DEF ClassifierAnswers
  <1> DEFINE c == AddTurn(conv)
             tr == EvaluateTransition(c, i)
             h == tr.new = "handoff" \/ tr.trigger = "handoff"
  <1>1. pc[t] = "classify" /\ UNCHANGED <<inflight, receipts, answer, sink>>
    BY DEF Classified
  <1>2. CASE tr.tool # "none"
    <2>1. EnterTool(t, tr.tool)
      BY <1>2 DEF Classified
    <2> QED
      BY <1>1, <2>1
  <1>3. CASE tr.tool = "none"
    <2>1. UNCHANGED <<toolResult, task>> /\ Conclude(t, ApplyTransition(c, tr.new), tr, h)
      BY <1>3 DEF Classified
    <2> QED
      BY <1>1, <2>1
  <1> QED
    BY <1>2, <1>3

\* An uncertain result never leads to a handoff.
LEMMA UncertainNeverFallsBack ==
    ASSUME NEW t \in Turns, toolResult[t] = "uncertain"
    PROVE  ~FallbackHandoff(t)
  BY Zenon DEF FallbackHandoff

\* After the tool metric a turn ends, or enters the handoff of a call that is not at
\* EXITED and whose tool result is not uncertain.
LEMMA AfterToolStep ==
    ASSUME NEW t \in Turns, AfterTool(t)
    PROVE  /\ pc[t] = "metric"
           /\ UNCHANGED <<inflight, toolResult, receipts, task, answer, sink>>
           /\ \/ /\ UNCHANGED <<phase, ended>>
                 /\ \E l \in Ended : pc' = [pc EXCEPT ![t] = l]
              \/ /\ pc' = [pc EXCEPT ![t] = "done"]
                 /\ phase' = "EXITED"
                 /\ ended' = TRUE
              \/ /\ phase # "EXITED"
                 /\ toolResult[t] # "uncertain"
                 /\ pc' = [pc EXCEPT ![t] = "bridge"]
                 /\ phase' = "HANDOFF_BRIDGE"
                 /\ ended' = ended
  <1>1. pc[t] = "metric" /\ UNCHANGED <<inflight, toolResult, receipts, task, answer, sink>>
    BY DEF AfterTool
  <1>2. CASE phase = "EXITED" \/ transition[t].tool \notin Tools
    BY <1>1, <1>2 DEF AfterTool, Finish, Goto, Ended
  <1>3. CASE ~(phase = "EXITED" \/ transition[t].tool \notin Tools)
    <2> DEFINE c == IF FallbackHandoff(t) THEN conv ELSE ApplyTransition(conv, ReturnState(t))
    <2>1. Conclude(t, c, transition[t], FallbackHandoff(t))
      BY <1>3 DEF AfterTool
    <2>2. CASE transition[t].trigger = "graceful_exit"
      BY <1>1, <2>1, <2>2 DEF Conclude, Finish, Goto, SetPhase
    <2>3. CASE transition[t].trigger # "graceful_exit" /\ FallbackHandoff(t)
      BY <1>1, <1>3, <2>1, <2>3, UncertainNeverFallsBack DEF Conclude, Finish, Goto, SetPhase
    <2>4. CASE transition[t].trigger # "graceful_exit" /\ ~FallbackHandoff(t)
      BY <1>1, <2>1, <2>4 DEF Conclude, Finish, Goto, Ended
    <2> QED
      BY <2>2, <2>3, <2>4
  <1> QED
    BY <1>2, <1>3

-----------------------------------------------------------------------------
(* Turns and their executor tasks. *)

LEMMA TaskInvInit == Init => TaskInv
  BY DEF Init, TaskInv, HandsOff, HandoffPcs, Ended

\* Every step keeps the discipline between a turn and its task: a new task is
\* awaited, a task left running is retained, and the metric step of an uncertain
\* result does not reach the handoff.
LEMMA TaskInvStep == TypeOK /\ TaskInv /\ [Next]_vars => TaskInv'
  <1> SUFFICES ASSUME TypeOK, TaskInv, [Next]_vars PROVE TaskInv'
    OBVIOUS
  <1> USE DEF HandsOff, HandoffPcs, Ended
  <1>1. CASE Close
    BY <1>1 DEF Close, TaskInv
  <1>2. ASSUME NEW t \in Turns, BeginTurn(t) PROVE TaskInv'
    BY <1>2 DEF BeginTurn, Goto, TaskInv, TypeOK
  <1>3. ASSUME NEW t \in Turns, ClassifierAnswers(t) PROVE TaskInv'
    <2>1. pc[t] = "classify" /\ UNCHANGED <<inflight, receipts>>
      BY <1>3, ClassifiedStep
    <2>2. CASE UNCHANGED <<toolResult, task>> /\ \E c, tr, h : Conclude(t, c, tr, h)
      <3>1. \E l \in {"done", "bridge"} : pc' = [pc EXCEPT ![t] = l]
        BY <2>2, ConcludeStep
      <3> QED
        BY <2>1, <2>2, <3>1 DEF TaskInv, TypeOK
    <2>3. CASE \E k : EnterTool(t, k)
      <3>1. /\ \/ pc' = [pc EXCEPT ![t] = "metric"] /\ task' = task
               \/ pc' = [pc EXCEPT ![t] = "filler"] /\ task' = task
               \/ pc' = [pc EXCEPT ![t] = "tool"] /\ task' = [task EXCEPT ![t] = "created"]
        BY <2>3, EnterToolStep
      <3>2. \A u \in Turns : u # t => toolResult'[u] = toolResult[u]
        BY <2>3 DEF EnterTool, TypeOK
      <3> QED
        BY <2>1, <3>1, <3>2 DEF TaskInv, TypeOK
    <2> QED
      BY <1>3, <2>2, <2>3, ClassifiedStep
  <1>4. ASSUME NEW t \in Turns, ToolFillerDone(t) PROVE TaskInv'
    <2>1. /\ pc[t] = "filler"
          /\ UNCHANGED <<inflight, receipts>>
          /\ \A u \in Turns : u # t => toolResult'[u] = toolResult[u]
          /\ \/ pc' = [pc EXCEPT ![t] = "metric"] /\ task' = task
             \/ pc' = [pc EXCEPT ![t] = "tool"] /\ task' = [task EXCEPT ![t] = "created"]
      BY <1>4 DEF ToolFillerDone, Goto, TypeOK
    <2> QED
      BY <2>1 DEF TaskInv, TypeOK
  <1>5. ASSUME NEW t \in Turns, StartExecutor(t) PROVE TaskInv'
    BY <1>5 DEF StartExecutor, TaskInv, TypeOK, context, locals
  <1>6. ASSUME NEW t \in Turns, ToolAnswers(t) PROVE TaskInv'
    BY <1>6 DEF ToolAnswers, ExecutorReturns, TaskInv, TypeOK
  <1>7. ASSUME NEW t \in Turns, CollectTool(t) PROVE TaskInv'
    BY <1>7 DEF CollectTool, Goto, TaskInv, TypeOK
  <1>8. ASSUME NEW t \in Turns, ToolTimeout(t) PROVE TaskInv'
    <2>1. CASE Authority[transition[t].tool] = "executor"
      <3>1. /\ inflight' = inflight \cup {t}
            /\ task' = task
            /\ toolResult' = [toolResult EXCEPT ![t] = "uncertain"]
        BY <1>8, <2>1 DEF ToolTimeout, Retain
      <3> QED
        BY <1>8, <3>1 DEF ToolTimeout, Goto, TaskInv, TypeOK
    <2>2. CASE Authority[transition[t].tool] # "executor"
      <3>1. /\ inflight' = inflight
            /\ task' = [task EXCEPT ![t] = "cancelled"]
            /\ toolResult' = [toolResult EXCEPT ![t] = "timeout"]
        BY <1>8, <2>2 DEF ToolTimeout, CancelTask
      <3> QED
        BY <1>8, <3>1 DEF ToolTimeout, Goto, TaskInv, TypeOK
    <2> QED
      BY <2>1, <2>2
  <1>9. ASSUME NEW t \in Turns, AfterTool(t) PROVE TaskInv'
    <2>1. /\ pc[t] = "metric"
          /\ UNCHANGED <<inflight, toolResult, receipts, task>>
      BY <1>9, AfterToolStep
    <2>2. ASSUME NEW l \in Ended, pc' = [pc EXCEPT ![t] = l] PROVE TaskInv'
      BY <2>1, <2>2 DEF TaskInv, TypeOK
    <2>3. CASE toolResult[t] # "uncertain" /\ pc' = [pc EXCEPT ![t] = "bridge"]
      <3>1. task[t] \notin {"created", "running"}
        BY <2>1, <2>3 DEF TaskInv
      <3> QED
        BY <2>1, <2>3, <3>1 DEF TaskInv, TypeOK
    <2>4. CASE \E l \in Ended : pc' = [pc EXCEPT ![t] = l]
      BY <2>2, <2>4
    <2> QED
      BY <1>9, <2>2, <2>3, <2>4, AfterToolStep
  <1>10. ASSUME NEW t \in Turns, BridgeFillerDone(t) PROVE TaskInv'
    <2>1. /\ pc[t] = "bridge"
          /\ UNCHANGED <<inflight, toolResult, task>>
          /\ \A u \in Turns : u # t => receipts'[u] = receipts[u]
          /\ \E l \in {"deliver", "transfer"} : pc' = [pc EXCEPT ![t] = l]
      BY <1>10 DEF BridgeFillerDone, Teardown, Goto, TypeOK
    <2> QED
      BY <2>1 DEF TaskInv, TypeOK
  <1>11. ASSUME NEW t \in Turns, DeliveryAnswers(t) PROVE TaskInv'
    <2>1. /\ pc[t] = "deliver"
          /\ UNCHANGED <<inflight, toolResult, task>>
          /\ \A u \in Turns : u # t => receipts'[u] = receipts[u]
          /\ pc' = pc \/ pc' = [pc EXCEPT ![t] = "transfer"]
      BY <1>11 DEF DeliveryAnswers, DeliveryReturns, Teardown, Goto, TypeOK
    <2> QED
      BY <2>1 DEF TaskInv, TypeOK
  <1>12. ASSUME NEW t \in Turns, TransferDone(t) PROVE TaskInv'
    BY <1>12 DEF TransferDone, Goto, TaskInv, TypeOK
  <1>13. ASSUME NEW t \in Turns, CallbackRaises(t) PROVE TaskInv'
    BY <1>13 DEF CallbackRaises, Finish, Goto, TaskInv, TypeOK
  <1>14. CASE UNCHANGED vars
    BY <1>14 DEF vars, TaskInv
  <1> QED
    BY <1>1, <1>2, <1>3, <1>4, <1>5, <1>6, <1>7, <1>8, <1>9, <1>10, <1>11, <1>12,
       <1>13, <1>14 DEF Next

\* The turn and its task keep step in every configuration.
THEOREM TaskDiscipline == Spec => []TaskInv
  <1>1. TypeOK /\ TaskInv /\ [Next]_vars => TaskInv'
    BY TaskInvStep
  <1> QED
    BY <1>1, TaskInvInit, TypeCorrect, PTL DEF Spec

\* Whatever the configuration says of failures, no turn has a handoff under way while
\* its own tool executor may still act.
THEOREM NoFallbackBesideLiveExecutorHolds == Spec => []NoFallbackBesideLiveExecutor
  <1>1. TaskInv => NoFallbackBesideLiveExecutor
    BY DEF TaskInv, NoFallbackBesideLiveExecutor
  <1> QED
    BY <1>1, TaskDiscipline, PTL

\* Executor-owned work that outlives its turn's wait is always retained.
THEOREM LateWorkRetainedHolds == Spec => []LateWorkRetained
  <1>1. TaskInv => LateWorkRetained
    BY DEF TaskInv, LateWorkRetained
  <1> QED
    BY <1>1, TaskDiscipline, PTL

-----------------------------------------------------------------------------
(* The phase of a call that is over. *)

\* An action property: in every configuration, with any number of turns at once, only
\* the handoff protocol's phase writes take a call away from EXITED.
THEOREM ToolPathNeverReopensHolds == Spec => ToolPathNeverReopens
  <1> DEFINE Back == phase' \in {"EXITED", "HANDOFF_BRIDGE", "HANDOFF_TEARDOWN"}
  <1>1. TypeOK /\ [Next]_vars =>
          [phase = "EXITED" /\ phase' # "EXITED"
              => phase' \in {"HANDOFF_BRIDGE", "HANDOFF_TEARDOWN"}]_vars
    <2> SUFFICES ASSUME TypeOK, [Next]_vars, phase = "EXITED" PROVE Back
      OBVIOUS
    <2>1. CASE Close
      BY <2>1 DEF Close
    <2>2. ASSUME NEW t \in Turns, BeginTurn(t) PROVE Back
      BY <2>2 DEF BeginTurn, context
    <2>3. ASSUME NEW t \in Turns, ClassifierAnswers(t) PROVE Back
      BY <2>3, ClassifiedStep, ConcludeStep, EnterToolStep
    <2>4. ASSUME NEW t \in Turns, ToolFillerDone(t) PROVE Back
      BY <2>4 DEF ToolFillerDone
    <2>5. ASSUME NEW t \in Turns, StartExecutor(t) PROVE Back
      BY <2>5 DEF StartExecutor, context
    <2>6. ASSUME NEW t \in Turns, ToolAnswers(t) PROVE Back
      BY <2>6 DEF ToolAnswers, ExecutorReturns, context
    <2>7. ASSUME NEW t \in Turns, CollectTool(t) PROVE Back
      BY <2>7 DEF CollectTool, SetPhase, PhaseAfterTool
    <2>8. ASSUME NEW t \in Turns, ToolTimeout(t) PROVE Back
      BY <2>8 DEF ToolTimeout, SetPhase, PhaseAfterTool
    <2>9. ASSUME NEW t \in Turns, AfterTool(t) PROVE Back
      BY <2>9, AfterToolStep
    <2>10. ASSUME NEW t \in Turns, BridgeFillerDone(t) PROVE Back
      BY <2>10 DEF BridgeFillerDone, Teardown, SetPhase
    <2>11. ASSUME NEW t \in Turns, DeliveryAnswers(t) PROVE Back
      BY <2>11 DEF DeliveryAnswers, DeliveryReturns, Teardown, SetPhase
    <2>12. ASSUME NEW t \in Turns, TransferDone(t) PROVE Back
      BY <2>12 DEF TransferDone, SetPhase
    <2>13. ASSUME NEW t \in Turns, CallbackRaises(t) PROVE Back
      BY <2>13 DEF CallbackRaises, context
    <2>14. CASE UNCHANGED vars
      BY <2>14 DEF vars
    <2> QED
      BY <2>1, <2>2, <2>3, <2>4, <2>5, <2>6, <2>7, <2>8, <2>9, <2>10, <2>11, <2>12,
         <2>13, <2>14 DEF Next
  <1> QED
    BY <1>1, TypeCorrect, PTL DEF Spec, ToolPathNeverReopens

-----------------------------------------------------------------------------
(* Turns of a call one at a time, callbacks that do not raise. *)

LEMMA SerialInvInit == Init => SerialInv
  BY DEF Init, SerialInv, OneHandoffPerCall, HandsOff, Running, HandoffPcs

\* A step inside a turn, or the end of one, that neither ends the call nor begins a
\* handoff.
LEMMA SerialInsideTurn ==
    ASSUME TypeOK, SerialInv, NEW t \in Turns,
           pc[t] \in Running \ HandoffPcs,
           NEW l \in (Running \ HandoffPcs) \cup Ended,
           pc' = [pc EXCEPT ![t] = l], receipts' = receipts,
           phase' = "EXITED" <=> phase = "EXITED", ended' = ended
    PROVE  SerialInv'
  <1> USE DEF HandsOff, Running, HandoffPcs, Ended, TypeOK
  <1>1. \A u \in Turns : /\ pc'[u] \in HandoffPcs <=> pc[u] \in HandoffPcs
                         /\ pc'[u] \in Running => pc[u] \in Running
                         /\ HandsOff(u)' <=> HandsOff(u)
    OBVIOUS
  <1> QED
    BY <1>1 DEF SerialInv, OneHandoffPerCall

\* A step of an executor's task, which moves no turn.
LEMMA SerialBesideTurn ==
    ASSUME SerialInv, UNCHANGED <<pc, receipts, phase, ended>>
    PROVE  SerialInv'
  BY DEF SerialInv, OneHandoffPerCall, HandsOff

\* A turn that ends the call.
LEMMA SerialTurnExits ==
    ASSUME TypeOK, SerialInv, NEW t \in Turns, pc[t] \in Running,
           pc' = [pc EXCEPT ![t] = "done"], receipts' = receipts,
           phase' = "EXITED", ended' = TRUE
    PROVE  SerialInv'
  <1> USE DEF HandsOff, Running, HandoffPcs, TypeOK
  <1>1. \A u \in Turns : /\ pc'[u] \in Running => pc[u] \in Running
                         /\ HandsOff(u)' => HandsOff(u)
    OBVIOUS
  <1> QED
    BY <1>1 DEF SerialInv, OneHandoffPerCall

\* A turn that begins the handoff: it is the only turn running, so none has begun one.
LEMMA SerialTurnHandsOff ==
    ASSUME TypeOK, SerialInv, NEW t \in Turns, pc[t] \in Running \ HandoffPcs,
           pc' = [pc EXCEPT ![t] = "bridge"], receipts' = receipts,
           phase' = "HANDOFF_BRIDGE", ended' = ended
    PROVE  SerialInv'
  <1> USE DEF HandsOff, Running, HandoffPcs, TypeOK
  <1>1. /\ pc'[t] = "bridge"
        /\ \A u \in Turns : u # t => pc'[u] = pc[u]
    OBVIOUS
  <1>2. \A u \in Turns : u # t => pc[u] \notin Running /\ ~HandsOff(u)
    BY DEF SerialInv
  <1>3. \A u \in Turns : pc'[u] \in Running \/ HandsOff(u)' => u = t
    BY <1>1, <1>2
  <1> QED
    BY <1>1, <1>3 DEF SerialInv, OneHandoffPerCall

\* A step inside the handoff that keeps the turn in it.
LEMMA SerialInsideHandoff ==
    ASSUME TypeOK, SerialInv, NEW t \in Turns, pc[t] \in HandoffPcs,
           NEW l \in HandoffPcs, pc' = [pc EXCEPT ![t] = l],
           \A u \in Turns : u # t => receipts'[u] = receipts[u],
           phase' \in {phase, "HANDOFF_TEARDOWN"}, ended' = ended
    PROVE  SerialInv'
  <1> USE DEF HandsOff, Running, HandoffPcs, TypeOK
  <1>1. /\ pc'[t] \in HandoffPcs
        /\ \A u \in Turns : u # t => pc'[u] = pc[u]
    OBVIOUS
  <1>2. \A u \in Turns : u # t => pc[u] \notin Running /\ ~HandsOff(u)
    BY DEF SerialInv
  <1>3. \A u \in Turns : pc'[u] \in Running \/ HandsOff(u)' => u = t
    BY <1>1, <1>2
  <1> QED
    BY <1>1, <1>3 DEF SerialInv, OneHandoffPerCall

\* One turn at a time and callbacks that return keep an ended call ended and its
\* handoff single.
LEMMA SerialInvStep ==
    ASSUME Serial, ~CallbacksFail, TypeOK, SerialInv, [Next]_vars
    PROVE  SerialInv'
  <1>1. CASE Close
    <2>1. UNCHANGED <<pc, receipts>> /\ phase' = "EXITED" /\ ended' = TRUE
      BY <1>1 DEF Close, SetPhase
    <2> QED
      BY <2>1 DEF SerialInv, OneHandoffPerCall, HandsOff
  <1>2. ASSUME NEW t \in Turns, BeginTurn(t) PROVE SerialInv'
    <2> USE DEF HandsOff, Running, HandoffPcs, TypeOK
    <2>1. /\ \A u \in Turns : pc[u] \notin Running
          /\ UNCHANGED <<phase, ended, receipts>>
      BY <1>2 DEF BeginTurn, context
    <2>2. CASE phase = "EXITED"
      <3>1. pc' = [pc EXCEPT ![t] = "ignored"]
        BY <1>2, <2>2 DEF BeginTurn, Goto
      <3> QED
        BY <1>2, <2>1, <2>2, <3>1 DEF SerialInv, OneHandoffPerCall
    <2>3. CASE phase # "EXITED"
      <3>1. pc' = [pc EXCEPT ![t] = "classify"]
        BY <1>2, <2>3 DEF BeginTurn, Goto
      <3>2. \A u \in Turns : ~HandsOff(u)
        BY <2>1, <2>3 DEF SerialInv
      <3>3. \A u \in Turns : ~HandsOff(u)' /\ (pc'[u] \in Running => u = t)
        BY <2>1, <3>1, <3>2
      <3> QED
        BY <2>1, <2>3, <3>1, <3>3 DEF SerialInv, OneHandoffPerCall
    <2> QED
      BY <2>2, <2>3
  <1>3. ASSUME NEW t \in Turns, ClassifierAnswers(t) PROVE SerialInv'
    <2>1. pc[t] \in Running \ HandoffPcs /\ receipts' = receipts
      BY <1>3, ClassifiedStep DEF Running, HandoffPcs
    <2>2. ASSUME NEW c, NEW tr, NEW h, Conclude(t, c, tr, h) PROVE SerialInv'
      <3>1. "done" \in Ended /\ pc[t] \in Running
        BY <2>1 DEF Ended
      <3> QED
        BY <2>1, <2>2, <3>1, ConcludeStep, SerialInsideTurn, SerialTurnExits, SerialTurnHandsOff
    <2>3. ASSUME NEW k, EnterTool(t, k) PROVE SerialInv'
      <3>1. \E l \in Running \ HandoffPcs : pc' = [pc EXCEPT ![t] = l]
        BY <2>3, EnterToolStep DEF Running, HandoffPcs
      <3>2. (phase' = "EXITED" <=> phase = "EXITED") /\ ended' = ended
        BY <2>3, EnterToolStep
      <3> QED
        BY <2>1, <3>1, <3>2, SerialInsideTurn
    <2> QED
      BY <1>3, <2>2, <2>3, ClassifiedStep
  <1>4. ASSUME NEW t \in Turns, ToolFillerDone(t) PROVE SerialInv'
    <2>1. /\ pc[t] \in Running \ HandoffPcs
          /\ \E l \in Running \ HandoffPcs : pc' = [pc EXCEPT ![t] = l]
          /\ receipts' = receipts
          /\ phase' = "EXITED" <=> phase = "EXITED"
          /\ ended' = ended
      BY <1>4 DEF ToolFillerDone, Goto, SetPhase, Running, HandoffPcs
    <2> QED
      BY <2>1, SerialInsideTurn
  <1>5. ASSUME NEW t \in Turns, StartExecutor(t) PROVE SerialInv'
    BY <1>5, SerialBesideTurn DEF StartExecutor, context
  <1>6. ASSUME NEW t \in Turns, ToolAnswers(t) PROVE SerialInv'
    BY <1>6, SerialBesideTurn DEF ToolAnswers, ExecutorReturns, context
  <1>7. ASSUME NEW t \in Turns, CollectTool(t) \/ ToolTimeout(t) PROVE SerialInv'
    <2>1. /\ pc[t] \in Running \ HandoffPcs
          /\ "metric" \in Running \ HandoffPcs
          /\ pc' = [pc EXCEPT ![t] = "metric"]
          /\ receipts' = receipts
      BY <1>7 DEF CollectTool, ToolTimeout, Goto, Running, HandoffPcs
    <2>2. (phase' = "EXITED" <=> phase = "EXITED") /\ ended' = ended
      <3>1. SetPhase(PhaseAfterTool) \/ UNCHANGED <<phase, ended>>
        BY <1>7 DEF CollectTool, ToolTimeout
      <3>2. phase = "EXITED" => ended = TRUE
        BY DEF SerialInv, TypeOK
      <3> QED
        BY <3>1, <3>2 DEF SetPhase, PhaseAfterTool
    <2> QED
      BY <2>1, <2>2, SerialInsideTurn
  <1>8. ASSUME NEW t \in Turns, AfterTool(t) PROVE SerialInv'
    <2>1. pc[t] \in Running \ HandoffPcs /\ pc[t] \in Running /\ receipts' = receipts
      BY <1>8, AfterToolStep DEF Running, HandoffPcs
    <2> QED
      BY <1>8, <2>1, AfterToolStep, SerialInsideTurn, SerialTurnExits, SerialTurnHandsOff
  <1>9. ASSUME NEW t \in Turns, BridgeFillerDone(t) PROVE SerialInv'
    <2>1. /\ pc[t] \in HandoffPcs
          /\ \E l \in HandoffPcs : pc' = [pc EXCEPT ![t] = l]
          /\ \A u \in Turns : u # t => receipts'[u] = receipts[u]
          /\ phase' \in {phase, "HANDOFF_TEARDOWN"}
          /\ ended' = ended
      BY <1>9 DEF BridgeFillerDone, Teardown, SetPhase, Goto, HandoffPcs, TypeOK
    <2> QED
      BY <2>1, SerialInsideHandoff
  <1>10. ASSUME NEW t \in Turns, DeliveryAnswers(t) PROVE SerialInv'
    <2>1. /\ pc[t] \in HandoffPcs
          /\ \E l \in HandoffPcs : pc' = [pc EXCEPT ![t] = l]
          /\ \A u \in Turns : u # t => receipts'[u] = receipts[u]
          /\ phase' \in {phase, "HANDOFF_TEARDOWN"}
          /\ ended' = ended
      BY <1>10 DEF DeliveryAnswers, DeliveryReturns, Teardown, SetPhase, Goto, HandoffPcs, TypeOK
    <2> QED
      BY <2>1, SerialInsideHandoff
  <1>11. ASSUME NEW t \in Turns, TransferDone(t) PROVE SerialInv'
    <2>1. /\ pc[t] \in Running
          /\ pc' = [pc EXCEPT ![t] = "done"]
          /\ receipts' = receipts
          /\ phase' = "EXITED"
          /\ ended' = TRUE
      BY <1>11 DEF TransferDone, SetPhase, Goto, Running, HandoffPcs
    <2> QED
      BY <2>1, SerialTurnExits
  <1>12. ASSUME NEW t \in Turns PROVE ~CallbackRaises(t)
    BY DEF CallbackRaises
  <1>13. CASE UNCHANGED vars
    BY <1>13, SerialBesideTurn DEF vars
  <1> QED
    BY <1>1, <1>2, <1>3, <1>4, <1>5, <1>6, <1>7, <1>8, <1>9, <1>10, <1>11, <1>12,
       <1>13 DEF Next

\* With one turn at a time and callbacks that return, the strengthened serial
\* invariant holds in every configuration.
THEOREM SerialDiscipline ==
    ASSUME Serial, ~CallbacksFail
    PROVE  Spec => []SerialInv
  <1>1. TypeOK /\ SerialInv /\ [Next]_vars => SerialInv'
    BY SerialInvStep
  <1> QED
    BY <1>1, SerialInvInit, TypeCorrect, PTL DEF Spec

\* A call is then handed off by at most one of its turns.
THEOREM OneHandoffPerCallHolds ==
    ASSUME Serial, ~CallbacksFail
    PROVE  Spec => []OneHandoffPerCall
  <1>1. SerialInv => OneHandoffPerCall
    BY DEF SerialInv
  <1> QED
    BY <1>1, SerialDiscipline, PTL

\* And no tool executor is entered once the call has been closed or has ended: a task
\* that is about to enter one belongs to the only running turn, so an ended call is at
\* EXITED and the check at the executor-start boundary refuses it.
THEOREM NoToolEntryAfterEndHolds ==
    ASSUME Serial, ~CallbacksFail
    PROVE  Spec => NoToolEntryAfterEnd
  <1>1. TypeOK /\ TaskInv /\ SerialInv /\ [Next]_vars =>
          [\A t \in Turns : task[t] = "created" /\ task'[t] = "running" => ~ended]_vars
    <2> SUFFICES ASSUME TypeOK, TaskInv, SerialInv, Next, NEW t \in Turns,
                        task[t] = "created", task'[t] = "running"
                 PROVE  ~ended
      BY DEF vars
    <2>1. phase # "EXITED"
      <3>1. \A u \in Turns : ~(task[u] = "created" /\ StartExecutor(u) /\ phase = "EXITED"
                               /\ task'[u] = "running")
        BY DEF StartExecutor, MayEnterExecutor, TypeOK
      <3>2. StartExecutor(t)
        <4>1. \A u \in Turns : BeginTurn(u) \/ CollectTool(u) \/ BridgeFillerDone(u)
                 \/ DeliveryAnswers(u) \/ TransferDone(u) \/ CallbackRaises(u) => task' = task
          BY DEF BeginTurn, CollectTool, BridgeFillerDone, DeliveryAnswers, DeliveryReturns,
                 TransferDone, CallbackRaises
        <4>2. \A u \in Turns : AfterTool(u) => task' = task
          BY AfterToolStep
        <4>3. Close => task' = task
          BY DEF Close
        <4>4. \A u \in Turns : ClassifierAnswers(u) =>
                 task' = task \/ task' = [task EXCEPT ![u] = "created"]
          BY ClassifiedStep, EnterToolStep
        <4>5. \A u \in Turns : ToolFillerDone(u) =>
                 task' = task \/ task' = [task EXCEPT ![u] = "created"]
          BY DEF ToolFillerDone
        <4>6. \A u \in Turns : ToolAnswers(u) => task' = [task EXCEPT ![u] = "returned"]
          BY DEF ToolAnswers, ExecutorReturns
        <4>7. \A u \in Turns : ToolTimeout(u) =>
                 task' = task \/ task' = [task EXCEPT ![u] = "cancelled"]
          BY DEF ToolTimeout, Retain, CancelTask
        <4>8. \A u \in Turns : StartExecutor(u) => u = t
          BY DEF StartExecutor, TypeOK
        <4> QED
          BY <4>1, <4>2, <4>3, <4>4, <4>5, <4>6, <4>7, <4>8 DEF Next, TypeOK
      <3> QED
        BY <3>1, <3>2
    <2>2. pc[t] = "tool"
      BY DEF TaskInv
    <2>3. \A u \in Turns : pc[u] \notin HandoffPcs
      BY <2>2 DEF SerialInv, Running, HandoffPcs
    <2> QED
      BY <2>1, <2>3 DEF SerialInv
  <1> QED
    BY <1>1, TypeCorrect, TaskDiscipline, SerialDiscipline, PTL DEF Spec, NoToolEntryAfterEnd

-----------------------------------------------------------------------------
(* Receipts, and the absence of executors. *)

\* The effects that took place are those of deliveries with a receipt, and a turn has
\* none before its handoff dispatches the first.
SinkInv ==
    \A t \in Turns :
        /\ pc[t] \in {"idle", "classify", "filler", "tool", "metric", "bridge"} => receipts[t] = <<>>
        /\ \A i \in Nat : <<t, i>> \in sink => i \in 1..Len(receipts[t])

\* Inductive: what a receipt says, and where effects can be.
ReceiptIInv == ReceiptsTruthful /\ SinkInv

\* No receipt and no effect at the start.
LEMMA ReceiptsStart == Init => ReceiptIInv
  BY DEF Init, ReceiptIInv, ReceiptsTruthful, SinkInv

\* A step that writes no receipt, causes no effect and does not go back to a place
\* before the dispatch.
LEMMA ReceiptsUntouched ==
    ASSUME TypeOK, ReceiptIInv, UNCHANGED <<receipts, sink>>,
           \A t \in Turns : \/ pc'[t] = pc[t]
                            \/ pc'[t] \in Ended \cup {"deliver", "transfer"}
                            \/ pc[t] \in {"idle", "classify", "filler", "tool", "metric"}
    PROVE  ReceiptIInv'
  BY DEF ReceiptIInv, ReceiptsTruthful, SinkInv, Ended

\* Every step keeps the receipts and the effects in agreement.
LEMMA ReceiptStep == TypeOK /\ ReceiptIInv /\ [Next]_vars => ReceiptIInv'
  <1> SUFFICES ASSUME TypeOK, ReceiptIInv, [Next]_vars PROVE ReceiptIInv'
    OBVIOUS
  <1> USE DEF Goto
  <1>1. CASE Close
    BY <1>1, ReceiptsUntouched DEF Close
  <1>2. ASSUME NEW t \in Turns, BeginTurn(t) \/ ToolFillerDone(t) \/ CollectTool(t) \/ ToolTimeout(t) PROVE ReceiptIInv'
    <2>1. UNCHANGED <<receipts, sink>> /\ pc[t] \in {"idle", "filler", "tool"} /\ \A u \in Turns \ {t} : pc'[u] = pc[u]
      BY <1>2 DEF BeginTurn, ToolFillerDone, CollectTool, ToolTimeout, TypeOK
    <2> QED BY <2>1, ReceiptsUntouched
  <1>3. ASSUME NEW t \in Turns, ClassifierAnswers(t) PROVE ReceiptIInv'
    <2>1. UNCHANGED <<receipts, sink>> /\ pc[t] = "classify"
      BY <1>3, ClassifiedStep
    <2>2. \A u \in Turns \ {t} : pc'[u] = pc[u]
      <3>1. \E l : pc' = [pc EXCEPT ![t] = l]
        <4>1. (\E c, tr, h : Conclude(t, c, tr, h)) \/ \E k : EnterTool(t, k)
          BY <1>3, ClassifiedStep
        <4>2. ASSUME NEW c, NEW tr, NEW h, Conclude(t, c, tr, h) PROVE \E l : pc' = [pc EXCEPT ![t] = l]
          BY <4>2, ConcludeStep
        <4>3. ASSUME NEW k, EnterTool(t, k) PROVE \E l : pc' = [pc EXCEPT ![t] = l]
          BY <4>3, EnterToolStep
        <4> QED BY <4>1, <4>2, <4>3
      <3> QED BY <3>1 DEF TypeOK
    <2> QED BY <2>1, <2>2, ReceiptsUntouched
  <1>4. ASSUME NEW t \in Turns, StartExecutor(t) \/ ToolAnswers(t) PROVE ReceiptIInv'
    BY <1>4, ReceiptsUntouched DEF StartExecutor, ToolAnswers, ExecutorReturns
  <1>5. ASSUME NEW t \in Turns, AfterTool(t) PROVE ReceiptIInv'
    <2>1. UNCHANGED <<receipts, sink>> /\ pc[t] = "metric"
      BY <1>5, AfterToolStep
    <2>2. \A u \in Turns \ {t} : pc'[u] = pc[u]
      BY <1>5, AfterToolStep DEF TypeOK
    <2> QED BY <2>1, <2>2, ReceiptsUntouched
  <1>6. ASSUME NEW t \in Turns, TransferDone(t) \/ CallbackRaises(t) PROVE ReceiptIInv'
    BY <1>6, ReceiptsUntouched DEF TransferDone, CallbackRaises, Finish, Ended, TypeOK
  <1>7. ASSUME NEW t \in Turns, BridgeFillerDone(t) PROVE ReceiptIInv'
    <2>0. pc[t] = "bridge" /\ sink' = sink BY <1>7 DEF BridgeFillerDone
    <2>1. receipts[t] = <<>> /\ \A i \in Nat : <<t, i>> \notin sink
      BY <2>0 DEF ReceiptIInv, SinkInv
    <2>2. \A u \in Turns \ {t} : pc'[u] = pc[u] /\ receipts'[u] = receipts[u]
      BY <1>7 DEF BridgeFillerDone, Teardown, TypeOK
    <2>3. pc'[t] \in {"deliver", "transfer"} BY <1>7 DEF BridgeFillerDone, Teardown, TypeOK
    <2>4. /\ DOMAIN receipts'[t] \subseteq Nat
          /\ \A i \in DOMAIN receipts'[t] : receipts'[t][i] # "delivered"
      <3>1. CASE receipts' = receipts BY <2>1, <3>1
      <3>2. CASE receipts' # receipts
        <4>1. receipts'[t] = [i \in 1..Deliveries |-> IF DryRun THEN "simulated" ELSE "not_delivered"]
          BY <1>7, <3>2 DEF BridgeFillerDone, TypeOK
        <4> QED BY <4>1
      <3> QED BY <3>1, <3>2
    <2> QED BY <2>0, <2>1, <2>2, <2>3, <2>4 DEF ReceiptIInv, ReceiptsTruthful, SinkInv
  <1>8. ASSUME NEW t \in Turns, DeliveryAnswers(t) PROVE ReceiptIInv'
    <2> DEFINE n == Len(receipts[t]) + 1
    <2>0. PICK a \in {"returns", "noEffect", "raises"}, effect \in BOOLEAN : DeliveryReturns(t, a, effect)
      BY <1>8 DEF DeliveryAnswers
    <2>1. /\ pc[t] = "deliver" /\ (a = "returns" => effect) /\ (a = "noEffect" => ~effect)
          /\ receipts' = [receipts EXCEPT ![t] = Append(receipts[t], Receipt(a))]
          /\ sink' = (IF effect THEN sink \cup {<<t, n>>} ELSE sink)
      BY <2>0 DEF DeliveryReturns
    <2>2. \A u \in Turns \ {t} : pc'[u] = pc[u] /\ receipts'[u] = receipts[u]
      BY <2>0 DEF DeliveryReturns, Teardown, TypeOK
    <2>3. pc'[t] \in {"deliver", "transfer"} BY <2>0, <2>1 DEF DeliveryReturns, Teardown, TypeOK
    <2>4. receipts[t] \in Seq(ReceiptStatus) /\ n \in Nat BY DEF TypeOK
    <2>5. /\ receipts'[t] = Append(receipts[t], Receipt(a)) /\ DOMAIN receipts'[t] = 1..n /\ Len(receipts'[t]) = n
          /\ receipts'[t][n] = Receipt(a) /\ \A i \in 1..Len(receipts[t]) : receipts'[t][i] = receipts[t][i]
      BY <2>1, <2>4 DEF TypeOK
    <2>6. <<t, n>> \notin sink
      BY <2>4 DEF ReceiptIInv, SinkInv
    <2>7. /\ Receipt(a) = "delivered" => effect
          /\ Receipt(a) \in {"failed", "simulated", "not_delivered"} => ~effect
      BY <2>1 DEF Receipt
    <2>8. ReceiptsTruthful'
      <3> SUFFICES ASSUME NEW u \in Turns, NEW i \in DOMAIN receipts'[u]
                   PROVE  /\ receipts'[u][i] = "delivered" => <<u, i>> \in sink'
                          /\ receipts'[u][i] \in {"failed", "simulated", "not_delivered"} => <<u, i>> \notin sink'
        BY DEF ReceiptsTruthful
      <3>1. CASE u = t /\ i = n BY <2>1, <2>5, <2>6, <2>7, <3>1
      <3>2. CASE ~(u = t /\ i = n)
        <4>1. i \in DOMAIN receipts[u] /\ receipts'[u][i] = receipts[u][i]
          BY <2>2, <2>4, <2>5, <3>2
        <4>2. <<u, i>> \in sink' <=> <<u, i>> \in sink BY <2>1, <3>2
        <4> QED BY <4>1, <4>2 DEF ReceiptIInv, ReceiptsTruthful
      <3> QED BY <3>1, <3>2
    <2>9. SinkInv'
      <3> SUFFICES ASSUME NEW u \in Turns, NEW i \in Nat, <<u, i>> \in sink' PROVE i \in 1..Len(receipts'[u])
        BY <2>2, <2>3 DEF SinkInv, ReceiptIInv
      <3>1. CASE u = t /\ i = n BY <2>4, <2>5, <3>1
      <3>2. CASE ~(u = t /\ i = n)
        <4>1. <<u, i>> \in sink BY <2>1, <3>2
        <4>2. i \in 1..Len(receipts[u]) BY <4>1 DEF ReceiptIInv, SinkInv
        <4> QED BY <2>2, <2>4, <2>5, <4>2
      <3> QED BY <3>1, <3>2
    <2> QED BY <2>8, <2>9 DEF ReceiptIInv
  <1>9. CASE UNCHANGED vars
    BY <1>9, ReceiptsUntouched DEF vars
  <1> QED
    BY <1>1, <1>2, <1>3, <1>4, <1>5, <1>6, <1>7, <1>8, <1>9 DEF Next

\* RuntimeHandoff.execute: a receipt never says more, nor less, than what took place.
THEOREM ReceiptsTruthfulHolds == Spec => []ReceiptsTruthful
  <1>1. ReceiptIInv => ReceiptsTruthful
    BY DEF ReceiptIInv
  <1> QED
    BY <1>1, ReceiptsStart, ReceiptStep, TypeCorrect, PTL DEF Spec

\* Without an executor no task runs and no delivery is dispatched.
InventedIInv ==
    /\ ToolExecutor \/ \A t \in Turns : task[t] # "running" /\ answer[t] # "success"
    /\ HandoffExecutor \/ \A t \in Turns : pc[t] # "deliver"
    /\ NothingInvented

\* A runtime keeps the executors it was constructed with.
LEMMA ModeKept == [Next]_vars => mode' = mode
  <1> SUFFICES ASSUME [Next]_vars PROVE mode' = mode
    OBVIOUS
  <1>1. ASSUME NEW t \in Turns, BeginTurn(t) \/ ClassifierAnswers(t) \/ ToolFillerDone(t) \/ StartExecutor(t)
                                \/ ToolAnswers(t) \/ CollectTool(t) \/ ToolTimeout(t)
        PROVE  mode' = mode
    BY <1>1 DEF BeginTurn, ClassifierAnswers, Classified, ToolFillerDone, StartExecutor, ToolAnswers, ExecutorReturns,
                CollectTool, ToolTimeout
  <1>2. ASSUME NEW t \in Turns, AfterTool(t) \/ BridgeFillerDone(t) \/ DeliveryAnswers(t) \/ TransferDone(t)
                                \/ CallbackRaises(t)
        PROVE  mode' = mode
    BY <1>2 DEF AfterTool, BridgeFillerDone, DeliveryAnswers, DeliveryReturns, TransferDone, CallbackRaises
  <1>3. CASE Close \/ UNCHANGED vars
    BY <1>3 DEF Close, vars
  <1> QED BY <1>1, <1>2, <1>3 DEF Next

\* Without an executor no step reports a success, a real result or a delivery.
LEMMA InventedStep == TypeOK /\ InventedIInv /\ [Next]_vars => InventedIInv'
  <1> SUFFICES ASSUME TypeOK, InventedIInv, [Next]_vars PROVE InventedIInv'
    OBVIOUS
  <1> DEFINE NoTool == \A t \in Turns : task[t] # "running" /\ answer[t] # "success" /\ toolResult[t] # "success"
             NoReal == \A k \in Tools : toolResults[k] # "real"
             NoSend == \A t \in Turns : pc[t] # "deliver"
             NoSent == \A t \in Turns : "delivered" \notin {receipts[t][i] : i \in DOMAIN receipts[t]}
  <1>0. mode' = mode
    BY ModeKept
  <1>1. ASSUME ~ToolExecutor PROVE (NoTool /\ NoReal)'
    <2>0. NoTool /\ NoReal BY <1>1 DEF InventedIInv, NothingInvented
    <2>1. ASSUME NEW t \in Turns, ClassifierAnswers(t) PROVE (NoTool /\ NoReal)'
      <3>1. UNCHANGED <<answer, toolResults>> BY <2>1 DEF ClassifierAnswers, Classified
      <3>2. /\ task' = task \/ task' = [task EXCEPT ![t] = "created"]
            /\ toolResult' = toolResult \/ \E r \in {"failed", "closed"} : toolResult' = [toolResult EXCEPT ![t] = r]
        BY <2>1 DEF ClassifierAnswers, Classified, EnterTool
      <3> QED BY <2>0, <3>1, <3>2 DEF TypeOK
    <2>2. ASSUME NEW t \in Turns, StartExecutor(t) PROVE (NoTool /\ NoReal)'
      BY <1>1, <2>0, <2>2 DEF StartExecutor, WithoutExecutor, context, TypeOK
    <2>3. ASSUME NEW t \in Turns, ToolAnswers(t) PROVE FALSE
      BY <2>0, <2>3 DEF ToolAnswers, ExecutorReturns
    <2>4. ASSUME NEW t \in Turns, CollectTool(t) PROVE (NoTool /\ NoReal)'
      <3>1. answer[t] # "success" /\ UNCHANGED <<task, answer>> BY <2>0, <2>4 DEF CollectTool
      <3>2. toolResults' = toolResults \/ \E k : toolResults' = [toolResults EXCEPT ![k] = "simulated"]
        BY <2>4, <3>1 DEF CollectTool
      <3>3. NoReal' BY <2>0, <3>2 DEF TypeOK
      <3> QED BY <2>0, <2>4, <3>1, <3>3 DEF CollectTool, TypeOK
    <2>5. ASSUME NEW t \in Turns, ToolTimeout(t) \/ ToolFillerDone(t) PROVE (NoTool /\ NoReal)'
      BY <2>0, <2>5 DEF ToolTimeout, Retain, CancelTask, ToolFillerDone, TypeOK
    <2>6. ASSUME NEW t \in Turns, BeginTurn(t) \/ AfterTool(t) \/ BridgeFillerDone(t) \/ DeliveryAnswers(t)
                                  \/ TransferDone(t) \/ CallbackRaises(t)
          PROVE  (NoTool /\ NoReal)'
      BY <2>0, <2>6 DEF BeginTurn, AfterTool, BridgeFillerDone, DeliveryAnswers, DeliveryReturns, TransferDone,
                        CallbackRaises, context
    <2>7. CASE Close \/ UNCHANGED vars
      BY <2>0, <2>7 DEF Close, vars
    <2> HIDE DEF NoTool, NoReal
    <2> QED BY <2>1, <2>2, <2>3, <2>4, <2>5, <2>6, <2>7 DEF Next
  <1>2. ASSUME ~HandoffExecutor PROVE (NoSend /\ NoSent)'
    <2>0. NoSend /\ NoSent BY <1>2 DEF InventedIInv, NothingInvented
    <2>1. ASSUME NEW t \in Turns, ClassifierAnswers(t) PROVE (NoSend /\ NoSent)'
      <3>1. receipts' = receipts BY <2>1, ClassifiedStep
      <3>2. \E l \in {"done", "bridge", "metric", "filler", "tool"} : pc' = [pc EXCEPT ![t] = l]
        BY <2>1, ClassifiedStep, ConcludeStep, EnterToolStep
      <3> QED BY <2>0, <3>1, <3>2 DEF TypeOK
    <2>2. ASSUME NEW t \in Turns, AfterTool(t) PROVE (NoSend /\ NoSent)'
      <3>1. receipts' = receipts BY <2>2, AfterToolStep
      <3>2. \E l \in Ended \cup {"bridge"} : pc' = [pc EXCEPT ![t] = l]
        BY <2>2, AfterToolStep DEF Ended
      <3> QED BY <2>0, <3>1, <3>2 DEF TypeOK, Ended
    <2>3. ASSUME NEW t \in Turns, BridgeFillerDone(t) PROVE (NoSend /\ NoSent)'
      <3>1. /\ receipts' = [receipts EXCEPT ![t] =
                  [i \in 1..Deliveries |-> IF DryRun THEN "simulated" ELSE "not_delivered"]]
            /\ pc' = [pc EXCEPT ![t] = "transfer"]
        BY <1>2, <2>3 DEF BridgeFillerDone, Teardown, Goto
      <3>2. NoSend' BY <2>0, <3>1 DEF TypeOK
      <3>3. \A i \in DOMAIN receipts'[t] : receipts'[t][i] # "delivered" BY <3>1 DEF TypeOK
      <3>4. \A u \in Turns \ {t} : receipts'[u] = receipts[u] BY <3>1 DEF TypeOK
      <3> QED BY <2>0, <3>2, <3>3, <3>4
    <2>4. ASSUME NEW t \in Turns, DeliveryAnswers(t) PROVE FALSE
      BY <2>0, <2>4 DEF DeliveryAnswers, DeliveryReturns
    <2>5. ASSUME NEW t \in Turns, BeginTurn(t) \/ ToolFillerDone(t) \/ StartExecutor(t) \/ ToolAnswers(t) \/ CollectTool(t)
                                  \/ ToolTimeout(t) \/ TransferDone(t) \/ CallbackRaises(t)
          PROVE  (NoSend /\ NoSent)'
      BY <2>0, <2>5 DEF BeginTurn, ToolFillerDone, StartExecutor, ToolAnswers, ExecutorReturns, CollectTool, ToolTimeout,
                        TransferDone, CallbackRaises, Finish, Goto, TypeOK
    <2>6. CASE Close \/ UNCHANGED vars
      BY <2>0, <2>6 DEF Close, vars
    <2> HIDE DEF NoSend, NoSent
    <2> QED BY <2>1, <2>2, <2>3, <2>4, <2>5, <2>6 DEF Next
  <1> QED BY <1>0, <1>1, <1>2 DEF InventedIInv, NothingInvented, ToolExecutor, HandoffExecutor

\* runtime.py _execute and RuntimeHandoff.execute: without an executor nothing is
\* reported as done, whatever dry_run says.
THEOREM NothingInventedHolds == Spec => []NothingInvented
  <1>1. Init => InventedIInv
    BY DEF Init, InventedIInv, NothingInvented
  <1>2. InventedIInv => NothingInvented
    BY DEF InventedIInv
  <1> QED
    BY <1>1, <1>2, InventedStep, TypeCorrect, PTL DEF Spec

-----------------------------------------------------------------------------
(* The guarded state machine between turns. *)

\* What the shipped configurations have in common, and the properties of a conversation
\* need: only a tool leads to tool_call or back to "previous", nothing returns or escalates
\* to tool_call, and an escalation leaves the state whose limit it is.
OrderlyConfig ==
    /\ \A s \in States, i \in Intents :
          Target[s][i] \in {"tool_call", "previous"} => IntentTool[i] \in Tools
    /\ \A s \in States : MaxTurns[s] # 0 => EscalateTo[s] \notin {s, "tool_call"}
    /\ ReturnTo # "tool_call"

\* The turns counted in a state are below its limit, and a settled conversation is
\* besides not in tool_call.
WithinLimit(c) == c.current \in States => MaxTurns[c.current] = 0 \/ c.turns < MaxTurns[c.current]
Settled(c) == WithinLimit(c) /\ c.current # "tool_call"

\* A turn starts in a settled conversation, and at its tool can return to one.
TurnInv ==
    phase # "EXITED" =>
        /\ Quiet => Settled(conv)
        /\ \A t \in Turns :
              /\ pc[t] = "classify" => Settled(conv)
              /\ pc[t] \in {"filler", "tool", "metric"} =>
                    /\ WithinLimit(conv) /\ origin[t] # "tool_call"
                    /\ transition[t].tool \notin Tools => conv.current # "tool_call"

\* apply_transition leaves a conversation within the limit of where it arrives: it
\* resets the count of turns when the state changes.
LEMMA ApplyWithin ==
    ASSUME NEW c \in Conversation, NEW n \in StateNames, WithinLimit(c)
    PROVE  WithinLimit(ApplyTransition(c, n)) /\ ApplyTransition(c, n).current = n
  <1>1. ApplyTransition(c, n).current = n
    BY ApplyTransitionType
  <1>2. CASE n = c.current
    BY <1>1, <1>2 DEF ApplyTransition
  <1>3. CASE n # c.current
    <2>1. ApplyTransition(c, n).turns = 0 BY <1>3 DEF ApplyTransition
    <2> QED BY <1>1, <2>1, ConfigAssumption DEF WithinLimit
  <1> QED BY <1>2, <1>3

\* What a turn's own transition makes of a settled conversation.
LEMMA EvaluateSettles ==
    ASSUME OrderlyConfig, NEW b \in Conversation, Settled(b), NEW i \in Intents
    PROVE  LET c == AddTurn(b)
               tr == EvaluateTransition(c, i)
           IN  /\ WithinLimit(ApplyTransition(c, tr.new))
               /\ ApplyTransition(c, tr.new).current = tr.new
               /\ tr.tool \notin Tools => tr.new # "tool_call"
  <1> DEFINE c == AddTurn(b)
             tr == EvaluateTransition(c, i)
  <1>1. c \in Conversation /\ c.current = b.current
    BY AddTurnType
  <1>2. tr \in Transitions /\ tr.new \in StateNames
    BY <1>1, EvaluateTransitionType DEF Transitions
  <1>3. ApplyTransition(c, tr.new).current = tr.new
    BY <1>1, <1>2, ApplyTransitionType
  <1>4. "tool_call" \notin {"handoff", "graceful_exit", "none", "previous"}
    OBVIOUS
  <1>5. CASE c.current \in States /\ GuardrailHit(c)
    <2>1. tr = [new |-> EscalateTo[c.current], tool |-> "none", trigger |-> "max_turns_escalation"]
      BY <1>5 DEF EvaluateTransition
    <2>2. tr.new # c.current /\ tr.new # "tool_call"
      BY <1>5, <2>1 DEF OrderlyConfig, GuardrailHit
    <2>3. ApplyTransition(c, tr.new).turns = 0
      BY <2>2 DEF ApplyTransition
    <2>4. WithinLimit(ApplyTransition(c, tr.new))
      <3> DEFINE d == ApplyTransition(c, tr.new)
      <3>1. d.turns = 0 /\ MaxTurns \in [States -> Nat] BY <2>3, ConfigAssumption
      <3> HIDE DEF d, tr, c
      <3>2. WithinLimit(d) BY <3>1 DEF WithinLimit
      <3> QED BY <3>2 DEF d
    <2> QED BY <1>3, <2>2, <2>4
  <1>6. CASE ~(c.current \in States /\ GuardrailHit(c))
    <2>1. WithinLimit(c)
      BY <1>1, <1>6, ConfigAssumption DEF GuardrailHit, WithinLimit, Conversation
    <2>2. WithinLimit(ApplyTransition(c, tr.new))
      BY <1>1, <1>2, <2>1, ApplyWithin
    <2>3. ASSUME tr.tool \notin Tools PROVE tr.new # "tool_call"
      <3>1. CASE c.current \in States /\ Target[c.current][i] # "none"
        <4>1. tr = Routed(c, i)
          BY <1>6, <3>1 DEF EvaluateTransition
        <4>2. IntentTool[i] \notin Tools
          BY <2>3, <4>1 DEF Routed
        <4>3. Target[c.current][i] \notin {"tool_call", "previous"}
          BY <3>1, <4>2 DEF OrderlyConfig
        <4>4. Trigger[i] \in {"handoff", "graceful_exit", "none"}
          BY ConfigAssumption
        <4> QED BY <4>1, <4>2, <4>3, <4>4 DEF Routed
      <3>2. CASE ~(c.current \in States /\ Target[c.current][i] # "none")
        <4>1. tr.new = c.current
          BY <1>6, <3>2 DEF EvaluateTransition
        <4> QED BY <1>1, <4>1 DEF Settled
      <3> QED BY <3>1, <3>2
    <2> QED BY <1>3, <2>2, <2>3
  <1> HIDE DEF tr, c
  <1> QED BY <1>3, <1>5, <1>6 DEF tr, c

\* A step that moves no turn, or moves one within its tool.
LEMMA TurnInvKept ==
    ASSUME TypeOK, TurnInv, UNCHANGED <<conv, origin, transition>>, phase' # "EXITED" => phase # "EXITED",
           \A u \in Turns : \/ pc'[u] = pc[u]
                            \/ pc'[u] \in {"filler", "tool", "metric"} /\ pc[u] \in {"filler", "tool", "metric"}
    PROVE  TurnInv'
  <1>1. Quiet' => Quiet
    BY DEF Quiet, Running
  <1> QED
    BY <1>1 DEF TurnInv

\* A turn that ends, or goes on to the handoff, in a settled conversation.
LEMMA TurnInvEnds ==
    ASSUME TypeOK, SerialInv, NEW t \in Turns, pc[t] \in Running,
           NEW l \in Ended \cup HandoffPcs, pc' = [pc EXCEPT ![t] = l],
           phase' # "EXITED" /\ l \notin HandoffPcs => Settled(conv')
    PROVE  TurnInv'
  <1>1. pc'[t] = l /\ \A u \in Turns \ {t} : pc'[u] \notin Running
    BY DEF SerialInv, TypeOK
  <1>2. l \notin {"classify", "filler", "tool", "metric"}
    BY DEF Ended, HandoffPcs
  <1>3. \A u \in Turns : pc'[u] \notin {"classify", "filler", "tool", "metric"}
    BY <1>1, <1>2 DEF Running
  <1>4. Quiet' => l \notin HandoffPcs
    BY <1>1 DEF Quiet, Running
  <1> QED
    BY <1>3, <1>4 DEF TurnInv

\* Every step of a call that runs one turn at a time keeps its conversation settled.
LEMMA TurnInvStep ==
    ASSUME Serial, ~CallbacksFail, OrderlyConfig, TypeOK, SerialInv, TurnInv, [Next]_vars
    PROVE  TurnInv'
  <1> USE DEF Goto
  <1>1. CASE Close
    BY <1>1 DEF Close, SetPhase, TurnInv
  <1>2. ASSUME NEW t \in Turns, BeginTurn(t) PROVE TurnInv'
    <2>1. Quiet /\ UNCHANGED <<phase, conv, origin, transition>>
      BY <1>2 DEF BeginTurn, Quiet, context, locals
    <2>2. CASE phase = "EXITED" BY <2>1, <2>2 DEF TurnInv
    <2>3. CASE phase # "EXITED"
      <3>1. Settled(conv) BY <2>1, <2>3 DEF TurnInv
      <3>2. pc' = [pc EXCEPT ![t] = "classify"] BY <1>2, <2>3 DEF BeginTurn
      <3>3. \A u \in Turns : pc'[u] \notin {"filler", "tool", "metric"}
        BY <2>1, <3>2 DEF Quiet, Running, TypeOK
      <3> QED BY <2>1, <3>1, <3>3 DEF TurnInv, Settled
    <2> QED BY <2>2, <2>3
  <1>3. ASSUME NEW t \in Turns, ClassifierAnswers(t) PROVE TurnInv'
    <2> PICK i \in Intents : Classified(t, i)
      BY <1>3 DEF ClassifierAnswers
    <2> DEFINE c == AddTurn(conv)
               tr == EvaluateTransition(c, i)
               d == ApplyTransition(c, tr.new)
               h == tr.new = "handoff" \/ tr.trigger = "handoff"
    <2>1. pc[t] = "classify" /\ pc[t] \in Running BY DEF Classified, Running
    <2>2. phase # "EXITED" => Settled(conv) BY <2>1 DEF TurnInv
    <2>3. phase # "EXITED" => /\ WithinLimit(d) /\ d.current = tr.new
                              /\ tr.tool \notin Tools => tr.new # "tool_call"
      BY <2>2, EvaluateSettles DEF TypeOK
    <2>4. "none" \notin Tools /\ "handoff" \in StateNames BY ConfigAssumption
    <2>5. c.current = conv.current BY DEF AddTurn
    <2>6. CASE tr.tool = "none"
      <3>1. Conclude(t, d, tr, h) BY <2>6 DEF Classified
      <3>2. phase # "EXITED" => Settled(d) BY <2>3, <2>4, <2>6 DEF Settled
      <3> HIDE DEF c, tr, d, h
      <3>3. CASE tr.trigger = "graceful_exit"
        <4>1. phase' = "EXITED" /\ pc' = [pc EXCEPT ![t] = "done"] BY <3>1, <3>3 DEF Conclude, SetPhase, Finish
        <4> QED BY <4>1 DEF TurnInv
      <3>4. CASE tr.trigger # "graceful_exit" /\ h
        <4>1. pc' = [pc EXCEPT ![t] = "bridge"] BY <3>1, <3>4 DEF Conclude, Finish
        <4> QED BY <2>1, <4>1, TurnInvEnds DEF HandoffPcs
      <3>5. CASE tr.trigger # "graceful_exit" /\ ~h
        <4>1. pc' = [pc EXCEPT ![t] = "done"] /\ conv' = d /\ phase' = phase BY <3>1, <3>5 DEF Conclude, Finish
        <4> QED BY <2>1, <3>2, <4>1, TurnInvEnds DEF Ended
      <3> QED BY <3>3, <3>4, <3>5
    <2>7. CASE tr.tool # "none"
      <3>1. /\ conv' = d /\ transition' = [transition EXCEPT ![t] = tr] /\ origin' = [origin EXCEPT ![t] = c.current]
            /\ EnterTool(t, tr.tool)
        BY <2>7 DEF Classified
      <3> HIDE DEF c, tr, d, h
      <3>2. /\ phase' = "EXITED" <=> phase = "EXITED"
            /\ \E l \in {"metric", "filler", "tool"} : pc' = [pc EXCEPT ![t] = l]
        BY <3>1, EnterToolStep
      <3>3. \A u \in Turns \ {t} : pc'[u] \notin Running
        BY <2>1, <3>2 DEF SerialInv, TypeOK
      <3>4. /\ pc'[t] \in {"metric", "filler", "tool"} /\ transition'[t] = tr /\ origin'[t] = c.current
        BY <3>1, <3>2 DEF TypeOK
      <3>5. ~Quiet' BY <3>4 DEF Quiet, Running
      <3>6. ASSUME NEW u \in Turns, pc'[u] \in {"classify", "filler", "tool", "metric"} PROVE u = t
        BY <3>3, <3>6 DEF Running
      <3>7. phase' # "EXITED" =>
               WithinLimit(conv') /\ origin'[t] # "tool_call" /\ (transition'[t].tool \notin Tools => conv'.current # "tool_call")
        BY <2>2, <2>3, <2>5, <3>1, <3>2, <3>4 DEF Settled
      <3> QED BY <3>4, <3>5, <3>6, <3>7 DEF TurnInv
    <2> QED BY <2>6, <2>7
  <1>4. ASSUME NEW t \in Turns, ToolFillerDone(t) \/ CollectTool(t) \/ ToolTimeout(t) PROVE TurnInv'
    <2>1. /\ UNCHANGED <<conv, origin, transition>> /\ pc[t] \in {"filler", "tool"}
          /\ \E l \in {"tool", "metric"} : pc' = [pc EXCEPT ![t] = l]
          /\ phase' # "EXITED" => phase # "EXITED"
      BY <1>4 DEF ToolFillerDone, CollectTool, ToolTimeout, SetPhase, PhaseAfterTool, locals
    <2>2. \A u \in Turns : \/ pc'[u] = pc[u]
                           \/ pc'[u] \in {"filler", "tool", "metric"} /\ pc[u] \in {"filler", "tool", "metric"}
      BY <2>1 DEF TypeOK
    <2> QED BY <2>1, <2>2, TurnInvKept
  <1>5. ASSUME NEW t \in Turns, StartExecutor(t) \/ ToolAnswers(t) PROVE TurnInv'
    BY <1>5, TurnInvKept DEF StartExecutor, ToolAnswers, ExecutorReturns, context, locals
  <1>6. ASSUME NEW t \in Turns, AfterTool(t) PROVE TurnInv'
    <2>1. pc[t] = "metric" /\ pc[t] \in Running BY <1>6 DEF AfterTool, Running
    <2>2. CASE phase = "EXITED"
      BY <1>6, <2>2 DEF AfterTool, TurnInv
    <2>3. CASE phase # "EXITED" /\ transition[t].tool \notin Tools
      <3>1. pc' = [pc EXCEPT ![t] = "raised"] /\ conv' = conv BY <1>6, <2>3 DEF AfterTool, Finish
      <3>2. Settled(conv) BY <2>1, <2>3 DEF TurnInv, Settled
      <3> QED BY <2>1, <3>1, <3>2, TurnInvEnds DEF Ended
    <2>4. CASE phase # "EXITED" /\ transition[t].tool \in Tools
      <3> DEFINE n == ReturnState(t)
                 f == FallbackHandoff(t)
                 c == IF f THEN conv ELSE ApplyTransition(conv, n)
                 tr == transition[t]
      <3>1. Conclude(t, c, tr, f) BY <1>6, <2>4 DEF AfterTool
      <3>2. n \in StateNames /\ n # "tool_call"
        BY <2>1, <2>4, ReturnStateType DEF ReturnState, TurnInv, OrderlyConfig
      <3>3. ~f => Settled(c)
        <4>1. WithinLimit(conv) BY <2>1, <2>4 DEF TurnInv
        <4>2. WithinLimit(ApplyTransition(conv, n)) /\ ApplyTransition(conv, n).current = n
          <5> HIDE DEF n
          <5> QED BY <3>2, <4>1, ApplyWithin DEF TypeOK
        <4> QED BY <3>2, <4>2 DEF Settled
      <3> HIDE DEF n, f, c, tr
      <3>4. CASE tr.trigger = "graceful_exit"
        <4>1. phase' = "EXITED" BY <3>1, <3>4 DEF Conclude, SetPhase
        <4> QED BY <4>1 DEF TurnInv
      <3>5. CASE tr.trigger # "graceful_exit" /\ f
        <4>1. pc' = [pc EXCEPT ![t] = "bridge"] BY <3>1, <3>5 DEF Conclude, Finish
        <4> QED BY <2>1, <4>1, TurnInvEnds DEF HandoffPcs
      <3>6. CASE tr.trigger # "graceful_exit" /\ ~f
        <4>1. pc' = [pc EXCEPT ![t] = "done"] /\ conv' = c BY <3>1, <3>6 DEF Conclude, Finish
        <4> QED BY <2>1, <3>3, <3>6, <4>1, TurnInvEnds DEF Ended
      <3> QED BY <3>4, <3>5, <3>6
    <2> QED BY <2>2, <2>3, <2>4
  <1>7. ASSUME NEW t \in Turns, BridgeFillerDone(t) \/ DeliveryAnswers(t) PROVE TurnInv'
    <2>1. pc[t] \in Running BY <1>7 DEF BridgeFillerDone, DeliveryAnswers, DeliveryReturns, Running, HandoffPcs
    <2>2. \E l \in HandoffPcs : pc' = [pc EXCEPT ![t] = l]
      BY <1>7 DEF BridgeFillerDone, DeliveryAnswers, DeliveryReturns, Teardown, HandoffPcs, TypeOK
    <2> QED BY <2>1, <2>2, TurnInvEnds
  <1>8. ASSUME NEW t \in Turns, TransferDone(t) PROVE TurnInv'
    BY <1>8 DEF TransferDone, SetPhase, TurnInv
  <1>9. ASSUME NEW t \in Turns PROVE ~CallbackRaises(t)
    BY DEF CallbackRaises
  <1>10. CASE UNCHANGED vars
    BY <1>10, TurnInvKept DEF vars
  <1> QED
    BY <1>1, <1>2, <1>3, <1>4, <1>5, <1>6, <1>7, <1>8, <1>9, <1>10 DEF Next

\* _process_turn, evaluate_transition and apply_transition: between turns an open call
\* has left tool_call, and has not used up the turns of its state.
THEOREM ConversationSettles ==
    ASSUME Serial, ~CallbacksFail, OrderlyConfig
    PROVE  Spec => []ConversationInv
  <1>1. Init => TurnInv
    <2> SUFFICES ASSUME Init PROVE TurnInv OBVIOUS
    <2>1. Settled(conv) BY ConfigAssumption DEF Init, Settled, WithinLimit
    <2> QED BY <2>1 DEF Init, TurnInv
  <1>2. TurnInv => ConversationInv
    BY DEF TurnInv, ConversationInv, ToolStateIsTransient, GuardrailRespected, Settled, WithinLimit
  <1>3. TypeOK /\ SerialInv /\ TurnInv /\ [Next]_vars => TurnInv'
    BY TurnInvStep
  <1> QED
    BY <1>1, <1>2, <1>3, TypeCorrect, SerialDiscipline, PTL DEF Spec
=============================================================================
