---------------------------- MODULE CallRuntime ----------------------------
(***************************************************************************)
(* One call of the v0.2 runtime (src/src/voxmaestro/runtime.py) together   *)
(* with the guarded state machine it drives (conductor.py).                *)
(*                                                                         *)
(* The process is one asyncio event loop.  A step of this module is what   *)
(* the loop runs between two awaits, so every await of _process_turn,      *)
(* RuntimeToolBridge.execute and RuntimeHandoff.execute is a value of pc   *)
(* at which another turn, the executor's own task or CallSession.close may *)
(* run.  Awaits between which nothing of the call is read or written (the  *)
(* reflex gate, its two metrics and the classifier) are one value of pc.   *)
(*                                                                         *)
(* The tool and handoff executors are outside the repository: they answer  *)
(* with any of the outcomes the code distinguishes, late or never.         *)
(***************************************************************************)
EXTENDS Naturals, Sequences, FiniteSets

CONSTANTS
    Turns,           \* identities of the caller turns of this call
    States,          \* keys of config["states"]
    StateNames,      \* every name a transition can produce; contains States
    Intents,         \* what the classifier can answer
    Target,          \* [States -> [Intents -> name, "previous" or "none"]], "*" resolved
    MaxTurns,        \* [States -> Nat], 0 when the state has no max_turns
    EscalateTo,      \* [States -> StateNames], escalation.after_max_turns
    ToolNames,       \* tool names mentioned by intents
    Tools,           \* keys of config["tools"]
    IntentTool,      \* [Intents -> ToolNames or "none"]
    Trigger,         \* [Intents -> "handoff", "graceful_exit" or "none"]
    Authority,       \* [Tools -> "runtime" or "executor"], cancellation_authority
    HasFiller,       \* tools with a filler
    FailureHandoff,  \* tools whose on_failure.trigger is "handoff"
    MissingOpId,     \* tools requiring an operation id this call's metadata lacks
    ReturnTo,        \* states.tool_call.return_to
    Modes,           \* the deployments considered: which executors, dry_run or not
    Deliveries,      \* number of entries of config["handoff"]["delivery"]
    Serial,          \* the adapter runs one turn of a call at a time
    CallbacksFail    \* on_filler, on_transfer or the classifier may raise

ASSUME ConfigAssumption ==
    /\ States \subseteq StateNames
    /\ {"initial", "tool_call", "handoff"} \subseteq StateNames
    /\ {"previous", "none"} \cap StateNames = {}
    /\ Target \in [States -> [Intents -> StateNames \cup {"previous", "none"}]]
    /\ MaxTurns \in [States -> Nat]
    /\ EscalateTo \in [States -> StateNames]
    /\ Tools \subseteq ToolNames
    /\ "none" \notin ToolNames
    /\ IntentTool \in [Intents -> ToolNames \cup {"none"}]
    /\ Trigger \in [Intents -> {"handoff", "graceful_exit", "none"}]
    /\ Authority \in [Tools -> {"runtime", "executor"}]
    /\ ReturnTo \in StateNames \cup {"previous"}
    /\ Deliveries \in Nat

ASSUME ModeAssumption ==
    /\ Modes \subseteq [tool : BOOLEAN, handoff : BOOLEAN, dry : BOOLEAN]
    /\ Serial \in BOOLEAN
    /\ CallbacksFail \in BOOLEAN

VARIABLES
    (* ConversationContext *)
    phase,        \* context.phase
    conv,         \* current_state, previous_state and state_turn_count
    toolResults,  \* context.tool_results, per tool: what its entry stands for
    (* RuntimeToolBridge *)
    inflight,     \* turns whose executor task is retained in _inflight
    (* the coroutine of each turn *)
    pc,           \* the await at which it is suspended
    transition,   \* local variable of _process_turn
    origin,       \* local variable origin_state
    shouldHandoff,\* local variable should_handoff
    toolResult,   \* the RuntimeToolResult of the turn
    receipts,     \* delivery receipts of the turn's handoff
    (* the asyncio task that runs the tool executor for each turn *)
    task, answer,
    (* how the runtime was constructed, for good *)
    mode,
    (* observation only: never read by the code *)
    ended,        \* the call's phase has been EXITED at some time
    sink          \* <<t, i>>: the i-th handoff effect of turn t took place

context == <<phase, conv, toolResults>>
locals  == <<transition, origin, shouldHandoff>>
vars    == <<phase, conv, toolResults, inflight, pc, transition, origin,
             shouldHandoff, toolResult, receipts, task, answer, mode, ended, sink>>

-----------------------------------------------------------------------------
Phases == {"ACTIVE", "TOOL_PENDING", "FILLER_PLAYING", "HANDOFF_BRIDGE",
           "HANDOFF_TEARDOWN", "EXITED"}

HandoffPcs == {"bridge", "deliver", "transfer"}
Running    == {"classify", "filler", "tool", "metric"} \cup HandoffPcs
Ended      == {"done", "ignored", "raised"}

Answers == {"success", "simulated", "blocked", "failed", "closed"}
Results == Answers \cup {"none", "timeout", "uncertain"}
ReceiptStatus == {"delivered", "failed", "unknown", "simulated", "not_delivered"}

Conversation == [current : StateNames, previous : StateNames, turns : Nat]
Transitions  == [new : StateNames, tool : ToolNames \cup {"none"},
                 trigger : {"handoff", "graceful_exit", "none", "max_turns_escalation"}]

\* A ToolExecutor was configured, a HandoffExecutor was, and dry_run=True.
ToolExecutor    == mode.tool
HandoffExecutor == mode.handoff
DryRun          == mode.dry

\* What a coroutine's locals hold before they are assigned and after it returned.
NoTransition == [new |-> "initial", tool |-> "none", trigger |-> "none"]

-----------------------------------------------------------------------------
(* StateMachine *)

\* evaluate_transition's guardrail, reached after add_turn counted this turn.
GuardrailHit(c) ==
    c.current \in States /\ MaxTurns[c.current] # 0 /\ c.turns >= MaxTurns[c.current]

\* A transition found in the table: a tool goes through tool_call, and a trigger
\* that names a state overrides both.
Routed(c, i) ==
    LET dest == Target[c.current][i]
        base == IF IntentTool[i] \in Tools THEN "tool_call"
                ELSE IF dest = "previous" THEN c.previous ELSE dest
    IN  [new |-> IF Trigger[i] \in States THEN Trigger[i] ELSE base,
         tool |-> IntentTool[i], trigger |-> Trigger[i]]

EvaluateTransition(c, i) ==
    LET stay == [new |-> c.current, tool |-> "none", trigger |-> "none"]
    IN  IF c.current \notin States THEN stay
        ELSE IF GuardrailHit(c)
             THEN [new |-> EscalateTo[c.current], tool |-> "none",
                   trigger |-> "max_turns_escalation"]
        ELSE IF Target[c.current][i] = "none" THEN stay
        ELSE Routed(c, i)

ApplyTransition(c, new) ==
    IF new = c.current THEN c
    ELSE [current |-> new, previous |-> c.current, turns |-> 0]

AddTurn(c) == [current |-> c.current, previous |-> c.previous, turns |-> c.turns + 1]

-----------------------------------------------------------------------------
Init ==
    /\ phase = "ACTIVE"
    /\ conv = [current |-> "initial", previous |-> "initial", turns |-> 0]
    /\ toolResults = [k \in Tools |-> "none"]
    /\ inflight = {}
    /\ pc = [t \in Turns |-> "idle"]
    /\ transition = [t \in Turns |-> NoTransition]
    /\ origin = [t \in Turns |-> "initial"]
    /\ shouldHandoff = [t \in Turns |-> FALSE]
    /\ toolResult = [t \in Turns |-> "none"]
    /\ receipts = [t \in Turns |-> <<>>]
    /\ task = [t \in Turns |-> "none"]
    /\ answer = [t \in Turns |-> "none"]
    /\ mode \in Modes
    /\ ended = FALSE
    /\ sink = {}

Goto(t, l) == pc' = [pc EXCEPT ![t] = l]

\* The coroutine is over: its locals are gone.
Finish(t, l) ==
    /\ Goto(t, l)
    /\ transition' = [transition EXCEPT ![t] = NoTransition]
    /\ origin' = [origin EXCEPT ![t] = "initial"]
    /\ shouldHandoff' = [shouldHandoff EXCEPT ![t] = FALSE]

SetPhase(p) == phase' = p /\ ended' = IF p = "EXITED" THEN TRUE ELSE ended

-----------------------------------------------------------------------------
(* CallSession *)

\* close(): synchronous, at any point between two awaits of a turn.
Close ==
    /\ phase # "EXITED"
    /\ SetPhase("EXITED")
    /\ UNCHANGED <<conv, toolResults, inflight, pc, locals, toolResult, receipts,
                   task, answer, sink, mode>>

\* Mutant: turns of a finished call are processed.
BugBeginTurn(t) ==
    /\ pc[t] = "idle"
    /\ Serial => \A u \in Turns : pc[u] \notin Running
    /\ Goto(t, "classify")
    /\ UNCHANGED <<context, inflight, locals, toolResult, receipts, task, answer,
                   ended, sink, mode>>

\* process_turn: the EXITED check that ignores a turn of a finished call.
BeginTurn(t) ==
    /\ pc[t] = "idle"
    /\ Serial => \A u \in Turns : pc[u] \notin Running
    /\ IF phase = "EXITED" THEN Goto(t, "ignored") ELSE Goto(t, "classify")
    /\ UNCHANGED <<context, inflight, locals, toolResult, receipts, task, answer,
                   ended, sink, mode>>

\* The end of _process_turn once the turn's own transition is settled: c is the
\* conversation then, tr its transition, handoff the value of should_handoff.
Conclude(t, c, tr, handoff) ==
    IF tr.trigger = "graceful_exit"
    THEN conv' = c /\ SetPhase("EXITED") /\ Finish(t, "done")
    ELSE IF handoff
    THEN /\ conv' = ApplyTransition(c, "handoff")
         /\ SetPhase("HANDOFF_BRIDGE")
         /\ Finish(t, "bridge")
    ELSE conv' = c /\ UNCHANGED <<phase, ended>> /\ Finish(t, "done")

\* RuntimeToolBridge.execute up to its first await.  A refusal before dispatch is
\* a result like any other and goes on to the tool metric.
EnterTool(t, tool) ==
    LET refuse(r) == /\ toolResult' = [toolResult EXCEPT ![t] = r]
                     /\ Goto(t, "metric")
                     /\ UNCHANGED <<phase, ended, task>>
    IN  IF tool \notin Tools \/ tool \in MissingOpId THEN refuse("failed")
        ELSE IF phase = "EXITED" THEN refuse("closed")
        ELSE IF tool \in HasFiller
        THEN /\ SetPhase("FILLER_PLAYING")
             /\ Goto(t, "filler")
             /\ UNCHANGED <<toolResult, task>>
        ELSE /\ SetPhase("TOOL_PENDING")
             /\ task' = [task EXCEPT ![t] = "created"]
             /\ Goto(t, "tool")
             /\ UNCHANGED toolResult

\* The classifier (or the caller of process_turn) has named intent i.
Classified(t, i) ==
    /\ pc[t] = "classify"
    /\ LET c  == AddTurn(conv)
           tr == EvaluateTransition(c, i)
           handoff == tr.new = "handoff" \/ tr.trigger = "handoff"
       IN  IF tr.tool # "none"
           THEN /\ conv' = ApplyTransition(c, tr.new)
                /\ transition' = [transition EXCEPT ![t] = tr]
                /\ origin' = [origin EXCEPT ![t] = c.current]
                /\ shouldHandoff' = [shouldHandoff EXCEPT ![t] = handoff]
                /\ EnterTool(t, tr.tool)
           ELSE /\ Conclude(t, ApplyTransition(c, tr.new), tr, handoff)
                /\ UNCHANGED <<toolResult, task>>
    /\ UNCHANGED <<toolResults, inflight, receipts, answer, sink, mode>>

-----------------------------------------------------------------------------
(* RuntimeToolBridge *)

\* The tool's filler has been delivered; a close during it stops the dispatch.
ToolFillerDone(t) ==
    /\ pc[t] = "filler"
    /\ IF phase = "EXITED"
       THEN /\ toolResult' = [toolResult EXCEPT ![t] = "closed"]
            /\ Goto(t, "metric")
            /\ UNCHANGED <<phase, ended, task>>
       ELSE /\ SetPhase("TOOL_PENDING")
            /\ task' = [task EXCEPT ![t] = "created"]
            /\ Goto(t, "tool")
            /\ UNCHANGED toolResult
    /\ UNCHANGED <<conv, toolResults, inflight, locals, receipts, answer, sink, mode>>

\* Mutant: no check at the executor-start boundary.
BugEnterAnyway == TRUE

\* The last check before the executor is entered.
MayEnterExecutor == phase # "EXITED"

\* Mutant: a dry run reports success.
BugDryRunSucceeds == IF DryRun THEN "success" ELSE "failed"

\* What _execute answers by itself, without a ToolExecutor.
WithoutExecutor == IF DryRun THEN "simulated" ELSE "failed"

\* First step of the task that runs _execute.
StartExecutor(t) ==
    /\ task[t] = "created"
    /\ IF MayEnterExecutor /\ ToolExecutor
       THEN task' = [task EXCEPT ![t] = "running"] /\ UNCHANGED answer
       ELSE /\ task' = [task EXCEPT ![t] = "returned"]
            /\ answer' = [answer EXCEPT ![t] =
                             IF MayEnterExecutor THEN WithoutExecutor ELSE "closed"]
    /\ UNCHANGED <<context, inflight, pc, locals, toolResult, receipts, ended, sink, mode>>

\* The executor's task ends, with any answer, while the turn waits for it or after
\* a local timeout (then _done takes it out of _inflight).
ExecutorReturns(t, a) ==
    /\ task[t] = "running"
    /\ task' = [task EXCEPT ![t] = "returned"]
    /\ answer' = [answer EXCEPT ![t] = a]
    /\ inflight' = inflight \ {t}
    /\ UNCHANGED <<context, pc, locals, toolResult, receipts, ended, sink, mode>>

\* Mutant: a late answer reopens a closed call.
BugRestoreActive == "ACTIVE"

\* The phase every path out of the dispatch leaves.
PhaseAfterTool == IF phase = "EXITED" THEN "EXITED" ELSE "ACTIVE"

\* The turn resumes with its task's answer.
CollectTool(t) ==
    /\ pc[t] = "tool"
    /\ task[t] = "returned"
    /\ toolResult' = [toolResult EXCEPT ![t] = answer[t]]
    /\ IF answer[t] = "closed" THEN UNCHANGED <<phase, ended>> ELSE SetPhase(PhaseAfterTool)
    /\ toolResults' = IF answer[t] \in {"success", "simulated"}
                      THEN [toolResults EXCEPT ![transition[t].tool] =
                               IF answer[t] = "success" THEN "real" ELSE "simulated"]
                      ELSE toolResults
    /\ Goto(t, "metric")
    /\ UNCHANGED <<conv, inflight, locals, receipts, task, answer, sink, mode>>

\* Mutant: the task is forgotten after the local timeout.
BugForgetTask(t) == UNCHANGED <<inflight, task>>

\* _track_inflight: executor-owned work survives the local timeout.
Retain(t) == inflight' = inflight \cup {t} /\ UNCHANGED task

\* asyncio.wait_for cancels the work it gave up on.
CancelTask(t) == task' = [task EXCEPT ![t] = "cancelled"] /\ UNCHANGED inflight

\* Mutant: work the executor owns is awaited without a limit.
BugNoLocalTimeout(t) ==
    /\ pc[t] = "tool"
    /\ task[t] = "running"
    /\ Authority[transition[t].tool] = "runtime"
    /\ CancelTask(t)
    /\ toolResult' = [toolResult EXCEPT ![t] = "timeout"]
    /\ SetPhase(PhaseAfterTool)
    /\ Goto(t, "metric")
    /\ UNCHANGED <<conv, toolResults, locals, receipts, answer, sink, mode>>

\* timeout_ms elapses while the executor has not answered.
ToolTimeout(t) ==
    /\ pc[t] = "tool"
    /\ task[t] = "running"
    /\ IF Authority[transition[t].tool] = "executor"
       THEN Retain(t) /\ toolResult' = [toolResult EXCEPT ![t] = "uncertain"]
       ELSE CancelTask(t) /\ toolResult' = [toolResult EXCEPT ![t] = "timeout"]
    /\ SetPhase(PhaseAfterTool)
    /\ Goto(t, "metric")
    /\ UNCHANGED <<conv, toolResults, locals, receipts, answer, sink, mode>>

\* Mutant: an uncertain outcome is treated as a failure.
BugUncertainFails(t) ==
    CASE toolResult[t] = "blocked" -> FALSE
      [] toolResult[t] \in {"success", "simulated"} -> shouldHandoff[t]
      [] OTHER -> transition[t].tool \in FailureHandoff

\* should_handoff once the result is known: blocked and uncertain work never
\* falls back, other failures do what on_failure says.
FallbackHandoff(t) ==
    CASE toolResult[t] \in {"blocked", "uncertain"}  -> FALSE
      [] toolResult[t] \in {"success", "simulated"}  -> shouldHandoff[t]
      [] OTHER -> transition[t].tool \in FailureHandoff

\* Mutants: "previous" is taken for a state name; the turn stays where the tool
\* put it.
BugUnresolvedReturn(t) == ReturnTo
BugNoReturn(t) == conv.current

\* The state a turn goes back to when it does not hand off.
ReturnState(t) == IF ReturnTo = "previous" THEN origin[t] ELSE ReturnTo

\* _process_turn after the tool metric.  An unknown tool has no on_failure entry:
\* the lookup raises KeyError.
AfterTool(t) ==
    /\ pc[t] = "metric"
    /\ IF phase = "EXITED"
       THEN Finish(t, "ignored") /\ UNCHANGED <<phase, conv, ended>>
       ELSE IF transition[t].tool \notin Tools
       THEN Finish(t, "raised") /\ UNCHANGED <<phase, conv, ended>>
       ELSE LET c == IF FallbackHandoff(t) THEN conv
                     ELSE ApplyTransition(conv, ReturnState(t))
            IN  Conclude(t, c, transition[t], FallbackHandoff(t))
    /\ UNCHANGED <<toolResults, inflight, toolResult, receipts, task, answer, sink, mode>>

-----------------------------------------------------------------------------
(* RuntimeHandoff *)

\* All deliveries have a receipt: teardown, then on_transfer.
Teardown(t) == SetPhase("HANDOFF_TEARDOWN") /\ Goto(t, "transfer")

\* The bridge filler has been delivered.  The first delivery is dispatched at once;
\* without an executor every receipt is written at once.
BridgeFillerDone(t) ==
    /\ pc[t] = "bridge"
    /\ IF HandoffExecutor /\ Deliveries > 0
       THEN Goto(t, "deliver") /\ UNCHANGED <<phase, ended, receipts>>
       ELSE /\ receipts' = [receipts EXCEPT ![t] =
                  [i \in 1..Deliveries |-> IF DryRun
                                           THEN "simulated" ELSE "not_delivered"]]
            /\ Teardown(t)
    /\ UNCHANGED <<conv, toolResults, inflight, locals, toolResult, task, answer, sink, mode>>

\* Mutant: any exception counts as "no effect".
BugReceipt(a) == IF a = "returns" THEN "delivered" ELSE "failed"

\* What the adapter's answer is recorded as.
Receipt(a) == CASE a = "returns"  -> "delivered"
                [] a = "noEffect" -> "failed"
                [] a = "raises"   -> "unknown"

\* The handoff adapter answers for the delivery in progress.  It returns only when
\* the effect took place and raises HandoffNoEffectError only when it did not; any
\* other exception says nothing.
DeliveryReturns(t, a, effect) ==
    /\ pc[t] = "deliver"
    /\ (a = "returns") => effect
    /\ (a = "noEffect") => ~effect
    /\ LET i == Len(receipts[t]) + 1
       IN  /\ receipts' = [receipts EXCEPT ![t] = Append(@, Receipt(a))]
           /\ sink' = IF effect THEN sink \cup {<<t, i>>} ELSE sink
           /\ IF i < Deliveries THEN UNCHANGED <<phase, ended, pc>> ELSE Teardown(t)
    /\ UNCHANGED <<conv, toolResults, inflight, locals, toolResult, task, answer, mode>>

\* on_transfer has returned: the handoff ends the call.
TransferDone(t) ==
    /\ pc[t] = "transfer"
    /\ SetPhase("EXITED")
    /\ Goto(t, "done")
    /\ UNCHANGED <<conv, toolResults, inflight, locals, toolResult, receipts, task,
                   answer, sink, mode>>

\* The classifier, on_filler or on_transfer raises: process_turn propagates it and
\* leaves the context as the await found it.
CallbackRaises(t) ==
    /\ CallbacksFail
    /\ pc[t] \in {"classify", "filler", "bridge", "transfer"}
    /\ Finish(t, "raised")
    /\ UNCHANGED <<context, inflight, toolResult, receipts, task, answer, ended, sink, mode>>

-----------------------------------------------------------------------------
ClassifierAnswers(t) == \E i \in Intents : Classified(t, i)

ToolAnswers(t) ==
    \E a \in {"success", "simulated", "blocked", "failed"} : ExecutorReturns(t, a)

DeliveryAnswers(t) ==
    \E a \in {"returns", "noEffect", "raises"}, effect \in BOOLEAN :
        DeliveryReturns(t, a, effect)

Next ==
    \/ Close
    \/ \E t \in Turns :
          \/ BeginTurn(t)
          \/ ClassifierAnswers(t)
          \/ ToolFillerDone(t)
          \/ StartExecutor(t)
          \/ ToolAnswers(t)
          \/ CollectTool(t)
          \/ ToolTimeout(t)
          \/ AfterTool(t)
          \/ BridgeFillerDone(t)
          \/ DeliveryAnswers(t)
          \/ TransferDone(t)
          \/ CallbackRaises(t)

Spec == Init /\ [][Next]_vars

\* The event loop runs what is ready, the timer of a dispatch fires, and the
\* classifier, the callbacks and the handoff adapter answer.  Nothing is assumed
\* of the tool executor.
TurnProgress(t) ==
    \/ ClassifierAnswers(t)
    \/ ToolFillerDone(t)
    \/ StartExecutor(t)
    \/ CollectTool(t)
    \/ ToolTimeout(t)
    \/ AfterTool(t)
    \/ BridgeFillerDone(t)
    \/ DeliveryAnswers(t)
    \/ TransferDone(t)

FairSpec == Spec /\ \A t \in Turns : WF_vars(TurnProgress(t))

-----------------------------------------------------------------------------
\* Every variable ranges over what the code can store in it.
TypeOK ==
    /\ phase \in Phases
    /\ conv \in Conversation
    /\ toolResults \in [Tools -> {"none", "real", "simulated"}]
    /\ inflight \subseteq Turns
    /\ pc \in [Turns -> {"idle"} \cup Running \cup Ended]
    /\ transition \in [Turns -> Transitions]
    /\ origin \in [Turns -> StateNames]
    /\ shouldHandoff \in [Turns -> BOOLEAN]
    /\ toolResult \in [Turns -> Results]
    /\ receipts \in [Turns -> Seq(ReceiptStatus)]
    /\ task \in [Turns -> {"none", "created", "running", "returned", "cancelled"}]
    /\ answer \in [Turns -> Answers \cup {"none"}]
    /\ mode \in Modes
    /\ ended \in BOOLEAN
    /\ sink \subseteq Turns \X Nat

Quiet == \A t \in Turns : pc[t] \notin Running
HandsOff(t) == pc[t] \in HandoffPcs \/ receipts[t] # <<>>

\* A turn never has its handoff under way while its own tool executor may still be
\* acting: work whose outcome is uncertain does not get a fallback beside it
\* (_process_turn lines 548-563, whatever on_failure says).
NoFallbackBesideLiveExecutor ==
    \A t \in Turns : HandsOff(t) => task[t] \notin {"created", "running"}

\* Executor-owned work that outlives its turn's wait is retained in _inflight until
\* it ends, and nothing else is in there.
LateWorkRetained ==
    \A t \in Turns : t \in inflight <=> task[t] = "running" /\ pc[t] # "tool"

\* A receipt says "delivered" only of an effect that took place, "failed",
\* "simulated" and "not_delivered" only of one that did not; a lost
\* acknowledgment is "unknown" and never "failed".
ReceiptsTruthful ==
    \A t \in Turns : \A i \in DOMAIN receipts[t] :
        /\ receipts[t][i] = "delivered" => <<t, i>> \in sink
        /\ receipts[t][i] \in {"failed", "simulated", "not_delivered"} => <<t, i>> \notin sink

\* How a turn and its executor's task run together: the strengthening that makes the
\* two properties above inductive.  A task outlives its turn's wait only with the
\* result "uncertain", and receipts only exist once a handoff has begun.
TaskInv ==
    \A t \in Turns :
        /\ pc[t] \in {"idle", "classify", "filler"} => task[t] = "none"
        /\ task[t] = "created" => pc[t] = "tool"
        /\ task[t] = "running" =>
              \/ pc[t] = "tool"
              \/ pc[t] \in {"metric"} \cup Ended /\ toolResult[t] = "uncertain"
        /\ t \in inflight <=> task[t] = "running" /\ pc[t] # "tool"
        /\ pc[t] \in {"idle", "classify", "filler", "tool", "metric"} => receipts[t] = <<>>
        /\ HandsOff(t) => task[t] \notin {"created", "running"}

\* Whatever late answer, timeout or concurrent turn comes after a close, only the
\* handoff protocol's own phase writes can take the phase away from EXITED: the
\* tool path never restores ACTIVE.
ToolPathNeverReopens ==
    [][phase = "EXITED" /\ phase' # "EXITED"
          => phase' \in {"HANDOFF_BRIDGE", "HANDOFF_TEARDOWN"}]_vars

\* No tool executor is entered once the call has been closed or has ended, at
\* whichever await the close arrives.
NoToolEntryAfterEnd ==
    [][\A t \in Turns : task[t] = "created" /\ task'[t] = "running" => ~ended]_vars

\* A call is handed off by at most one of its turns.
OneHandoffPerCall == \A t, u \in Turns : HandsOff(t) /\ HandsOff(u) => t = u

\* What one-turn-at-a-time and callbacks that do not raise add: an ended call is at
\* EXITED except inside the one handoff that may be under way, and once a turn has
\* handed off no other turn runs again.
SerialInv ==
    /\ \A t, u \in Turns : pc[t] \in Running /\ pc[u] \in Running => t = u
    /\ phase = "EXITED" => ended
    /\ ended => phase = "EXITED" \/ \E t \in Turns : pc[t] \in HandoffPcs
    /\ \A t \in Turns : HandsOff(t) => pc[t] \in HandoffPcs \/ phase = "EXITED"
    /\ \A t, u \in Turns : HandsOff(t) /\ pc[u] \in Running => t = u
    /\ OneHandoffPerCall

\* Between turns an open call is never left in the transient tool_call state.
ToolStateIsTransient == Quiet /\ phase # "EXITED" => conv.current # "tool_call"

\* Between turns an open call has not used up the max_turns of its state: the turn
\* that reaches the limit has already escalated.
GuardrailRespected ==
    Quiet /\ phase # "EXITED" /\ conv.current \in States
        => MaxTurns[conv.current] = 0 \/ conv.turns < MaxTurns[conv.current]

\* Success and delivery are never invented: they need an executor.
NothingInvented ==
    /\ ToolExecutor \/ \A t \in Turns : toolResult[t] # "success"
    /\ ToolExecutor \/ \A k \in Tools : toolResults[k] # "real"
    /\ HandoffExecutor \/ \A t \in Turns : "delivered" \notin {receipts[t][i] : i \in DOMAIN receipts[t]}

\* A turn that has begun ends, although the tool executor may never answer.
TurnsEnd == \A t \in Turns : pc[t] = "classify" ~> pc[t] \in Ended

\* A handoff that has begun ends the call, whatever the deliveries answer, unless a
\* callback raises.
HandoffEndsCall == \A t \in Turns : pc[t] = "bridge" ~> phase = "EXITED" \/ pc[t] = "raised"

\* What holds of a conversation between its turns.
ConversationInv == ToolStateIsTransient /\ GuardrailRespected

\* Turns and handoffs both end.
EverythingEnds == TurnsEnd /\ HandoffEndsCall

-----------------------------------------------------------------------------
(* What the repository says and the code does not keep (README, section 7). *)

\* "Runtime closure is monotonic" (web_session.py:127).
ClosureIsMonotonic == [][phase = "EXITED" => phase' = "EXITED"]_vars

\* "The sink may have acted before its acknowledgment was lost. No automatic
\* retries" (runtime.py:300-301): an effect that may have taken place is not
\* dispatched again by a later turn of the call.
NoDeliveryRetried ==
    \A t, u \in Turns : t # u =>
        \A i \in DOMAIN receipts[t] :
            receipts[t][i] \in {"delivered", "unknown"}
                => i \notin DOMAIN receipts[u] /\ ~(pc[u] = "deliver" /\ Len(receipts[u]) + 1 = i)

=============================================================================
