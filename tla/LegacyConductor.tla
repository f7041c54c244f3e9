---------------------------- MODULE LegacyConductor ----------------------------
(* integrations/pipecat.py over the VoxMaestro class of conductor.py: frame    *)
(* processors, one call each, that share a conductor and its two callbacks.    *)
(* A processor handles one transcript at a time; it waits in its classifier    *)
(* and in the tool call.  The outcome of evaluate_transition is any that a     *)
(* configuration may give; CallRuntime models how it comes about.              *)
EXTENDS Naturals, SequencesExt

CONSTANTS
  Processors,
  LegacyStates,   \* of the configuration; "tool_call" is one of them
  MaxLegacyTurns, \* bound: turns of all processors
  NoProcessor

ASSUME LegacyAssumption ==
  /\ {"initial", "tool_call"} \subseteq LegacyStates /\ "none" \notin LegacyStates
  /\ MaxLegacyTurns \in Nat /\ NoProcessor \notin Processors

VARIABLES
  wired,      \* the processor whose callbacks the conductor has
  started,    \* the processors that started a call, in order
  now, previous, phase,   \* of a processor's call
  where,      \* "idle", "classifying" or "calling" (its tool)
  chosen,     \* the transition of the turn
  outputs,    \* _output_queue: frames of any call
  frames,     \* what the last turn returned to the pipeline
  turnsLeft,
  interrupted \* a turn of it was cancelled

legacyVars == <<wired, started, now, previous, phase, where, chosen, outputs, frames, turnsLeft, interrupted>>
callVars == <<now, previous, phase>>

Stays(p) == [ to |-> now[p], tool |-> "none", trigger |-> "none" ]

(* evaluate_transition: a trigger that names a state leads there, a tool of    *)
(* the configuration through "tool_call", anything else to a state that the   *)
(* configuration gives; an unknown tool is fired all the same.                *)
Outcomes ==
  { t \in [ to : LegacyStates, tool : {"none", "known", "unknown"}, trigger : {"none", "graceful_exit", "handoff"} ] :
      /\ t.trigger \in LegacyStates => t.to = t.trigger
      /\ t.trigger \notin LegacyStates /\ t.tool = "known" => t.to = "tool_call" }

NoChoice == [ to |-> "initial", tool |-> "none", trigger |-> "none" ]

LegacyInit ==
  /\ wired = NoProcessor /\ started = <<>>
  /\ now = [ p \in Processors |-> "initial" ] /\ previous = [ p \in Processors |-> "initial" ]
  /\ phase = [ p \in Processors |-> "active" ] /\ where = [ p \in Processors |-> "none" ]
  /\ chosen = [ p \in Processors |-> NoChoice ]
  /\ outputs = [ p \in Processors |-> <<>> ] /\ frames = [ p \in Processors |-> <<>> ]
  /\ turnsLeft = MaxLegacyTurns
  /\ interrupted = [ p \in Processors |-> FALSE ]

(* start_call takes the conductor's callbacks over, whoever has them.         *)
BugWires(p) == IF wired = NoProcessor THEN p ELSE wired
Wires(p) == p
StartLegacyCall(p) ==
  /\ where[p] = "none" /\ where' = [ where EXCEPT ![p] = "idle" ]
  /\ wired' = Wires(p) /\ started' = Append(started, p)
  /\ UNCHANGED <<callVars, chosen, outputs, frames, turnsLeft, interrupted>>

Note(p, kind, from, to) == [ of |-> p, kind |-> kind, from |-> from, to |-> to ]
Frame(p, kind) == Note(p, kind, "", "")
Played(p, kinds) == [ outputs EXCEPT ![wired] = @ \o [ i \in 1..Len(kinds) |-> Frame(p, kinds[i]) ] ]

(* process_frame up to the classifier; a frame without text is nothing.       *)
Transcript(p) ==
  /\ where[p] = "idle" /\ turnsLeft > 0
  /\ where' = [ where EXCEPT ![p] = "classifying" ]
  /\ turnsLeft' = turnsLeft - 1
  /\ frames' = [ frames EXCEPT ![p] = <<>> ]
  /\ UNCHANGED <<wired, started, callVars, chosen, outputs, interrupted>>

(* apply_transition, with the previous state that StateChangeFrame compares.  *)
BugPreviousOf(p, t) == previous[p]
PreviousOf(p, t) == IF t.to = now[p] THEN previous[p] ELSE now[p]

(* The handoff plays its filler and its teardown and ends the call.           *)
HandsOver(p) == Played(p, <<"filler", "handoff">>)

(* The rest of a turn, from the handoff on, without a wait: the transition is *)
(* applied, and the frames of the turn go first, then what the queue holds.   *)
(* `at' is the phase that the tool left; a call that is `late', past its      *)
(* longest duration, is handed off without a transition.                      *)
Completes(p, t, tool, handsOff, late, at) ==
  LET queued == IF handsOff THEN HandsOver(p) ELSE outputs
      was == IF late THEN previous[p] ELSE PreviousOf(p, t)
      is == IF late THEN now[p] ELSE t.to
      Given(b, frame) == IF b THEN <<frame>> ELSE <<>>
  IN /\ now' = [ now EXCEPT ![p] = is ] /\ previous' = [ previous EXCEPT ![p] = was ]
     /\ frames' = [ frames EXCEPT ![p] =
          Given(is # was, Note(p, "state", was, is)) \o Given(t.tool = "known", Frame(p, "filler"))
          \o Given(tool # "none", Frame(p, tool)) \o Given(handsOff, Frame(p, "handoff")) \o queued[p] ]
     /\ outputs' = [ queued EXCEPT ![p] = <<>> ] /\ where' = [ where EXCEPT ![p] = "idle" ]
     /\ phase' = [ phase EXCEPT ![p] = IF handsOff \/ t.trigger = "graceful_exit" THEN "exited" ELSE at ]
     /\ UNCHANGED <<wired, started, turnsLeft, interrupted>>

(* process_turn up to its tool call, or to its end.                           *)
PastDuration(p) ==
  /\ where[p] = "classifying" /\ Completes(p, Stays(p), "none", TRUE, TRUE, phase[p])
  /\ UNCHANGED chosen

Decides(p) ==
  /\ where[p] = "classifying"
  /\ \E t \in Outcomes :
       /\ t.tool # "known"
       /\ Completes(p, t, IF t.tool = "unknown" THEN "failure" ELSE "none", t.trigger = "handoff", FALSE, phase[p])
  /\ UNCHANGED chosen

Fires(p) ==
  /\ where[p] = "classifying" /\ where' = [ where EXCEPT ![p] = "calling" ]
  /\ \E t \in Outcomes : t.tool = "known" /\ chosen' = [ chosen EXCEPT ![p] = t ]
  /\ outputs' = Played(p, <<"filler">>) /\ phase' = [ phase EXCEPT ![p] = "pending" ]
  /\ UNCHANGED <<wired, started, now, previous, frames, turnsLeft, interrupted>>

(* The tool answers, fails or is timed out; a failure may hand the call off.  *)
PhaseAfter(tool) == "active"
ToolEnds(p) ==
  /\ where[p] = "calling"
  /\ \E tool \in {"answer", "failure"} : \E fallback \in BOOLEAN :
       /\ fallback => tool = "failure"
       /\ Completes(p, chosen[p], tool, fallback \/ chosen[p].trigger = "handoff", FALSE, PhaseAfter(tool))
  /\ chosen' = [ chosen EXCEPT ![p] = NoChoice ]

(* The pipeline cancels process_frame.                                        *)
Interrupt(p) ==
  /\ where[p] \in {"classifying", "calling"} /\ where' = [ where EXCEPT ![p] = "idle" ]
  /\ interrupted' = [ interrupted EXCEPT ![p] = TRUE ]
  /\ UNCHANGED <<wired, started, callVars, chosen, outputs, frames, turnsLeft>>

LegacyNext ==
  \E p \in Processors :
    \/ StartLegacyCall(p) \/ Transcript(p) \/ PastDuration(p) \/ Decides(p) \/ Fires(p)
    \/ ToolEnds(p) \/ Interrupt(p)

-------------------------------------------------------------------------------
Frames ==
  [ of : Processors, kind : {"state", "filler", "answer", "failure", "handoff"},
    from : LegacyStates \cup {""}, to : LegacyStates \cup {""} ]
LegacyTypeOK ==
  /\ wired \in Processors \cup {NoProcessor} /\ started \in Seq(Processors)
  /\ now \in [ Processors -> LegacyStates ] /\ previous \in [ Processors -> LegacyStates ]
  /\ phase \in [ Processors -> {"active", "pending", "exited"} ]
  /\ where \in [ Processors -> {"none", "idle", "classifying", "calling"} ]
  /\ outputs \in [ Processors -> Seq(Frames) ] /\ frames \in [ Processors -> Seq(Frames) ]
  /\ turnsLeft \in 0..MaxLegacyTurns /\ interrupted \in [ Processors -> BOOLEAN ]

(* pipecat.py start_call: the fillers and handoffs of a call go to the call's *)
(* own processor or to one that started after it, never to an earlier one: a  *)
(* processor with the newest call hears only what older calls add to its own. *)
NoEarlierCallHears ==
  \A q \in Processors : \A f \in ToSet(outputs[q]) \cup ToSet(frames[q]) :
    f.of # q => \E i, j \in 1..Len(started) : i < j /\ started[i] = f.of /\ started[j] = q

(* pipecat.py process_frame: it compares the state with the previous one, not *)
(* with the state before the turn, and still no change of state goes without  *)
(* its StateChangeFrame, with the state that it left.                         *)
ChangeAnnounced ==
  [][ \A p \in Processors :
        now'[p] # now[p] => Note(p, "state", now[p], now'[p]) \in ToSet(frames'[p]) ]_legacyVars

(* conductor.py ToolBridge and HandoffProtocol: between two turns a call is   *)
(* active or over, unless one of its turns was cancelled in a tool call.      *)
PhaseAtRest ==
  \A p \in Processors :
    where[p] = "idle" /\ ~interrupted[p] => phase[p] \in {"active", "exited"}

(* Whose callbacks are called, and in which phase a turn leaves its call.     *)
ProcessorInv == LegacyTypeOK /\ NoEarlierCallHears /\ PhaseAtRest
===============================================================================
