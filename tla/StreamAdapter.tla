---------------------------- MODULE StreamAdapter ----------------------------
(* integrations/runtime_stream.py: iterations over one processor.  The turn   *)
(* of an iteration is a task that puts frames into the processor's one queue; *)
(* another task of it, its reader, waits for one frame at a time.  A consumer *)
(* may stop between two frames or be cancelled while it waits for one, and    *)
(* nothing stops it from starting the next iteration before.                  *)
EXTENDS Naturals, SequencesExt

CONSTANTS
  MaxIterations, MaxCalls, MaxFrames   \* bounds: uses of iter_frames, calls, frames of all turns

ASSUME StreamAssumption == MaxIterations \in Nat /\ MaxCalls \in Nat /\ MaxFrames \in Nat

(* Both are numbered in the order in which they begin. *)
Iterations == 1..MaxIterations
LiveCalls == 1..MaxCalls
NoCall == 0

VARIABLES
  session,     \* self._session
  callState,   \* callState[c]: current_state of the call, one of two
  iter,        \* where the iteration is; see Live and Over
  callOf,      \* the call whose process_turn the iteration runs
  before,      \* state_before
  turn,        \* "none", "running", "done" or "raised"
  emitted,     \* frames that the turn put so far
  changed,     \* the turn left the state that it found
  queue,       \* self._queue: of frames <<iteration, number>>
  reader,      \* queue_task: <<"none">>, <<"waits">> or <<"has", frame>>
  over,        \* at a yield: turn_task was in done
  yielded,     \* the frames handed to the consumer
  told,        \* a StateChangeFrame was
  disturbed    \* another iteration, a left-over task or frame, or a start met it

streamVars == <<session, callState, iter, callOf, before, turn, emitted, changed, queue, reader, over,
                yielded, told, disturbed>>
turnVars == <<callState, turn, emitted, changed>>
iterVars == <<session, iter, callOf, before, over, yielded, told, disturbed>>

Live == {"waiting", "yielding", "draining"}
Over == {"done", "raised", "cancelled", "abandoned"}

StreamInit ==
  /\ session = NoCall /\ callState = [ c \in LiveCalls |-> FALSE ]
  /\ iter = [ i \in Iterations |-> "new" ] /\ callOf = [ i \in Iterations |-> NoCall ]
  /\ before = [ i \in Iterations |-> FALSE ] /\ turn = [ i \in Iterations |-> "none" ]
  /\ emitted = [ i \in Iterations |-> 0 ] /\ changed = [ i \in Iterations |-> FALSE ]
  /\ queue = <<>> /\ reader = [ i \in Iterations |-> <<"none">> ]
  /\ over = [ i \in Iterations |-> FALSE ] /\ yielded = [ i \in Iterations |-> <<>> ]
  /\ told = [ i \in Iterations |-> FALSE ] /\ disturbed = [ i \in Iterations |-> FALSE ]

Busy(i) == iter[i] \in Live \/ turn[i] = "running" \/ reader[i] # <<"none">>

(* start_call, with the iterations of the call before it going on.            *)
StartLiveCall(c) ==
  /\ c = session + 1 /\ session' = c
  /\ disturbed' = [ i \in Iterations |-> disturbed[i] \/ iter[i] \in Live ]
  /\ UNCHANGED <<turnVars, iter, callOf, before, over, yielded, told, queue, reader>>

(* iter_frames up to its first wait, the one in its classifier apart: nothing *)
(* is kept from before it.                                                    *)
StateBefore(i) == callState[session]
Begins(i) ==
  /\ iter[i] = "new" /\ (\A j \in 1..i - 1 : iter[j] # "new")
  /\ session # NoCall /\ iter' = [ iter EXCEPT ![i] = "waiting" ]
  /\ callOf' = [ callOf EXCEPT ![i] = session ]
  /\ before' = [ before EXCEPT ![i] = StateBefore(i) ]
  /\ turn' = [ turn EXCEPT ![i] = "running" ] /\ reader' = [ reader EXCEPT ![i] = <<"waits">> ]
  /\ disturbed' = [ j \in Iterations |->
       IF j = i THEN queue # <<>> \/ \E k \in Iterations \ {i} : Busy(k)
                ELSE disturbed[j] \/ iter[j] \in Live ]
  /\ UNCHANGED <<session, callState, emitted, changed, over, yielded, told, queue>>

(* The turn.  No lock keeps two turns of a call apart.                        *)
Put == { f \in Iterations \X (1..MaxFrames) : f[2] <= emitted[f[1]] }
Emit(i) ==
  /\ turn[i] = "running" /\ Cardinality(Put) < MaxFrames
  /\ emitted' = [ emitted EXCEPT ![i] = @ + 1 ] /\ queue' = Append(queue, <<i, emitted[i] + 1>>)
  /\ UNCHANGED <<iterVars, callState, turn, changed, reader>>

(* The turn leaves the state that it found; one that it only passes through,  *)
(* for a tool, is no change.                                                  *)
ChangeState(i) ==
  /\ turn[i] = "running" /\ ~changed[i]
  /\ callState' = [ callState EXCEPT ![callOf[i]] = ~@ ] /\ changed' = [ changed EXCEPT ![i] = TRUE ]
  /\ UNCHANGED <<iterVars, turn, emitted, queue, reader>>

TurnEnds(i) ==
  /\ turn[i] = "running" /\ \E t \in {"done", "raised"} : turn' = [ turn EXCEPT ![i] = t ]
  /\ UNCHANGED <<iterVars, callState, emitted, changed, queue, reader>>

(* Whichever reader runs first takes the head of the queue.                   *)
Read(i) ==
  /\ reader[i] = <<"waits">> /\ queue # <<>>
  /\ reader' = [ reader EXCEPT ![i] = <<"has", Head(queue)>> ] /\ queue' = Tail(queue)
  /\ UNCHANGED <<iterVars, turnVars>>

Ended(i) == turn[i] \in {"done", "raised"}
HasFrame(i) == reader[i][1] = "has"

(* asyncio.wait returns with a frame: it is yielded.                          *)
Yield(i) ==
  /\ iter[i] = "waiting" /\ HasFrame(i) /\ iter' = [ iter EXCEPT ![i] = "yielding" ]
  /\ yielded' = [ yielded EXCEPT ![i] = Append(@, reader[i][2]) ]
  /\ over' = [ over EXCEPT ![i] = Ended(i) ] /\ reader' = [ reader EXCEPT ![i] = <<"none">> ]
  /\ UNCHANGED <<turnVars, session, callOf, before, told, disturbed, queue>>

(* The turn is seen to be over.  One that raised ends the iteration before    *)
(* its reader is cancelled; another cancels it, and no frame goes with it.    *)
BugCancelled(i) == reader
Cancelled(i) == [ reader EXCEPT ![i] = <<"none">> ]
TurnOver(i) ==
  IF turn[i] = "raised"
  THEN iter' = [ iter EXCEPT ![i] = "raised" ] /\ UNCHANGED reader
  ELSE iter' = [ iter EXCEPT ![i] = "draining" ] /\ reader' = Cancelled(i)

(* The consumer asks for the next frame.                                      *)
Resume(i) ==
  /\ iter[i] = "yielding"
  /\ \/ over[i] /\ TurnOver(i)
     \/ /\ ~over[i] /\ iter' = [ iter EXCEPT ![i] = "waiting" ]
        /\ reader' = IF Ended(i) THEN reader ELSE [ reader EXCEPT ![i] = <<"waits">> ]
  /\ UNCHANGED <<turnVars, session, callOf, before, over, yielded, told, disturbed, queue>>

(* asyncio.wait returns without a frame.                                      *)
BugWaitSet(i) == HasFrame(i)
WaitSet(i) == Ended(i)
SeesEnd(i) ==
  /\ iter[i] = "waiting" /\ WaitSet(i) /\ ~HasFrame(i) /\ TurnOver(i)
  /\ UNCHANGED <<turnVars, session, callOf, before, over, yielded, told, disturbed, queue>>

(* What is left in the queue is yielded frame by frame; then the state of the *)
(* processor's call is compared, and the iteration ends with the tool result. *)
Drained == queue = <<>>
Drain(i) ==
  /\ iter[i] = "draining" /\ queue # <<>> /\ queue' = Tail(queue)
  /\ yielded' = [ yielded EXCEPT ![i] = Append(@, Head(queue)) ]
  /\ UNCHANGED <<turnVars, session, iter, callOf, before, over, told, disturbed, reader>>

Finish(i) ==
  /\ iter[i] = "draining" /\ Drained /\ iter' = [ iter EXCEPT ![i] = "done" ]
  /\ told' = [ told EXCEPT ![i] = callState[session] # before[i] ]
  /\ before' = [ before EXCEPT ![i] = FALSE ] /\ over' = [ over EXCEPT ![i] = FALSE ]
  /\ UNCHANGED <<turnVars, session, callOf, yielded, disturbed, queue, reader>>

(* The consumer stops at a yield, or its task is cancelled at an await: the   *)
(* turn goes on by itself, and so does a reader.                              *)
Stop(i) ==
  /\ \/ iter[i] \in {"yielding", "draining"} /\ iter' = [ iter EXCEPT ![i] = "abandoned" ]
     \/ iter[i] = "waiting" /\ iter' = [ iter EXCEPT ![i] = "cancelled" ]
  /\ UNCHANGED <<turnVars, session, callOf, before, over, yielded, told, disturbed, queue, reader>>

Consume(i) == Yield(i) \/ Resume(i) \/ SeesEnd(i) \/ Drain(i) \/ Finish(i)
Works(i) == TurnEnds(i) \/ Read(i)
StreamNext ==
  \/ \E c \in LiveCalls : StartLiveCall(c)
  \/ \E i \in Iterations :
       Begins(i) \/ Consume(i) \/ Works(i) \/ Emit(i) \/ ChangeState(i) \/ Stop(i)

-------------------------------------------------------------------------------
StreamTypeOK ==
  /\ session \in LiveCalls \cup {NoCall} /\ callState \in [ LiveCalls -> BOOLEAN ]
  /\ iter \in [ Iterations -> {"new"} \cup Live \cup Over ]
  /\ callOf \in [ Iterations -> LiveCalls \cup {NoCall} ]
  /\ turn \in [ Iterations -> {"none", "running", "done", "raised"} ]
  /\ emitted \in [ Iterations -> 0..MaxFrames ] /\ changed \in [ Iterations -> BOOLEAN ]
  /\ before \in [ Iterations -> BOOLEAN ] /\ told \in [ Iterations -> BOOLEAN ]
  /\ over \in [ Iterations -> BOOLEAN ] /\ disturbed \in [ Iterations -> BOOLEAN ]

(* runtime_stream.py iter_frames: an iteration that no other one met, and     *)
(* that found no task and no frame left by an earlier one, has yielded every  *)
(* frame of its turn, in order, and nothing else, however the reader, the end *)
(* of the turn and the consumer interleave.                                   *)
FramesComplete ==
  \A i \in Iterations :
    iter[i] = "done" /\ ~disturbed[i] => yielded[i] = [ n \in 1..emitted[i] |-> <<i, n>> ]

(* Such an iteration ends with a StateChangeFrame just when its turn changed  *)
(* the state, although it reads the processor's call anew at its end.         *)
StateTold ==
  \A i \in Iterations : iter[i] = "done" /\ ~disturbed[i] => (told[i] <=> changed[i])

(* Met or not, a frame that was put is in the queue, was yielded to some      *)
(* consumer, or is with a reader; and a reader outlives its iteration only    *)
(* when the turn raised or the iteration was cancelled.                       *)
LostOnlyToOrphans ==
  /\ \A i \in Iterations : \A n \in 1..emitted[i] :
       \/ \E k \in 1..Len(queue) : queue[k] = <<i, n>>
       \/ \E j \in Iterations :
            \/ \E k \in 1..Len(yielded[j]) : yielded[j][k] = <<i, n>>
            \/ reader[j] = <<"has", <<i, n>>>>
  /\ \A j \in Iterations :
       reader[j] # <<"none">> => iter[j] \in {"waiting", "raised", "cancelled"}

(* What consumers of the one queue get.                                       *)
AdapterInv == StreamTypeOK /\ FramesComplete /\ StateTold /\ LostOnlyToOrphans
==============================================================================
