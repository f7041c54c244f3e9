---------------------------- MODULE SpeechStack ----------------------------
(***************************************************************************)
(* Text-to-speech of several sessions that share one backend:              *)
(* SessionAudio (tts/session.py), TTSWorker and WriterGate (tts/worker.py),*)
(* TurnWriter (tts/writer.py) and PocketTTSBackend (tts/pocket.py).        *)
(*                                                                         *)
(* speak() runs on the event loop and reads a queue that a producer thread *)
(* fills from the backend's blocking generator.  A step of the loop is the *)
(* code between two awaits; a step of a producer is the code between two   *)
(* accesses to something shared (the stream's cancel event, the backend's  *)
(* cancel flags, the queue).                                               *)
(*                                                                         *)
(* A request is one call of speak().  Turn ids are unique within a session *)
(* (the web adapter numbers them); whether two sessions share some is a    *)
(* constant.                                                               *)
(***************************************************************************)
EXTENDS Naturals, Sequences, FiniteSets

CONSTANTS
    Sessions,
    Turns,        \* turn ids
    MessageTurns, \* those barge_in is called with: the greeting is not one
    Requests,     \* the speak() calls
    SessionOf,    \* [Requests -> Sessions]
    TurnOf,       \* [Requests -> Turns]
    Chunks,       \* raw chunks the model yields for a request
    ModelFails,   \* the model's stream may raise
    NoTurn        \* TurnWriter._current is None

ASSUME SpeechAssumption ==
    /\ SessionOf \in [Requests -> Sessions]
    /\ TurnOf \in [Requests -> Turns]
    /\ \A r, q \in Requests : SessionOf[r] = SessionOf[q] /\ TurnOf[r] = TurnOf[q] => r = q
    /\ MessageTurns \subseteq Turns
    /\ Chunks \in Nat \ {0}
    /\ ModelFails \in BOOLEAN
    /\ NoTurn \notin Turns

VARIABLES
    current,   \* TurnWriter._current of each session
    active,    \* SessionAudio._active
    pending,   \* keys of SessionAudio._pending_cancel
    open,      \* sessions the backend has a voice state for
    flags,     \* PocketTTSBackend._cancel
    speech,    \* where each speak() is
    event,     \* the stream's threading.Event is set
    thread,    \* where the producer thread of each stream is
    made,      \* raw chunks the generator has taken from the model
    queue,     \* the stream's asyncio.Queue
    sent,      \* chunks of each request that reached the sink
    cut        \* observation: requests that were interrupted, or failed

loopVars    == <<current, active, pending, open, speech, sent>>
threadVars  == <<thread, made>>
vars == <<current, active, pending, open, flags, speech, event, thread, made, queue,
          sent, cut>>

-----------------------------------------------------------------------------
\* Queue items: the i-th chunk, an exception, or the sentinel.
Chunk(i)   == [kind |-> "chunk", seq |-> i]
Error      == [kind |-> "error", seq |-> 0]
Sentinel   == [kind |-> "end", seq |-> 0]
Items      == {Chunk(i) : i \in 1..Chunks} \cup {Error, Sentinel}

InProgress(r)   == speech[r] \in {"streaming", "joining"}
Streams(r, s, t) == speech[r] = "streaming" /\ SessionOf[r] = s /\ TurnOf[r] = t

Init ==
    /\ current = [s \in Sessions |-> NoTurn]
    /\ active = [s \in Sessions |-> {}]
    /\ pending = [s \in Sessions |-> {}]
    /\ open = Sessions
    /\ flags = {}
    /\ speech = [r \in Requests |-> "idle"]
    /\ event = [r \in Requests |-> FALSE]
    /\ thread = [r \in Requests |-> "none"]
    /\ made = [r \in Requests |-> 0]
    /\ queue = [r \in Requests |-> <<>>]
    /\ sent = [r \in Requests |-> <<>>]
    /\ cut = {}

\* The live turn of s becomes t: what the turn that was live has still to say is cut.
SetLive(s, t) ==
    /\ current' = [current EXCEPT ![s] = t]
    /\ cut' = cut \cup {r \in Requests : /\ SessionOf[r] = s
                                        /\ TurnOf[r] = current[s]
                                        /\ TurnOf[r] # t
                                        /\ speech[r] # "done"}

\* _cancel_turn and TTSWorker.cancel: the event of the stream, if there is one, and
\* the backend's flag in any case.
CancelTurn(s, t) ==
    /\ pending' = IF t \in active[s] THEN [pending EXCEPT ![s] = @ \cup {t}] ELSE pending
    /\ event' = [r \in Requests |-> event[r] \/ Streams(r, s, t)]
    /\ flags' = flags \cup {t}

NoCancel == UNCHANGED <<pending, event, flags>>

-----------------------------------------------------------------------------
(* SessionAudio, on the event loop *)

\* speak() up to the first await: the turn goes live and the stream's thread starts.
Speak(r) ==
    /\ speech[r] = "idle"
    /\ SetLive(SessionOf[r], TurnOf[r])
    /\ active' = [active EXCEPT ![SessionOf[r]] = @ \cup {TurnOf[r]}]
    /\ speech' = [speech EXCEPT ![r] = "streaming"]
    /\ thread' = [thread EXCEPT ![r] = "started"]
    /\ UNCHANGED <<pending, open, flags, event, made, queue, sent>>

\* barge_in(t), called with the turn of a message before that turn speaks.
BargeIn(s, t) ==
    /\ t \in MessageTurns
    /\ \A r \in Requests : SessionOf[r] = s /\ TurnOf[r] = t => speech[r] = "idle"
    /\ SetLive(s, t)
    /\ IF current[s] \in {NoTurn, t} THEN NoCancel ELSE CancelTurn(s, current[s])
    /\ UNCHANGED <<active, open, speech, thread, made, queue, sent>>

Flush(s) ==
    /\ SetLive(s, NoTurn)
    /\ IF current[s] = NoTurn THEN NoCancel ELSE CancelTurn(s, current[s])
    /\ UNCHANGED <<active, speech, thread, made, queue, sent>>

\* The end of a session: flush() and the backend's close_session().
EndSession(s) ==
    /\ s \in open
    /\ Flush(s)
    /\ open' = open \ {s}

\* The `finally` of stream(): the backend is told to stop a stream that was torn
\* down before its end by anything but an explicit cancel.
LeaveStream(r, completed) ==
    /\ event' = [event EXCEPT ![r] = TRUE]
    /\ flags' = IF completed \/ event[r] THEN flags ELSE flags \cup {TurnOf[r]}
    /\ speech' = [speech EXCEPT ![r] = "joining"]
    /\ queue' = [queue EXCEPT ![r] = <<>>]

\* Mutant: nothing is gated.
BugAccept(r) == TRUE

\* WriterGate.accept, consulted by stream() and again by TurnWriter.write() with no
\* await in between.
Accept(r) == current[SessionOf[r]] = TurnOf[r]

\* stream() gets the next item.  A chunk of the live turn is sent, any other is
\* dropped.
Receive(r) ==
    /\ speech[r] = "streaming"
    /\ queue[r] # <<>>
    /\ LET item == Head(queue[r])
       IN  \/ /\ item.kind = "chunk"
              /\ queue' = [queue EXCEPT ![r] = Tail(@)]
              /\ sent' = IF Accept(r) THEN [sent EXCEPT ![r] = Append(@, item.seq)] ELSE sent
              /\ UNCHANGED <<speech, event, flags, cut>>
           \/ /\ item = Sentinel
              /\ LeaveStream(r, TRUE)
              /\ UNCHANGED <<sent, cut>>
           \/ /\ item = Error
              /\ LeaveStream(r, FALSE)
              /\ cut' = cut \cup {r}
              /\ UNCHANGED sent
    /\ UNCHANGED <<current, active, pending, open, threadVars>>

\* The task that consumes the speech is cancelled while it waits for an item.
TearDown(r) ==
    /\ speech[r] = "streaming"
    /\ LeaveStream(r, FALSE)
    /\ cut' = cut \cup {r}
    /\ UNCHANGED <<current, active, pending, open, threadVars, sent>>

\* The thread has been joined, or the join's second has passed: speak() ends.
Join(r) ==
    /\ speech[r] = "joining"
    /\ speech' = [speech EXCEPT ![r] = "done"]
    /\ active' = [active EXCEPT ![SessionOf[r]] = @ \ {TurnOf[r]}]
    /\ pending' = [pending EXCEPT ![SessionOf[r]] = @ \ {TurnOf[r]}]
    /\ UNCHANGED <<current, open, flags, event, threadVars, queue, sent, cut>>

-----------------------------------------------------------------------------
(* The producer thread: TTSWorker._produce over PocketTTSBackend.synthesize *)

\* What is put on the queue of a stream that has been left is never read.
Put(r, item) ==
    queue' = IF speech[r] = "streaming" THEN [queue EXCEPT ![r] = Append(@, item)] ELSE queue
GoThread(r, l) == thread' = [thread EXCEPT ![r] = l]

\* The generator looks up its session.  Without one it raises before its `try`.
Enter(r) ==
    /\ thread[r] = "started"
    /\ IF SessionOf[r] \in open
       THEN GoThread(r, "generating") /\ UNCHANGED queue
       ELSE GoThread(r, "ending") /\ Put(r, Error)
    /\ UNCHANGED <<loopVars, flags, event, made, cut>>

\* Mutant: the last chunk is forgotten.
BugForgetLast(r) ==
    /\ thread[r] = "generating"
    /\ IF TurnOf[r] \in flags \/ made[r] = Chunks
       THEN GoThread(r, "finally") /\ UNCHANGED made
       ELSE /\ made' = [made EXCEPT ![r] = @ + 1]
            /\ GoThread(r, IF made[r] = 0 THEN "generating" ELSE "yielded")
    /\ UNCHANGED <<loopVars, flags, event, queue, cut>>

\* One round of the generator: a cancelled turn stops; otherwise a raw chunk is taken
\* and the one before it is yielded, the last one when the model has no more.
Generate(r) ==
    /\ thread[r] = "generating"
    /\ IF TurnOf[r] \in flags
       THEN GoThread(r, "finally") /\ UNCHANGED made
       ELSE IF made[r] = Chunks
       THEN GoThread(r, "yieldedLast") /\ UNCHANGED made
       ELSE /\ made' = [made EXCEPT ![r] = @ + 1]
            /\ GoThread(r, IF made[r] = 0 THEN "generating" ELSE "yielded")
    /\ UNCHANGED <<loopVars, flags, event, queue, cut>>

\* What _produce asks between two chunks.
MayQueue(r) == ~event[r]

\* _produce checks the stream's event; leaving the loop closes the generator.
CheckEvent(r) ==
    /\ thread[r] \in {"yielded", "yieldedLast"}
    /\ GoThread(r, IF ~MayQueue(r) THEN "finally"
                   ELSE IF thread[r] = "yielded" THEN "queueing" ELSE "queueingLast")
    /\ UNCHANGED <<loopVars, flags, event, made, queue, cut>>

QueueChunk(r) ==
    /\ \/ thread[r] = "queueing" /\ Put(r, Chunk(made[r] - 1)) /\ GoThread(r, "generating")
       \/ thread[r] = "queueingLast" /\ Put(r, Chunk(made[r])) /\ GoThread(r, "finally")
    /\ UNCHANGED <<loopVars, flags, event, made, cut>>

\* The model's stream raises: the generator's `finally`, then the exception.
ModelRaises(r) ==
    /\ ModelFails
    /\ thread[r] = "generating"
    /\ flags' = flags \ {TurnOf[r]}
    /\ Put(r, Error)
    /\ GoThread(r, "ending")
    /\ UNCHANGED <<loopVars, event, made, cut>>

\* The generator's `finally`: the flag of its turn is cleared.
GeneratorFinally(r) ==
    /\ thread[r] = "finally"
    /\ flags' = flags \ {TurnOf[r]}
    /\ GoThread(r, "ending")
    /\ UNCHANGED <<loopVars, event, made, queue, cut>>

\* Mutant: the sentinel is only sent by a producer that nobody cancelled.
BugEndThread(r) ==
    /\ thread[r] = "ending"
    /\ IF event[r] THEN UNCHANGED queue ELSE Put(r, Sentinel)
    /\ GoThread(r, "over")
    /\ UNCHANGED <<loopVars, flags, event, made, cut>>

\* The `finally` of _produce.
EndThread(r) ==
    /\ thread[r] = "ending"
    /\ Put(r, Sentinel)
    /\ GoThread(r, "over")
    /\ UNCHANGED <<loopVars, flags, event, made, cut>>

-----------------------------------------------------------------------------
Produce(r) ==
    \/ Enter(r)
    \/ Generate(r)
    \/ CheckEvent(r)
    \/ QueueChunk(r)
    \/ GeneratorFinally(r)
    \/ EndThread(r)

Next ==
    \/ \E s \in Sessions : EndSession(s)
    \/ \E r \in Requests : BargeIn(SessionOf[r], TurnOf[r])
    \/ \E r \in Requests :
          \/ Speak(r)
          \/ Receive(r)
          \/ TearDown(r)
          \/ Join(r)
          \/ Produce(r)
          \/ ModelRaises(r)

Spec == Init /\ [][Next]_vars

\* The loop serves its queues, a thread that runs goes on, a join gives up after a
\* second.
FairSpec ==
    /\ Spec
    /\ \A r \in Requests : /\ WF_vars(Receive(r))
                           /\ WF_vars(Join(r))
                           /\ WF_vars(Produce(r))

-----------------------------------------------------------------------------
ThreadStates == {"none", "started", "generating", "yielded", "yieldedLast", "queueing",
                 "queueingLast", "finally", "ending", "over"}

TypeOK ==
    /\ current \in [Sessions -> Turns \cup {NoTurn}]
    /\ active \in [Sessions -> SUBSET Turns]
    /\ pending \in [Sessions -> SUBSET Turns]
    /\ open \subseteq Sessions
    /\ flags \subseteq Turns
    /\ speech \in [Requests -> {"idle", "streaming", "joining", "done"}]
    /\ event \in [Requests -> BOOLEAN]
    /\ thread \in [Requests -> ThreadStates]
    /\ made \in [Requests -> 0..Chunks]
    /\ queue \in [Requests -> Seq(Items)]
    /\ sent \in [Requests -> Seq(1..Chunks)]
    /\ cut \subseteq Requests

\* Once a stream has been cancelled (barge-in, flush, teardown or its own end) none
\* of its chunks reaches the sink, however many its thread had already queued
\* (WT-TTS-001: barge-in, old chunks dropped).
NoAudioAfterCancel == [][\A r \in Requests : event[r] => sent'[r] = sent[r]]_vars

\* A producer that has not committed to a chunk when its stream is cancelled queues
\* no more: at most one chunk is late.
CancelStopsProducer ==
    [][\A r \in Requests :
          event[r] /\ thread[r] \notin {"queueing", "queueingLast"}
            => thread'[r] \notin {"queueing", "queueingLast"}]_vars

\* The cancel-to-silence clock runs only for turns that are being spoken, and a
\* session knows exactly which these are.
SessionBooks ==
    \A s \in Sessions :
        /\ active[s] = {TurnOf[r] : r \in {q \in Requests : SessionOf[q] = s /\ InProgress(q)}}
        /\ pending[s] \subseteq active[s]

\* Speech that nothing interrupted is heard whole and in order.
WholeUnlessCut ==
    \A r \in Requests :
        speech[r] = "done" /\ r \notin cut => sent[r] = [i \in 1..Chunks |-> i]

\* speak() returns, whatever its thread, the model and the other sessions do.
SpeakEnds == \A r \in Requests : speech[r] = "streaming" ~> speech[r] = "done"

\* The session's books and what its listeners heard agree with the speech that was asked
\* for.
SpeechInv == TypeOK /\ SessionBooks /\ WholeUnlessCut

\* A cut is final, at the sink and for the producer.
CutIsFinal == NoAudioAfterCancel /\ CancelStopsProducer

-----------------------------------------------------------------------------
(* What the repository says and the code does not keep (README, section 7). *)

\* "calling cancel() on a stream that already finished normally would flag that turn_id
\* as cancelled for good, silently breaking a later, unrelated request" (tts/worker.py:
\* 112-115): when speech that was not itself interrupted begins, and every stream that
\* used its turn id finished normally, the turn is not flagged.
NoInheritedCancel ==
    [][\A r \in Requests :
          /\ speech[r] = "idle"
          /\ speech'[r] = "streaming"
          /\ r \notin cut
          /\ \A q \in Requests \ {r} : TurnOf[q] = TurnOf[r] =>
                \/ speech[q] = "idle"
                \/ speech[q] = "done" /\ thread[q] = "over" /\ q \notin cut
          => TurnOf[r] \notin flags]_vars

=============================================================================
