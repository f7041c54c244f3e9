----------------------------- MODULE WebSession -----------------------------
(***************************************************************************)
(* The browser session adapter (integrations/web_session.py) for one       *)
(* external session id: start, message and end events, each an iteration   *)
(* of iter_events() by some connection, and the tasks they leave running.  *)
(*                                                                         *)
(* A step is the code between two awaits or yields.  An iteration that     *)
(* waits for the session's lock or has yielded an event is suspended, and  *)
(* anything else may run: other events for the same id, the runtime's turn *)
(* (which puts fillers on the session's queue), and speech (which puts     *)
(* audio there).  The turn stands for CallSession.process_turn, speech for *)
(* SessionAudio over one chunk of audio; CallRuntime and SpeechStack model *)
(* them in full.  An incarnation of the session is named by the start      *)
(* event that made it.                                                     *)
(***************************************************************************)
EXTENDS Naturals, Sequences, FiniteSets

CONSTANTS
    Events,        \* the iter_events() iterations
    Kind,          \* [Events -> {"start", "message", "end"}]
    MaxFillers,    \* fillers one turn puts on the queue
    TurnsRaise,    \* process_turn may raise
    FailingTurns,  \* turns (0 for the greeting) whose synthesis may raise
    TtsBackends,   \* whether the adapter may have a tts_backend, or may have none
    MayDisconnect, \* an iteration may be dropped by its connection at a yield
    None

Starts   == {c \in Events : Kind[c] = "start"}
Messages == {c \in Events : Kind[c] = "message"}

ASSUME WebAssumption ==
    /\ IsFiniteSet(Events)
    /\ Kind \in [Events -> {"start", "message", "end"}]
    /\ MaxFillers \in Nat
    /\ {TurnsRaise, MayDisconnect} \subseteq BOOLEAN
    /\ TtsBackends \subseteq BOOLEAN
    /\ FailingTurns \subseteq Nat
    /\ None \notin Events \cup [turn : Nat, part : Nat]

VARIABLES
    tts,        \* the adapter has a tts_backend: its sessions speak
    registered, \* WebSessionAdapter._sessions of the id
    line,       \* holder and waiters of each incarnation's lock
    turnN,      \* _WebSession.turn_n
    fillerN,    \* _WebSession.filler_n
    queue,      \* _WebSession.queue
    live,       \* the live turn of the incarnation's TurnWriter
    talk,       \* where each speech of an incarnation is
    flags,      \* the backend's cancel flags, by turn id
    at,         \* where each iteration is
    mine,       \* its incarnation
    turn,       \* its turn number
    task,       \* its process_turn task
    put,        \* fillers that task has put
    getting,    \* its queue_task waits for an item
    hand,       \* the item its queue_task holds
    filler,     \* the voice of its filler_task
    out         \* the events it yielded

sessionVars == <<tts, registered, line, turnN, fillerN>>
audioVars   == <<live, flags>>
callVars    == <<at, mine, turn>>
vars == <<sessionVars, queue, audioVars, talk, callVars, task, put, getting, hand,
          filler, out>>

-----------------------------------------------------------------------------
\* A turn id: the greeting has turn 0, an answer part 0, fillers are numbered.
Voice(n, k) == [turn |-> n, part |-> k]
Greeting    == Voice(0, 0)
Turns       == 0..Cardinality(Messages)
Voices      == [turn : Turns, part : 0..(MaxFillers * Cardinality(Messages))]

Item(k, v) == [kind |-> k, voice |-> v]
Items == [kind : {"greeting", "filler", "audio", "teardown", "response", "error"},
          voice : Voices]

Answer(c)   == Voice(turn[c], 0)
Ended(c)    == task[c] \notin {"none", "running"}
Underway(s, v) == talk[s][v] \in {"made", "begun", "voiced"}
\* A task that was created runs before anything that is waited for wakes its creator.
FillerStarted(c) == filler[c] # None => talk[mine[c]][filler[c]] # "made"

Init ==
    /\ tts \in TtsBackends
    /\ registered = None
    /\ line = [s \in Starts |-> <<>>]
    /\ turnN = [s \in Starts |-> 0]
    /\ fillerN = [s \in Starts |-> 0]
    /\ queue = [s \in Starts |-> <<>>]
    /\ live = [s \in Starts |-> None]
    /\ talk = [s \in Starts |-> [v \in Voices |-> "none"]]
    /\ flags = {}
    /\ at = [c \in Events |-> "idle"]
    /\ mine = [c \in Events |-> None]
    /\ turn = [c \in Events |-> 0]
    /\ task = [c \in Events |-> "none"]
    /\ put = [c \in Events |-> 0]
    /\ getting = [c \in Events |-> FALSE]
    /\ hand = [c \in Events |-> <<>>]
    /\ filler = [c \in Events |-> None]
    /\ out = [c \in Events |-> <<>>]

Go(c, l)  == at' = [at EXCEPT ![c] = l]
Show(c, e) == out' = [out EXCEPT ![c] = Append(@, e)]

\* Mutant: a way out that keeps the lock.
BugLeave(c) == Go(c, "over") /\ UNCHANGED line

\* The iteration returns, or raises, and gives the lock up if it has it.
Leave(c) ==
    /\ Go(c, "over")
    /\ line' = [line EXCEPT ![mine[c]] = IF @ # <<>> /\ Head(@) = c THEN Tail(@) ELSE @]

\* Mutant: the events of a session that was ended or replaced are still yielded.
BugOwns(c) == TRUE

\* The incarnation is still the registered one.
Owns(c) == registered = mine[c]

\* An event is yielded while the incarnation is registered; otherwise it is dropped
\* and the iteration returns.
Yield(c, e, next) ==
    IF Owns(c) THEN Show(c, e) /\ Go(c, next) /\ UNCHANGED line
               ELSE Leave(c) /\ UNCHANGED out

\* TTSWorker.cancel for the turn that was live, if it is another one.
CancelLive(s, v) == flags' = flags \cup ({live[s]} \ {None, v})

\* SessionAudio.barge_in, where there is audio.
BargeIn(s, v) ==
    IF tts THEN live' = [live EXCEPT ![s] = v] /\ CancelLive(s, v)
           ELSE UNCHANGED audioVars

\* SessionAudio.speak up to its first await.
Speak(s, v) ==
    /\ live' = [live EXCEPT ![s] = v]
    /\ talk' = [talk EXCEPT ![s][v] = "begun"]
    /\ UNCHANGED flags

-----------------------------------------------------------------------------
(* start and end *)

\* An event without a session id, of no known type or without text is refused before
\* anything of a session is touched.
Refused(c) ==
    /\ at[c] = "idle"
    /\ Show(c, Item("error", Greeting))
    /\ Go(c, "over")
    /\ UNCHANGED <<tts, registered, line, turnN, fillerN, queue, audioVars, talk, mine, turn,
                   task, put, getting, hand, filler>>

\* Nothing is registered when no voice can be bound.
Start(c) ==
    /\ Kind[c] = "start"
    /\ at[c] = "idle"
    /\ IF registered # None
       THEN /\ Show(c, Item("error", Greeting))
            /\ Go(c, "over")
            /\ UNCHANGED <<registered, mine>>
       ELSE \/ /\ registered' = c
               /\ mine' = [mine EXCEPT ![c] = c]
               /\ Show(c, Item("greeting", Greeting))
               /\ Go(c, "greeted")
            \/ /\ tts
               /\ Show(c, Item("error", Greeting))
               /\ Go(c, "over")
               /\ UNCHANGED <<registered, mine>>
    /\ UNCHANGED <<tts, line, turnN, fillerN, queue, audioVars, talk, turn, task, put, getting,
                   hand, filler>>

\* The greeting has been taken by the client: its speech waits for the lock.
Greeted(c) ==
    /\ at[c] = "greeted"
    /\ IF Owns(c)
       THEN Go(c, "lock") /\ line' = [line EXCEPT ![c] = Append(@, c)]
       ELSE Leave(c)
    /\ UNCHANGED <<tts, registered, turnN, fillerN, queue, audioVars, talk, mine, turn, task,
                   put, getting, hand, filler, out>>

SpeakGreeting(c) ==
    /\ Kind[c] = "start"
    /\ at[c] = "lock"
    /\ Head(line[c]) = c
    /\ IF Owns(c) /\ tts
       THEN Speak(c, Greeting) /\ Go(c, "speaking") /\ UNCHANGED line
       ELSE Leave(c) /\ UNCHANGED <<audioVars, talk>>
    /\ UNCHANGED <<tts, registered, turnN, fillerN, queue, mine, turn, task, put, getting, hand,
                   filler, out>>

\* The session is taken out of the registry, its call closed, its audio flushed.
End(c) ==
    /\ Kind[c] = "end"
    /\ at[c] = "idle"
    /\ Go(c, "over")
    /\ registered' = None
    /\ IF registered = None
       THEN UNCHANGED audioVars
       ELSE /\ live' = [live EXCEPT ![registered] = None]
            /\ CancelLive(registered, None)
    /\ UNCHANGED <<tts, line, turnN, fillerN, queue, talk, mine, turn, task, put, getting, hand,
                   filler, out>>

-----------------------------------------------------------------------------
(* message *)

\* The turn is numbered, and what was being said is cut, before the lock is asked for.
Message(c) ==
    /\ Kind[c] = "message"
    /\ at[c] = "idle"
    /\ IF registered = None
       THEN /\ Show(c, Item("error", Greeting))
            /\ Go(c, "over")
            /\ UNCHANGED <<line, turnN, audioVars, mine, turn>>
       ELSE /\ mine' = [mine EXCEPT ![c] = registered]
            /\ turnN' = [turnN EXCEPT ![registered] = @ + 1]
            /\ turn' = [turn EXCEPT ![c] = turnN[registered] + 1]
            /\ BargeIn(registered, Voice(turnN[registered] + 1, 0))
            /\ line' = [line EXCEPT ![registered] = Append(@, c)]
            /\ Go(c, "lock")
            /\ UNCHANGED out
    /\ UNCHANGED <<tts, registered, fillerN, queue, talk, task, put, getting, hand, filler>>

\* Mutants: the lock is not asked for; the session is not looked at again behind it.
BugHasLock(c) == at[c] = "lock"

HasLock(c) == at[c] = "lock" /\ Head(line[mine[c]]) = c

\* Behind the lock, for a session that is still registered: the turn's task and a task
\* that reads the queue.
BeginTurn(c) ==
    /\ Kind[c] = "message"
    /\ HasLock(c)
    /\ IF Owns(c)
       THEN /\ task' = [task EXCEPT ![c] = "running"]
            /\ getting' = [getting EXCEPT ![c] = TRUE]
            /\ Go(c, "wait")
            /\ UNCHANGED line
       ELSE Leave(c) /\ UNCHANGED <<task, getting>>
    /\ UNCHANGED <<tts, registered, turnN, fillerN, queue, audioVars, talk, mine, turn, put, hand,
                   filler, out>>

\* What follows the end of the turn: an exception goes up; a filler that is still
\* being spoken is cut and waited for.
Finish(c, speaking) ==
    IF task[c] = "raised"
    THEN Leave(c) /\ UNCHANGED <<audioVars, getting>>
    ELSE IF speaking
    THEN /\ BargeIn(mine[c], Answer(c))
         /\ Go(c, "awaitFiller")
         /\ UNCHANGED <<line, getting>>
    ELSE /\ Go(c, "drain")
         /\ getting' = [getting EXCEPT ![c] = FALSE]
         /\ UNCHANGED <<line, audioVars>>

\* After an item: a filler is counted and, where there is audio, spoken by a task, and the queue is read again
\* unless the turn is over.
Continue(c, ended) ==
    LET s == mine[c]
        v == Voice(turn[c], fillerN[s] + 1)
        shown == hand[c][1].kind = "filler"
        speaks == shown /\ tts
    IN  /\ hand' = [hand EXCEPT ![c] = <<>>]
        /\ fillerN' = IF shown THEN [fillerN EXCEPT ![s] = @ + 1] ELSE fillerN
        /\ IF speaks
           THEN filler' = [filler EXCEPT ![c] = v] /\ talk' = [talk EXCEPT ![s][v] = "made"]
           ELSE UNCHANGED <<filler, talk>>
        /\ IF ended
           THEN Finish(c, speaks \/ (filler[c] # None /\ Underway(s, filler[c])))
           ELSE /\ getting' = [getting EXCEPT ![c] = ~Ended(c)]
                /\ Go(c, "wait")
                /\ UNCHANGED <<line, audioVars>>

\* wait() returns with an item.
WakeWithItem(c) ==
    /\ at[c] = "wait"
    /\ hand[c] # <<>>
    /\ FillerStarted(c)
    /\ IF hand[c][1].kind = "teardown"
       THEN Continue(c, Ended(c)) /\ UNCHANGED out
       ELSE /\ Yield(c, hand[c][1], IF Ended(c) THEN "midEnded" ELSE "mid")
            /\ UNCHANGED <<fillerN, audioVars, talk, getting, hand, filler>>
    /\ UNCHANGED <<tts, registered, turnN, queue, mine, turn, task, put>>

Resume(c) ==
    /\ at[c] \in {"mid", "midEnded"}
    /\ Continue(c, at[c] = "midEnded")
    /\ UNCHANGED <<tts, registered, turnN, queue, mine, turn, task, put, out>>

\* wait() returns without one: the turn is over.  What the turn had put before has
\* been taken by then; audio may still arrive.
WakeAtEnd(c) ==
    /\ at[c] = "wait"
    /\ hand[c] = <<>>
    /\ Ended(c)
    /\ FillerStarted(c)
    /\ getting[c] => \A i \in DOMAIN queue[mine[c]] : queue[mine[c]][i].kind = "audio"
    /\ Finish(c, filler[c] # None /\ Underway(mine[c], filler[c]))
    /\ UNCHANGED <<tts, registered, turnN, fillerN, queue, talk, mine, turn, task, put, hand,
                   filler, out>>

\* The filler's task is over: what the queue's reader holds by now is dropped with it.
FillerAwaited(c) ==
    /\ at[c] = "awaitFiller"
    /\ ~Underway(mine[c], filler[c])
    /\ IF talk[mine[c]][filler[c]] = "failed"
       THEN Leave(c) /\ UNCHANGED <<getting, hand>>
       ELSE /\ Go(c, "drain")
            /\ getting' = [getting EXCEPT ![c] = FALSE]
            /\ hand' = [hand EXCEPT ![c] = <<>>]
            /\ UNCHANGED line
    /\ UNCHANGED <<tts, registered, turnN, fillerN, queue, audioVars, talk, mine, turn, task,
                   put, filler, out>>

\* An item of the queue is yielded; a teardown is not shown.
YieldItem(c, next) ==
    LET s == mine[c]
    IN  /\ queue' = [queue EXCEPT ![s] = Tail(@)]
        /\ IF Head(queue[s]).kind = "teardown"
           THEN Go(c, next) /\ UNCHANGED <<line, out>>
           ELSE Yield(c, Head(queue[s]), next)

Drain(c) ==
    /\ at[c] = "drain"
    /\ queue[mine[c]] # <<>>
    /\ YieldItem(c, "drain")
    /\ UNCHANGED <<tts, registered, turnN, fillerN, audioVars, talk, mine, turn, task, put,
                   getting, hand, filler>>

\* Mutant: the answer does not wait for the queue.
BugDrained(c) == at[c] = "drain"

Drained(c) == at[c] = "drain" /\ queue[mine[c]] = <<>>

\* _final_events: an error, the runtime's own text, or text still to be generated.
Answered(c) ==
    /\ Drained(c)
    /\ \/ task[c] = "quiet" /\ Yield(c, Item("error", Answer(c)), "closing")
       \/ task[c] = "scripted" /\ Yield(c, Item("response", Answer(c)), "respond")
       \/ task[c] = "generate" /\ Go(c, "generating") /\ UNCHANGED <<line, out>>
    /\ UNCHANGED <<tts, registered, turnN, fillerN, queue, audioVars, talk, mine, turn, task, put,
                   getting, hand, filler>>

Generated(c) ==
    /\ at[c] = "generating"
    /\ \/ Yield(c, Item("response", Answer(c)), "respond")
       \/ Yield(c, Item("error", Answer(c)), "closing")
    /\ UNCHANGED <<tts, registered, turnN, fillerN, queue, audioVars, talk, mine, turn, task, put,
                   getting, hand, filler>>

\* _emit_speech of the answer, which does nothing without audio.
SpeakAnswer(c) ==
    /\ at[c] = "respond"
    /\ IF Owns(c) /\ tts
       THEN Speak(mine[c], Answer(c)) /\ Go(c, "speaking") /\ UNCHANGED line
       ELSE Leave(c) /\ UNCHANGED <<audioVars, talk>>
    /\ UNCHANGED <<tts, registered, turnN, fillerN, queue, mine, turn, task, put, getting, hand,
                   filler, out>>

SpeechOver(c) == at[c] = "speaking" /\ talk[mine[c]][Answer(c)] = "over"

SpeechFailed(c) ==
    /\ at[c] = "speaking"
    /\ talk[mine[c]][Answer(c)] = "failed"
    /\ Yield(c, Item("error", Answer(c)), "closing")
    /\ UNCHANGED <<tts, registered, turnN, fillerN, queue, audioVars, talk, mine, turn, task, put,
                   getting, hand, filler>>

\* The audio that the speech left on the queue is yielded when the speech is over.
EmitAudio(c) ==
    /\ at[c] = "emit" \/ SpeechOver(c)
    /\ IF Owns(c) /\ queue[mine[c]] # <<>>
       THEN YieldItem(c, "emit")
       ELSE Leave(c) /\ UNCHANGED <<queue, out>>
    /\ UNCHANGED <<tts, registered, turnN, fillerN, audioVars, talk, mine, turn, task, put,
                   getting, hand, filler>>

Close(c) ==
    /\ at[c] = "closing"
    /\ Leave(c)
    /\ UNCHANGED <<tts, registered, turnN, fillerN, queue, audioVars, talk, mine, turn, task, put,
                   getting, hand, filler, out>>

\* The connection fails while it sends an event: the iteration is closed at its yield
\* and its tasks go on.
Disconnect(c) ==
    /\ MayDisconnect
    /\ at[c] \in {"greeted", "mid", "midEnded", "drain", "respond", "emit", "closing"}
    /\ Leave(c)
    /\ UNCHANGED <<tts, registered, turnN, fillerN, queue, audioVars, talk, mine, turn, task, put,
                   getting, hand, filler, out>>

-----------------------------------------------------------------------------
(* The tasks *)

\* queue.get() of a queue_task, also of one whose iteration is over.
Take(c) ==
    /\ getting[c]
    /\ queue[mine[c]] # <<>>
    /\ hand' = [hand EXCEPT ![c] = <<Head(queue[mine[c]])>>]
    /\ queue' = [queue EXCEPT ![mine[c]] = Tail(@)]
    /\ getting' = [getting EXCEPT ![c] = FALSE]
    /\ UNCHANGED <<sessionVars, audioVars, talk, callVars, task, put, filler, out>>

\* The runtime's turn calls on_filler.
TurnFills(c) ==
    /\ task[c] = "running"
    /\ put[c] < MaxFillers
    /\ put' = [put EXCEPT ![c] = @ + 1]
    /\ queue' = [queue EXCEPT ![mine[c]] = Append(@, Item("filler", Voice(turn[c], put[c] + 1)))]
    /\ UNCHANGED <<sessionVars, audioVars, talk, callVars, task, getting, hand, filler, out>>

\* It returns: a handoff calls on_transfer first.
TurnEnds(c) ==
    /\ task[c] = "running"
    /\ \E r \in {"quiet", "scripted", "generate"} : task' = [task EXCEPT ![c] = r]
    /\ \/ UNCHANGED queue
       \/ /\ task'[c] = "scripted"
          /\ queue' = [queue EXCEPT ![mine[c]] = Append(@, Item("teardown", Answer(c)))]
    /\ UNCHANGED <<sessionVars, audioVars, talk, callVars, put, getting, hand, filler, out>>

TurnRaises(c) ==
    /\ TurnsRaise
    /\ task[c] = "running"
    /\ task' = [task EXCEPT ![c] = "raised"]
    /\ UNCHANGED <<sessionVars, queue, audioVars, talk, callVars, put, getting, hand, filler,
                   out>>

\* A filler's task starts to speak.
StartFiller(s, v) ==
    /\ talk[s][v] = "made"
    /\ Speak(s, v)
    /\ UNCHANGED <<sessionVars, queue, callVars, task, put, getting, hand, filler, out>>

\* A chunk of speech that is live and not flagged is put on the queue.
Chunk(s, v) ==
    /\ talk[s][v] = "begun"
    /\ live[s] = v
    /\ v \notin flags
    /\ talk' = [talk EXCEPT ![s][v] = "voiced"]
    /\ queue' = [queue EXCEPT ![s] = Append(@, Item("audio", v))]
    /\ UNCHANGED <<sessionVars, audioVars, callVars, task, put, getting, hand, filler, out>>

\* The generator ends and clears its flag; a chunk of a turn that is not live, or is
\* flagged, was dropped.
EndSpeech(s, v) ==
    /\ talk[s][v] = "voiced" \/ (talk[s][v] = "begun" /\ (live[s] # v \/ v \in flags))
    /\ talk' = [talk EXCEPT ![s][v] = "over"]
    /\ flags' = flags \ {v}
    /\ UNCHANGED <<sessionVars, queue, live, callVars, task, put, getting, hand,
                   filler, out>>

\* The backend has no session of that id any more, or the model raises.
FailSpeech(s, v) ==
    /\ \/ talk[s][v] = "begun" /\ registered = None /\ UNCHANGED flags
       \/ /\ v.turn \in FailingTurns
          /\ talk[s][v] \in {"begun", "voiced"}
          /\ flags' = flags \ {v}
    /\ talk' = [talk EXCEPT ![s][v] = "failed"]
    /\ UNCHANGED <<sessionVars, queue, live, callVars, task, put, getting, hand,
                   filler, out>>

-----------------------------------------------------------------------------
Iterate(c) ==
    \/ Greeted(c)
    \/ SpeakGreeting(c)
    \/ BeginTurn(c)
    \/ WakeWithItem(c)
    \/ Resume(c)
    \/ WakeAtEnd(c)
    \/ FillerAwaited(c)
    \/ Drain(c)
    \/ Answered(c)
    \/ Generated(c)
    \/ SpeakAnswer(c)
    \/ SpeechFailed(c)
    \/ EmitAudio(c)
    \/ Close(c)

Play(s, v) ==
    \/ StartFiller(s, v)
    \/ Chunk(s, v)
    \/ EndSpeech(s, v)

Next ==
    \/ \E c \in Events :
          \/ Refused(c)
          \/ Start(c)
          \/ End(c)
          \/ Message(c)
          \/ Iterate(c)
          \/ Disconnect(c)
          \/ Take(c)
          \/ TurnFills(c)
          \/ TurnEnds(c)
          \/ TurnRaises(c)
    \/ \E s \in Starts, v \in Voices :
          \/ Play(s, v)
          \/ FailSpeech(s, v)

Spec == Init /\ [][Next]_vars

\* The loop runs what is ready, a turn ends (CallRuntime), speech ends (SpeechStack).
FairSpec ==
    /\ Spec
    /\ \A c \in Events : WF_vars(Iterate(c)) /\ WF_vars(Take(c)) /\ WF_vars(TurnEnds(c))
    /\ \A s \in Starts, v \in Voices : WF_vars(Play(s, v))

-----------------------------------------------------------------------------
Points == {"idle", "greeted", "lock", "wait", "mid", "midEnded", "awaitFiller", "drain",
           "generating", "respond", "speaking", "emit", "closing", "over"}

TypeOK ==
    /\ tts \in BOOLEAN
    /\ registered \in Starts \cup {None}
    /\ line \in [Starts -> Seq(Events)]
    /\ turnN \in [Starts -> Turns]
    /\ fillerN \in [Starts -> Nat]
    /\ queue \in [Starts -> Seq(Items)]
    /\ live \in [Starts -> Voices \cup {None}]
    /\ talk \in [Starts -> [Voices -> {"none", "made", "begun", "voiced", "over", "failed"}]]
    /\ flags \subseteq Voices
    /\ at \in [Events -> Points]
    /\ mine \in [Events -> Starts \cup {None}]
    /\ turn \in [Events -> Turns]
    /\ task \in [Events -> {"none", "running", "quiet", "scripted", "generate", "raised"}]
    /\ put \in [Events -> 0..MaxFillers]
    /\ getting \in [Events -> BOOLEAN]
    /\ hand \in [Events -> Seq(Items)]
    /\ filler \in [Events -> Voices \cup {None}]
    /\ out \in [Events -> Seq(Items)]

\* At most one turn of a call runs, the assumption under which CallRuntime's single-handoff
\* and end-of-call properties hold (when no connection is lost: see the README).
OneTurnAtATime ==
    \A c, d \in Messages :
        task[c] = "running" /\ task[d] = "running" /\ mine[c] = mine[d] => c = d

\* Nothing of a session is shown once it was ended or replaced ("Events produced after
\* replacement/close are not emitted").
NoOutputAfterEnd ==
    [][\A c \in Events : mine[c] # None /\ out'[c] # out[c] => registered = mine[c]]_vars

\* "Never begin a consequential tool turn for a closed session", however long the message
\* waited for the lock and whatever was registered meanwhile.
NoTurnForClosedSession ==
    [][\A c \in Messages : task[c] = "none" /\ task'[c] = "running"
          => registered = mine[c] /\ turn[c] \in 1..turnN[mine[c]]]_vars

\* The messages of a session are answered in the order in which they were numbered: none
\* is shown anything before the earlier ones are done.
AnswersInOrder ==
    \A c, d \in Messages :
        mine[c] = mine[d] /\ mine[c] # None /\ turn[c] < turn[d] /\ out[d] # <<>>
          => at[c] = "over"

\* An iteration shows fillers and audio of its own turn only, although all turns of the
\* session share one queue.
OwnEventsOnly ==
    \A c \in Events : \A i \in DOMAIN out[c] : out[c][i].voice.turn = turn[c]

\* Every filler a turn produced has been shown when its answer is, in order.
FillersBeforeAnswer ==
    \A c \in Messages : \A i \in DOMAIN out[c] :
        out[c][i].kind = "response" =>
            LET shown == {j \in 1..i : out[c][j].kind = "filler"}
            IN  /\ {out[c][j] : j \in shown} = {Item("filler", Voice(turn[c], k)) : k \in 1..put[c]}
                /\ \A j, l \in shown : j < l => out[c][j].voice.part < out[c][l].voice.part

\* Every message that waits for the lock is served: no iteration keeps it for ever.
MessagesEnd == \A c \in Messages : at[c] = "lock" ~> at[c] = "over"

\* What each iteration of a dialogue shows, and when: one turn at a time, its own events,
\* its fillers first.
DialogueInv == OneTurnAtATime /\ OwnEventsOnly /\ FillersBeforeAnswer

\* What a restart under the same id leaves in order.
RestartInv == TypeOK /\ AnswersInOrder

\* An ended session shows nothing and begins nothing more.
EndIsFinal == NoOutputAfterEnd /\ NoTurnForClosedSession

-----------------------------------------------------------------------------
(* What the repository says and the code does not keep (README, section 7). *)

\* "After a turn is cancelled, no stale chunk from that turn may become audible"
\* (docs/wt-voice-tts-001.md:13): a message's barge-in cancels what was
\* live and makes its own turn the only live one.
NoStaleAudio ==
    [][\A c \in Events : \A v \in Voices :
          out'[c] = Append(out[c], Item("audio", v)) /\ live[mine[c]] # None
            => live[mine[c]].turn <= v.turn]_vars

\* "greeting, tool filler, and final response text are also spoken" (web_session.py:44-45):
\* an answer that was shown, of the newest message of a session that goes on.
AnswerIsSpoken ==
    \A c \in Messages :
        /\ at[c] = "over"
        /\ mine[c] # None
        /\ registered = mine[c]
        /\ turn[c] = turnN[mine[c]]
        /\ Item("response", Answer(c)) \in {out[c][i] : i \in DOMAIN out[c]}
        => Item("audio", Answer(c)) \in {out[c][i] : i \in DOMAIN out[c]}

=============================================================================
