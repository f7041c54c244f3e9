----------------------------- MODULE AudioGateway -----------------------------
(* integrations/gateway.py over asr.py and asr_whisper.py: browser            *)
(* connections that share one ASR backend and one session adapter.  Frames of *)
(* a connection are handled one after the other; while an answer is being     *)
(* sent, the other connections go on.  Audio comes in frames of one length,   *)
(* each voiced (its RMS reaches the threshold) or silent.                     *)
EXTENDS Integers, SequencesExt

CONSTANTS
  Conns, Ids,    \* connections and session ids
  Silence,       \* silent frames that end an utterance (silence_ms)
  MinSpeech,     \* voiced frames it needs (min_speech_ms)
  MaxMessages,   \* bound: messages of all connections
  Nobody         \* no session, no stream

ASSUME GatewayAssumption ==
  /\ Silence \in Nat \ {0} /\ MinSpeech \in Nat \ {0} /\ MaxMessages \in Nat
  /\ Nobody \notin Ids

VARIABLES
  voice,         \* voice[c]: the session that the handler of c feeds with audio
  handler,       \* "idle", "sending", "flushing", "ending" or "gone"
  ending,        \* ending[c]: the session that an end message of c names
  stream,        \* stream[s]: the ASR session of s: a record, or one with open = FALSE
  calls,         \* the sessions that the adapter has
  turns,         \* turns[s]: utterances of the stream s that became messages
  owed,          \* owed[s]: voiced frames of s accepted, not yet decoded nor given up as noise
  left,          \* the streams that their connection left for another one
  messages

gatewayVars == <<voice, handler, ending, stream, calls, turns, owed, left, messages>>

Voiced(frames) == Cardinality({ i \in 1..Len(frames) : frames[i] = "voiced" })
Open(buffer, silence, speech, utterance) ==
  [ open |-> TRUE, buffer |-> buffer, silence |-> silence, speech |-> speech, utterance |-> utterance ]
Fresh == Open(<<>>, 0, 0, 0)
Closed == [ open |-> FALSE, buffer |-> <<>>, silence |-> 0, speech |-> 0, utterance |-> 0 ]

GatewayInit ==
  /\ voice = [ c \in Conns |-> Nobody ] /\ handler = [ c \in Conns |-> "idle" ]
  /\ ending = [ c \in Conns |-> Nobody ]
  /\ stream = [ s \in Ids |-> Closed ] /\ calls = {} /\ turns = [ s \in Ids |-> 0 ]
  /\ owed = [ s \in Ids |-> 0 ] /\ left = {} /\ messages = 0

Receives(c) ==
  /\ handler[c] = "idle" /\ messages < MaxMessages
  /\ messages' = messages + 1
Becomes(c, h) == handler' = [ handler EXCEPT ![c] = h ]

Openable(s) == ~stream[s].open

(* A start opens the ASR stream first.  The adapter then starts the call,     *)
(* unless it has it or cannot bind a voice: it says so, and the connection    *)
(* keeps its audio stream all the same.  The stream that the connection fed   *)
(* before stays open.                                                         *)
Start(c, s) ==
  /\ Receives(c) /\ Openable(s)
  /\ stream' = [ stream EXCEPT ![s] = Fresh ] /\ voice' = [ voice EXCEPT ![c] = s ]
  /\ calls' \in {calls, calls \cup {s}}
  /\ turns' = [ turns EXCEPT ![s] = 0 ] /\ owed' = [ owed EXCEPT ![s] = 0 ]
  /\ left' = left \cup ({voice[c]} \ {Nobody})
  /\ Becomes(c, "sending") /\ UNCHANGED ending

(* A language that is not shipping, an id that is open and audio at another   *)
(* rate than the backend's raise, and the exception ends the handler.         *)
Raises(c) ==
  /\ Receives(c) /\ Becomes(c, "gone")
  /\ UNCHANGED <<voice, ending, stream, calls, turns, owed, left>>

(* A frame that is no message, audio before a start and a message for some    *)
(* call of the adapter are answered; WebSession models that call's turn.      *)
Answer(c) ==
  /\ Receives(c) /\ Becomes(c, "sending")
  /\ UNCHANGED <<voice, ending, stream, calls, turns, owed, left>>

(* _finalize: the buffer goes to the decoder and is empty again.              *)
Finalized(t) == Open(<<>>, 0, 0, t.utterance + 1)

(* accept: a voiced frame ends the silence; a silent one may end the          *)
(* utterance, or the noise before one.                                        *)
Add(t, frame) ==
  IF frame = "voiced"
  THEN Open(Append(t.buffer, frame), 0, t.speech + 1, t.utterance)
  ELSE Open(Append(t.buffer, frame), t.silence + 1, t.speech, t.utterance)
BugDropped(t) == Open(<<>>, 0, t.speech, t.utterance)
Dropped(t) == Open(<<>>, 0, 0, t.utterance)
Ends(t) == t.silence >= Silence /\ t.speech >= MinSpeech
IsNoise(t) == t.silence >= Silence /\ t.speech < MinSpeech

(* The decoder hears words in s's utterance, and they become a message, which *)
(* the adapter refuses when it has no such call; or it hears none; or it      *)
(* raises, with the buffer empty already, and the exception ends the handler. *)
Decode(c, s, t, heard, next) ==
  /\ stream' = [ stream EXCEPT ![s] = Finalized(t) ]
  /\ owed' = [ owed EXCEPT ![s] = @ + heard - Voiced(t.buffer) ]
  /\ \/ /\ turns' = IF s \in calls THEN [ turns EXCEPT ![s] = @ + 1 ] ELSE turns
        /\ Becomes(c, IF next = "idle" THEN "sending" ELSE next)
     \/ UNCHANGED turns /\ Becomes(c, next)
     \/ UNCHANGED turns /\ Becomes(c, "gone")

Pcm(c, frame) ==
  /\ Receives(c) /\ voice[c] # Nobody
  /\ LET s == voice[c]
         t == Add(stream[s], frame)
         heard == IF frame = "voiced" THEN 1 ELSE 0
     IN \/ Ends(t) /\ Decode(c, s, t, heard, "idle")
        \/ /\ IsNoise(t)
           /\ stream' = [ stream EXCEPT ![s] = Dropped(t) ]
           /\ owed' = [ owed EXCEPT ![s] = @ + heard - Voiced(t.buffer) ]
           /\ UNCHANGED <<handler, turns>>
        \/ /\ ~Ends(t) /\ ~IsNoise(t)
           /\ stream' = [ stream EXCEPT ![s] = t ]
           /\ owed' = [ owed EXCEPT ![s] = @ + heard ]
           /\ UNCHANGED <<handler, turns>>
  /\ UNCHANGED <<voice, ending, calls, left>>

(* An end for session s: first what the stream of this connection still       *)
(* buffers is decoded and answered, then the adapter ends s, then the stream  *)
(* of this connection is closed, whatever s is.                               *)
BugFlushable(c) == FALSE
Flushable(c) == voice[c] # Nobody /\ stream[voice[c]].buffer # <<>>
EndMessage(c, s) ==
  /\ Receives(c) /\ ending' = [ ending EXCEPT ![c] = s ]
  /\ \/ Flushable(c) /\ Decode(c, voice[c], stream[voice[c]], 0, "flushing")
     \/ ~Flushable(c) /\ Becomes(c, "flushing") /\ UNCHANGED <<stream, owed, turns>>
  /\ UNCHANGED <<voice, calls, left>>

EndCall(c) ==
  /\ handler[c] = "flushing" /\ Becomes(c, "ending")
  /\ calls' = calls \ {ending[c]}
  /\ UNCHANGED <<voice, ending, stream, turns, owed, left, messages>>

ToClose(c) == voice[c]
CloseStream(c) ==
  /\ handler[c] = "ending" /\ Becomes(c, "idle")
  /\ stream' = [ s \in Ids |-> IF s = ToClose(c) THEN Closed ELSE stream[s] ]
  /\ voice' = [ voice EXCEPT ![c] = Nobody ] /\ ending' = [ ending EXCEPT ![c] = Nobody ]
  /\ UNCHANGED <<calls, turns, owed, left, messages>>

Sent(c) ==
  /\ handler[c] = "sending" /\ Becomes(c, "idle")
  /\ UNCHANGED <<voice, ending, stream, calls, turns, owed, left, messages>>

(* The connection closes: the iteration ends, or a send raises in the middle  *)
(* of a message.  Nothing is released.                                        *)
Disconnect(c) ==
  /\ handler[c] # "gone" /\ Becomes(c, "gone")
  /\ UNCHANGED <<voice, ending, stream, calls, turns, owed, left, messages>>

Handle(c) == Sent(c) \/ EndCall(c) \/ CloseStream(c)
GatewayNext ==
  \E c \in Conns :
    \/ \E s \in Ids : Start(c, s) \/ EndMessage(c, s)
    \/ \E frame \in {"voiced", "silent"} : Pcm(c, frame)
    \/ Raises(c) \/ Answer(c) \/ Handle(c) \/ Disconnect(c)

-------------------------------------------------------------------------------
Streams ==
  [ open : BOOLEAN, buffer : Seq({"voiced", "silent"}), silence : Nat, speech : Nat, utterance : Nat ]
GatewayTypeOK ==
  /\ voice \in [ Conns -> Ids \cup {Nobody} ] /\ ending \in [ Conns -> Ids \cup {Nobody} ]
  /\ handler \in [ Conns -> {"idle", "sending", "flushing", "ending", "gone"} ]
  /\ stream \in [ Ids -> Streams ]
  /\ calls \subseteq Ids /\ messages \in Nat
  /\ turns \in [ Ids -> Nat ] /\ owed \in [ Ids -> Nat ]

(* asr_whisper.py accept and _finalize: every voiced frame that a stream was  *)
(* fed is decoded once, given up once as noise, or still in the buffer; and   *)
(* the two counters that endpointing decides on describe that buffer, so that *)
(* noise of one stretch is never added to the speech of the next.             *)
Balanced(t, due, said) ==
  t.open =>
    /\ due = Voiced(t.buffer) /\ t.speech = Voiced(t.buffer)
    /\ t.silence < Silence /\ t.silence <= Len(t.buffer)
    /\ \A i \in 1..Len(t.buffer) : (t.buffer[i] = "voiced") => i <= Len(t.buffer) - t.silence
    /\ said <= t.utterance
StreamBooks == \A s \in Ids : Balanced(stream[s], owed[s], turns[s])

(* gateway.py _on_text and asr_whisper.py open_session: a connection that     *)
(* believes it has a voice session feeds an open stream, and no other         *)
(* connection that still runs feeds the same one: two callers are never mixed *)
(* into one utterance.                                                        *)
OneFeeder ==
  \A c \in Conns :
    handler[c] # "gone" /\ voice[c] # Nobody =>
      /\ stream[voice[c]].open
      /\ \A d \in Conns \ {c} : handler[d] # "gone" => voice[d] # voice[c]

(* A stream stays open, and its id locked, only while a connection feeds it,  *)
(* or because one that fed it dropped or started another session: an end      *)
(* frees the id, whatever session it names and whatever other connections end *)
(* meanwhile.                                                                 *)
NoIdLocked ==
  \A s \in Ids : stream[s].open => s \in left \/ \E c \in Conns : voice[c] = s

(* gateway.py _on_text: words that were spoken before an end are decoded,     *)
(* whatever session the end names: no stream is closed with speech in it.     *)
EndLosesNothing ==
  [][ \A s \in Ids : stream[s].open /\ ~stream'[s].open => Voiced(stream[s].buffer) = 0 ]_gatewayVars

(* Streams, their feeders and what they were fed.                             *)
GatewayInv == GatewayTypeOK /\ StreamBooks /\ OneFeeder /\ NoIdLocked
===============================================================================
