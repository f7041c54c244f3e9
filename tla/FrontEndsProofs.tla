--------------------------- MODULE FrontEndsProofs ---------------------------
(* The three front ends, for any number of connections, ids, iterations,      *)
(* calls and processors, any endpointing thresholds and any configuration.    *)
EXTENDS FrontEnds, FiniteSetTheorems, SequenceTheorems, TLAPS

LEMMA VoicedType ==
  ASSUME NEW buffer \in Seq({"voiced", "silent"})
  PROVE  Voiced(buffer) \in Nat
<1>1. IsFiniteSet(1..Len(buffer))
  BY FS_Interval
<1>2. { i \in 1..Len(buffer) : buffer[i] = "voiced" } \subseteq 1..Len(buffer)
  OBVIOUS
<1>3. IsFiniteSet({ i \in 1..Len(buffer) : buffer[i] = "voiced" })
  BY <1>1, <1>2, FS_Subset
<1> QED  BY <1>3, FS_CardinalityType DEF Voiced

LEMMA VoicedEmpty == Voiced(<<>>) = 0
<1>1. { i \in 1..Len(<<>>) : <<>>[i] = "voiced" } = {}
  OBVIOUS
<1> QED  BY <1>1, FS_EmptySet DEF Voiced

LEMMA VoicedAppend ==
  ASSUME NEW buffer \in Seq({"voiced", "silent"}), NEW frame \in {"voiced", "silent"}
  PROVE  Voiced(Append(buffer, frame)) = Voiced(buffer) + (IF frame = "voiced" THEN 1 ELSE 0)
<1> DEFINE V == { i \in 1..Len(buffer) : buffer[i] = "voiced" }
           W == { i \in 1..Len(Append(buffer, frame)) : Append(buffer, frame)[i] = "voiced" }
<1>1. IsFiniteSet(V) /\ Cardinality(V) \in Nat
  <2>1. IsFiniteSet(1..Len(buffer))
    BY FS_Interval
  <2>2. IsFiniteSet(V)
    BY <2>1, FS_Subset
  <2> QED  BY <2>2, FS_CardinalityType
<1>2. Voiced(buffer) = Cardinality(V) /\ Voiced(Append(buffer, frame)) = Cardinality(W)
  BY DEF Voiced
<1>3. CASE frame = "voiced"
  <2>1. W = V \cup {Len(buffer) + 1} /\ Len(buffer) + 1 \notin V
    BY <1>3
  <2> HIDE DEF V, W
  <2>2. Cardinality(W) = Cardinality(V) + 1
    BY <1>1, <2>1, FS_AddElement
  <2> QED  BY <1>2, <1>3, <2>2
<1>4. CASE frame = "silent"
  <2>1. W = V
    BY <1>4
  <2> HIDE DEF V, W
  <2> QED  BY <1>1, <1>2, <1>4, <2>1
<1> QED  BY <1>3, <1>4
-------------------------------------------------------------------------------
(* An end that has been decoded leaves nothing in the stream it will close.   *)
EndedEmpty ==
  \A c \in Conns :
    handler[c] \in {"flushing", "ending"} /\ voice[c] # Nobody => stream[voice[c]].buffer = <<>>

(* The inductive invariant.  OneFeeder keeps what an end has decoded empty    *)
(* until the stream is closed, for nobody else feeds it.                      *)
GatewayIInv == GatewayInv /\ EndedEmpty

LEMMA GatewayStarts == GatewayInit => GatewayIInv
  BY GatewayAssumption
     DEF GatewayInit, GatewayIInv, GatewayInv, GatewayTypeOK, Streams, StreamBooks, Balanced, Closed,
         OneFeeder, NoIdLocked, EndedEmpty

LEMMA Emptied ==
  ASSUME NEW n \in Nat, NEW said \in Nat, said <= n
  PROVE  Open(<<>>, 0, 0, n) \in Streams /\ Balanced(Open(<<>>, 0, 0, n), 0, said)
  BY VoicedEmpty, GatewayAssumption DEF Open, Streams, Balanced

LEMMA Added ==
  ASSUME NEW t \in Streams, t.open, NEW frame \in {"voiced", "silent"}
  PROVE  /\ Add(t, frame) \in Streams /\ Add(t, frame).open
         /\ Add(t, frame).utterance = t.utterance
         /\ Voiced(Add(t, frame).buffer) = Voiced(t.buffer) + (IF frame = "voiced" THEN 1 ELSE 0)
<1>1. t.buffer \in Seq({"voiced", "silent"}) /\ t.silence \in Nat /\ t.speech \in Nat /\ t.utterance \in Nat
  BY DEF Streams
<1>2. Add(t, frame).buffer = Append(t.buffer, frame)
  BY DEF Add, Open
<1> QED  BY <1>1, <1>2, VoicedAppend DEF Add, Open, Streams

LEMMA AddBalanced ==
  ASSUME NEW t \in Streams, t.open, NEW frame \in {"voiced", "silent"}, NEW due \in Nat, NEW said \in Nat,
         Balanced(t, due, said), ~Ends(Add(t, frame)), ~IsNoise(Add(t, frame))
  PROVE  Balanced(Add(t, frame), due + (IF frame = "voiced" THEN 1 ELSE 0), said)
<1> DEFINE a == Add(t, frame)
<1>1. t.buffer \in Seq({"voiced", "silent"}) /\ t.silence \in Nat /\ t.speech \in Nat /\ t.utterance \in Nat
  BY DEF Streams
<1>2. a.buffer = Append(t.buffer, frame) /\ a \in Streams /\ a.utterance = t.utterance
  BY Added DEF Add, Open
<1>3. Voiced(a.buffer) = Voiced(t.buffer) + (IF frame = "voiced" THEN 1 ELSE 0)
  BY Added
<1>4. a.silence = (IF frame = "voiced" THEN 0 ELSE t.silence + 1)
      /\ a.speech = t.speech + (IF frame = "voiced" THEN 1 ELSE 0)
  BY <1>1 DEF Add, Open
<1>5. a.silence < Silence
  BY <1>1, <1>2, GatewayAssumption DEF Ends, IsNoise, Streams
<1>6. Len(a.buffer) = Len(t.buffer) + 1
      /\ \A i \in 1..Len(a.buffer) : a.buffer[i] = IF i = Len(t.buffer) + 1 THEN frame ELSE t.buffer[i]
  BY <1>1, <1>2
<1>7. /\ due = Voiced(t.buffer) /\ t.speech = Voiced(t.buffer) /\ t.silence <= Len(t.buffer)
      /\ \A i \in 1..Len(t.buffer) : (t.buffer[i] = "voiced") => i <= Len(t.buffer) - t.silence
      /\ said <= t.utterance
  BY DEF Balanced
<1> HIDE DEF a
<1>8. a.silence <= Len(a.buffer)
      /\ \A i \in 1..Len(a.buffer) : (a.buffer[i] = "voiced") => i <= Len(a.buffer) - a.silence
  <2>1. CASE frame = "voiced"
    BY <1>1, <1>4, <1>6, <2>1
  <2>2. CASE frame = "silent"
    <3>1. Len(t.buffer) \in Nat /\ a.silence = t.silence + 1 /\ Len(a.buffer) = Len(t.buffer) + 1
      BY <1>1, <1>4, <1>6, <2>2
    <3>2. ASSUME NEW i \in 1..Len(a.buffer), a.buffer[i] = "voiced"
          PROVE  i <= Len(a.buffer) - a.silence
      <4>1. i \in 1..Len(t.buffer) /\ t.buffer[i] = "voiced"
        BY <1>6, <2>2, <3>1, <3>2
      <4>2. i <= Len(t.buffer) - t.silence
        BY <1>7, <4>1
      <4> QED  BY <1>1, <3>1, <4>2
    <3>3. a.silence <= Len(a.buffer)
      BY <1>1, <1>7, <3>1
    <3> QED  BY <3>2, <3>3
  <2> QED  BY <2>1, <2>2
<1>9. due + (IF frame = "voiced" THEN 1 ELSE 0) = Voiced(a.buffer) /\ a.speech = Voiced(a.buffer)
  BY <1>3, <1>4, <1>7
<1>10. Balanced(a, due + (IF frame = "voiced" THEN 1 ELSE 0), said)
  BY <1>2, <1>5, <1>7, <1>8, <1>9 DEF Balanced
<1> QED  BY <1>10 DEF a
(* What every step has at hand: the stream of a connection that is not gone   *)
(* is open, of its type, in balance and fed by nobody else.                   *)
LEMMA Fed ==
  ASSUME GatewayIInv, NEW c \in Conns, handler[c] # "gone", voice[c] # Nobody
  PROVE  /\ voice[c] \in Ids /\ stream[voice[c]] \in Streams /\ stream[voice[c]].open
         /\ stream[voice[c]].buffer \in Seq({"voiced", "silent"}) /\ stream[voice[c]].utterance \in Nat
         /\ owed[voice[c]] = Voiced(stream[voice[c]].buffer) /\ owed[voice[c]] \in Nat
         /\ turns[voice[c]] \in Nat /\ turns[voice[c]] <= stream[voice[c]].utterance
         /\ \A d \in Conns \ {c} : handler[d] # "gone" => voice[d] # voice[c]
  BY DEF GatewayIInv, GatewayInv, GatewayTypeOK, StreamBooks, Balanced, OneFeeder, Streams

(* Steps that leave the streams and their books alone.                        *)
LEMMA Undisturbed ==
  ASSUME GatewayIInv, UNCHANGED <<voice, stream, turns, owed, left>>,
         calls' \subseteq Ids, messages' \in Nat, ending' \in [ Conns -> Ids \cup {Nobody} ],
         NEW c \in Conns, NEW h \in {"idle", "sending", "flushing", "ending", "gone"}, Becomes(c, h),
         handler[c] # "gone",
         h \in {"flushing", "ending"} =>
           voice[c] = Nobody \/ stream[voice[c]].buffer = <<>>
  PROVE  GatewayIInv'
<1>1. GatewayTypeOK'
  BY DEF GatewayIInv, GatewayInv, GatewayTypeOK, Becomes
<1>2. StreamBooks' /\ NoIdLocked'
  BY DEF GatewayIInv, GatewayInv, StreamBooks, NoIdLocked
<1>3. OneFeeder' /\ EndedEmpty'
  BY DEF GatewayIInv, GatewayInv, GatewayTypeOK, OneFeeder, EndedEmpty, Becomes
<1> QED  BY <1>1, <1>2, <1>3 DEF GatewayIInv, GatewayInv

(* A step of connection c on its own stream, which stays open and in balance. *)
LEMMA OnOwnStream ==
  ASSUME GatewayIInv, NEW c \in Conns, handler[c] # "gone", voice[c] # Nobody,
         NEW t \in Streams, t.open, NEW due \in Nat, NEW said \in Nat, Balanced(t, due, said),
         stream' = [ stream EXCEPT ![voice[c]] = t ], owed' = [ owed EXCEPT ![voice[c]] = due ],
         turns' = [ turns EXCEPT ![voice[c]] = said ], messages' \in Nat,
         ending' \in [ Conns -> Ids \cup {Nobody} ], UNCHANGED <<voice, calls, left>>,
         NEW h \in {"idle", "sending", "flushing", "gone"}, handler' = [ handler EXCEPT ![c] = h ],
         h = "flushing" => t.buffer = <<>>
  PROVE  GatewayIInv'
<1>1. voice[c] \in Ids /\ \A d \in Conns \ {c} : handler[d] # "gone" => voice[d] # voice[c]
  BY Fed
<1>2. GatewayTypeOK'
  BY <1>1 DEF GatewayIInv, GatewayInv, GatewayTypeOK
<1>3. StreamBooks'
  BY <1>1 DEF GatewayIInv, GatewayInv, GatewayTypeOK, StreamBooks
<1>4. NoIdLocked'
  BY <1>1 DEF GatewayIInv, GatewayInv, GatewayTypeOK, NoIdLocked
<1>5. OneFeeder'
  BY <1>1 DEF GatewayIInv, GatewayInv, GatewayTypeOK, OneFeeder
<1>6. EndedEmpty'
  BY <1>1 DEF GatewayIInv, GatewayInv, GatewayTypeOK, EndedEmpty
<1> QED  BY <1>2, <1>3, <1>4, <1>5, <1>6 DEF GatewayIInv, GatewayInv

LEMMA StartStep ==
  ASSUME GatewayIInv, NEW c \in Conns, NEW s \in Ids, Start(c, s)
  PROVE  GatewayIInv'
<1>1. Fresh \in Streams /\ Fresh.open /\ Balanced(Fresh, 0, 0)
  BY Emptied DEF Fresh, Open
<1>2. /\ handler[c] = "idle" /\ ~stream[s].open /\ messages' = messages + 1
      /\ stream' = [ stream EXCEPT ![s] = Fresh ] /\ voice' = [ voice EXCEPT ![c] = s ]
      /\ calls' \subseteq Ids
      /\ turns' = [ turns EXCEPT ![s] = 0 ] /\ owed' = [ owed EXCEPT ![s] = 0 ]
      /\ left' = left \cup ({voice[c]} \ {Nobody})
      /\ handler' = [ handler EXCEPT ![c] = "sending" ] /\ ending' = ending
  BY DEF Start, Receives, Openable, Becomes, GatewayIInv, GatewayInv, GatewayTypeOK
<1>3. s # Nobody
  BY GatewayAssumption
<1>4. GatewayTypeOK'
  BY <1>1, <1>2 DEF GatewayIInv, GatewayInv, GatewayTypeOK
<1>5. StreamBooks'
  BY <1>1, <1>2 DEF GatewayIInv, GatewayInv, GatewayTypeOK, StreamBooks
<1>6. NoIdLocked'
  <2> SUFFICES ASSUME NEW q \in Ids, stream'[q].open
               PROVE  q \in left' \/ \E d \in Conns : voice'[d] = q
    BY DEF NoIdLocked
  <2>1. voice'[c] = s /\ \A d \in Conns \ {c} : voice'[d] = voice[d]
    BY <1>2 DEF GatewayIInv, GatewayInv, GatewayTypeOK
  <2>2. CASE q = s
    BY <2>1, <2>2
  <2>3. CASE q # s
    <3>1. stream[q].open
      BY <1>2, <2>3 DEF GatewayIInv, GatewayInv, GatewayTypeOK
    <3>2. q \in left \/ \E d \in Conns : voice[d] = q
      BY <3>1 DEF GatewayIInv, GatewayInv, NoIdLocked
    <3>3. q # Nobody
      BY GatewayAssumption
    <3> QED  BY <1>2, <2>1, <3>2, <3>3
  <2> QED  BY <2>2, <2>3
<1>7. \A d \in Conns \ {c} : handler[d] # "gone" => voice[d] # s
  BY <1>2, <1>3 DEF GatewayIInv, GatewayInv, OneFeeder
<1>8. OneFeeder'
  BY <1>1, <1>2, <1>7 DEF GatewayIInv, GatewayInv, GatewayTypeOK, OneFeeder
<1>9. EndedEmpty'
  BY <1>2, <1>7 DEF GatewayIInv, GatewayInv, GatewayTypeOK, EndedEmpty
<1> QED  BY <1>4, <1>5, <1>6, <1>8, <1>9 DEF GatewayIInv, GatewayInv

(* What is decoded, and what is dropped as noise, is owed no more.            *)
LEMMA DecodeStep ==
  ASSUME GatewayIInv, NEW c \in Conns, handler[c] # "gone", voice[c] # Nobody,
         NEW t \in Streams, NEW heard \in Nat, t.utterance = stream[voice[c]].utterance,
         Voiced(t.buffer) = Voiced(stream[voice[c]].buffer) + heard,
         NEW h \in {"idle", "flushing"}, Decode(c, voice[c], t, heard, h),
         messages' \in Nat, ending' \in [ Conns -> Ids \cup {Nobody} ], UNCHANGED <<voice, calls, left>>
  PROVE  GatewayIInv'
<1> DEFINE s == voice[c]
           n == t.utterance + 1
           e == Open(<<>>, 0, 0, n)
<1>1. /\ s \in Ids /\ stream[s].utterance \in Nat /\ owed[s] = Voiced(stream[s].buffer) /\ owed[s] \in Nat
      /\ turns[s] \in Nat /\ turns[s] <= stream[s].utterance
  BY Fed
<1>2. owed' = [ owed EXCEPT ![s] = 0 ]
  <2>1. owed[s] + heard - Voiced(t.buffer) = 0
    BY <1>1
  <2>2. owed' = [ owed EXCEPT ![s] = owed[s] + heard - Voiced(t.buffer) ]
    BY DEF Decode
  <2> QED  BY <2>1, <2>2
<1>3. \E said \in Nat : said <= n /\ turns' = [ turns EXCEPT ![s] = said ]
  <2>1. turns' = [ turns EXCEPT ![s] = turns[s] + 1 ] \/ turns' = turns
    BY DEF Decode
  <2>2. turns = [ turns EXCEPT ![s] = turns[s] ]
    BY <1>1 DEF GatewayIInv, GatewayInv, GatewayTypeOK
  <2> QED  BY <1>1, <2>1, <2>2
<1>4. PICK said \in Nat : said <= n /\ turns' = [ turns EXCEPT ![s] = said ]
  BY <1>3
<1>5. e \in Streams /\ Balanced(e, 0, said) /\ e.open /\ e.buffer = <<>>
  <2>1. n \in Nat
    BY <1>1
  <2>2. Open(<<>>, 0, 0, n) \in Streams /\ Balanced(Open(<<>>, 0, 0, n), 0, said)
    BY <1>4, <2>1, Emptied
  <2> QED  BY <2>2 DEF Open
<1>6. stream' = [ stream EXCEPT ![s] = e ]
  BY DEF Decode, Finalized
<1>7. \E k \in {"idle", "sending", "flushing", "gone"} : handler' = [ handler EXCEPT ![c] = k ]
  BY DEF Decode, Becomes
<1> HIDE DEF s, n, e
<1> QED  BY <1>2, <1>4, <1>5, <1>6, <1>7, OnOwnStream DEF s
LEMMA PcmStep ==
  ASSUME GatewayIInv, NEW c \in Conns, NEW frame \in {"voiced", "silent"}, Pcm(c, frame)
  PROVE  GatewayIInv'
<1> DEFINE s == voice[c]
           old == stream[s]
           t == Add(old, frame)
           heard == IF frame = "voiced" THEN 1 ELSE 0
<1>1. /\ handler[c] = "idle" /\ handler[c] # "gone" /\ s # Nobody /\ messages' \in Nat
      /\ UNCHANGED <<voice, ending, calls, left>> /\ ending' \in [ Conns -> Ids \cup {Nobody} ]
  BY DEF Pcm, Receives, GatewayIInv, GatewayInv, GatewayTypeOK
<1>2. /\ s \in Ids /\ old \in Streams /\ old.open /\ old.buffer \in Seq({"voiced", "silent"})
      /\ old.utterance \in Nat /\ owed[s] = Voiced(old.buffer) /\ owed[s] \in Nat
      /\ turns[s] \in Nat /\ turns[s] <= old.utterance
  BY <1>1, Fed
<1>3. heard \in Nat
  OBVIOUS
<1>4. /\ t \in Streams /\ t.open /\ t.utterance = old.utterance
      /\ Voiced(t.buffer) = Voiced(old.buffer) + heard
  BY <1>2, Added
<1>5. \/ Ends(t) /\ Decode(c, s, t, heard, "idle")
      \/ /\ IsNoise(t) /\ stream' = [ stream EXCEPT ![s] = Dropped(t) ]
         /\ owed' = [ owed EXCEPT ![s] = owed[s] + heard - Voiced(t.buffer) ] /\ UNCHANGED <<handler, turns>>
      \/ /\ ~Ends(t) /\ ~IsNoise(t) /\ stream' = [ stream EXCEPT ![s] = t ]
         /\ owed' = [ owed EXCEPT ![s] = owed[s] + heard ] /\ UNCHANGED <<handler, turns>>
  BY DEF Pcm
<1>6. /\ Balanced(old, owed[s], turns[s])
      /\ UNCHANGED handler => handler' = [ handler EXCEPT ![c] = "idle" ]
      /\ UNCHANGED turns => turns' = [ turns EXCEPT ![s] = turns[s] ]
  BY <1>1, <1>2 DEF GatewayIInv, GatewayInv, GatewayTypeOK, StreamBooks
<1>7. ~Ends(t) /\ ~IsNoise(t) => Balanced(t, owed[s] + heard, turns[s])
  BY <1>2, <1>6, AddBalanced
<1> HIDE DEF t, heard
<1>8. CASE Ends(t) /\ Decode(c, s, t, heard, "idle")
  BY <1>1, <1>3, <1>4, <1>8, DecodeStep
<1>9. CASE /\ IsNoise(t) /\ stream' = [ stream EXCEPT ![s] = Dropped(t) ]
           /\ owed' = [ owed EXCEPT ![s] = owed[s] + heard - Voiced(t.buffer) ] /\ UNCHANGED <<handler, turns>>
  <2>1. owed[s] + heard - Voiced(t.buffer) = 0
    BY <1>2, <1>3, <1>4
  <2>2. owed' = [ owed EXCEPT ![s] = 0 ]
    BY <1>9, <2>1
  <2>3. Dropped(t) = Open(<<>>, 0, 0, old.utterance)
    BY <1>4 DEF Dropped
  <2>4. Dropped(t) \in Streams /\ Dropped(t).open /\ Balanced(Dropped(t), 0, turns[s])
    <3>1. Open(<<>>, 0, 0, old.utterance) \in Streams /\ Balanced(Open(<<>>, 0, 0, old.utterance), 0, turns[s])
      BY <1>2, Emptied
    <3>2. Open(<<>>, 0, 0, old.utterance).open
      BY DEF Open
    <3> QED  BY <2>3, <3>1, <3>2
  <2>5. /\ stream' = [ stream EXCEPT ![s] = Dropped(t) ]
        /\ handler' = [ handler EXCEPT ![c] = "idle" ] /\ turns' = [ turns EXCEPT ![s] = turns[s] ]
    BY <1>6, <1>9
  <2> DEFINE d == Dropped(t)
             n == turns[s]
  <2>6. /\ d \in Streams /\ d.open /\ Balanced(d, 0, n) /\ n \in Nat
        /\ stream' = [ stream EXCEPT ![voice[c]] = d ] /\ owed' = [ owed EXCEPT ![voice[c]] = 0 ]
        /\ turns' = [ turns EXCEPT ![voice[c]] = n ]
    BY <1>2, <2>2, <2>4, <2>5
  <2> HIDE DEF d, n
  <2> QED  BY <1>1, <2>5, <2>6, OnOwnStream
<1>10. CASE /\ ~Ends(t) /\ ~IsNoise(t) /\ stream' = [ stream EXCEPT ![s] = t ]
            /\ owed' = [ owed EXCEPT ![s] = owed[s] + heard ] /\ UNCHANGED <<handler, turns>>
  <2>1. owed[s] + heard \in Nat
    BY <1>2, <1>3
  <2> HIDE DEF s, old
  <2> QED  BY <1>1, <1>2, <1>4, <1>6, <1>7, <1>10, <2>1, OnOwnStream DEF s
<1> QED  BY <1>5, <1>8, <1>9, <1>10

LEMMA EndStep ==
  ASSUME GatewayIInv, NEW c \in Conns, NEW s \in Ids, EndMessage(c, s)
  PROVE  GatewayIInv'
<1>1. /\ handler[c] = "idle" /\ handler[c] # "gone" /\ messages' \in Nat /\ UNCHANGED <<voice, calls, left>>
      /\ ending' \in [ Conns -> Ids \cup {Nobody} ] /\ calls' \subseteq Ids
  BY DEF EndMessage, Receives, GatewayIInv, GatewayInv, GatewayTypeOK
<1>2. CASE Flushable(c)
  <2>1. voice[c] # Nobody /\ Decode(c, voice[c], stream[voice[c]], 0, "flushing")
    BY <1>2 DEF EndMessage, Flushable
  <2>2. stream[voice[c]] \in Streams /\ Voiced(stream[voice[c]].buffer) = Voiced(stream[voice[c]].buffer) + 0
    BY <1>1, <2>1, Fed
  <2> QED  BY <1>1, <2>1, <2>2, DecodeStep
<1>3. CASE ~Flushable(c)
  <2>1. voice[c] = Nobody \/ stream[voice[c]].buffer = <<>>
    BY <1>3 DEF Flushable
  <2>2. Becomes(c, "flushing") /\ UNCHANGED <<stream, owed, turns>>
    BY <1>3 DEF EndMessage
  <2> QED  BY <1>1, <2>1, <2>2, Undisturbed
<1> QED  BY <1>2, <1>3

LEMMA CloseStep ==
  ASSUME GatewayIInv, NEW c \in Conns, CloseStream(c)
  PROVE  GatewayIInv'
<1>1. /\ handler[c] = "ending" /\ handler' = [ handler EXCEPT ![c] = "idle" ]
      /\ stream' = [ s \in Ids |-> IF s = voice[c] THEN Closed ELSE stream[s] ]
      /\ voice' = [ voice EXCEPT ![c] = Nobody ] /\ ending' = [ ending EXCEPT ![c] = Nobody ]
      /\ UNCHANGED <<calls, turns, owed, left, messages>>
  BY DEF CloseStream, ToClose, Becomes
<1>2. Closed \in Streams /\ ~Closed.open /\ Closed.buffer = <<>>
  BY DEF Closed, Streams
<1>3. \A d \in Conns \ {c} : handler[d] # "gone" /\ voice[d] # Nobody => voice[d] # voice[c]
  BY <1>1 DEF GatewayIInv, GatewayInv, OneFeeder
<1>4. GatewayTypeOK'
  BY <1>1, <1>2 DEF GatewayIInv, GatewayInv, GatewayTypeOK
<1>5. StreamBooks'
  BY <1>1, <1>2 DEF GatewayIInv, GatewayInv, StreamBooks, Balanced
<1>6. NoIdLocked'
  BY <1>1, <1>2 DEF GatewayIInv, GatewayInv, GatewayTypeOK, NoIdLocked
<1>7. OneFeeder'
  BY <1>1, <1>3 DEF GatewayIInv, GatewayInv, GatewayTypeOK, OneFeeder
<1>8. EndedEmpty'
  BY <1>1, <1>3 DEF GatewayIInv, GatewayInv, GatewayTypeOK, EndedEmpty
<1> QED  BY <1>4, <1>5, <1>6, <1>7, <1>8 DEF GatewayIInv, GatewayInv

LEMMA GatewayStep == GatewayIInv /\ [Next]_vars => GatewayIInv'
<1> SUFFICES ASSUME GatewayIInv, [Next]_vars PROVE GatewayIInv'
  OBVIOUS
<1>1. CASE UNCHANGED gatewayVars
  BY <1>1 DEF gatewayVars, GatewayIInv, GatewayInv, GatewayTypeOK, StreamBooks, OneFeeder, NoIdLocked, EndedEmpty
<1>2. CASE GatewayNext
  <2>1. ASSUME NEW c \in Conns, Raises(c) \/ Answer(c) \/ Sent(c) \/ EndCall(c) \/ Disconnect(c)
        PROVE  GatewayIInv'
    <3>1. /\ UNCHANGED <<voice, stream, turns, owed, left, ending>> /\ calls' \subseteq Ids /\ messages' \in Nat
          /\ handler[c] # "gone" /\ ending' \in [ Conns -> Ids \cup {Nobody} ]
      BY <2>1 DEF Raises, Answer, Sent, EndCall, Disconnect, Receives, GatewayIInv, GatewayInv, GatewayTypeOK
    <3>2. \E h \in {"idle", "sending", "ending", "gone"} :
            Becomes(c, h) /\ (h = "ending" => handler[c] = "flushing")
      BY <2>1 DEF Raises, Answer, Sent, EndCall, Disconnect
    <3> QED  BY <3>1, <3>2, Undisturbed DEF GatewayIInv, EndedEmpty
  <2> QED  BY <1>2, <2>1, StartStep, EndStep, PcmStep, CloseStep DEF GatewayNext, Handle
<1> QED  BY <1>1, <1>2 DEF Next, vars, partVars

(* gateway.py and asr_whisper.py: endpointing decides on counters that        *)
(* describe the buffer, every voiced frame is decoded or given up once, no    *)
(* two connections feed one stream, and an end frees the id of its stream.    *)
THEOREM GatewayKeepsItsBooks == Spec => []GatewayInv
<1>1. Init => GatewayIInv
  BY GatewayStarts DEF Init
<1>2. GatewayIInv => GatewayInv
  BY DEF GatewayIInv
<1> QED  BY <1>1, <1>2, GatewayStep, PTL DEF Spec

(* Only the close of an end that has been decoded closes a stream.            *)
LEMMA OnlyEndsClose ==
  ASSUME GatewayIInv, GatewayNext, NEW s \in Ids, stream[s].open, ~stream'[s].open
  PROVE  stream[s].buffer = <<>>
<1>1. stream \in [ Ids -> Streams ]
  BY DEF GatewayIInv, GatewayInv, GatewayTypeOK
<1>2. ASSUME NEW c \in Conns, NEW q \in Ids, Start(c, q) PROVE FALSE
  BY <1>1, <1>2 DEF Start, Fresh, Open
<1>3. ASSUME NEW c \in Conns, NEW q \in Ids, EndMessage(c, q) PROVE FALSE
  BY <1>1, <1>3 DEF EndMessage, Decode, Finalized, Open
<1>4. ASSUME NEW c \in Conns, NEW frame \in {"voiced", "silent"}, Pcm(c, frame) PROVE FALSE
  BY <1>1, <1>4 DEF Pcm, Decode, Finalized, Dropped, Add, Open
<1>5. ASSUME NEW c \in Conns, Raises(c) \/ Answer(c) \/ Sent(c) \/ EndCall(c) \/ Disconnect(c) PROVE FALSE
  BY <1>5 DEF Raises, Answer, Sent, EndCall, Disconnect
<1>6. ASSUME NEW c \in Conns, CloseStream(c) PROVE stream[s].buffer = <<>>
  <2>1. s = voice[c] /\ handler[c] = "ending"
    BY <1>6 DEF CloseStream, ToClose
  <2>2. s # Nobody
    BY GatewayAssumption
  <2> QED  BY <2>1, <2>2 DEF GatewayIInv, EndedEmpty
<1> QED  BY <1>2, <1>3, <1>4, <1>5, <1>6 DEF GatewayNext, Handle

(* gateway.py _on_text: no end closes a stream with undecoded words in it.    *)
THEOREM EndLosesNothingHolds == Spec => EndLosesNothing
<1>1. GatewayIInv /\ [Next]_vars =>
        [ \A s \in Ids : stream[s].open /\ ~stream'[s].open => Voiced(stream[s].buffer) = 0 ]_gatewayVars
  BY OnlyEndsClose, VoicedEmpty DEF Next, vars, partVars
<1>2. Init => GatewayIInv
  BY GatewayStarts DEF Init
<1> QED  BY <1>1, <1>2, GatewayStep, PTL DEF Spec, EndLosesNothing
-------------------------------------------------------------------------------
(* The stream adapter.                                                        *)

NoFrame == <<"none">>
Waits == <<"waits">>
FrameOf == Iterations \X Nat

(* What is known of an iteration by itself. *)
IterInv ==
  /\ queue \in Seq(FrameOf)
  /\ yielded \in [ Iterations -> Seq(FrameOf) ]
  /\ reader \in [ Iterations -> {NoFrame, Waits} \cup { <<"has", f>> : f \in FrameOf } ]
  /\ \A i \in Iterations :
       /\ iter[i] = "new" => /\ turn[i] = "none" /\ emitted[i] = 0 /\ ~changed[i] /\ yielded[i] = <<>>
                             /\ reader[i] = NoFrame
       /\ iter[i] # "new" => turn[i] # "none" /\ callOf[i] # NoCall
       /\ iter[i] \in {"draining", "done"} => Ended(i)
       /\ iter[i] = "yielding" /\ over[i] => Ended(i)
       /\ session = NoCall => iter[i] = "new"

HeldBy(i) == IF HasFrame(i) THEN << reader[i][2] >> ELSE <<>>
Numbered(i, n) == [ k \in 1..n |-> <<i, k>> ]

(* An iteration that nothing disturbed is the only one at work.               *)
AloneInv ==
  \A i \in Iterations :
    iter[i] \in Live /\ ~disturbed[i] =>
      /\ \A k \in Iterations \ {i} : ~Busy(k)
      /\ callOf[i] = session
      /\ changed[i] <=> callState[session] # before[i]
      /\ yielded[i] \o (HeldBy(i) \o queue) = Numbered(i, emitted[i])

StreamIInv == AdapterInv /\ IterInv /\ AloneInv

(* Sequences, as the queue and what is yielded from it use them.              *)
LEMMA MoveLeft ==
  ASSUME NEW V, NEW s \in Seq(V), NEW t \in Seq(V), NEW x \in V
  PROVE  s \o (<<x>> \o t) = Append(s, x) \o t
<1>1. <<x>> \in Seq(V) OBVIOUS
<1>2. s \o <<x>> = Append(s, x) OBVIOUS
<1>3. (s \o <<x>>) \o t = s \o (<<x>> \o t) BY <1>1, ConcatAssociative
<1> QED BY <1>2, <1>3, Zenon

(* An appended frame is the last of whatever went before.                     *)
LEMMA AppendRight ==
  ASSUME NEW V, NEW s \in Seq(V), NEW t \in Seq(V), NEW x \in V
  PROVE  s \o Append(t, x) = Append(s \o t, x)
<1>1. <<x>> \in Seq(V) OBVIOUS
<1>2. t \o <<x>> = Append(t, x) OBVIOUS
<1>3. (s \o t) \o <<x>> = Append(s \o t, x)
  <2>1. s \o t \in Seq(V) OBVIOUS
  <2> QED BY <2>1
<1>4. (s \o t) \o <<x>> = s \o (t \o <<x>>) BY <1>1, ConcatAssociative
<1> QED BY <1>2, <1>3, <1>4, Zenon

(* The frame that is taken was the first.                                     *)
LEMMA HeadAndTail ==
  ASSUME NEW V, NEW t \in Seq(V), t # <<>>
  PROVE  <<Head(t)>> \o Tail(t) = t
<1>1. Head(t) \in V /\ Tail(t) \in Seq(V) BY HeadTailProperties
<1>2. <<Head(t)>> \o Tail(t) \in Seq(V) BY <1>1
<1>3. Len(<<Head(t)>> \o Tail(t)) = Len(t) BY <1>1
<1>4. \A i \in 1..Len(t) : (<<Head(t)>> \o Tail(t))[i] = t[i] BY <1>1
<1> QED BY <1>2, <1>3, <1>4, SeqEqual

(* A turn numbers its frames.                                                 *)
LEMMA NumberedGrows ==
  ASSUME NEW i \in Iterations, NEW n \in Nat
  PROVE  /\ Numbered(i, n) \in Seq(FrameOf) /\ Numbered(i, 0) = <<>>
         /\ Append(Numbered(i, n), <<i, n + 1>>) = Numbered(i, n + 1)
<1>1. \A m \in Nat : Numbered(i, m) \in Seq(FrameOf) /\ Len(Numbered(i, m)) = m BY DEF Numbered, FrameOf
<1>2. Numbered(i, 0) = <<>> BY <1>1
<1>3. <<i, n + 1>> \in FrameOf BY DEF FrameOf
<1>4. Append(Numbered(i, n), <<i, n + 1>>) \in Seq(FrameOf) BY <1>1, <1>3
<1>5. Len(Append(Numbered(i, n), <<i, n + 1>>)) = n + 1 BY <1>1
<1>6. \A k \in 1..(n + 1) : Append(Numbered(i, n), <<i, n + 1>>)[k] = Numbered(i, n + 1)[k]
  <2> TAKE k \in 1..(n + 1)
  <2>1. Numbered(i, n + 1)[k] = <<i, k>> BY DEF Numbered
  <2>2. CASE k = n + 1
    <3>1. Len(Numbered(i, n)) = n /\ Numbered(i, n) \in Seq(FrameOf) BY <1>1
    <3> QED BY <1>3, <2>1, <2>2, <3>1
  <2>3. CASE k # n + 1
    <3>1. k \in 1..n BY <2>3
    <3>2. Numbered(i, n)[k] = <<i, k>> BY <3>1 DEF Numbered
    <3>3. Append(Numbered(i, n), <<i, n + 1>>)[k] = Numbered(i, n)[k] BY <1>1, <3>1
    <3> QED BY <2>1, <3>2, <3>3
  <2> QED BY <2>2, <2>3
<1>7. Append(Numbered(i, n), <<i, n + 1>>) = Numbered(i, n + 1)
  <2> DEFINE A == Append(Numbered(i, n), <<i, n + 1>>)
             B == Numbered(i, n + 1)
  <2>1. A \in Seq(FrameOf) /\ B \in Seq(FrameOf) /\ Len(A) = n + 1 /\ Len(B) = n + 1 BY <1>1, <1>4, <1>5
  <2>2. \A k \in 1..(n + 1) : A[k] = B[k] BY <1>6
  <2> HIDE DEF A, B
  <2>3. Len(A) = Len(B) /\ \A k \in 1..Len(A) : A[k] = B[k] BY <2>1, <2>2
  <2>4. A = B BY <2>1, <2>3, SeqEqual, Zenon
  <2> QED BY <2>4 DEF A, B
<1> QED BY <1>1, <1>2, <1>7

(* The bound on all frames bounds those of a turn.                            *)
LEMMA RoomLeft ==
  ASSUME emitted \in [ Iterations -> 0..MaxFrames ], NEW i \in Iterations, Cardinality(Put) < MaxFrames
  PROVE  emitted[i] + 1 \in 0..MaxFrames
<1> MaxFrames \in Nat /\ MaxIterations \in Nat BY StreamAssumption
<1>1. SUFFICES ASSUME emitted[i] = MaxFrames PROVE FALSE OBVIOUS
<1> DEFINE S == 1..MaxFrames
           f == [ n \in S |-> <<i, n>> ]
<1>2. IsFiniteSet(S) /\ Cardinality(S) = MaxFrames BY FS_Interval
<1>3. IsFiniteSet(Iterations) BY FS_Interval DEF Iterations
<1>4. IsFiniteSet(Iterations \X S) BY <1>2, <1>3, FS_Product
<1>5. IsFiniteSet(Put) BY <1>4, FS_Subset DEF Put
<1>6. f \in Injection(S, Put) 
  <2>1. f \in [ S -> Put ] BY <1>1 DEF Put
  <2>2. \A a, b \in S : f[a] = f[b] => a = b OBVIOUS
  <2> QED BY <2>1, <2>2 DEF Injection, IsInjective
<1>7. Cardinality(S) <= Cardinality(Put)
  <2> HIDE DEF f, S
  <2> QED BY <1>5, <1>6, FS_Injection
<1>8. Cardinality(Put) \in Nat BY <1>5, FS_CardinalityType
<1> QED BY <1>2, <1>7, <1>8

(* The invariant of the adapter holds at the start.                           *)
LEMMA StreamStarts == StreamInit => StreamIInv
<1> SUFFICES ASSUME StreamInit PROVE StreamIInv OBVIOUS
<1>1. StreamTypeOK BY StreamAssumption DEF StreamInit, StreamTypeOK
<1>2. FramesComplete /\ StateTold /\ AloneInv BY DEF StreamInit, FramesComplete, StateTold, AloneInv, Live
<1>3. LostOnlyToOrphans BY DEF StreamInit, LostOnlyToOrphans
<1>4. IterInv BY DEF StreamInit, IterInv, NoFrame
<1> QED BY <1>1, <1>2, <1>3, <1>4 DEF StreamIInv, AdapterInv

(* Every step keeps the types.                                                *)
LEMMA TypeStep ==
  ASSUME StreamIInv, StreamNext
  PROVE  StreamTypeOK'
<1> StreamTypeOK BY DEF StreamIInv, AdapterInv
<1> USE DEF turnVars, iterVars
<1>1. ASSUME NEW c \in LiveCalls, StartLiveCall(c) PROVE StreamTypeOK'
  BY <1>1 DEF StartLiveCall, StreamTypeOK
<1>2. ASSUME NEW i \in Iterations, Begins(i) PROVE StreamTypeOK'
  <2>1. callState[session] \in BOOLEAN BY <1>2 DEF Begins, StreamTypeOK
  <2> QED BY <1>2, <2>1 DEF Begins, StateBefore, StreamTypeOK, Live
<1>3. ASSUME NEW i \in Iterations, Emit(i) PROVE StreamTypeOK'
  <2>1. emitted[i] + 1 \in 0..MaxFrames BY <1>3, RoomLeft DEF Emit, StreamTypeOK
  <2> QED BY <1>3, <2>1 DEF Emit, StreamTypeOK
<1>4. ASSUME NEW i \in Iterations, ChangeState(i) PROVE StreamTypeOK'
  BY <1>4 DEF ChangeState, StreamTypeOK
<1>5. ASSUME NEW i \in Iterations, Works(i) PROVE StreamTypeOK'
  BY <1>5 DEF Works, TurnEnds, Read, StreamTypeOK
<1>6. ASSUME NEW i \in Iterations, Yield(i) PROVE StreamTypeOK'
  BY <1>6 DEF Yield, StreamTypeOK, Live, Ended
<1>7. ASSUME NEW i \in Iterations, Resume(i) \/ SeesEnd(i) \/ Stop(i) PROVE StreamTypeOK'
  BY <1>7 DEF Resume, SeesEnd, Stop, TurnOver, StreamTypeOK, Live, Over
<1>8. ASSUME NEW i \in Iterations, Drain(i) PROVE StreamTypeOK'
  BY <1>8 DEF Drain, StreamTypeOK
<1>9. ASSUME NEW i \in Iterations, Finish(i) PROVE StreamTypeOK'
  BY <1>9 DEF Finish, StreamTypeOK, Live, Over
<1> QED BY <1>1, <1>2, <1>3, <1>4, <1>5, <1>6, <1>7, <1>8, <1>9 DEF StreamNext, Consume

(* Every step keeps what is known of an iteration by itself.                  *)
LEMMA IterStep ==
  ASSUME StreamIInv, StreamNext
  PROVE  IterInv'
<1> StreamTypeOK /\ IterInv BY DEF StreamIInv, AdapterInv
<1> USE DEF turnVars, iterVars, NoFrame, Waits, IterInv
<1>0. LiveCalls \subseteq Nat BY DEF LiveCalls
<1>1. ASSUME NEW c \in LiveCalls, StartLiveCall(c) PROVE IterInv'
  <2>1. session' # NoCall BY <1>0, <1>1 DEF StartLiveCall, StreamTypeOK, NoCall
  <2> QED BY <1>1, <2>1 DEF StartLiveCall, StreamTypeOK, Ended
<1>2. ASSUME NEW i \in Iterations, Begins(i) PROVE IterInv'
  BY <1>2 DEF Begins, StreamTypeOK, Ended
<1>3. ASSUME NEW i \in Iterations, Emit(i) PROVE IterInv'
  <2>1. <<i, emitted[i] + 1>> \in FrameOf BY DEF StreamTypeOK, FrameOf
  <2>2. queue' \in Seq(FrameOf) BY <1>3, <2>1 DEF Emit
  <2> QED BY <1>3, <2>2 DEF Emit, StreamTypeOK, Ended
<1>4. ASSUME NEW i \in Iterations, ChangeState(i) PROVE IterInv'
  BY <1>4 DEF ChangeState, StreamTypeOK, Ended
<1>5. ASSUME NEW i \in Iterations, TurnEnds(i) PROVE IterInv'
  BY <1>5 DEF TurnEnds, StreamTypeOK, Ended
<1>r. ASSUME NEW i \in Iterations, Read(i) PROVE IterInv'
  <2>1. Head(queue) \in FrameOf /\ queue' \in Seq(FrameOf) BY <1>r, HeadTailProperties DEF Read
  <2>2. <<"has", Head(queue)>> \in { <<"has", f>> : f \in FrameOf } BY <2>1
  <2> QED BY <1>r, <2>1, <2>2 DEF Read, StreamTypeOK, Ended
<1>6. ASSUME NEW i \in Iterations, Yield(i) PROVE IterInv'
  <2>1. reader[i][2] \in FrameOf BY <1>6 DEF Yield, HasFrame
  <2>2. yielded' \in [ Iterations -> Seq(FrameOf) ] BY <1>6, <2>1 DEF Yield
  <2>3. reader' \in [ Iterations -> {NoFrame, Waits} \cup { <<"has", f>> : f \in FrameOf } ] BY <1>6 DEF Yield
  <2> QED BY <1>6, <2>2, <2>3 DEF Yield, StreamTypeOK, Ended
<1>7. ASSUME NEW i \in Iterations, Resume(i) \/ SeesEnd(i) \/ Stop(i) PROVE IterInv'
  <2> DEFINE Readers == {NoFrame, Waits} \cup { <<"has", f>> : f \in FrameOf }
  <2>0. NoFrame \in Readers /\ Waits \in Readers /\ reader \in [ Iterations -> Readers ] BY DEF NoFrame, Waits
  <2> HIDE DEF Readers
  <2>1. UNCHANGED <<turnVars, session, callOf, over, yielded, queue>> /\ iter[i] # "new" /\ iter[i] \in Live
    BY <1>7 DEF Resume, SeesEnd, Stop, Live
  <2>2. /\ reader' \in [ Iterations -> Readers ] /\ \A k \in Iterations \ {i} : reader'[k] = reader[k]
    BY <1>7, <2>0 DEF Resume, SeesEnd, Stop, TurnOver, Cancelled
  <2>3. \E w \in {"waiting", "raised", "draining", "abandoned", "cancelled"} :
          iter' = [ iter EXCEPT ![i] = w ] /\ (w = "draining" => Ended(i))
    BY <1>7 DEF Resume, SeesEnd, Stop, TurnOver, WaitSet
  <2> QED BY <2>1, <2>2, <2>3 DEF Readers, StreamTypeOK, Ended
<1>8. ASSUME NEW i \in Iterations, Drain(i) PROVE IterInv'
  <2>1. Head(queue) \in FrameOf /\ queue' \in Seq(FrameOf) BY <1>8, HeadTailProperties DEF Drain
  <2>2. yielded' \in [ Iterations -> Seq(FrameOf) ] BY <1>8, <2>1 DEF Drain
  <2> QED BY <1>8, <2>1, <2>2 DEF Drain, StreamTypeOK, Ended
<1>9. ASSUME NEW i \in Iterations, Finish(i) PROVE IterInv'
  BY <1>9 DEF Finish, StreamTypeOK, Ended
<1> QED BY <1>1, <1>2, <1>3, <1>4, <1>5, <1>r, <1>6, <1>7, <1>8, <1>9 DEF StreamNext, Consume, Works

(* What a line is made of.                                                    *)
LEMMA LineType ==
  ASSUME StreamTypeOK, IterInv, NEW i \in Iterations
  PROVE  /\ yielded[i] \in Seq(FrameOf) /\ HeldBy(i) \in Seq(FrameOf) /\ queue \in Seq(FrameOf)
         /\ emitted[i] \in Nat /\ turn[i] \in {"none", "running", "done", "raised"}
<1>1. HasFrame(i) => reader[i][2] \in FrameOf BY DEF IterInv, HasFrame, NoFrame, Waits
<1> QED BY <1>1 DEF StreamTypeOK, IterInv, HeldBy

AloneAt(i) ==
  iter[i] \in Live /\ ~disturbed[i] =>
    /\ \A k \in Iterations \ {i} : ~Busy(k)
    /\ callOf[i] = session
    /\ changed[i] <=> callState[session] # before[i]
    /\ yielded[i] \o (HeldBy(i) \o queue) = Numbered(i, emitted[i])

(* A step of the iteration leaves the others as they are, and those that      *)
(* nothing disturbed have seen none of it.                                    *)
LEMMA OthersAlone ==
  ASSUME StreamIInv, NEW i \in Iterations, Busy(i), NEW j \in Iterations \ {i}, iter[j] \in Live
  PROVE  disturbed[j]
BY DEF StreamIInv, AloneInv

(* An iteration that nothing disturbed stays alone, and the frames of its turn*)
(* are, in order, yielded, with its reader, and in the queue.                 *)
LEMMA AloneStep ==
  ASSUME StreamIInv, StreamNext
  PROVE  AloneInv'
<1> StreamTypeOK /\ IterInv /\ AloneInv BY DEF StreamIInv, AdapterInv
<1> USE DEF turnVars, iterVars
<1>s. SUFFICES ASSUME NEW j \in Iterations PROVE AloneAt(j)' BY DEF AloneInv, AloneAt
<1>j. AloneAt(j) BY DEF AloneInv, AloneAt
<1>l. /\ yielded[j] \in Seq(FrameOf) /\ HeldBy(j) \in Seq(FrameOf) /\ queue \in Seq(FrameOf)
      /\ emitted[j] \in Nat
  BY LineType
<1>1. ASSUME NEW c \in LiveCalls, StartLiveCall(c) PROVE AloneAt(j)'
  BY <1>1 DEF StartLiveCall, AloneAt
<1>2. ASSUME NEW i \in Iterations, Begins(i) PROVE AloneAt(j)'
  <2>1. CASE j # i
    BY <1>2, <2>1 DEF Begins, StreamTypeOK, AloneAt
  <2>2. CASE j = i
    <3> SUFFICES ASSUME ~disturbed'[i] PROVE AloneAt(i)' BY <2>2 DEF AloneAt
    <3>1. queue = <<>> /\ \A k \in Iterations \ {i} : ~Busy(k) BY <1>2 DEF Begins, StreamTypeOK
    <3>2. \A k \in Iterations \ {i} : ~Busy(k)' BY <1>2, <3>1 DEF Begins, Busy, StreamTypeOK, IterInv
    <3>3. callOf'[i] = session' /\ (changed'[i] <=> callState'[session'] # before'[i])
      <4>1. iter[i] = "new" /\ ~changed[i] BY <1>2 DEF Begins, IterInv
      <4> QED BY <1>2, <4>1 DEF Begins, StateBefore, StreamTypeOK
    <3>4. yielded'[i] = <<>> /\ ~HasFrame(i)' /\ queue' = <<>> /\ emitted'[i] = 0
      BY <1>2, <3>1 DEF Begins, HasFrame, StreamTypeOK, IterInv
    <3>5. yielded'[i] \o (HeldBy(i)' \o queue') = <<>> BY <3>4 DEF HeldBy
    <3>6. Numbered(i, emitted'[i]) = <<>> BY <3>4, NumberedGrows
    <3> QED BY <3>2, <3>3, <3>5, <3>6 DEF AloneAt
  <2> QED BY <2>1, <2>2
<1>3. ASSUME NEW i \in Iterations, Emit(i) \/ ChangeState(i) \/ TurnEnds(i) \/ Read(i) \/ Consume(i) \/ Stop(i)
      PROVE  AloneAt(j)'
  <2>1. /\ Busy(i) /\ UNCHANGED <<disturbed, session, callOf>>
        /\ \A k \in Iterations \ {i} : iter'[k] = iter[k] /\ turn'[k] = turn[k] /\ reader'[k] = reader[k]
    BY <1>3 DEF Emit, ChangeState, TurnEnds, Read, Consume, Yield, Resume, SeesEnd, TurnOver, Cancelled, Drain,
                Finish, Stop, Busy, Live, StreamTypeOK, IterInv, NoFrame, Waits, HasFrame
  <2>2. CASE j # i
    <3>1. iter[j] \in Live => disturbed[j] BY <2>1, <2>2, OthersAlone
    <3> QED BY <2>1, <2>2, <3>1 DEF AloneAt
  <2> SUFFICES ASSUME j = i, iter'[i] \in Live, ~disturbed[i] PROVE AloneAt(i)' BY <2>1, <2>2 DEF AloneAt
  <2>i. i \in Iterations /\ j = i OBVIOUS
  <2>3. /\ iter[i] \in Live
        /\ iter[i] \in Live =>
             /\ \A k \in Iterations \ {i} : ~Busy(k)
             /\ callOf[i] = session
             /\ changed[i] <=> callState[session] # before[i]
             /\ yielded[i] \o (HeldBy(i) \o queue) = Numbered(i, emitted[i])
    <3>1. iter[i] \in Live
      BY <1>3 DEF Emit, ChangeState, TurnEnds, Read, Consume, Yield, Resume, SeesEnd, Drain, Finish, Stop, Live,
         StreamTypeOK
    <3> QED BY <1>j, <3>1 DEF AloneAt
  <2>4. \A k \in Iterations \ {i} : ~Busy(k)' BY <2>1, <2>3 DEF Busy
  <2>5. callOf'[i] = session' BY <2>1, <2>3
  <2>6. changed'[i] <=> callState'[session'] # before'[i]
    <3>1. CASE ChangeState(i)
      <4>1. callOf[i] = session /\ session \in LiveCalls /\ ~changed[i]
        BY <2>1, <2>3, <3>1 DEF ChangeState, IterInv, StreamTypeOK, Live
      <4> QED BY <2>1, <2>3, <3>1, <4>1 DEF ChangeState, StreamTypeOK
    <3>2. CASE ~ChangeState(i)
      <4>1. ~Finish(i) BY <2>3 DEF Finish, StreamTypeOK, Live
      <4>2. UNCHANGED <<changed, callState, before>>
        BY <1>3, <3>2, <4>1 DEF Emit, TurnEnds, Read, Consume, Yield, Resume, SeesEnd, Drain, Stop
      <4> QED BY <2>1, <2>3, <4>2
    <3> QED BY <3>1, <3>2
  <2>7. yielded'[i] \o (HeldBy(i)' \o queue') = Numbered(i, emitted'[i])
    <3> DEFINE y == yielded[i]
               h == HeldBy(i)
               Y == yielded'[i]
               H == HeldBy(i)'
               N == Numbered(i, emitted[i])
    <3>0. /\ y \in Seq(FrameOf) /\ h \in Seq(FrameOf) /\ queue \in Seq(FrameOf) /\ emitted[i] \in Nat
          /\ y \o (h \o queue) = N
      BY <1>l, <2>i, <2>3
    <3>1. CASE Emit(i)
      <4>1. Y = y /\ H = h /\ queue' = Append(queue, <<i, emitted[i] + 1>>) /\ emitted'[i] = emitted[i] + 1
        BY <3>1 DEF Emit, HeldBy, HasFrame, StreamTypeOK
      <4>2. Append(N, <<i, emitted[i] + 1>>) = Numbered(i, emitted[i] + 1) BY <3>0, NumberedGrows
      <4>3. <<i, emitted[i] + 1>> \in FrameOf BY <3>0 DEF FrameOf
      <4> HIDE DEF y, h, Y, H, N
      <4>4. h \o Append(queue, <<i, emitted[i] + 1>>) = Append(h \o queue, <<i, emitted[i] + 1>>) /\ h \o queue \in Seq(FrameOf)
        <5>1. h \o queue \in Seq(FrameOf) BY <3>0
        <5>2. h \o Append(queue, <<i, emitted[i] + 1>>) = Append(h \o queue, <<i, emitted[i] + 1>>)
          <6> DEFINE x == <<i, emitted[i] + 1>>
          <6>1. x \in FrameOf BY <4>3
          <6> HIDE DEF x
          <6>2. h \in Seq(FrameOf) /\ queue \in Seq(FrameOf) BY <3>0
          <6>3. h \o Append(queue, x) = Append(h \o queue, x) BY <6>1, <6>2, AppendRight
          <6> QED BY <6>3 DEF x
        <5> QED BY <5>1, <5>2
      <4>5. y \o Append(h \o queue, <<i, emitted[i] + 1>>) = Append(y \o (h \o queue), <<i, emitted[i] + 1>>)
        <5> DEFINE r == h \o queue
        <5>1. r \in Seq(FrameOf) BY <4>4
        <5> HIDE DEF r
        <5>2. y \o Append(r, <<i, emitted[i] + 1>>) = Append(y \o r, <<i, emitted[i] + 1>>)
          <6> DEFINE x == <<i, emitted[i] + 1>>
          <6>1. x \in FrameOf BY <4>3
          <6> HIDE DEF x
          <6>2. y \in Seq(FrameOf) BY <3>0
          <6>3. y \o Append(r, x) = Append(y \o r, x) BY <5>1, <6>1, <6>2, AppendRight
          <6> QED BY <6>3 DEF x
        <5> QED BY <5>2 DEF r
      <4>6. Y \o (H \o queue') = Numbered(i, emitted'[i]) BY <3>0, <4>1, <4>2, <4>4, <4>5
      <4> QED BY <4>6 DEF Y, H
    <3>2. CASE Read(i)
      <4>1. Y = y /\ h = <<>> /\ queue # <<>> /\ H = <<Head(queue)>> /\ queue' = Tail(queue) /\ emitted' = emitted
        BY <3>2 DEF Read, HeldBy, HasFrame, StreamTypeOK, IterInv
      <4> HIDE DEF y, h, Y, H, N
      <4>2. <<Head(queue)>> \o Tail(queue) = queue /\ <<>> \o queue = queue
        BY <3>0, <4>1, HeadAndTail, ConcatEmptySeq
      <4>3. Y \o (H \o queue') = N BY <3>0, <4>1, <4>2
      <4> QED BY <4>1, <4>3 DEF Y, H, N
    <3>3. CASE Yield(i)
      <4>1. /\ h = <<reader[i][2]>> /\ reader[i][2] \in FrameOf /\ Y = Append(y, reader[i][2]) /\ H = <<>>
            /\ queue' = queue /\ emitted' = emitted
        BY <3>3 DEF Yield, HeldBy, HasFrame, StreamTypeOK, IterInv, NoFrame, Waits
      <4> HIDE DEF y, h, Y, H, N
      <4>2. y \o (<<reader[i][2]>> \o queue) = Append(y, reader[i][2]) \o queue /\ <<>> \o queue = queue
        BY <3>0, <4>1, MoveLeft, ConcatEmptySeq
      <4>3. Y \o (H \o queue') = N BY <3>0, <4>1, <4>2
      <4> QED BY <4>1, <4>3 DEF Y, H, N
    <3>4. CASE Drain(i)
      <4>0. reader[i] = NoFrame BY <3>4 DEF Drain, StreamIInv, AdapterInv, LostOnlyToOrphans, NoFrame
      <4>1. /\ h = <<>> /\ H = <<>> /\ queue # <<>> /\ Y = Append(y, Head(queue)) /\ queue' = Tail(queue)
            /\ emitted' = emitted
        BY <3>4, <4>0 DEF Drain, HeldBy, HasFrame, NoFrame, StreamTypeOK, IterInv
      <4> HIDE DEF y, h, Y, H, N
      <4>2. Head(queue) \in FrameOf /\ Tail(queue) \in Seq(FrameOf) BY <3>0, <4>1, HeadTailProperties
      <4>3. /\ <<Head(queue)>> \o Tail(queue) = queue /\ <<>> \o queue = queue /\ <<>> \o Tail(queue) = Tail(queue)
        BY <3>0, <4>1, <4>2, HeadAndTail, ConcatEmptySeq
      <4>4. y \o (<<Head(queue)>> \o Tail(queue)) = Append(y, Head(queue)) \o Tail(queue)
        BY <3>0, <4>2, MoveLeft
      <4>5. Y \o (H \o queue') = N BY <3>0, <4>1, <4>3, <4>4
      <4> QED BY <4>1, <4>5 DEF Y, H, N
    <3>5. CASE ChangeState(i) \/ TurnEnds(i) \/ Resume(i) \/ SeesEnd(i) \/ Finish(i) \/ Stop(i)
      <4>1. yielded' = yielded /\ queue' = queue /\ emitted' = emitted
        BY <3>5 DEF ChangeState, TurnEnds, Resume, SeesEnd, Finish, Stop
      <4>2. iter[i] = "yielding" => ~HasFrame(i)
        BY DEF StreamIInv, AdapterInv, LostOnlyToOrphans, HasFrame
      <4>3. H = h
        BY <3>5, <4>2 DEF ChangeState, TurnEnds, Resume, SeesEnd, Finish, Stop, TurnOver, Cancelled, HeldBy, HasFrame,
                          IterInv, Waits
      <4> QED BY <3>0, <4>1, <4>3
    <3> QED BY <1>3, <3>1, <3>2, <3>3, <3>4, <3>5 DEF Consume
  <2> QED BY <2>4, <2>5, <2>6, <2>7 DEF AloneAt
<1> QED BY <1>1, <1>2, <1>3 DEF StreamNext, Works

(* It ends with all of them yielded, and with the truth about its state.      *)
LEMMA CompleteStep ==
  ASSUME StreamIInv, StreamNext
  PROVE  FramesComplete' /\ StateTold'
<1> StreamTypeOK /\ IterInv /\ AloneInv /\ FramesComplete /\ StateTold BY DEF StreamIInv, AdapterInv
<1> USE DEF turnVars, iterVars
<1> SUFFICES ASSUME NEW j \in Iterations, iter'[j] = "done", ~disturbed'[j]
             PROVE  /\ yielded'[j] = [ n \in 1..emitted'[j] |-> <<j, n>> ]
                    /\ told'[j] <=> changed'[j]
  BY DEF FramesComplete, StateTold
<1>1. CASE iter[j] = "done"
  <2>1. Ended(j) BY <1>1 DEF IterInv
  <2>2. ~disturbed[j] /\ yielded'[j] = yielded[j] /\ emitted'[j] = emitted[j] /\ told'[j] = told[j]
        /\ changed'[j] = changed[j]
    BY <1>1, <2>1, ZenonT(30) DEF StreamNext, StartLiveCall, Begins, Consume, Works, Emit, ChangeState, TurnEnds, Read, Yield,
                      Resume, SeesEnd, Drain, Finish, Stop, StreamTypeOK, IterInv, Ended
  <2> QED BY <1>1, <2>2 DEF FramesComplete, StateTold
<1>2. CASE iter[j] # "done"
  <2>1. Finish(j)
    BY <1>2 DEF StreamNext, StartLiveCall, Begins, Consume, Works, Emit, ChangeState, TurnEnds, Read, Yield,
                      Resume, SeesEnd, TurnOver, Drain, Finish, Stop, StreamTypeOK, IterInv
  <2>2. iter[j] = "draining" /\ ~disturbed[j] /\ queue = <<>> BY <2>1 DEF Finish, Drained
  <2>3. /\ changed[j] <=> callState[session] # before[j]
        /\ yielded[j] \o (HeldBy(j) \o queue) = Numbered(j, emitted[j])
    BY <2>2 DEF AloneInv, Live
  <2>4. HeldBy(j) = <<>>
    BY <2>2 DEF StreamIInv, AdapterInv, LostOnlyToOrphans, HeldBy, HasFrame
  <2>5. yielded[j] \in Seq(FrameOf) BY LineType
  <2>6. yielded[j] = Numbered(j, emitted[j]) BY <2>2, <2>3, <2>4, <2>5, ConcatEmptySeq
  <2>7. yielded' = yielded /\ emitted' = emitted /\ changed' = changed /\ (told'[j] <=> callState[session] # before[j])
    BY <2>1 DEF Finish, StreamTypeOK
  <2> QED BY <2>3, <2>6, <2>7 DEF Numbered
<1> QED BY <1>1, <1>2

Found(f) ==
  \/ \E k \in 1..Len(queue) : queue[k] = f
  \/ \E j \in Iterations :
       \/ \E k \in 1..Len(yielded[j]) : yielded[j][k] = f
       \/ reader[j] = <<"has", f>>

(* No step loses a frame.                                                     *)
LEMMA StaysFound ==
  ASSUME StreamIInv, StreamNext, NEW f \in FrameOf, Found(f)
  PROVE  Found(f)'
<1> StreamTypeOK /\ IterInv BY DEF StreamIInv, AdapterInv
<1> USE DEF turnVars, iterVars
<1>0. queue \in Seq(FrameOf) /\ \A j \in Iterations : yielded[j] \in Seq(FrameOf) BY DEF IterInv
<1>o. \A j \in Iterations : HasFrame(j) => iter[j] \in {"waiting", "raised", "cancelled"}
  BY DEF StreamIInv, AdapterInv, LostOnlyToOrphans, HasFrame
<1>1. ASSUME NEW c \in LiveCalls, StartLiveCall(c) PROVE Found(f)'
  BY <1>1 DEF StartLiveCall, Found
<1>2. ASSUME NEW i \in Iterations, Begins(i) PROVE Found(f)'
  <2>1. reader[i] = NoFrame BY <1>2 DEF Begins, IterInv
  <2>2. \A j \in Iterations : reader[j] = <<"has", f>> => reader'[j] = <<"has", f>>
    BY <1>2, <2>1 DEF Begins, IterInv, NoFrame
  <2> QED BY <1>2, <2>2 DEF Begins, Found
<1>3. ASSUME NEW i \in Iterations, Emit(i) PROVE Found(f)'
  <2>1. <<i, emitted[i] + 1>> \in FrameOf BY DEF StreamTypeOK, FrameOf
  <2>2. \A k \in 1..Len(queue) : k \in 1..Len(queue') /\ queue'[k] = queue[k]
    BY <1>0, <1>3, <2>1 DEF Emit
  <2> QED BY <1>3, <2>2 DEF Emit, Found
<1>4. ASSUME NEW i \in Iterations, ChangeState(i) \/ TurnEnds(i) \/ Finish(i) \/ Stop(i) PROVE Found(f)'
  BY <1>4 DEF ChangeState, TurnEnds, Finish, Stop, Found
<1>5. ASSUME NEW i \in Iterations, Read(i) PROVE Found(f)'
  <2>1. /\ queue # <<>> /\ reader' = [ reader EXCEPT ![i] = <<"has", Head(queue)>> ] /\ queue' = Tail(queue)
        /\ yielded' = yielded /\ reader[i] = <<"waits">> /\ reader \in [ Iterations -> Range(reader) ]
    BY <1>5 DEF Read, IterInv, Range
  <2>2. \A k \in 1..Len(queue) :
          IF k = 1 THEN reader'[i] = <<"has", queue[k]>>
                   ELSE k - 1 \in 1..Len(queue') /\ queue'[k - 1] = queue[k]
    BY <1>0, <2>1
  <2>3. \A j \in Iterations : reader[j] = <<"has", f>> => reader'[j] = <<"has", f>> BY <2>1
  <2>4. ASSUME NEW k \in 1..Len(queue), queue[k] = f PROVE Found(f)'
    <3>1. CASE k = 1 BY <2>2, <2>4, <3>1 DEF Found
    <3>2. CASE k # 1 BY <2>2, <2>4, <3>2 DEF Found
    <3> QED BY <3>1, <3>2
  <2> QED BY <2>1, <2>3, <2>4 DEF Found
<1>6. ASSUME NEW i \in Iterations, NEW x \in FrameOf, yielded' = [ yielded EXCEPT ![i] = Append(@, x) ]
      PROVE  /\ \A j \in Iterations : \A k \in 1..Len(yielded[j]) :
                  k \in 1..Len(yielded'[j]) /\ yielded'[j][k] = yielded[j][k]
             /\ \E k \in 1..Len(yielded'[i]) : yielded'[i][k] = x
  <2>1. /\ yielded'[i] = Append(yielded[i], x) /\ yielded[i] \in Seq(FrameOf)
        /\ \A j \in Iterations \ {i} : yielded'[j] = yielded[j]
    BY <1>0, <1>6 DEF IterInv
  <2>2. /\ \A k \in 1..Len(yielded[i]) : k \in 1..Len(yielded'[i]) /\ yielded'[i][k] = yielded[i][k]
        /\ Len(yielded'[i]) = Len(yielded[i]) + 1 /\ yielded'[i][Len(yielded[i]) + 1] = x
        /\ Len(yielded[i]) + 1 \in 1..Len(yielded'[i])
    BY <2>1
  <2> QED BY <2>1, <2>2
<1>7. ASSUME NEW i \in Iterations, Yield(i) PROVE Found(f)'
  <2>1. /\ reader[i][2] \in FrameOf /\ queue' = queue /\ yielded' = [ yielded EXCEPT ![i] = Append(@, reader[i][2]) ]
        /\ \A j \in Iterations \ {i} : reader'[j] = reader[j]
    BY <1>7 DEF Yield, HasFrame, IterInv, NoFrame, Waits
  <2>2. reader[i] = <<"has", f>> => reader[i][2] = f OBVIOUS
  <2>3. ASSUME NEW j \in Iterations, reader[j] = <<"has", f>> PROVE Found(f)'
    <3>1. CASE j = i BY <1>6, <2>1, <2>2, <2>3, <3>1, ZenonT(30) DEF Found
    <3>2. CASE j # i BY <2>1, <2>3, <3>2 DEF Found
    <3> QED BY <3>1, <3>2
  <2>4. ASSUME NEW j \in Iterations, NEW k \in 1..Len(yielded[j]), yielded[j][k] = f PROVE Found(f)'
    <3>1. k \in 1..Len(yielded'[j]) /\ yielded'[j][k] = f BY <1>6, <2>1, <2>4
    <3> QED BY <3>1 DEF Found
  <2> QED BY <2>1, <2>3, <2>4 DEF Found
<1>8. ASSUME NEW i \in Iterations, Drain(i) PROVE Found(f)'
  <2>1. /\ queue # <<>> /\ queue' = Tail(queue) /\ reader' = reader
        /\ yielded' = [ yielded EXCEPT ![i] = Append(@, Head(queue)) ] /\ Head(queue) \in FrameOf
    BY <1>0, <1>8, HeadTailProperties DEF Drain
  <2>2. \A k \in 1..Len(queue) :
          IF k = 1 THEN Head(queue) = queue[k]
                   ELSE k - 1 \in 1..Len(queue') /\ queue'[k - 1] = queue[k]
    BY <1>0, <2>1
  <2>3. ASSUME NEW k \in 1..Len(queue), queue[k] = f PROVE Found(f)'
    <3>1. CASE k = 1 BY <1>6, <2>1, <2>2, <2>3, <3>1, ZenonT(30) DEF Found
    <3>2. CASE k # 1 BY <2>2, <2>3, <3>2 DEF Found
    <3> QED BY <3>1, <3>2
  <2>4. ASSUME NEW j \in Iterations, NEW k \in 1..Len(yielded[j]), yielded[j][k] = f PROVE Found(f)'
    <3>1. k \in 1..Len(yielded'[j]) /\ yielded'[j][k] = f BY <1>6, <2>1, <2>4
    <3> QED BY <3>1 DEF Found
  <2> QED BY <2>1, <2>3, <2>4 DEF Found
<1>9. ASSUME NEW i \in Iterations, Resume(i) \/ SeesEnd(i) PROVE Found(f)'
  <2>1. ~HasFrame(i) BY <1>9, <1>o DEF Resume, SeesEnd
  <2>2. \A j \in Iterations : reader[j] = <<"has", f>> => reader'[j] = <<"has", f>>
    <3>1. reader[i] # <<"has", f>> BY <2>1 DEF HasFrame
    <3>2. \A j \in Iterations \ {i} : reader'[j] = reader[j]
      BY <1>9 DEF Resume, SeesEnd, TurnOver, Cancelled, IterInv
    <3> QED BY <3>1, <3>2
  <2> QED BY <1>9, <2>2 DEF Resume, SeesEnd, Found
<1> QED BY <1>1, <1>2, <1>3, <1>4, <1>5, <1>7, <1>8, <1>9 DEF StreamNext, Consume, Works

(* A frame that was put is found, and no reader is left but an orphan.        *)
LEMMA OrphanStep ==
  ASSUME StreamIInv, StreamNext
  PROVE  LostOnlyToOrphans'
<1> StreamTypeOK /\ IterInv /\ LostOnlyToOrphans BY DEF StreamIInv, AdapterInv
<1> USE DEF turnVars, iterVars
<1>1. ASSUME NEW i \in Iterations, NEW n \in 1..emitted'[i] PROVE Found(<<i, n>>)'
  <2>0. emitted[i] \in Nat BY DEF StreamTypeOK
  <2>1. CASE n \in 1..emitted[i]
    <3>1. Found(<<i, n>>) BY <2>1 DEF LostOnlyToOrphans, Found
    <3>2. <<i, n>> \in FrameOf BY <2>1 DEF FrameOf
    <3> QED BY <3>1, <3>2, StaysFound
  <2>2. CASE n \notin 1..emitted[i]
    <3>0. emitted'[i] # emitted[i] BY <2>0, <2>2
    <3>1. Emit(i)
      BY <3>0 DEF StreamNext, StartLiveCall, Begins, Consume, Works, Emit, ChangeState, TurnEnds, Read, Yield,
                 Resume, SeesEnd, Drain, Finish, Stop, StreamTypeOK
    <3>2. emitted'[i] = emitted[i] + 1 /\ queue' = Append(queue, <<i, emitted[i] + 1>>)
      BY <3>1 DEF Emit, StreamTypeOK
    <3>3. n = emitted[i] + 1 BY <2>0, <2>2, <3>2
    <3>4. <<i, n>> \in FrameOf /\ queue \in Seq(FrameOf) BY <2>0, <3>3 DEF FrameOf, IterInv
    <3>5. Len(queue) + 1 \in 1..Len(queue') /\ queue'[Len(queue) + 1] = <<i, n>> BY <3>2, <3>3, <3>4
    <3> QED BY <3>5 DEF Found
  <2> QED BY <2>1, <2>2
<1>2. ASSUME NEW j \in Iterations, reader'[j] # <<"none">> PROVE iter'[j] \in {"waiting", "raised", "cancelled"}
  <2>1. CASE iter'[j] = iter[j]
    <3>1. ASSUME reader[j] = <<"none">> PROVE FALSE
      <4>1. ~(\E c \in LiveCalls : StartLiveCall(c)) BY <1>2, <3>1 DEF StartLiveCall
      <4>2. PICK i \in Iterations : Begins(i) \/ Consume(i) \/ Works(i) \/ Emit(i) \/ ChangeState(i) \/ Stop(i)
        BY <4>1 DEF StreamNext
      <4>3. CASE Begins(i) BY <1>2, <2>1, <3>1, <4>3 DEF Begins, StreamTypeOK, IterInv
      <4>4. CASE Works(i)
        <5>1. <<"waits">> # <<"none">> OBVIOUS
        <5>2. CASE TurnEnds(i) BY <1>2, <3>1, <5>2 DEF TurnEnds
        <5>3. CASE Read(i)
          <6>1. i # j BY <3>1, <5>1, <5>3 DEF Read
          <6>2. reader'[j] = reader[j] BY <5>3, <6>1 DEF Read, IterInv
          <6> QED BY <1>2, <3>1, <6>2
        <5> QED BY <4>4, <5>2, <5>3 DEF Works
      <4>5. CASE Yield(i) \/ SeesEnd(i) \/ Drain(i) \/ Finish(i)
        BY <1>2, <3>1, <4>5 DEF Yield, SeesEnd, TurnOver, Cancelled, Drain, Finish, IterInv
      <4>6. CASE Resume(i) BY <1>2, <2>1, <3>1, <4>6 DEF Resume, TurnOver, Cancelled, StreamTypeOK, IterInv
      <4>7. CASE Emit(i) \/ ChangeState(i) \/ Stop(i) BY <1>2, <3>1, <4>7 DEF Emit, ChangeState, Stop
      <4> QED BY <4>2, <4>3, <4>4, <4>5, <4>6, <4>7 DEF Consume
    <3> QED BY <2>1, <3>1 DEF LostOnlyToOrphans
  <2>2. CASE iter'[j] # iter[j]
    <3>1. Begins(j) \/ Consume(j) \/ Stop(j)
      BY <2>2 DEF StreamNext, StartLiveCall, Begins, Consume, Works, Emit, ChangeState, TurnEnds, Read, Yield,
                  Resume, SeesEnd, TurnOver, Drain, Finish, Stop, StreamTypeOK
    <3>2. ~Drain(j) BY <2>2 DEF Drain
    <3>3. CASE Begins(j) BY <3>3 DEF Begins, StreamTypeOK
    <3>4. CASE Yield(j) BY <1>2, <3>4 DEF Yield, IterInv
    <3>5. CASE Resume(j) \/ SeesEnd(j)
      BY <1>2, <3>5 DEF Resume, SeesEnd, TurnOver, Cancelled, IterInv, StreamTypeOK, LostOnlyToOrphans
    <3>6. CASE Finish(j) \/ Stop(j) BY <1>2, <3>6 DEF Finish, Stop, StreamTypeOK, LostOnlyToOrphans
    <3> QED BY <3>1, <3>2, <3>3, <3>4, <3>5, <3>6 DEF Consume
  <2> QED BY <2>1, <2>2
<1> QED BY <1>1, <1>2 DEF LostOnlyToOrphans, Found

(* The invariant of the adapter is inductive.                                 *)
LEMMA StreamStep == StreamIInv /\ [Next]_vars => StreamIInv'
<1> SUFFICES ASSUME StreamIInv, [Next]_vars PROVE StreamIInv' OBVIOUS
<1>1. CASE UNCHANGED streamVars
  <2>1. StreamTypeOK' /\ FramesComplete' /\ StateTold'
    BY <1>1 DEF streamVars, StreamIInv, AdapterInv, StreamTypeOK, FramesComplete, StateTold
  <2>2. LostOnlyToOrphans' BY <1>1 DEF streamVars, StreamIInv, AdapterInv, LostOnlyToOrphans
  <2>3. IterInv' BY <1>1 DEF streamVars, StreamIInv, IterInv, Ended
  <2>4. AloneInv' BY <1>1 DEF streamVars, StreamIInv, AloneInv, Busy, HeldBy, HasFrame
  <2> QED BY <2>1, <2>2, <2>3, <2>4 DEF StreamIInv, AdapterInv
<1>2. CASE StreamNext
  BY <1>2, TypeStep, IterStep, AloneStep, CompleteStep, OrphanStep DEF StreamIInv, AdapterInv
<1> QED BY <1>1, <1>2 DEF Next, vars, partVars

(* runtime_stream.py iter_frames: an iteration that nothing disturbed yields  *)
(* its turn's frames, all and in order, and tells of a change of state just   *)
(* when there was one; a frame is lost only to the reader of an iteration     *)
(* that raised or was cancelled.                                              *)
THEOREM ConsumersAreServed == Spec => []AdapterInv
<1>1. Init => StreamIInv BY StreamStarts DEF Init
<1>2. StreamIInv => AdapterInv BY DEF StreamIInv
<1> QED BY <1>1, <1>2, StreamStep, PTL DEF Spec

-------------------------------------------------------------------------------
(* The legacy conductor.                                                      *)

LegacyChoices == [ to : LegacyStates, tool : {"none", "known", "unknown"}, trigger : {"none", "graceful_exit", "handoff"} ]

(* The newest call has the callbacks. *)
NewestWired ==
  /\ \A p \in Processors : where[p] # "none" => \E i \in 1..Len(started) : started[i] = p
  /\ started # <<>> => wired = started[Len(started)]
ChoiceInv ==
  /\ chosen \in [ Processors -> LegacyChoices ]
  /\ \A p \in Processors :
       where[p] \in {"none", "classifying"} /\ ~interrupted[p] => phase[p] \in {"active", "exited"}
LegacyIInv == ProcessorInv /\ NewestWired /\ ChoiceInv

Before(p, q) == \E i, j \in 1..Len(started) : i < j /\ started[i] = p /\ started[j] = q

(* What a joined sequence holds.                                              *)
LEMMA ConcatSets ==
  ASSUME NEW V, NEW s \in Seq(V), NEW t \in Seq(V)
  PROVE  s \o t \in Seq(V) /\ ToSet(s \o t) = ToSet(s) \cup ToSet(t)
<1>1. /\ s \o t \in Seq(V) /\ DOMAIN (s \o t) = 1..(Len(s) + Len(t))
      /\ DOMAIN s = 1..Len(s) /\ DOMAIN t = 1..Len(t) /\ Len(s) \in Nat /\ Len(t) \in Nat
  OBVIOUS
<1>2. \A k \in 1..(Len(s) + Len(t)) : (s \o t)[k] = IF k <= Len(s) THEN s[k] ELSE t[k - Len(s)] OBVIOUS
<1>3. ASSUME NEW x \in ToSet(s \o t) PROVE x \in ToSet(s) \cup ToSet(t)
  <2>1. PICK k \in 1..(Len(s) + Len(t)) : (s \o t)[k] = x BY <1>1 DEF ToSet
  <2>2. CASE k <= Len(s)
    <3>1. k \in 1..Len(s) /\ s[k] = x BY <1>2, <2>1, <2>2
    <3> QED BY <1>1, <3>1 DEF ToSet
  <2>3. CASE ~(k <= Len(s))
    <3>1. k - Len(s) \in 1..Len(t) /\ t[k - Len(s)] = x BY <1>1, <1>2, <2>1, <2>3
    <3> QED BY <1>1, <3>1 DEF ToSet
  <2> QED BY <2>2, <2>3
<1>4. ASSUME NEW x \in ToSet(s) PROVE x \in ToSet(s \o t)
  <2>1. PICK k \in 1..Len(s) : s[k] = x BY <1>1 DEF ToSet
  <2>2. k \in 1..(Len(s) + Len(t)) /\ (s \o t)[k] = x BY <1>1, <1>2, <2>1
  <2> QED BY <1>1, <2>2 DEF ToSet
<1>5. ASSUME NEW x \in ToSet(t) PROVE x \in ToSet(s \o t)
  <2>1. PICK k \in 1..Len(t) : t[k] = x BY <1>1 DEF ToSet
  <2>2. k + Len(s) \in 1..(Len(s) + Len(t)) /\ (s \o t)[k + Len(s)] = x BY <1>1, <1>2, <2>1
  <2> QED BY <1>1, <2>2 DEF ToSet
<1> QED BY <1>1, <1>3, <1>4, <1>5

(* What short sequences hold.                                                 *)
LEMMA SmallSets ==
  ASSUME NEW V, NEW x \in V
  PROVE  <<>> \in Seq(V) /\ ToSet(<<>>) = {} /\ <<x>> \in Seq(V) /\ ToSet(<<x>>) = {x}
<1>1. DOMAIN <<>> = {} /\ DOMAIN <<x>> = {1} /\ <<x>>[1] = x OBVIOUS
<1> QED BY <1>1 DEF ToSet

KindsOf == {"state", "filler", "answer", "failure", "handoff"}

(* What a call plays goes to its own processor or to one of a later call.    *)
LEMMA PlayedLater ==
  ASSUME LegacyIInv, NEW p \in Processors, where[p] # "none", NEW kinds \in Seq(KindsOf)
  PROVE  /\ Played(p, kinds) \in [ Processors -> Seq(Frames) ]
         /\ \A q \in Processors : \A f \in ToSet(Played(p, kinds)[q]) :
              f.of # q => Before(f.of, q)
<1> LegacyTypeOK /\ NewestWired /\ NoEarlierCallHears BY DEF LegacyIInv, ProcessorInv
<1> DEFINE s == [ i \in 1..Len(kinds) |-> Frame(p, kinds[i]) ]
<1>1. PICK i \in 1..Len(started) : started[i] = p BY DEF NewestWired
<1>2. started \in Seq(Processors) BY DEF LegacyTypeOK
<1>3. /\ wired = started[Len(started)] /\ wired \in Processors /\ Len(started) \in 1..Len(started)
      /\ i <= Len(started) /\ Len(started) \in Nat
  BY <1>1, <1>2 DEF NewestWired
<1>4. s \in Seq(Frames)
  <2>1. \A k \in 1..Len(kinds) : Frame(p, kinds[k]) \in Frames BY DEF Frame, Note, Frames, KindsOf
  <2>2. Len(kinds) \in Nat OBVIOUS
  <2> QED BY <2>1, <2>2
<1>5. \A f \in ToSet(s) : f.of = p
  <2>1. DOMAIN s = 1..Len(kinds) OBVIOUS
  <2>2. \A k \in 1..Len(kinds) : s[k].of = p BY DEF Frame, Note
  <2> HIDE DEF s
  <2> QED BY <2>1, <2>2 DEF ToSet
<1>6. /\ Played(p, kinds)[wired] = outputs[wired] \o s /\ DOMAIN Played(p, kinds) = Processors
      /\ \A q \in Processors \ {wired} : Played(p, kinds)[q] = outputs[q]
  BY <1>3 DEF Played, LegacyTypeOK
<1> HIDE DEF s
<1>7. \A q \in Processors : outputs[q] \in Seq(Frames) BY DEF LegacyTypeOK
<1>8. /\ outputs[wired] \o s \in Seq(Frames)
      /\ ToSet(outputs[wired] \o s) = ToSet(outputs[wired]) \cup ToSet(s)
  BY <1>3, <1>4, <1>7, ConcatSets
<1>9. Played(p, kinds) = [ q \in Processors |-> Played(p, kinds)[q] ] BY <1>6 DEF Played, LegacyTypeOK
<1>10. Played(p, kinds) \in [ Processors -> Seq(Frames) ] BY <1>6, <1>7, <1>8, <1>9
<1>11. ASSUME NEW q \in Processors, NEW f \in ToSet(Played(p, kinds)[q]), f.of # q PROVE Before(f.of, q)
  <2>1. CASE f \in ToSet(outputs[q]) BY <1>11, <2>1 DEF NoEarlierCallHears, Before
  <2>2. CASE q = wired /\ f \in ToSet(s)
    <3>1. f.of = p BY <1>5, <2>2
    <3>2. i # Len(started) BY <1>1, <1>3, <1>11, <2>2, <3>1
    <3>3. i < Len(started) BY <1>3, <3>2
    <3> QED BY <1>1, <1>3, <2>2, <3>1, <3>3 DEF Before
  <2> QED BY <1>6, <1>8, <2>1, <2>2
<1> QED BY <1>10, <1>11

(* The invariant of the processors holds at the start,                        *)
LEMMA LegacyStarts == LegacyInit => LegacyIInv
<1> SUFFICES ASSUME LegacyInit PROVE LegacyIInv OBVIOUS
<1> USE LegacyAssumption
<1>1. LegacyTypeOK BY DEF LegacyInit, LegacyTypeOK
<1>2. \A q \in Processors : ToSet(outputs[q]) = {} /\ ToSet(frames[q]) = {} BY DEF LegacyInit, ToSet
<1>3. NoEarlierCallHears BY <1>2 DEF NoEarlierCallHears
<1>4. PhaseAtRest /\ NewestWired BY DEF LegacyInit, PhaseAtRest, NewestWired
<1>5. NoChoice \in LegacyChoices BY DEF NoChoice, LegacyChoices
<1>6. ChoiceInv BY <1>5 DEF LegacyInit, ChoiceInv
<1> QED BY <1>1, <1>3, <1>4, <1>6 DEF LegacyIInv, ProcessorInv

(* Every change of state goes with its frame.                                 *)
Announced ==
  \A p \in Processors :
    now'[p] # now[p] => Note(p, "state", now[p], now'[p]) \in ToSet(frames'[p])

(* The rest of a turn, whichever outcome it has.                              *)
LEMMA CompletesKeeps ==
  ASSUME LegacyIInv, NEW p \in Processors, NEW t \in LegacyChoices, NEW tool \in {"none", "answer", "failure"},
         NEW handsOff \in BOOLEAN, NEW late \in BOOLEAN, NEW at \in {"active", "pending", "exited"},
         ~interrupted[p] => at \in {"active", "exited"}, where[p] # "none",
         Completes(p, t, tool, handsOff, late, at), chosen' \in [ Processors -> LegacyChoices ]
  PROVE  LegacyIInv' /\ Announced
<1> LegacyTypeOK /\ NewestWired /\ NoEarlierCallHears /\ PhaseAtRest /\ ChoiceInv BY DEF LegacyIInv, ProcessorInv
<1> DEFINE queued == IF handsOff THEN HandsOver(p) ELSE outputs
           was == IF late THEN previous[p] ELSE PreviousOf(p, t)
           is == IF late THEN now[p] ELSE t.to
           Given(b, frame) == IF b THEN <<frame>> ELSE <<>>
           a == Given(is # was, Note(p, "state", was, is))
           b == Given(t.tool = "known", Frame(p, "filler"))
           c == Given(tool # "none", Frame(p, tool))
           d == Given(handsOff, Frame(p, "handoff"))
<1>1. /\ now' = [ now EXCEPT ![p] = is ] /\ previous' = [ previous EXCEPT ![p] = was ]
      /\ frames' = [ frames EXCEPT ![p] = a \o b \o c \o d \o queued[p] ]
      /\ outputs' = [ queued EXCEPT ![p] = <<>> ] /\ where' = [ where EXCEPT ![p] = "idle" ]
      /\ phase' = [ phase EXCEPT ![p] = IF handsOff \/ t.trigger = "graceful_exit" THEN "exited" ELSE at ]
      /\ UNCHANGED <<wired, started, turnsLeft, interrupted>>
  BY DEF Completes
<1>2. is \in LegacyStates /\ was \in LegacyStates BY DEF LegacyTypeOK, LegacyChoices, PreviousOf
<1>3. /\ queued \in [ Processors -> Seq(Frames) ]
      /\ \A q \in Processors : \A f \in ToSet(queued[q]) : f.of # q => Before(f.of, q)
  <2>1. CASE handsOff
    <3>1. <<"filler", "handoff">> \in Seq(KindsOf) BY DEF KindsOf
    <3> QED BY <2>1, <3>1, PlayedLater DEF HandsOver
  <2>2. CASE ~handsOff BY <2>2 DEF LegacyTypeOK, NoEarlierCallHears, Before
  <2> QED BY <2>1, <2>2
<1>4. /\ Note(p, "state", was, is) \in Frames /\ Note(p, "state", was, is).of = p
      /\ \A k \in KindsOf : Frame(p, k) \in Frames /\ Frame(p, k).of = p
  BY <1>2 DEF Note, Frame, Frames, KindsOf
<1>5. \A f \in Frames : f.of = p =>
        /\ <<f>> \in Seq(Frames) /\ <<>> \in Seq(Frames)
        /\ \A g \in ToSet(<<f>>) \cup ToSet(<<>>) : g.of = p
  BY SmallSets
<1>6. /\ a \in Seq(Frames) /\ b \in Seq(Frames) /\ c \in Seq(Frames) /\ d \in Seq(Frames)
      /\ \A g \in ToSet(a) \cup ToSet(b) \cup ToSet(c) \cup ToSet(d) : g.of = p
  <2> DEFINE Own(s) == s \in Seq(Frames) /\ \A g \in ToSet(s) : g.of = p
  <2>1. Own(<<>>) /\ \A f \in Frames : f.of = p => Own(<<f>>) BY <1>4, <1>5
  <2> HIDE DEF Own
  <2>2. Own(a) BY <1>4, <2>1
  <2>3. Own(b) BY <1>4, <2>1 DEF KindsOf
  <2>4. Own(c) BY <1>4, <2>1 DEF KindsOf
  <2>5. Own(d) BY <1>4, <2>1 DEF KindsOf
  <2> HIDE DEF a, b, c, d
  <2> QED BY <2>2, <2>3, <2>4, <2>5 DEF Own
<1>a. ASSUME NEW q \in Processors, now'[q] # now[q]
      PROVE  q = p /\ a = << Note(q, "state", now[q], now'[q]) >>
  <2>1. q = p /\ now'[p] = is BY <1>1, <1>a DEF LegacyTypeOK
  <2>2. is # was /\ was = now[p] BY <1>a, <2>1 DEF PreviousOf
  <2> QED BY <2>1, <2>2
<1> HIDE DEF a, b, c, d, queued, was, is
<1>7. /\ a \o b \o c \o d \o queued[p] \in Seq(Frames)
      /\ ToSet(a \o b \o c \o d \o queued[p]) = ToSet(a) \cup ToSet(b) \cup ToSet(c) \cup ToSet(d) \cup ToSet(queued[p])
  <2> DEFINE ab == a \o b
             abc == ab \o c
             abcd == abc \o d
  <2>1. ab \in Seq(Frames) /\ ToSet(ab) = ToSet(a) \cup ToSet(b) BY <1>6, ConcatSets
  <2> HIDE DEF ab
  <2>2. abc \in Seq(Frames) /\ ToSet(abc) = ToSet(ab) \cup ToSet(c) BY <1>6, <2>1, ConcatSets
  <2> HIDE DEF abc
  <2>3. abcd \in Seq(Frames) /\ ToSet(abcd) = ToSet(abc) \cup ToSet(d) BY <1>6, <2>2, ConcatSets
  <2> HIDE DEF abcd
  <2>4. queued[p] \in Seq(Frames) BY <1>3
  <2>5. abcd \o queued[p] \in Seq(Frames) /\ ToSet(abcd \o queued[p]) = ToSet(abcd) \cup ToSet(queued[p])
    <3> DEFINE q == queued[p]
    <3>1. q \in Seq(Frames) BY <2>4
    <3> HIDE DEF q
    <3>2. abcd \o q \in Seq(Frames) /\ ToSet(abcd \o q) = ToSet(abcd) \cup ToSet(q) BY <2>3, <3>1, ConcatSets
    <3> QED BY <3>2 DEF q
  <2> QED BY <2>1, <2>2, <2>3, <2>5 DEF ab, abc, abcd
<1> DEFINE out == a \o b \o c \o d \o queued[p]
<1>8. frames' = [ frames EXCEPT ![p] = out ] /\ out \in Seq(Frames)
      /\ ToSet(out) = ToSet(a) \cup ToSet(b) \cup ToSet(c) \cup ToSet(d) \cup ToSet(queued[p])
  BY <1>1, <1>7
<1> HIDE DEF out
<1>9. LegacyTypeOK'
  <2>1. /\ wired' \in Processors \cup {NoProcessor} /\ started' \in Seq(Processors)
        /\ now' \in [ Processors -> LegacyStates ] /\ previous' \in [ Processors -> LegacyStates ]
        /\ turnsLeft' \in 0..MaxLegacyTurns /\ interrupted' \in [ Processors -> BOOLEAN ]
    BY <1>1, <1>2 DEF LegacyTypeOK
  <2>2. /\ phase' \in [ Processors -> {"active", "pending", "exited"} ]
        /\ where' \in [ Processors -> {"none", "idle", "classifying", "calling"} ]
    BY <1>1 DEF LegacyTypeOK
  <2>3. outputs' \in [ Processors -> Seq(Frames) ] /\ frames' \in [ Processors -> Seq(Frames) ]
    <3>1. <<>> \in Seq(Frames) OBVIOUS
    <3>2. outputs' \in [ Processors -> Seq(Frames) ] BY <1>1, <1>3, <3>1
    <3>3. frames' \in [ Processors -> Seq(Frames) ] BY <1>8 DEF LegacyTypeOK
    <3> QED BY <3>2, <3>3
  <2> QED BY <2>1, <2>2, <2>3 DEF LegacyTypeOK
<1>10. NoEarlierCallHears'
  <2> SUFFICES ASSUME NEW q \in Processors, NEW f \in ToSet(outputs'[q]) \cup ToSet(frames'[q]), f.of # q
               PROVE  Before(f.of, q)
    BY <1>1 DEF NoEarlierCallHears, Before
  <2>1. CASE q = p
    <3>1. outputs'[p] = <<>> /\ frames'[p] = out BY <1>1, <1>3, <1>8 DEF LegacyTypeOK
    <3>2. ToSet(<<>>) = {} BY DEF ToSet
    <3>3. f \in ToSet(queued[p]) BY <1>6, <1>8, <2>1, <3>1, <3>2
    <3> QED BY <1>3, <2>1, <3>3
  <2>2. CASE q # p
    <3>1. outputs'[q] = queued[q] /\ frames'[q] = frames[q] BY <1>1, <1>3, <1>8, <2>2 DEF LegacyTypeOK
    <3>2. CASE f \in ToSet(frames[q]) BY <3>2 DEF NoEarlierCallHears, Before
    <3> QED BY <1>3, <3>1, <3>2
  <2> QED BY <2>1, <2>2
<1>11. PhaseAtRest' BY <1>1 DEF PhaseAtRest, LegacyTypeOK
<1>12. NewestWired' BY <1>1 DEF NewestWired, LegacyTypeOK
<1>13. ChoiceInv' BY <1>1 DEF ChoiceInv, LegacyTypeOK
<1>14. ASSUME NEW q \in Processors, now'[q] # now[q]
       PROVE  Note(q, "state", now[q], now'[q]) \in ToSet(frames'[q])
  <2> DEFINE note == Note(q, "state", now[q], now'[q])
  <2>1. q = p /\ a = <<note>> BY <1>a, <1>14
  <2>2. frames'[q] = out BY <1>8, <2>1 DEF LegacyTypeOK
  <2>3. note \in ToSet(a)
    <3>1. note \in ToSet(<<note>>) BY SmallSets
    <3> QED BY <2>1, <3>1
  <2> QED BY <1>8, <2>2, <2>3
<1> QED BY <1>9, <1>10, <1>11, <1>12, <1>13, <1>14 DEF LegacyIInv, ProcessorInv, Announced

(* and every step keeps it and tells of the change that it makes.             *)
LEMMA LegacyStep == LegacyIInv /\ [Next]_vars => LegacyIInv' /\ Announced
<1> SUFFICES ASSUME LegacyIInv, [Next]_vars PROVE LegacyIInv' /\ Announced OBVIOUS
<1> LegacyTypeOK /\ NewestWired /\ NoEarlierCallHears /\ PhaseAtRest /\ ChoiceInv BY DEF LegacyIInv, ProcessorInv
<1> USE DEF callVars
<1>c. chosen \in [ Processors -> LegacyChoices ] BY DEF ChoiceInv
<1>o. Outcomes \subseteq LegacyChoices /\ \A p \in Processors : Stays(p) \in LegacyChoices
  BY LegacyAssumption DEF Outcomes, Stays, LegacyChoices, LegacyTypeOK
<1>e. ToSet(<<>>) = {} BY DEF ToSet
<1>1. ASSUME NEW p \in Processors, StartLegacyCall(p) PROVE LegacyIInv'
  <2>1. /\ started \in Seq(Processors) /\ started' = Append(started, p) /\ started' \in Seq(Processors)
        /\ Len(started') = Len(started) + 1 /\ started'[Len(started')] = p /\ Len(started') \in 1..Len(started')
        /\ \A i \in 1..Len(started) : i \in 1..Len(started') /\ started'[i] = started[i]
    BY <1>1 DEF StartLegacyCall, LegacyTypeOK
  <2>2. LegacyTypeOK' BY <1>1, <2>1 DEF StartLegacyCall, Wires, LegacyTypeOK
  <2>3. NoEarlierCallHears'
    <3>1. outputs' = outputs /\ frames' = frames BY <1>1 DEF StartLegacyCall
    <3> QED BY <2>1, <3>1 DEF NoEarlierCallHears
  <2>4. PhaseAtRest'
    BY <1>1 DEF StartLegacyCall, PhaseAtRest, ChoiceInv, LegacyTypeOK
  <2>5. NewestWired'
    <3>1. \A q \in Processors : where'[q] # "none" => q = p \/ where[q] # "none"
      BY <1>1 DEF StartLegacyCall, LegacyTypeOK
    <3>2. wired' = p BY <1>1 DEF StartLegacyCall, Wires
    <3> QED BY <2>1, <3>1, <3>2 DEF NewestWired
  <2>6. ChoiceInv' BY <1>1 DEF StartLegacyCall, ChoiceInv, LegacyTypeOK
  <2> QED BY <2>2, <2>3, <2>4, <2>5, <2>6 DEF LegacyIInv, ProcessorInv
<1>2. ASSUME NEW p \in Processors, Transcript(p) PROVE LegacyIInv'
  <2>1. LegacyTypeOK'
    <3>1. turnsLeft - 1 \in 0..MaxLegacyTurns BY <1>2, LegacyAssumption DEF Transcript, LegacyTypeOK
    <3>2. <<>> \in Seq(Frames) OBVIOUS
    <3> QED BY <1>2, <3>1, <3>2 DEF Transcript, LegacyTypeOK
  <2>2. \A q \in Processors : frames'[q] = frames[q] \/ frames'[q] = <<>>
    BY <1>2 DEF Transcript, LegacyTypeOK
  <2>3. NoEarlierCallHears' BY <1>2, <1>e, <2>2 DEF Transcript, NoEarlierCallHears
  <2>4. PhaseAtRest' /\ NewestWired' /\ ChoiceInv'
    BY <1>2 DEF Transcript, PhaseAtRest, NewestWired, ChoiceInv, LegacyTypeOK
  <2> QED BY <2>1, <2>3, <2>4 DEF LegacyIInv, ProcessorInv
<1>3. ASSUME NEW p \in Processors, PastDuration(p) PROVE LegacyIInv' /\ Announced
  <2>1. /\ Completes(p, Stays(p), "none", TRUE, TRUE, phase[p]) /\ chosen' = chosen /\ where[p] = "classifying"
    BY <1>3 DEF PastDuration
  <2>2. phase[p] \in {"active", "pending", "exited"} /\ (~interrupted[p] => phase[p] \in {"active", "exited"})
    BY <2>1 DEF LegacyTypeOK, ChoiceInv
  <2> QED BY <1>c, <1>o, <2>1, <2>2, CompletesKeeps
<1>4. ASSUME NEW p \in Processors, Decides(p) PROVE LegacyIInv' /\ Announced
  <2>1. PICK t \in Outcomes :
          Completes(p, t, IF t.tool = "unknown" THEN "failure" ELSE "none", t.trigger = "handoff", FALSE, phase[p])
    BY <1>4 DEF Decides
  <2>2. chosen' = chosen /\ where[p] = "classifying" BY <1>4 DEF Decides
  <2>3. phase[p] \in {"active", "pending", "exited"} /\ (~interrupted[p] => phase[p] \in {"active", "exited"})
    BY <2>2 DEF LegacyTypeOK, ChoiceInv
  <2>4. t \in LegacyChoices BY <1>o
  <2> DEFINE tool == IF t.tool = "unknown" THEN "failure" ELSE "none"
             handsOff == t.trigger = "handoff"
  <2>5. tool \in {"none", "answer", "failure"} /\ handsOff \in BOOLEAN /\ Completes(p, t, tool, handsOff, FALSE, phase[p])
    BY <2>1
  <2> HIDE DEF tool, handsOff
  <2> QED BY <1>c, <2>2, <2>3, <2>4, <2>5, CompletesKeeps
<1>5. ASSUME NEW p \in Processors, ToolEnds(p) PROVE LegacyIInv' /\ Announced
  <2>1. PICK tool \in {"answer", "failure"} : \E fallback \in BOOLEAN :
          Completes(p, chosen[p], tool, fallback \/ chosen[p].trigger = "handoff", FALSE, PhaseAfter(tool))
    BY <1>5 DEF ToolEnds
  <2>2. PICK fallback \in BOOLEAN :
          Completes(p, chosen[p], tool, fallback \/ chosen[p].trigger = "handoff", FALSE, PhaseAfter(tool))
    BY <2>1
  <2>3. chosen' = [ chosen EXCEPT ![p] = NoChoice ] /\ where[p] = "calling" BY <1>5 DEF ToolEnds
  <2>4. NoChoice \in LegacyChoices BY LegacyAssumption DEF NoChoice, LegacyChoices
  <2>5. chosen' \in [ Processors -> LegacyChoices ] /\ chosen[p] \in LegacyChoices BY <1>c, <2>3, <2>4
  <2> DEFINE handsOff == fallback \/ chosen[p].trigger = "handoff"
             t == chosen[p]
  <2>6. handsOff \in BOOLEAN /\ t \in LegacyChoices /\ Completes(p, t, tool, handsOff, FALSE, "active")
    BY <2>2, <2>5 DEF PhaseAfter
  <2> HIDE DEF handsOff, t
  <2> QED BY <2>3, <2>5, <2>6, CompletesKeeps
<1>6. ASSUME NEW p \in Processors, Fires(p) PROVE LegacyIInv'
  <2>1. where[p] = "classifying" /\ where' = [ where EXCEPT ![p] = "calling" ] /\ outputs' = Played(p, <<"filler">>)
        /\ phase' = [ phase EXCEPT ![p] = "pending" ] /\ UNCHANGED <<wired, started, now, previous, frames, turnsLeft, interrupted>>
        /\ \E t \in Outcomes : chosen' = [ chosen EXCEPT ![p] = t ]
    BY <1>6 DEF Fires
  <2>2. <<"filler">> \in Seq(KindsOf) BY DEF KindsOf
  <2>3. /\ outputs' \in [ Processors -> Seq(Frames) ]
        /\ \A q \in Processors : \A f \in ToSet(outputs'[q]) : f.of # q => Before(f.of, q)
    BY <2>1, <2>2, PlayedLater
  <2>4. LegacyTypeOK' BY <2>1, <2>3 DEF LegacyTypeOK
  <2>5. NoEarlierCallHears' BY <2>1, <2>3 DEF NoEarlierCallHears, Before
  <2>6. PhaseAtRest' /\ NewestWired' BY <2>1 DEF PhaseAtRest, NewestWired, LegacyTypeOK
  <2>7. ChoiceInv' BY <1>c, <1>o, <2>1 DEF ChoiceInv, LegacyTypeOK
  <2> QED BY <2>4, <2>5, <2>6, <2>7 DEF LegacyIInv, ProcessorInv
<1>7. ASSUME NEW p \in Processors, Interrupt(p) PROVE LegacyIInv'
  <2>1. LegacyTypeOK' BY <1>7 DEF Interrupt, LegacyTypeOK
  <2>2. NoEarlierCallHears' BY <1>7 DEF Interrupt, NoEarlierCallHears
  <2>3. PhaseAtRest' /\ NewestWired' /\ ChoiceInv'
    BY <1>7 DEF Interrupt, PhaseAtRest, NewestWired, ChoiceInv, LegacyTypeOK
  <2> QED BY <2>1, <2>2, <2>3 DEF LegacyIInv, ProcessorInv
<1>8. CASE UNCHANGED legacyVars
  <2>1. UNCHANGED <<wired, started, now, previous, phase, where, chosen, outputs, frames, turnsLeft, interrupted>>
    BY <1>8 DEF legacyVars
  <2>2. LegacyTypeOK' BY <2>1 DEF LegacyTypeOK
  <2>3. NoEarlierCallHears' BY <2>1 DEF NoEarlierCallHears
  <2>4. PhaseAtRest' /\ NewestWired' /\ ChoiceInv' BY <2>1 DEF PhaseAtRest, NewestWired, ChoiceInv
  <2>5. Announced BY <2>1 DEF Announced
  <2> QED BY <2>2, <2>3, <2>4, <2>5 DEF LegacyIInv, ProcessorInv
<1>9. ASSUME NEW p \in Processors, StartLegacyCall(p) \/ Transcript(p) \/ Fires(p) \/ Interrupt(p) PROVE Announced
  BY <1>9 DEF StartLegacyCall, Transcript, Fires, Interrupt, Announced
<1> QED BY <1>1, <1>2, <1>3, <1>4, <1>5, <1>6, <1>7, <1>8, <1>9 DEF Next, vars, partVars, LegacyNext

(* pipecat.py start_call and process_frame: fillers and handoffs of a call go *)
(* to no earlier call's processor, and a call at rest is active or over.      *)
THEOREM CallsKeepTheirFrames == Spec => []ProcessorInv
<1>1. Init => LegacyIInv BY LegacyStarts DEF Init
<1>2. LegacyIInv => ProcessorInv BY DEF LegacyIInv
<1> QED BY <1>1, <1>2, LegacyStep, PTL DEF Spec

(* pipecat.py process_frame: no change of state goes without its              *)
(* StateChangeFrame, though it compares with the previous state of the call.  *)
THEOREM EveryChangeAnnounced == Spec => ChangeAnnounced
<1>1. LegacyIInv /\ [Next]_vars =>
        [ \A p \in Processors : now'[p] # now[p] => Note(p, "state", now[p], now'[p]) \in ToSet(frames'[p]) ]_legacyVars
  BY LegacyStep DEF Announced
<1>2. Init => LegacyIInv BY LegacyStarts DEF Init
<1> QED BY <1>1, <1>2, LegacyStep, PTL DEF Spec, ChangeAnnounced
===============================================================================
