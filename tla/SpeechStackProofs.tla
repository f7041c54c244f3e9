-------------------------- MODULE SpeechStackProofs --------------------------
(******************************************************************************)
(* Proofs about SpeechStack, for any number of sessions, requests and chunks: *)
(* what a session knows of its speech, that a cut is final, and that what was *)
(* not cut is heard whole.  The last needs turn ids that no two sessions      *)
(* share, since the backend's cancel flags are keyed by them alone.           *)
(******************************************************************************)
EXTENDS SpeechStack, TLAPS

(* A thread that holds a chunk has taken it, and one more unless it is the   *)
(* last.                                                                     *)
MadeInv ==
    \A r \in Requests :
        /\ thread[r] \in {"yielded", "queueing"} => made[r] >= 2
        /\ thread[r] \in {"yieldedLast", "queueingLast"} => made[r] = Chunks

(* The stream of a request that nothing has cut: the first chunks, in        *)
(* order, have reached the sink and the next ones are queued; what is left   *)
(* is with the producer, or an exception follows.                            *)
Coming(heard, items, step, taken) ==
    LET n == Len(heard) IN
    /\ heard = [i \in 1..n |-> i]
    /\ \E p \in n..Chunks :
         /\ p - n <= Len(items)
         /\ \A i \in 1..Len(items) : i <= p - n => items[i] = Chunk(n + i)
         /\ \/ /\ Len(items) = p - n
               /\ \/ step = "started" /\ taken = 0 /\ p = 0
                  \/ step = "generating" /\ p = (IF taken = 0 THEN 0 ELSE taken - 1)
                  \/ step \in {"yielded", "queueing"} /\ taken >= 2 /\ p = taken - 2
                  \/ step \in {"yieldedLast", "queueingLast"} /\ taken = Chunks /\ p = Chunks - 1
                  \/ step \in {"finally", "ending"} /\ p = Chunks
            \/ step = "over" /\ p = Chunks /\ Len(items) = p - n + 1 /\ items[p - n + 1] = Sentinel
            \/ step \in {"ending", "over"} /\ Len(items) > p - n /\ items[p - n + 1] = Error

(* What is known of a request; while it is uncut, that it is live, that      *)
(* nobody has told its stream or the backend to stop, and that it is whole.  *)
UncutOf(r) ==
    /\ \A s \in Sessions : current[s] = TurnOf[r] => s = SessionOf[r]
    /\ speech[r] = "idle" => /\ thread[r] = "none" /\ made[r] = 0
                             /\ queue[r] = <<>> /\ sent[r] = <<>>
    /\ r \notin cut =>
         /\ speech[r] \in {"idle", "streaming"} => TurnOf[r] \notin flags /\ ~event[r]
         /\ speech[r] = "streaming" => Accept(r) /\ Coming(sent[r], queue[r], thread[r], made[r])
         /\ speech[r] \in {"joining", "done"} => sent[r] = [i \in 1..Chunks |-> i]

UncutInv == \A r \in Requests : UncutOf(r)

(* A stream that was cancelled is not that of the live turn any more.        *)
CancelledInv ==
    \A r \in Requests :
        /\ speech[r] = "streaming" /\ event[r] => ~Accept(r)
        /\ speech[r] = "idle" => ~event[r]

(* All but what is said of uncut speech holds at the start.                  *)
LEMMA SessionBooksInit == Init => TypeOK /\ MadeInv /\ SessionBooks /\ CancelledInv
  BY SpeechAssumption DEF Init, TypeOK, MadeInv, SessionBooks, CancelledInv, InProgress, ThreadStates

(* What a producer puts is an item.                                          *)
LEMMA PutType ==
  ASSUME TypeOK, NEW r \in Requests, NEW item \in Items, Put(r, item)
  PROVE  queue' \in [Requests -> Seq(Items)]
  BY DEF Put, TypeOK

(* Every step keeps the types,                                               *)
LEMMA TypeStep ==
  ASSUME TypeOK, MadeInv, [Next]_vars
  PROVE  TypeOK'
<1> USE SpeechAssumption DEF TypeOK
<1>0. /\ \A i \in 1..Chunks : Chunk(i) \in Items
      /\ Error \in Items /\ Sentinel \in Items
      /\ \A x \in Items : x.kind = "chunk" => x.seq \in 1..Chunks
  BY DEF Items, Chunk, Error, Sentinel
<1>1. ASSUME NEW r \in Requests, Speak(r) PROVE TypeOK'
  BY <1>1 DEF Speak, SetLive, ThreadStates
<1>2. ASSUME NEW s \in Sessions, NEW t \in Turns, CancelTurn(s, t) \/ NoCancel
      PROVE  /\ pending' \in [Sessions -> SUBSET Turns]
             /\ event' \in [Requests -> BOOLEAN] /\ flags' \subseteq Turns
  <2>1. \A r \in Requests : (event[r] \/ Streams(r, s, t)) \in BOOLEAN
    BY DEF Streams
  <2>2. CASE CancelTurn(s, t)
    <3>1. event' \in [Requests -> BOOLEAN]
      <4>1. event' = [r \in Requests |-> event[r] \/ Streams(r, s, t)]
        BY <2>2 DEF CancelTurn
      <4> QED  BY <2>1, <4>1
    <3>2. pending' \in [Sessions -> SUBSET Turns] /\ flags' \subseteq Turns
      BY <2>2 DEF CancelTurn
    <3> QED  BY <3>1, <3>2
  <2> QED  BY <1>2, <2>2 DEF NoCancel
<1>3. ASSUME NEW s \in Sessions, NEW t \in Turns \cup {NoTurn}, SetLive(s, t)
      PROVE  current' \in [Sessions -> Turns \cup {NoTurn}] /\ cut' \subseteq Requests
  BY <1>3 DEF SetLive
<1>4. ASSUME NEW r \in Requests, BargeIn(SessionOf[r], TurnOf[r]) PROVE TypeOK'
  <2> DEFINE s == SessionOf[r]
             t == TurnOf[r]
  <2>1. s \in Sessions /\ t \in Turns /\ current[s] \in Turns \cup {NoTurn}
    OBVIOUS
  <2>2. SetLive(s, t) /\ UNCHANGED <<active, open, speech, thread, made, queue, sent>>
    BY <1>4 DEF BargeIn
  <2>3. NoCancel \/ (current[s] \in Turns /\ CancelTurn(s, current[s]))
    BY <1>4, <2>1 DEF BargeIn
  <2> QED  BY <1>2, <1>3, <2>1, <2>2, <2>3
<1>5. ASSUME NEW s \in Sessions, EndSession(s) PROVE TypeOK'
  <2>1. SetLive(s, NoTurn) /\ open' = open \ {s} /\ UNCHANGED <<active, speech, thread, made, queue, sent>>
    BY <1>5 DEF EndSession, Flush
  <2>2. NoCancel \/ (current[s] \in Turns /\ CancelTurn(s, current[s]))
    BY <1>5 DEF EndSession, Flush
  <2>3. /\ pending' \in [Sessions -> SUBSET Turns]
        /\ event' \in [Requests -> BOOLEAN] /\ flags' \subseteq Turns
    BY <1>2, <2>2 DEF NoCancel
  <2> QED  BY <1>3, <2>1, <2>3
<1>6. ASSUME NEW r \in Requests, NEW done \in BOOLEAN, LeaveStream(r, done)
      PROVE  /\ event' \in [Requests -> BOOLEAN] /\ flags' \subseteq Turns
             /\ speech' \in [Requests -> {"idle", "streaming", "joining", "done"}]
             /\ queue' \in [Requests -> Seq(Items)]
  BY <1>6 DEF LeaveStream
<1>7. ASSUME NEW r \in Requests, Receive(r) PROVE TypeOK'
  <2>1. Head(queue[r]) \in Items /\ Tail(queue[r]) \in Seq(Items)
    BY <1>7 DEF Receive
  <2>2. UNCHANGED <<current, active, pending, open, thread, made>>
    BY <1>7 DEF Receive, threadVars
  <2>3. CASE Head(queue[r]).kind = "chunk" /\ queue' = [queue EXCEPT ![r] = Tail(@)]
             /\ sent' = (IF Accept(r) THEN [sent EXCEPT ![r] = Append(@, Head(queue[r]).seq)] ELSE sent)
             /\ UNCHANGED <<speech, event, flags, cut>>
    <3>1. Head(queue[r]).seq \in 1..Chunks
      BY <1>0, <2>1, <2>3
    <3>2. Append(sent[r], Head(queue[r]).seq) \in Seq(1..Chunks)
      BY <3>1
    <3> QED  BY <2>1, <2>2, <2>3, <3>2
  <2>4. CASE (LeaveStream(r, TRUE) \/ LeaveStream(r, FALSE)) /\ sent' = sent /\ cut' \in {cut, cut \cup {r}}
    BY <1>6, <2>2, <2>4
  <2> QED  BY <1>7, <2>3, <2>4 DEF Receive
<1>8. ASSUME NEW r \in Requests, TearDown(r) PROVE TypeOK'
  BY <1>6, <1>8 DEF TearDown, threadVars
<1>9. ASSUME NEW r \in Requests, Join(r) PROVE TypeOK'
  BY <1>9 DEF Join, threadVars
<1>10. ASSUME NEW r \in Requests, Generate(r) \/ CheckEvent(r) PROVE TypeOK'
  <2>1. made'[r] \in 0..Chunks /\ made' \in [Requests -> 0..Chunks]
    BY <1>10 DEF Generate, CheckEvent
  <2>2. thread' \in [Requests -> ThreadStates]
    BY <1>10 DEF Generate, CheckEvent, GoThread, ThreadStates
  <2> QED  BY <1>10, <2>1, <2>2 DEF Generate, CheckEvent, loopVars
<1>11. ASSUME NEW r \in Requests, Enter(r) \/ QueueChunk(r) \/ ModelRaises(r) \/ GeneratorFinally(r) \/ EndThread(r)
       PROVE  TypeOK'
  <2>1. queue' = queue \/ \E item \in Items : Put(r, item)
    <3>1. thread[r] = "queueing" => made[r] - 1 \in 1..Chunks
      BY DEF MadeInv
    <3>2. thread[r] = "queueingLast" => made[r] \in 1..Chunks
      BY DEF MadeInv
    <3> QED  BY <1>0, <1>11, <3>1, <3>2 DEF Enter, QueueChunk, ModelRaises, GeneratorFinally, EndThread
  <2>2. queue' \in [Requests -> Seq(Items)]
    BY <2>1, PutType
  <2>3. thread' \in [Requests -> ThreadStates] /\ flags' \subseteq Turns
    BY <1>11 DEF Enter, QueueChunk, ModelRaises, GeneratorFinally, EndThread, GoThread, ThreadStates
  <2> QED  BY <1>11, <2>2, <2>3 DEF Enter, QueueChunk, ModelRaises, GeneratorFinally, EndThread, loopVars
<1>12. CASE UNCHANGED vars
  BY <1>12 DEF vars
<1> QED
  BY <1>1, <1>4, <1>5, <1>7, <1>8, <1>9, <1>10, <1>11, <1>12 DEF Next, Produce

(* what the threads hold,                                                    *)
LEMMA MadeStep ==
  ASSUME TypeOK, MadeInv, [Next]_vars
  PROVE  MadeInv'
<1> USE SpeechAssumption DEF TypeOK
<1>1. ASSUME NEW s \in Sessions, EndSession(s) PROVE MadeInv'
  BY <1>1 DEF EndSession, Flush, MadeInv
<1>2. ASSUME NEW r \in Requests, Speak(r) \/ BargeIn(SessionOf[r], TurnOf[r]) \/ Receive(r) \/ TearDown(r) \/ Join(r)
      PROVE MadeInv'
  BY <1>2 DEF Speak, BargeIn, Receive, TearDown, Join, MadeInv, threadVars
<1>3. ASSUME NEW r \in Requests, Generate(r) \/ CheckEvent(r) PROVE MadeInv'
  BY <1>3 DEF Generate, CheckEvent, GoThread, MadeInv
<1>4. ASSUME NEW r \in Requests, Enter(r) \/ QueueChunk(r) \/ ModelRaises(r) \/ GeneratorFinally(r) \/ EndThread(r)
      PROVE  MadeInv'
  BY <1>4 DEF Enter, QueueChunk, ModelRaises, GeneratorFinally, EndThread, GoThread, MadeInv
<1>5. CASE UNCHANGED vars
  BY <1>5 DEF vars, MadeInv
<1> QED  BY <1>1, <1>2, <1>3, <1>4, <1>5 DEF Next, Produce

(* What the books say of the sessions: a turn is that of one request.        *)
Spoken(s) == {TurnOf[r] : r \in {q \in Requests : SessionOf[q] = s /\ InProgress(q)}}

(* the books,                                                                *)
LEMMA BooksStep ==
  ASSUME TypeOK, SessionBooks, [Next]_vars
  PROVE  SessionBooks'
<1> USE SpeechAssumption DEF TypeOK
<1>1. ASSUME NEW r \in Requests, Speak(r) PROVE SessionBooks'
  <2>1. \A s \in Sessions : Spoken(s)' = IF s = SessionOf[r] THEN Spoken(s) \cup {TurnOf[r]} ELSE Spoken(s)
    BY <1>1 DEF Speak, Spoken, InProgress
  <2> QED  BY <1>1, <2>1, ZenonT(30) DEF Speak, SessionBooks, Spoken
<1>2. ASSUME NEW r \in Requests, Join(r) PROVE SessionBooks'
  <2>1. \A s \in Sessions : Spoken(s)' = IF s = SessionOf[r] THEN Spoken(s) \ {TurnOf[r]} ELSE Spoken(s)
    BY <1>2 DEF Join, Spoken, InProgress
  <2> QED  BY <1>2, <2>1, ZenonT(30) DEF Join, SessionBooks, Spoken
<1>3. ASSUME \A s \in Sessions : Spoken(s)' = Spoken(s), active' = active,
             \A s \in Sessions : pending'[s] \subseteq pending[s] \cup active[s]
      PROVE  SessionBooks'
  BY <1>3 DEF SessionBooks, Spoken
<1>4. ASSUME UNCHANGED speech PROVE \A s \in Sessions : Spoken(s)' = Spoken(s)
  BY <1>4 DEF Spoken, InProgress
<1>5. ASSUME NEW r \in Requests, LeaveStream(r, TRUE) \/ LeaveStream(r, FALSE), speech[r] = "streaming"
      PROVE  \A s \in Sessions : Spoken(s)' = Spoken(s)
  BY <1>5 DEF LeaveStream, Spoken, InProgress
<1>6. ASSUME NEW s \in Sessions, NEW t, CancelTurn(s, t) \/ NoCancel
      PROVE  \A z \in Sessions : pending'[z] \subseteq pending[z] \cup active[z]
  <2>1. CASE t \in active[s] /\ pending' = [pending EXCEPT ![s] = @ \cup {t}]
    BY <2>1
  <2>2. CASE pending' = pending
    BY <2>2
  <2> QED  BY <1>6, <2>1, <2>2 DEF CancelTurn, NoCancel
<1>7. ASSUME NEW r \in Requests, BargeIn(SessionOf[r], TurnOf[r]) PROVE SessionBooks'
  <2>1. UNCHANGED <<active, speech>>
    BY <1>7 DEF BargeIn
  <2>2. NoCancel \/ CancelTurn(SessionOf[r], current[SessionOf[r]])
    BY <1>7 DEF BargeIn
  <2> QED  BY <1>3, <1>4, <1>6, <2>1, <2>2
<1>8. ASSUME NEW s \in Sessions, EndSession(s) PROVE SessionBooks'
  <2>1. UNCHANGED <<active, speech>>
    BY <1>8 DEF EndSession, Flush
  <2>2. NoCancel \/ CancelTurn(s, current[s])
    BY <1>8 DEF EndSession, Flush
  <2> QED  BY <1>3, <1>4, <1>6, <2>1, <2>2
<1>9. ASSUME NEW r \in Requests, Receive(r) \/ TearDown(r) PROVE SessionBooks'
  <2>1. UNCHANGED <<active, pending>> /\ speech[r] = "streaming"
    BY <1>9 DEF Receive, TearDown
  <2>2. UNCHANGED speech \/ LeaveStream(r, TRUE) \/ LeaveStream(r, FALSE)
    BY <1>9 DEF Receive, TearDown
  <2> QED  BY <1>3, <1>4, <1>5, <2>1, <2>2
<1>10. ASSUME UNCHANGED <<active, pending, speech>> PROVE SessionBooks'
  BY <1>3, <1>4, <1>10
<1> QED
  BY <1>1, <1>2, <1>7, <1>8, <1>9, <1>10
     DEF Next, Produce, Enter, Generate, CheckEvent, QueueChunk, ModelRaises, GeneratorFinally, EndThread, loopVars, vars

(* and that a cancelled stream is not live.                                  *)
LEMMA CancelledStep ==
  ASSUME TypeOK, CancelledInv, [Next]_vars
  PROVE  CancelledInv'
<1> USE SpeechAssumption DEF TypeOK, Accept
<1>1. ASSUME NEW r \in Requests, Speak(r) PROVE CancelledInv'
  <2>1. \A q \in Requests \ {r} : SessionOf[q] = SessionOf[r] => TurnOf[q] # TurnOf[r]
    OBVIOUS
  <2> QED  BY <1>1, <2>1 DEF Speak, SetLive, CancelledInv
<1>2. ASSUME NEW s \in Sessions, NEW t, SetLive(s, t), UNCHANGED speech,
             NoCancel \/ CancelTurn(s, current[s]),
             \A q \in Requests : SessionOf[q] = s /\ TurnOf[q] = t => speech[q] # "streaming",
             CancelTurn(s, current[s]) => current[s] # t
      PROVE  CancelledInv'
  <2>1. ASSUME NEW q \in Requests, speech[q] = "streaming", event'[q] PROVE current'[SessionOf[q]] # TurnOf[q]
    <3>1. CASE event[q]
      BY <1>2, <2>1, <3>1 DEF SetLive, CancelledInv
    <3>2. CASE SessionOf[q] = s
      BY <1>2, <2>1, <3>2 DEF SetLive
    <3>3. CASE ~event[q]
      <4>1. Streams(q, s, current[s])
        BY <1>2, <2>1, <3>3 DEF NoCancel, CancelTurn
      <4> QED  BY <3>2, <4>1 DEF Streams
    <3> QED  BY <3>1, <3>3
  <2>2. \A q \in Requests : speech[q] = "idle" => ~event'[q]
    BY <1>2 DEF CancelledInv, NoCancel, CancelTurn, Streams
  <2> QED  BY <1>2, <2>1, <2>2 DEF CancelledInv
<1>3. ASSUME NEW r \in Requests, BargeIn(SessionOf[r], TurnOf[r]) PROVE CancelledInv'
  <2> DEFINE s == SessionOf[r]
             t == TurnOf[r]
  <2>1. s \in Sessions /\ SetLive(s, t) /\ UNCHANGED speech
    BY <1>3 DEF BargeIn
  <2>2. \A q \in Requests : SessionOf[q] = s /\ TurnOf[q] = t => speech[q] # "streaming"
    BY <1>3 DEF BargeIn
  <2>3. NoCancel \/ (CancelTurn(s, current[s]) /\ current[s] # t)
    BY <1>3 DEF BargeIn
  <2>4. NoCancel => CancelledInv'
    BY <2>1, <2>2 DEF NoCancel, SetLive, CancelledInv
  <2> QED  BY <1>2, <2>1, <2>2, <2>3, <2>4
<1>4. ASSUME NEW s \in Sessions, EndSession(s) PROVE CancelledInv'
  <2>1. SetLive(s, NoTurn) /\ UNCHANGED speech
    BY <1>4 DEF EndSession, Flush
  <2>2. \A q \in Requests : TurnOf[q] # NoTurn
    OBVIOUS
  <2>3. NoCancel \/ (CancelTurn(s, current[s]) /\ current[s] # NoTurn)
    BY <1>4 DEF EndSession, Flush
  <2>4. NoCancel => CancelledInv'
    BY <2>1, <2>2 DEF NoCancel, SetLive, CancelledInv
  <2> QED  BY <1>2, <2>1, <2>2, <2>3, <2>4
<1>5. ASSUME NEW r \in Requests, Receive(r) \/ TearDown(r) \/ Join(r) PROVE CancelledInv'
  BY <1>5 DEF Receive, TearDown, Join, LeaveStream, CancelledInv
<1>6. ASSUME UNCHANGED <<current, speech, event>> PROVE CancelledInv'
  BY <1>6 DEF CancelledInv
<1> QED
  BY <1>1, <1>3, <1>4, <1>5, <1>6
     DEF Next, Produce, Enter, Generate, CheckEvent, QueueChunk, ModelRaises, GeneratorFinally, EndThread, loopVars, vars, CancelledInv

(* The stream of an uncut request, one access at a time: the sink takes a    *)
(* chunk, or the end;                                                        *)
LEMMA ChunkHeard ==
  ASSUME NEW h \in Seq(1..Chunks), NEW q \in Seq(Items), NEW t, NEW m, Coming(h, q, t, m),
         q # <<>>, Head(q).kind = "chunk"
  PROVE  Coming(Append(h, Head(q).seq), Tail(q), t, m)
<1> DEFINE n == Len(h)
           g == Append(h, Head(q).seq)
           z == Tail(q)
<1>1. PICK p \in n..Chunks :
         /\ p - n <= Len(q)
         /\ \A i \in 1..Len(q) : i <= p - n => q[i] = Chunk(n + i)
         /\ \/ /\ Len(q) = p - n
               /\ \/ t = "started" /\ m = 0 /\ p = 0
                  \/ t = "generating" /\ p = (IF m = 0 THEN 0 ELSE m - 1)
                  \/ t \in {"yielded", "queueing"} /\ m >= 2 /\ p = m - 2
                  \/ t \in {"yieldedLast", "queueingLast"} /\ m = Chunks /\ p = Chunks - 1
                  \/ t \in {"finally", "ending"} /\ p = Chunks
            \/ t = "over" /\ p = Chunks /\ Len(q) = p - n + 1 /\ q[p - n + 1] = Sentinel
            \/ t \in {"ending", "over"} /\ Len(q) > p - n /\ q[p - n + 1] = Error
  BY DEF Coming
<1>2. n \in Nat /\ Len(q) \in Nat /\ Len(q) >= 1 /\ Head(q) = q[1] /\ Chunks \in Nat /\ p \in Nat
  BY SpeechAssumption
<1>3. p - n >= 1
  <2> SUFFICES ASSUME p = n PROVE FALSE
    BY <1>1, <1>2
  <2>1. q[1] = Sentinel \/ q[1] = Error
    BY <1>1, <1>2
  <2> QED  BY <1>2, <2>1 DEF Sentinel, Error
<1>4. Head(q).seq = n + 1
  <2>1. 1 \in 1..Len(q) /\ 1 <= p - n
    BY <1>2, <1>3
  <2>2. q[1] = Chunk(n + 1)
    BY <1>1, <2>1
  <2> QED  BY <1>2, <2>2 DEF Chunk
<1>5. Len(g) = n + 1 /\ g = [i \in 1..(n + 1) |-> i]
  BY <1>2, <1>4 DEF Coming
<1>6. Len(z) = Len(q) - 1 /\ \A i \in 1..(Len(q) - 1) : z[i] = q[i + 1]
  BY <1>2
<1> HIDE DEF g, z, n
<1>7. p \in (n + 1)..Chunks
  BY <1>1, <1>2, <1>3
<1>8. p - (n + 1) <= Len(z) /\ \A i \in 1..Len(z) : i <= p - (n + 1) => z[i] = Chunk((n + 1) + i)
  <2> SUFFICES ASSUME NEW i \in 1..Len(z), i <= p - (n + 1) PROVE z[i] = Chunk((n + 1) + i)
    BY <1>1, <1>2, <1>6
  <2>1. i + 1 \in 1..Len(q) /\ i + 1 <= p - n /\ n + (i + 1) = (n + 1) + i
    BY <1>2, <1>6
  <2>2. q[i + 1] = Chunk(n + (i + 1)) /\ z[i] = q[i + 1]
    BY <1>1, <1>6, <2>1
  <2> QED  BY <2>1, <2>2
<1>9. Len(q) > p - n => p - (n + 1) + 1 \in 1..Len(z) /\ z[p - (n + 1) + 1] = q[p - n + 1]
  <2> SUFFICES ASSUME Len(q) > p - n
               PROVE  p - (n + 1) + 1 \in 1..Len(z) /\ z[p - (n + 1) + 1] = q[p - n + 1]
    OBVIOUS
  <2>1. p - (n + 1) + 1 = p - n /\ p - n \in 1..(Len(q) - 1)
    BY <1>2, <1>3
  <2>2. z[p - n] = q[p - n + 1]
    BY <1>6, <2>1
  <2> QED  BY <1>6, <2>1, <2>2
<1>10. p > 0
  BY <1>2, <1>3
<1> QED
  <2>1. /\ \/ /\ Len(z) = p - (n + 1)
              /\ \/ t = "started" /\ m = 0 /\ p = 0
                 \/ t = "generating" /\ p = (IF m = 0 THEN 0 ELSE m - 1)
                 \/ t \in {"yielded", "queueing"} /\ m >= 2 /\ p = m - 2
                 \/ t \in {"yieldedLast", "queueingLast"} /\ m = Chunks /\ p = Chunks - 1
                 \/ t \in {"finally", "ending"} /\ p = Chunks
           \/ t = "over" /\ p = Chunks /\ Len(z) = p - (n + 1) + 1 /\ z[p - (n + 1) + 1] = Sentinel
           \/ t \in {"ending", "over"} /\ Len(z) > p - (n + 1) /\ z[p - (n + 1) + 1] = Error
    <3>1. Len(q) = p - n => Len(z) = p - (n + 1)
      BY <1>2, <1>6
    <3>2. Len(q) = p - n + 1 => Len(z) = p - (n + 1) + 1
      BY <1>2, <1>6
    <3>3. Len(q) > p - n => Len(z) > p - (n + 1)
      BY <1>2, <1>6
    <3>4. Len(q) = p - n + 1 => Len(q) > p - n
      BY <1>2
    <3> QED  BY <1>1, <1>9, <3>1, <3>2, <3>3, <3>4
  <2>2. Coming(g, z, t, m)
    BY <1>5, <1>7, <1>8, <2>1 DEF Coming
  <2> QED  BY <2>2 DEF g, z

(* at the sentinel, all of them were taken;                                  *)
LEMMA EndHeard ==
  ASSUME NEW h \in Seq(1..Chunks), NEW q \in Seq(Items), NEW t, NEW m, Coming(h, q, t, m),
         q # <<>>, Head(q) = Sentinel
  PROVE  h = [i \in 1..Chunks |-> i]
<1> DEFINE n == Len(h)
<1>1. PICK p \in n..Chunks :
         /\ p - n <= Len(q)
         /\ \A i \in 1..Len(q) : i <= p - n => q[i] = Chunk(n + i)
         /\ \/ Len(q) = p - n
            \/ p = Chunks /\ Len(q) = p - n + 1
            \/ Len(q) > p - n /\ q[p - n + 1] = Error
  BY DEF Coming
<1>2. n \in Nat /\ Len(q) \in Nat /\ Len(q) >= 1 /\ q[1] = Sentinel /\ Chunks \in Nat /\ p \in Nat
  BY SpeechAssumption
<1>3. \A i : Chunk(i) # Sentinel /\ Error # Sentinel
  BY DEF Chunk, Error, Sentinel
<1>4. p = n
  <2> SUFFICES ASSUME p - n >= 1 PROVE FALSE
    BY <1>1, <1>2
  <2>1. q[1] = Chunk(n + 1)
    BY <1>1, <1>2
  <2> QED  BY <1>2, <1>3, <2>1
<1>5. n = Chunks
  BY <1>1, <1>2, <1>3, <1>4
<1> QED  BY <1>5 DEF Coming

(* and the producer takes and queues one, fails, or ends.                    *)
LEMMA ItemQueued ==
  ASSUME NEW h \in Seq(1..Chunks), NEW q \in Seq(Items), NEW t, NEW m \in 0..Chunks, Coming(h, q, t, m)
  PROVE  /\ t = "queueing" => Coming(h, Append(q, Chunk(m - 1)), "generating", m)
         /\ t = "queueingLast" => Coming(h, Append(q, Chunk(m)), "finally", m)
         /\ t \in {"started", "generating"} => Coming(h, Append(q, Error), "ending", m)
         /\ t = "ending" => Coming(h, Append(q, Sentinel), "over", m)
<1> DEFINE n == Len(h)
<1>1. PICK p \in n..Chunks :
         /\ p - n <= Len(q)
         /\ \A i \in 1..Len(q) : i <= p - n => q[i] = Chunk(n + i)
         /\ \/ /\ Len(q) = p - n
               /\ \/ t = "started" /\ m = 0 /\ p = 0
                  \/ t = "generating" /\ p = (IF m = 0 THEN 0 ELSE m - 1)
                  \/ t \in {"yielded", "queueing"} /\ m >= 2 /\ p = m - 2
                  \/ t \in {"yieldedLast", "queueingLast"} /\ m = Chunks /\ p = Chunks - 1
                  \/ t \in {"finally", "ending"} /\ p = Chunks
            \/ t = "over" /\ p = Chunks /\ Len(q) = p - n + 1 /\ q[p - n + 1] = Sentinel
            \/ t \in {"ending", "over"} /\ Len(q) > p - n /\ q[p - n + 1] = Error
  BY DEF Coming
<1>2. n \in Nat /\ Len(q) \in Nat /\ Chunks \in Nat \ {0} /\ p \in Nat /\ m \in Nat /\ h = [i \in 1..n |-> i]
  BY SpeechAssumption DEF Coming
<1>3. \A x : /\ Len(Append(q, x)) = Len(q) + 1 /\ Append(q, x)[Len(q) + 1] = x
             /\ \A i \in 1..Len(q) : Append(q, x)[i] = q[i]
  OBVIOUS
<1> HIDE DEF n
<1>4. ASSUME t \in {"queueing", "queueingLast"}, NEW x, x = Chunk(p + 1), p + 1 <= Chunks
      PROVE  /\ p + 1 \in n..Chunks /\ Len(Append(q, x)) = (p + 1) - n
             /\ \A i \in 1..Len(Append(q, x)) : i <= (p + 1) - n => Append(q, x)[i] = Chunk(n + i)
  <2>1. Len(q) = p - n
    BY <1>1, <1>4
  <2>2. ASSUME NEW i \in 1..(Len(q) + 1) PROVE Append(q, x)[i] = Chunk(n + i)
    <3>1. CASE i = Len(q) + 1
      <4>1. n + i = p + 1
        BY <1>2, <2>1, <3>1
      <4> QED  BY <1>3, <1>4, <3>1, <4>1
    <3>2. CASE i \in 1..Len(q)
      BY <1>1, <1>2, <1>3, <2>1, <3>2
    <3> QED  BY <1>2, <3>1, <3>2
  <2> QED  BY <1>2, <1>3, <1>4, <2>1, <2>2
<1>5. ASSUME t = "queueing" PROVE Coming(h, Append(q, Chunk(m - 1)), "generating", m)
  <2>1. m >= 2 /\ p + 1 = m - 1 /\ p + 1 <= Chunks
    BY <1>1, <1>2, <1>5
  <2> QED  BY <1>2, <1>4, <1>5, <2>1 DEF Coming, n
<1>6. ASSUME t = "queueingLast" PROVE Coming(h, Append(q, Chunk(m)), "finally", m)
  <2>1. p + 1 = m /\ p + 1 = Chunks
    BY <1>1, <1>2, <1>6
  <2> QED  BY <1>2, <1>4, <1>6, <2>1 DEF Coming, n
<1>7. ASSUME NEW x PROVE /\ p - n <= Len(Append(q, x))
                         /\ \A i \in 1..Len(Append(q, x)) : i <= p - n => Append(q, x)[i] = Chunk(n + i)
  <2> SUFFICES ASSUME NEW i \in 1..(Len(q) + 1), i <= p - n PROVE Append(q, x)[i] = Chunk(n + i)
    BY <1>1, <1>2, <1>3
  <2>1. i \in 1..Len(q)
    BY <1>1, <1>2
  <2> QED  BY <1>1, <1>3, <2>1
<1>8. ASSUME t \in {"started", "generating"} PROVE Coming(h, Append(q, Error), "ending", m)
  <2>1. Len(q) = p - n
    BY <1>1, <1>8
  <2>2. Len(Append(q, Error)) > p - n /\ Append(q, Error)[p - n + 1] = Error
    BY <1>2, <1>3, <2>1
  <2> QED  BY <1>1, <1>2, <1>7, <2>2 DEF Coming, n
<1>9. ASSUME t = "ending" PROVE Coming(h, Append(q, Sentinel), "over", m)
  <2>1. CASE Len(q) = p - n /\ p = Chunks
    <3>1. Len(Append(q, Sentinel)) = p - n + 1 /\ Append(q, Sentinel)[p - n + 1] = Sentinel
      BY <1>2, <1>3, <2>1
    <3> QED  BY <1>1, <1>2, <1>7, <2>1, <3>1 DEF Coming, n
  <2>2. CASE Len(q) > p - n /\ q[p - n + 1] = Error
    <3>1. Len(Append(q, Sentinel)) > p - n /\ Append(q, Sentinel)[p - n + 1] = Error
      BY <1>1, <1>2, <1>3, <2>2
    <3> QED  BY <1>1, <1>2, <1>7, <3>1 DEF Coming, n
  <2> QED  BY <1>1, <1>9, <2>1, <2>2
<1> QED  BY <1>5, <1>6, <1>8, <1>9

(* Its other steps change nothing that was queued.                           *)
LEMMA ThreadMoves ==
  ASSUME NEW h \in Seq(1..Chunks), NEW q \in Seq(Items), NEW t, NEW m \in 0..Chunks, Coming(h, q, t, m)
  PROVE  /\ t = "started" => Coming(h, q, "generating", m)
         /\ t = "generating" /\ m = Chunks => Coming(h, q, "yieldedLast", m)
         /\ t = "generating" /\ m # Chunks =>
              Coming(h, q, IF m = 0 THEN "generating" ELSE "yielded", m + 1)
         /\ t = "yielded" => Coming(h, q, "queueing", m)
         /\ t = "yieldedLast" => Coming(h, q, "queueingLast", m)
         /\ t = "finally" => Coming(h, q, "ending", m)
<1> USE SpeechAssumption
<1>1. t = "started" => Coming(h, q, "generating", m)
  BY DEF Coming
<1>2. t = "generating" /\ m = Chunks => Coming(h, q, "yieldedLast", m)
  BY DEF Coming
<1>3. t = "generating" /\ m = 0 => Coming(h, q, "generating", m + 1)
  BY DEF Coming
<1>4. t = "generating" /\ m # 0 => Coming(h, q, "yielded", m + 1)
  BY DEF Coming
<1>5. /\ t = "yielded" => Coming(h, q, "queueing", m)
      /\ t = "yieldedLast" => Coming(h, q, "queueingLast", m)
      /\ t = "finally" => Coming(h, q, "ending", m)
  BY DEF Coming
<1> QED  BY <1>1, <1>2, <1>3, <1>4, <1>5

(* No two sessions share a turn id.                                          *)
OneTurnOneRequest == \A r, q \in Requests : TurnOf[r] = TurnOf[q] => r = q

(* What is said of uncut speech holds at the start.                          *)
LEMMA UncutInit ==
  ASSUME Init
  PROVE  UncutInv
<1>1. \A r \in Requests : TurnOf[r] # NoTurn
  BY SpeechAssumption
<1> QED  BY <1>1 DEF Init, UncutInv, UncutOf

(* A stream starts with all of its chunks to come.                           *)
LEMMA FreshStream == Coming(<<>>, <<>>, "started", 0)
<1>1. <<>> = [i \in 1..0 |-> i] /\ Len(<<>>) = 0 /\ 0 \in 0..Chunks
  BY SpeechAssumption
<1> QED  BY <1>1 DEF Coming

(* No step of another request disturbs uncut speech, and its own steps bring *)
(* it on.                                                                    *)
LEMMA UncutStep ==
  ASSUME OneTurnOneRequest, TypeOK, UncutInv, [Next]_vars
  PROVE  UncutInv'
<1> USE SpeechAssumption
<1>0. UncutInv = \A r \in Requests : UncutOf(r)
  BY DEF UncutInv
<1>1. ASSUME NEW r \in Requests, Speak(r) PROVE UncutInv'
  <2>1. ASSUME NEW q \in Requests, q # r PROVE UncutOf(q)'
    <3>1. TurnOf[q] # TurnOf[r]
      BY <2>1 DEF OneTurnOneRequest
    <3>2. /\ speech'[q] = speech[q] /\ thread'[q] = thread[q]
          /\ UNCHANGED <<flags, event, made, queue, sent>>
      BY <1>1, <2>1 DEF Speak, TypeOK
    <3>3. \A s \in Sessions : current'[s] = TurnOf[q] => current[s] = TurnOf[q]
      BY <1>1, <3>1 DEF Speak, SetLive, TypeOK
    <3>4. q \notin cut' => q \notin cut /\ (speech[q] = "streaming" => current'[SessionOf[q]] = current[SessionOf[q]])
      BY <1>1, <1>0, <2>1, <3>1 DEF Speak, SetLive, TypeOK, Accept, UncutOf
    <3> QED  BY <1>0, <3>2, <3>3, <3>4 DEF UncutOf, Accept
  <2>2. UncutOf(r)'
    <3>1. /\ speech[r] = "idle" /\ speech'[r] = "streaming" /\ thread'[r] = "started"
          /\ UNCHANGED <<flags, event, made, queue, sent>> /\ cut \subseteq cut'
          /\ current' = [current EXCEPT ![SessionOf[r]] = TurnOf[r]]
      BY <1>1 DEF Speak, SetLive, TypeOK
    <3>2. sent'[r] = <<>> /\ queue'[r] = <<>> /\ made'[r] = 0
      BY <1>0, <3>1 DEF UncutOf
    <3>3. Coming(sent'[r], queue'[r], thread'[r], made'[r])
      BY <3>1, <3>2, FreshStream
    <3> QED  BY <1>0, <3>1, <3>3 DEF UncutOf, Accept, TypeOK
  <2> QED  BY <2>1, <2>2 DEF UncutInv, UncutOf
<1>2. ASSUME NEW s \in Sessions, NEW t, SetLive(s, t), UNCHANGED <<speech, thread, made, queue, sent>>,
             NoCancel \/ (CancelTurn(s, current[s]) /\ current[s] # t),
             \A q \in Requests : TurnOf[q] = t => s = SessionOf[q]
      PROVE  UncutInv'
  <2>1. ASSUME NEW q \in Requests PROVE UncutOf(q)'
    <3>1. \A z \in Sessions : current'[z] = TurnOf[q] => z = SessionOf[q]
      BY <1>0, <1>2 DEF SetLive, UncutOf, TypeOK
    <3>2. ASSUME q \notin cut', speech[q] # "done"
          PROVE  /\ q \notin cut
                 /\ current[SessionOf[q]] = TurnOf[q] => current'[SessionOf[q]] = TurnOf[q]
                 /\ current[s] = TurnOf[q] => current[s] = t
      BY <1>0, <1>2, <3>2 DEF SetLive, UncutOf, TypeOK
    <3>3. q \notin cut' => q \notin cut
      BY <1>2 DEF SetLive
    <3>4. ASSUME q \notin cut', speech[q] \in {"idle", "streaming"}
          PROVE  TurnOf[q] \notin flags' /\ ~event'[q]
      <4>1. TurnOf[q] \notin flags /\ ~event[q]
        BY <1>0, <3>2, <3>4 DEF UncutOf
      <4>2. CASE NoCancel
        BY <4>1, <4>2 DEF NoCancel
      <4>3. CASE CancelTurn(s, current[s]) /\ current[s] # t
        <5>1. TurnOf[q] # current[s]
          BY <3>2, <3>4, <4>3
        <5> QED  BY <4>1, <4>3, <5>1 DEF CancelTurn, Streams
      <4> QED  BY <1>2, <4>2, <4>3
    <3> QED  BY <1>0, <1>2, <3>1, <3>2, <3>3, <3>4 DEF UncutOf, Accept
  <2> QED  BY <2>1 DEF UncutInv, UncutOf
<1>3. ASSUME NEW r \in Requests, BargeIn(SessionOf[r], TurnOf[r]) PROVE UncutInv'
  <2>1. SessionOf[r] \in Sessions /\ \A q \in Requests : TurnOf[q] = TurnOf[r] => SessionOf[r] = SessionOf[q]
    BY DEF OneTurnOneRequest
  <2>2. SetLive(SessionOf[r], TurnOf[r]) /\ UNCHANGED <<speech, thread, made, queue, sent>>
    BY <1>3 DEF BargeIn
  <2>3. NoCancel \/ (CancelTurn(SessionOf[r], current[SessionOf[r]]) /\ current[SessionOf[r]] # TurnOf[r])
    BY <1>3 DEF BargeIn
  <2> QED  BY <1>2, <2>1, <2>2, <2>3
<1>4. ASSUME NEW s \in Sessions, EndSession(s) PROVE UncutInv'
  <2>1. SetLive(s, NoTurn) /\ UNCHANGED <<speech, thread, made, queue, sent>>
    BY <1>4 DEF EndSession, Flush
  <2>2. \A q \in Requests : TurnOf[q] # NoTurn
    OBVIOUS
  <2>3. NoCancel \/ (CancelTurn(s, current[s]) /\ current[s] # NoTurn)
    BY <1>4 DEF EndSession, Flush
  <2> QED  BY <1>2, <2>1, <2>2, <2>3
(* A step that is that of one stream.                                        *)
<1>5. ASSUME NEW r \in Requests, current' = current, flags' \subseteq flags \cup {TurnOf[r]}, UncutOf(r)',
             cut' \in {cut, cut \cup {r}},
             \A q \in Requests \ {r} : /\ speech'[q] = speech[q] /\ event'[q] = event[q] /\ thread'[q] = thread[q]
                                       /\ made'[q] = made[q] /\ queue'[q] = queue[q] /\ sent'[q] = sent[q]
      PROVE  UncutInv'
  <2>1. ASSUME NEW q \in Requests, q # r PROVE UncutOf(q)'
    <3>1. TurnOf[q] # TurnOf[r]
      BY <2>1 DEF OneTurnOneRequest
    <3> QED  BY <1>0, <1>5, <2>1, <3>1, ZenonT(30) DEF UncutOf, Accept
  <2>2. \A q \in Requests : UncutOf(q)'
    BY <1>5, <2>1
  <2> QED  BY <2>2 DEF UncutInv, UncutOf
<1>6. ASSUME NEW r \in Requests, Receive(r) PROVE UncutInv'
  <2>1. /\ speech[r] = "streaming" /\ queue[r] # <<>>
        /\ UNCHANGED <<current, thread, made>>
    BY <1>6 DEF Receive, threadVars
  <2>2. sent[r] \in Seq(1..Chunks) /\ queue[r] \in Seq(Items)
    BY DEF TypeOK
  <2>3. CASE /\ Head(queue[r]).kind = "chunk"
             /\ queue' = [queue EXCEPT ![r] = Tail(@)]
             /\ sent' = (IF Accept(r) THEN [sent EXCEPT ![r] = Append(@, Head(queue[r]).seq)] ELSE sent)
             /\ UNCHANGED <<speech, event, flags, cut>>
    <3>1. r \notin cut => Coming(sent'[r], queue'[r], thread'[r], made'[r])
      <4> SUFFICES ASSUME r \notin cut PROVE Coming(sent'[r], queue'[r], thread'[r], made'[r])
        OBVIOUS
      <4>1. Accept(r) /\ Coming(sent[r], queue[r], thread[r], made[r])
        BY <1>0, <2>1 DEF UncutOf
      <4>2. sent'[r] = Append(sent[r], Head(queue[r]).seq) /\ queue'[r] = Tail(queue[r])
        BY <2>3, <4>1 DEF TypeOK
      <4>3. Coming(Append(sent[r], Head(queue[r]).seq), Tail(queue[r]), thread[r], made[r])
        BY <2>1, <2>2, <2>3, <4>1, ChunkHeard
      <4> QED  BY <2>1, <4>2, <4>3
    <3>2. UncutOf(r)'
      BY <1>0, <2>1, <2>3, <3>1 DEF UncutOf, Accept
    <3> QED  BY <1>5, <2>1, <2>3, <3>2 DEF TypeOK
  <2>4. CASE Head(queue[r]) = Sentinel /\ LeaveStream(r, TRUE) /\ UNCHANGED <<sent, cut>>
    <3>1. r \notin cut => sent[r] = [i \in 1..Chunks |-> i]
      <4> SUFFICES ASSUME r \notin cut PROVE sent[r] = [i \in 1..Chunks |-> i]
        OBVIOUS
      <4>1. Coming(sent[r], queue[r], thread[r], made[r])
        BY <1>0, <2>1 DEF UncutOf
      <4> QED  BY <2>1, <2>2, <2>4, <4>1, EndHeard
    <3>2. UncutOf(r)'
      BY <1>0, <2>1, <2>4, <3>1 DEF UncutOf, LeaveStream, TypeOK
    <3> QED  BY <1>5, <2>1, <2>4, <3>2 DEF TypeOK, LeaveStream
  <2>5. CASE LeaveStream(r, FALSE) /\ cut' = cut \cup {r} /\ sent' = sent
    <3>2. UncutOf(r)'
      BY <1>0, <2>1, <2>5 DEF UncutOf, LeaveStream, TypeOK
    <3> QED  BY <1>5, <2>1, <2>5, <3>2 DEF TypeOK, LeaveStream
  <2> QED  BY <1>6, <2>3, <2>4, <2>5 DEF Receive
<1>7. ASSUME NEW r \in Requests, TearDown(r) PROVE UncutInv'
  <2>1. /\ speech[r] = "streaming" /\ LeaveStream(r, FALSE) /\ cut' = cut \cup {r}
        /\ UNCHANGED <<current, thread, made, sent>>
    BY <1>7 DEF TearDown, threadVars
  <2>2. UncutOf(r)'
    BY <1>0, <2>1 DEF UncutOf, LeaveStream, TypeOK
  <2> QED  BY <1>5, <2>1, <2>2 DEF TypeOK, LeaveStream
<1>8. ASSUME NEW r \in Requests, Join(r) PROVE UncutInv'
  <2>1. /\ speech[r] = "joining" /\ speech' = [speech EXCEPT ![r] = "done"]
        /\ UNCHANGED <<current, flags, event, thread, made, queue, sent, cut>>
    BY <1>8 DEF Join, threadVars
  <2>2. UncutOf(r)'
    BY <1>0, <2>1 DEF UncutOf, TypeOK
  <2> QED  BY <1>5, <2>1, <2>2 DEF TypeOK
<1>9. ASSUME NEW r \in Requests, UNCHANGED <<current, speech, event, sent, cut>>, flags' \subseteq flags,
             thread[r] # "none",
             \A q \in Requests \ {r} : thread'[q] = thread[q] /\ made'[q] = made[q] /\ queue'[q] = queue[q],
             speech[r] = "streaming" /\ r \notin cut => Coming(sent[r], queue'[r], thread'[r], made'[r])
      PROVE  UncutInv'
  <2>1. UncutOf(r)'
    BY <1>0, <1>9 DEF UncutOf, Accept
  <2> QED  BY <1>5, <1>9, <2>1
<1>10. ASSUME NEW r \in Requests, Produce(r) \/ ModelRaises(r) PROVE UncutInv'
  <2>1. /\ UNCHANGED <<current, speech, event, sent, cut>> /\ flags' \subseteq flags
        /\ thread[r] # "none"
    BY <1>10 DEF Produce, Enter, Generate, CheckEvent, QueueChunk, GeneratorFinally, EndThread, ModelRaises, loopVars
  <2>2. \A q \in Requests \ {r} : thread'[q] = thread[q] /\ made'[q] = made[q] /\ queue'[q] = queue[q]
    BY <1>10 DEF Produce, Enter, Generate, CheckEvent, QueueChunk, GeneratorFinally, EndThread, ModelRaises,
                 GoThread, Put, TypeOK
  <2>3. ASSUME speech[r] = "streaming", r \notin cut PROVE Coming(sent[r], queue'[r], thread'[r], made'[r])
    <3>1. /\ Coming(sent[r], queue[r], thread[r], made[r]) /\ TurnOf[r] \notin flags /\ ~event[r]
          /\ sent[r] \in Seq(1..Chunks) /\ queue[r] \in Seq(Items) /\ made[r] \in 0..Chunks
      BY <1>0, <2>3 DEF UncutOf, TypeOK
    <3> DEFINE h == sent[r]
               q == queue[r]
               t == thread[r]
               m == made[r]
    <3>4. /\ t = "queueing" => Coming(h, Append(q, Chunk(m - 1)), "generating", m)
          /\ t = "queueingLast" => Coming(h, Append(q, Chunk(m)), "finally", m)
          /\ t \in {"started", "generating"} => Coming(h, Append(q, Error), "ending", m)
          /\ t = "ending" => Coming(h, Append(q, Sentinel), "over", m)
      BY <3>1, ItemQueued
    <3>5. /\ t = "started" => Coming(h, q, "generating", m)
          /\ t = "generating" /\ m = Chunks => Coming(h, q, "yieldedLast", m)
          /\ t = "generating" /\ m # Chunks =>
               Coming(h, q, IF m = 0 THEN "generating" ELSE "yielded", m + 1)
          /\ t = "yielded" => Coming(h, q, "queueing", m)
          /\ t = "yieldedLast" => Coming(h, q, "queueingLast", m)
          /\ t = "finally" => Coming(h, q, "ending", m)
      BY <3>1, ThreadMoves
    <3>2. CASE Enter(r) \/ Generate(r) \/ CheckEvent(r)
      <4>1. \/ queue'[r] = Append(queue[r], Error) /\ thread[r] = "started" /\ thread'[r] = "ending" /\ made' = made
            \/ queue'[r] = queue[r] /\ thread[r] = "started" /\ thread'[r] = "generating" /\ made' = made
            \/ queue'[r] = queue[r] /\ thread[r] = "generating" /\ made[r] = Chunks /\ thread'[r] = "yieldedLast" /\ made' = made
            \/ queue'[r] = queue[r] /\ thread[r] = "generating" /\ made[r] # Chunks /\ made'[r] = made[r] + 1
                /\ thread'[r] = IF made[r] = 0 THEN "generating" ELSE "yielded"
            \/ queue'[r] = queue[r] /\ thread[r] = "yielded" /\ thread'[r] = "queueing" /\ made' = made
            \/ queue'[r] = queue[r] /\ thread[r] = "yieldedLast" /\ thread'[r] = "queueingLast" /\ made' = made
        BY <2>3, <3>1, <3>2 DEF Enter, Generate, CheckEvent, MayQueue, GoThread, Put, TypeOK
      <4> QED  BY <3>4, <3>5, <4>1
    <3>3. CASE QueueChunk(r) \/ ModelRaises(r) \/ GeneratorFinally(r) \/ EndThread(r)
      <4>1. /\ made' = made
            /\ \/ queue'[r] = Append(queue[r], Chunk(made[r] - 1)) /\ thread[r] = "queueing" /\ thread'[r] = "generating"
               \/ queue'[r] = Append(queue[r], Chunk(made[r])) /\ thread[r] = "queueingLast" /\ thread'[r] = "finally"
               \/ queue'[r] = Append(queue[r], Error) /\ thread[r] = "generating" /\ thread'[r] = "ending"
               \/ queue'[r] = queue[r] /\ thread[r] = "finally" /\ thread'[r] = "ending"
               \/ queue'[r] = Append(queue[r], Sentinel) /\ thread[r] = "ending" /\ thread'[r] = "over"
        BY <2>3, <3>1, <3>3 DEF QueueChunk, ModelRaises, GeneratorFinally, EndThread, GoThread, Put, TypeOK
      <4> QED  BY <3>4, <3>5, <4>1
    <3> QED  BY <1>10, <3>2, <3>3 DEF Produce
  <2> QED  BY <1>9, <2>1, <2>2, <2>3
<1>11. CASE UNCHANGED vars
  BY <1>0, <1>11 DEF vars, UncutInv, UncutOf, Accept
<1> QED  BY <1>1, <1>3, <1>4, <1>6, <1>7, <1>8, <1>10, <1>11 DEF Next

(* No step sends a chunk of a cancelled stream,                              *)
LEMMA SilentAfterCancel ==
  ASSUME TypeOK, CancelledInv, Next, NEW r \in Requests, event[r]
  PROVE  sent'[r] = sent[r]
<1>1. ASSUME NEW q \in Requests, Receive(q) PROVE sent'[r] = sent[r]
  <2>1. CASE q = r
    <3>1. ~Accept(r)
      BY <1>1, <2>1 DEF Receive, CancelledInv
    <3> QED  BY <1>1, <2>1, <3>1 DEF Receive
  <2>2. CASE q # r
    BY <1>1, <2>2 DEF Receive, TypeOK
  <2> QED  BY <2>1, <2>2
<1>2. ASSUME UNCHANGED sent PROVE sent'[r] = sent[r]
  BY <1>2
<1> QED
  BY <1>1, <1>2
     DEF Next, Produce, Speak, BargeIn, EndSession, Flush, TearDown, Join, Enter, Generate, CheckEvent, QueueChunk,
         ModelRaises, GeneratorFinally, EndThread, loopVars

(* and none makes its producer commit to another.                            *)
LEMMA CancelledQueuesNoMore ==
  ASSUME TypeOK, Next, NEW r \in Requests, event[r], thread[r] \notin {"queueing", "queueingLast"}
  PROVE  thread'[r] \notin {"queueing", "queueingLast"}
<1>1. ASSUME NEW q \in Requests, Produce(q) \/ ModelRaises(q) \/ Speak(q)
      PROVE  thread'[r] \notin {"queueing", "queueingLast"}
  BY <1>1 DEF Produce, Enter, Generate, CheckEvent, MayQueue, QueueChunk, ModelRaises, GeneratorFinally, EndThread,
              Speak, GoThread, TypeOK
<1>2. ASSUME UNCHANGED thread PROVE thread'[r] \notin {"queueing", "queueingLast"}
  BY <1>2
<1> QED
  BY <1>1, <1>2 DEF Next, BargeIn, EndSession, Flush, Receive, TearDown, Join, threadVars

(* What holds whatever turn ids the sessions share.                          *)
StackInv == TypeOK /\ MadeInv /\ SessionBooks /\ CancelledInv

(* The invariant that every deployment keeps.                                *)
LEMMA StackStep == StackInv /\ [Next]_vars => StackInv'
  BY TypeStep, MadeStep, BooksStep, CancelledStep DEF StackInv

(* It holds of any number of sessions, requests and chunks.                  *)
THEOREM StackInvHolds == Spec => []StackInv
<1>1. Init => StackInv
  BY SessionBooksInit DEF StackInv
<1> QED  BY <1>1, StackStep, PTL DEF Spec

(* SessionAudio: the turns of which a session measures the time from a       *)
(* cancel to silence are among those it speaks, and these are exactly the    *)
(* speak() calls that have not returned, whatever turn ids its sessions      *)
(* share.                                                                    *)
THEOREM SpeechBooksHold == Spec => []SessionBooks
<1>1. StackInv => SessionBooks
  BY DEF StackInv
<1> QED  BY StackInvHolds, <1>1, PTL

(* Where no two sessions share a turn id - one session, or ids that carry    *)
(* the session - speech that nothing interrupted is heard whole and in       *)
(* order, whatever barge-ins, flushes, teardowns and failures do to the      *)
(* rest.                                                                     *)
THEOREM SpeechIsWhole ==
  ASSUME OneTurnOneRequest
  PROVE  Spec => []SpeechInv
<1>1. Init => StackInv /\ UncutInv
  BY SessionBooksInit, UncutInit DEF StackInv
<1>2. (StackInv /\ UncutInv) /\ [Next]_vars => (StackInv /\ UncutInv)'
  BY OneTurnOneRequest, StackStep, UncutStep DEF StackInv
<1>3. StackInv /\ UncutInv => SpeechInv
  BY DEF StackInv, SpeechInv, UncutInv, UncutOf, WholeUnlessCut
<1> QED  BY <1>1, <1>2, <1>3, PTL DEF Spec

(* TTSWorker.stream and _produce: once the event of a stream is set none of  *)
(* its chunks reaches the sink, and its producer queues none that it had not *)
(* committed to, whatever turn ids its sessions share.                       *)
THEOREM CutsAreFinal == Spec => CutIsFinal
<1>1. StackInv /\ [Next]_vars => [\A r \in Requests : event[r] => sent'[r] = sent[r]]_vars
  BY SilentAfterCancel DEF StackInv
<1>2. StackInv /\ [Next]_vars =>
        [\A r \in Requests :
           event[r] /\ thread[r] \notin {"queueing", "queueingLast"}
             => thread'[r] \notin {"queueing", "queueingLast"}]_vars
  BY CancelledQueuesNoMore DEF StackInv
<1> QED  BY <1>1, <1>2, StackInvHolds, PTL DEF Spec, CutIsFinal, NoAudioAfterCancel, CancelStopsProducer
==============================================================================
