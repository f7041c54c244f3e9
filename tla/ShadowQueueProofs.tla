------------------------- MODULE ShadowQueueProofs -------------------------
(***************************************************************************)
(* Theorems about ShadowQueue, for any number of requests and closers and  *)
(* any queue size.                                                         *)
(***************************************************************************)
EXTENDS ShadowQueue, TLAPS

\* Every variable keeps its type.
LEMMA TypeInit == Init => TypeOK
<1> SUFFICES ASSUME Init PROVE TypeOK
  OBVIOUS
<1>1. queue \in Seq(Requests \cup {Sentinel})
  BY DEF Init
<1>2. /\ caller \in [Requests -> {"idle", "open", "accepted", "refused"}]
      /\ closer \in [Closers -> {"idle", "draining", "drained", "closing", "stopping", "joining"}
                                \cup Outcomes]
      /\ drained \in [Closers -> SUBSET Requests]
  BY DEF Init
<1> QED  BY <1>1, <1>2 DEF Init, TypeOK

\* The queue's own put keeps the types.
LEMMA PutType ==
  ASSUME TypeOK, NEW x \in Requests \cup {Sentinel}, Put(x)
  PROVE  queue' \in Seq(Requests \cup {Sentinel}) /\ unfinished' \in Nat
  BY DEF TypeOK, Put

\* Each step keeps every type.  A task is only counted as done while one is in hand, so the
\* count stays a natural number: that part needs Books.
LEMMA TypeNext == TypeOK /\ Books /\ [Next]_vars => TypeOK'
<1> SUFFICES ASSUME TypeOK, Books, [Next]_vars PROVE TypeOK'
  OBVIOUS
<1>1. ASSUME NEW r \in Requests, Dispatch(r) PROVE TypeOK'
  BY <1>1 DEF TypeOK, Dispatch, queueVars, workerVars, Outcomes
<1>2. ASSUME NEW r \in Requests, PutRequest(r) PROVE TypeOK'
  <2>1. CASE Full
    BY <1>2, <2>1 DEF TypeOK, PutRequest, queueVars, workerVars, Outcomes
  <2>2. CASE ~Full
    <3>1. queue' \in Seq(Requests \cup {Sentinel}) /\ unfinished' \in Nat
      BY <1>2, <2>2, PutType DEF PutRequest
    <3> QED  BY <1>2, <2>2, <3>1 DEF TypeOK, PutRequest, workerVars, Outcomes
  <2> QED  BY <2>1, <2>2
<1>3. ASSUME NEW k \in Closers, Close(k) PROVE TypeOK'
  BY <1>3 DEF TypeOK, Close, Move, queueVars, workerVars, Outcomes
<1>4. ASSUME NEW k \in Closers, SeeDrained(k) PROVE TypeOK'
  BY <1>4 DEF TypeOK, SeeDrained, Move, queueVars, workerVars, Outcomes, Accepted
<1>5. ASSUME NEW k \in Closers, DrainTimeout(k) PROVE TypeOK'
  BY <1>5 DEF TypeOK, DrainTimeout, Move, queueVars, workerVars, Outcomes
<1>6. ASSUME NEW k \in Closers, CheckErrors(k) PROVE TypeOK'
  BY <1>6 DEF TypeOK, CheckErrors, Move, queueVars, workerVars, Outcomes
<1>7. ASSUME NEW k \in Closers, SetClosed(k) PROVE TypeOK'
  BY <1>7 DEF TypeOK, SetClosed, Move, queueVars, workerVars, Outcomes
<1>8. ASSUME NEW k \in Closers, PutSentinel(k) PROVE TypeOK'
  <2>1. CASE Full
    BY <1>8, <2>1 DEF TypeOK, PutSentinel, Move, queueVars, workerVars, Outcomes
  <2>2. CASE ~Full
    <3>1. queue' \in Seq(Requests \cup {Sentinel}) /\ unfinished' \in Nat
      BY <1>8, <2>2, PutType DEF PutSentinel
    <3> QED  BY <1>8, <2>2, <3>1 DEF TypeOK, PutSentinel, Move, workerVars, Outcomes
  <2> QED  BY <2>1, <2>2
<1>9. ASSUME NEW k \in Closers, JoinThread(k) PROVE TypeOK'
  BY <1>9 DEF TypeOK, JoinThread, Move, queueVars, workerVars, Outcomes
<1>10. ASSUME NEW k \in Closers, StopTimeout(k) PROVE TypeOK'
  BY <1>10 DEF TypeOK, StopTimeout, Move, queueVars, workerVars, Outcomes
<1>11. CASE Get
  BY <1>11 DEF TypeOK, Get, Outcomes
<1>12. CASE Work
  BY <1>12 DEF TypeOK, Work, queueVars, Outcomes
<1>13. CASE TaskDone
  BY <1>13 DEF TypeOK, TaskDone, Books, InHand, Outcomes
<1>14. CASE UNCHANGED vars
  BY <1>14 DEF TypeOK, vars, queueVars, workerVars, Outcomes
<1> QED
  BY <1>1, <1>2, <1>3, <1>4, <1>5, <1>6, <1>7, <1>8, <1>9, <1>10, <1>11, <1>12, <1>13, <1>14
     DEF Next, CloseStep, RunWorker

-----------------------------------------------------------------------------
LEMMA BooksInit == Init => Books
  BY QueueAssumption DEF Init, Books, InHand, Accepted, Processed, Waiting

\* Steps that leave the queue, the worker and the callers alone leave the books alone.
LEMMA BooksUnchanged ==
  ASSUME Books, UNCHANGED <<queueVars, workerVars, caller>>
  PROVE  Books'
  BY DEF Books, InHand, Accepted, Processed, Waiting, queueVars, workerVars

LEMMA BooksNext == TypeOK /\ Books /\ [Next]_vars => Books'
<1> SUFFICES ASSUME TypeOK, Books, [Next]_vars PROVE Books'
  OBVIOUS
<1>a. Len(queue) \in Nat /\ DOMAIN queue = 1..Len(queue)
  BY DEF TypeOK
<1>b. unfinished = Len(queue) + InHand
  BY DEF Books
<1>c. \A i, j \in DOMAIN queue : queue[i] = queue[j] => i = j \/ queue[i] = Sentinel
  BY DEF Books
<1>d. \A i \in DOMAIN queue : queue[i] # Sentinel => queue[i] \in Accepted \ Processed
  BY DEF Books
<1>e. Processed \subseteq Accepted
  BY DEF Books
<1> USE DEF InHand, Accepted, Processed, Waiting
<1>1. ASSUME NEW r \in Requests, Dispatch(r) PROVE Books'
  <2>1. Accepted' = Accepted
    BY <1>1 DEF Dispatch, TypeOK
  <2> QED  BY <1>1, <2>1 DEF Books, Dispatch, queueVars, workerVars
<1>2. ASSUME NEW r \in Requests, PutRequest(r) PROVE Books'
  <2>1. CASE Full
    <3>1. Accepted' = Accepted
      BY <1>2, <2>1 DEF PutRequest, TypeOK
    <3> QED  BY <1>2, <2>1, <3>1 DEF Books, PutRequest, queueVars, workerVars
  <2>2. CASE ~Full
    <3>1. /\ Accepted' = Accepted \cup {r}
          /\ r \notin Accepted
          /\ queue' = Append(queue, r)
          /\ unfinished' = unfinished + 1
          /\ UNCHANGED <<worker, item, errors, finished>>
      BY <1>2, <2>2 DEF PutRequest, TypeOK, Put, workerVars
    <3>2. /\ Len(queue') = Len(queue) + 1
          /\ DOMAIN queue' = 1..(Len(queue) + 1)
          /\ DOMAIN queue = 1..Len(queue)
          /\ queue'[Len(queue) + 1] = r
          /\ \A i \in 1..Len(queue) : queue'[i] = queue[i]
      BY <3>1 DEF TypeOK
    <3>3. Waiting' = Waiting \cup {r}
      BY <3>2, <1>a DEF TypeOK
    <3>4. \A i \in DOMAIN queue : queue[i] # r
      BY <3>1, QueueAssumption DEF Books
    <3>5. (unfinished = Len(queue) + InHand)'
      <4>1. InHand \in Nat /\ InHand' = InHand
        BY <3>1
      <4> HIDE DEF InHand
      <4> QED  BY <3>1, <3>2, <4>1, <1>a, <1>b
    <3>6. (\A i, j \in DOMAIN queue : queue[i] = queue[j] => i = j \/ queue[i] = Sentinel)'
      BY <3>2, <3>4, <1>a, <1>c
    <3>7. (\A i \in DOMAIN queue : queue[i] # Sentinel => queue[i] \in Accepted \ Processed)'
      <4>1. Processed' = Processed /\ Processed \subseteq Accepted
        BY <3>1, <1>e
      <4> HIDE DEF Accepted, Processed
      <4> QED  BY <3>1, <3>2, <1>a, <1>d, <4>1
    <3> HIDE DEF Waiting, Accepted
    <3> QED  BY <3>1, <3>3, <3>5, <3>6, <3>7 DEF Books
  <2> QED  BY <2>1, <2>2
<1>3. ASSUME NEW k \in Closers, PutSentinel(k) PROVE Books'
  <2>1. CASE Full
    BY <1>3, <2>1, BooksUnchanged DEF PutSentinel, queueVars, workerVars
  <2>2. CASE ~Full
    <3>1. /\ Accepted' = Accepted
          /\ queue' = Append(queue, Sentinel)
          /\ unfinished' = unfinished + 1
          /\ UNCHANGED <<worker, item, errors, finished>>
      BY <1>3, <2>2 DEF PutSentinel, Put, workerVars
    <3>2. /\ Len(queue') = Len(queue) + 1
          /\ DOMAIN queue' = 1..(Len(queue) + 1)
          /\ DOMAIN queue = 1..Len(queue)
          /\ queue'[Len(queue) + 1] = Sentinel
          /\ \A i \in 1..Len(queue) : queue'[i] = queue[i]
      BY <3>1 DEF TypeOK
    <3>3. Waiting' = Waiting \cup {Sentinel}
      BY <3>2, <1>a DEF TypeOK
    <3>5. (unfinished = Len(queue) + InHand)'
      <4>1. InHand \in Nat /\ InHand' = InHand
        BY <3>1
      <4> HIDE DEF InHand
      <4> QED  BY <3>1, <3>2, <4>1, <1>a, <1>b
    <3>6. (\A i, j \in DOMAIN queue : queue[i] = queue[j] => i = j \/ queue[i] = Sentinel)'
      BY <3>2, <1>a, <1>c
    <3>7. (\A i \in DOMAIN queue : queue[i] # Sentinel => queue[i] \in Accepted \ Processed)'
      <4>1. Processed' = Processed /\ Processed \subseteq Accepted
        BY <3>1, <1>e
      <4> HIDE DEF Accepted, Processed
      <4> QED  BY <3>1, <3>2, <1>a, <1>d, <4>1
    <3> HIDE DEF Waiting, Accepted
    <3> QED  BY <3>1, <3>3, <3>5, <3>6, <3>7 DEF Books
  <2> QED  BY <2>1, <2>2
<1>4. CASE Get
  <2>1. /\ queue # <<>>
        /\ item' = queue[1]
        /\ queue' = Tail(queue)
        /\ worker = "waiting"
        /\ worker' = "holding"
        /\ Accepted' = Accepted
        /\ UNCHANGED <<unfinished, errors, finished>>
    BY <1>4 DEF Get, TypeOK
  <2>2. /\ Len(queue) \in Nat \ {0}
        /\ Len(queue') = Len(queue) - 1
        /\ DOMAIN queue = 1..Len(queue)
        /\ DOMAIN queue' = 1..(Len(queue) - 1)
        /\ \A i \in DOMAIN queue' : queue'[i] = queue[i + 1]
    BY <2>1 DEF TypeOK
  <2>3. Waiting \subseteq Waiting' \cup {item'}
    <3> SUFFICES ASSUME NEW i \in DOMAIN queue, i # 1 PROVE queue[i] \in Waiting'
      BY <2>1
    <3>1. i - 1 \in DOMAIN queue' /\ queue'[i - 1] = queue[i]
      BY <2>2
    <3> QED  BY <3>1
  <2>4. (unfinished = Len(queue) + InHand)'
    BY <2>1, <2>2 DEF Books
  <2>5. (\A i, j \in DOMAIN queue : queue[i] = queue[j] => i = j \/ queue[i] = Sentinel)'
    BY <2>2 DEF Books
  <2>6. (\A i \in DOMAIN queue : queue[i] # Sentinel => queue[i] \in Accepted \ Processed)'
    BY <2>1, <2>2 DEF Books
  <2>7. item' # Sentinel => item' \in Accepted \ Processed /\ item' \notin Waiting'
    BY <2>1, <2>2 DEF Books
  <2> HIDE DEF Waiting, Accepted
  <2> QED  BY <2>1, <2>3, <2>4, <2>5, <2>6, <2>7 DEF Books
<1>5. CASE Work
  <2>1. /\ worker = "holding" /\ worker' = "worked"
        /\ item # Sentinel
        /\ Processed' = Processed \cup {item}
        /\ Accepted' = Accepted
        /\ UNCHANGED <<queue, unfinished, item>>
    BY <1>5 DEF Work, queueVars
  <2>2. item \in Accepted /\ item \notin Processed /\ item \notin Waiting
    BY <2>1 DEF Books
  <2>3. \A i \in DOMAIN queue : queue[i] # item
    BY <2>2
  <2>4. (errors \cap finished = {})'
    BY <1>5, <2>2 DEF Work, Books
  <2>5. Waiting' = Waiting
    BY <2>1
  <2> HIDE DEF Accepted, Processed, Waiting
  <2> QED  BY <2>1, <2>2, <2>3, <2>4, <2>5 DEF Books
<1>6. CASE TaskDone
  <2>1. /\ worker \in {"holding", "worked"} /\ worker' \in {"waiting", "stopped"}
        /\ unfinished' = unfinished - 1
        /\ worker = "holding" => item = Sentinel
        /\ UNCHANGED <<queue, errors, finished, item, caller>>
    BY <1>6 DEF TaskDone
  <2>2. (unfinished = Len(queue) + InHand)'
    BY <2>1, <1>a, <1>b
  <2>3. Accepted' = Accepted /\ Processed' = Processed /\ Waiting' = Waiting
    BY <2>1
  <2> HIDE DEF Accepted, Processed, Waiting
  <2> QED  BY <2>1, <2>2, <2>3, QueueAssumption DEF Books, TypeOK, Accepted
<1>7. CASE UNCHANGED <<queueVars, workerVars, caller>>
  BY <1>7, BooksUnchanged
<1> QED
  BY <1>1, <1>2, <1>3, <1>4, <1>5, <1>6, <1>7
     DEF Next, CloseStep, RunWorker, Close, SeeDrained, DrainTimeout, CheckErrors, SetClosed,
         JoinThread, StopTimeout, vars

-----------------------------------------------------------------------------
\* The types and the books of the queue hold for every number of requests, closers and
\* every size of the queue.
THEOREM QueueBooks == Spec => [](TypeOK /\ Books)
<1>1. Init => TypeOK /\ Books
  BY TypeInit, BooksInit
<1>2. TypeOK /\ Books /\ [Next]_vars => (TypeOK /\ Books)'
  BY TypeNext, BooksNext
<1> QED  BY <1>1, <1>2, PTL DEF Spec

\* Nothing is unfinished when the queue and the worker's hand are empty: what was
\* accepted has been processed.
LEMMA NothingUnfinished == TypeOK /\ Books /\ unfinished = 0 => Accepted \subseteq Processed
<1> SUFFICES ASSUME TypeOK, Books, unfinished = 0 PROVE Accepted \subseteq Processed
  OBVIOUS
<1>1. Len(queue) = 0 /\ worker # "holding"
  BY DEF Books, InHand, TypeOK
<1>2. Waiting = {}
  BY <1>1 DEF Waiting, TypeOK
<1> QED  BY <1>1, <1>2 DEF Books

\* A failure that is recorded is the failure of a request that was not processed before.
LEMMA NewErrors ==
  ASSUME TypeOK, Books, Work
  PROVE  errors' \cap Processed \subseteq errors /\ Processed \subseteq Processed'
<1>1. item \notin Processed
  BY DEF Books, Work
<1> QED  BY <1>1 DEF Work, Processed

\* What had been accepted when close() saw the queue drained has been processed, and none
\* of it had failed when close() goes on to stop the worker.
THEOREM DrainedIsDoneHolds == Spec => []DrainedIsDone
<1>1. Init => DrainedIsDone
  BY DEF Init, DrainedIsDone, Outcomes
<1>2. TypeOK /\ Books /\ DrainedIsDone /\ [Next]_vars => DrainedIsDone'
  <2> SUFFICES ASSUME TypeOK, Books, DrainedIsDone, [Next]_vars PROVE DrainedIsDone'
    OBVIOUS
  <2>1. ASSUME NEW k \in Closers, SeeDrained(k) PROVE DrainedIsDone'
    <3>1. Accepted \subseteq Processed
      BY <2>1, NothingUnfinished DEF SeeDrained
    <3>2. Processed' = Processed /\ errors' = errors
      BY <2>1 DEF SeeDrained, Processed, workerVars
    <3> HIDE DEF Processed
    <3> QED  BY <2>1, <3>1, <3>2 DEF SeeDrained, Move, DrainedIsDone, TypeOK
  <2>2. ASSUME NEW k \in Closers, CheckErrors(k) PROVE DrainedIsDone'
    BY <2>2 DEF CheckErrors, Move, DrainedIsDone, TypeOK, Processed, workerVars
  <2>3. CASE Work
    BY <2>3, NewErrors DEF Work, DrainedIsDone
  <2>4. ASSUME NEW k \in Closers,
               Close(k) \/ DrainTimeout(k) \/ SetClosed(k) \/ PutSentinel(k)
                 \/ JoinThread(k) \/ StopTimeout(k)
        PROVE  DrainedIsDone'
    <3>1. UNCHANGED <<drained, errors, finished>>
      BY <2>4 DEF Close, DrainTimeout, SetClosed, PutSentinel, JoinThread, StopTimeout, workerVars
    <3>2. closer'[k] \in {"closing", "stopping", "joining", "stoppedWorker"}
            => closer[k] \in {"closing", "stopping", "joining", "stoppedWorker"}
      BY <2>4 DEF Close, DrainTimeout, SetClosed, PutSentinel, JoinThread, StopTimeout, Move, TypeOK
    <3>3. \A q \in Closers \ {k} : closer'[q] = closer[q]
      BY <2>4 DEF Close, DrainTimeout, SetClosed, PutSentinel, JoinThread, StopTimeout, Move, TypeOK
    <3> QED  BY <3>1, <3>2, <3>3 DEF DrainedIsDone, Processed
  <2>5. CASE UNCHANGED <<drained, closer, errors, finished>>
    BY <2>5 DEF DrainedIsDone, Processed
  <2> QED
    BY <2>1, <2>2, <2>3, <2>4, <2>5
       DEF Next, CloseStep, RunWorker, Dispatch, PutRequest, Get, TaskDone, vars, workerVars
<1> QED  BY <1>1, <1>2, QueueBooks, PTL DEF Spec

-----------------------------------------------------------------------------
\* The sentinel comes from a close() that went all the way to its put, and nothing else
\* stops the worker.
SentOn == {"joining", "raised", "stoppedWorker"}
SentinelAbroad ==
    \/ worker = "stopped"
    \/ worker = "holding" /\ item = Sentinel
    \/ \E i \in DOMAIN queue : queue[i] = Sentinel
StopIsAsked ==
    /\ SentinelAbroad => \E k \in Closers : closed /\ closer[k] \in SentOn
    /\ \A k \in Closers : closer[k] \in {"stopping", "joining", "stoppedWorker"} => closed

LEMMA StopIsAskedNext == TypeOK /\ StopIsAsked /\ [Next]_vars => StopIsAsked'
<1> SUFFICES ASSUME TypeOK, StopIsAsked, [Next]_vars PROVE StopIsAsked'
  OBVIOUS
<1>a. queue \in Seq(Requests \cup {Sentinel}) /\ Sentinel \notin Requests
  BY QueueAssumption DEF TypeOK
<1>1. ASSUME NEW r \in Requests, Dispatch(r) PROVE StopIsAsked'
  BY <1>1 DEF Dispatch, StopIsAsked, SentinelAbroad, queueVars, workerVars
<1>2. ASSUME NEW r \in Requests, PutRequest(r) PROVE StopIsAsked'
  <2>1. queue' = queue \/ queue' = Append(queue, r)
    BY <1>2 DEF PutRequest, Put, queueVars
  <2>2. (\E i \in DOMAIN queue' : queue'[i] = Sentinel) => \E i \in DOMAIN queue : queue[i] = Sentinel
    BY <1>a, <2>1
  <2> QED  BY <1>2, <2>2 DEF PutRequest, StopIsAsked, SentinelAbroad, workerVars
<1>3. ASSUME NEW k \in Closers,
             Close(k) \/ SeeDrained(k) \/ DrainTimeout(k) \/ CheckErrors(k) \/ SetClosed(k)
               \/ JoinThread(k) \/ StopTimeout(k)
      PROVE  StopIsAsked'
  <2>1. UNCHANGED <<queue, worker, item>> /\ (closed => closed')
    BY <1>3 DEF Close, SeeDrained, DrainTimeout, CheckErrors, SetClosed, JoinThread, StopTimeout, queueVars, workerVars
  <2>2. /\ \A q \in Closers \ {k} : closer'[q] = closer[q]
        /\ closer[k] \in SentOn => closer'[k] \in SentOn
        /\ closer'[k] \in {"stopping", "joining", "stoppedWorker"} => closed'
    BY <1>3 DEF Close, SeeDrained, DrainTimeout, CheckErrors, SetClosed, JoinThread, StopTimeout, Move,
                TypeOK, SentOn, StopIsAsked
  <2> QED  BY <2>1, <2>2 DEF StopIsAsked, SentinelAbroad
<1>4. ASSUME NEW k \in Closers, PutSentinel(k) PROVE StopIsAsked'
  <2>1. closed /\ closed' /\ closer'[k] \in SentOn /\ \A q \in Closers \ {k} : closer'[q] = closer[q]
    BY <1>4 DEF PutSentinel, Move, StopIsAsked, TypeOK, SentOn
  <2> QED  BY <2>1 DEF StopIsAsked
<1>5. CASE Get
  <2>1. /\ queue # <<>> /\ queue' = Tail(queue) /\ item' = Head(queue) /\ UNCHANGED <<closed, closer>>
        /\ worker = "waiting" /\ worker' = "holding"
    BY <1>5 DEF Get
  <2>2. item' = queue[1] /\ 1 \in DOMAIN queue
        /\ \A i \in DOMAIN queue' : i + 1 \in DOMAIN queue /\ queue'[i] = queue[i + 1]
    BY <1>a, <2>1
  <2>3. SentinelAbroad' => SentinelAbroad
    BY <2>1, <2>2 DEF SentinelAbroad
  <2> QED  BY <2>1, <2>3 DEF StopIsAsked
<1>6. CASE Work \/ TaskDone \/ UNCHANGED vars
  <2>1. UNCHANGED <<closed, closer, queue, item>>
    BY <1>6 DEF Work, TaskDone, vars, queueVars, workerVars
  <2>2. SentinelAbroad' => SentinelAbroad
    BY <1>6, <2>1 DEF Work, TaskDone, vars, workerVars, SentinelAbroad
  <2> QED  BY <2>1, <2>2 DEF StopIsAsked
<1> QED
  BY <1>1, <1>2, <1>3, <1>4, <1>5, <1>6 DEF Next, CloseStep, RunWorker

\* The queue, the worker's hand and the count agree, and an exception of the worker's
\* callable never stops it: only a close() does.
THEOREM QueueInvHolds == Spec => []QueueInv
<1>1. Init => StopIsAsked
  BY DEF Init, StopIsAsked, SentinelAbroad
<1>2. TypeOK /\ Books /\ StopIsAsked => QueueInv
  BY DEF QueueInv, WorkerOutlivesErrors, StopIsAsked, SentinelAbroad, SentOn
<1> QED  BY <1>1, <1>2, StopIsAskedNext, QueueBooks, PTL DEF Spec

=============================================================================
