---------------------------- MODULE ShadowQueue ----------------------------
(***************************************************************************)
(* QueueShadowDispatcher (reflex/jev_live.py): a bounded queue with one    *)
(* worker thread, fed by dispatch() from any thread and stopped by close().*)
(*                                                                         *)
(* Every actor is a thread, and a step is what a thread does between two   *)
(* accesses to something shared: _closed, _errors, _queue (whose own       *)
(* methods are atomic).  Each request is dispatched once, each closer      *)
(* calls close() once.                                                     *)
(***************************************************************************)
EXTENDS Naturals, Sequences, FiniteSets

CONSTANTS
    Requests,
    Closers,
    MaxSize,      \* maxsize of the queue
    WorkerFails,  \* the worker callable may raise
    Sentinel

ASSUME QueueAssumption ==
    /\ MaxSize \in Nat \ {0}
    /\ WorkerFails \in BOOLEAN
    /\ Sentinel \notin Requests

VARIABLES
    closed,     \* _closed
    queue,      \* _queue
    unfinished, \* _queue.unfinished_tasks
    errors,     \* requests whose exception is in _errors
    finished,   \* requests the worker callable returned for
    worker,     \* where _run is
    item,       \* the item it holds
    caller,     \* where each dispatch() is
    closer,     \* where each close() is
    drained     \* observation: what had been accepted when a close() saw the queue empty

queueVars  == <<queue, unfinished>>
workerVars == <<errors, finished, worker, item>>
vars == <<closed, queueVars, workerVars, caller, closer, drained>>

Accepted  == {r \in Requests : caller[r] = "accepted"}
Processed == finished \cup errors
Waiting   == {queue[i] : i \in DOMAIN queue}

Init ==
    /\ closed = FALSE
    /\ queue = <<>>
    /\ unfinished = 0
    /\ errors = {}
    /\ finished = {}
    /\ worker = "waiting"
    /\ item = Sentinel
    /\ caller = [r \in Requests |-> "idle"]
    /\ closer = [k \in Closers |-> "idle"]
    /\ drained = [k \in Closers |-> {}]

-----------------------------------------------------------------------------
(* dispatch *)

Dispatch(r) ==
    /\ caller[r] = "idle"
    /\ caller' = [caller EXCEPT ![r] = IF closed THEN "refused" ELSE "open"]
    /\ UNCHANGED <<closed, queueVars, workerVars, closer, drained>>

\* Queue.put_nowait.
Put(x) ==
    /\ queue' = Append(queue, x)
    /\ unfinished' = unfinished + 1
Full == Len(queue) = MaxSize

PutRequest(r) ==
    /\ caller[r] = "open"
    /\ IF Full
       THEN caller' = [caller EXCEPT ![r] = "refused"] /\ UNCHANGED queueVars
       ELSE caller' = [caller EXCEPT ![r] = "accepted"] /\ Put(r)
    /\ UNCHANGED <<closed, workerVars, closer, drained>>

-----------------------------------------------------------------------------
(* close *)

Move(k, l) == closer' = [closer EXCEPT ![k] = l]

Close(k) ==
    /\ closer[k] = "idle"
    /\ Move(k, IF closed THEN "returned" ELSE "draining")
    /\ UNCHANGED <<closed, queueVars, workerVars, caller, drained>>

\* join() sees that no task is unfinished.
SeeDrained(k) ==
    /\ closer[k] = "draining"
    /\ unfinished = 0
    /\ Move(k, "drained")
    /\ drained' = [drained EXCEPT ![k] = Accepted]
    /\ UNCHANGED <<closed, queueVars, workerVars, caller>>

\* Mutant: join() has no deadline.
BugDrainTimeout(k) ==
    /\ closer[k] = "draining"
    /\ unfinished # 0
    /\ UNCHANGED vars

DrainTimeout(k) ==
    /\ closer[k] = "draining"
    /\ unfinished # 0
    /\ Move(k, "raised")
    /\ UNCHANGED <<closed, queueVars, workerVars, caller, drained>>

\* Mutant: the errors are not looked at.
BugCheckErrors(k) ==
    /\ closer[k] = "drained"
    /\ Move(k, "closing")
    /\ UNCHANGED <<closed, queueVars, workerVars, caller, drained>>

\* join() raises if the worker has failed; otherwise close() goes on.
CheckErrors(k) ==
    /\ closer[k] = "drained"
    /\ Move(k, IF errors = {} THEN "closing" ELSE "raised")
    /\ UNCHANGED <<closed, queueVars, workerVars, caller, drained>>

SetClosed(k) ==
    /\ closer[k] = "closing"
    /\ closed' = TRUE
    /\ Move(k, "stopping")
    /\ UNCHANGED <<queueVars, workerVars, caller, drained>>

PutSentinel(k) ==
    /\ closer[k] = "stopping"
    /\ IF Full THEN Move(k, "raised") /\ UNCHANGED queueVars
               ELSE Move(k, "joining") /\ Put(Sentinel)
    /\ UNCHANGED <<closed, workerVars, caller, drained>>

\* Thread.join returns, or gives up.
JoinThread(k) ==
    /\ closer[k] = "joining"
    /\ worker = "stopped"
    /\ Move(k, "stoppedWorker")
    /\ UNCHANGED <<closed, queueVars, workerVars, caller, drained>>

StopTimeout(k) ==
    /\ closer[k] = "joining"
    /\ worker # "stopped"
    /\ Move(k, "raised")
    /\ UNCHANGED <<closed, queueVars, workerVars, caller, drained>>

-----------------------------------------------------------------------------
(* _run *)

Get ==
    /\ worker = "waiting"
    /\ queue # <<>>
    /\ item' = Head(queue)
    /\ queue' = Tail(queue)
    /\ worker' = "holding"
    /\ UNCHANGED <<closed, unfinished, errors, finished, caller, closer, drained>>

\* The worker callable returns, or its exception is recorded.
Work ==
    /\ worker = "holding"
    /\ item # Sentinel
    /\ \/ finished' = finished \cup {item} /\ UNCHANGED errors
       \/ WorkerFails /\ errors' = errors \cup {item} /\ UNCHANGED finished
    /\ worker' = "worked"
    /\ UNCHANGED <<closed, queueVars, item, caller, closer, drained>>

\* Mutant: a worker that failed once stops.
BugTaskDone ==
    /\ worker = "worked" \/ (worker = "holding" /\ item = Sentinel)
    /\ unfinished' = unfinished - 1
    /\ worker' = IF worker = "worked" /\ item \notin errors THEN "waiting" ELSE "stopped"
    /\ UNCHANGED <<closed, queue, errors, finished, item, caller, closer, drained>>

\* task_done() in the `finally`; the sentinel ends the thread.
TaskDone ==
    /\ worker = "worked" \/ (worker = "holding" /\ item = Sentinel)
    /\ unfinished' = unfinished - 1
    /\ worker' = IF worker = "worked" THEN "waiting" ELSE "stopped"
    /\ UNCHANGED <<closed, queue, errors, finished, item, caller, closer, drained>>

-----------------------------------------------------------------------------
RunWorker == Get \/ Work \/ TaskDone

CloseStep(k) ==
    \/ SeeDrained(k)
    \/ DrainTimeout(k)
    \/ CheckErrors(k)
    \/ SetClosed(k)
    \/ PutSentinel(k)
    \/ JoinThread(k)
    \/ StopTimeout(k)

Next ==
    \/ \E r \in Requests : Dispatch(r) \/ PutRequest(r)
    \/ \E k \in Closers : Close(k) \/ CloseStep(k)
    \/ RunWorker

Spec == Init /\ [][Next]_vars

\* Threads go on; the worker callable returns or raises.
FairSpec == Spec /\ WF_vars(RunWorker) /\ \A k \in Closers : WF_vars(CloseStep(k))

-----------------------------------------------------------------------------
Outcomes == {"returned", "raised", "stoppedWorker"}

TypeOK ==
    /\ closed \in BOOLEAN
    /\ queue \in Seq(Requests \cup {Sentinel})
    /\ unfinished \in Nat
    /\ errors \subseteq Requests
    /\ finished \subseteq Requests
    /\ worker \in {"waiting", "holding", "worked", "stopped"}
    /\ item \in Requests \cup {Sentinel}
    /\ caller \in [Requests -> {"idle", "open", "accepted", "refused"}]
    /\ closer \in [Closers -> {"idle", "draining", "drained", "closing", "stopping", "joining"}
                              \cup Outcomes]
    /\ drained \in [Closers -> SUBSET Requests]

\* What the worker holds, or has held and not yet counted.
InHand == IF worker \in {"holding", "worked"} THEN 1 ELSE 0

\* join() counts what is queued or in hand, and a request is in one place only from its
\* acceptance until it has been processed: what makes DrainedIsDone inductive.
Books ==
    /\ unfinished = Len(queue) + InHand
    /\ \A i, j \in DOMAIN queue : queue[i] = queue[j] => i = j \/ queue[i] = Sentinel
    /\ \A i \in DOMAIN queue : queue[i] # Sentinel => queue[i] \in Accepted \ Processed
    /\ worker = "holding" /\ item # Sentinel => item \in Accepted \ (Processed \cup Waiting)
    /\ worker = "worked" => item \in Processed
    /\ \A r \in Accepted \ Processed : r \in Waiting \/ (worker = "holding" /\ item = r)
    /\ Processed \subseteq Accepted
    /\ errors \cap finished = {}

\* "Wait until all accepted queue items have finished or fail closed": what had been
\* accepted when close() saw the queue drained has been processed, and when close() goes on
\* to stop the worker none of it had failed.
DrainedIsDone ==
    \A k \in Closers :
        /\ drained[k] \subseteq Processed
        /\ closer[k] \in {"closing", "stopping", "joining", "stoppedWorker"}
              => drained[k] \cap errors = {}

\* The worker survives the exceptions of its callable: only a close() stops it, one that
\* found no error.
WorkerOutlivesErrors ==
    worker = "stopped" =>
        \E k \in Closers : closed /\ closer[k] \in {"joining", "raised", "stoppedWorker"}

\* Every accepted request is processed in the end unless the worker has been stopped.
AcceptedIsProcessed ==
    \A r \in Requests : caller[r] = "accepted" ~> r \in Processed \/ worker = "stopped"

\* close() ends: with the worker stopped, or with an exception.
CloseEnds == \A k \in Closers : closer[k] = "draining" ~> closer[k] \in Outcomes

\* What is queued, in hand and counted, and that only close() stops the worker.
QueueInv == TypeOK /\ Books /\ WorkerOutlivesErrors

\* The drain ends, for every accepted request and every closer.
DrainEnds == AcceptedIsProcessed /\ CloseEnds
=============================================================================
