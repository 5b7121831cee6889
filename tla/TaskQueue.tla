------------------------------ MODULE TaskQueue ------------------------------
(***************************************************************************)
(* The extraction queue of AIngram: the rows of task_queue, the engine     *)
(* operations on them, and the BackgroundWorker threads that serve them.   *)
(*                                                                         *)
(* An engine is one StorageEngine: a connection and the lock that its      *)
(* threads share.  Two engines on one file (two processes, or a store and  *)
(* the extract command) share the rows but not the lock.  dequeue_task     *)
(* reads the oldest pending row and then updates it: two statements under  *)
(* the engine's lock, and for another engine two separate moments, since   *)
(* the SELECT starts no transaction.  A statement with its commit is one   *)
(* step.                                                                   *)
(***************************************************************************)
EXTENDS Naturals, FiniteSets

CONSTANTS
  Engines,       (* open StorageEngine objects                             *)
  Workers,       (* worker threads                                         *)
  EngineOf,      (* EngineOf[w]: the engine worker w polls                 *)
  LinksFollow,   (* extractions may enqueue link_graph_v3 (an LLM is set)  *)
  MaxTasks,      (* bound: rows of task_queue                              *)
  MaxMishaps,    (* bound: stops, crashes and failing statements           *)
  MaxResets      (* bound: calls of reset_completed_extract_tasks          *)

ASSUME EngineOfType == EngineOf \in [Workers -> Engines]
ASSUME WorkersType == IsFiniteSet(Workers) /\ "free" \notin Workers
ASSUME FlagsType == LinksFollow \in BOOLEAN
ASSUME BoundsType == MaxTasks \in Nat /\ MaxMishaps \in Nat /\ MaxResets \in Nat

VARIABLES
  kind,       (* kind[i]: task_type of row i, "none" while there is no row *)
  status,     (* status[i]: status of row i                                *)
  lock,       (* lock[e]: the worker inside dequeue_task, or "free"        *)
  up,         (* up[e]: the engine's connection is open                    *)
  stopping,   (* stopping[e]: the workers' _stop_event                     *)
  pc,         (* pc[w]: where worker w is                                  *)
  held,       (* held[w]: the row worker w has read or claimed, 0 for none *)
  mishaps,    (* stops, crashes and failing statements so far              *)
  resets      (* resets so far                                             *)

rows == <<kind, status>>
engines == <<lock, up, stopping>>
workers == <<pc, held>>
bounds == <<mishaps, resets>>
vars == <<kind, status, lock, up, stopping, pc, held, mishaps, resets>>

-----------------------------------------------------------------------------
(* Rows are numbered in the order of their INSERT: every enqueue in the    *)
(* package leaves priority at 0, so ORDER BY created_at is this order.     *)
Tasks == 1..MaxTasks
Pending == {i \in Tasks : status[i] = "pending"}
Absent == {i \in Tasks : status[i] = "absent"}
First(S) == CHOOSE i \in S : \A j \in S : i <= j

Steps == {"loop", "dequeue", "selected", "claimed", "linking", "completing",
          "failing", "exited", "dead"}
Statuses == {"absent", "pending", "claimed", "completed", "failed"}

(* Between claim and complete/fail: inside _execute_task.                  *)
Executing == {"claimed", "linking", "completing", "failing"}
Gone == {"exited", "dead"}

Free(e) == lock[e] = "free"

(* The bound on rows: each worker about to enqueue a link task has one.    *)
Room == Cardinality({w \in Workers : pc[w] = "linking"}) < Cardinality(Absent)

(* A statement of engine e raises: the connection is closed, or SQLite     *)
(* gives up (locked beyond its timeout, disk error).                       *)
Mishap == mishaps < MaxMishaps /\ mishaps' = mishaps + 1
Raises(e) == IF up[e] THEN Mishap ELSE UNCHANGED mishaps

Goto(w, step) == pc' = [pc EXCEPT ![w] = step]
Leave(w, step) == Goto(w, step) /\ held' = [held EXCEPT ![w] = 0]

Insert(k) ==
  /\ kind' = [kind EXCEPT ![First(Absent)] = k]
  /\ status' = [status EXCEPT ![First(Absent)] = "pending"]

Init ==
  /\ kind = [i \in Tasks |-> "none"]
  /\ status = [i \in Tasks |-> "absent"]
  /\ lock = [e \in Engines |-> "free"]
  /\ up = [e \in Engines |-> TRUE]
  /\ stopping = [e \in Engines |-> FALSE]
  /\ pc = [w \in Workers |-> "loop"]
  /\ held = [w \in Workers |-> 0]
  /\ mishaps = 0
  /\ resets = 0

(* remember() of some process: enqueue_task takes the engine's lock.       *)
EnqueueExtract(e) ==
  /\ up[e] /\ Free(e)
  /\ Absent # {} /\ Room
  /\ Insert("extract")
  /\ UNCHANGED <<engines, workers, bounds>>

(* The extract command queues completed extractions again.                 *)
ResetCompleted(e) ==
  /\ up[e] /\ Free(e)
  /\ resets < MaxResets
  /\ resets' = resets + 1
  /\ status' = [i \in Tasks |-> IF kind[i] = "extract" /\ status[i] = "completed"
                                THEN "pending" ELSE status[i]]
  /\ UNCHANGED <<kind, engines, workers, mishaps>>

(* The worker loop: the stop event is looked at between tasks only.        *)
CheckStop(w) ==
  /\ pc[w] = "loop"
  /\ Goto(w, IF stopping[EngineOf[w]] THEN "exited" ELSE "dequeue")
  /\ UNCHANGED <<rows, engines, held, bounds>>

(* Slip: ORDER BY created_at DESC.                                         *)
SelectTaskNewest(w) ==
  /\ pc[w] = "dequeue"
  /\ up[EngineOf[w]] /\ Free(EngineOf[w])
  /\ IF Pending = {}
     THEN Goto(w, "loop") /\ UNCHANGED <<held, lock>>
     ELSE /\ Goto(w, "selected")
          /\ held' = [held EXCEPT ![w] = CHOOSE i \in Pending : \A j \in Pending : j <= i]
          /\ lock' = [lock EXCEPT ![EngineOf[w]] = w]
  /\ UNCHANGED <<rows, up, stopping, bounds>>

(* Slip: dequeue_task does not take the lock.                              *)
SelectTaskUnlocked(w) ==
  /\ pc[w] = "dequeue"
  /\ up[EngineOf[w]]
  /\ IF Pending = {}
     THEN Goto(w, "loop") /\ UNCHANGED <<held, lock>>
     ELSE /\ Goto(w, "selected")
          /\ held' = [held EXCEPT ![w] = First(Pending)]
          /\ UNCHANGED lock
  /\ UNCHANGED <<rows, up, stopping, bounds>>

(* dequeue_task, the SELECT: None sends the worker back to its loop.       *)
SelectTask(w) ==
  /\ pc[w] = "dequeue"
  /\ up[EngineOf[w]] /\ Free(EngineOf[w])
  /\ IF Pending = {}
     THEN Goto(w, "loop") /\ UNCHANGED <<held, lock>>
     ELSE /\ Goto(w, "selected")
          /\ held' = [held EXCEPT ![w] = First(Pending)]
          /\ lock' = [lock EXCEPT ![EngineOf[w]] = w]
  /\ UNCHANGED <<rows, up, stopping, bounds>>

(* dequeue_task, the UPDATE: by id alone, whatever the status is by now.   *)
ClaimTask(w) ==
  /\ pc[w] = "selected"
  /\ status' = [status EXCEPT ![held[w]] = "claimed"]
  /\ lock' = [lock EXCEPT ![EngineOf[w]] = "free"]
  /\ Goto(w, "claimed")
  /\ UNCHANGED <<kind, up, stopping, held, bounds>>

(* Slip: an exception leaves the lock held.                                *)
DequeueFailsLocked(w) ==
  /\ \/ pc[w] = "dequeue" /\ Free(EngineOf[w])
     \/ pc[w] = "selected"
  /\ Raises(EngineOf[w])
  /\ Leave(w, "dead")
  /\ UNCHANGED lock
  /\ UNCHANGED <<rows, up, stopping, resets>>

(* An error of dequeue_task is outside _execute_task's try: it ends the    *)
(* thread, and nothing starts it again.                                    *)
DequeueFails(w) ==
  /\ \/ pc[w] = "dequeue" /\ Free(EngineOf[w])
     \/ pc[w] = "selected"
  /\ Raises(EngineOf[w])
  /\ Leave(w, "dead")
  /\ lock' = [lock EXCEPT ![EngineOf[w]] = IF @ = w THEN "free" ELSE @]
  /\ UNCHANGED <<rows, up, stopping, resets>>

(* The handlers.  An extraction that finds two names goes on to enqueue a  *)
(* link task; a missing entry, or an LLM that does not answer, counts as   *)
(* done; everything else that raises fails the task.                       *)
RunHandler(w) ==
  /\ pc[w] = "claimed"
  /\ \/ up[EngineOf[w]] /\ Goto(w, "completing")
     \/ Goto(w, "failing")
     \/ /\ up[EngineOf[w]] /\ LinksFollow /\ kind[held[w]] = "extract" /\ Room
        /\ Goto(w, "linking")
  /\ UNCHANGED <<rows, engines, held, bounds>>

(* Slip: the task that enqueued a link task is not completed.              *)
EnqueueLinkReturns(w) ==
  /\ pc[w] = "linking"
  /\ \/ /\ up[EngineOf[w]] /\ Free(EngineOf[w])
        /\ UNCHANGED mishaps
        /\ Absent # {}
        /\ Insert("link")
        /\ Leave(w, "loop")
     \/ /\ Raises(EngineOf[w])
        /\ Goto(w, "failing") /\ UNCHANGED held
        /\ UNCHANGED rows
  /\ UNCHANGED <<engines, resets>>

EnqueueLink(w) ==
  /\ pc[w] = "linking"
  /\ \/ /\ up[EngineOf[w]] /\ Free(EngineOf[w])
        /\ UNCHANGED mishaps
        /\ Absent # {}
        /\ Insert("link")
        /\ Goto(w, "completing")
     \/ /\ Raises(EngineOf[w])
        /\ Goto(w, "failing")
        /\ UNCHANGED rows
  /\ UNCHANGED <<engines, held, resets>>

(* complete_task; when it raises, the task is failed instead.              *)
CompleteTask(w) ==
  /\ pc[w] = "completing"
  /\ \/ /\ up[EngineOf[w]] /\ Free(EngineOf[w])
        /\ UNCHANGED mishaps
        /\ status' = [status EXCEPT ![held[w]] = "completed"]
        /\ Leave(w, "loop")
     \/ /\ Raises(EngineOf[w])
        /\ Goto(w, "failing")
        /\ UNCHANGED <<status, held>>
  /\ UNCHANGED <<kind, engines, resets>>

(* fail_task; when it raises too, nothing catches it: the thread ends.     *)
FailTask(w) ==
  /\ pc[w] = "failing"
  /\ \/ /\ up[EngineOf[w]] /\ Free(EngineOf[w])
        /\ UNCHANGED mishaps
        /\ status' = [status EXCEPT ![held[w]] = "failed"]
        /\ Leave(w, "loop")
     \/ /\ Raises(EngineOf[w])
        /\ Leave(w, "dead")
        /\ UNCHANGED status
  /\ UNCHANGED <<kind, engines, resets>>

(* stop() sets the event and waits five seconds; then, done or not, the    *)
(* engine is closed under its lock.                                        *)
Stop(e) ==
  /\ up[e] /\ ~stopping[e]
  /\ Mishap
  /\ stopping' = [stopping EXCEPT ![e] = TRUE]
  /\ UNCHANGED <<rows, lock, up, workers, resets>>

Close(e) ==
  /\ up[e] /\ stopping[e] /\ Free(e)
  /\ up' = [up EXCEPT ![e] = FALSE]
  /\ UNCHANGED <<rows, lock, stopping, workers, bounds>>

(* The process dies at any point; SQLite rolls an open transaction back.   *)
Crash(e) ==
  /\ up[e]
  /\ Mishap
  /\ up' = [up EXCEPT ![e] = FALSE]
  /\ lock' = [lock EXCEPT ![e] = "free"]
  /\ pc' = [w \in Workers |-> IF EngineOf[w] = e THEN "dead" ELSE pc[w]]
  /\ held' = [w \in Workers |-> IF EngineOf[w] = e THEN 0 ELSE held[w]]
  /\ UNCHANGED <<rows, stopping, resets>>

(* A new process opens the file and starts its workers.                    *)
Start(e) ==
  /\ ~up[e]
  /\ \A w \in Workers : EngineOf[w] = e => pc[w] \in Gone
  /\ up' = [up EXCEPT ![e] = TRUE]
  /\ stopping' = [stopping EXCEPT ![e] = FALSE]
  /\ pc' = [w \in Workers |-> IF EngineOf[w] = e THEN "loop" ELSE pc[w]]
  /\ UNCHANGED <<rows, lock, held, bounds>>

WorkerStep(w) ==
  \/ CheckStop(w)
  \/ SelectTask(w)
  \/ ClaimTask(w)
  \/ DequeueFails(w)
  \/ RunHandler(w)
  \/ EnqueueLink(w)
  \/ CompleteTask(w)
  \/ FailTask(w)

Next ==
  \/ \E e \in Engines : \/ EnqueueExtract(e)
                        \/ ResetCompleted(e)
                        \/ Stop(e)
                        \/ Close(e)
                        \/ Crash(e)
                        \/ Start(e)
  \/ \E w \in Workers : WorkerStep(w)

Spec == Init /\ [][Next]_vars

(* A running thread is scheduled; a stopped process ends and is started    *)
(* again; nothing forces a task to be enqueued or a process to be stopped. *)
Fairness ==
  /\ \A w \in Workers : WF_vars(WorkerStep(w))
  /\ \A e \in Engines : WF_vars(Start(e)) /\ WF_vars(Close(e))

FairSpec == Spec /\ Fairness

-----------------------------------------------------------------------------
TypeOK ==
  /\ kind \in [Tasks -> {"none", "extract", "link"}]
  /\ status \in [Tasks -> Statuses]
  /\ \A i \in Tasks : kind[i] = "none" <=> status[i] = "absent"
  /\ lock \in [Engines -> Workers \cup {"free"}]
  /\ up \in [Engines -> BOOLEAN]
  /\ stopping \in [Engines -> BOOLEAN]
  /\ pc \in [Workers -> Steps]
  /\ held \in [Workers -> Tasks \cup {0}]
  /\ \A w \in Workers : held[w] # 0 <=> pc[w] \in Executing \cup {"selected"}
  /\ mishaps \in 0..MaxMishaps
  /\ resets \in 0..MaxResets

OneEngine == \A v, w \in Workers : EngineOf[v] = EngineOf[w]

(* dequeue_task's "Atomically claim": no two workers execute one task.     *)
(* Across stops, crashes, errors and resets this is what the engine's lock *)
(* gives the workers of one engine (worker.py, engine.py dequeue_task).    *)
ExclusiveClaim ==
  \A v, w \in Workers :
    pc[v] \in Executing /\ pc[w] \in Executing /\ held[v] = held[w] => v = w

(* Until something is stopped or fails, a claimed row always has a worker  *)
(* that will finish it: get_incomplete_task_count, the number of pending   *)
(* and claimed rows, then counts work that is really under way.            *)
ClaimedHasWorker ==
  mishaps = 0 =>
    \A i \in Tasks : status[i] = "claimed" =>
      \E w \in Workers : held[w] = i /\ pc[w] \in Executing

(* Every task is executed to the end, also those enqueued by other tasks   *)
(* and those queued again, unless something is stopped or fails: what      *)
(* drain() and the pollers wait for.                                       *)
EventuallyFinished ==
  \A i \in Tasks :
    status[i] = "pending" ~> status[i] \in {"completed", "failed"} \/ mishaps # 0

Unserved == \A w \in Workers : pc[w] = "dead" /\ up[EngineOf[w]]

(* Across stops, crashes and restarts, and also when a worker dies inside  *)
(* dequeue_task, a pending task is taken up at some point: no stop leaves  *)
(* the workers asleep and no dead worker keeps the lock.  Only when errors *)
(* of dequeue_task have ended every thread is nobody left to take it.      *)
EventuallyTaken ==
  \A i \in Tasks :
    status[i] = "pending" ~> status[i] # "pending" \/ Unserved

Atomic == INSTANCE ClaimQueue

(* With the two statements, the locks, stops, crashes and errors, the rows *)
(* change as if dequeue_task claimed the oldest pending task at once.      *)
ImplementsClaimQueue == Atomic!Spec

=============================================================================
