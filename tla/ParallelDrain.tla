---------------------------- MODULE ParallelDrain ----------------------------
(***************************************************************************)
(* BackgroundWorker.drain with several workers: the calling thread polls   *)
(* the number of active workers and of pending tasks, and stops the pool   *)
(* once both were zero before and after a pause.  The two numbers are read *)
(* one after the other, and a worker counts itself as active only some     *)
(* time after dequeue_task took the task out of the pending ones.          *)
(***************************************************************************)
EXTENDS TaskQueue

CONSTANT
  WindowBounded  (* timing: that time is shorter than one poll interval    *)

ASSUME WindowType == WindowBounded \in BOOLEAN

VARIABLES
  main,       (* where the thread in drain() is                            *)
  seen,       (* the number of active workers it read last                 *)
  active,     (* state['active']                                           *)
  done,       (* state['done']                                             *)
  tally,      (* tally[w]: how far worker w's task is counted              *)
  localStop,  (* the local_stop event                                      *)
  late,       (* workers that had claimed but not counted when the pause   *)
              (* began                                                     *)
  due         (* history: the tasks this drain has to finish               *)

counters == <<active, done, tally>>
caller == <<main, seen, localStop, late>>
drainVars == <<main, seen, active, done, tally, localStop, late, due>>
allVars == <<vars, drainVars>>

MainSteps == {"before", "top", "active1", "pending1", "settle", "active2",
              "pending2", "join", "unwind", "returned", "raised"}

(* Claimed, not counted yet.                                               *)
Window == {w \in Workers : pc[w] \in Executing /\ tally[w] = "none"}

DrainInit ==
  /\ Init
  /\ main = "before"
  /\ seen = 0
  /\ active = 0
  /\ done = 0
  /\ tally = [w \in Workers |-> "none"]
  /\ localStop = FALSE
  /\ late = {}
  /\ due = {}

-----------------------------------------------------------------------------
(* Tasks come from other callers of the store, before and during a drain.  *)
Submit(e) == EnqueueExtract(e) /\ UNCHANGED drainVars

StopDrain(e) == Stop(e) /\ UNCHANGED drainVars

(* worker_fn looks at both events, then dequeues.                          *)
CheckStops(w) ==
  /\ main # "before"
  /\ pc[w] = "loop" /\ tally[w] = "none"
  /\ Goto(w, IF localStop \/ stopping[EngineOf[w]] THEN "exited" ELSE "dequeue")
  /\ UNCHANGED <<rows, engines, held, bounds, drainVars>>

Dequeue(w) ==
  /\ SelectTask(w) \/ ClaimTask(w) \/ DequeueFails(w)
  /\ UNCHANGED drainVars

CountIn(w) ==
  /\ pc[w] = "claimed" /\ tally[w] = "none"
  /\ active' = active + 1
  /\ tally' = [tally EXCEPT ![w] = "active"]
  /\ late' = late \ {w}
  /\ UNCHANGED <<vars, main, seen, done, localStop, due>>

(* _execute_task; a follow-up of a task that is due is due as well.        *)
Execute(w) ==
  /\ tally[w] = "active"
  /\ RunHandler(w) \/ EnqueueLink(w) \/ CompleteTask(w) \/ FailTask(w)
  /\ due' = IF held[w] \in due
            THEN due \cup {i \in Tasks : status[i] = "absent" /\ status'[i] # "absent"}
            ELSE due
  /\ UNCHANGED <<caller, counters>>

(* After _execute_task returned: counted as done, then as inactive, each   *)
(* under state_lock.  The finally clause also runs when it raised.         *)
CountDone(w) ==
  /\ pc[w] = "loop" /\ tally[w] = "active"
  /\ done' = done + 1
  /\ tally' = [tally EXCEPT ![w] = "done"]
  /\ UNCHANGED <<vars, caller, active, due>>

CountOut(w) ==
  /\ tally[w] = "done" \/ (tally[w] = "active" /\ pc[w] = "dead")
  /\ active' = active - 1
  /\ tally' = [tally EXCEPT ![w] = "none"]
  /\ UNCHANGED <<vars, caller, done, due>>

-----------------------------------------------------------------------------
(* drain() is called on whatever the queue then holds.                     *)
Begin ==
  /\ main = "before"
  /\ main' = "top"
  /\ due' = {i \in Tasks : status[i] # "absent"}
  /\ UNCHANGED <<vars, seen, localStop, late, counters>>

(* Slip: local_stop is not set.                                            *)
StopPoolSilently == main' = "join" /\ UNCHANGED localStop

StopPool == main' = "join" /\ localStop' = TRUE

(* The head of the loop, then the sleep.                                   *)
Poll ==
  /\ main = "top"
  /\ IF \E e \in Engines : stopping[e]
     THEN StopPool
     ELSE main' = "active1" /\ UNCHANGED localStop
  /\ UNCHANGED <<vars, seen, late, counters, due>>

ReadActive ==
  /\ \/ main = "active1" /\ main' = "pending1"
     \/ main = "active2" /\ main' = "pending2"
  /\ seen' = active
  /\ UNCHANGED <<vars, localStop, late, counters, due>>

(* Slip: the pool is stopped without a second look.                        *)
ReadPendingOnce ==
  /\ main = "pending1"
  /\ IF seen = 0 /\ Pending = {}
     THEN StopPool
     ELSE main' = "top" /\ UNCHANGED localStop
  /\ UNCHANGED <<vars, seen, late, counters, due>>

ReadPending ==
  /\ main = "pending1"
  /\ IF seen = 0 /\ Pending = {}
     THEN main' = "settle" /\ late' = Window
     ELSE main' = "top" /\ UNCHANGED late
  /\ UNCHANGED <<vars, seen, localStop, counters, due>>

(* The pause of one poll interval.                                         *)
Settle ==
  /\ main = "settle"
  /\ WindowBounded => late = {}
  /\ main' = "active2"
  /\ UNCHANGED <<vars, seen, localStop, late, counters, due>>

ReadPendingAgain ==
  /\ main = "pending2"
  /\ IF seen = 0 /\ Pending = {}
     THEN StopPool
     ELSE main' = "top" /\ UNCHANGED localStop
  /\ UNCHANGED <<vars, seen, late, counters, due>>

(* get_pending_task_count raises: the finally clause stops the pool, and   *)
(* the exception leaves drain() once the pool is down.                     *)
ReadPendingFails ==
  /\ Mishap
  /\ main \in {"pending1", "pending2"}
  /\ main' = "unwind" /\ localStop' = TRUE
  /\ UNCHANGED <<rows, engines, workers, resets, seen, late, counters, due>>

(* f.result() of every worker: that of a dead one raises its exception.    *)
JoinPool ==
  /\ main \in {"join", "unwind"}
  /\ \A w \in Workers : pc[w] \in Gone /\ tally[w] = "none"
  /\ main' = IF main = "unwind" \/ \E w \in Workers : pc[w] = "dead"
             THEN "raised" ELSE "returned"
  /\ UNCHANGED <<vars, seen, localStop, late, counters, due>>

DrainWorkerStep(w) ==
  \/ CheckStops(w)
  \/ Dequeue(w)
  \/ CountIn(w)
  \/ Execute(w)
  \/ CountDone(w)
  \/ CountOut(w)

MainStep ==
  \/ Poll
  \/ ReadActive
  \/ ReadPending
  \/ Settle
  \/ ReadPendingAgain
  \/ ReadPendingFails
  \/ JoinPool

DrainNext ==
  \/ \E e \in Engines : Submit(e) \/ StopDrain(e)
  \/ \E w \in Workers : DrainWorkerStep(w)
  \/ Begin
  \/ MainStep

DrainSpec == DrainInit /\ [][DrainNext]_allVars

(* The threads of the pool and the calling thread are scheduled.           *)
DrainFairness ==
  /\ \A w \in Workers : WF_allVars(DrainWorkerStep(w))
  /\ WF_allVars(MainStep)

FairDrainSpec == DrainSpec /\ DrainFairness

-----------------------------------------------------------------------------
DrainTypeOK ==
  /\ TypeOK
  /\ main \in MainSteps
  /\ seen \in Nat /\ active \in Nat /\ done \in Nat
  /\ tally \in [Workers -> {"none", "active", "done"}]
  /\ localStop \in BOOLEAN
  /\ late \subseteq Workers
  /\ due \subseteq Tasks

Finished(i) == status[i] \in {"completed", "failed"}

(* It "returns the number of tasks processed": with no restart and no      *)
(* requeueing, exactly the finished rows.                                  *)
DoneCount == done = Cardinality({i \in Tasks : Finished(i)})

(* drain() "waits until both the pending queue AND all in-flight workers   *)
(* are idle" and counts what they did: whatever it returns is DoneCount,   *)
(* and unless it was told to stop, every task it found, and every          *)
(* follow-up of those, is finished when it returns (worker.py,             *)
(* _drain_parallel), whoever else enqueues meanwhile.                      *)
DrainComplete ==
  main = "returned" =>
    /\ DoneCount
    /\ (\A e \in Engines : ~stopping[e]) => \A i \in due : Finished(i)

(* drain() comes to an end, also when it is stopped or a statement fails,  *)
(* as long as one thread of its pool is alive: a pool whose threads have   *)
(* all died of dequeue errors leaves it polling.                           *)
DrainReturns ==
  main = "top" ~> main \in {"returned", "raised"} \/ \A w \in Workers : pc[w] = "dead"

=============================================================================
