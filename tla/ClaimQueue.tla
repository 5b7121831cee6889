----------------------------- MODULE ClaimQueue -----------------------------
(***************************************************************************)
(* What dequeue_task's docstring promises of task_queue: a task is claimed *)
(* in one atomic step, the first pending one, and a claimed task belongs   *)
(* to whoever claimed it until it is completed or failed.                  *)
(***************************************************************************)
EXTENDS Naturals

CONSTANT Tasks   (* task ids, in the order of created_at                   *)

VARIABLES kind, status

Pending == {i \in Tasks : status[i] = "pending"}

Init ==
  /\ kind = [i \in Tasks |-> "none"]
  /\ status = [i \in Tasks |-> "absent"]

Add(i, k) ==
  /\ status[i] = "absent"
  /\ \A j \in Tasks : j < i => status[j] # "absent"
  /\ kind' = [kind EXCEPT ![i] = k]
  /\ status' = [status EXCEPT ![i] = "pending"]

Take(i) ==
  /\ i \in Pending
  /\ \A j \in Pending : i <= j
  /\ status' = [status EXCEPT ![i] = "claimed"]
  /\ UNCHANGED kind

Finish(i, result) ==
  /\ status[i] = "claimed"
  /\ status' = [status EXCEPT ![i] = result]
  /\ UNCHANGED kind

(* The one way back: completed extractions are queued again, all of them.  *)
Requeue ==
  /\ status' = [i \in Tasks |-> IF kind[i] = "extract" /\ status[i] = "completed"
                                THEN "pending" ELSE status[i]]
  /\ UNCHANGED kind

Next ==
  \/ \E i \in Tasks :
       \/ \E k \in {"extract", "link"} : Add(i, k)
       \/ Take(i)
       \/ \E result \in {"completed", "failed"} : Finish(i, result)
  \/ Requeue

Spec == Init /\ [][Next]_<<kind, status>>

=============================================================================
