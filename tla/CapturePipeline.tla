--------------------------- MODULE CapturePipeline ---------------------------
(***************************************************************************)
(* The capture daemon: threads that put captured exchanges into the        *)
(* capture queue (the HTTP server and the aider watcher), and the drain    *)
(* thread that moves them into the memory store in batches, stamps their   *)
(* governance columns and starts a consolidation every so many records.    *)
(* Queue and memory are two databases: no transaction spans both, and the  *)
(* daemon may stop or die between any two steps.                           *)
(***************************************************************************)
EXTENDS Naturals, FiniteSets

CONSTANTS
  Sources,      (* threads that insert: the server's event loop, watchers  *)
  Prompts,      (* user prompts                                            *)
  Responses,    (* assistant responses                                     *)
  Secrets,      (* prompts in which the gate finds a secret                *)
  BatchSize,    (* drain_batch_size                                        *)
  Interval,     (* consolidation_interval_records, 0 for never             *)
  MaxRows,      (* bound: rows of capture_queue                            *)
  MaxRestarts,  (* bound: stops and crashes of the daemon                  *)
  MaxFailures   (* bound: database operations and consolidations that fail *)

ASSUME CaptureConstants ==
  /\ IsFiniteSet(Sources) /\ Secrets \subseteq Prompts
  /\ BatchSize \in Nat \ {0} /\ Interval \in Nat
  /\ MaxRows \in Nat /\ MaxRestarts \in Nat /\ MaxFailures \in Nat

Rows == 1..MaxRows
Records == [prompt : Prompts, response : Responses]

VARIABLES
  state,      (* state[i]: the column, "absent" while there is no row i    *)
  record,     (* record[i]: what row i captured                            *)
  fresh,      (* rows within the dedup window                              *)
  toggle,     (* the tool's toggle is on                                   *)
  spc,        (* spc[s]: where source s is in its handler                  *)
  arrived,    (* arrived[s]: the record source s is handling               *)
  pc,         (* where the drain thread is                                 *)
  batch,      (* rows it has dequeued and not settled yet                  *)
  counter,    (* _records_since_consolidation, Unset for None              *)
  stopping,   (* the drain's _stop event                                   *)
  open,       (* the store's engine is open                                *)
  copies,     (* copies[i]: memory entries made from row i                 *)
  stamped,    (* rows whose entry has been stamped                         *)
  backlog,    (* history: entries stored since the last consolidation      *)
  restarts,   (* stops and crashes so far                                  *)
  failures    (* operations that failed so far                             *)

table == <<state, record, fresh>>
intake == <<toggle, spc, arrived>>
daemon == <<stopping, open, restarts>>
memory == <<copies, stamped, backlog>>
vars == <<state, record, fresh, toggle, spc, arrived, pc, batch, counter,
          stopping, open, copies, stamped, backlog, restarts, failures>>

Unset == MaxRows + 1   (* no counter reaches it: None                      *)
NoRecord == [prompt |-> "none", response |-> "none"]

DrainSteps == {"startup", "poll", "seed", "row", "blocked", "stamp", "done",
               "error", "consolidate", "exited", "dead", "down"}

(* One more operation fails; those on a closed store are refused.          *)
Fails == failures < MaxFailures /\ failures' = failures + 1
Refused == ~open /\ UNCHANGED failures

Least(S) == CHOOSE i \in S : \A j \in S : i <= j
InState(st) == {i \in Rows : state[i] = st}
Stored == {i \in Rows : copies[i] > 0}
Current == Least(batch)
Mark(i, st) == state' = [state EXCEPT ![i] = st]

Init ==
  /\ state = [i \in Rows |-> "absent"]
  /\ record = [i \in Rows |-> NoRecord]
  /\ fresh = {}
  /\ toggle = TRUE
  /\ spc = [s \in Sources |-> "idle"]
  /\ arrived = [s \in Sources |-> NoRecord]
  /\ pc = "startup"
  /\ batch = {}
  /\ counter = Unset
  /\ stopping = FALSE
  /\ open = TRUE
  /\ copies = [i \in Rows |-> 0]
  /\ stamped = {}
  /\ backlog = 0
  /\ restarts = 0
  /\ failures = 0

-----------------------------------------------------------------------------
(* The capture route: the toggle is read first, then the body is awaited.  *)
Receive(s, r) ==
  /\ pc # "down"
  /\ spc[s] = "idle" /\ toggle
  /\ spc' = [spc EXCEPT ![s] = "select"]
  /\ arrived' = [arrived EXCEPT ![s] = r]
  /\ UNCHANGED <<table, toggle, pc, batch, counter, daemon, failures, memory>>

Reply(s) ==
  /\ spc' = [spc EXCEPT ![s] = "idle"]
  /\ arrived' = [arrived EXCEPT ![s] = NoRecord]

(* Slip: only pending rows are looked at.                                  *)
DuplicatePending(r) == \E i \in fresh \cap InState("pending") : record[i].prompt = r.prompt

(* CaptureQueue.insert, the SELECT: a row of the window with this prompt.  *)
Duplicate(r) == \E i \in fresh : record[i].prompt = r.prompt

SelectDuplicate(s) ==
  /\ spc[s] = "select"
  /\ IF Duplicate(arrived[s])
     THEN Reply(s)
     ELSE spc' = [spc EXCEPT ![s] = "insert"] /\ UNCHANGED arrived
  /\ UNCHANGED <<table, toggle, pc, batch, counter, daemon, failures, memory>>

(* The INSERT, in a transaction of its own; when it fails, the exception   *)
(* ends the request and the record is gone.                                *)
InsertRow(s) ==
  /\ spc[s] = "insert"
  /\ \/ /\ InState("absent") # {}
        /\ LET i == Least(InState("absent")) IN
             /\ Mark(i, "pending")
             /\ record' = [record EXCEPT ![i] = arrived[s]]
             /\ fresh' = fresh \cup {i}
        /\ UNCHANGED failures
     \/ Fails /\ UNCHANGED table
  /\ Reply(s)
  /\ UNCHANGED <<toggle, pc, batch, counter, daemon, memory>>

SetToggle ==
  /\ toggle' = ~toggle
  /\ UNCHANGED <<table, spc, arrived, pc, batch, counter, daemon, failures, memory>>

WindowPasses ==
  /\ fresh # {}
  /\ fresh' = {}
  /\ UNCHANGED <<state, record, intake, pc, batch, counter, daemon, failures, memory>>

-----------------------------------------------------------------------------
(* unconsolidated_count(): consolidate() without an LLM merges nothing, so *)
(* every entry counts.                                                     *)
Unconsolidated == Cardinality(Stored)

Due(n) == Interval > 0 /\ n # Unset /\ n >= Interval

(* Slip: the counter starts from zero, not from the database.              *)
StartupFromZero ==
  /\ pc = "startup"
  /\ pc' = "poll"
  /\ counter' = 0
  /\ UNCHANGED <<table, intake, batch, daemon, failures, memory>>

(* _startup_consolidation_check; its errors are swallowed.                 *)
Startup ==
  /\ pc = "startup"
  /\ \/ /\ Interval > 0 /\ open
        /\ counter' = Unconsolidated
        /\ pc' = IF Due(Unconsolidated) THEN "consolidate" ELSE "poll"
        /\ UNCHANGED failures
     \/ /\ (Interval = 0 /\ UNCHANGED failures) \/ Fails \/ Refused
        /\ pc' = "poll"
        /\ UNCHANGED counter
  /\ UNCHANGED <<table, intake, batch, daemon, memory>>

(* dequeue_batch: the oldest rows, in one BEGIN IMMEDIATE transaction.     *)
FirstRows(S) == {i \in S : Cardinality({j \in S : j < i}) < BatchSize}

Dequeue ==
  /\ pc = "poll" /\ ~stopping
  /\ InState("pending") # {}
  /\ batch' = FirstRows(InState("pending"))
  /\ state' = [i \in Rows |-> IF i \in batch' THEN "processing" ELSE state[i]]
  /\ pc' = "seed"
  /\ UNCHANGED <<record, fresh, intake, counter, daemon, failures, memory>>

LeaveLoop ==
  /\ pc = "poll" /\ stopping
  /\ pc' = "exited"
  /\ UNCHANGED <<table, intake, batch, counter, daemon, failures, memory>>

SeedCounter ==
  /\ pc = "seed"
  /\ counter = Unset => open
  /\ counter' = IF counter = Unset THEN Unconsolidated ELSE counter
  /\ pc' = "row"
  /\ UNCHANGED <<table, intake, batch, daemon, failures, memory>>

(* What is outside the per-row try ends the thread: dequeue_batch, the     *)
(* counter's query, and mark_error in the except clause.                   *)
ThreadDies ==
  /\ \/ Fails /\ (pc = "error" \/ (pc = "poll" /\ ~stopping))
     \/ pc = "seed" /\ counter = Unset /\ (Fails \/ Refused)
  /\ pc' = "dead"
  /\ batch' = {}
  /\ UNCHANGED <<table, intake, counter, daemon, memory>>

(* The gate blocks a record with a secret.                                 *)
BlockRow ==
  /\ pc = "row"
  /\ record[Current].prompt \in Secrets
  /\ pc' = "blocked"
  /\ UNCHANGED <<table, intake, batch, counter, daemon, failures, memory>>

(* remember(), a transaction of the memory database.                       *)
StoreRow ==
  /\ pc = "row"
  /\ record[Current].prompt \notin Secrets
  /\ \/ /\ open
        /\ copies' = [copies EXCEPT ![Current] = @ + 1]
        /\ backlog' = backlog + 1
        /\ pc' = "stamp"
        /\ UNCHANGED failures
     \/ /\ Fails \/ Refused
        /\ pc' = "error"
        /\ UNCHANGED <<copies, backlog>>
  /\ UNCHANGED <<table, intake, batch, counter, daemon, stamped>>

(* Slip: a failed stamp does not fail the row.                             *)
StampRowSwallowing ==
  /\ pc = "stamp"
  /\ \/ open /\ stamped' = stamped \cup {Current} /\ UNCHANGED failures
     \/ (Fails \/ Refused) /\ UNCHANGED stamped
  /\ pc' = "done"
  /\ UNCHANGED <<table, intake, batch, counter, daemon, copies, backlog>>

(* set_governance, another transaction.                                    *)
StampRow ==
  /\ pc = "stamp"
  /\ \/ open /\ stamped' = stamped \cup {Current} /\ pc' = "done" /\ UNCHANGED failures
     \/ (Fails \/ Refused) /\ pc' = "error" /\ UNCHANGED stamped
  /\ UNCHANGED <<table, intake, batch, counter, daemon, copies, backlog>>

(* The next row of the batch, or what follows the batch.                   *)
Settle(n) ==
  /\ batch' = batch \ {Current}
  /\ counter' = n
  /\ pc' = IF batch' # {} THEN "row" ELSE IF Due(n) THEN "consolidate" ELSE "poll"

(* A step inside the per-row try that raises leaves the row to mark_error. *)
RowFails == Fails /\ pc' = "error" /\ UNCHANGED <<state, batch, counter>>

MarkBlocked ==
  /\ pc = "blocked"
  /\ \/ Mark(Current, "error") /\ Settle(counter) /\ UNCHANGED failures
     \/ RowFails
  /\ UNCHANGED <<record, fresh, intake, daemon, memory>>

MarkDone ==
  /\ pc = "done"
  /\ \/ Mark(Current, "done") /\ Settle(counter + 1) /\ UNCHANGED failures
     \/ RowFails
  /\ UNCHANGED <<record, fresh, intake, daemon, memory>>

(* Slip: a failed row is logged and not marked.                            *)
MarkErrorSkipped ==
  /\ pc = "error"
  /\ Settle(counter)
  /\ UNCHANGED <<table, intake, daemon, failures, memory>>

MarkError ==
  /\ pc = "error"
  /\ Mark(Current, "error")
  /\ Settle(counter)
  /\ UNCHANGED <<record, fresh, intake, daemon, failures, memory>>

(* consolidate() and the reset of the counter; a failure keeps the counter *)
(* and is tried again after the next batch.                                *)
Consolidate ==
  /\ pc = "consolidate"
  /\ \/ open /\ counter' = 0 /\ backlog' = 0 /\ UNCHANGED failures
     \/ (Fails \/ Refused) /\ UNCHANGED <<counter, backlog>>
  /\ pc' = "poll"
  /\ UNCHANGED <<table, intake, batch, daemon, copies, stamped>>

-----------------------------------------------------------------------------
(* The end of run_daemon: the drain is told to stop, waited for at most    *)
(* five seconds, and the store is closed whether it has finished or not.   *)
StopDaemon ==
  /\ pc # "down" /\ ~stopping
  /\ restarts < MaxRestarts
  /\ restarts' = restarts + 1
  /\ stopping' = TRUE
  /\ UNCHANGED <<table, intake, pc, batch, counter, open, failures, memory>>

CloseStore ==
  /\ stopping /\ open
  /\ open' = FALSE
  /\ UNCHANGED <<table, intake, pc, batch, counter, stopping, restarts, failures, memory>>

(* The process ends: after the store is closed, or by a crash.             *)
Down ==
  /\ pc' = "down"
  /\ batch' = {}
  /\ spc' = [s \in Sources |-> "idle"]
  /\ arrived' = [s \in Sources |-> NoRecord]
  /\ UNCHANGED <<table, toggle, counter, stopping, open, failures, memory>>

Exit == pc # "down" /\ ~open /\ Down /\ UNCHANGED restarts

Crash ==
  /\ pc # "down"
  /\ restarts < MaxRestarts
  /\ restarts' = restarts + 1
  /\ Down

(* Slip: rows found in processing are simply queued again.                 *)
StartRequeueing ==
  /\ pc = "down"
  /\ pc' = "startup"
  /\ counter' = Unset
  /\ stopping' = FALSE
  /\ open' = TRUE
  /\ state' = [i \in Rows |-> IF state[i] = "processing" THEN "pending" ELSE state[i]]
  /\ UNCHANGED <<record, fresh, intake, batch, restarts, failures, memory>>

Start ==
  /\ pc = "down"
  /\ pc' = "startup"
  /\ counter' = Unset
  /\ stopping' = FALSE
  /\ open' = TRUE
  /\ UNCHANGED <<table, intake, batch, restarts, failures, memory>>

DrainStep ==
  \/ Startup
  \/ Dequeue
  \/ LeaveLoop
  \/ SeedCounter
  \/ ThreadDies
  \/ BlockRow
  \/ MarkBlocked
  \/ StoreRow
  \/ StampRow
  \/ MarkDone
  \/ MarkError
  \/ Consolidate

Next ==
  \/ \E s \in Sources : \/ \E r \in Records : Receive(s, r)
                        \/ SelectDuplicate(s)
                        \/ InsertRow(s)
  \/ SetToggle
  \/ WindowPasses
  \/ DrainStep
  \/ StopDaemon
  \/ CloseStore
  \/ Exit
  \/ Crash
  \/ Start

Spec == Init /\ [][Next]_vars

(* The drain thread is scheduled, run_daemon's finally block runs to its   *)
(* end, and a daemon that is down is started again some time.              *)
FairSpec ==
  Spec /\ WF_vars(DrainStep) /\ WF_vars(CloseStore) /\ WF_vars(Exit) /\ WF_vars(Start)

-----------------------------------------------------------------------------
TypeOK ==
  /\ state \in [Rows -> {"absent", "pending", "processing", "done", "error"}]
  /\ record \in [Rows -> Records \cup {NoRecord}]
  /\ fresh \subseteq Rows \ InState("absent")
  /\ toggle \in BOOLEAN
  /\ spc \in [Sources -> {"idle", "select", "insert"}]
  /\ arrived \in [Sources -> Records \cup {NoRecord}]
  /\ pc \in DrainSteps
  /\ batch \subseteq InState("processing")
  /\ batch # {} <=> pc \in {"seed", "row", "blocked", "stamp", "done", "error"}
  /\ counter \in Nat
  /\ stopping \in BOOLEAN /\ open \in BOOLEAN
  /\ copies \in [Rows -> Nat]
  /\ stamped \subseteq Stored
  /\ backlog \in Nat
  /\ restarts \in 0..MaxRestarts
  /\ failures \in 0..MaxFailures

(* Stops, crashes and failing steps never make two memories of one         *)
(* capture: a row is dequeued once (dequeue_batch, mark_done, mark_error). *)
StoredOnce == \A i \in Rows : copies[i] <= 1

(* A row is done only when its memory is stored and quarantined; a crash   *)
(* or an error in between shows in the queue.                              *)
DoneMeansGoverned == \A i \in InState("done") : copies[i] = 1 /\ i \in stamped

(* While no operation fails, memories do not pile up without a             *)
(* consolidation, stops and crashes included: the counter is seeded from   *)
(* the database so that "entries accumulated across daemon restarts count  *)
(* toward the interval".                                                   *)
BacklogBounded == Interval > 0 /\ failures = 0 => backlog < Interval + BatchSize

(* One source: no two rows of a dedup window have one prompt, whatever     *)
(* became of the first in the meantime (insert against the drain).         *)
NoFreshDuplicates ==
  Cardinality(Sources) = 1 =>
    \A i, j \in fresh : record[i].prompt = record[j].prompt => i = j

(* Every queued row is settled in the end, stored or marked, whichever     *)
(* step of it fails and however often the daemon is stopped: the           *)
(* exceptions are an error that ends the drain thread, and the rows that a *)
(* daemon had dequeued when it ended (process_batch, dequeue_batch).       *)
Settled(i) == state[i] \in {"done", "error"}
LeftBehind(i) == restarts > 0 /\ state[i] = "processing" /\ i \notin batch
EventuallySettled ==
  \A i \in Rows : state[i] = "pending" ~> Settled(i) \/ LeftBehind(i) \/ pc = "dead"

=============================================================================
