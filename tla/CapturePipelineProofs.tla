----------------------- MODULE CapturePipelineProofs -----------------------
(***************************************************************************)
(* Theorems about CapturePipeline, for any number of rows, sources,        *)
(* restarts and failures.                                                  *)
(*                                                                         *)
(* StoreInv follows a row from the queue into the memory database: until   *)
(* remember() returns for it no entry was made from it, and what is marked *)
(* done has passed both transactions. Accounts and Pace compare the drain  *)
(* thread's counter with the database it was seeded from.                  *)
(***************************************************************************)
EXTENDS CapturePipeline, TLAPS, FiniteSetTheorems, WellFoundedInduction

(* The steps of the row in hand up to remember(), and after it.            *)
Before == {"seed", "row", "blocked"}
After == {"stamp", "done"}

(* A row that waits was never stored.                                      *)
WaitingUnstored == \A i \in Rows : state[i] \in {"absent", "pending"} => copies[i] = 0

(* Of a batch only the row in hand may have been stored.                   *)
BatchUnstored == \A i \in batch : i # Current \/ pc \in Before => copies[i] = 0

InHand ==
  /\ pc \in After => copies[Current] = 1
  /\ pc = "done" => Current \in stamped

StoreInv ==
  /\ TypeOK
  /\ WaitingUnstored
  /\ BatchUnstored
  /\ InHand
  /\ StoredOnce
  /\ DoneMeansGoverned

-----------------------------------------------------------------------------
(* Least and FirstRows.                                                    *)

LEMMA HasLeast ==
  ASSUME NEW S \in SUBSET Nat, S # {}
  PROVE  \E i \in S : \A j \in S : i <= j
  <1> DEFINE R == OpToRel(<, Nat)
  <1>1. IsWellFoundedOn(R, Nat)
    BY NatLessThanWellFounded
  <1>2. ASSUME NEW i \in Nat, NEW j \in Nat, j < i PROVE <<j, i>> \in R
    BY <1>2 DEF OpToRel
  <1> HIDE DEF R
  <1>3. PICK i \in S : \A j \in S : ~ (<<j, i>> \in R)
    BY <1>1, WFMin
  <1>4. \A j \in S : ~ (j < i)
    BY <1>2, <1>3, Zenon
  <1> QED BY <1>4

LEMMA LeastIsLeast ==
  ASSUME NEW S \in SUBSET Rows, S # {}
  PROVE  Least(S) \in S /\ \A j \in S : Least(S) <= j
  <1>1. S \in SUBSET Nat
    BY CaptureConstants DEF Rows
  <1> QED BY <1>1, HasLeast DEF Least

LEMMA RowsFinite ==
  ASSUME NEW S \in SUBSET Rows
  PROVE  IsFiniteSet(S) /\ Cardinality(S) \in 0..MaxRows
  <1>1. IsFiniteSet(Rows) /\ Cardinality(Rows) = MaxRows
    BY CaptureConstants, FS_Interval DEF Rows
  <1>2. IsFiniteSet(S) /\ Cardinality(S) <= MaxRows
    BY <1>1, FS_Subset
  <1>3. Cardinality(S) \in Nat
    BY <1>2, FS_CardinalityType
  <1> QED BY <1>2, <1>3, CaptureConstants

LEMMA FirstRowsOfSome ==
  ASSUME NEW S \in SUBSET Rows, S # {}
  PROVE  FirstRows(S) # {} /\ FirstRows(S) \subseteq S
  <1>1. PICK m \in S : \A j \in S : m <= j
    BY LeastIsLeast
  <1>2. m \in Nat /\ \A j \in S : j \in Nat
    BY CaptureConstants DEF Rows
  <1>3. \A j \in S : ~ (j < m)
    BY <1>1, <1>2
  <1>4. Cardinality({j \in S : j < m}) = 0
    <2>1. {j \in S : j < m} = {}
      BY <1>3, Zenon
    <2> QED BY <2>1, FS_EmptySet
  <1>5. m \in FirstRows(S)
    BY <1>1, <1>4, CaptureConstants DEF FirstRows
  <1> QED BY <1>5 DEF FirstRows

(* The row in hand is one of the batch, whose rows are all in processing.  *)
LEMMA CurrentInBatch ==
  ASSUME TypeOK, pc \in Before \cup After \cup {"error"}
  PROVE  Current \in batch /\ Current \in Rows /\ state[Current] = "processing"
  <1>1. batch # {} /\ batch \in SUBSET Rows /\ batch \subseteq InState("processing")
    BY DEF TypeOK, Before, After, InState
  <1>2. Current \in batch
    BY <1>1, LeastIsLeast DEF Current
  <1> QED BY <1>1, <1>2 DEF InState

-----------------------------------------------------------------------------
LEMMA CaptureStart == Init => StoreInv
  <1> SUFFICES ASSUME Init PROVE StoreInv
    OBVIOUS
  <1>1. TypeOK
    <2>1. /\ state \in [Rows -> {"absent", "pending", "processing", "done", "error"}]
          /\ record \in [Rows -> Records \cup {NoRecord}] /\ fresh \subseteq Rows \ InState("absent")
          /\ spc \in [Sources -> {"idle", "select", "insert"}]
          /\ arrived \in [Sources -> Records \cup {NoRecord}]
      BY DEF Init
    <2>2. /\ pc = "startup" /\ batch = {} /\ stamped = {}
          /\ counter \in Nat /\ backlog \in Nat /\ copies \in [Rows -> Nat]
          /\ restarts \in 0..MaxRestarts /\ failures \in 0..MaxFailures
      BY CaptureConstants DEF Init, Unset
    <2>3. toggle \in BOOLEAN /\ stopping \in BOOLEAN /\ open \in BOOLEAN
      BY DEF Init
    <2> QED BY <2>1, <2>2, <2>3 DEF TypeOK, DrainSteps
  <1> QED BY <1>1
      DEF Init, StoreInv, WaitingUnstored, BatchUnstored, InHand, Before, After, StoredOnce,
          DoneMeansGoverned, InState

(* Steps that touch neither the drain thread nor what it has in hand.      *)
LEMMA AsideKeeps ==
  ASSUME StoreInv, TypeOK', UNCHANGED <<batch, copies, stamped>>,
         \A i \in Rows : state'[i] = state[i] \/ (state[i] = "absent" /\ state'[i] = "pending"),
         pc' = pc \/ (batch = {} /\ pc' \notin Before \cup After)
  PROVE  StoreInv'
  <1>1. Current' = Current
    BY DEF Current, Least
  <1> QED BY <1>1
      DEF StoreInv, WaitingUnstored, BatchUnstored, InHand, Before, After, StoredOnce,
          DoneMeansGoverned, InState

LEMMA IntakeKeeps ==
  ASSUME StoreInv, NEW s \in Sources,
         \/ \E r \in Records : Receive(s, r)
         \/ SelectDuplicate(s) \/ InsertRow(s)
  PROVE  StoreInv'
  <1>1. TypeOK
    BY DEF StoreInv
  <1>2. CASE \E r \in Records : Receive(s, r)
    <2>1. TypeOK'
      BY <1>1, <1>2 DEF TypeOK, Receive, table, daemon, memory, InState, Stored
    <2> QED BY <1>2, <2>1, AsideKeeps DEF Receive, table, memory
  <1>3. CASE SelectDuplicate(s)
    <2>1. TypeOK'
      BY <1>1, <1>3 DEF TypeOK, SelectDuplicate, Reply, table, daemon, memory, InState, Stored
    <2> QED BY <1>3, <2>1, AsideKeeps DEF SelectDuplicate, table, memory
  <1>4. CASE InsertRow(s)
    <2> DEFINE i == Least(InState("absent"))
    <2>1. /\ UNCHANGED <<toggle, pc, batch, counter, daemon, memory>> /\ Reply(s)
          /\ failures' \in 0..MaxFailures
      BY <1>1, <1>4, CaptureConstants DEF InsertRow, Fails, TypeOK
    <2>2. CASE UNCHANGED table
      <3>1. TypeOK'
        BY <1>1, <2>1, <2>2 DEF TypeOK, Reply, table, daemon, memory, InState, Stored
      <3> QED BY <2>1, <2>2, <3>1, AsideKeeps DEF table, memory
    <2>3. CASE InState("absent") # {} /\ Mark(i, "pending")
               /\ record' = [record EXCEPT ![i] = arrived[s]] /\ fresh' = fresh \cup {i}
      <3>1. i \in Rows /\ state[i] = "absent"
        BY <2>3, LeastIsLeast DEF InState
      <3> HIDE DEF i
      <3>2. /\ state'[i] = "pending" /\ \A j \in Rows : j # i => state'[j] = state[j]
            /\ state' \in [Rows -> {"absent", "pending", "processing", "done", "error"}]
        BY <1>1, <2>3, <3>1 DEF Mark, TypeOK
      <3>3. batch' \subseteq InState("processing")' /\ fresh' \subseteq Rows \ InState("absent")'
        BY <1>1, <2>1, <2>3, <3>1, <3>2 DEF TypeOK, InState
      <3>4. record' \in [Rows -> Records \cup {NoRecord}]
        BY <1>1, <2>3, <3>1 DEF TypeOK
      <3>5. TypeOK'
        BY <1>1, <2>1, <3>2, <3>3, <3>4 DEF TypeOK, Reply, daemon, memory, Stored
      <3> QED BY <2>1, <3>1, <3>2, <3>5, AsideKeeps DEF memory
    <2> QED BY <1>4, <2>2, <2>3 DEF InsertRow
  <1> QED BY <1>2, <1>3, <1>4

LEMMA DaemonKeeps ==
  ASSUME StoreInv, SetToggle \/ WindowPasses \/ StopDaemon \/ CloseStore
  PROVE  StoreInv'
  <1>1. TypeOK'
    <2>1. /\ UNCHANGED <<state, record, spc, arrived, pc, batch, counter, failures, copies, stamped, backlog>>
          /\ fresh' \subseteq fresh
      BY DEF SetToggle, WindowPasses, StopDaemon, CloseStore, table, intake, memory
    <2>2. toggle' \in BOOLEAN /\ stopping' \in BOOLEAN /\ open' \in BOOLEAN
      BY DEF StoreInv, TypeOK, SetToggle, WindowPasses, StopDaemon, CloseStore, intake, daemon
    <2>3. restarts' \in 0..MaxRestarts
      BY CaptureConstants
      DEF StoreInv, TypeOK, SetToggle, WindowPasses, StopDaemon, CloseStore, daemon
    <2> QED BY <2>1, <2>2, <2>3 DEF StoreInv, TypeOK, InState, Stored
  <1> QED BY <1>1, AsideKeeps
      DEF SetToggle, WindowPasses, StopDaemon, CloseStore, table, intake, daemon, memory

(* The end of the process and its start: the batch is forgotten, its rows  *)
(* stay in processing.                                                     *)
LEMMA RestartKeeps ==
  ASSUME StoreInv, Exit \/ Crash \/ Start
  PROVE  StoreInv'
  <1>1. TypeOK
    BY DEF StoreInv
  <1>2. /\ batch' = {} /\ pc' \in {"down", "startup"}
        /\ UNCHANGED <<state, record, fresh, toggle, copies, stamped, backlog, failures>>
    BY <1>1 DEF Exit, Crash, Start, Down, table, intake, memory, TypeOK
  <1>3. TypeOK'
    <2>1. counter' \in Nat /\ restarts' \in 0..MaxRestarts
      BY <1>1, CaptureConstants DEF Exit, Crash, Start, Down, TypeOK, Unset
    <2>3. stopping' \in BOOLEAN /\ open' \in BOOLEAN
      BY <1>1 DEF Exit, Crash, Start, Down, TypeOK
    <2>2. spc' \in [Sources -> {"idle", "select", "insert"}] /\ arrived' \in [Sources -> Records \cup {NoRecord}]
      BY <1>1 DEF Exit, Crash, Start, Down, TypeOK, intake
    <2> QED BY <1>1, <1>2, <2>1, <2>2, <2>3 DEF TypeOK, DrainSteps, InState, Stored
  <1> QED BY <1>2, <1>3
      DEF StoreInv, WaitingUnstored, BatchUnstored, InHand, Before, After, StoredOnce,
          DoneMeansGoverned, InState

(* Steps of the drain thread between two rows, or after its batch.         *)
LEMMA BetweenKeeps ==
  ASSUME StoreInv,
         Startup \/ Dequeue \/ LeaveLoop \/ SeedCounter \/ ThreadDies \/ BlockRow \/ Consolidate
  PROVE  StoreInv'
  <1>1. TypeOK
    BY DEF StoreInv
  <1>2. ASSUME UNCHANGED <<table, intake, daemon>>, counter' \in Nat, failures' \in 0..MaxFailures,
               UNCHANGED <<batch, copies, stamped>>, backlog' \in Nat, pc' \in DrainSteps,
               batch # {} <=> pc' \in Before \cup After \cup {"error"}
        PROVE  TypeOK'
    BY <1>1, <1>2 DEF TypeOK, table, intake, daemon, InState, Stored, Before, After
  <1>3. failures' \in 0..MaxFailures
    BY <1>1, CaptureConstants
    DEF TypeOK, Startup, Dequeue, LeaveLoop, SeedCounter, ThreadDies, BlockRow, Consolidate, Fails,
        Refused
  <1>4. Unconsolidated \in Nat
    BY RowsFinite, CaptureConstants DEF Unconsolidated, Stored
  <1>5. CASE Startup \/ LeaveLoop \/ Consolidate
    <2>1. /\ UNCHANGED <<table, intake, daemon, batch, copies, stamped>>
          /\ counter' \in Nat /\ backlog' \in Nat
          /\ pc \in {"startup", "poll", "consolidate"} /\ pc' \in {"poll", "exited", "consolidate"}
      BY <1>1, <1>4, <1>5 DEF Startup, LeaveLoop, Consolidate, memory, TypeOK
    <2>2. batch = {}
      BY <1>1, <2>1 DEF TypeOK
    <2>3. TypeOK'
      BY <1>2, <1>3, <2>1, <2>2 DEF DrainSteps, Before, After
    <2> QED BY <2>1, <2>2, <2>3, AsideKeeps DEF table, Before, After
  <1>6. CASE Dequeue
    <2>1. /\ batch' = FirstRows(InState("pending")) /\ InState("pending") # {}
          /\ state' = [i \in Rows |-> IF i \in batch' THEN "processing" ELSE state[i]]
          /\ pc' = "seed"
          /\ UNCHANGED <<record, fresh, intake, counter, daemon, memory>>
      BY <1>6 DEF Dequeue
    <2>2. batch' # {} /\ batch' \subseteq InState("pending")
      BY <2>1, FirstRowsOfSome DEF InState
    <2>3. /\ state' \in [Rows -> {"absent", "pending", "processing", "done", "error"}]
          /\ batch' \subseteq InState("processing")' /\ InState("absent")' = InState("absent")
          /\ InState("done")' = InState("done") /\ InState("pending")' \subseteq InState("pending")
      BY <1>1, <2>1, <2>2 DEF TypeOK, InState
    <2>4. TypeOK'
      BY <1>1, <1>3, <2>1, <2>2, <2>3 DEF TypeOK, DrainSteps, intake, daemon, memory, Stored
    <2>5. WaitingUnstored'
      BY <2>1, <2>3 DEF StoreInv, WaitingUnstored, InState, memory
    <2>6. BatchUnstored'
      BY <2>1, <2>2 DEF StoreInv, WaitingUnstored, BatchUnstored, InState, memory
    <2> QED BY <2>1, <2>3, <2>4, <2>5, <2>6
        DEF StoreInv, InHand, After, StoredOnce, DoneMeansGoverned, memory
  <1>7. CASE SeedCounter \/ BlockRow
    <2>1. /\ UNCHANGED <<table, intake, daemon, batch, copies, stamped, backlog>>
          /\ pc \in Before /\ pc' \in {"row", "blocked"} /\ counter' \in Nat
      BY <1>1, <1>4, <1>7 DEF SeedCounter, BlockRow, Before, memory, TypeOK
    <2>2. TypeOK'
      BY <1>1, <1>2, <1>3, <2>1 DEF TypeOK, DrainSteps, Before
    <2>3. Current' = Current
      BY <2>1 DEF Current, Least
    <2> QED BY <2>1, <2>2, <2>3
        DEF StoreInv, WaitingUnstored, BatchUnstored, InHand, Before, After, StoredOnce,
            DoneMeansGoverned, InState, table
  <1>8. CASE ThreadDies
    <2>1. /\ pc' = "dead" /\ batch' = {} /\ UNCHANGED <<table, intake, counter, daemon, memory>>
      BY <1>8 DEF ThreadDies
    <2>2. TypeOK'
      BY <1>1, <1>3, <2>1 DEF TypeOK, DrainSteps, table, intake, daemon, memory, InState, Stored
    <2> QED BY <2>1, <2>2
        DEF StoreInv, WaitingUnstored, BatchUnstored, InHand, After, StoredOnce, DoneMeansGoverned,
            InState, table, memory
  <1> QED BY <1>5, <1>6, <1>7, <1>8

(* remember() and set_governance().                                        *)
LEMMA StoringKeeps ==
  ASSUME StoreInv, StoreRow \/ StampRow
  PROVE  StoreInv'
  <1> DEFINE c == Current
  <1>1. /\ TypeOK /\ c \in batch /\ c \in Rows /\ state[c] = "processing"
    BY CurrentInBatch DEF StoreInv, StoreRow, StampRow, Before, After
  <1>2. /\ UNCHANGED <<table, intake, batch, counter, daemon>> /\ failures' \in 0..MaxFailures
        /\ Current' = c
    BY <1>1, CaptureConstants
    DEF StoreRow, StampRow, Fails, Refused, TypeOK, Current, Least
  <1>3. CASE pc = "row" /\ copies' = [copies EXCEPT ![c] = @ + 1] /\ backlog' = backlog + 1
             /\ pc' = "stamp" /\ stamped' = stamped
    <2>1. copies[c] = 0
      BY <1>1, <1>3 DEF StoreInv, BatchUnstored, Before
    <2> HIDE DEF c
    <2>2. /\ copies' \in [Rows -> Nat] /\ copies'[c] = 1
          /\ \A i \in Rows : i # c => copies'[i] = copies[i]
      BY <1>1, <1>3, <2>1 DEF TypeOK
    <2>3. TypeOK'
      BY <1>1, <1>2, <1>3, <2>2 DEF TypeOK, DrainSteps, table, intake, daemon, InState, Stored
    <2>4. WaitingUnstored' /\ StoredOnce' /\ DoneMeansGoverned'
      BY <1>1, <1>2, <1>3, <2>2 DEF StoreInv, WaitingUnstored, StoredOnce, DoneMeansGoverned, InState, table
    <2>5. BatchUnstored' /\ InHand'
      BY <1>1, <1>2, <1>3, <2>2 DEF StoreInv, BatchUnstored, InHand, Before, After, TypeOK, InState, c
    <2> QED BY <2>3, <2>4, <2>5 DEF StoreInv
  <1>4. CASE pc = "stamp" /\ stamped' = stamped \cup {c} /\ pc' = "done" /\ UNCHANGED <<copies, backlog>>
    <2>1. copies[c] = 1
      BY <1>4 DEF StoreInv, InHand, After
    <2>2. TypeOK'
      BY <1>1, <1>2, <1>4, <2>1 DEF TypeOK, DrainSteps, table, intake, daemon, InState, Stored
    <2>3. BatchUnstored' /\ InHand'
      BY <1>1, <1>2, <1>4, <2>1 DEF StoreInv, BatchUnstored, InHand, Before, After, c
    <2> QED BY <1>2, <1>4, <2>2, <2>3
        DEF StoreInv, WaitingUnstored, StoredOnce, DoneMeansGoverned, InState, table
  <1>5. CASE pc \in {"row", "stamp"} /\ pc' = "error" /\ UNCHANGED <<copies, backlog, stamped>>
    <2>1. TypeOK'
      BY <1>1, <1>2, <1>5 DEF TypeOK, DrainSteps, table, intake, daemon, InState, Stored
    <2>2. BatchUnstored' /\ InHand'
      BY <1>2, <1>5 DEF StoreInv, BatchUnstored, InHand, Before, After
    <2> QED BY <1>2, <1>5, <2>1, <2>2
        DEF StoreInv, WaitingUnstored, StoredOnce, DoneMeansGoverned, InState, table
  <1> QED BY <1>3, <1>4, <1>5 DEF StoreRow, StampRow

(* Settle: the other rows of the batch wait as they did.                   *)
LEMMA SettledKeeps ==
  ASSUME StoreInv, pc \in {"blocked", "done", "error"}, NEW n \in Nat, NEW st \in {"done", "error"},
         Mark(Current, st), Settle(n), st = "done" => pc = "done", failures' \in 0..MaxFailures,
         UNCHANGED <<record, fresh, intake, daemon, memory>>
  PROVE  StoreInv'
  <1> DEFINE c == Current
  <1>1. /\ TypeOK /\ c \in batch /\ c \in Rows /\ state[c] = "processing"
    BY CurrentInBatch DEF StoreInv, Before, After
  <1>2. /\ batch' = batch \ {c} /\ counter' = n
        /\ pc' = IF batch' # {} THEN "row" ELSE IF Due(n) THEN "consolidate" ELSE "poll"
    BY DEF Settle
  <1>3. /\ state' = [state EXCEPT ![c] = st]
        /\ UNCHANGED <<record, fresh, toggle, spc, arrived, stopping, open, restarts, copies, stamped, backlog>>
    BY DEF Mark, intake, daemon, memory
  <1>4. \A i \in batch : i # c => copies[i] = 0
    BY DEF StoreInv, BatchUnstored
  <1>5. pc = "done" => copies[c] = 1 /\ c \in stamped
    BY DEF StoreInv, InHand, After
  <1> HIDE DEF c
  <1>6. /\ state' \in [Rows -> {"absent", "pending", "processing", "done", "error"}] /\ state'[c] = st
        /\ \A i \in Rows : i # c => state'[i] = state[i]
    BY <1>1, <1>3 DEF TypeOK
  <1>7. pc' \in {"row", "consolidate", "poll"} /\ (pc' = "row" <=> batch' # {})
    BY <1>2
  <1>8. batch' \subseteq InState("processing")' /\ InState("absent")' = InState("absent")
    BY <1>1, <1>2, <1>6 DEF TypeOK, InState
  <1>9. TypeOK'
    BY <1>1, <1>2, <1>3, <1>6, <1>7, <1>8 DEF TypeOK, DrainSteps, Stored
  <1>10. WaitingUnstored' /\ StoredOnce' /\ DoneMeansGoverned'
    BY <1>1, <1>3, <1>5, <1>6 DEF StoreInv, WaitingUnstored, StoredOnce, DoneMeansGoverned, InState
  <1>11. BatchUnstored' /\ InHand'
    BY <1>2, <1>3, <1>4, <1>7 DEF BatchUnstored, InHand, After
  <1> QED BY <1>9, <1>10, <1>11 DEF StoreInv

LEMMA MarkingKeeps ==
  ASSUME StoreInv, MarkBlocked \/ MarkDone \/ MarkError
  PROVE  StoreInv'
  <1>1. TypeOK /\ counter \in Nat /\ counter + 1 \in Nat /\ failures \in 0..MaxFailures
    BY DEF StoreInv, TypeOK
  <1>2. CASE RowFails /\ UNCHANGED <<record, fresh, intake, daemon, memory>> /\ pc \in {"blocked", "done"}
    <2>1. /\ UNCHANGED <<state, batch, counter, record, fresh, intake, daemon, memory>>
          /\ pc' = "error" /\ failures' \in 0..MaxFailures /\ Current' = Current
      BY <1>1, <1>2, CaptureConstants DEF RowFails, Fails, Current, Least
    <2>2. TypeOK'
      BY <1>1, <1>2, <2>1 DEF TypeOK, DrainSteps, intake, daemon, memory, InState, Stored
    <2>3. BatchUnstored' /\ InHand'
      BY <2>1 DEF StoreInv, BatchUnstored, InHand, Before, After, memory
    <2> QED BY <2>1, <2>2, <2>3
        DEF StoreInv, WaitingUnstored, StoredOnce, DoneMeansGoverned, InState, memory
  <1>3. CASE MarkBlocked
    BY <1>1, <1>2, <1>3, SettledKeeps DEF MarkBlocked
  <1>4. CASE MarkDone
    BY <1>1, <1>2, <1>4, SettledKeeps DEF MarkDone
  <1>5. CASE MarkError
    BY <1>1, <1>5, SettledKeeps DEF MarkError
  <1> QED BY <1>3, <1>4, <1>5

LEMMA CaptureStep == StoreInv /\ [Next]_vars => StoreInv'
  <1> SUFFICES ASSUME StoreInv, [Next]_vars PROVE StoreInv'
    OBVIOUS
  <1>1. CASE UNCHANGED vars
    <2>1. Current' = Current
      BY <1>1 DEF vars, Current, Least
    <2>2. TypeOK'
      BY <1>1 DEF StoreInv, TypeOK, vars, InState, Stored
    <2> QED BY <1>1, <2>1, <2>2
        DEF vars, StoreInv, WaitingUnstored, BatchUnstored, InHand, StoredOnce, DoneMeansGoverned,
            InState
  <1> QED BY <1>1, IntakeKeeps, DaemonKeeps, RestartKeeps, BetweenKeeps, StoringKeeps, MarkingKeeps
      DEF Next, DrainStep

(* THEOREM: the columns, the drain thread and its batch keep their types;  *)
(* what it has in hand is in processing, and it has a batch exactly while  *)
(* it works through one.                                                   *)
THEOREM CaptureTypeCorrect == Spec => []TypeOK
  <1>1. StoreInv => TypeOK
    BY DEF StoreInv
  <1> QED BY <1>1, CaptureStart, CaptureStep, PTL DEF Spec

(* THEOREM: however often the daemon is stopped, killed and started, and   *)
(* whichever of its operations fail, no capture becomes two memories.      *)
THEOREM OnceTheorem == Spec => []StoredOnce
  <1>1. StoreInv => StoredOnce
    BY DEF StoreInv
  <1> QED BY <1>1, CaptureStart, CaptureStep, PTL DEF Spec

(* THEOREM: under the same conditions a row that says it is done has its   *)
(* memory, stamped by governance.                                          *)
THEOREM DoneTheorem == Spec => []DoneMeansGoverned
  <1>1. StoreInv => DoneMeansGoverned
    BY DEF StoreInv
  <1> QED BY <1>1, CaptureStart, CaptureStep, PTL DEF Spec

-----------------------------------------------------------------------------
(* The counter and the database.                                           *)

(* The counter never exceeds the entries there are, so None is told from a *)
(* number, and no consolidation is late by more than it counts.            *)
Accounts ==
  /\ Cardinality(batch) <= BatchSize
  /\ backlog <= Unconsolidated
  /\ counter # Unset => counter + (IF pc \in After THEN 1 ELSE 0) <= Unconsolidated
  /\ pc \in {"row", "blocked", "error"} \cup After => counter # Unset

(* While nothing fails and the store is open the counter covers the        *)
(* backlog, and the rest of the batch fits in before the next check.       *)
OnPace ==
  /\ pc \in {"poll", "seed"} => counter # Unset /\ backlog <= counter /\ counter < Interval
  /\ pc \in {"row", "blocked"} =>
       backlog <= counter /\ backlog + Cardinality(batch) < Interval + BatchSize
  /\ pc \in After => backlog <= counter + 1 /\ backlog + Cardinality(batch) <= Interval + BatchSize
  /\ pc # "error"

Pace ==
  Interval > 0 /\ failures = 0 =>
    /\ backlog < Interval + BatchSize
    /\ open => OnPace

LEMMA HasGreatest ==
  ASSUME NEW S \in SUBSET Rows, S # {}
  PROVE  \E m \in S : \A j \in S : j <= m
  <1> DEFINE U == {u \in Nat : \A j \in S : j <= u}
  <1>1. \A j \in S : j \in Nat /\ j <= MaxRows
    BY CaptureConstants DEF Rows
  <1>2. MaxRows \in U
    BY <1>1, CaptureConstants
  <1>3. PICK u \in U : \A v \in U : u <= v
    BY <1>2, HasLeast
  <1>4. u \in Nat /\ \A j \in S : j <= u
    BY <1>3
  <1>5. CASE u \in S
    BY <1>4, <1>5
  <1>6. CASE u \notin S
    <2>1. \A j \in S : j + 1 <= u
      BY <1>1, <1>4, <1>6
    <2>2. u - 1 \in Nat /\ \A j \in S : j <= u - 1
      BY <1>1, <1>4, <2>1
    <2>3. u - 1 \in U
      BY <2>2
    <2>4. u <= u - 1
      BY <1>3, <2>3
    <2> QED BY <1>4, <2>4
  <1> QED BY <1>5, <1>6

(* dequeue_batch takes at most drain_batch_size rows.                      *)
LEMMA FirstRowsBounded ==
  ASSUME NEW S \in SUBSET Rows
  PROVE  Cardinality(FirstRows(S)) <= BatchSize
  <1> DEFINE F == FirstRows(S)
  <1>1. F \subseteq S /\ F \in SUBSET Rows /\ IsFiniteSet(F)
    BY RowsFinite DEF FirstRows
  <1>2. CASE F = {}
    BY <1>2, FS_EmptySet, CaptureConstants
  <1>3. CASE F # {}
    <2>1. PICK m \in F : \A j \in F : j <= m
      BY <1>1, <1>3, HasGreatest
    <2> DEFINE L == {j \in S : j < m}
    <2>2. L \in SUBSET Rows /\ IsFiniteSet(L) /\ Cardinality(L) < BatchSize
      BY <2>1, RowsFinite DEF FirstRows
    <2>3. \A j \in F \ {m} : j < m
      BY <1>1, <2>1, CaptureConstants DEF Rows
    <2>4. F \ {m} \subseteq L
      BY <1>1, <2>3
    <2>5. Cardinality(F \ {m}) <= Cardinality(L)
      BY <2>2, <2>4, FS_Subset
    <2>6. Cardinality(F \ {m}) = Cardinality(F) - 1
      BY <1>1, <2>1, FS_RemoveElement
    <2>7. Cardinality(F) \in Nat /\ Cardinality(L) \in Nat
      BY <1>1, <2>2, FS_CardinalityType
    <2> HIDE DEF F, L
    <2>8. Cardinality(F) <= BatchSize
      BY <2>2, <2>5, <2>6, <2>7, CaptureConstants
    <2> QED BY <2>8 DEF F
  <1> QED BY <1>2, <1>3

LEMMA AccountsStart == Init => Accounts /\ Pace
  <1> SUFFICES ASSUME Init PROVE Accounts /\ Pace
    OBVIOUS
  <1>1. Unconsolidated \in Nat /\ Cardinality(batch) = 0
    BY RowsFinite, FS_EmptySet DEF Init, Unconsolidated, Stored
  <1> QED BY <1>1, CaptureConstants DEF Init, Accounts, Pace, OnPace, After

(* What the arithmetic below needs to know of the numbers.                 *)
LEMMA Numbers ==
  ASSUME TypeOK
  PROVE  /\ counter \in Nat /\ backlog \in Nat /\ failures \in Nat
         /\ IsFiniteSet(batch) /\ Cardinality(batch) \in Nat
         /\ Unconsolidated \in Nat /\ Unconsolidated < Unset
         /\ BatchSize \in Nat /\ BatchSize > 0 /\ Interval \in Nat /\ Unset \in Nat
  <1>1. batch \in SUBSET Rows /\ Stored \in SUBSET Rows
    BY DEF TypeOK, InState, Stored
  <1>2. /\ IsFiniteSet(batch) /\ Cardinality(batch) \in 0..MaxRows
        /\ Cardinality(Stored) \in 0..MaxRows
    BY <1>1, RowsFinite
  <1> QED BY <1>2, CaptureConstants DEF TypeOK, Unconsolidated, Unset

(* The row in hand leaves the batch.                                       *)
LEMMA OneLess ==
  ASSUME TypeOK, pc \in Before \cup After \cup {"error"}
  PROVE  Cardinality(batch \ {Current}) = Cardinality(batch) - 1
  BY CurrentInBatch, Numbers, FS_RemoveElement

(* Steps that leave the counter, the batch and the entries alone.          *)
LEMMA PaceAside ==
  ASSUME TypeOK, Accounts, Pace, UNCHANGED <<batch, counter, copies, backlog>>,
         failures' \in {failures, failures + 1}, open' => open,
         \/ pc' = pc
         \/ pc' = "exited"
         \/ pc \in Before /\ pc' \in Before \ {"seed"} /\ pc # "seed"
         \/ pc \in After /\ pc' \in After
         \/ pc' = "error" /\ pc \in {"row", "blocked"} \cup After /\ (open => failures' = failures + 1)
  PROVE  Accounts' /\ Pace'
  <1>1. Unconsolidated' = Unconsolidated
    BY DEF Unconsolidated, Stored
  <1>2. failures' = 0 => failures = 0
    BY Numbers
  <1> QED BY <1>1, <1>2, Numbers DEF Accounts, Pace, OnPace, Before, After

LEMMA AsidePaces ==
  ASSUME TypeOK, Accounts, Pace, SetToggle \/ WindowPasses \/ StopDaemon \/ CloseStore \/ LeaveLoop
                                 \/ BlockRow \/ StampRow
  PROVE  Accounts' /\ Pace'
  <1>1. UNCHANGED <<batch, counter, copies, backlog>> /\ failures' \in {failures, failures + 1}
    BY DEF SetToggle, WindowPasses, StopDaemon, CloseStore, LeaveLoop, BlockRow, StampRow, Fails,
           Refused, table, intake, memory
  <1>2. open' => open
    BY DEF SetToggle, WindowPasses, StopDaemon, CloseStore, LeaveLoop, BlockRow, StampRow, daemon
  <1>3. \/ pc' = pc
        \/ pc' = "exited"
        \/ pc = "row" /\ pc' = "blocked"
        \/ pc = "stamp" /\ pc' = "done"
        \/ pc = "stamp" /\ pc' = "error" /\ (open => failures' = failures + 1)
    BY DEF SetToggle, WindowPasses, StopDaemon, CloseStore, LeaveLoop, BlockRow, StampRow, Fails, Refused
  <1> QED BY <1>1, <1>2, <1>3, PaceAside DEF Before, After

LEMMA IntakePaces ==
  ASSUME TypeOK, Accounts, Pace, NEW s \in Sources,
         (\E r \in Records : Receive(s, r)) \/ SelectDuplicate(s) \/ InsertRow(s)
  PROVE  Accounts' /\ Pace'
  <1>1. UNCHANGED <<pc, batch, counter, copies, backlog, open>> /\ failures' \in {failures, failures + 1}
    BY DEF Receive, SelectDuplicate, InsertRow, Fails, memory, daemon
  <1> QED BY <1>1, PaceAside

LEMMA RestartPaces ==
  ASSUME TypeOK, Accounts, Pace, Exit \/ Crash \/ Start \/ ThreadDies
  PROVE  Accounts' /\ Pace'
  <1>1. /\ batch' = {} \/ (batch' = batch /\ pc = "down")
        /\ UNCHANGED <<copies, backlog>> /\ failures' \in {failures, failures + 1}
        /\ pc' \in {"down", "dead", "startup"} /\ counter' \in {counter, Unset}
    BY DEF Exit, Crash, Start, ThreadDies, Down, Fails, Refused, intake, memory, table
  <1>2. Unconsolidated' = Unconsolidated
    BY <1>1 DEF Unconsolidated, Stored
  <1>3. Cardinality(batch') <= BatchSize
    BY <1>1, FS_EmptySet, Numbers DEF Accounts
  <1>4. failures' = 0 => failures = 0
    BY <1>1, Numbers
  <1> QED BY <1>1, <1>2, <1>3, <1>4, Numbers DEF Accounts, Pace, OnPace, After

(* The counter is seeded, tested and reset.                                *)
LEMMA CounterPaces ==
  ASSUME TypeOK, Accounts, Pace, Startup \/ SeedCounter \/ Consolidate
  PROVE  Accounts' /\ Pace'
  <1>1. UNCHANGED <<batch, copies, open>> /\ Unconsolidated' = Unconsolidated
    BY DEF Startup, SeedCounter, Consolidate, memory, daemon, Unconsolidated, Stored
  <1>2. failures' \in {failures, failures + 1}
    BY DEF Startup, SeedCounter, Consolidate, Fails, Refused
  <1>3. failures' = 0 => failures = 0
    BY <1>2, Numbers
  <1>4. CASE Startup
    <2>1. \/ /\ counter' = Unconsolidated /\ Interval > 0
             /\ pc' = IF Due(Unconsolidated) THEN "consolidate" ELSE "poll"
          \/ counter' = counter /\ pc' = "poll" /\ (Interval = 0 \/ failures' = failures + 1 \/ ~open)
      BY <1>4 DEF Startup, Fails, Refused
    <2>2. backlog' = backlog
      BY <1>4 DEF Startup, memory
    <2> QED BY <1>1, <1>2, <1>3, <2>1, <2>2, Numbers DEF Accounts, Pace, OnPace, Due, After
  <1>5. CASE SeedCounter
    <2>1. /\ pc = "seed" /\ pc' = "row" /\ backlog' = backlog
          /\ counter' = IF counter = Unset THEN Unconsolidated ELSE counter
      BY <1>5 DEF SeedCounter, memory
    <2> QED BY <1>1, <1>2, <1>3, <2>1, Numbers DEF Accounts, Pace, OnPace, After
  <1>6. CASE Consolidate
    <2>1. /\ pc = "consolidate" /\ pc' = "poll"
          /\ \/ counter' = 0 /\ backlog' = 0
             \/ counter' = counter /\ backlog' = backlog /\ (failures' = failures + 1 \/ ~open)
      BY <1>6 DEF Consolidate, Fails, Refused
    <2> QED BY <1>1, <1>2, <1>3, <2>1, Numbers DEF Accounts, Pace, OnPace, After
  <1> QED BY <1>4, <1>5, <1>6

LEMMA DequeuePaces ==
  ASSUME TypeOK, Accounts, Pace, Dequeue
  PROVE  Accounts' /\ Pace'
  <1>1. /\ pc = "poll" /\ pc' = "seed" /\ batch' = FirstRows(InState("pending"))
        /\ UNCHANGED <<counter, open, failures, copies, backlog>>
    BY DEF Dequeue, daemon, memory
  <1>2. Cardinality(batch') <= BatchSize /\ Unconsolidated' = Unconsolidated
    BY <1>1, FirstRowsBounded DEF InState, Unconsolidated, Stored
  <1> QED BY <1>1, <1>2, Numbers DEF Accounts, Pace, OnPace, After

(* One entry more: the row in hand was not stored before (BatchUnstored).  *)
LEMMA StorePaces ==
  ASSUME StoreInv, Accounts, Pace, StoreRow
  PROVE  Accounts' /\ Pace'
  <1>1. /\ TypeOK /\ pc = "row" /\ Current \in batch /\ Current \in Rows
        /\ UNCHANGED <<batch, counter, open>> /\ failures' \in {failures, failures + 1}
    BY CurrentInBatch DEF StoreInv, StoreRow, Before, daemon, Fails, Refused
  <1>2. CASE pc' = "error" /\ UNCHANGED <<copies, backlog>> /\ (open => failures' = failures + 1)
    BY <1>1, <1>2, PaceAside
  <1>3. CASE /\ open /\ copies' = [copies EXCEPT ![Current] = @ + 1] /\ backlog' = backlog + 1
             /\ pc' = "stamp" /\ UNCHANGED failures
    <2> DEFINE c == Current
    <2>1. copies[c] = 0 /\ copies \in [Rows -> Nat] /\ c \in Rows
      BY <1>1 DEF StoreInv, BatchUnstored, Before, TypeOK
    <2> HIDE DEF c
    <2>2. /\ copies' = [copies EXCEPT ![c] = @ + 1]
      BY <1>3 DEF c
    <2>3. copies'[c] = 1 /\ \A i \in Rows : i # c => copies'[i] = copies[i]
      BY <2>1, <2>2
    <2>4. Stored' = Stored \cup {c} /\ c \notin Stored
      BY <2>1, <2>3 DEF Stored
    <2>5. IsFiniteSet(Stored)
      BY RowsFinite DEF Stored
    <2>6. Unconsolidated' = Unconsolidated + 1
      BY <2>4, <2>5, FS_AddElement DEF Unconsolidated
    <2>7. Cardinality(batch) # 0
      BY <1>1, Numbers, FS_EmptySet
    <2>8. Cardinality(batch) \in Nat /\ Cardinality(batch) > 0 /\ Cardinality(batch') = Cardinality(batch)
      BY <1>1, <2>7, Numbers
    <2>9. Accounts'
      BY <1>1, <1>3, <2>6, <2>8, Numbers DEF Accounts, After
    <2>10. Pace'
      BY <1>1, <1>3, <2>8, Numbers DEF Pace, OnPace, After
    <2> QED BY <2>9, <2>10
  <1> QED BY <1>2, <1>3 DEF StoreRow, Fails, Refused

LEMMA MarkPaces ==
  ASSUME TypeOK, Accounts, Pace, MarkBlocked \/ MarkDone \/ MarkError
  PROVE  Accounts' /\ Pace'
  <1>1. /\ UNCHANGED <<open, copies, backlog>> /\ Unconsolidated' = Unconsolidated
        /\ pc \in {"blocked", "done", "error"}
    BY DEF MarkBlocked, MarkDone, MarkError, daemon, memory, Unconsolidated, Stored
  <1>2. CASE RowFails
    BY <1>1, <1>2, PaceAside DEF RowFails, Fails, After, MarkBlocked, MarkDone, MarkError
  <1>3. CASE ~RowFails
    <2> DEFINE n == IF pc = "done" THEN counter + 1 ELSE counter
    <2>1. Settle(n) /\ failures' = failures
      BY <1>3 DEF MarkBlocked, MarkDone, MarkError
    <2>2. Cardinality(batch') = Cardinality(batch) - 1
      BY <1>1, <2>1, OneLess DEF Settle, Before, After
    <2>3. counter' = n /\ pc' \in {"row", "consolidate", "poll"} /\ (pc' = "poll" => ~Due(n))
      BY <2>1 DEF Settle
    <2> QED BY <1>1, <2>1, <2>2, <2>3, Numbers DEF Accounts, Pace, OnPace, Due, After
  <1> QED BY <1>2, <1>3

(* THEOREM: while no operation fails, the entries stored since the last    *)
(* consolidation stay below one interval and one batch, in every daemon    *)
(* that was stopped, killed and started in between.                        *)
THEOREM BacklogTheorem == Spec => []BacklogBounded
  <1> DEFINE IInv == StoreInv /\ Accounts /\ Pace
  <1>1. Init => IInv
    BY CaptureStart, AccountsStart
  <1>2. ASSUME IInv, [Next]_vars PROVE IInv'
    <2>1. StoreInv' /\ TypeOK
      BY <1>2, CaptureStep DEF StoreInv
    <2>2. CASE UNCHANGED vars
      BY <1>2, <2>1, <2>2, PaceAside DEF vars
    <2>3. Accounts' /\ Pace'
      BY <1>2, <2>1, <2>2, AsidePaces, IntakePaces, RestartPaces, CounterPaces, DequeuePaces,
         StorePaces, MarkPaces
      DEF Next, DrainStep
    <2> QED BY <2>1, <2>3
  <1>3. IInv => BacklogBounded
    BY DEF Pace, BacklogBounded
  <1> QED BY <1>1, <1>2, <1>3, PTL DEF Spec

-----------------------------------------------------------------------------
(* One source: its SELECT still holds when its INSERT runs, because rows   *)
(* enter the window by its own INSERT only.                                *)
Alone ==
  Cardinality(Sources) = 1 => \A s \in Sources : spc[s] = "insert" => ~Duplicate(arrived[s])

LEMMA OnlySource ==
  ASSUME Cardinality(Sources) = 1, NEW s \in Sources
  PROVE  Sources = {s}
  <1>1. \A t \in Sources : s = t
    BY CaptureConstants, FS_CardinalityType, FS_Singleton, SMT
  <1> QED BY <1>1

(* Steps that put no row into the window and start no INSERT.              *)
LEMMA AloneAside ==
  ASSUME Alone, NoFreshDuplicates, record' = record, fresh' \subseteq fresh,
         \A s \in Sources : spc'[s] = "insert" => spc[s] = "insert" /\ arrived'[s] = arrived[s]
  PROVE  Alone' /\ NoFreshDuplicates'
  BY DEF Alone, NoFreshDuplicates, Duplicate

LEMMA AloneIntake ==
  ASSUME TypeOK, Alone, NoFreshDuplicates, NEW s \in Sources,
         (\E r \in Records : Receive(s, r)) \/ SelectDuplicate(s) \/ InsertRow(s)
  PROVE  Alone' /\ NoFreshDuplicates'
  <1>1. CASE \E r \in Records : Receive(s, r)
    BY <1>1, AloneAside DEF Receive, table, TypeOK
  <1>2. CASE SelectDuplicate(s)
    <2>1. UNCHANGED <<record, fresh>>
      BY <1>2 DEF SelectDuplicate, table
    <2>2. CASE Duplicate(arrived[s])
      BY <1>2, <2>1, <2>2, AloneAside DEF SelectDuplicate, Reply, TypeOK
    <2>3. CASE ~Duplicate(arrived[s])
      BY <1>2, <2>1, <2>3, OnlySource
      DEF SelectDuplicate, Alone, NoFreshDuplicates, Duplicate, TypeOK
    <2> QED BY <2>2, <2>3
  <1>3. CASE InsertRow(s)
    <2>1. Reply(s) /\ spc[s] = "insert"
      BY <1>3 DEF InsertRow
    <2>2. \A t \in Sources : t # s => spc'[t] = spc[t] /\ arrived'[t] = arrived[t]
      BY <2>1 DEF Reply, TypeOK
    <2>3. spc'[s] = "idle"
      BY <2>1 DEF Reply, TypeOK
    <2>4. CASE UNCHANGED table
      BY <2>2, <2>3, <2>4, AloneAside DEF table
    <2>5. CASE InState("absent") # {} /\ ~UNCHANGED table
      <3> DEFINE i == Least(InState("absent"))
      <3>1. i \in InState("absent") /\ i \in Rows
        BY <2>5, LeastIsLeast DEF InState
      <3>2. record' = [record EXCEPT ![i] = arrived[s]] /\ fresh' = fresh \cup {i}
        BY <1>3, <2>5 DEF InsertRow
      <3> HIDE DEF i
      <3>3. i \notin fresh /\ fresh \subseteq Rows
        BY <3>1 DEF TypeOK
      <3>4. record'[i] = arrived[s] /\ \A j \in fresh : record'[j] = record[j]
        BY <3>1, <3>2, <3>3 DEF TypeOK
      <3>5. Cardinality(Sources) = 1 => \A j \in fresh : record[j].prompt # arrived[s].prompt
        BY <2>1 DEF Alone, Duplicate
      <3>6. Alone'
        BY <2>3, OnlySource DEF Alone
      <3>7. NoFreshDuplicates'
        BY <3>2, <3>4, <3>5 DEF NoFreshDuplicates
      <3> QED BY <3>6, <3>7
    <2> QED BY <1>3, <2>4, <2>5 DEF InsertRow
  <1> QED BY <1>1, <1>2, <1>3

(* THEOREM: with one source, no two rows of a dedup window have one        *)
(* prompt, although the SELECT and the INSERT are two transactions and the *)
(* drain thread changes the rows in between.                               *)
THEOREM FreshTheorem == Spec => []NoFreshDuplicates
  <1> DEFINE IInv == StoreInv /\ Alone /\ NoFreshDuplicates
  <1>1. Init => IInv
    BY CaptureStart DEF Init, Alone, NoFreshDuplicates
  <1>2. ASSUME IInv, [Next]_vars PROVE IInv'
    <2>1. StoreInv' /\ TypeOK
      BY <1>2, CaptureStep DEF StoreInv
    <2>2. CASE DrainStep \/ SetToggle \/ StopDaemon \/ CloseStore \/ Start \/ UNCHANGED vars
      <3>1. UNCHANGED <<record, fresh, spc, arrived>>
        BY <2>2
        DEF DrainStep, Startup, Dequeue, LeaveLoop, SeedCounter, ThreadDies, BlockRow, MarkBlocked,
            StoreRow, StampRow, MarkDone, MarkError, Consolidate, SetToggle, StopDaemon, CloseStore,
            Start, table, intake, vars
      <3> QED BY <1>2, <2>1, <3>1, AloneAside
    <2>3. CASE WindowPasses
      <3>1. UNCHANGED <<record, spc, arrived>> /\ fresh' \subseteq fresh
        BY <2>3 DEF WindowPasses, intake
      <3> QED BY <1>2, <2>1, <3>1, AloneAside
    <2>4. CASE Exit \/ Crash
      <3>1. UNCHANGED <<record, fresh>> /\ \A s \in Sources : spc'[s] = "idle"
        BY <2>4 DEF Exit, Crash, Down, table
      <3>2. \A s \in Sources : spc'[s] # "insert"
        BY <3>1
      <3> QED BY <1>2, <2>1, <3>1, <3>2, AloneAside
    <2>6. Alone' /\ NoFreshDuplicates'
      BY <1>2, <2>1, <2>2, <2>3, <2>4, AloneIntake DEF Next
    <2> QED BY <2>1, <2>6
  <1> QED BY <1>1, <1>2, PTL DEF Spec
=============================================================================
