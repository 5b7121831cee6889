--------------------------- MODULE TaskQueueProofs ---------------------------
(***************************************************************************)
(* Theorems about TaskQueue and ParallelDrain, for every number of workers *)
(* and every bound.                                                        *)
(*                                                                         *)
(* QueueInv says what the engine's lock protects: between the SELECT and   *)
(* the UPDATE of dequeue_task the selected row stays pending, so no second *)
(* worker of the engine can claim it.  WorkInv says that without stops and *)
(* errors every engine stays open.  DrainInv adds what the counts of the   *)
(* pool stand for (Tallies), what a drain has to finish (Duties), and what *)
(* the calling thread may conclude from each of its looks (Looks).         *)
(***************************************************************************)
EXTENDS ParallelDrain, TLAPS, WellFoundedInduction, FiniteSetTheorems

(* A worker between the two statements holds its engine's lock, and its    *)
(* row is still pending.                                                   *)
SelectedPending ==
  \A w \in Workers :
    pc[w] = "selected" => lock[EngineOf[w]] = w /\ status[held[w]] = "pending"

(* The row of a worker inside _execute_task is claimed.                    *)
ExecutingClaimed ==
  \A w \in Workers : pc[w] \in Executing => status[held[w]] = "claimed"

(* The row a worker has is there: rows are never deleted.                  *)
HeldPresent == \A w \in Workers : held[w] # 0 => status[held[w]] # "absent"

TypeInv == TypeOK /\ HeldPresent

QueueInv ==
  /\ TypeInv
  /\ SelectedPending
  /\ ExecutingClaimed
  /\ ExclusiveClaim

-----------------------------------------------------------------------------
(* Every set of row ids that is not empty has a first one.                 *)
LEMMA FirstIsLeast ==
  ASSUME NEW S \in SUBSET Nat, S # {}
  PROVE  First(S) \in S /\ \A j \in S : First(S) <= j
  <1> DEFINE R == {ss \in Nat \X Nat : ss[1] < ss[2]}
  <1>1. IsWellFoundedOn(R, Nat)
    BY NatLessThanWellFounded DEF OpToRel
  <1>2. PICK x \in S : \A y \in S : ~(<<y, x>> \in R)
    <2> HIDE DEF R
    <2> QED BY <1>1, WFMin
  <1>3. \A j \in S : x <= j
    <2> SUFFICES ASSUME NEW j \in S PROVE x <= j
      OBVIOUS
    <2>1. <<j, x>> \notin R /\ j \in Nat /\ x \in Nat
      BY <1>2
    <2>2. ~(j < x)
      <3> SUFFICES ASSUME j < x PROVE FALSE
        OBVIOUS
      <3> DEFINE p == <<j, x>>
      <3>1. p \in Nat \X Nat /\ p[1] < p[2]
        BY <2>1
      <3> QED BY <3>1, <2>1
    <2> QED BY <2>1, <2>2
  <1> QED BY <1>3 DEF First

LEMMA FirstTask ==
  ASSUME NEW S \in SUBSET Tasks, S # {}
  PROVE  First(S) \in S /\ First(S) \in Tasks /\ \A j \in S : First(S) <= j
  <1>1. S \in SUBSET Nat
    BY BoundsType DEF Tasks
  <1> QED BY <1>1, FirstIsLeast

-----------------------------------------------------------------------------
LEMMA InitQueue == Init => QueueInv
  <1> USE BoundsType, FlagsType
  <1> SUFFICES ASSUME Init PROVE QueueInv
    OBVIOUS
  <1>1. TypeOK
    BY DEF Init, TypeOK, Statuses, Steps, Executing, Tasks
  <1>2. HeldPresent /\ SelectedPending /\ ExecutingClaimed /\ ExclusiveClaim
    BY DEF Init, HeldPresent, SelectedPending, ExecutingClaimed, ExclusiveClaim, Executing
  <1> QED BY <1>1, <1>2 DEF QueueInv, TypeInv

(* Inserting a row changes only the first free one.                        *)
LEMMA InsertType ==
  ASSUME TypeOK, NEW k \in {"extract", "link"}, Absent # {}, Insert(k)
  PROVE  /\ First(Absent) \in Tasks /\ status[First(Absent)] = "absent"
         /\ kind' \in [Tasks -> {"none", "extract", "link"}]
         /\ status' \in [Tasks -> Statuses]
         /\ \A i \in Tasks : kind'[i] = "none" <=> status'[i] = "absent"
         /\ \A i \in Tasks : status[i] # "absent" => status'[i] = status[i]
  <1>1. First(Absent) \in Absent
    BY FirstTask DEF Absent
  <1>2. First(Absent) \in Tasks /\ status[First(Absent)] = "absent"
    BY <1>1 DEF Absent
  <1> DEFINE i == First(Absent)
  <1>3. /\ kind' = [kind EXCEPT ![i] = k]
        /\ status' = [status EXCEPT ![i] = "pending"]
    BY DEF Insert
  <1> HIDE DEF i
  <1> QED BY <1>2, <1>3 DEF TypeOK, Statuses, i

LEMMA RaisesType ==
  ASSUME TypeOK, NEW e \in Engines, Raises(e) \/ Mishap \/ UNCHANGED mishaps
  PROVE  mishaps' \in 0..MaxMishaps
  BY BoundsType DEF TypeOK, Raises, Mishap

(* A worker that leaves its row, or moves on with it.                      *)
LEMMA MoveType ==
  ASSUME TypeOK, NEW w \in Workers, NEW step \in Steps,
         \/ Leave(w, step) /\ step \in {"loop", "dead"}
         \/ /\ Goto(w, step) /\ UNCHANGED held
            /\ pc[w] \in Executing /\ step \in Executing
  PROVE  /\ pc' \in [Workers -> Steps]
         /\ held' \in [Workers -> Tasks \cup {0}]
         /\ \A v \in Workers : held'[v] # 0 <=> pc'[v] \in Executing \cup {"selected"}
  BY DEF TypeOK, Leave, Goto, Executing, Steps

LEMMA TypeStep == TypeInv /\ [Next]_vars => TypeOK'
  <1> SUFFICES ASSUME TypeOK, HeldPresent, [Next]_vars PROVE TypeOK'
    BY DEF TypeInv
  <1> USE EngineOfType, BoundsType
  <1> USE DEF rows, engines, workers, bounds
  <1>1. ASSUME NEW e \in Engines, EnqueueExtract(e) PROVE TypeOK'
    <2>1. Absent # {} /\ Insert("extract")
      BY <1>1 DEF EnqueueExtract
    <2> QED BY <1>1, <2>1, InsertType DEF EnqueueExtract, TypeOK
  <1>2. ASSUME NEW e \in Engines, ResetCompleted(e) PROVE TypeOK'
    BY <1>2 DEF ResetCompleted, TypeOK, Statuses
  <1>3. ASSUME NEW e \in Engines, Stop(e) \/ Close(e) \/ Crash(e) \/ Start(e)
        PROVE TypeOK'
    <2>1. CASE Stop(e)
      BY <2>1, RaisesType DEF Stop, TypeOK
    <2>2. CASE Close(e)
      BY <2>2 DEF Close, TypeOK
    <2>3. CASE Crash(e)
      <3>1. /\ pc' \in [Workers -> Steps]
            /\ held' \in [Workers -> Tasks \cup {0}]
            /\ \A v \in Workers : held'[v] # 0 <=> pc'[v] \in Executing \cup {"selected"}
        BY <2>3 DEF Crash, TypeOK, Steps, Executing
      <3> QED BY <2>3, <3>1, RaisesType DEF Crash, TypeOK
    <2>4. CASE Start(e)
      <3>1. /\ pc' \in [Workers -> Steps]
            /\ \A v \in Workers : held'[v] # 0 <=> pc'[v] \in Executing \cup {"selected"}
        BY <2>4 DEF Start, TypeOK, Steps, Executing, Gone
      <3> QED BY <2>4, <3>1 DEF Start, TypeOK
    <2> QED BY <1>3, <2>1, <2>2, <2>3, <2>4
  <1>4. ASSUME NEW w \in Workers, CheckStop(w) PROVE TypeOK'
    BY <1>4 DEF CheckStop, Goto, TypeOK, Steps, Executing
  <1>5. ASSUME NEW w \in Workers, SelectTask(w) PROVE TypeOK'
    <2>1. CASE Pending = {}
      BY <1>5, <2>1 DEF SelectTask, Goto, TypeOK, Steps, Executing
    <2>2. CASE Pending # {}
      <3>1. First(Pending) \in Tasks
        BY <2>2, FirstTask DEF Pending
      <3>2. First(Pending) # 0
        BY <3>1 DEF Tasks
      <3> QED BY <1>5, <2>2, <3>1, <3>2 DEF SelectTask, Goto, TypeOK, Steps, Executing
    <2> QED BY <2>1, <2>2
  <1>6. ASSUME NEW w \in Workers, ClaimTask(w) PROVE TypeOK'
    BY <1>6 DEF ClaimTask, Goto, TypeOK, HeldPresent, Steps, Statuses, Executing
  <1>7. ASSUME NEW w \in Workers, DequeueFails(w) PROVE TypeOK'
    <2>1. Leave(w, "dead") /\ Raises(EngineOf[w]) /\ EngineOf[w] \in Engines
      BY <1>7 DEF DequeueFails
    <2>2. mishaps' \in 0..MaxMishaps
      BY <2>1, RaisesType
    <2>3. lock' \in [Engines -> Workers \cup {"free"}]
      BY <1>7 DEF DequeueFails, TypeOK
    <2>4. "dead" \in Steps
      BY DEF Steps
    <2> QED BY <1>7, <2>1, <2>2, <2>3, <2>4, MoveType DEF DequeueFails, TypeOK
  <1>8. ASSUME NEW w \in Workers, RunHandler(w) PROVE TypeOK'
    BY <1>8 DEF RunHandler, Goto, TypeOK, Steps, Executing
  <1>9. ASSUME NEW w \in Workers, EnqueueLink(w) PROVE TypeOK'
    <2>1. CASE Absent # {} /\ Insert("link") /\ Goto(w, "completing") /\ UNCHANGED mishaps
      BY <1>9, <2>1, InsertType DEF EnqueueLink, Goto, TypeOK, Steps, Executing
    <2>2. CASE Raises(EngineOf[w]) /\ Goto(w, "failing") /\ UNCHANGED rows
      BY <1>9, <2>2 DEF EnqueueLink, Raises, Mishap, Goto, TypeOK, Steps, Executing
    <2> QED BY <1>9, <2>1, <2>2 DEF EnqueueLink
  <1>10. ASSUME NEW w \in Workers, CompleteTask(w) PROVE TypeOK'
    <2>0. EngineOf[w] \in Engines /\ {"loop", "failing", "dead"} \subseteq Steps
      BY DEF Steps
    <2>1. CASE /\ status' = [status EXCEPT ![held[w]] = "completed"]
               /\ Leave(w, "loop") /\ UNCHANGED mishaps
      <3>1. held[w] \in Tasks /\ status[held[w]] # "absent"
        BY <1>10 DEF CompleteTask, TypeOK, HeldPresent, Executing
      <3> QED BY <1>10, <2>0, <2>1, <3>1, MoveType DEF CompleteTask, TypeOK, Statuses
    <2>2. CASE Raises(EngineOf[w]) /\ Goto(w, "failing") /\ UNCHANGED held /\ UNCHANGED status
      BY <1>10, <2>0, <2>2, MoveType, RaisesType DEF CompleteTask, TypeOK, Executing
    <2> QED BY <1>10, <2>1, <2>2 DEF CompleteTask
  <1>11. ASSUME NEW w \in Workers, FailTask(w) PROVE TypeOK'
    <2>0. EngineOf[w] \in Engines /\ {"loop", "failing", "dead"} \subseteq Steps
      BY DEF Steps
    <2>1. CASE /\ status' = [status EXCEPT ![held[w]] = "failed"]
               /\ Leave(w, "loop") /\ UNCHANGED mishaps
      <3>1. held[w] \in Tasks /\ status[held[w]] # "absent"
        BY <1>11 DEF FailTask, TypeOK, HeldPresent, Executing
      <3> QED BY <1>11, <2>0, <2>1, <3>1, MoveType DEF FailTask, TypeOK, Statuses
    <2>2. CASE Raises(EngineOf[w]) /\ Leave(w, "dead") /\ UNCHANGED status
      BY <1>11, <2>0, <2>2, MoveType, RaisesType DEF FailTask, TypeOK, Executing
    <2> QED BY <1>11, <2>1, <2>2 DEF FailTask
  <1>12. CASE UNCHANGED vars
    BY <1>12 DEF vars, TypeOK
  <1> QED BY <1>1, <1>2, <1>3, <1>4, <1>5, <1>6, <1>7, <1>8, <1>9, <1>10, <1>11, <1>12
          DEF Next, WorkerStep

(* Rows stay: no action makes one absent again.                            *)
LEMMA PresentStep == TypeInv /\ [Next]_vars => HeldPresent'
  <1> USE EngineOfType
  <1> SUFFICES ASSUME TypeOK, HeldPresent, [Next]_vars PROVE HeldPresent'
    BY DEF TypeInv
  <1> USE DEF rows, engines, workers, bounds
  <1>1. \A i \in Tasks : status[i] # "absent" => status'[i] # "absent"
    <2>1. ASSUME NEW e \in Engines, EnqueueExtract(e)
          PROVE \A i \in Tasks : status[i] # "absent" => status'[i] # "absent"
      BY <2>1, InsertType DEF EnqueueExtract
    <2>2. ASSUME NEW w \in Workers, EnqueueLink(w)
          PROVE \A i \in Tasks : status[i] # "absent" => status'[i] # "absent"
      BY <2>2, InsertType DEF EnqueueLink
    <2>3. ASSUME NEW e \in Engines, ResetCompleted(e)
          PROVE \A i \in Tasks : status[i] # "absent" => status'[i] # "absent"
      BY <2>3 DEF ResetCompleted
    <2>4. ASSUME NEW w \in Workers, ClaimTask(w) \/ CompleteTask(w) \/ FailTask(w)
          PROVE \A i \in Tasks : status[i] # "absent" => status'[i] # "absent"
      BY <2>4 DEF ClaimTask, CompleteTask, FailTask, TypeOK
    <2>5. ASSUME \/ UNCHANGED vars
                 \/ \E e \in Engines : Stop(e) \/ Close(e) \/ Crash(e) \/ Start(e)
                 \/ \E w \in Workers : CheckStop(w) \/ SelectTask(w) \/ DequeueFails(w)
                                       \/ RunHandler(w)
          PROVE \A i \in Tasks : status[i] # "absent" => status'[i] # "absent"
      BY <2>5 DEF vars, Stop, Close, Crash, Start, CheckStop, SelectTask, DequeueFails,
                  RunHandler
    <2> QED BY <2>1, <2>2, <2>3, <2>4, <2>5 DEF Next, WorkerStep
  <1>2. \A w \in Workers : held'[w] \in {0, held[w]} \/ status[held'[w]] # "absent"
    <2>1. ASSUME NEW w \in Workers, SelectTask(w)
          PROVE \A v \in Workers : held'[v] \in {0, held[v]} \/ status[held'[v]] # "absent"
      <3>1. CASE Pending = {}
        BY <2>1, <3>1 DEF SelectTask
      <3>2. CASE Pending # {}
        <4>1. status[First(Pending)] = "pending"
          BY <3>2, FirstTask DEF Pending
        <4> QED BY <2>1, <3>2, <4>1 DEF SelectTask, TypeOK
      <3> QED BY <3>1, <3>2
    <2>2. ASSUME NEW w \in Workers,
                 \/ CheckStop(w) \/ ClaimTask(w) \/ DequeueFails(w) \/ RunHandler(w)
                 \/ EnqueueLink(w) \/ CompleteTask(w) \/ FailTask(w)
          PROVE \A v \in Workers : held'[v] \in {0, held[v]} \/ status[held'[v]] # "absent"
      BY <2>2 DEF CheckStop, ClaimTask, DequeueFails, RunHandler, EnqueueLink,
                  CompleteTask, FailTask, Leave, TypeOK
    <2>3. ASSUME NEW e \in Engines,
                 \/ EnqueueExtract(e) \/ ResetCompleted(e) \/ Stop(e) \/ Close(e)
                 \/ Crash(e) \/ Start(e)
          PROVE \A v \in Workers : held'[v] \in {0, held[v]} \/ status[held'[v]] # "absent"
      BY <2>3 DEF EnqueueExtract, ResetCompleted, Stop, Close, Crash, Start, TypeOK
    <2>4. CASE UNCHANGED vars
      BY <2>4 DEF vars
    <2> QED BY <2>1, <2>2, <2>3, <2>4 DEF Next, WorkerStep
  <1>3. TypeOK'
    BY TypeStep DEF TypeInv
  <1> SUFFICES ASSUME NEW w \in Workers, held'[w] # 0 PROVE status'[held'[w]] # "absent"
    BY DEF HeldPresent
  <1>4. held'[w] \in Tasks
    BY <1>3 DEF TypeOK
  <1> QED BY <1>1, <1>2, <1>4 DEF HeldPresent

(* THEOREM: the rows, the lock and the workers keep their types, and a     *)
(* worker has a row exactly between SELECT and complete or fail.           *)
THEOREM QueueTypeCorrect == Spec => []TypeOK
  <1>1. Init => TypeInv
    BY InitQueue DEF QueueInv
  <1>2. TypeInv /\ [Next]_vars => TypeInv'
    BY TypeStep, PresentStep DEF TypeInv
  <1>3. TypeInv => TypeOK
    BY DEF TypeInv
  <1> QED BY <1>1, <1>2, <1>3, PTL DEF Spec

-----------------------------------------------------------------------------
(* As long as nothing was stopped and nothing has raised, every engine is  *)
(* open and nobody has set its stop event.                                 *)
Undisturbed ==
  mishaps = 0 => \A e \in Engines : up[e] /\ ~stopping[e]

WorkInv ==
  /\ TypeInv
  /\ Undisturbed
  /\ ClaimedHasWorker

LEMMA UndisturbedStep == WorkInv /\ [Next]_vars => Undisturbed'
  <1> SUFFICES ASSUME WorkInv, [Next]_vars, mishaps' = 0
               PROVE  \A e \in Engines : up'[e] /\ ~stopping'[e]
    BY DEF Undisturbed
  <1> USE DEF rows, engines, workers, bounds
  <1>1. mishaps \in Nat /\ up \in [Engines -> BOOLEAN] /\ stopping \in [Engines -> BOOLEAN]
    BY BoundsType DEF WorkInv, TypeInv, TypeOK
  <1>2. ASSUME NEW e \in Engines, Stop(e) \/ Crash(e) PROVE FALSE
    BY <1>1, <1>2 DEF Stop, Crash, Mishap
  <1>3. mishaps = 0
    BY <1>1, <1>2 DEF Next, WorkerStep, EnqueueExtract, ResetCompleted, Close, Start, CheckStop,
       SelectTask, ClaimTask, DequeueFails, RunHandler, EnqueueLink, CompleteTask, FailTask,
       Raises, Mishap, vars
  <1>4. \A e \in Engines : up[e] /\ ~stopping[e]
    BY <1>3 DEF WorkInv, Undisturbed
  <1>5. UNCHANGED <<up, stopping>>
    BY <1>2, <1>4 DEF Next, WorkerStep, EnqueueExtract, ResetCompleted, Close, Start, CheckStop,
       SelectTask, ClaimTask, DequeueFails, RunHandler, EnqueueLink, CompleteTask, FailTask, vars
  <1> QED BY <1>4, <1>5

(* While nothing raises, a worker lets go of a claimed row only by         *)
(* completing or failing it.                                               *)
LEMMA WorkStep == WorkInv /\ [Next]_vars => ClaimedHasWorker'
  <1> SUFFICES ASSUME WorkInv, [Next]_vars, mishaps' = 0,
                      NEW i \in Tasks, status'[i] = "claimed"
               PROVE  \E w \in Workers : held'[w] = i /\ pc'[w] \in Executing
    BY DEF ClaimedHasWorker
  <1> USE DEF rows, engines, workers, bounds
  <1>0. TypeOK /\ mishaps \in Nat
    BY BoundsType DEF WorkInv, TypeInv, TypeOK
  <1>1. ASSUME mishaps = 0 PROVE \A w \in Workers : up[EngineOf[w]]
    BY <1>1, EngineOfType DEF WorkInv, Undisturbed
  <1>2. ASSUME status[i] = "claimed", mishaps = 0
        PROVE  \E w \in Workers : held[w] = i /\ pc[w] \in Executing
    BY <1>2 DEF WorkInv, ClaimedHasWorker
  <1>3. ASSUME NEW e \in Engines, EnqueueExtract(e)
        PROVE \E w \in Workers : held'[w] = i /\ pc'[w] \in Executing
    <2>1. Absent # {} /\ Insert("extract") /\ UNCHANGED <<workers, mishaps>>
      BY <1>3 DEF EnqueueExtract
    <2>2. status[i] = "claimed"
      BY <1>0, <2>1, FirstTask DEF Insert, Absent, TypeOK
    <2> QED BY <1>2, <2>1, <2>2
  <1>4. ASSUME NEW e \in Engines, ResetCompleted(e)
        PROVE \E w \in Workers : held'[w] = i /\ pc'[w] \in Executing
    BY <1>0, <1>2, <1>4 DEF ResetCompleted, TypeOK
  <1>5. ASSUME NEW e \in Engines, Stop(e) \/ Close(e) \/ Crash(e) \/ Start(e)
        PROVE \E w \in Workers : held'[w] = i /\ pc'[w] \in Executing
    <2>1. Close(e) \/ Start(e)
      BY <1>0, <1>5 DEF Stop, Crash, Mishap
    <2>2. UNCHANGED <<status, held, mishaps>>
      BY <2>1 DEF Close, Start
    <2>3. mishaps = 0 /\ status[i] = "claimed"
      BY <2>2
    <2>4. up[e] /\ ~stopping[e]
      BY <2>3 DEF WorkInv, Undisturbed
    <2> QED BY <2>1, <2>4 DEF Close, Start
  <1>6. ASSUME NEW w \in Workers, ClaimTask(w)
        PROVE \E v \in Workers : held'[v] = i /\ pc'[v] \in Executing
    <2>1. CASE i = held[w]
      BY <1>0, <1>6, <2>1 DEF ClaimTask, Goto, TypeOK, Executing
    <2>2. CASE i # held[w]
      <3>1. status[i] = "claimed" /\ mishaps = 0
        BY <1>0, <1>6, <2>2 DEF ClaimTask, TypeOK
      <3>2. PICK v \in Workers : held[v] = i /\ pc[v] \in Executing
        BY <1>2, <3>1
      <3> QED BY <1>0, <1>6, <2>2, <3>2 DEF ClaimTask, Goto, TypeOK
    <2> QED BY <2>1, <2>2
  <1>7. ASSUME NEW w \in Workers, EnqueueLink(w)
        PROVE \E v \in Workers : held'[v] = i /\ pc'[v] \in Executing
    <2>1. held' = held /\ pc' \in {[pc EXCEPT ![w] = "completing"], [pc EXCEPT ![w] = "failing"]}
      BY <1>7 DEF EnqueueLink, Goto
    <2>2. mishaps = 0
      BY <1>0, <1>7 DEF EnqueueLink, Raises, Mishap
    <2>3. status[i] = "claimed"
      BY <1>0, <1>7, FirstTask DEF EnqueueLink, Insert, Absent, TypeOK
    <2>4. PICK v \in Workers : held[v] = i /\ pc[v] \in Executing
      BY <1>2, <2>2, <2>3
    <2> QED BY <1>0, <2>1, <2>4 DEF TypeOK, Executing
  <1>8. ASSUME NEW w \in Workers, CompleteTask(w) \/ FailTask(w)
        PROVE \E v \in Workers : held'[v] = i /\ pc'[v] \in Executing
    <2>1. mishaps = 0
      BY <1>0, <1>8 DEF CompleteTask, FailTask, Raises, Mishap
    <2>2. Raises(EngineOf[w]) => FALSE
      BY <1>0, <1>1, <2>1 DEF Raises, Mishap
    <2>3. /\ \E s \in {"completed", "failed"} : status' = [status EXCEPT ![held[w]] = s]
          /\ Leave(w, "loop")
      BY <1>8, <2>2 DEF CompleteTask, FailTask
    <2>4. i # held[w] /\ status[i] = "claimed"
      BY <1>0, <2>3 DEF TypeOK
    <2>5. PICK v \in Workers : held[v] = i /\ pc[v] \in Executing
      BY <1>2, <2>1, <2>4
    <2> QED BY <1>0, <2>3, <2>4, <2>5 DEF Leave, Goto, TypeOK
  <1>9. ASSUME NEW w \in Workers, RunHandler(w)
        PROVE \E v \in Workers : held'[v] = i /\ pc'[v] \in Executing
    <2>1. /\ UNCHANGED <<status, held, mishaps>>
          /\ \E step \in Executing : Goto(w, step)
      BY <1>9 DEF RunHandler, Executing
    <2>2. PICK v \in Workers : held[v] = i /\ pc[v] \in Executing
      BY <1>2, <2>1
    <2> QED BY <1>0, <2>1, <2>2 DEF Goto, TypeOK
  <1>10. ASSUME NEW w \in Workers, CheckStop(w) \/ SelectTask(w) \/ DequeueFails(w)
         PROVE \E v \in Workers : held'[v] = i /\ pc'[v] \in Executing
    <2>1. status' = status /\ mishaps = 0 /\ pc[w] \notin Executing
      BY <1>0, <1>10 DEF CheckStop, SelectTask, DequeueFails, Raises, Mishap, Executing
    <2>2. PICK v \in Workers : held[v] = i /\ pc[v] \in Executing
      BY <1>2, <2>1
    <2>3. v # w
      BY <2>1, <2>2
    <2>4. pc'[v] = pc[v] /\ held'[v] = held[v]
      BY <1>0, <1>10, <2>3 DEF CheckStop, SelectTask, DequeueFails, Leave, Goto, TypeOK
    <2> QED BY <2>2, <2>4
  <1>11. CASE UNCHANGED vars
    BY <1>2, <1>11 DEF vars
  <1> QED BY <1>3, <1>4, <1>5, <1>6, <1>7, <1>8, <1>9, <1>10, <1>11 DEF Next, WorkerStep

(* THEOREM: until something is stopped or raises, a row that is claimed is *)
(* in the hands of a worker, with any number of engines: no task is left   *)
(* claimed that nobody works on, and the count of incomplete tasks is that *)
(* of work still to come.                                                  *)
THEOREM WorkTheorem == Spec => []ClaimedHasWorker
  <1>1. Init => WorkInv
    BY InitQueue DEF Init, QueueInv, WorkInv, Undisturbed, ClaimedHasWorker
  <1>2. WorkInv /\ [Next]_vars => WorkInv'
    BY TypeStep, PresentStep, UndisturbedStep, WorkStep DEF WorkInv, TypeInv
  <1>3. WorkInv => ClaimedHasWorker
    BY DEF WorkInv
  <1> QED BY <1>1, <1>2, <1>3, PTL DEF Spec

-----------------------------------------------------------------------------
(* When rows that are pending or claimed keep their status and no worker   *)
(* takes a row, what QueueInv says of the rows still holds.                *)
LEMMA KeepRows ==
  ASSUME QueueInv,
         \A i \in Tasks : status[i] \in {"pending", "claimed"} => status'[i] = status[i],
         \A w \in Workers :
           \/ pc'[w] \notin Executing \cup {"selected"}
           \/ /\ held'[w] = held[w]
              /\ \/ pc[w] \in Executing /\ pc'[w] \in Executing
                 \/ /\ pc[w] = "selected" /\ pc'[w] = "selected"
                    /\ lock'[EngineOf[w]] = lock[EngineOf[w]]
  PROVE  SelectedPending' /\ ExecutingClaimed' /\ ExclusiveClaim'
  <1> USE DEF QueueInv, TypeInv
  <1>1. \A w \in Workers : pc[w] \in Executing \cup {"selected"} => held[w] \in Tasks
    BY DEF TypeOK
  <1>2. SelectedPending'
    <2> SUFFICES ASSUME NEW w \in Workers, pc'[w] = "selected"
                 PROVE lock'[EngineOf[w]] = w /\ status'[held'[w]] = "pending"
      BY DEF SelectedPending
    <2>1. /\ held'[w] = held[w] /\ pc[w] = "selected"
          /\ lock'[EngineOf[w]] = lock[EngineOf[w]]
      BY DEF Executing
    <2> QED BY <1>1, <2>1 DEF SelectedPending
  <1>3. ExecutingClaimed'
    <2> SUFFICES ASSUME NEW w \in Workers, pc'[w] \in Executing
                 PROVE status'[held'[w]] = "claimed"
      BY DEF ExecutingClaimed
    <2>1. held'[w] = held[w] /\ pc[w] \in Executing
      BY DEF Executing
    <2> QED BY <1>1, <2>1 DEF ExecutingClaimed
  <1>4. ExclusiveClaim'
    <2> SUFFICES ASSUME NEW v \in Workers, NEW w \in Workers, pc'[v] \in Executing,
                        pc'[w] \in Executing, held'[v] = held'[w]
                 PROVE v = w
      BY DEF ExclusiveClaim
    <2>1. held'[v] = held[v] /\ pc[v] \in Executing /\ held'[w] = held[w] /\ pc[w] \in Executing
      BY DEF Executing
    <2> QED BY <2>1 DEF ExclusiveClaim
  <1> QED BY <1>2, <1>3, <1>4

(* One worker finishes its row; nobody else had it.                        *)
LEMMA FinishRow ==
  ASSUME QueueInv, NEW w \in Workers, pc[w] \in Executing, NEW result,
         status' = [status EXCEPT ![held[w]] = result],
         Leave(w, "loop"), UNCHANGED lock
  PROVE  SelectedPending' /\ ExecutingClaimed' /\ ExclusiveClaim'
  <1> USE DEF QueueInv, TypeInv
  <1>1. \A v \in Workers : v # w => pc'[v] = pc[v] /\ held'[v] = held[v]
    BY DEF Leave, Goto, TypeOK
  <1>2. pc'[w] = "loop"
    BY DEF Leave, Goto, TypeOK
  <1>3. status[held[w]] = "claimed"
    BY DEF ExecutingClaimed
  <1>4. \A v \in Workers : pc'[v] \in Executing \cup {"selected"} =>
           v # w /\ held[v] \in Tasks /\ held[v] # held[w] /\ status'[held'[v]] = status[held[v]]
    <2> SUFFICES ASSUME NEW v \in Workers, pc'[v] \in Executing \cup {"selected"}
                 PROVE v # w /\ held[v] \in Tasks /\ held[v] # held[w]
                       /\ status'[held'[v]] = status[held[v]]
      OBVIOUS
    <2>1. v # w /\ pc[v] = pc'[v] /\ held'[v] = held[v]
      BY <1>1, <1>2 DEF Executing
    <2>2. held[v] \in Tasks
      BY <2>1 DEF TypeOK
    <2>3. held[v] # held[w]
      BY <1>3, <2>1 DEF ExclusiveClaim, SelectedPending
    <2> QED BY <2>1, <2>2, <2>3 DEF TypeOK
  <1> QED BY <1>1, <1>4 DEF SelectedPending, ExecutingClaimed, ExclusiveClaim, Executing

LEMMA QueueStep ==
  ASSUME OneEngine
  PROVE  QueueInv /\ [Next]_vars => QueueInv'
  <1> USE EngineOfType
  <1> SUFFICES ASSUME QueueInv, [Next]_vars
               PROVE SelectedPending' /\ ExecutingClaimed' /\ ExclusiveClaim'
    BY TypeStep, PresentStep DEF QueueInv, TypeInv
  <1> USE DEF rows, engines, workers, bounds
  <1>0. TypeOK /\ HeldPresent
    BY DEF QueueInv, TypeInv
  <1>1. ASSUME NEW e \in Engines, EnqueueExtract(e)
        PROVE SelectedPending' /\ ExecutingClaimed' /\ ExclusiveClaim'
    <2>1. \A i \in Tasks : status[i] # "absent" => status'[i] = status[i]
      BY <1>0, <1>1, InsertType DEF EnqueueExtract
    <2> QED BY <1>1, <2>1, KeepRows DEF EnqueueExtract
  <1>2. ASSUME NEW e \in Engines, ResetCompleted(e)
        PROVE SelectedPending' /\ ExecutingClaimed' /\ ExclusiveClaim'
    BY <1>2, KeepRows DEF ResetCompleted
  <1>3. ASSUME NEW e \in Engines, Stop(e) \/ Close(e)
        PROVE SelectedPending' /\ ExecutingClaimed' /\ ExclusiveClaim'
    BY <1>3, KeepRows DEF Stop, Close
  <1>4. ASSUME NEW e \in Engines, Crash(e)
        PROVE SelectedPending' /\ ExecutingClaimed' /\ ExclusiveClaim'
    <2>1. \A w \in Workers :
            \/ pc'[w] \notin Executing \cup {"selected"}
            \/ /\ pc'[w] = pc[w] /\ held'[w] = held[w]
               /\ lock'[EngineOf[w]] = lock[EngineOf[w]]
      BY <1>0, <1>4 DEF Crash, TypeOK, Executing
    <2>2. UNCHANGED status
      BY <1>4 DEF Crash
    <2> QED BY <2>1, <2>2, KeepRows
  <1>5. ASSUME NEW e \in Engines, Start(e)
        PROVE SelectedPending' /\ ExecutingClaimed' /\ ExclusiveClaim'
    <2>1. \A w \in Workers :
            \/ pc'[w] \notin Executing \cup {"selected"}
            \/ pc'[w] = pc[w]
      BY <1>5 DEF Start, Executing
    <2>2. UNCHANGED <<status, lock, held>>
      BY <1>5 DEF Start
    <2> QED BY <2>1, <2>2, KeepRows
  <1>6. ASSUME NEW w \in Workers, CheckStop(w)
        PROVE SelectedPending' /\ ExecutingClaimed' /\ ExclusiveClaim'
    <2>1. \A v \in Workers : pc'[v] \notin Executing \cup {"selected"} \/ pc'[v] = pc[v]
      BY <1>0, <1>6 DEF CheckStop, Goto, TypeOK, Executing
    <2>2. UNCHANGED <<status, lock, held>>
      BY <1>6 DEF CheckStop
    <2> QED BY <2>1, <2>2, KeepRows
  <1>7. ASSUME NEW w \in Workers, SelectTask(w)
        PROVE SelectedPending' /\ ExecutingClaimed' /\ ExclusiveClaim'
    <2>1. CASE Pending = {}
      <3>1. \A v \in Workers : pc'[v] \notin Executing \cup {"selected"} \/ pc'[v] = pc[v]
        BY <1>0, <1>7, <2>1 DEF SelectTask, Goto, TypeOK, Executing
      <3>2. UNCHANGED <<status, lock, held>>
        BY <1>7, <2>1 DEF SelectTask
      <3> QED BY <3>1, <3>2, KeepRows
    <2>2. CASE Pending # {}
      <3>1. First(Pending) \in Tasks /\ status[First(Pending)] = "pending"
        BY <2>2, FirstTask DEF Pending
      <3>2. /\ pc' = [pc EXCEPT ![w] = "selected"]
            /\ held' = [held EXCEPT ![w] = First(Pending)]
            /\ lock' = [lock EXCEPT ![EngineOf[w]] = w]
            /\ lock[EngineOf[w]] = "free"
            /\ UNCHANGED status
        BY <1>7, <2>2 DEF SelectTask, Goto, Free
      <3>3. \A v \in Workers : v # w => pc'[v] # "selected"
        BY <1>0, <3>2, WorkersType DEF OneEngine, QueueInv, SelectedPending, TypeOK
      <3>4. \A v \in Workers : v # w => pc'[v] = pc[v] /\ held'[v] = held[v]
        BY <1>0, <3>2 DEF TypeOK
      <3>5. pc'[w] = "selected" /\ held'[w] = First(Pending) /\ lock'[EngineOf[w]] = w
        BY <1>0, <3>2 DEF TypeOK
      <3> QED BY <3>1, <3>2, <3>3, <3>4, <3>5
              DEF QueueInv, SelectedPending, ExecutingClaimed, ExclusiveClaim, Executing
    <2> QED BY <2>1, <2>2
  <1>8. ASSUME NEW w \in Workers, ClaimTask(w)
        PROVE SelectedPending' /\ ExecutingClaimed' /\ ExclusiveClaim'
    <2>1. lock[EngineOf[w]] = w /\ status[held[w]] = "pending" /\ held[w] \in Tasks
      BY <1>0, <1>8 DEF ClaimTask, QueueInv, SelectedPending, TypeOK
    <2>2. /\ pc' = [pc EXCEPT ![w] = "claimed"] /\ UNCHANGED held
          /\ status' = [status EXCEPT ![held[w]] = "claimed"]
      BY <1>8 DEF ClaimTask, Goto
    <2>3. \A v \in Workers : v # w => pc[v] # "selected" /\ pc'[v] = pc[v]
      BY <1>0, <2>1, <2>2 DEF OneEngine, QueueInv, SelectedPending, TypeOK
    <2>4. \A v \in Workers : pc[v] \in Executing => held[v] \in Tasks /\ held[v] # held[w]
      BY <1>0, <2>1 DEF QueueInv, ExecutingClaimed, TypeOK
    <2>5. pc'[w] = "claimed" /\ status'[held[w]] = "claimed"
      BY <1>0, <2>1, <2>2 DEF TypeOK
    <2>6. \A v \in Workers : v # w /\ pc[v] \in Executing => status'[held[v]] = status[held[v]]
      BY <1>0, <2>2, <2>4 DEF TypeOK
    <2> QED BY <2>2, <2>3, <2>4, <2>5, <2>6
            DEF QueueInv, SelectedPending, ExecutingClaimed, ExclusiveClaim, Executing
  <1>9. ASSUME NEW w \in Workers, DequeueFails(w)
        PROVE SelectedPending' /\ ExecutingClaimed' /\ ExclusiveClaim'
    <2>1. pc' = [pc EXCEPT ![w] = "dead"] /\ held' = [held EXCEPT ![w] = 0] /\ UNCHANGED status
      BY <1>9 DEF DequeueFails, Leave, Goto
    <2>2. lock' = [lock EXCEPT ![EngineOf[w]] = IF @ = w THEN "free" ELSE @]
      BY <1>9 DEF DequeueFails
    <2>3. \A v \in Workers : v # w => pc'[v] = pc[v] /\ held'[v] = held[v]
      BY <1>0, <2>1 DEF TypeOK
    <2>4. \A v \in Workers : v # w /\ pc[v] = "selected" =>
             lock'[EngineOf[v]] = lock[EngineOf[v]]
      BY <1>0, <2>2 DEF QueueInv, SelectedPending, TypeOK
    <2>5. pc'[w] = "dead"
      BY <1>0, <2>1 DEF TypeOK
    <2> QED BY <2>1, <2>3, <2>4, <2>5, KeepRows DEF Executing
  <1>10. ASSUME NEW w \in Workers, RunHandler(w)
         PROVE SelectedPending' /\ ExecutingClaimed' /\ ExclusiveClaim'
    <2>1. \A v \in Workers :
            pc'[v] = pc[v] \/ (pc[v] \in Executing /\ pc'[v] \in Executing)
      BY <1>0, <1>10 DEF RunHandler, Goto, TypeOK, Executing
    <2>2. UNCHANGED <<status, lock, held>>
      BY <1>10 DEF RunHandler
    <2> QED BY <2>1, <2>2, KeepRows
  <1>11. ASSUME NEW w \in Workers, EnqueueLink(w)
         PROVE SelectedPending' /\ ExecutingClaimed' /\ ExclusiveClaim'
    <2>1. \A v \in Workers :
            pc'[v] = pc[v] \/ (pc[v] \in Executing /\ pc'[v] \in Executing)
      BY <1>0, <1>11 DEF EnqueueLink, Goto, TypeOK, Executing
    <2>2. UNCHANGED <<lock, held>>
      BY <1>11 DEF EnqueueLink
    <2>3. \A i \in Tasks : status[i] # "absent" => status'[i] = status[i]
      BY <1>0, <1>11, InsertType DEF EnqueueLink
    <2> QED BY <2>1, <2>2, <2>3, KeepRows
  <1>12. ASSUME NEW w \in Workers, CompleteTask(w)
         PROVE SelectedPending' /\ ExecutingClaimed' /\ ExclusiveClaim'
    <2>1. CASE status' = [status EXCEPT ![held[w]] = "completed"] /\ Leave(w, "loop")
      BY <1>12, <2>1, FinishRow DEF CompleteTask, Executing
    <2>2. CASE Goto(w, "failing") /\ UNCHANGED <<status, held>>
      <3>1. \A v \in Workers :
              pc'[v] = pc[v] \/ (pc[v] \in Executing /\ pc'[v] \in Executing)
        BY <1>0, <1>12, <2>2 DEF CompleteTask, Goto, TypeOK, Executing
      <3> QED BY <1>12, <2>2, <3>1, KeepRows DEF CompleteTask
    <2> QED BY <1>12, <2>1, <2>2 DEF CompleteTask
  <1>13. ASSUME NEW w \in Workers, FailTask(w)
         PROVE SelectedPending' /\ ExecutingClaimed' /\ ExclusiveClaim'
    <2>1. CASE status' = [status EXCEPT ![held[w]] = "failed"] /\ Leave(w, "loop")
      BY <1>13, <2>1, FinishRow DEF FailTask, Executing
    <2>2. CASE Leave(w, "dead") /\ UNCHANGED status
      <3>1. \A v \in Workers :
              pc'[v] \notin Executing \cup {"selected"} \/ (pc'[v] = pc[v] /\ held'[v] = held[v])
        BY <1>0, <2>2 DEF Leave, Goto, TypeOK, Executing
      <3> QED BY <1>13, <2>2, <3>1, KeepRows DEF FailTask
    <2> QED BY <1>13, <2>1, <2>2 DEF FailTask
  <1>14. CASE UNCHANGED vars
    BY <1>14, KeepRows DEF vars
  <1> QED BY <1>1, <1>2, <1>3, <1>4, <1>5, <1>6, <1>7, <1>8, <1>9, <1>10, <1>11, <1>12,
             <1>13, <1>14 DEF Next, WorkerStep

(* THEOREM: any number of workers of one engine, through stops, crashes,   *)
(* restarts, failing statements and resets, never execute one task twice   *)
(* at a time (dequeue_task under the engine's lock).                       *)
THEOREM ClaimTheorem ==
  ASSUME OneEngine
  PROVE  Spec => []ExclusiveClaim
  <1>1. QueueInv => ExclusiveClaim
    BY DEF QueueInv
  <1>2. QueueInv /\ [Next]_vars => QueueInv'
    BY QueueStep
  <1> QED BY <1>1, <1>2, InitQueue, PTL DEF Spec

-----------------------------------------------------------------------------
(* With one engine on the file nothing becomes pending while a worker is   *)
(* between its two statements: its row is still the first one.             *)
SingleEngine == \A e, f \in Engines : e = f

SelectedFirst ==
  \A w \in Workers : pc[w] = "selected" => \A j \in Pending : held[w] <= j

LEMMA NobodySelected ==
  ASSUME SingleEngine, QueueInv, NEW e \in Engines, Free(e)
  PROVE  \A w \in Workers : pc[w] # "selected"
  BY EngineOfType, WorkersType DEF SingleEngine, QueueInv, SelectedPending, Free

LEMMA FirstStep ==
  ASSUME SingleEngine
  PROVE  QueueInv /\ SelectedFirst /\ [Next]_vars => SelectedFirst'
  <1> USE EngineOfType
  <1> SUFFICES ASSUME QueueInv, SelectedFirst, [Next]_vars PROVE SelectedFirst'
    OBVIOUS
  <1> USE DEF rows, engines, workers, bounds
  <1>0. TypeOK
    BY DEF QueueInv, TypeInv
  <1>1. ASSUME NEW w \in Workers, SelectTask(w) PROVE SelectedFirst'
    <2>1. \A v \in Workers : pc[v] # "selected"
      BY <1>1, NobodySelected DEF SelectTask
    <2>2. CASE Pending = {}
      BY <1>0, <1>1, <2>1, <2>2 DEF SelectTask, Goto, SelectedFirst, Pending, TypeOK
    <2>3. CASE Pending # {}
      <3>1. \A j \in Pending : First(Pending) <= j
        BY <2>3, FirstTask DEF Pending
      <3>2. /\ pc' = [pc EXCEPT ![w] = "selected"]
            /\ held' = [held EXCEPT ![w] = First(Pending)]
            /\ Pending' = Pending
        BY <1>1, <2>3 DEF SelectTask, Goto, Pending
      <3> QED BY <1>0, <2>1, <3>1, <3>2 DEF SelectedFirst, TypeOK
    <2> QED BY <2>2, <2>3
  <1>2. ASSUME Pending' \subseteq Pending,
               \A v \in Workers :
                 pc'[v] = "selected" => pc[v] = "selected" /\ held'[v] = held[v]
        PROVE SelectedFirst'
    BY <1>2 DEF SelectedFirst
  <1>3. ASSUME NEW e \in Engines, EnqueueExtract(e) \/ ResetCompleted(e)
        PROVE SelectedFirst'
    BY <1>3, NobodySelected DEF EnqueueExtract, ResetCompleted, SelectedFirst
  <1>4. ASSUME NEW e \in Engines, Stop(e) \/ Close(e) PROVE SelectedFirst'
    <2>1. UNCHANGED <<status, pc, held>>
      BY <1>4 DEF Stop, Close
    <2> QED BY <1>2, <2>1 DEF Pending
  <1>5. ASSUME NEW e \in Engines, Crash(e) \/ Start(e) PROVE SelectedFirst'
    <2>1. UNCHANGED status
      BY <1>5 DEF Crash, Start
    <2>2. \A v \in Workers :
            pc'[v] = "selected" => pc[v] = "selected" /\ held'[v] = held[v]
      BY <1>0, <1>5 DEF Crash, Start, TypeOK
    <2> QED BY <1>2, <2>1, <2>2 DEF Pending
  <1>6. ASSUME NEW w \in Workers, CheckStop(w) \/ RunHandler(w) \/ DequeueFails(w)
        PROVE SelectedFirst'
    <2>1. UNCHANGED status
      BY <1>6 DEF CheckStop, RunHandler, DequeueFails
    <2>2. \A v \in Workers :
            pc'[v] = "selected" => pc[v] = "selected" /\ held'[v] = held[v]
      BY <1>0, <1>6 DEF CheckStop, RunHandler, DequeueFails, Leave, Goto, TypeOK
    <2> QED BY <1>2, <2>1, <2>2 DEF Pending
  <1>7. ASSUME NEW w \in Workers, ClaimTask(w) \/ CompleteTask(w) \/ FailTask(w)
        PROVE SelectedFirst'
    <2>1. Pending' \subseteq Pending
      BY <1>0, <1>7 DEF ClaimTask, CompleteTask, FailTask, Pending, TypeOK
    <2>2. \A v \in Workers :
            pc'[v] = "selected" => pc[v] = "selected" /\ held'[v] = held[v]
      BY <1>0, <1>7 DEF ClaimTask, CompleteTask, FailTask, Leave, Goto, TypeOK
    <2> QED BY <1>2, <2>1, <2>2
  <1>8. ASSUME NEW w \in Workers, EnqueueLink(w) PROVE SelectedFirst'
    <2>1. \A v \in Workers :
            pc'[v] = "selected" => pc[v] = "selected" /\ held'[v] = held[v]
      BY <1>0, <1>8 DEF EnqueueLink, Goto, TypeOK
    <2>2. CASE Free(EngineOf[w])
      BY <2>1, <2>2, NobodySelected DEF SelectedFirst
    <2>3. CASE UNCHANGED rows
      BY <1>2, <2>1, <2>3 DEF Pending
    <2> QED BY <1>8, <2>2, <2>3 DEF EnqueueLink
  <1>9. CASE UNCHANGED vars
    BY <1>2, <1>9 DEF vars, Pending
  <1> QED BY <1>1, <1>3, <1>4, <1>5, <1>6, <1>7, <1>8, <1>9 DEF Next, WorkerStep

LEMMA InsertAdds ==
  ASSUME TypeOK, NEW k \in {"extract", "link"}, Absent # {}, Insert(k)
  PROVE  Atomic!Next
  <1> DEFINE i == First(Absent)
  <1>1. i \in Tasks /\ status[i] = "absent" /\ \A j \in Absent : i <= j
    BY FirstTask DEF Absent
  <1>2. \A j \in Tasks : j < i => status[j] # "absent"
    BY <1>1, BoundsType DEF Absent, Tasks
  <1>3. Atomic!Add(i, k)
    BY <1>1, <1>2 DEF Atomic!Add, Insert
  <1> QED BY <1>1, <1>3 DEF Atomic!Next

(* THEOREM: with one engine on the file the two statements of dequeue_task *)
(* and everything around them - other workers, enqueues, resets, stops,    *)
(* crashes, failing statements - implement a queue whose claim is one      *)
(* step that takes the first pending task.                                 *)
THEOREM QueueRefinement ==
  ASSUME SingleEngine
  PROVE  Spec => ImplementsClaimQueue
  <1> USE EngineOfType
  <1> DEFINE Inv == QueueInv /\ SelectedFirst
  <1>1. OneEngine
    BY DEF SingleEngine, OneEngine
  <1>2. Init => Inv
    BY InitQueue DEF Init, SelectedFirst
  <1>3. Inv /\ [Next]_vars => Inv'
    BY <1>1, QueueStep, FirstStep
  <1>4. Init => Atomic!Init
    BY DEF Init, Atomic!Init
  <1>5. Inv /\ [Next]_vars => [Atomic!Next]_<<kind, status>>
    <2> SUFFICES ASSUME QueueInv, SelectedFirst, [Next]_vars
                 PROVE Atomic!Next \/ UNCHANGED <<kind, status>>
      OBVIOUS
    <2> USE DEF rows, engines, workers, bounds
    <2>0. TypeOK
      BY DEF QueueInv, TypeInv
    <2>1. ASSUME NEW e \in Engines, EnqueueExtract(e) PROVE Atomic!Next
      BY <2>0, <2>1, InsertAdds DEF EnqueueExtract
    <2>2. ASSUME NEW e \in Engines, ResetCompleted(e) PROVE Atomic!Next
      BY <2>2 DEF ResetCompleted, Atomic!Requeue, Atomic!Next
    <2>3. ASSUME NEW w \in Workers, ClaimTask(w) PROVE Atomic!Next
      <3>1. held[w] \in Tasks /\ status[held[w]] = "pending"
        BY <2>0, <2>3 DEF ClaimTask, QueueInv, SelectedPending, TypeOK
      <3>2. Atomic!Take(held[w])
        BY <2>3, <3>1 DEF ClaimTask, SelectedFirst, Pending, Atomic!Take, Atomic!Pending
      <3> QED BY <3>1, <3>2 DEF Atomic!Next
    <2>4. ASSUME NEW w \in Workers, CompleteTask(w) \/ FailTask(w)
          PROVE Atomic!Next \/ UNCHANGED <<kind, status>>
      <3>1. held[w] \in Tasks /\ status[held[w]] = "claimed"
        BY <2>0, <2>4 DEF CompleteTask, FailTask, QueueInv, ExecutingClaimed, Executing, TypeOK
      <3>2. CASE UNCHANGED status
        BY <2>4, <3>2 DEF CompleteTask, FailTask
      <3>3. CASE \E result \in {"completed", "failed"} :
                   status' = [status EXCEPT ![held[w]] = result]
        <4>1. \E result \in {"completed", "failed"} : Atomic!Finish(held[w], result)
          BY <2>4, <3>1, <3>3 DEF CompleteTask, FailTask, Atomic!Finish
        <4> QED BY <3>1, <4>1 DEF Atomic!Next
      <3> QED BY <2>4, <3>2, <3>3 DEF CompleteTask, FailTask
    <2>5. ASSUME NEW w \in Workers, EnqueueLink(w)
          PROVE Atomic!Next \/ UNCHANGED <<kind, status>>
      BY <2>0, <2>5, InsertAdds DEF EnqueueLink
    <2>6. ASSUME \/ \E w \in Workers : CheckStop(w) \/ SelectTask(w) \/ DequeueFails(w)
                                       \/ RunHandler(w)
                 \/ \E e \in Engines : Stop(e) \/ Close(e) \/ Crash(e) \/ Start(e)
                 \/ UNCHANGED vars
          PROVE UNCHANGED <<kind, status>>
      BY <2>6 DEF CheckStop, SelectTask, DequeueFails, RunHandler, Stop, Close, Crash, Start,
                  vars
    <2> QED BY <2>1, <2>2, <2>3, <2>4, <2>5, <2>6 DEF Next, WorkerStep
  <1> QED BY <1>2, <1>3, <1>4, <1>5, PTL DEF Spec, ImplementsClaimQueue, Atomic!Spec

-----------------------------------------------------------------------------
(* ParallelDrain: a pool of one engine, and the thread that waits for it.  *)

LEMMA DrainQueueStep ==
  ASSUME OneEngine
  PROVE  QueueInv /\ [DrainNext]_allVars => QueueInv'
  <1> USE EngineOfType
  <1> SUFFICES ASSUME QueueInv, [DrainNext]_allVars PROVE QueueInv'
    OBVIOUS
  <1> USE DEF rows, engines, workers, bounds
  <1>1. [Next]_vars => QueueInv'
    BY QueueStep
  <1>2. ASSUME NEW e \in Engines, Submit(e) \/ StopDrain(e) PROVE QueueInv'
    BY <1>1, <1>2 DEF Submit, StopDrain, Next
  <1>3. ASSUME NEW w \in Workers, CheckStops(w) PROVE QueueInv'
    <2> DEFINE step == IF localStop \/ stopping[EngineOf[w]] THEN "exited" ELSE "dequeue"
    <2>1. /\ pc[w] = "loop" /\ pc' = [pc EXCEPT ![w] = step] /\ step \in {"exited", "dequeue"}
          /\ UNCHANGED <<kind, status, lock, up, stopping, held, mishaps, resets>>
      BY <1>3 DEF CheckStops, Goto
    <2> HIDE DEF step
    <2>2. TypeOK'
      BY <2>1 DEF QueueInv, TypeInv, TypeOK, Steps, Executing
    <2>3. HeldPresent'
      BY <2>1 DEF QueueInv, TypeInv, HeldPresent
    <2>4. \A v \in Workers : pc'[v] \notin Executing \cup {"selected"} \/ pc'[v] = pc[v]
      BY <2>1 DEF QueueInv, TypeInv, TypeOK, Executing
    <2>5. SelectedPending' /\ ExecutingClaimed' /\ ExclusiveClaim'
      BY <2>1, <2>4, KeepRows
    <2> QED BY <2>2, <2>3, <2>5 DEF QueueInv, TypeInv
  <1>4. ASSUME NEW w \in Workers, Dequeue(w) \/ Execute(w) PROVE QueueInv'
    BY <1>1, <1>4 DEF Dequeue, Execute, Next, WorkerStep
  <1>5. CASE ReadPendingFails
    <2>1. /\ mishaps' \in 0..MaxMishaps
          /\ UNCHANGED <<kind, status, lock, up, stopping, pc, held, resets>>
      BY <1>5, BoundsType DEF ReadPendingFails, Mishap, QueueInv, TypeInv, TypeOK
    <2>2. TypeOK'
      BY <2>1 DEF QueueInv, TypeInv, TypeOK
    <2>3. HeldPresent' /\ SelectedPending' /\ ExecutingClaimed' /\ ExclusiveClaim'
      BY <2>1 DEF QueueInv, TypeInv, HeldPresent, SelectedPending, ExecutingClaimed, ExclusiveClaim
    <2> QED BY <2>2, <2>3 DEF QueueInv, TypeInv
  <1>6. ASSUME \/ \E w \in Workers : CountIn(w) \/ CountDone(w) \/ CountOut(w)
               \/ Begin \/ Poll \/ ReadActive \/ ReadPending \/ Settle \/ ReadPendingAgain \/ JoinPool
               \/ UNCHANGED allVars
        PROVE QueueInv'
    <2>1. UNCHANGED vars
      BY <1>6 DEF CountIn, CountDone, CountOut, Begin, Poll, ReadActive, ReadPending, Settle,
                  ReadPendingAgain, JoinPool, allVars
    <2> QED BY <1>1, <2>1
  <1> QED BY <1>2, <1>3, <1>4, <1>5, <1>6 DEF DrainNext, DrainWorkerStep, MainStep

-----------------------------------------------------------------------------
(* What one step of a worker does to the rows and to the worker.           *)

Idles(w) ==
  /\ pc[w] \in {"loop", "dequeue", "selected"} /\ tally[w] # "active"
  /\ pc'[w] \in {"exited", "dequeue", "loop", "selected", "dead"} /\ (pc[w] = "loop" => tally[w] = "none")
  /\ UNCHANGED <<kind, status, due>>

Claims(w) ==
  /\ pc[w] = "selected" /\ pc'[w] = "claimed" /\ held'[w] = held[w] /\ tally[w] # "active"
  /\ held[w] \in Tasks /\ status[held[w]] = "pending" /\ status' = [status EXCEPT ![held[w]] = "claimed"]
  /\ UNCHANGED <<kind, due>>

Works(w) ==
  /\ pc[w] \in Executing /\ pc'[w] \in Executing /\ held'[w] = held[w] /\ tally[w] = "active"
  /\ pc'[w] = "linking" => kind[held[w]] = "extract"
  /\ UNCHANGED <<kind, status, due>>

Follows(w) ==
  /\ pc[w] = "linking" /\ pc'[w] = "completing" /\ held'[w] = held[w] /\ tally[w] = "active"
  /\ Absent # {} /\ Insert("link")
  /\ due' = IF held[w] \in due THEN due \cup {First(Absent)} ELSE due

Finishes(w) ==
  /\ pc[w] \in Executing /\ pc'[w] = "loop" /\ tally[w] = "active"
  /\ held[w] \in Tasks /\ status[held[w]] = "claimed"
  /\ \E result \in {"completed", "failed"} : status' = [status EXCEPT ![held[w]] = result]
  /\ UNCHANGED <<kind, due>>

Dies(w) ==
  /\ pc[w] \in Executing /\ pc'[w] = "dead" /\ tally[w] = "active"
  /\ UNCHANGED <<kind, status, due>>

(* A thread of the pool has died; the pool was told to stop.               *)
Broken == \E w \in Workers : pc[w] = "dead"
Told == \E e \in Engines : stopping[e]

FinishedTasks == {i \in Tasks : Finished(i)}
Counted == {w \in Workers : tally[w] # "none"}
Uncounted == {w \in Workers : pc[w] = "loop" /\ tally[w] = "active"}

(* The two numbers of the pool: a worker is active from CountIn to         *)
(* CountOut, and a finished row is counted by CountDone.                   *)
Tallies ==
  /\ \A w \in Workers : tally[w] = "active" => pc[w] \in Executing \cup {"loop", "dead"}
  /\ \A w \in Workers : tally[w] = "done" => pc[w] = "loop"
  /\ active = Cardinality(Counted)
  /\ Cardinality(FinishedTasks) = done + Cardinality(Uncounted)

(* Only extractions have follow-ups; what is due is there; and a claimed   *)
(* row has a living worker, unless one has died.                           *)
Duties ==
  /\ \A w \in Workers : pc[w] = "linking" => kind[held[w]] = "extract"
  /\ \A i \in due : status[i] # "absent"
  /\ \A i \in Tasks : status[i] = "claimed" =>
       Broken \/ \E w \in Workers : held[w] = i /\ pc[w] \in Executing

(* What may still have a follow-up.                                        *)
OpenExtracts == {i \in due : ~Finished(i) /\ kind[i] = "extract"}

InHandOf(w, i) == held[w] = i /\ pc[w] \in Executing

(* What the caller has seen: after its first look every extraction that is *)
(* due and not finished is in the hand of a worker, after the pause of one *)
(* that has counted itself, and when the second look finds none active     *)
(* there is none.  What is pending then is not due.                        *)
Looks ==
  /\ main = "settle" => \A i \in OpenExtracts : \E w \in Workers :
       InHandOf(w, i) /\ (w \in late \/ tally[w] = "active")
  /\ main = "active2" => \A i \in OpenExtracts : \E w \in Workers :
       InHandOf(w, i) /\ tally[w] = "active"
  /\ main = "pending2" /\ seen = 0 => OpenExtracts = {}
  /\ main \in {"join", "returned"} => OpenExtracts = {} /\ due \cap Pending = {}

Joined ==
  /\ main \in {"returned", "raised"} => \A w \in Workers : pc[w] \in Gone /\ tally[w] = "none"
  /\ main = "returned" => ~Broken

DrainInv ==
  /\ QueueInv /\ DrainTypeOK
  /\ Tallies
  /\ Duties
  /\ Told \/ Broken \/ Looks
  /\ Joined

LEMMA WorkerSteps ==
  ASSUME QueueInv, DrainTypeOK, Tallies, NEW w \in Workers, CheckStops(w) \/ Dequeue(w) \/ Execute(w)
  PROVE  /\ \A v \in Workers \ {w} : pc'[v] = pc[v] /\ held'[v] = held[v]
         /\ UNCHANGED <<stopping, main, seen, active, done, tally, localStop, late>>
         /\ Idles(w) \/ Claims(w) \/ Works(w) \/ Follows(w) \/ Finishes(w) \/ Dies(w)
  <1> USE DEF rows, engines, workers, bounds, caller, counters, drainVars
  <1>0. TypeOK
    BY DEF QueueInv, TypeInv
  <1>1. UNCHANGED <<stopping, main, seen, active, done, tally, localStop, late>>
    BY DEF CheckStops, Dequeue, SelectTask, ClaimTask, DequeueFails, Execute, RunHandler, EnqueueLink,
           CompleteTask, FailTask
  <1>2. \A v \in Workers \ {w} : pc'[v] = pc[v] /\ held'[v] = held[v]
    <2>1. CASE CheckStops(w)
      BY <1>0, <2>1 DEF CheckStops, Goto, TypeOK
    <2>2. CASE Dequeue(w)
      BY <1>0, <2>2 DEF Dequeue, SelectTask, ClaimTask, DequeueFails, Leave, Goto, TypeOK
    <2>3. CASE Execute(w)
      BY <1>0, <2>3 DEF Execute, RunHandler, EnqueueLink, CompleteTask, FailTask, Leave, Goto, TypeOK
    <2> QED BY <2>1, <2>2, <2>3
  <1>3. CASE CheckStops(w)
    <2>1. pc[w] = "loop" /\ tally[w] = "none" /\ pc'[w] \in {"exited", "dequeue"} /\ UNCHANGED <<kind, status, due>>
      BY <1>0, <1>3 DEF CheckStops, Goto, TypeOK
    <2> QED BY <1>1, <1>2, <2>1 DEF Idles
  <1>4. CASE SelectTask(w) /\ UNCHANGED drainVars
    <2>1. pc[w] = "dequeue" /\ pc'[w] \in {"loop", "selected"} /\ UNCHANGED <<kind, status, due>>
      BY <1>0, <1>4 DEF SelectTask, Goto, TypeOK
    <2>2. tally[w] # "active"
      BY <2>1 DEF Tallies, Executing
    <2> QED BY <1>1, <1>2, <2>1, <2>2 DEF Idles
  <1>5. CASE ClaimTask(w) /\ UNCHANGED drainVars
    <2>1. /\ pc[w] = "selected" /\ pc'[w] = "claimed" /\ held' = held
          /\ status' = [status EXCEPT ![held[w]] = "claimed"] /\ UNCHANGED <<kind, due>>
      BY <1>0, <1>5 DEF ClaimTask, Goto, TypeOK
    <2>2. held[w] \in Tasks /\ status[held[w]] = "pending"
      BY <1>0, <2>1 DEF QueueInv, SelectedPending, TypeOK
    <2>3. tally[w] # "active"
      BY <2>1 DEF Tallies, Executing
    <2> QED BY <1>1, <1>2, <2>1, <2>2, <2>3 DEF Claims
  <1>6. CASE DequeueFails(w) /\ UNCHANGED drainVars
    <2>1. pc[w] \in {"dequeue", "selected"} /\ pc'[w] = "dead" /\ UNCHANGED <<kind, status, due>>
      BY <1>0, <1>6 DEF DequeueFails, Leave, Goto, TypeOK
    <2>2. tally[w] # "active"
      BY <2>1 DEF Tallies, Executing
    <2> QED BY <1>1, <1>2, <2>1, <2>2 DEF Idles
  <1>7. CASE Execute(w)
    <2> DEFINE New == {i \in Tasks : status[i] = "absent" /\ status'[i] # "absent"}
    <2>1. tally[w] = "active" /\ due' = IF held[w] \in due THEN due \cup New ELSE due
      BY <1>7 DEF Execute
    <2>2. status' = status => New = {}
      BY Zenon
    <2>3. CASE RunHandler(w)
      <3>1. /\ pc[w] = "claimed" /\ pc'[w] \in {"completing", "failing", "linking"} /\ held' = held
            /\ pc'[w] = "linking" => kind[held[w]] = "extract"
            /\ UNCHANGED <<kind, status>>
        BY <1>0, <2>3 DEF RunHandler, Goto, TypeOK
      <3> HIDE DEF New
      <3>2. due' = due
        BY <2>1, <2>2, <3>1
      <3> QED BY <1>1, <1>2, <2>1, <3>1, <3>2 DEF Works, Executing
    <2>4. CASE EnqueueLink(w)
      <3>1. CASE Absent # {} /\ Insert("link") /\ Goto(w, "completing")
        <4>1. First(Absent) \in Tasks /\ status[First(Absent)] = "absent"
          BY <1>0, <3>1, InsertType
        <4>2. New = {First(Absent)}
          BY <1>0, <3>1, <4>1 DEF Insert, TypeOK
        <4>3. pc[w] = "linking" /\ pc'[w] = "completing" /\ held' = held
          BY <1>0, <2>4, <3>1 DEF EnqueueLink, Goto, TypeOK
        <4> HIDE DEF New
        <4> QED BY <1>1, <1>2, <2>1, <3>1, <4>2, <4>3 DEF Follows
      <3>2. CASE Goto(w, "failing") /\ UNCHANGED <<kind, status>>
        <4>1. pc[w] = "linking" /\ pc'[w] = "failing" /\ held' = held
          BY <1>0, <2>4, <3>2 DEF EnqueueLink, Goto, TypeOK
        <4> HIDE DEF New
        <4>2. due' = due
          BY <2>1, <2>2, <3>2
        <4> QED BY <1>1, <1>2, <2>1, <3>2, <4>1, <4>2 DEF Works, Executing
      <3> QED BY <2>4, <3>1, <3>2 DEF EnqueueLink
    <2>5. CASE CompleteTask(w) \/ FailTask(w)
      <3>1. /\ pc[w] \in Executing /\ held[w] \in Tasks /\ status[held[w]] = "claimed" /\ kind' = kind
        BY <1>0, <2>5 DEF CompleteTask, FailTask, QueueInv, ExecutingClaimed, TypeOK, Executing
      <3>2. CASE \E result \in {"completed", "failed"} :
                   status' = [status EXCEPT ![held[w]] = result] /\ Leave(w, "loop")
        <4>1. PICK result \in {"completed", "failed"} : status' = [status EXCEPT ![held[w]] = result] /\ Leave(w, "loop")
          BY <3>2
        <4>2. pc'[w] = "loop"
          BY <1>0, <4>1 DEF Leave, Goto, TypeOK
        <4>3. New = {}
          BY <1>0, <3>1, <4>1 DEF TypeOK
        <4> HIDE DEF New
        <4>4. due' = due
          BY <2>1, <4>3
        <4> QED BY <1>1, <1>2, <2>1, <3>1, <4>1, <4>2, <4>4 DEF Finishes
      <3>3. CASE status' = status /\ ((Goto(w, "failing") /\ held' = held) \/ Leave(w, "dead"))
        <4>1. pc'[w] = "dead" \/ (pc'[w] = "failing" /\ held' = held)
          <5>1. CASE Goto(w, "failing") /\ held' = held
            BY <1>0, <5>1 DEF Goto, TypeOK
          <5>2. CASE Leave(w, "dead")
            BY <1>0, <5>2 DEF Leave, Goto, TypeOK
          <5> QED BY <3>3, <5>1, <5>2
        <4> HIDE DEF New
        <4>2. due' = due
          BY <2>1, <2>2, <3>3
        <4> QED BY <1>1, <1>2, <2>1, <3>1, <3>3, <4>1, <4>2 DEF Works, Dies, Executing
      <3> QED BY <2>5, <3>2, <3>3 DEF CompleteTask, FailTask
    <2> QED BY <1>7, <2>3, <2>4, <2>5 DEF Execute
  <1> QED BY <1>3, <1>4, <1>5, <1>6, <1>7 DEF Dequeue

(* What the steps of the calling thread leave as it is.                    *)
LEMMA CallerSteps ==
  ASSUME Begin \/ MainStep
  PROVE  UNCHANGED <<kind, status, stopping, pc, held, active, done, tally>> /\ (Begin \/ due' = due)
  BY DEF Begin, MainStep, Poll, ReadActive, ReadPending, Settle, ReadPendingAgain, ReadPendingFails,
         JoinPool, vars, rows, engines, workers, counters

-----------------------------------------------------------------------------
LEMMA PoolFinite ==
  /\ IsFiniteSet(Tasks)
  /\ \A S \in SUBSET Tasks : IsFiniteSet(S) /\ Cardinality(S) \in Nat
  /\ \A S \in SUBSET Workers : IsFiniteSet(S) /\ Cardinality(S) \in Nat
  <1>1. IsFiniteSet(Tasks)
    BY BoundsType, FS_Interval DEF Tasks
  <1>2. \A S \in SUBSET Tasks : IsFiniteSet(S) /\ Cardinality(S) \in Nat
    BY <1>1, FS_Subset, FS_CardinalityType
  <1>3. \A S \in SUBSET Workers : IsFiniteSet(S) /\ Cardinality(S) \in Nat
    BY WorkersType, FS_Subset, FS_CardinalityType
  <1> QED BY <1>1, <1>2, <1>3

(* Rows that are not finished by a step are finished after it if they were *)
(* before it.                                                              *)
LEMMA NothingFinished ==
  ASSUME TypeOK, NEW w \in Workers, Idles(w) \/ Claims(w) \/ Works(w) \/ Follows(w) \/ Dies(w)
  PROVE  \A i \in Tasks : Finished(i)' <=> Finished(i)
  <1>1. CASE status' = status
    BY <1>1 DEF Finished
  <1>2. CASE Claims(w)
    BY <1>2 DEF Claims, Finished, TypeOK
  <1>3. CASE Follows(w)
    <2>1. /\ First(Absent) \in Tasks /\ status[First(Absent)] = "absent"
          /\ status' = [status EXCEPT ![First(Absent)] = "pending"]
      BY <1>3, InsertType DEF Follows, Insert
    <2> QED BY <2>1 DEF Finished, TypeOK
  <1> QED BY <1>1, <1>2, <1>3 DEF Idles, Works, Dies

LEMMA TalliesStep ==
  ASSUME QueueInv, DrainTypeOK, Tallies, [DrainNext]_allVars
  PROVE  Tallies' /\ active' \in Nat /\ done' \in Nat /\ tally' \in [Workers -> {"none", "active", "done"}]
  <1>0. /\ TypeOK /\ active \in Nat /\ done \in Nat /\ tally \in [Workers -> {"none", "active", "done"}]
        /\ Cardinality(Uncounted) \in Nat /\ Cardinality(FinishedTasks) \in Nat
    BY PoolFinite DEF DrainTypeOK, Uncounted, FinishedTasks
  <1>1. ASSUME UNCHANGED <<active, done, tally>>,
               \A w \in Workers : tally[w] = "active" => pc'[w] \in Executing \cup {"loop", "dead"},
               \A w \in Workers : tally[w] = "done" => pc'[w] = "loop",
               Cardinality(FinishedTasks') = done + Cardinality(Uncounted')
        PROVE  Tallies'
    BY <1>1 DEF Tallies, Counted
  <1>2. ASSUME UNCHANGED <<active, done, tally, pc>>, \A i \in Tasks : Finished(i)' <=> Finished(i)
        PROVE  Tallies'
    <2>1. FinishedTasks' = FinishedTasks
      BY <1>2 DEF FinishedTasks
    <2>2. Uncounted' = Uncounted
      BY <1>2 DEF Uncounted
    <2> QED BY <1>2, <2>1, <2>2 DEF Tallies, Counted
  <1>3. ASSUME NEW w \in Workers, CheckStops(w) \/ Dequeue(w) \/ Execute(w) PROVE Tallies'
    <2>1. /\ \A v \in Workers \ {w} : pc'[v] = pc[v]
          /\ UNCHANGED <<active, done, tally>>
          /\ Idles(w) \/ Claims(w) \/ Works(w) \/ Follows(w) \/ Finishes(w) \/ Dies(w)
      BY <1>3, WorkerSteps
    <2>2. \A v \in Workers : tally[v] = "active" => pc'[v] \in Executing \cup {"loop", "dead"}
      BY <2>1 DEF Tallies, Idles, Claims, Works, Follows, Finishes, Dies, Executing
    <2>3. \A v \in Workers : tally[v] = "done" => pc'[v] = "loop"
      BY <2>1 DEF Tallies, Idles, Claims, Works, Follows, Finishes, Dies, Executing
    <2>4. CASE Finishes(w)
      <3>1. Uncounted' = Uncounted \cup {w} /\ w \notin Uncounted
        BY <2>1, <2>4 DEF Finishes, Uncounted, Executing
      <3>2. FinishedTasks' = FinishedTasks \cup {held[w]} /\ held[w] \notin FinishedTasks
        BY <1>0, <2>4 DEF Finishes, FinishedTasks, Finished, TypeOK
      <3>3. Cardinality(Uncounted') = Cardinality(Uncounted) + 1
        BY <3>1, PoolFinite, FS_AddElement DEF Uncounted
      <3>4. Cardinality(FinishedTasks') = Cardinality(FinishedTasks) + 1
        BY <3>2, PoolFinite, FS_AddElement DEF FinishedTasks
      <3>5. Cardinality(FinishedTasks') = done + Cardinality(Uncounted')
        BY <1>0, <3>3, <3>4 DEF Tallies
      <3> QED BY <1>1, <2>1, <2>2, <2>3, <3>5
    <2>5. CASE ~Finishes(w)
      <3>1. \A i \in Tasks : Finished(i)' <=> Finished(i)
        BY <1>0, <2>1, <2>5, NothingFinished
      <3>2. FinishedTasks' = FinishedTasks
        BY <3>1 DEF FinishedTasks
      <3>3. w \notin Uncounted /\ ~(pc'[w] = "loop" /\ tally[w] = "active")
        BY <2>1, <2>5 DEF Idles, Claims, Works, Follows, Dies, Uncounted, Executing
      <3>4. Uncounted' = Uncounted
        BY <2>1, <3>3 DEF Uncounted
      <3> QED BY <1>1, <2>1, <2>2, <2>3, <3>2, <3>4 DEF Tallies
    <2> QED BY <2>4, <2>5
  <1>4. ASSUME NEW w \in Workers, CountIn(w)
        PROVE  Tallies' /\ active' \in Nat /\ tally' \in [Workers -> {"none", "active", "done"}]
    <2>1. /\ pc[w] = "claimed" /\ tally[w] = "none" /\ tally' = [tally EXCEPT ![w] = "active"]
          /\ active' = active + 1 /\ UNCHANGED <<done, pc, status>>
      BY <1>4 DEF CountIn, vars
    <2>2. Counted' = Counted \cup {w} /\ w \notin Counted
      BY <1>0, <2>1 DEF Counted
    <2>3. Cardinality(Counted') = Cardinality(Counted) + 1
      BY <2>2, PoolFinite, FS_AddElement DEF Counted
    <2>4. Uncounted' = Uncounted /\ FinishedTasks' = FinishedTasks
      BY <1>0, <2>1 DEF Uncounted, FinishedTasks, Finished
    <2>5. /\ \A v \in Workers : tally'[v] = "active" => pc'[v] \in Executing \cup {"loop", "dead"}
          /\ \A v \in Workers : tally'[v] = "done" => pc'[v] = "loop"
      BY <1>0, <2>1 DEF Tallies, Executing
    <2>6. Tallies'
      BY <1>0, <2>1, <2>3, <2>4, <2>5 DEF Tallies
    <2> QED BY <1>0, <2>1, <2>6
  <1>5. ASSUME NEW w \in Workers, CountDone(w)
        PROVE  Tallies' /\ done' \in Nat /\ tally' \in [Workers -> {"none", "active", "done"}]
    <2>1. /\ pc[w] = "loop" /\ tally[w] = "active" /\ tally' = [tally EXCEPT ![w] = "done"]
          /\ done' = done + 1 /\ UNCHANGED <<active, pc, status>>
      BY <1>5 DEF CountDone, vars, caller
    <2>2. Counted' = Counted
      BY <1>0, <2>1 DEF Counted
    <2>3. Uncounted' = Uncounted \ {w} /\ w \in Uncounted /\ FinishedTasks' = FinishedTasks
      BY <1>0, <2>1 DEF Uncounted, FinishedTasks, Finished
    <2>4. Cardinality(Uncounted') = Cardinality(Uncounted) - 1
      BY <2>3, PoolFinite, FS_RemoveElement DEF Uncounted
    <2>5. /\ \A v \in Workers : tally'[v] = "active" => pc'[v] \in Executing \cup {"loop", "dead"}
          /\ \A v \in Workers : tally'[v] = "done" => pc'[v] = "loop"
      BY <1>0, <2>1 DEF Tallies, Executing
    <2>6. Cardinality(FinishedTasks') = done' + Cardinality(Uncounted')
      BY <1>0, <2>1, <2>3, <2>4 DEF Tallies
    <2>7. Tallies'
      BY <2>1, <2>2, <2>5, <2>6 DEF Tallies
    <2> QED BY <1>0, <2>1, <2>7
  <1>6. ASSUME NEW w \in Workers, CountOut(w)
        PROVE  Tallies' /\ active' \in Nat /\ tally' \in [Workers -> {"none", "active", "done"}]
    <2>1. /\ tally[w] = "done" \/ (tally[w] = "active" /\ pc[w] = "dead")
          /\ tally' = [tally EXCEPT ![w] = "none"]
          /\ active' = active - 1 /\ UNCHANGED <<done, pc, status>>
      BY <1>6 DEF CountOut, vars, caller
    <2>2. Counted' = Counted \ {w} /\ w \in Counted
      BY <1>0, <2>1 DEF Counted
    <2>3. Cardinality(Counted') = Cardinality(Counted) - 1
      BY <2>2, PoolFinite, FS_RemoveElement DEF Counted
    <2>4. Uncounted' = Uncounted /\ FinishedTasks' = FinishedTasks
      BY <1>0, <2>1 DEF Uncounted, FinishedTasks, Finished
    <2>5. /\ \A v \in Workers : tally'[v] = "active" => pc'[v] \in Executing \cup {"loop", "dead"}
          /\ \A v \in Workers : tally'[v] = "done" => pc'[v] = "loop"
      BY <1>0, <2>1 DEF Tallies, Executing
    <2>6. Cardinality(Counted') \in Nat
      BY PoolFinite, <2>2 DEF Counted
    <2>7. Tallies'
      BY <1>0, <2>1, <2>3, <2>4, <2>5 DEF Tallies
    <2>8. active' \in Nat
      BY <2>6, <2>7 DEF Tallies
    <2> QED BY <1>0, <2>1, <2>7, <2>8
  <1>7. ASSUME NEW e \in Engines, Submit(e) \/ StopDrain(e) PROVE Tallies'
    <2>1. UNCHANGED <<active, done, tally, pc>>
      BY <1>7 DEF Submit, StopDrain, EnqueueExtract, Stop, workers, drainVars
    <2>2. \A i \in Tasks : Finished(i)' <=> Finished(i)
      <3>1. CASE Submit(e)
        <4>1. Absent # {} /\ Insert("extract")
          BY <3>1 DEF Submit, EnqueueExtract
        <4>2. /\ First(Absent) \in Tasks /\ status[First(Absent)] = "absent"
              /\ status' = [status EXCEPT ![First(Absent)] = "pending"]
          BY <1>0, <4>1, InsertType DEF Insert
        <4> QED BY <1>0, <4>2 DEF Finished, TypeOK
      <3>2. CASE StopDrain(e)
        BY <3>2 DEF StopDrain, Stop, rows, Finished
      <3> QED BY <1>7, <3>1, <3>2
    <2> QED BY <1>2, <2>1, <2>2
  <1>8. ASSUME Begin \/ MainStep \/ UNCHANGED allVars PROVE Tallies'
    <2>1. UNCHANGED <<status, active, done, tally, pc>>
      BY <1>8, CallerSteps DEF allVars, vars, drainVars
    <2>2. \A i \in Tasks : Finished(i)' <=> Finished(i)
      BY <2>1 DEF Finished
    <2>3. UNCHANGED <<active, done, tally, pc>>
      BY <2>1
    <2> QED BY <1>2, <2>2, <2>3
  <1>9. \/ UNCHANGED <<active, done, tally>>
        \/ \E w \in Workers : CountIn(w) \/ CountDone(w) \/ CountOut(w)
    <2>1. ASSUME NEW w \in Workers, CheckStops(w) \/ Dequeue(w) \/ Execute(w) PROVE UNCHANGED <<active, done, tally>>
      BY <2>1, WorkerSteps
    <2> QED BY <2>1, CallerSteps DEF DrainNext, DrainWorkerStep, Submit, StopDrain, allVars, drainVars
  <1>10. UNCHANGED done \/ \E w \in Workers : CountDone(w)
    BY <1>9 DEF CountIn, CountOut
  <1>11. UNCHANGED active \/ \E w \in Workers : CountIn(w) \/ CountOut(w)
    BY <1>9 DEF CountDone
  <1>12. Tallies'
    BY <1>3, <1>4, <1>5, <1>6, <1>7, <1>8 DEF DrainNext, DrainWorkerStep
  <1> QED BY <1>0, <1>4, <1>5, <1>6, <1>9, <1>10, <1>11, <1>12

LEMMA DrainTypeStep ==
  ASSUME QueueInv, DrainTypeOK, Tallies, [DrainNext]_allVars, TypeOK'
  PROVE  DrainTypeOK'
  <1>1. active' \in Nat /\ done' \in Nat /\ tally' \in [Workers -> {"none", "active", "done"}]
    BY TalliesStep
  <1>2. main' \in MainSteps /\ seen' \in Nat /\ localStop' \in BOOLEAN /\ late' \subseteq Workers /\ due' \subseteq Tasks
    <2>1. ASSUME NEW w \in Workers, CheckStops(w) \/ Dequeue(w) \/ Execute(w) PROVE <1>2
      <3>1. UNCHANGED <<main, seen, localStop, late>>
        BY <2>1, WorkerSteps
      <3>2. due' \subseteq Tasks
        <4>1. Follows(w) => First(Absent) \in Tasks
          BY InsertType DEF DrainTypeOK, Follows
        <4> QED BY <2>1, <4>1, WorkerSteps DEF DrainTypeOK, Idles, Claims, Works, Follows, Finishes, Dies
      <3> QED BY <3>1, <3>2 DEF DrainTypeOK
    <2>2. ASSUME NEW w \in Workers, CountIn(w) \/ CountDone(w) \/ CountOut(w) PROVE <1>2
      BY <2>2 DEF CountIn, CountDone, CountOut, caller, DrainTypeOK
    <2>3. ASSUME NEW e \in Engines, Submit(e) \/ StopDrain(e) PROVE <1>2
      BY <2>3 DEF Submit, StopDrain, drainVars, DrainTypeOK
    <2>4. CASE Begin
      BY <2>4 DEF Begin, DrainTypeOK, MainSteps
    <2>5. CASE Poll \/ ReadActive \/ Settle \/ ReadPendingAgain \/ ReadPendingFails \/ JoinPool
      BY <2>5 DEF Poll, ReadActive, Settle, ReadPendingAgain, ReadPendingFails, JoinPool, StopPool,
                  DrainTypeOK, MainSteps
    <2>6. CASE ReadPending
      BY <2>6 DEF ReadPending, Window, DrainTypeOK, MainSteps
    <2>7. CASE UNCHANGED allVars
      BY <2>7 DEF allVars, drainVars, DrainTypeOK
    <2> QED BY <2>1, <2>2, <2>3, <2>4, <2>5, <2>6, <2>7 DEF DrainNext, DrainWorkerStep, MainStep
  <1> QED BY <1>1, <1>2 DEF DrainTypeOK

(* A thread that died is dead, and stop() is not taken back.               *)
LEMMA NeverAgain ==
  ASSUME QueueInv, DrainTypeOK, Tallies, [DrainNext]_allVars
  PROVE  (Broken => Broken') /\ (Told => Told')
  <1>1. ASSUME NEW w \in Workers, CheckStops(w) \/ Dequeue(w) \/ Execute(w)
        PROVE  (Broken => Broken') /\ (Told => Told')
    <2>1. /\ \A v \in Workers \ {w} : pc'[v] = pc[v]
          /\ UNCHANGED stopping /\ pc[w] # "dead"
      BY <1>1, WorkerSteps DEF Idles, Claims, Works, Follows, Finishes, Dies, Executing
    <2> QED BY <2>1 DEF Broken, Told
  <1>2. ASSUME NEW e \in Engines, Submit(e) \/ StopDrain(e)
        PROVE  (Broken => Broken') /\ (Told => Told')
    BY <1>2 DEF Submit, StopDrain, EnqueueExtract, Stop, workers, engines, Broken, Told, QueueInv, TypeInv, TypeOK
  <1>3. ASSUME UNCHANGED <<pc, stopping>> PROVE (Broken => Broken') /\ (Told => Told')
    BY <1>3 DEF Broken, Told
  <1>4. ASSUME NEW w \in Workers, CountIn(w) \/ CountDone(w) \/ CountOut(w) PROVE UNCHANGED <<pc, stopping>>
    BY <1>4 DEF CountIn, CountDone, CountOut, vars
  <1>5. CASE UNCHANGED allVars
    BY <1>3, <1>5 DEF allVars, vars
  <1> QED BY <1>1, <1>2, <1>3, <1>4, <1>5, CallerSteps DEF DrainNext, DrainWorkerStep

LEMMA DutiesStep ==
  ASSUME QueueInv, DrainTypeOK, Tallies, Duties, [DrainNext]_allVars
  PROVE  Duties'
  <1>0. TypeOK /\ (Broken => Broken')
    BY NeverAgain DEF DrainTypeOK
  <1>1. \A w \in Workers : pc[w] \in Executing => held[w] \in Tasks /\ status[held[w]] = "claimed"
    BY <1>0 DEF QueueInv, ExecutingClaimed, TypeOK
  <1>2. ASSUME UNCHANGED <<kind, status, pc, held>>, \A i \in due' : status[i] # "absent"
        PROVE  Duties'
    BY <1>2 DEF Duties, Broken
  <1>3. ASSUME NEW k \in {"extract", "link"}, Absent # {}, Insert(k)
        PROVE  /\ First(Absent) \in Tasks /\ status[First(Absent)] = "absent"
               /\ \A i \in Tasks : status[i] # "absent" => kind'[i] = kind[i] /\ status'[i] = status[i]
               /\ status'[First(Absent)] = "pending"
               /\ \A i \in Tasks : status'[i] = "claimed" => status[i] = "claimed"
    <2>1. First(Absent) \in Tasks /\ status[First(Absent)] = "absent"
      BY <1>0, <1>3, InsertType
    <2> QED BY <1>0, <1>3, <2>1 DEF Insert, TypeOK
  <1>4. ASSUME NEW w \in Workers, CheckStops(w) \/ Dequeue(w) \/ Execute(w) PROVE Duties'
    <2>1. /\ \A v \in Workers \ {w} : pc'[v] = pc[v] /\ held'[v] = held[v]
          /\ Idles(w) \/ Claims(w) \/ Works(w) \/ Follows(w) \/ Finishes(w) \/ Dies(w)
      BY <1>4, WorkerSteps
    <2>2. \A v \in Workers : pc'[v] = "linking" => kind'[held'[v]] = "extract"
      <3>1. CASE ~Follows(w)
        BY <2>1, <3>1 DEF Duties, Idles, Claims, Works, Finishes, Dies
      <3>2. CASE Follows(w)
        <4>1. \A i \in Tasks : status[i] # "absent" => kind'[i] = kind[i]
          BY <1>3, <3>2 DEF Follows
        <4>2. \A v \in Workers : pc[v] = "linking" => held[v] \in Tasks /\ status[held[v]] # "absent"
          BY <1>1 DEF Executing
        <4>3. pc'[w] # "linking"
          BY <3>2 DEF Follows
        <4> QED BY <2>1, <4>1, <4>2, <4>3 DEF Duties
      <3> QED BY <3>1, <3>2
    <2>3. \A i \in due' : status'[i] # "absent"
      <3>1. CASE Follows(w)
        BY <1>3, <3>1 DEF Follows, Duties, DrainTypeOK
      <3>2. CASE Claims(w) \/ Finishes(w)
        BY <1>0, <3>2 DEF Claims, Finishes, Duties, DrainTypeOK, TypeOK
      <3>3. CASE Idles(w) \/ Works(w) \/ Dies(w)
        BY <3>3 DEF Idles, Works, Dies, Duties
      <3> QED BY <2>1, <3>1, <3>2, <3>3
    <2>4. ASSUME NEW i \in Tasks, status'[i] = "claimed", ~Broken'
          PROVE  \E v \in Workers : held'[v] = i /\ pc'[v] \in Executing
      <3>1. CASE Claims(w) /\ i = held[w]
        BY <3>1 DEF Claims, Executing
      <3>2. CASE ~(Claims(w) /\ i = held[w])
        <4>1. status[i] = "claimed" /\ (Finishes(w) => i # held[w]) /\ ~Dies(w)
          <5>1. CASE Follows(w)
            BY <1>3, <2>4, <5>1 DEF Follows, Finishes, Dies, Executing
          <5>2. CASE Claims(w)
            BY <1>0, <2>4, <3>2, <5>2 DEF Claims, Finishes, Dies, Executing, TypeOK
          <5>3. CASE Finishes(w)
            BY <1>0, <2>4, <5>3 DEF Finishes, Dies, TypeOK
          <5>4. CASE Dies(w)
            BY <2>4, <5>4 DEF Dies, Broken
          <5>5. CASE Idles(w) \/ Works(w)
            BY <2>4, <5>5 DEF Idles, Works, Finishes, Dies, Executing
          <5> QED BY <2>1, <5>1, <5>2, <5>3, <5>4, <5>5
        <4>2. PICK v \in Workers : held[v] = i /\ pc[v] \in Executing
          BY <1>0, <2>4, <4>1 DEF Duties
        <4>3. CASE v # w
          BY <2>1, <4>2, <4>3
        <4>4. CASE v = w
          BY <2>1, <4>1, <4>2, <4>4 DEF Idles, Claims, Works, Follows, Finishes, Executing
        <4> QED BY <4>3, <4>4
      <3> QED BY <3>1, <3>2
    <2> QED BY <2>2, <2>3, <2>4 DEF Duties
  <1>5. ASSUME NEW e \in Engines, Submit(e) PROVE Duties'
    <2>1. Absent # {} /\ Insert("extract") /\ UNCHANGED <<pc, held, due>>
      BY <1>5 DEF Submit, EnqueueExtract, workers, drainVars
    <2>2. /\ \A i \in Tasks : status[i] # "absent" => kind'[i] = kind[i] /\ status'[i] = status[i]
          /\ \A i \in Tasks : status'[i] = "claimed" => status[i] = "claimed"
      BY <1>3, <2>1
    <2>3. \A w \in Workers : pc'[w] = "linking" => kind'[held'[w]] = "extract"
      BY <1>1, <2>1, <2>2 DEF Duties, Executing
    <2> QED BY <2>1, <2>2, <2>3 DEF Duties, Broken, DrainTypeOK
  <1>6. ASSUME NEW e \in Engines, StopDrain(e) PROVE Duties'
    BY <1>2, <1>6 DEF StopDrain, Stop, rows, workers, drainVars, Duties
  <1>7. ASSUME NEW w \in Workers, CountIn(w) \/ CountDone(w) \/ CountOut(w) PROVE Duties'
    BY <1>2, <1>7 DEF CountIn, CountDone, CountOut, vars, Duties
  <1>8. CASE Begin \/ MainStep
    <2>1. Begin => \A i \in due' : status[i] # "absent"
      BY DEF Begin
    <2> QED BY <1>2, <1>8, <2>1, CallerSteps DEF Duties
  <1>9. CASE UNCHANGED allVars
    BY <1>2, <1>9 DEF allVars, vars, drainVars, Duties
  <1> QED BY <1>4, <1>5, <1>6, <1>7, <1>8, <1>9 DEF DrainNext, DrainWorkerStep

(* What a look of the caller relies on, while no thread has died and       *)
(* nobody has told the pool to stop.                                       *)
LEMMA LooksStep ==
  ASSUME WindowBounded, QueueInv, DrainTypeOK, Tallies, Duties, Told \/ Broken \/ Looks, [DrainNext]_allVars
  PROVE  Told' \/ Broken' \/ Looks'
  <1> SUFFICES ASSUME ~Told', ~Broken' PROVE Looks'
    OBVIOUS
  <1>0. TypeOK /\ Looks /\ ~Broken
    BY NeverAgain DEF DrainTypeOK
  <1>1. \A w \in Workers : pc[w] \in Executing => held[w] \in Tasks /\ status[held[w]] = "claimed"
    BY <1>0 DEF QueueInv, ExecutingClaimed, TypeOK
  <1>2. due \subseteq Tasks /\ \A i \in due : status[i] # "absent"
    BY DEF DrainTypeOK, Duties
  <1>3. ASSUME UNCHANGED main, main = "pending2" => UNCHANGED seen, OpenExtracts' \subseteq OpenExtracts,
               main = "join" \/ main = "returned" => due' \cap Pending' \subseteq due \cap Pending,
               \A i \in OpenExtracts', v \in Workers : InHandOf(v, i) =>
                 /\ InHandOf(v, i)'
                 /\ tally[v] = "active" => tally'[v] = "active"
                 /\ v \in late => v \in late' \/ tally'[v] = "active"
        PROVE  Looks'
    <2>1. main' = "settle" => \A i \in OpenExtracts' : \E w \in Workers :
             InHandOf(w, i)' /\ (w \in late' \/ tally'[w] = "active")
      <3> SUFFICES ASSUME main' = "settle", NEW i \in OpenExtracts'
                   PROVE  \E w \in Workers : InHandOf(w, i)' /\ (w \in late' \/ tally'[w] = "active")
        OBVIOUS
      <3>1. PICK w \in Workers : InHandOf(w, i) /\ (w \in late \/ tally[w] = "active")
        BY <1>0, <1>3 DEF Looks
      <3> QED BY <1>3, <3>1
    <2>2. main' = "active2" => \A i \in OpenExtracts' : \E w \in Workers : InHandOf(w, i)' /\ tally'[w] = "active"
      <3> SUFFICES ASSUME main' = "active2", NEW i \in OpenExtracts'
                   PROVE  \E w \in Workers : InHandOf(w, i)' /\ tally'[w] = "active"
        OBVIOUS
      <3>1. PICK w \in Workers : InHandOf(w, i) /\ tally[w] = "active"
        BY <1>0, <1>3 DEF Looks
      <3> QED BY <1>3, <3>1
    <2>3. main' = "pending2" /\ seen' = 0 => OpenExtracts' = {}
      BY <1>0, <1>3 DEF Looks
    <2>4. main' \in {"join", "returned"} => OpenExtracts' = {} /\ due' \cap Pending' = {}
      BY <1>0, <1>3 DEF Looks
    <2> QED BY <2>1, <2>2, <2>3, <2>4 DEF Looks
  <1>4. ASSUME UNCHANGED <<kind, status, due>>
        PROVE  OpenExtracts' = OpenExtracts /\ Pending' = Pending
    BY <1>4 DEF OpenExtracts, Finished, Pending
  <1>5. ASSUME NEW k \in {"extract", "link"}, Absent # {}, Insert(k),
               due' = due \/ (k = "link" /\ due' = due \cup {First(Absent)})
        PROVE  /\ OpenExtracts' \subseteq OpenExtracts
               /\ due' = due => due' \cap Pending' \subseteq due \cap Pending
    <2>1. /\ First(Absent) \in Tasks /\ status[First(Absent)] = "absent"
          /\ kind' = [kind EXCEPT ![First(Absent)] = k] /\ status' = [status EXCEPT ![First(Absent)] = "pending"]
      BY <1>0, <1>5, InsertType DEF Insert
    <2>2. \A i \in due : kind'[i] = kind[i] /\ status'[i] = status[i]
      BY <1>0, <1>2, <2>1 DEF TypeOK
    <2>3. kind'[First(Absent)] = k
      BY <1>0, <2>1 DEF TypeOK
    <2>4. OpenExtracts' \subseteq OpenExtracts
      BY <1>5, <2>2, <2>3 DEF OpenExtracts, Finished
    <2> QED BY <2>2, <2>4 DEF Pending
  <1>6. ASSUME NEW w \in Workers, CheckStops(w) \/ Dequeue(w) \/ Execute(w) PROVE Looks'
    <2>1. /\ \A v \in Workers \ {w} : pc'[v] = pc[v] /\ held'[v] = held[v]
          /\ UNCHANGED <<main, seen, tally, late>>
          /\ Idles(w) \/ Claims(w) \/ Works(w) \/ Follows(w) \/ Finishes(w) \/ Dies(w)
      BY <1>6, WorkerSteps
    <2>2. \A v \in Workers, i \in Tasks : v # w /\ InHandOf(v, i) => InHandOf(v, i)'
      BY <2>1 DEF InHandOf
    <2>3. OpenExtracts' \subseteq due'
      BY DEF OpenExtracts
    <2>4. CASE Idles(w) \/ Works(w)
      <3>1. OpenExtracts' = OpenExtracts /\ Pending' = Pending /\ due' = due
        BY <1>4, <2>4 DEF Idles, Works
      <3>2. \A v \in Workers, i \in Tasks : InHandOf(v, i) => InHandOf(v, i)'
        BY <2>2, <2>4 DEF Idles, Works, InHandOf, Executing
      <3> QED BY <1>2, <1>3, <2>1, <2>3, <3>1, <3>2
    <2>5. CASE Claims(w)
      <3>1. \A i \in Tasks : Finished(i)' <=> Finished(i)
        BY <1>0, <2>5, NothingFinished
      <3>2. OpenExtracts' \subseteq OpenExtracts
        BY <1>2, <2>5, <3>1 DEF Claims, OpenExtracts
      <3>3. due' = due /\ Pending' \subseteq Pending
        BY <1>0, <2>5 DEF Claims, Pending, TypeOK
      <3>4. \A v \in Workers, i \in Tasks : InHandOf(v, i) => InHandOf(v, i)'
        BY <2>2, <2>5 DEF Claims, InHandOf, Executing
      <3> QED BY <1>2, <1>3, <2>1, <2>3, <3>2, <3>3, <3>4
    <2>6. CASE Follows(w)
      <3>1. OpenExtracts' \subseteq OpenExtracts /\ (due' = due => due' \cap Pending' \subseteq due \cap Pending)
        BY <1>5, <2>6 DEF Follows
      <3>2. \A v \in Workers, i \in Tasks : InHandOf(v, i) => InHandOf(v, i)'
        BY <2>2, <2>6 DEF Follows, InHandOf, Executing
      <3>3. held[w] \in due => held[w] \in OpenExtracts
        BY <1>1, <2>6 DEF Follows, Duties, OpenExtracts, Finished, Executing
      <3>4. main \in {"join", "returned"} => due' = due
        BY <1>0, <2>6, <3>3 DEF Follows, Looks
      <3>5. \A i \in OpenExtracts' : i \in Tasks
        BY <1>2, <3>1 DEF OpenExtracts
      <3> QED BY <1>3, <2>1, <3>1, <3>2, <3>4, <3>5
    <2>7. CASE Finishes(w)
      <3>1. PICK result \in {"completed", "failed"} : status' = [status EXCEPT ![held[w]] = result]
        BY <2>7 DEF Finishes
      <3>2. held[w] \in Tasks /\ UNCHANGED <<kind, due>>
        BY <2>7 DEF Finishes
      <3>3. OpenExtracts' \subseteq OpenExtracts /\ held[w] \notin OpenExtracts' /\ Pending' \subseteq Pending
        BY <1>0, <1>2, <3>1, <3>2 DEF OpenExtracts, Finished, Pending, TypeOK
      <3>4. \A v \in Workers, i \in Tasks : InHandOf(v, i) /\ i # held[w] => InHandOf(v, i)'
        BY <2>2 DEF InHandOf
      <3> QED BY <1>2, <1>3, <2>1, <2>3, <3>2, <3>3, <3>4
    <2>8. ~Dies(w)
      BY DEF Dies, Broken
    <2> QED BY <2>1, <2>4, <2>5, <2>6, <2>7, <2>8
  <1>7. ASSUME NEW w \in Workers, CountIn(w) \/ CountDone(w) \/ CountOut(w) PROVE Looks'
    <2>1. UNCHANGED <<kind, status, pc, held, main, seen, due>>
      BY <1>7 DEF CountIn, CountDone, CountOut, vars, caller
    <2>2. \A v \in Workers : pc[v] \in Executing =>
             /\ tally[v] = "active" => tally'[v] = "active"
             /\ v \in late => v \in late' \/ tally'[v] = "active"
      BY <1>7 DEF CountIn, CountDone, CountOut, caller, Tallies, DrainTypeOK, Executing
    <2> QED BY <1>3, <1>4, <2>1, <2>2 DEF InHandOf
  <1>8. ASSUME NEW e \in Engines, Submit(e) PROVE Looks'
    <2>1. Absent # {} /\ Insert("extract") /\ UNCHANGED <<pc, held, main, seen, tally, late, due>>
      BY <1>8 DEF Submit, EnqueueExtract, workers, drainVars
    <2> QED BY <1>3, <1>5, <2>1 DEF InHandOf
  <1>9. ASSUME NEW e \in Engines, StopDrain(e) PROVE FALSE
    BY <1>0, <1>9 DEF StopDrain, Stop, Told, TypeOK
  <1>10. CASE Begin \/ Poll \/ ReadPendingFails
    <2>1. main' \in {"top", "active1", "unwind"}
      BY <1>10, CallerSteps DEF Begin, Poll, ReadPendingFails, Told, MainStep
    <2> QED BY <2>1 DEF Looks
  <1>11. CASE ReadActive
    <2>1. UNCHANGED <<kind, status, pc, held, tally, due>> /\ seen' = active
      BY <1>11 DEF ReadActive, vars, counters
    <2>2. CASE main' = "pending1"
      BY <2>2 DEF Looks
    <2>3. CASE main = "active2" /\ main' = "pending2"
      <3>1. seen' = 0 => OpenExtracts = {}
        <4> SUFFICES ASSUME active = 0, NEW i \in OpenExtracts PROVE FALSE
          BY <2>1
        <4>1. PICK w \in Workers : tally[w] = "active"
          BY <1>0, <2>3 DEF Looks
        <4>2. w \in Counted /\ IsFiniteSet(Counted) /\ Cardinality(Counted) = 0
          BY <4>1, PoolFinite DEF Counted, Tallies
        <4> QED BY <4>2, FS_EmptySet
      <3> QED BY <1>4, <2>1, <2>3, <3>1 DEF Looks
    <2> QED BY <1>11, <2>2, <2>3 DEF ReadActive
  <1>12. CASE ReadPending
    <2>1. UNCHANGED <<kind, status, pc, held, tally, due>>
      BY <1>12 DEF ReadPending, vars, counters
    <2>2. CASE main' = "top"
      BY <2>2 DEF Looks
    <2>3. CASE main' = "settle" /\ Pending = {} /\ late' = Window
      <3>1. ASSUME NEW i \in OpenExtracts
            PROVE  \E w \in Workers : InHandOf(w, i)' /\ (w \in late' \/ tally'[w] = "active")
        <4>1. i \in Tasks /\ status[i] = "claimed"
          BY <1>0, <1>2, <2>3, <3>1 DEF OpenExtracts, Finished, Pending, TypeOK, Statuses
        <4>2. PICK w \in Workers : held[w] = i /\ pc[w] \in Executing
          BY <1>0, <4>1 DEF Duties
        <4>3. tally[w] \in {"none", "active"}
          BY <4>2 DEF Tallies, DrainTypeOK, Executing
        <4>4. tally[w] = "none" => w \in late'
          BY <2>3, <4>2 DEF Window
        <4> QED BY <2>1, <4>2, <4>3, <4>4 DEF InHandOf
      <3> QED BY <1>4, <2>1, <2>3, <3>1 DEF Looks
    <2> QED BY <1>12, <2>2, <2>3 DEF ReadPending
  <1>13. CASE Settle
    <2>1. /\ UNCHANGED <<kind, status, pc, held, tally, due>> /\ main = "settle" /\ main' = "active2" /\ late = {}
      BY <1>13 DEF Settle, vars, counters
    <2>2. \A i \in OpenExtracts : \E w \in Workers : InHandOf(w, i)' /\ tally'[w] = "active"
      BY <1>0, <2>1 DEF Looks, InHandOf
    <2> QED BY <1>4, <2>1, <2>2 DEF Looks
  <1>14. CASE ReadPendingAgain
    <2>1. UNCHANGED <<kind, status, due>>
      BY <1>14 DEF ReadPendingAgain, vars
    <2>2. CASE main' = "top"
      BY <2>2 DEF Looks
    <2>3. CASE main = "pending2" /\ main' = "join" /\ seen = 0 /\ Pending = {}
      BY <1>0, <1>4, <2>1, <2>3 DEF Looks
    <2> QED BY <1>14, <2>2, <2>3 DEF ReadPendingAgain, StopPool
  <1>15. CASE JoinPool
    <2>1. UNCHANGED <<kind, status, due>> /\ main' \in {"returned", "raised"} /\ (main' = "returned" => main = "join")
      BY <1>15 DEF JoinPool, vars
    <2> QED BY <1>0, <1>4, <2>1 DEF Looks
  <1>16. CASE UNCHANGED allVars
    BY <1>3, <1>4, <1>16 DEF allVars, vars, drainVars, InHandOf
  <1> QED BY <1>6, <1>7, <1>8, <1>9, <1>10, <1>11, <1>12, <1>13, <1>14, <1>15, <1>16
          DEF DrainNext, DrainWorkerStep, MainStep

LEMMA JoinedStep ==
  ASSUME QueueInv, DrainTypeOK, Tallies, Joined, [DrainNext]_allVars
  PROVE  Joined'
  <1>1. CASE main \in {"returned", "raised"}
    <2>1. \A w \in Workers : pc[w] \in {"exited", "dead"} /\ tally[w] = "none"
      BY <1>1 DEF Joined, Gone
    <2>2. ASSUME NEW w \in Workers, CheckStops(w) \/ Dequeue(w) \/ Execute(w) PROVE FALSE
      BY <2>1, <2>2, WorkerSteps DEF Idles, Claims, Works, Follows, Finishes, Dies, Executing
    <2>3. ASSUME NEW w \in Workers, CountIn(w) \/ CountDone(w) \/ CountOut(w) PROVE FALSE
      BY <2>1, <2>3 DEF CountIn, CountDone, CountOut
    <2>4. ~Begin /\ ~MainStep
      BY <1>1 DEF Begin, MainStep, Poll, ReadActive, ReadPending, Settle, ReadPendingAgain, ReadPendingFails, JoinPool
    <2>5. UNCHANGED <<pc, tally, main>>
      BY <2>2, <2>3, <2>4 DEF DrainNext, DrainWorkerStep, Submit, StopDrain, EnqueueExtract, Stop, workers,
         drainVars, allVars, vars
    <2> QED BY <2>5 DEF Joined, Broken
  <1>2. CASE JoinPool
    BY <1>2 DEF JoinPool, Joined, vars, counters, workers, Broken
  <1>3. CASE main \notin {"returned", "raised"} /\ ~JoinPool
    <2>1. ASSUME NEW w \in Workers, CheckStops(w) \/ Dequeue(w) \/ Execute(w) PROVE UNCHANGED main
      BY <2>1, WorkerSteps
    <2>2. main' \notin {"returned", "raised"}
      BY <1>3, <2>1 DEF DrainNext, DrainWorkerStep, MainStep, Submit, StopDrain, CountIn, CountDone, CountOut,
         Begin, Poll, ReadActive, ReadPending, Settle, ReadPendingAgain, ReadPendingFails, StopPool, caller,
         drainVars, allVars
    <2> QED BY <2>2 DEF Joined
  <1> QED BY <1>1, <1>2, <1>3

LEMMA DrainStart == DrainInit => DrainInv
  <1> SUFFICES ASSUME DrainInit PROVE DrainInv
    OBVIOUS
  <1>1. QueueInv
    BY InitQueue DEF DrainInit
  <1>2. /\ main = "before" /\ seen = 0 /\ active = 0 /\ done = 0 /\ tally = [w \in Workers |-> "none"]
        /\ localStop = FALSE /\ late = {} /\ due = {}
        /\ pc = [w \in Workers |-> "loop"] /\ status = [i \in Tasks |-> "absent"]
    BY DEF DrainInit, Init
  <1>3. DrainTypeOK
    BY <1>1, <1>2 DEF DrainTypeOK, QueueInv, TypeInv, MainSteps
  <1>4. Counted = {} /\ Uncounted = {} /\ FinishedTasks = {}
    BY <1>2 DEF Counted, Uncounted, FinishedTasks, Finished
  <1>5. Cardinality({}) = 0
    BY FS_EmptySet
  <1>6. Tallies
    BY <1>2, <1>4, <1>5 DEF Tallies
  <1>7. Duties /\ Looks /\ Joined
    BY <1>2 DEF Duties, Looks, Joined
  <1> QED BY <1>1, <1>3, <1>6, <1>7 DEF DrainInv

LEMMA DrainInvariant ==
  ASSUME OneEngine, WindowBounded
  PROVE  DrainSpec => []DrainInv
  <1>1. DrainInv /\ [DrainNext]_allVars => DrainInv'
    <2> SUFFICES ASSUME DrainInv, [DrainNext]_allVars PROVE DrainInv'
      OBVIOUS
    <2>1. QueueInv'
      BY DrainQueueStep DEF DrainInv
    <2>2. TypeOK'
      BY <2>1 DEF QueueInv, TypeInv
    <2>3. DrainTypeOK'
      BY <2>2, DrainTypeStep DEF DrainInv
    <2>4. Tallies'
      BY TalliesStep DEF DrainInv
    <2>5. Duties'
      BY DutiesStep DEF DrainInv
    <2>6. Told' \/ Broken' \/ Looks'
      BY LooksStep DEF DrainInv
    <2>7. Joined'
      BY JoinedStep DEF DrainInv
    <2> QED BY <2>1, <2>3, <2>4, <2>5, <2>6, <2>7 DEF DrainInv
  <1> QED BY <1>1, DrainStart, PTL DEF DrainSpec

(* THEOREM: however many workers and tasks, whoever else enqueues, and     *)
(* whatever is stopped or fails meanwhile: drain() returns the number of   *)
(* finished rows, and every task it found and every follow-up of those is  *)
(* finished by then unless it was told to stop - provided that a worker    *)
(* counts itself within the pause between the two looks.                   *)
THEOREM DrainTheorem ==
  ASSUME OneEngine, WindowBounded
  PROVE  DrainSpec => []DrainComplete
  <1>1. DrainInv => DrainComplete
    <2> SUFFICES ASSUME DrainInv, main = "returned" PROVE
               /\ DoneCount
               /\ (\A e \in Engines : ~stopping[e]) => \A i \in due : Finished(i)
      BY DEF DrainComplete
    <2>1. (\A w \in Workers : pc[w] \in Gone /\ tally[w] = "none") /\ ~Broken
      BY DEF DrainInv, Joined
    <2>2. DoneCount
      <3>1. Uncounted = {}
        BY <2>1 DEF Uncounted
      <3>2. Cardinality(Uncounted) = 0 /\ done \in Nat
        BY <3>1, FS_EmptySet DEF DrainInv, DrainTypeOK
      <3>3. Cardinality(FinishedTasks) = done
        BY <3>2 DEF DrainInv, Tallies
      <3> QED BY <3>3 DEF DoneCount, FinishedTasks
    <2>3. ASSUME \A e \in Engines : ~stopping[e], NEW i \in due, ~Finished(i) PROVE FALSE
      <3>1. Looks
        BY <2>1, <2>3 DEF DrainInv, Told
      <3>2. i \in Tasks /\ status[i] \in Statuses /\ status[i] \notin {"absent", "pending"}
        BY <2>3, <3>1 DEF DrainInv, DrainTypeOK, TypeOK, Looks, Duties, Pending
      <3>3. status[i] = "claimed"
        BY <2>3, <3>2 DEF Statuses, Finished
      <3>4. \E w \in Workers : pc[w] \in Executing
        BY <2>1, <3>2, <3>3 DEF DrainInv, Duties
      <3> QED BY <2>1, <3>4 DEF Gone, Executing
    <2> QED BY <2>2, <2>3
  <1> QED BY <1>1, DrainInvariant, PTL

(* A drain, its workers and whoever else uses the engine never execute one *)
(* task twice at a time.                                                   *)
THEOREM DrainClaims ==
  ASSUME OneEngine, WindowBounded
  PROVE  DrainSpec => []ExclusiveClaim
  <1>1. DrainInv => ExclusiveClaim
    BY DEF DrainInv, QueueInv
  <1> QED BY <1>1, DrainInvariant, PTL

=============================================================================
