------------------------- MODULE SessionChainProofs -------------------------
(***************************************************************************)
(* Theorems about SessionChain, for every set of stores, threads and       *)
(* contents and every bound.                                               *)
(*                                                                         *)
(* AppendInv holds whatever the callers do and gives the gap-freeness of   *)
(* sessions, the committed tail and the refinement of AgentLog.            *)
(***************************************************************************)
EXTENDS SessionChain, TLAPS

Committed(t) == pc[t] \in {"advSeq", "advPrev", "enqueue"}

(* Rows belong to sessions that have been opened.                          *)
RowsOpened == \A e \in entries : e.session[2] <= opens[e.session[1]]

(* The rows 1..seqNum of the current session are all there.                *)
Filled(s, n) == \E e \in entries : e.session = Session(s) /\ e.seq = n

RowsFilled == \A s \in Stores : \A n \in 1..seqNum[s] : Filled(s, n)

(* A call has read a position at most one past the counter.                *)
ReadBelow ==
  \A t \in Threads :
    pc[t] \in {"readPrev", "store"} => call[t].seq <= seqNum[StoreOf[t]] + 1

(* A call past its commit has its row in the table; while the counter has  *)
(* not been advanced the row sits one past it, and no second call of the   *)
(* store is at that point.                                                 *)
CommittedRow == \A t \in Threads : Committed(t) => Row(call[t]) \in entries

OneAdvancing ==
  /\ \A t \in Threads :
       pc[t] = "advSeq" => call[t].seq = seqNum[StoreOf[t]] + 1
  /\ \A t, u \in Threads :
       pc[t] = "advSeq" /\ pc[u] = "advSeq" /\ StoreOf[t] = StoreOf[u] => t = u

AppendInv ==
  /\ TypeOK
  /\ RowsOpened
  /\ RowsFilled
  /\ ReadBelow
  /\ CommittedRow
  /\ OneAdvancing
  /\ NoGapAnywhere
  /\ TailCommitted
  /\ TaskHasEntry

-----------------------------------------------------------------------------
LEMMA InitAppend == Init => AppendInv
  <1> USE StoreOfType, BoundsType
  <1> SUFFICES ASSUME Init PROVE AppendInv
    OBVIOUS
  <1>1. TypeOK
    BY DEF Init, TypeOK, CallOK, Finished, Steps, Outcomes
  <1>2. RowsOpened /\ RowsFilled /\ ReadBelow /\ CommittedRow /\ OneAdvancing
    BY DEF Init, RowsOpened, RowsFilled, ReadBelow, CommittedRow, Committed,
           OneAdvancing
  <1>3. NoGapAnywhere /\ TailCommitted /\ TaskHasEntry
    BY DEF Init, NoGapAnywhere, NoGap, EntriesOf, TailCommitted, TaskHasEntry
  <1> QED BY <1>1, <1>2, <1>3 DEF AppendInv

(* Type correctness is inductive by itself.                                *)
LEMMA TypeStep == TypeOK /\ [Next]_vars => TypeOK'
  <1> USE StoreOfType, BoundsType
  <1> SUFFICES ASSUME TypeOK, [Next]_vars PROVE TypeOK'
    OBVIOUS
  <1> USE DEF TypeOK, CallOK, Finished, Steps, Outcomes, Session, Sessions, session
  <1>1. ASSUME NEW t \in Threads, NEW content \in Contents,
               NEW choice \in ParentChoices, BeginRemember(t, content, choice)
        PROVE TypeOK'
    BY <1>1 DEF BeginRemember, Goto
  <1>2. ASSUME NEW t \in Threads, NEW content \in Contents, BeginMerge(t, content)
        PROVE TypeOK'
    BY <1>2 DEF BeginMerge, Goto
  <1>3. ASSUME NEW t \in Threads, ReadPrev(t) PROVE TypeOK'
    BY <1>3 DEF ReadPrev, Goto
  <1>4. ASSUME NEW t \in Threads, StoreEntry(t) PROVE TypeOK'
    <2>1. /\ Row(call[t]).session \in Sessions
          /\ Row(call[t]).seq \in Nat \ {0}
          /\ Row(call[t]).content \in Contents
      <3>1. Session(StoreOf[t]) \in Sessions
        OBVIOUS
      <3>2. Row(call[t]).session = call[t].session
        BY DEF Row
      <3>3. call[t].session = Session(StoreOf[t])
        BY <1>4 DEF StoreEntry
      <3> QED BY <1>4, <3>1, <3>2, <3>3 DEF StoreEntry, Row
    <2>2. entries' \subseteq entries \cup {Row(call[t])}
      BY <1>4 DEF StoreEntry
    <2>3. /\ pc' \in [Threads -> Steps]
          /\ outcome' \in [Threads -> Outcomes]
          /\ DOMAIN call' = Threads
          /\ UNCHANGED <<opens, seqNum, prevId>>
      BY <1>4 DEF StoreEntry, Goto, Return
    <2>4. \A u \in Threads : CallOK(u)'
      BY <1>4 DEF StoreEntry, Goto, Return
    <2> QED BY <2>1, <2>2, <2>3, <2>4
  <1>5. ASSUME NEW t \in Threads, AdvanceSeq(t) PROVE TypeOK'
    BY <1>5 DEF AdvanceSeq, Goto
  <1>6. ASSUME NEW t \in Threads, AdvancePrev(t) PROVE TypeOK'
    BY <1>6 DEF AdvancePrev, Goto, Return
  <1>7. ASSUME NEW t \in Threads, Enqueue(t) PROVE TypeOK'
    BY <1>7 DEF Enqueue, Goto, Return
  <1>8. ASSUME NEW s \in Stores, Reopen(s) PROVE TypeOK'
    BY <1>8 DEF Reopen
  <1>9. CASE UNCHANGED vars
    BY <1>9 DEF vars
  <1> QED BY <1>1, <1>2, <1>3, <1>4, <1>5, <1>6, <1>7, <1>8, <1>9
          DEF Next, ThreadStep

(* THEOREM: the variables keep their types (the locals of remember() and   *)
(* of the merger included).                                                *)
THEOREM TypeCorrect == Spec => []TypeOK
  <1>1. Init => TypeOK
    BY InitAppend DEF AppendInv
  <1> QED BY <1>1, TypeStep, PTL DEF Spec

-----------------------------------------------------------------------------
LEMMA AppendStep == AppendInv /\ [Next]_vars => AppendInv'
  <1> USE StoreOfType, BoundsType
  <1> SUFFICES ASSUME AppendInv, [Next]_vars PROVE AppendInv'
    OBVIOUS
  <1>0. TypeOK /\ TypeOK'
    BY TypeStep DEF AppendInv
  <1> USE DEF Session, session
  <1>1. ASSUME NEW t \in Threads, pc[t] = "idle", pc'[t] = "readPrev",
               \A u \in Threads : u # t => pc'[u] = pc[u] /\ call'[u] = call[u],
               call'[t].seq = seqNum[StoreOf[t]] + 1,
               UNCHANGED <<session, entries, tasks>>
        PROVE AppendInv'
    <2>1. RowsOpened' /\ RowsFilled' /\ NoGapAnywhere' /\ TailCommitted' /\ TaskHasEntry'
      BY <1>1 DEF AppendInv, RowsOpened, RowsFilled, Filled, NoGapAnywhere, NoGap,
                  EntriesOf, Predecessor, TailCommitted, TaskHasEntry
    <2>2. ReadBelow'
      BY <1>0, <1>1 DEF AppendInv, ReadBelow, TypeOK
    <2>3. CommittedRow' /\ OneAdvancing'
      BY <1>0, <1>1 DEF AppendInv, CommittedRow, Committed, OneAdvancing, Row
    <2> QED BY <1>0, <2>1, <2>2, <2>3 DEF AppendInv
  <1>2. ASSUME NEW t \in Threads, ReadPrev(t) PROVE AppendInv'
    <2>1. RowsOpened' /\ RowsFilled' /\ NoGapAnywhere' /\ TailCommitted' /\ TaskHasEntry'
      BY <1>2 DEF ReadPrev, AppendInv, RowsOpened, RowsFilled, Filled, NoGapAnywhere,
                  NoGap, EntriesOf, Predecessor, TailCommitted, TaskHasEntry
    <2>2. /\ pc'[t] = "store" /\ call'[t].seq = call[t].seq
          /\ \A u \in Threads : u # t => pc'[u] = pc[u] /\ call'[u] = call[u]
      BY <1>0, <1>2 DEF ReadPrev, Goto, TypeOK
    <2>3. ReadBelow' /\ CommittedRow' /\ OneAdvancing'
      BY <1>2, <2>2 DEF ReadPrev, AppendInv, ReadBelow, CommittedRow, Committed,
                        OneAdvancing, Row
    <2> QED BY <1>0, <2>1, <2>3 DEF AppendInv
  <1>3. ASSUME NEW t \in Threads, StoreEntry(t) PROVE AppendInv'
    <2> DEFINE r == Row(call[t])
               S == StoreOf[t]
    <2>0. /\ pc[t] = "store"
          /\ UNCHANGED <<opens, seqNum, prevId, tasks>>
          /\ \A u \in Threads : u # t => pc'[u] = pc[u] /\ call'[u] = call[u]
      BY <1>0, <1>3 DEF StoreEntry, Goto, Return, TypeOK
    <2>1. CASE entries' = entries
      <3>1. r \in entries => Conflicts(r)
        BY DEF Conflicts
      <3>2. Conflicts(r)
        BY <1>3, <2>1, <3>1 DEF StoreEntry
      <3>3. Return(t, "rejected")
        BY <1>3, <3>2 DEF StoreEntry
      <3>4. pc'[t] = "idle"
        BY <1>0, <3>3 DEF Goto, Return, TypeOK
      <3>5. RowsOpened' /\ RowsFilled' /\ NoGapAnywhere' /\ TailCommitted' /\ TaskHasEntry'
        BY <2>0, <2>1 DEF AppendInv, RowsOpened, RowsFilled, Filled, NoGapAnywhere,
                          NoGap, EntriesOf, Predecessor, TailCommitted, TaskHasEntry
      <3>6. ReadBelow' /\ CommittedRow' /\ OneAdvancing'
        BY <2>0, <2>1, <3>4 DEF AppendInv, ReadBelow, CommittedRow, Committed,
                                OneAdvancing, Row
      <3> QED BY <1>0, <3>5, <3>6 DEF AppendInv
    <2>2. CASE entries' # entries
      <3>1. /\ ~Conflicts(r)
            /\ entries' = entries \cup {r}
            /\ \/ pc'[t] = "idle"
               \/ pc'[t] = "advSeq" /\ call'[t] = call[t]
        BY <1>0, <1>3, <2>2 DEF StoreEntry, Goto, Return, TypeOK
      <3>2. r.session = Session(S) /\ r.seq = call[t].seq /\ r.id = call[t].id
        BY <1>0, <2>0 DEF TypeOK, CallOK, Row
      <3>3. r.seq = seqNum[S] + 1
        <4>1. r.seq \in 1..(seqNum[S] + 1)
          BY <1>0, <2>0, <3>2 DEF AppendInv, ReadBelow, TypeOK, CallOK, Finished
        <4>2. \A n \in 1..seqNum[S] : r.seq # n
          <5> SUFFICES ASSUME NEW n \in 1..seqNum[S] PROVE r.seq # n
            OBVIOUS
          <5>1. PICK e \in entries : e.session = Session(S) /\ e.seq = n
            BY DEF AppendInv, RowsFilled, Filled
          <5> QED BY <3>1, <3>2, <5>1 DEF Conflicts
        <4> QED BY <1>0, <4>1, <4>2 DEF TypeOK
      <3>4. RowsOpened'
        BY <1>0, <2>0, <3>1, <3>2 DEF AppendInv, RowsOpened, TypeOK
      <3>5. RowsFilled'
        BY <2>0, <3>1 DEF AppendInv, RowsFilled, Filled
      <3>6. ReadBelow'
        BY <2>0, <3>1 DEF AppendInv, ReadBelow
      <3>7. CommittedRow'
        BY <2>0, <3>1 DEF AppendInv, CommittedRow, Committed, Row
      <3>8. OneAdvancing'
        <4>1. \A u \in Threads : StoreOf[u] = S => pc[u] # "advSeq"
          <5> SUFFICES ASSUME NEW u \in Threads, StoreOf[u] = S, pc[u] = "advSeq"
                       PROVE FALSE
            OBVIOUS
          <5>1. /\ Row(call[u]) \in entries
                /\ Row(call[u]).seq = seqNum[S] + 1
                /\ Row(call[u]).session = Session(S)
            BY <1>0 DEF AppendInv, CommittedRow, Committed, OneAdvancing, TypeOK,
                        CallOK, Row
          <5> QED BY <3>1, <3>2, <3>3, <5>1 DEF Conflicts
        <4> QED BY <2>0, <3>1, <3>2, <3>3, <4>1 DEF AppendInv, OneAdvancing
      <3>9. NoGapAnywhere'
        <4>1. r.seq = 1 \/ \E p \in entries : Predecessor(r, p)
          <5>1. seqNum[S] \in Nat
            BY <1>0 DEF TypeOK
          <5>2. CASE seqNum[S] = 0
            BY <3>3, <5>2
          <5>3. CASE seqNum[S] # 0
            <6>1. Filled(S, seqNum[S])
              BY <5>1, <5>3 DEF AppendInv, RowsFilled
            <6> QED BY <3>2, <3>3, <6>1 DEF Filled, Predecessor
          <5> QED BY <5>2, <5>3
        <4> QED BY <3>1, <4>1 DEF AppendInv, NoGapAnywhere, NoGap, EntriesOf, Predecessor
      <3>10. TailCommitted' /\ TaskHasEntry'
        BY <2>0, <3>1 DEF AppendInv, TailCommitted, TaskHasEntry, EntriesOf
      <3> QED BY <1>0, <3>4, <3>5, <3>6, <3>7, <3>8, <3>9, <3>10 DEF AppendInv
    <2> QED BY <2>1, <2>2
  <1>4. ASSUME NEW t \in Threads, AdvanceSeq(t) PROVE AppendInv'
    <2>0. /\ pc[t] = "advSeq" /\ pc'[t] = "advPrev"
          /\ \A u \in Threads : u # t => pc'[u] = pc[u]
          /\ UNCHANGED <<opens, prevId, entries, tasks, call>>
          /\ seqNum'[StoreOf[t]] = seqNum[StoreOf[t]] + 1
          /\ \A s \in Stores : s # StoreOf[t] => seqNum'[s] = seqNum[s]
      BY <1>0, <1>4 DEF AdvanceSeq, Goto, TypeOK
    <2>1. RowsOpened' /\ NoGapAnywhere' /\ TailCommitted' /\ TaskHasEntry'
      BY <2>0 DEF AppendInv, RowsOpened, NoGapAnywhere, NoGap, EntriesOf, Predecessor,
                  TailCommitted, TaskHasEntry
    <2>2. Filled(StoreOf[t], seqNum[StoreOf[t]] + 1)
      BY <1>0, <2>0 DEF AppendInv, CommittedRow, Committed, OneAdvancing, Filled, Row,
                        TypeOK, CallOK
    <2>3. RowsFilled'
      <3> SUFFICES ASSUME NEW s \in Stores, NEW n \in 1..seqNum'[s]
                   PROVE Filled(s, n)'
        BY DEF RowsFilled
      <3>0. n \in 1..seqNum[s] \/ (s = StoreOf[t] /\ n = seqNum[s] + 1)
        BY <1>0, <2>0 DEF TypeOK
      <3>1. Filled(s, n)
        BY <2>2, <3>0 DEF AppendInv, RowsFilled
      <3> QED BY <2>0, <3>1 DEF Filled
    <2>4. ReadBelow' /\ CommittedRow' /\ OneAdvancing'
      BY <1>0, <2>0 DEF AppendInv, ReadBelow, CommittedRow, Committed, OneAdvancing,
                        Row, TypeOK, CallOK, Finished
    <2> QED BY <1>0, <2>1, <2>3, <2>4 DEF AppendInv
  <1>5. ASSUME NEW t \in Threads, AdvancePrev(t) PROVE AppendInv'
    <2>0. /\ pc[t] = "advPrev" /\ pc'[t] \in {"idle", "enqueue"}
          /\ pc'[t] = "enqueue" => call'[t] = call[t]
          /\ \A u \in Threads : u # t => pc'[u] = pc[u] /\ call'[u] = call[u]
          /\ UNCHANGED <<opens, seqNum, entries, tasks>>
          /\ prevId'[StoreOf[t]] = call[t].id
          /\ \A s \in Stores : s # StoreOf[t] => prevId'[s] = prevId[s]
      BY <1>0, <1>5 DEF AdvancePrev, Goto, Return, TypeOK
    <2>1. RowsOpened' /\ RowsFilled' /\ NoGapAnywhere' /\ TaskHasEntry'
      BY <2>0 DEF AppendInv, RowsOpened, RowsFilled, Filled, NoGapAnywhere, NoGap,
                  EntriesOf, Predecessor, TaskHasEntry
    <2>2. \E e \in EntriesOf(Session(StoreOf[t])) : e.id = call[t].id
      <3>1. Row(call[t]) \in entries
        BY <2>0 DEF AppendInv, CommittedRow, Committed
      <3>2. Row(call[t]).session = call[t].session /\ Row(call[t]).id = call[t].id
        BY DEF Row
      <3>3. call[t].session = Session(StoreOf[t])
        BY <1>0, <2>0 DEF TypeOK, CallOK
      <3> QED BY <3>1, <3>2, <3>3 DEF EntriesOf
    <2>3. TailCommitted'
      BY <2>0, <2>2 DEF AppendInv, TailCommitted, EntriesOf
    <2>4. ReadBelow' /\ CommittedRow' /\ OneAdvancing'
      BY <2>0 DEF AppendInv, ReadBelow, CommittedRow, Committed, OneAdvancing, Row
    <2> QED BY <1>0, <2>1, <2>3, <2>4 DEF AppendInv
  <1>6. ASSUME NEW t \in Threads, Enqueue(t) PROVE AppendInv'
    <2>0. /\ pc[t] = "enqueue" /\ pc'[t] = "idle"
          /\ \A u \in Threads : u # t => pc'[u] = pc[u] /\ call'[u] = call[u]
          /\ UNCHANGED <<opens, seqNum, prevId, entries>>
          /\ tasks' \subseteq tasks \cup {call[t].id}
      BY <1>0, <1>6 DEF Enqueue, Goto, Return, TypeOK
    <2>1. RowsOpened' /\ RowsFilled' /\ NoGapAnywhere' /\ TailCommitted'
      BY <2>0 DEF AppendInv, RowsOpened, RowsFilled, Filled, NoGapAnywhere, NoGap,
                  EntriesOf, Predecessor, TailCommitted
    <2>2. TaskHasEntry'
      <3>1. Row(call[t]) \in entries /\ Row(call[t]).id = call[t].id
        BY <2>0 DEF AppendInv, CommittedRow, Committed, Row
      <3> QED BY <2>0, <3>1 DEF AppendInv, TaskHasEntry
    <2>3. ReadBelow' /\ CommittedRow' /\ OneAdvancing'
      BY <2>0 DEF AppendInv, ReadBelow, CommittedRow, Committed, OneAdvancing, Row
    <2> QED BY <1>0, <2>1, <2>2, <2>3 DEF AppendInv
  <1>7. ASSUME NEW s \in Stores, Reopen(s) PROVE AppendInv'
    <2>0. /\ opens'[s] = opens[s] + 1 /\ seqNum'[s] = 0 /\ prevId'[s] = NoId
          /\ \A x \in Stores : x # s => /\ opens'[x] = opens[x]
                                       /\ seqNum'[x] = seqNum[x]
                                       /\ prevId'[x] = prevId[x]
          /\ \A u \in Threads : StoreOf[u] = s => pc'[u] = "idle"
          /\ \A u \in Threads : StoreOf[u] # s => pc'[u] = pc[u] /\ call'[u] = call[u]
          /\ UNCHANGED <<entries, tasks>>
      BY <1>0, <1>7 DEF Reopen, TypeOK
    <2>1. RowsOpened'
      BY <1>0, <2>0 DEF AppendInv, RowsOpened, TypeOK, Sessions
    <2>2. RowsFilled'
      <3> SUFFICES ASSUME NEW x \in Stores, NEW n \in 1..seqNum'[x]
                   PROVE Filled(x, n)'
        BY DEF RowsFilled
      <3>1. x # s
        BY <2>0
      <3>2. Filled(x, n)
        BY <2>0, <3>1 DEF AppendInv, RowsFilled
      <3> QED BY <2>0, <3>1, <3>2 DEF Filled
    <2>3. NoGapAnywhere' /\ TaskHasEntry'
      BY <2>0 DEF AppendInv, NoGapAnywhere, NoGap, EntriesOf, Predecessor, TaskHasEntry
    <2>4. TailCommitted'
      <3> SUFFICES ASSUME NEW x \in Stores, prevId'[x] # NoId
                   PROVE \E e \in EntriesOf(Session(x))' : e.id = prevId'[x]
        BY DEF TailCommitted
      <3>1. x # s
        BY <2>0
      <3>2. \E e \in EntriesOf(Session(x)) : e.id = prevId[x]
        BY <2>0, <3>1 DEF AppendInv, TailCommitted
      <3> QED BY <2>0, <3>1, <3>2 DEF EntriesOf
    <2>5. ReadBelow' /\ CommittedRow' /\ OneAdvancing'
      BY <2>0 DEF AppendInv, ReadBelow, CommittedRow, Committed, OneAdvancing, Row
    <2> QED BY <1>0, <2>1, <2>2, <2>3, <2>4, <2>5 DEF AppendInv
  <1>8. CASE UNCHANGED vars
    BY <1>0, <1>8 DEF vars, AppendInv, RowsOpened, RowsFilled, Filled, NoGapAnywhere,
                      NoGap, EntriesOf, Predecessor, TailCommitted, TaskHasEntry,
                      ReadBelow, CommittedRow, Committed, OneAdvancing, Row
  <1>9. ASSUME NEW t \in Threads, NEW content \in Contents,
               \/ \E choice \in ParentChoices : BeginRemember(t, content, choice)
               \/ BeginMerge(t, content)
        PROVE AppendInv'
    <2>1. /\ pc[t] = "idle" /\ pc'[t] = "readPrev"
          /\ \A u \in Threads : u # t => pc'[u] = pc[u] /\ call'[u] = call[u]
          /\ call'[t].seq = seqNum[StoreOf[t]] + 1
          /\ UNCHANGED <<session, entries, tasks>>
      BY <1>0, <1>9 DEF BeginRemember, BeginMerge, Goto, TypeOK
    <2> QED BY <1>1, <2>1
  <1> QED BY <1>2, <1>3, <1>4, <1>5, <1>6, <1>7, <1>8, <1>9 DEF Next, ThreadStep

LEMMA AppendAlways == Spec => []AppendInv
  BY InitAppend, AppendStep, PTL DEF Spec

(* THEOREM: whatever the callers, merges and restarts, no session ever has *)
(* a gap in its sequence numbers (verify's 'Sequence gap' never appears).  *)
THEOREM NoGapTheorem == Spec => []NoGapAnywhere
  <1>1. AppendInv => NoGapAnywhere
    BY DEF AppendInv
  <1> QED BY <1>1, AppendAlways, PTL

(* THEOREM: the tail a session links to next is a committed row of it.     *)
THEOREM TailTheorem == Spec => []TailCommitted
  <1>1. AppendInv => TailCommitted
    BY DEF AppendInv
  <1> QED BY <1>1, AppendAlways, PTL

-----------------------------------------------------------------------------
(* The log of AgentLog under the mapping of SessionChain.                  *)
Positions == {<<e.session, e.seq, e.content>> : e \in entries}
Alive == {Session(s) : s \in Stores}

(* THEOREM: remember, the merger and restarts implement the append-only    *)
(* log of AgentLog, however callers interleave: a commit appends at the    *)
(* next free position of a live session, a restart replaces its session by *)
(* an unused one and every other step changes nothing a reader sees.       *)
THEOREM LogRefinement == Spec => ImplementsLog
  <1> USE StoreOfType, BoundsType
  <1>1. Init => Log!Init
    BY DEF Init, Log!Init, Session, Sessions
  <1>2. AppendInv /\ [Next]_vars => [Log!Next]_<<Positions, Alive>>
    <2> SUFFICES ASSUME AppendInv, [Next]_vars
                 PROVE [Log!Next]_<<Positions, Alive>>
      OBVIOUS
    <2>0. TypeOK
      BY DEF AppendInv
    <2>1. ASSUME UNCHANGED <<opens, entries>> PROVE [Log!Next]_<<Positions, Alive>>
      BY <2>1 DEF Positions, Alive, Session
    <2>2. ASSUME NEW t \in Threads, StoreEntry(t), entries' # entries
          PROVE Log!Next
      <3> DEFINE r == Row(call[t])
                 S == StoreOf[t]
      <3>1. /\ pc[t] = "store" /\ ~Conflicts(r) /\ UNCHANGED opens
            /\ entries' = entries \cup {r}
        BY <2>2 DEF StoreEntry, session
      <3>2. /\ r.session = Session(S) /\ r.seq = call[t].seq /\ r.content \in Contents
            /\ r.seq \in Nat \ {0} /\ r.seq <= seqNum[S] + 1
            /\ Session(S) \in Sessions /\ seqNum[S] \in Nat
        <4>1. /\ r.session = call[t].session /\ r.seq = call[t].seq
              /\ r.content = call[t].content
          BY DEF Row
        <4> QED BY <2>0, <3>1, <4>1 DEF AppendInv, ReadBelow, TypeOK, CallOK, Finished,
                                        Session, Sessions
      <3>3. r.seq = 1 \/ \E p \in Positions : p[1] = r.session /\ p[2] + 1 = r.seq
        <4>1. CASE r.seq = 1
          BY <4>1
        <4>2. CASE r.seq # 1
          <5>1. r.seq - 1 \in 1..seqNum[S]
            BY <3>2, <4>2
          <5>2. PICK e \in entries : e.session = Session(S) /\ e.seq = r.seq - 1
            BY <5>1 DEF AppendInv, RowsFilled, Filled
          <5>3. <<e.session, e.seq, e.content>> \in Positions
            BY DEF Positions
          <5> QED BY <3>2, <5>2, <5>3
        <4> QED BY <4>1, <4>2
      <3>4. ~ \E p \in Positions : p[1] = r.session /\ p[2] = r.seq
        BY <3>1 DEF Conflicts, Positions
      <3>5. /\ Positions' = Positions \cup {<<r.session, r.seq, r.content>>}
            /\ Alive' = Alive
        BY <3>1 DEF Positions, Alive, Session
      <3>6. r.session \in Alive
        BY <3>2 DEF Alive
      <3> DEFINE Next1 == {1} \cup {p[2] + 1 : p \in Positions}
      <3>7. r.seq \in Next1
        BY <3>3
      <3> HIDE DEF r, Next1
      <3>8. PICK k \in Sessions, c \in Contents, n \in Next1 :
              k = r.session /\ c = r.content /\ n = r.seq
        BY <3>2, <3>7
      <3>9. Log!Append(k, n, c)
        BY <3>3, <3>4, <3>5, <3>6, <3>8 DEF Log!Append, Log!Filled, Positions, Alive
      <3>10. \E x \in Next1 : Log!Append(k, x, c)
        BY <3>9
      <3> QED BY <3>10, Zenon DEF Log!Next, Positions, Next1
    <2>3. ASSUME NEW s \in Stores, Reopen(s) PROVE Log!Next
      <3> DEFINE old == Session(s)
                 new == <<s, opens[s] + 1>>
      <3>1. /\ opens[s] < MaxOpens /\ opens' = [opens EXCEPT ![s] = @ + 1]
            /\ UNCHANGED entries
        BY <2>3 DEF Reopen
      <3>2. old \in Sessions /\ new \in Sessions
        BY <2>0, <3>1 DEF TypeOK, Session, Sessions
      <3>3. old \in Alive /\ new \notin Alive
        BY <2>0 DEF TypeOK, Alive, Session
      <3>4. \A x \in Stores : Session(x)' = IF x = s THEN new ELSE Session(x)
        BY <2>0, <3>1 DEF TypeOK, Session
      <3>5. Alive' = (Alive \ {old}) \cup {new}
        <4>1. \A x \in Stores : Session(x) = old <=> x = s
          BY DEF Session
        <4>2. \A y : y \in Alive' <=> \E x \in Stores : y = Session(x)'
          BY DEF Alive
        <4>3. \A y : y \in Alive <=> \E x \in Stores : y = Session(x)
          BY DEF Alive
        <4> HIDE DEF old, new
        <4>4. \A y : y \in Alive' <=> y \in (Alive \ {old}) \cup {new}
          BY <3>4, <4>1, <4>2, <4>3
        <4> QED BY <4>4
      <3>6. \A p \in Positions : p[1] # new
        BY <2>0 DEF AppendInv, RowsOpened, Positions, TypeOK
      <3>7. Positions' = Positions
        BY <3>1 DEF Positions
      <3> QED BY <3>2, <3>3, <3>5, <3>6, <3>7
            DEF Log!Next, Log!Replace, Positions, Alive
    <2> QED BY <2>1, <2>2, <2>3
          DEF Next, ThreadStep, BeginRemember, BeginMerge, ReadPrev, StoreEntry,
              AdvanceSeq, AdvancePrev, Enqueue, vars, session
  <1> QED BY <1>1, <1>2, AppendAlways, PTL
        DEF Spec, ImplementsLog, Log!Spec, Positions, Alive

-----------------------------------------------------------------------------
(***************************************************************************)
(* With one caller per store, what a call has read is still true when it   *)
(* commits.  ChainInv ties the counters, the locals of the call and the    *)
(* rows of the current session together.                                   *)
(***************************************************************************)
UniqueSlots ==
  \A e, f \in entries : e.session = f.session /\ e.seq = f.seq => e = f

UniqueIds == \A e, f \in entries : e.id = f.id => e = f

RowsChained ==
  /\ \A e \in entries : Authentic(e)
  /\ \A e \in entries : e.seq = 1 => e.prev = NoId
  /\ \A e, p \in entries : Predecessor(e, p) => e.prev = p.id

NotBeyond ==
  \A e \in entries : \A s \in Stores :
    e.session = Session(s) => e.seq <= seqNum[s] + 1

(* Reads are current.                                                      *)
LocalsCurrent ==
  \A t \in Threads :
    /\ pc[t] \in {"readPrev", "store"} => call[t].seq = seqNum[StoreOf[t]] + 1
    /\ pc[t] = "readPrev" => call[t].choice # "given"
    /\ pc[t] = "store" =>
         /\ call[t].prev = prevId[StoreOf[t]]
         /\ call[t].id = EntryId(call[t].content, Linear(call[t].prev), call[t].session)
    /\ pc[t] = "advPrev" => call[t].seq = seqNum[StoreOf[t]]

(* Between two advances the tail is the last counted row.                  *)
Settled(s) == \A t \in Threads : StoreOf[t] = s => pc[t] # "advPrev"

TailIsLast ==
  \A s \in Stores : Settled(s) =>
    /\ seqNum[s] = 0 => prevId[s] = NoId
    /\ \A e \in entries :
         e.session = Session(s) /\ e.seq = seqNum[s] => e.id = prevId[s]

ChainInv ==
  /\ AppendInv
  /\ UniqueSlots
  /\ UniqueIds
  /\ RowsChained
  /\ NotBeyond
  /\ LocalsCurrent
  /\ TailIsLast

LEMMA InitChain == Init => ChainInv
  <1> SUFFICES ASSUME Init PROVE ChainInv
    OBVIOUS
  <1> USE StoreOfType, BoundsType
  <1>1. UniqueSlots /\ UniqueIds /\ RowsChained /\ NotBeyond
    BY DEF Init, UniqueSlots, UniqueIds, RowsChained, NotBeyond
  <1>2. LocalsCurrent /\ TailIsLast
    BY DEF Init, LocalsCurrent, TailIsLast
  <1> QED BY <1>1, <1>2, InitAppend DEF ChainInv

(* Steps that neither write rows nor move a counter.                       *)
LEMMA QuietStep ==
  ASSUME ChainInv, TypeOK', LocalsCurrent', UNCHANGED <<session, entries>>,
         \A t \in Threads : pc[t] = "advPrev" <=> pc'[t] = "advPrev"
  PROVE  UniqueSlots' /\ UniqueIds' /\ RowsChained' /\ NotBeyond' /\ TailIsLast'
  <1>1. UniqueSlots' /\ UniqueIds' /\ RowsChained'
    BY DEF ChainInv, UniqueSlots, UniqueIds, RowsChained, Authentic, Predecessor
  <1>2. NotBeyond' /\ TailIsLast'
    BY DEF ChainInv, NotBeyond, TailIsLast, Settled, Session, session
  <1> QED BY <1>1, <1>2

(* The commit of a row: with current reads it extends the chain by one.    *)
LEMMA CommitStep ==
  ASSUME SingleCaller, ChainInv, AppendInv',
         NEW t \in Threads, StoreEntry(t), entries' # entries
  PROVE  ChainInv'
  <1> USE StoreOfType, BoundsType
  <1> DEFINE r == Row(call[t])
             S == StoreOf[t]
  <1>0. TypeOK /\ TypeOK'
    BY DEF ChainInv, AppendInv
  <1>1. /\ pc[t] = "store" /\ ~Conflicts(r) /\ UNCHANGED <<opens, seqNum, prevId>>
        /\ entries' = entries \cup {r}
        /\ pc'[t] \in {"idle", "advSeq"}
        /\ pc'[t] = "advSeq" => call'[t] = call[t]
        /\ \A u \in Threads : u # t => pc'[u] = pc[u] /\ call'[u] = call[u]
    BY <1>0 DEF StoreEntry, session, Goto, Return, TypeOK
  <1>2. /\ r.session = Session(S) /\ r.seq = seqNum[S] + 1 /\ r.prev = prevId[S]
        /\ r.id = EntryId(r.content, Linear(r.prev), r.session)
        /\ S \in Stores /\ seqNum[S] \in Nat
    <2>1. /\ r.session = call[t].session /\ r.seq = call[t].seq /\ r.prev = call[t].prev
          /\ r.content = call[t].content /\ r.id = call[t].id
      BY DEF Row
    <2>2. call[t].session = Session(S) /\ S \in Stores /\ seqNum[S] \in Nat
      BY <1>0, <1>1 DEF TypeOK, CallOK
    <2>3. /\ call[t].seq = seqNum[S] + 1 /\ call[t].prev = prevId[S]
          /\ call[t].id = EntryId(call[t].content, Linear(call[t].prev), call[t].session)
      BY <1>1 DEF ChainInv, LocalsCurrent
    <2> QED BY <2>1, <2>2, <2>3
  <1>3. Settled(S)
    BY <1>1 DEF SingleCaller, Settled
  <1>4. UniqueSlots' /\ UniqueIds'
    BY <1>1 DEF ChainInv, UniqueSlots, UniqueIds, Conflicts
  <1> HIDE DEF r, S
  <1>5. RowsChained'
    <2>1. \A e \in entries' : Authentic(e)
      BY <1>1, <1>2 DEF ChainInv, RowsChained, Authentic
    <2>2. r.seq = 1 => r.prev = NoId
      BY <1>2, <1>3 DEF ChainInv, TailIsLast
    <2>3. \A p \in entries : Predecessor(r, p) => r.prev = p.id
      <3> SUFFICES ASSUME NEW p \in entries, Predecessor(r, p) PROVE r.prev = p.id
        OBVIOUS
      <3>1. p.session = Session(S) /\ p.seq = seqNum[S]
        BY <1>0, <1>2 DEF Predecessor, TypeOK
      <3> QED BY <1>2, <1>3, <3>1 DEF ChainInv, TailIsLast
    <2>4. \A e \in entries : ~Predecessor(e, r)
      BY <1>0, <1>2 DEF ChainInv, NotBeyond, Predecessor, TypeOK
    <2>5. ~Predecessor(r, r)
      BY <1>2 DEF Predecessor
    <2> QED BY <1>1, <2>1, <2>2, <2>3, <2>4, <2>5
          DEF ChainInv, RowsChained, Authentic, Predecessor
  <1>6. NotBeyond'
    <2> SUFFICES ASSUME NEW e \in entries', NEW x \in Stores, e.session = Session(x)'
                 PROVE e.seq <= seqNum'[x] + 1
      BY DEF NotBeyond
    <2>1. Session(x)' = Session(x) /\ seqNum'[x] = seqNum[x]
      BY <1>1 DEF Session
    <2>2. CASE e \in entries
      BY <2>1, <2>2 DEF ChainInv, NotBeyond
    <2>3. CASE e = r
      <3>1. x = S
        BY <1>2, <2>1, <2>3 DEF Session
      <3> QED BY <1>2, <2>1, <2>3, <3>1
    <2> QED BY <1>1, <2>2, <2>3
  <1>7. LocalsCurrent'
    BY <1>1 DEF ChainInv, LocalsCurrent
  <1>8. TailIsLast'
    <2> SUFFICES ASSUME NEW x \in Stores, Settled(x)'
                 PROVE /\ seqNum[x] = 0 => prevId[x] = NoId
                       /\ \A e \in entries' :
                            e.session = Session(x) /\ e.seq = seqNum[x] => e.id = prevId[x]
      BY <1>1 DEF TailIsLast, Session
    <2>1. Settled(x)
      BY <1>1 DEF Settled
    <2>2. ~(r.session = Session(x) /\ r.seq = seqNum[x])
      BY <1>2 DEF Session
    <2> QED BY <1>1, <2>1, <2>2 DEF ChainInv, TailIsLast
  <1> QED BY <1>4, <1>5, <1>6, <1>7, <1>8 DEF ChainInv

LEMMA ChainStep ==
  ASSUME SingleCaller, DefaultParents
  PROVE  ChainInv /\ [Next]_vars => ChainInv'
  <1> USE StoreOfType, BoundsType
  <1> SUFFICES ASSUME ChainInv, [Next]_vars PROVE ChainInv'
    OBVIOUS
  <1>0. TypeOK /\ TypeOK' /\ AppendInv'
    BY AppendStep DEF ChainInv, AppendInv
  <1>1. ASSUME NEW t \in Threads, NEW content \in Contents, NEW choice \in ParentChoices,
               BeginRemember(t, content, choice)
        PROVE ChainInv'
    <2>1. /\ pc[t] = "idle" /\ pc'[t] = "readPrev" /\ UNCHANGED <<session, entries>>
          /\ call'[t].seq = seqNum[StoreOf[t]] + 1 /\ call'[t].choice = choice
          /\ choice # "given"
          /\ \A u \in Threads : u # t => pc'[u] = pc[u] /\ call'[u] = call[u]
      BY <1>0, <1>1 DEF BeginRemember, Goto, TypeOK, DefaultParents
    <2>2. LocalsCurrent'
      BY <2>1 DEF ChainInv, LocalsCurrent, session
    <2> QED BY <1>0, <2>1, <2>2, QuietStep DEF ChainInv
  <1>2. ASSUME NEW t \in Threads, NEW content \in Contents, BeginMerge(t, content)
        PROVE ChainInv'
    <2>1. /\ pc[t] = "idle" /\ pc'[t] = "readPrev" /\ UNCHANGED <<session, entries>>
          /\ call'[t].seq = seqNum[StoreOf[t]] + 1 /\ call'[t].choice # "given"
          /\ \A u \in Threads : u # t => pc'[u] = pc[u] /\ call'[u] = call[u]
      BY <1>0, <1>2 DEF BeginMerge, Goto, TypeOK
    <2>2. LocalsCurrent'
      BY <2>1 DEF ChainInv, LocalsCurrent, session
    <2> QED BY <1>0, <2>1, <2>2, QuietStep DEF ChainInv
  <1>3. ASSUME NEW t \in Threads, ReadPrev(t) PROVE ChainInv'
    <2>1. /\ pc[t] = "readPrev" /\ pc'[t] = "store" /\ UNCHANGED <<session, entries>>
          /\ call[t].choice # "given"
          /\ \A u \in Threads : u # t => pc'[u] = pc[u] /\ call'[u] = call[u]
      BY <1>0, <1>3 DEF ReadPrev, Goto, TypeOK, ChainInv, LocalsCurrent
    <2>2. /\ call'[t].seq = call[t].seq /\ call'[t].prev = prevId[StoreOf[t]]
          /\ call'[t].content = call[t].content
          /\ call'[t].session = Session(StoreOf[t])
          /\ call'[t].id = EntryId(call[t].content, Linear(prevId[StoreOf[t]]),
                                   Session(StoreOf[t]))
      BY <1>0, <1>3, <2>1 DEF ReadPrev, TypeOK
    <2>3. LocalsCurrent'
      BY <2>1, <2>2 DEF ChainInv, LocalsCurrent, session
    <2> QED BY <1>0, <2>1, <2>3, QuietStep DEF ChainInv
  <1>4. ASSUME NEW t \in Threads, StoreEntry(t) PROVE ChainInv'
    <2>1. CASE entries' # entries
      BY <1>0, <1>4, <2>1, CommitStep
    <2>2. CASE entries' = entries
      <3>1. /\ pc[t] = "store" /\ pc'[t] \in {"idle", "advSeq"}
            /\ UNCHANGED <<session, entries>>
            /\ \A u \in Threads : u # t => pc'[u] = pc[u] /\ call'[u] = call[u]
        BY <1>0, <1>4, <2>2 DEF StoreEntry, Goto, Return, TypeOK, session
      <3>2. LocalsCurrent'
        BY <3>1 DEF ChainInv, LocalsCurrent, session
      <3> QED BY <1>0, <3>1, <3>2, QuietStep DEF ChainInv
    <2> QED BY <2>1, <2>2
  <1>5. ASSUME NEW t \in Threads, AdvanceSeq(t) PROVE ChainInv'
    <2> DEFINE S == StoreOf[t]
    <2>1. /\ pc[t] = "advSeq" /\ pc'[t] = "advPrev"
          /\ \A u \in Threads : u # t => pc'[u] = pc[u]
          /\ UNCHANGED <<opens, prevId, entries, tasks, call>>
          /\ seqNum'[S] = seqNum[S] + 1
          /\ \A s \in Stores : s # S => seqNum'[s] = seqNum[s]
          /\ S \in Stores /\ seqNum \in [Stores -> Nat]
      BY <1>0, <1>5 DEF AdvanceSeq, Goto, TypeOK
    <2>2. UniqueSlots' /\ UniqueIds' /\ RowsChained'
      BY <2>1 DEF ChainInv, UniqueSlots, UniqueIds, RowsChained, Authentic, Predecessor
    <2>3. NotBeyond'
      BY <1>0, <2>1 DEF ChainInv, NotBeyond, Session, TypeOK
    <2>4. LocalsCurrent'
      <3>1. call[t].seq = seqNum[S] + 1
        BY <2>1 DEF ChainInv, AppendInv, OneAdvancing
      <3>2. \A u \in Threads : u # t => StoreOf[u] # S
        BY DEF SingleCaller
      <3> QED BY <2>1, <3>1, <3>2 DEF ChainInv, LocalsCurrent
    <2>5. TailIsLast'
      <3> SUFFICES ASSUME NEW x \in Stores, Settled(x)'
                   PROVE /\ seqNum'[x] = 0 => prevId[x] = NoId
                         /\ \A e \in entries :
                              e.session = Session(x) /\ e.seq = seqNum'[x] => e.id = prevId[x]
        BY <2>1 DEF TailIsLast, Session
      <3>1. x # S
        BY <2>1 DEF Settled
      <3>2. Settled(x)
        BY <2>1 DEF Settled
      <3> QED BY <2>1, <3>1, <3>2 DEF ChainInv, TailIsLast
    <2> QED BY <1>0, <2>2, <2>3, <2>4, <2>5 DEF ChainInv
  <1>6. ASSUME NEW t \in Threads, AdvancePrev(t) PROVE ChainInv'
    <2> DEFINE S == StoreOf[t]
    <2>1. /\ pc[t] = "advPrev" /\ pc'[t] \in {"idle", "enqueue"}
          /\ \A u \in Threads : u # t => pc'[u] = pc[u] /\ call'[u] = call[u]
          /\ UNCHANGED <<opens, seqNum, entries, tasks>>
          /\ prevId'[S] = call[t].id
          /\ \A s \in Stores : s # S => prevId'[s] = prevId[s]
          /\ S \in Stores
      BY <1>0, <1>6 DEF AdvancePrev, Goto, Return, TypeOK
    <2>2. UniqueSlots' /\ UniqueIds' /\ RowsChained' /\ NotBeyond'
      BY <2>1 DEF ChainInv, UniqueSlots, UniqueIds, RowsChained, Authentic, Predecessor,
                  NotBeyond, Session
    <2>3. \A u \in Threads : u # t => StoreOf[u] # S
      BY DEF SingleCaller
    <2>4. LocalsCurrent'
      BY <2>1, <2>3 DEF ChainInv, LocalsCurrent
    <2>5. /\ Row(call[t]) \in entries /\ Row(call[t]).session = Session(S)
          /\ Row(call[t]).seq = seqNum[S] /\ Row(call[t]).id = call[t].id
      BY <1>0, <2>1 DEF ChainInv, LocalsCurrent, AppendInv, CommittedRow, Committed,
                        Row, TypeOK, CallOK
    <2>6. TailIsLast'
      <3> SUFFICES ASSUME NEW x \in Stores, Settled(x)'
                   PROVE /\ seqNum[x] = 0 => prevId'[x] = NoId
                         /\ \A e \in entries :
                              e.session = Session(x) /\ e.seq = seqNum[x] => e.id = prevId'[x]
        BY <2>1 DEF TailIsLast, Session
      <3>1. CASE x = S
        <4>1. seqNum[S] # 0
          BY <1>0, <2>5 DEF TypeOK
        <4>2. \A e \in entries :
                e.session = Session(S) /\ e.seq = seqNum[S] => e = Row(call[t])
          BY <2>5 DEF ChainInv, UniqueSlots
        <4> QED BY <2>1, <2>5, <3>1, <4>1, <4>2
      <3>2. CASE x # S
        <4>1. Settled(x)
          BY <2>1, <3>2 DEF Settled
        <4> QED BY <2>1, <3>2, <4>1 DEF ChainInv, TailIsLast
      <3> QED BY <3>1, <3>2
    <2> QED BY <1>0, <2>2, <2>4, <2>6 DEF ChainInv
  <1>7. ASSUME NEW t \in Threads, Enqueue(t) PROVE ChainInv'
    <2>1. /\ pc[t] = "enqueue" /\ pc'[t] = "idle" /\ UNCHANGED <<session, entries>>
          /\ \A u \in Threads : u # t => pc'[u] = pc[u] /\ call'[u] = call[u]
      BY <1>0, <1>7 DEF Enqueue, Goto, Return, TypeOK
    <2>2. LocalsCurrent'
      BY <2>1 DEF ChainInv, LocalsCurrent, session
    <2> QED BY <1>0, <2>1, <2>2, QuietStep DEF ChainInv
  <1>8. ASSUME NEW s \in Stores, Reopen(s) PROVE ChainInv'
    <2>1. /\ opens'[s] = opens[s] + 1 /\ seqNum'[s] = 0 /\ prevId'[s] = NoId
          /\ \A x \in Stores : x # s => /\ opens'[x] = opens[x]
                                       /\ seqNum'[x] = seqNum[x]
                                       /\ prevId'[x] = prevId[x]
          /\ \A u \in Threads : StoreOf[u] = s => pc'[u] = "idle"
          /\ \A u \in Threads : StoreOf[u] # s => pc'[u] = pc[u] /\ call'[u] = call[u]
          /\ UNCHANGED entries
      BY <1>0, <1>8 DEF Reopen, TypeOK
    <2>2. UniqueSlots' /\ UniqueIds' /\ RowsChained'
      BY <2>1 DEF ChainInv, UniqueSlots, UniqueIds, RowsChained, Authentic, Predecessor
    <2>3. \A e \in entries : e.session # Session(s)'
      BY <1>0, <2>1 DEF ChainInv, AppendInv, RowsOpened, Session, TypeOK
    <2>4. \A x \in Stores : x # s => Session(x)' = Session(x)
      BY <2>1 DEF Session
    <2>5. NotBeyond'
      BY <2>1, <2>3, <2>4 DEF ChainInv, NotBeyond
    <2>6. LocalsCurrent'
      BY <2>1 DEF ChainInv, LocalsCurrent
    <2>7. TailIsLast'
      <3> SUFFICES ASSUME NEW x \in Stores, Settled(x)'
                   PROVE /\ seqNum'[x] = 0 => prevId'[x] = NoId
                         /\ \A e \in entries :
                              e.session = Session(x)' /\ e.seq = seqNum'[x] => e.id = prevId'[x]
        BY <2>1 DEF TailIsLast
      <3>1. CASE x = s
        BY <2>1, <2>3, <3>1
      <3>2. CASE x # s
        <4>1. Settled(x)
          BY <2>1, <3>2 DEF Settled
        <4> QED BY <2>1, <2>4, <3>2, <4>1 DEF ChainInv, TailIsLast
      <3> QED BY <3>1, <3>2
    <2> QED BY <1>0, <2>2, <2>5, <2>6, <2>7 DEF ChainInv
  <1>9. CASE UNCHANGED vars
    <2>1. LocalsCurrent'
      BY <1>9 DEF vars, ChainInv, LocalsCurrent
    <2> QED BY <1>0, <1>9, <2>1, QuietStep DEF vars, session, ChainInv
  <1> QED BY <1>1, <1>2, <1>3, <1>4, <1>5, <1>6, <1>7, <1>8, <1>9 DEF Next, ThreadStep

(* THEOREM: with one caller per store and default parents, verify() accepts*)
(* every session at every moment, merges and crashes included.             *)
THEOREM ChainTheorem ==
  ASSUME SingleCaller, DefaultParents
  PROVE  Spec => []ChainVerifies
  <1>1. ChainInv => ChainVerifies
    BY DEF ChainInv, AppendInv, NoGapAnywhere, RowsChained, ChainVerifies, Verify,
           Linked, EntriesOf
  <1>2. ChainInv /\ [Next]_vars => ChainInv'
    BY ChainStep
  <1> QED BY <1>1, <1>2, InitChain, PTL DEF Spec

-----------------------------------------------------------------------------
(***************************************************************************)
(* Without the merger's failing call, the counters are never behind the    *)
(* rows once a call has ended, and no write is refused.                    *)
(***************************************************************************)
Advancing(s) == \E t \in Threads : StoreOf[t] = s /\ pc[t] = "advSeq"

NotAhead ==
  \A s \in Stores : ~Advancing(s) =>
    \A e \in entries : e.session = Session(s) => e.seq <= seqNum[s]

OnlyRemember == \A t \in Threads : ~Finished(t) => call[t].kind = "remember"

AcceptInv == ChainInv /\ NotAhead /\ OnlyRemember /\ AllWritesAccepted

(* A row built from current reads meets neither constraint.                *)
LEMMA NoConflict ==
  ASSUME SingleCaller, AcceptInv, NEW t \in Threads, pc[t] = "store"
  PROVE  ~Conflicts(Row(call[t]))
  <1> USE StoreOfType
  <1> DEFINE r == Row(call[t])
             S == StoreOf[t]
  <1>0. TypeOK
    BY DEF AcceptInv, ChainInv, AppendInv
  <1>1. /\ r.session = Session(S) /\ r.seq = seqNum[S] + 1 /\ r.prev = prevId[S]
        /\ r.id = EntryId(r.content, Linear(prevId[S]), Session(S))
        /\ S \in Stores /\ seqNum[S] \in Nat
    <2>1. /\ r.session = call[t].session /\ r.seq = call[t].seq /\ r.prev = call[t].prev
          /\ r.content = call[t].content /\ r.id = call[t].id
      BY DEF Row
    <2>2. call[t].session = Session(S) /\ S \in Stores /\ seqNum[S] \in Nat
      BY <1>0 DEF TypeOK, CallOK
    <2>3. /\ call[t].seq = seqNum[S] + 1 /\ call[t].prev = prevId[S]
          /\ call[t].id = EntryId(call[t].content, Linear(call[t].prev), call[t].session)
      BY DEF AcceptInv, ChainInv, LocalsCurrent
    <2> QED BY <2>1, <2>2, <2>3
  <1> HIDE DEF r, S
  <1>2. Settled(S) /\ ~Advancing(S)
    BY DEF SingleCaller, Settled, Advancing, S
  <1>3. \A e \in entries : e.session = Session(S) => e.seq <= seqNum[S] /\ e.seq \in Nat \ {0}
    BY <1>0, <1>1, <1>2 DEF AcceptInv, NotAhead, TypeOK
  <1>4. \A e \in entries : ~(e.session = r.session /\ e.seq = r.seq)
    BY <1>1, <1>3
  <1>5. ASSUME NEW e \in entries, e.id = r.id PROVE FALSE
    <2>1. e.id = EntryId(e.content, Linear(e.prev), e.session)
      BY DEF AcceptInv, ChainInv, RowsChained, Authentic
    <2>2. e.session = Session(S) /\ Linear(e.prev) = Linear(prevId[S])
      BY <1>1, <1>5, <2>1 DEF EntryId
    <2>3. e.prev = prevId[S]
      BY <2>2 DEF Linear
    <2>4. e.seq \in Nat \ {0} /\ e.seq <= seqNum[S]
      BY <1>3, <2>2
    <2>5. PICK q \in entries : q.session = Session(S) /\ q.seq = seqNum[S]
      BY <1>1, <2>4 DEF AcceptInv, ChainInv, AppendInv, RowsFilled, Filled
    <2>6. q.id = prevId[S] /\ q.id # NoId
      <3>1. q.id = prevId[S]
        BY <1>1, <1>2, <2>5 DEF AcceptInv, ChainInv, TailIsLast
      <3>2. q.id = EntryId(q.content, Linear(q.prev), q.session)
        BY DEF AcceptInv, ChainInv, RowsChained, Authentic
      <3> QED BY <3>1, <3>2 DEF EntryId, NoId
    <2>7. e.seq # 1
      BY <2>3, <2>6 DEF AcceptInv, ChainInv, RowsChained
    <2>8. PICK p \in entries : Predecessor(e, p)
      BY <2>7 DEF AcceptInv, ChainInv, AppendInv, NoGapAnywhere, NoGap, EntriesOf,
                  TypeOK
    <2>9. p.id = e.prev /\ p.session = Session(S) /\ p.seq + 1 = e.seq
      BY <2>2, <2>8 DEF AcceptInv, ChainInv, RowsChained, Predecessor
    <2>10. p = q
      BY <2>3, <2>6, <2>9 DEF AcceptInv, ChainInv, UniqueIds
    <2> QED BY <1>1, <2>4, <2>5, <2>9, <2>10
  <1> QED BY <1>4, <1>5 DEF Conflicts, r

LEMMA AcceptStep ==
  ASSUME SingleCaller, DefaultParents, ~MergeEnabled
  PROVE  AcceptInv /\ [Next]_vars => AcceptInv'
  <1> USE StoreOfType, BoundsType
  <1> SUFFICES ASSUME AcceptInv, [Next]_vars PROVE AcceptInv'
    OBVIOUS
  <1>0. TypeOK /\ TypeOK' /\ ChainInv'
    BY ChainStep DEF AcceptInv, ChainInv, AppendInv
  <1>1. ASSUME NEW t \in Threads, NEW content \in Contents, NEW choice \in ParentChoices,
               BeginRemember(t, content, choice)
        PROVE AcceptInv'
    BY <1>0, <1>1 DEF BeginRemember, Goto, TypeOK, AcceptInv, NotAhead, Advancing,
                      OnlyRemember, AllWritesAccepted, Finished, session, Session
  <1>2. ASSUME NEW t \in Threads, ReadPrev(t) PROVE AcceptInv'
    BY <1>0, <1>2 DEF ReadPrev, Goto, TypeOK, AcceptInv, NotAhead, Advancing,
                      OnlyRemember, AllWritesAccepted, Finished, session, Session
  <1>3. ASSUME NEW t \in Threads, StoreEntry(t) PROVE AcceptInv'
    <2> DEFINE r == Row(call[t])
    <2>1. /\ pc[t] = "store" /\ call[t].kind = "remember" /\ UNCHANGED <<opens, seqNum>>
          /\ ~Conflicts(r)
      BY <1>3, NoConflict DEF StoreEntry, session, AcceptInv, OnlyRemember, Finished
    <2>2. /\ entries' = entries \cup {r} /\ pc' = [pc EXCEPT ![t] = "advSeq"]
          /\ UNCHANGED <<call, outcome>>
      BY <1>3, <2>1 DEF StoreEntry, Goto
    <2>3. r.session = Session(StoreOf[t])
      BY <1>0, <2>1 DEF TypeOK, CallOK, Row
    <2>4. NotAhead'
      <3> SUFFICES ASSUME NEW x \in Stores, ~Advancing(x)', NEW e \in entries',
                          e.session = Session(x)
                   PROVE e.seq <= seqNum[x]
        BY <2>1 DEF NotAhead, Session
      <3>1. x # StoreOf[t]
        BY <1>0, <2>2 DEF Advancing, TypeOK
      <3>2. e \in entries
        BY <2>2, <2>3, <3>1 DEF Session
      <3>3. ~Advancing(x)
        BY <1>0, <2>2, <3>1 DEF Advancing, TypeOK
      <3> QED BY <3>2, <3>3 DEF AcceptInv, NotAhead
    <2>5. OnlyRemember' /\ AllWritesAccepted'
      BY <1>0, <2>1, <2>2 DEF AcceptInv, OnlyRemember, AllWritesAccepted, Finished, TypeOK
    <2> QED BY <1>0, <2>4, <2>5 DEF AcceptInv
  <1>4. ASSUME NEW t \in Threads, AdvanceSeq(t) PROVE AcceptInv'
    <2>1. /\ pc[t] = "advSeq" /\ pc' = [pc EXCEPT ![t] = "advPrev"]
          /\ UNCHANGED <<opens, entries, call, outcome>>
          /\ seqNum' = [seqNum EXCEPT ![StoreOf[t]] = @ + 1]
      BY <1>4 DEF AdvanceSeq, Goto
    <2>2. NotAhead'
      <3> SUFFICES ASSUME NEW x \in Stores, ~Advancing(x)', NEW e \in entries,
                          e.session = Session(x)
                   PROVE e.seq <= seqNum'[x]
        BY <2>1 DEF NotAhead, Session
      <3>1. CASE x = StoreOf[t]
        BY <1>0, <2>1, <3>1 DEF AcceptInv, ChainInv, NotBeyond, TypeOK
      <3>2. CASE x # StoreOf[t]
        <4>1. ~Advancing(x)
          BY <1>0, <2>1, <3>2 DEF Advancing, TypeOK
        <4> QED BY <1>0, <2>1, <3>2, <4>1 DEF AcceptInv, NotAhead, TypeOK
      <3> QED BY <3>1, <3>2
    <2>3. OnlyRemember' /\ AllWritesAccepted'
      BY <1>0, <2>1 DEF AcceptInv, OnlyRemember, AllWritesAccepted, Finished, TypeOK
    <2> QED BY <1>0, <2>2, <2>3 DEF AcceptInv
  <1>5. ASSUME NEW t \in Threads, AdvancePrev(t) \/ Enqueue(t) PROVE AcceptInv'
    <2>1. /\ pc[t] \in {"advPrev", "enqueue"} /\ pc'[t] \in {"enqueue", "idle"}
          /\ UNCHANGED <<opens, entries, seqNum>>
          /\ \A u \in Threads : u # t => /\ pc'[u] = pc[u] /\ call'[u] = call[u]
                                        /\ outcome'[u] = outcome[u]
          /\ pc'[t] = "enqueue" => call'[t] = call[t]
          /\ outcome'[t] \in {outcome[t], "ok"}
      BY <1>0, <1>5 DEF AdvancePrev, Enqueue, Goto, Return, TypeOK, session
    <2>2. NotAhead'
      BY <2>1 DEF AcceptInv, NotAhead, Advancing, Session
    <2>3. OnlyRemember' /\ AllWritesAccepted'
      BY <1>0, <2>1 DEF AcceptInv, OnlyRemember, AllWritesAccepted, Finished, TypeOK
    <2> QED BY <1>0, <2>2, <2>3 DEF AcceptInv
  <1>6. ASSUME NEW s \in Stores, Reopen(s) PROVE AcceptInv'
    <2>1. /\ opens'[s] = opens[s] + 1 /\ UNCHANGED entries
          /\ \A x \in Stores : x # s => opens'[x] = opens[x] /\ seqNum'[x] = seqNum[x]
          /\ \A u \in Threads : StoreOf[u] = s => pc'[u] = "idle" /\ outcome'[u] = "none"
          /\ \A u \in Threads : StoreOf[u] # s => /\ pc'[u] = pc[u] /\ call'[u] = call[u]
                                                /\ outcome'[u] = outcome[u]
      BY <1>0, <1>6 DEF Reopen, TypeOK
    <2>2. \A e \in entries : e.session # Session(s)'
      BY <1>0, <2>1 DEF AcceptInv, ChainInv, AppendInv, RowsOpened, Session, TypeOK
    <2>3. \A x \in Stores : x # s => Session(x)' = Session(x) /\ (Advancing(x)' <=> Advancing(x))
      BY <2>1 DEF Session, Advancing
    <2>4. NotAhead'
      BY <2>1, <2>2, <2>3 DEF AcceptInv, NotAhead
    <2>5. OnlyRemember' /\ AllWritesAccepted'
      BY <2>1 DEF AcceptInv, OnlyRemember, AllWritesAccepted, Finished
    <2> QED BY <1>0, <2>4, <2>5 DEF AcceptInv
  <1>7. CASE UNCHANGED vars
    BY <1>0, <1>7 DEF vars, AcceptInv, NotAhead, Advancing, OnlyRemember, AllWritesAccepted,
                      Finished, Session
  <1> QED BY <1>1, <1>2, <1>3, <1>4, <1>5, <1>6, <1>7 DEF Next, ThreadStep, BeginMerge

LEMMA InitAccept == Init => AcceptInv
  BY InitChain DEF Init, AcceptInv, NotAhead, OnlyRemember, AllWritesAccepted, Finished

(* THEOREM: with one caller per store, default parents and no merge, every *)
(* remember() is accepted: the constraints never refuse it.                *)
THEOREM AcceptTheorem ==
  ASSUME SingleCaller, DefaultParents, ~MergeEnabled
  PROVE  Spec => []AllWritesAccepted
  <1>1. AcceptInv => AllWritesAccepted
    BY DEF AcceptInv
  <1>2. AcceptInv /\ [Next]_vars => AcceptInv'
    BY AcceptStep
  <1> QED BY <1>1, <1>2, InitAccept, PTL DEF Spec

(* THEOREM: under the same conditions the in-memory counters of an idle    *)
(* store are exactly the tail of its session in the database.              *)
THEOREM CountersTheorem ==
  ASSUME SingleCaller, DefaultParents, ~MergeEnabled
  PROVE  Spec => []CountersMatchRows
  <1>1. AcceptInv => CountersMatchRows
    <2> SUFFICES ASSUME AcceptInv, NEW s \in Stores,
                        \A t \in Threads : StoreOf[t] = s => Finished(t)
                 PROVE /\ {e.seq : e \in EntriesOf(Session(s))} = 1..seqNum[s]
                       /\ {e.id : e \in {r \in EntriesOf(Session(s)) : r.seq = seqNum[s]}}
                            = Linear(prevId[s])
      BY DEF CountersMatchRows
    <2>0. seqNum[s] \in Nat /\ \A e \in entries : e.seq \in Nat \ {0}
      BY DEF AcceptInv, ChainInv, AppendInv, TypeOK
    <2>1. Settled(s) /\ ~Advancing(s)
      BY DEF Settled, Advancing, Finished
    <2>2. \A e \in EntriesOf(Session(s)) : e.seq \in 1..seqNum[s]
      BY <2>0, <2>1 DEF AcceptInv, NotAhead, EntriesOf
    <2>3. \A n \in 1..seqNum[s] : \E e \in EntriesOf(Session(s)) : e.seq = n
      BY DEF AcceptInv, ChainInv, AppendInv, RowsFilled, Filled, EntriesOf
    <2>4. {e.seq : e \in EntriesOf(Session(s))} = 1..seqNum[s]
      BY <2>2, <2>3
    <2>5. CASE seqNum[s] = 0
      <3>1. prevId[s] = NoId
        BY <2>1, <2>5 DEF AcceptInv, ChainInv, TailIsLast
      <3>2. {r \in EntriesOf(Session(s)) : r.seq = seqNum[s]} = {}
        BY <2>2, <2>5
      <3> QED BY <2>4, <3>1, <3>2 DEF Linear
    <2>6. CASE seqNum[s] # 0
      <3>1. PICK q \in EntriesOf(Session(s)) : q.seq = seqNum[s]
        BY <2>0, <2>3, <2>6
      <3>2. \A r \in EntriesOf(Session(s)) : r.seq = seqNum[s] => r.id = prevId[s]
        BY <2>1 DEF AcceptInv, ChainInv, TailIsLast, EntriesOf
      <3>3. prevId[s] # NoId
        <4>1. q.id = EntryId(q.content, Linear(q.prev), q.session)
          BY <3>1 DEF AcceptInv, ChainInv, RowsChained, Authentic, EntriesOf
        <4>2. q.id = prevId[s]
          BY <3>1, <3>2
        <4>3. q.id # NoId
          BY <4>1 DEF EntryId, NoId
        <4> QED BY <4>2, <4>3
      <3> QED BY <2>4, <3>1, <3>2, <3>3 DEF Linear
    <2> QED BY <2>5, <2>6
  <1>2. AcceptInv /\ [Next]_vars => AcceptInv'
    BY AcceptStep
  <1> QED BY <1>1, <1>2, InitAccept, PTL DEF Spec

=============================================================================
