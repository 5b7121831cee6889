---------------------------- MODULE SessionChain ----------------------------
(***************************************************************************)
(* The signed session chain of AIngram: MemoryStore.remember, the memory   *)
(* merger, the session counters they share and the chain verifier.         *)
(*                                                                         *)
(* Each store is one MemoryStore object (a process of its own or several   *)
(* objects on the same file); all of them write to one memory_entries      *)
(* table.  A thread is a caller of one store.  remember() reads the        *)
(* session counters, computes the entry id, embeds, commits the row under  *)
(* the engine's lock and only then advances the counters: every one of     *)
(* those is a step of its own here, because nothing but store_entry holds  *)
(* a lock.                                                                 *)
(***************************************************************************)
EXTENDS Naturals, FiniteSets

CONSTANTS
  Stores,          (* MemoryStore objects open on the database             *)
  Threads,         (* callers of remember() and consolidate()              *)
  StoreOf,         (* StoreOf[t]: the store thread t calls                 *)
  Contents,        (* abstract canonical contents                          *)
  ParentChoices,   (* what callers pass as parent_ids: "default", "given"  *)
  MergeClusterMin, (* entries a merge cluster needs (_MIN_CLUSTER_SIZE)    *)
  MergeEnabled,    (* consolidate() is given an LLM                        *)
  MaxOpens,        (* bound: how often a store is opened                   *)
  MaxEntries       (* bound: rows of memory_entries                        *)

ASSUME StoreOfType == StoreOf \in [Threads -> Stores]
ASSUME BoundsType == /\ MaxOpens \in Nat \ {0}
                     /\ MaxEntries \in Nat
                     /\ MergeClusterMin \in Nat
ASSUME ChoicesType == /\ ParentChoices \subseteq {"default", "given"}
                      /\ MergeEnabled \in BOOLEAN

VARIABLES
  opens,       (* opens[s]: how often store s has been opened              *)
  seqNum,      (* seqNum[s]: SessionManager._sequence_num                  *)
  prevId,      (* prevId[s]: SessionManager._prev_entry_id                 *)
  entries,     (* rows of memory_entries                                   *)
  tasks,       (* entry ids with an extract_entities_v3 task               *)
  pc,          (* pc[t]: where thread t is in remember() / merge_similar() *)
  call,        (* call[t]: the local variables of that call                *)
  outcome      (* outcome[t]: what t's last finished call returned         *)

vars == <<opens, seqNum, prevId, entries, tasks, pc, call, outcome>>
session == <<opens, seqNum, prevId>>

-----------------------------------------------------------------------------
(* A session is identified by the store and by which opening of it created *)
(* the key pair: the private key lives in memory only.                     *)
Session(s) == <<s, opens[s]>>
Sessions == Stores \X (1..MaxOpens)

(* compute_entry_id hashes content, sorted parents and public key; SHA-256 *)
(* is taken to be injective, the key pair to be the session's.             *)
EntryId(content, parents, k) == <<content, parents, k>>

(* The None of prev_entry_id: no hash.                                     *)
NoId == <<>>

Linear(prev) == IF prev = NoId THEN {} ELSE {prev}

NoCall == [kind |-> "none"]
Steps == {"idle", "readPrev", "store", "advSeq", "advPrev", "enqueue"}
Outcomes == {"none", "ok", "rejected", "raised"}

EntriesOf(k) == {e \in entries : e.session = k}

-----------------------------------------------------------------------------
Init ==
  /\ opens = [s \in Stores |-> 1]
  /\ seqNum = [s \in Stores |-> 0]
  /\ prevId = [s \in Stores |-> NoId]
  /\ entries = {}
  /\ tasks = {}
  /\ pc = [t \in Threads |-> "idle"]
  /\ call = [t \in Threads |-> NoCall]
  /\ outcome = [t \in Threads |-> "none"]

Goto(t, step) == pc' = [pc EXCEPT ![t] = step]

Return(t, result) ==
  /\ Goto(t, "idle")
  /\ call' = [call EXCEPT ![t] = NoCall]
  /\ outcome' = [outcome EXCEPT ![t] = result]

(* remember(): the counter is read first, without a lock.  "given" parents *)
(* are ids the caller has from earlier calls or from recall().             *)
BeginRemember(t, content, choice) ==
  /\ pc[t] = "idle"
  /\ Cardinality(entries) < MaxEntries
  /\ \E given \in IF choice = "given" THEN SUBSET {e.id : e \in entries} ELSE {{}} :
       call' = [call EXCEPT ![t] = [kind |-> "remember", content |-> content,
                                    choice |-> choice, given |-> given,
                                    seq |-> seqNum[StoreOf[t]] + 1]]
  /\ Goto(t, "readPrev")
  /\ UNCHANGED <<session, entries, tasks, outcome>>

(* merge_similar(): a cluster of MergeClusterMin rows of any session, a    *)
(* summary by the LLM, then the same reads.  Which rows share an entity is *)
(* left open.                                                              *)
BeginMerge(t, content) ==
  /\ MergeEnabled
  /\ pc[t] = "idle"
  /\ Cardinality(entries) \in MergeClusterMin..(MaxEntries - 1)
  /\ call' = [call EXCEPT ![t] = [kind |-> "merge", content |-> content,
                                  choice |-> "default", given |-> {},
                                  seq |-> seqNum[StoreOf[t]] + 1]]
  /\ Goto(t, "readPrev")
  /\ UNCHANGED <<session, entries, tasks, outcome>>

(* The tail of the chain is read next; id, signature and embedding follow  *)
(* from what this thread has read and touch nothing shared.                *)
ReadPrev(t) ==
  /\ pc[t] = "readPrev"
  /\ LET c == call[t]
         s == StoreOf[t]
         parents == IF c.choice = "given" THEN c.given ELSE Linear(prevId[s])
     IN  call' = [call EXCEPT ![t] =
                    [kind |-> c.kind, session |-> Session(s), seq |-> c.seq,
                     prev |-> prevId[s], content |-> c.content,
                     id |-> EntryId(c.content, parents, Session(s))]]
  /\ Goto(t, "store")
  /\ UNCHANGED <<session, entries, tasks, outcome>>

Row(c) == [id |-> c.id, session |-> c.session, seq |-> c.seq, prev |-> c.prev,
           content |-> c.content]

(* Slip: UNIQUE(session_id, sequence_num) is missing from the schema.      *)
ConflictsOnId(r) ==
  \E e \in entries : e.id = r.id

(* PRIMARY KEY(entry_id) and UNIQUE(session_id, sequence_num).             *)
Conflicts(r) ==
  \E e \in entries : \/ e.id = r.id
                     \/ e.session = r.session /\ e.seq = r.seq

(* Slip: a failed insert is logged and the call goes on.                   *)
StoreEntrySwallowing(t) ==
  /\ pc[t] = "store"
  /\ LET c == call[t] IN
       IF Conflicts(Row(c))
       THEN /\ Goto(t, "advSeq")
            /\ UNCHANGED <<entries, call, outcome>>
       ELSE /\ entries' = entries \cup {Row(c)}
            /\ IF c.kind = "merge" /\ c.prev # NoId
               THEN Return(t, "raised")
               ELSE /\ Goto(t, "advSeq")
                    /\ UNCHANGED <<call, outcome>>
  /\ UNCHANGED <<session, tasks>>

(* store_entry(): one transaction under the engine lock; a constraint that *)
(* fails rolls it back and the call raises DatabaseError.  After the       *)
(* merger's commit, a summary with a predecessor goes on to                *)
(* engine.insert_dag_parents, which StorageEngine does not have: the call  *)
(* leaves with AttributeError before the session is advanced.              *)
StoreEntry(t) ==
  /\ pc[t] = "store"
  /\ LET c == call[t] IN
       IF Conflicts(Row(c))
       THEN /\ Return(t, "rejected")
            /\ UNCHANGED entries
       ELSE /\ entries' = entries \cup {Row(c)}
            /\ IF c.kind = "merge" /\ c.prev # NoId
               THEN Return(t, "raised")
               ELSE /\ Goto(t, "advSeq")
                    /\ UNCHANGED <<call, outcome>>
  /\ UNCHANGED <<session, tasks>>

(* Slip: the counter is not advanced.                                      *)
AdvanceSeqSkipped(t) ==
  /\ pc[t] = "advSeq"
  /\ UNCHANGED seqNum
  /\ Goto(t, "advPrev")
  /\ UNCHANGED <<opens, prevId, entries, tasks, call, outcome>>

(* SessionManager.advance is two assignments.                              *)
AdvanceSeq(t) ==
  /\ pc[t] = "advSeq"
  /\ seqNum' = [seqNum EXCEPT ![StoreOf[t]] = @ + 1]
  /\ Goto(t, "advPrev")
  /\ UNCHANGED <<opens, prevId, entries, tasks, call, outcome>>

(* Slip: the tail is not advanced.                                         *)
AdvancePrevSkipped(t) ==
  /\ pc[t] = "advPrev"
  /\ UNCHANGED prevId
  /\ IF call[t].kind = "remember"
     THEN Goto(t, "enqueue") /\ UNCHANGED <<call, outcome>>
     ELSE Return(t, "ok")
  /\ UNCHANGED <<opens, seqNum, entries, tasks>>

AdvancePrev(t) ==
  /\ pc[t] = "advPrev"
  /\ prevId' = [prevId EXCEPT ![StoreOf[t]] = call[t].id]
  /\ IF call[t].kind = "remember"
     THEN Goto(t, "enqueue") /\ UNCHANGED <<call, outcome>>
     ELSE Return(t, "ok")
  /\ UNCHANGED <<opens, seqNum, entries, tasks>>

(* The extraction task is a second transaction; a failure is logged and    *)
(* the id is returned all the same.                                        *)
Enqueue(t) ==
  /\ pc[t] = "enqueue"
  /\ \/ tasks' = tasks \cup {call[t].id}
     \/ UNCHANGED tasks
  /\ Return(t, "ok")
  /\ UNCHANGED <<session, entries>>

(* The process of store s ends (cleanly or not) and the file is opened     *)
(* again: a new key pair, a new agent_sessions row, counters from zero.    *)
Reopen(s) ==
  /\ opens[s] < MaxOpens
  /\ opens' = [opens EXCEPT ![s] = @ + 1]
  /\ seqNum' = [seqNum EXCEPT ![s] = 0]
  /\ prevId' = [prevId EXCEPT ![s] = NoId]
  /\ pc' = [t \in Threads |-> IF StoreOf[t] = s THEN "idle" ELSE pc[t]]
  /\ call' = [t \in Threads |-> IF StoreOf[t] = s THEN NoCall ELSE call[t]]
  /\ outcome' = [t \in Threads |-> IF StoreOf[t] = s THEN "none" ELSE outcome[t]]
  /\ UNCHANGED <<entries, tasks>>

ThreadStep(t) ==
  \/ ReadPrev(t)
  \/ StoreEntry(t)
  \/ AdvanceSeq(t)
  \/ AdvancePrev(t)
  \/ Enqueue(t)

Next ==
  \/ \E t \in Threads, content \in Contents :
       \/ \E choice \in ParentChoices : BeginRemember(t, content, choice)
       \/ BeginMerge(t, content)
  \/ \E t \in Threads : ThreadStep(t)
  \/ \E s \in Stores : Reopen(s)

Spec == Init /\ [][Next]_vars

-----------------------------------------------------------------------------
(* verify(k) of the code: the rows of a session in sequence order, each    *)
(* one checked against its predecessor and against its own id.             *)
Predecessor(e, p) == p.session = e.session /\ p.seq + 1 = e.seq

NoGap(k) ==
  \A e \in EntriesOf(k) : e.seq = 1 \/ \E p \in entries : Predecessor(e, p)

Linked(k) ==
  \A e \in EntriesOf(k) :
    /\ e.seq = 1 => e.prev = NoId
    /\ \A p \in entries : Predecessor(e, p) => e.prev = p.id

(* _verify_entry recomputes the id from prev_entry_id alone.               *)
Authentic(e) == e.id = EntryId(e.content, Linear(e.prev), e.session)

Verify(k) ==
  /\ NoGap(k)
  /\ Linked(k)
  /\ \A e \in EntriesOf(k) : Authentic(e)

-----------------------------------------------------------------------------
(* Type correctness: also which local variables a call has at each step.   *)
Finished(t) == pc[t] = "idle"

CallOK(t) ==
  /\ Finished(t) => call[t] = NoCall
  /\ ~Finished(t) => /\ call[t].kind \in {"remember", "merge"}
                     /\ call[t].content \in Contents
                     /\ call[t].seq \in Nat \ {0}
  /\ pc[t] \notin {"idle", "readPrev"} => call[t].session = Session(StoreOf[t])

TypeOK ==
  /\ opens \in [Stores -> 1..MaxOpens]
  /\ seqNum \in [Stores -> Nat]
  /\ DOMAIN prevId = Stores
  /\ pc \in [Threads -> Steps]
  /\ outcome \in [Threads -> Outcomes]
  /\ DOMAIN call = Threads
  /\ \A t \in Threads : CallOK(t)
  /\ \A e \in entries : /\ e.session \in Sessions
                         /\ e.seq \in Nat \ {0}
                         /\ e.content \in Contents

(* The uses of a store for which the chain properties are claimed: one     *)
(* caller at a time, parents left to the default.                          *)
SingleCaller == \A t, u \in Threads : StoreOf[t] = StoreOf[u] => t = u
DefaultParents == "given" \notin ParentChoices

(* verify() accepts every session of the database at every moment: also    *)
(* between the commit of a row and the advance of the counters, and after  *)
(* a crash between the two (store.py, remember and verify).                *)
ChainVerifies == \A k \in Sessions : Verify(k)

(* No legal remember() or merge is refused by the UNIQUE or PRIMARY KEY    *)
(* constraints (store_entry raising DatabaseError to the caller).          *)
AllWritesAccepted == \A t \in Threads : outcome[t] # "rejected"

(* Whenever no call of a store is under way, its in-memory counters are    *)
(* the tail of its session in the database, so that the next row continues *)
(* the chain (SessionManager against memory_entries).                      *)
CountersMatchRows ==
  \A s \in Stores :
    (\A t \in Threads : StoreOf[t] = s => Finished(t)) =>
      LET rows == EntriesOf(Session(s))
      IN  /\ {e.seq : e \in rows} = 1..seqNum[s]
          /\ {e.id : e \in {r \in rows : r.seq = seqNum[s]}} = Linear(prevId[s])

(* However callers interleave, the sequence numbers of a session have no   *)
(* gap: a row is never committed ahead of its predecessor.                 *)
NoGapAnywhere == \A k \in Sessions : NoGap(k)

(* The tail the next call will link to is always a committed row of the    *)
(* same session, never an id whose insert failed or was lost.              *)
TailCommitted ==
  \A s \in Stores :
    prevId[s] # NoId => \E e \in EntriesOf(Session(s)) : e.id = prevId[s]

(* An extraction task always names a committed row, so that a worker that  *)
(* claims it at once finds the entry.                                      *)
TaskHasEntry == tasks \subseteq {e.id : e \in entries}

-----------------------------------------------------------------------------
(* What the chain promises its readers: an append-only numbered log per    *)
(* session, written only while the session's key is alive.                 *)
Log == INSTANCE AgentLog
         WITH log <- {<<e.session, e.seq, e.content>> : e \in entries},
              live <- {Session(s) : s \in Stores}

(* Every interleaving of remember, merge and restarts appends to the log   *)
(* of a live session, one row at a time, and changes no row.               *)
ImplementsLog == Log!Spec

=============================================================================
