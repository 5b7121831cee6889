------------------------------- MODULE Graph -------------------------------
(***************************************************************************)
(* The knowledge graph (graph/builder.py, graph/traversal.py and the graph *)
(* tables of storage/engine.py) as the extraction worker's handlers write  *)
(* it (worker.py): entities, mentions, relationships.                      *)
(*                                                                         *)
(* Every row is a commit of its own, so a handler that fails or dies half  *)
(* way leaves what it has written, and another worker may write between    *)
(* any two of them.  How a task is claimed is TaskQueue's; here a task is  *)
(* taken once, and completed extractions may all be queued again.          *)
(***************************************************************************)
EXTENDS Naturals, FiniteSets

CONSTANTS
  Entries,     (* rows of memory_entries                                   *)
  Linked,      (* mentions the file opens with                             *)
  Ents,        (* (name, entity_type) pairs, the key of entities           *)
  Folded,      (* Folded[x]: the name of x in lower case                   *)
  Workers,     (* threads that execute tasks                               *)
  OneCall,     (* workers whose extractor has extract_full                 *)
  MaxSaid,     (* bound: entities an extraction finds                      *)
  MaxRels,     (* bound: entities related to each other                    *)
  MaxRequeues, (* bound: calls of reset_completed_extract_tasks            *)
  NoJob        (* no task                                                  *)

ASSUME GraphConstants ==
  /\ IsFiniteSet(Entries) /\ IsFiniteSet(Ents) /\ DOMAIN Folded = Ents
  /\ Linked \subseteq Ents \X Entries
  /\ OneCall \subseteq Workers
  /\ MaxSaid \in Nat /\ MaxRels \in Nat /\ MaxRequeues \in Nat
  /\ NoJob \notin Ents

Kinds == {"extract", "link"}

VARIABLES
  count,     (* mention_count of each entity; 0: it has no row             *)
  mentions,  (* entity_mentions: <<entity, entry>>                         *)
  rels,      (* relationships: <<source, target>>, parallel ones as one    *)
  pending,   (* pending[<<k, e>>]: pending tasks of kind k about entry e   *)
  extracted, (* entries whose extraction is completed                      *)
  requeues,  (* calls of reset_completed_extract_tasks so far              *)
  job        (* job[w]: [kind, entry, at, ent, said] or NoJob              *)

rows == <<count, mentions, rels>>
queue == <<pending, extracted, requeues>>
gvars == <<rows, queue, job>>

GraphInit ==
  /\ count = [x \in Ents |-> Cardinality({e \in Entries : <<x, e>> \in Linked})]
  /\ mentions = Linked /\ rels = {}
  /\ extracted = {m[2] : m \in Linked} /\ requeues = 0
  /\ pending = [t \in Kinds \X Entries |->
       IF t[1] = "extract" /\ t[2] \notin extracted THEN 1 ELSE 0]
  /\ job = [w \in Workers |-> NoJob]

Known == {x \in Ents : count[x] > 0}
At(w, pc) == job[w] # NoJob /\ job[w].at = pc

Take(w, k, e) ==
  /\ job[w] = NoJob /\ pending[<<k, e>>] > 0
  /\ pending' = [pending EXCEPT ![<<k, e>>] = @ - 1]
  /\ job' = [job EXCEPT ![w] =
       [kind |-> k, entry |-> e, ent |-> NoJob, said |-> 0,
        at |-> IF k = "extract" THEN "upsert" ELSE "relate"]]
  /\ UNCHANGED <<rows, extracted, requeues>>

(* Slip: only a new entity is counted.                                     *)
UpsertUncounted(w, x) ==
  /\ At(w, "upsert") /\ job[w].said < MaxSaid
  /\ count' = [count EXCEPT ![x] = 1]
  /\ job' = [job EXCEPT ![w].at = "mention", ![w].ent = x, ![w].said = @ + 1]
  /\ UNCHANGED <<mentions, rels, queue>>

(* upsert_entity(): a row with mention_count 1, or one mention more.       *)
Upsert(w, x) ==
  /\ At(w, "upsert") /\ job[w].said < MaxSaid
  /\ count' = [count EXCEPT ![x] = @ + 1]
  /\ job' = [job EXCEPT ![w].at = "mention", ![w].ent = x, ![w].said = @ + 1]
  /\ UNCHANGED <<mentions, rels, queue>>

Mention(w) ==
  /\ At(w, "mention")
  /\ mentions' = mentions \cup {<<job[w].ent, job[w].entry>>}
  /\ job' = [job EXCEPT ![w].at = "upsert"]
  /\ UNCHANGED <<count, rels, queue>>

(* extract_full() found relationships too.                                 *)
Related(w) ==
  /\ w \in OneCall /\ At(w, "upsert")
  /\ job' = [job EXCEPT ![w].at = "relate"]
  /\ UNCHANGED <<rows, queue>>

(* Otherwise two names or more are left to a second task, if the worker    *)
(* has a language model for it.                                            *)
EnqueueLink(w) ==
  /\ w \notin OneCall /\ At(w, "upsert") /\ job[w].said >= 2
  /\ pending' = [pending EXCEPT ![<<"link", job[w].entry>>] = @ + 1]
  /\ job' = [job EXCEPT ![w].at = "queued"]
  /\ UNCHANGED <<rows, extracted, requeues>>

(* The ends of a relationship are looked up by name, whatever their type,  *)
(* and the first row found is used.  None is ever invalidated.             *)
Relate(w, a, b) ==
  /\ At(w, "relate") /\ Cardinality(rels) < MaxRels
  /\ \E x \in Known, y \in Known :
       /\ Folded[x] = a /\ Folded[y] = b
       /\ rels' = rels \cup {<<x, y>>}
  /\ UNCHANGED <<count, mentions, queue, job>>

Complete(w) ==
  /\ At(w, "upsert") \/ At(w, "relate") \/ At(w, "queued")
  /\ extracted' = IF job[w].kind = "extract" THEN extracted \cup {job[w].entry} ELSE extracted
  /\ job' = [job EXCEPT ![w] = NoJob]
  /\ UNCHANGED <<rows, pending, requeues>>

(* The handler raises and the task is failed, or its process dies and the  *)
(* task stays claimed: nobody takes it again.                              *)
Abandon(w) ==
  /\ job[w] # NoJob
  /\ job' = [job EXCEPT ![w] = NoJob]
  /\ UNCHANGED <<rows, queue>>

Requeue ==
  /\ requeues < MaxRequeues /\ extracted # {}
  /\ pending' = [t \in Kinds \X Entries |->
       IF t[1] = "extract" /\ t[2] \in extracted THEN pending[t] + 1 ELSE pending[t]]
  /\ extracted' = {} /\ requeues' = requeues + 1
  /\ UNCHANGED <<rows, job>>

GraphNext ==
  \/ \E w \in Workers :
       \/ \E k \in Kinds, e \in Entries : Take(w, k, e)
       \/ \E x \in Ents : Upsert(w, x)
       \/ Mention(w) \/ Related(w) \/ EnqueueLink(w) \/ Complete(w) \/ Abandon(w)
       \/ \E x \in Ents, y \in Ents : Relate(w, Folded[x], Folded[y])
  \/ Requeue

GraphSpec == GraphInit /\ [][GraphNext]_gvars

-----------------------------------------------------------------------------
(* traverse_graph(): the recursive query, one hop at a time.               *)

MAX_HOPS == 2

(* Slip: the other end of a relationship is found from its source only.    *)
Downstream(S) == {y \in Ents : \E x \in S : <<x, y>> \in rels}

Beside(S) ==
  {y \in Ents : \E x \in S : {<<x, y>>, <<y, x>>} \cap rels # {}}

(* The rows of the query with a given hop.                                 *)
Walk(S) ==
  LET hop[h \in 0..MAX_HOPS] == IF h = 0 THEN S \cap Known ELSE Beside(hop[h - 1])
  IN  hop

(* Each entity reached, with its smallest hop; the starts are left out.    *)
Traverse(S) ==
  LET hop == Walk(S)
  IN  {r \in (Ents \ S) \X (0..MAX_HOPS) :
         r[1] \in hop[r[2]] /\ \A g \in 0..(r[2] - 1) : r[1] \notin hop[g]}

-----------------------------------------------------------------------------
(* Properties.                                                             *)

GraphTypeOK ==
  /\ count \in [Ents -> Nat]
  /\ mentions \subseteq Ents \X Entries
  /\ rels \subseteq Ents \X Ents
  /\ pending \in [Kinds \X Entries -> Nat]
  /\ extracted \subseteq Entries
  /\ requeues \in Nat
  /\ \A w \in Workers : job[w] = NoJob \/
       job[w] \in [kind : Kinds, entry : Entries, at : {"upsert", "mention", "queued", "relate"},
                   ent : Ents \cup {NoJob}, said : Nat]

(* Mentions and relationships never name an entity that has no row, and    *)
(* mention_count, by which nothing is ever taken back, covers the mention  *)
(* rows and the ones about to be written: a worker that dies between the   *)
(* two commits may leave it too high, never too low.                       *)
Due(x) ==
  {job[w].entry : w \in {v \in Workers : At(v, "mention") /\ job[v].ent = x}}

CountCoversMentions ==
  /\ \A x \in Ents :
       Cardinality({e \in Entries : <<x, e>> \in mentions} \cup Due(x)) <= count[x]
  /\ rels \subseteq Known \X Known

(* The traversal finds exactly the entities whose undirected distance from *)
(* the starts is 1 or 2, each with that distance, in spite of cycles,      *)
(* parallel relationships and relationships of an entity with itself.      *)
Joined(x, y) == <<x, y>> \in rels \/ <<y, x>> \in rels
Distance(S, x) ==
  IF x \in S THEN 0
  ELSE IF \E y \in S : Joined(x, y) THEN 1
  ELSE IF \E y \in S, z \in Ents : Joined(x, z) /\ Joined(z, y) THEN 2
  ELSE 3

TraversalExact ==
  \A S \in SUBSET Known :
    Traverse(S) = {<<x, Distance(S, x)>> : x \in {x \in Ents \ S : Distance(S, x) <= 2}}

=============================================================================
