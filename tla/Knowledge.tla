----------------------------- MODULE Knowledge -----------------------------
(***************************************************************************)
(* consolidation/knowledge.py, KnowledgeSynthesizer.synthesize(): completed *)
(* reasoning chains are clustered and each cluster of two sessions or more *)
(* becomes a knowledge item, or joins the first item that shares a chain   *)
(* with it.  The item is read before the language model is asked and       *)
(* written after it, without a transaction around the two, so two          *)
(* synthesizers on one file work on stale items.                           *)
(***************************************************************************)
EXTENDS Naturals, Sequences, FiniteSets

CONSTANTS
  Consolidators, (* stores that consolidate the file                       *)
  Chains,        (* reasoning chains with entries                          *)
  OwnerOf,       (* OwnerOf[k]: created_by_session of chain k              *)
  Finished,      (* chains completed when the file is opened               *)
  ItemLimit,     (* get_knowledge_items reads so many: 100                 *)
  MaxItems       (* bound: rows of knowledge_items                         *)

ASSUME KnowledgeConstants ==
  /\ DOMAIN OwnerOf = Chains /\ Finished \subseteq Chains
  /\ ItemLimit \in Nat /\ MaxItems \in Nat

VARIABLES
  completed, (* chains with status completed and an outcome                *)
  items,     (* supporting_chains of each knowledge item, by rowid         *)
  syn,       (* syn[c]: [at, clusters, chains, item, was]                  *)
  overtaken  (* history: another wrote an item since c read them           *)

kvars == <<completed, items, syn, overtaken>>

MIN_CHAINS == 2
NoItem == 0
Resting == [at |-> "idle", clusters |-> {}, chains |-> {}, item |-> NoItem, was |-> {}]

KnowledgeInit ==
  /\ completed = Finished /\ items = <<>>
  /\ syn = [c \in Consolidators |-> Resting]
  /\ overtaken = [c \in Consolidators |-> FALSE]

CompleteChain(k) ==
  /\ k \notin completed
  /\ completed' = completed \cup {k}
  /\ UNCHANGED <<items, syn, overtaken>>

(* _cluster_chains(): disjoint clusters of alike chains; alike is what the *)
(* embedder says, so any clustering may come out.                          *)
Clusterings(S) ==
  {K \in SUBSET {k \in SUBSET S : Cardinality(k) >= MIN_CHAINS} :
     \A a, b \in K : a # b => a \cap b = {}}

(* Slip: chains are counted instead of the sessions that made them.        *)
Numerous(k) == Cardinality(k) >= 2

(* require_quorum, always on.                                              *)
Quorate(k) == Cardinality({OwnerOf[h] : h \in k}) >= 2

BeginSynthesis(c) ==
  /\ syn[c].at = "idle" /\ Cardinality(completed) >= MIN_CHAINS
  /\ \E K \in Clusterings(completed) :
       syn' = [syn EXCEPT ![c] =
         [Resting EXCEPT !.at = "match", !.clusters = {k \in K : Quorate(k)}]]
  /\ UNCHANGED <<completed, items, overtaken>>

(* The items a query of ItemLimit rows may return: every item has the same *)
(* confidence, by which they are ordered.                                  *)
Page == {V \in SUBSET DOMAIN items :
           Cardinality(V) = IF Len(items) < ItemLimit THEN Len(items) ELSE ItemLimit}

Shares(i, k) == k \cap items[i] # {}

(* _find_matching_item().                                                  *)
Match(c, k) ==
  /\ syn[c].at = "match" /\ k \in syn[c].clusters
  /\ \E V \in Page :
       LET found == {i \in V : Shares(i, k)}
           asked(i, was) == [syn EXCEPT ![c] =
             [at |-> "asked", clusters |-> @.clusters \ {k}, chains |-> was \cup k,
              item |-> i, was |-> was]]
       IN  \/ found = {} /\ syn' = asked(NoItem, {})
           \/ \E i \in found : syn' = asked(i, items[i])
  /\ overtaken' = [overtaken EXCEPT ![c] = FALSE]
  /\ UNCHANGED <<completed, items>>

(* The model fails, or its answer is empty or looks like an injection.     *)
NoPrinciple(c) ==
  /\ syn[c].at = "asked"
  /\ syn' = [syn EXCEPT ![c].at = "match"]
  /\ UNCHANGED <<completed, items, overtaken>>

(* Slip: an item is given the chains of the cluster.                       *)
ReplaceItem(c) ==
  /\ syn[c].at = "asked"
  /\ IF syn[c].item = NoItem
     THEN Len(items) < MaxItems /\ items' = Append(items, syn[c].chains)
     ELSE items' = [items EXCEPT ![syn[c].item] = syn[c].chains \ syn[c].was]
  /\ overtaken' = [d \in Consolidators |-> d # c \/ overtaken[d]]
  /\ syn' = [syn EXCEPT ![c].at = "match"]
  /\ UNCHANGED completed

(* update_knowledge_item() of what was read, or store_knowledge_item().    *)
WriteItem(c) ==
  /\ syn[c].at = "asked"
  /\ IF syn[c].item = NoItem
     THEN Len(items) < MaxItems /\ items' = Append(items, syn[c].chains)
     ELSE items' = [items EXCEPT ![syn[c].item] = syn[c].chains]
  /\ overtaken' = [d \in Consolidators |-> d # c \/ overtaken[d]]
  /\ syn' = [syn EXCEPT ![c].at = "match"]
  /\ UNCHANGED completed

(* The last cluster is done, the synthesis raises or its process ends.     *)
EndSynthesis(c) ==
  /\ syn[c].at # "idle"
  /\ syn' = [syn EXCEPT ![c] = Resting]
  /\ UNCHANGED <<completed, items, overtaken>>

Synthesis(c) ==
  \/ \E k \in syn[c].clusters : Match(c, k)
  \/ NoPrinciple(c) \/ WriteItem(c)

KnowledgeNext ==
  \/ \E k \in Chains : CompleteChain(k)
  \/ \E c \in Consolidators : BeginSynthesis(c) \/ Synthesis(c) \/ EndSynthesis(c)

KnowledgeSpec == KnowledgeInit /\ [][KnowledgeNext]_kvars

-----------------------------------------------------------------------------
(* Properties.                                                             *)

KnowledgeTypeOK ==
  /\ completed \subseteq Chains
  /\ items \in Seq(SUBSET Chains)
  /\ syn \in [Consolidators ->
       [at : {"idle", "match", "asked"}, clusters : SUBSET SUBSET Chains,
        chains : SUBSET Chains, item : Nat, was : SUBSET Chains]]
  /\ overtaken \in [Consolidators -> BOOLEAN]

(* require_quorum: whatever is merged into it, later and by whom, a        *)
(* knowledge item rests on completed chains of two sessions at least.      *)
Quorum ==
  \A i \in DOMAIN items :
    /\ items[i] \subseteq completed
    /\ \E h, g \in items[i] : OwnerOf[h] # OwnerOf[g]

(* A synthesizer nobody wrote an item behind the back of loses no chain of *)
(* an item, and adds a second item for a chain only when there are more    *)
(* items than one query returns.  With two synthesizers both may happen.   *)
QuietSynthesis ==
  [][\A c \in Consolidators :
       syn[c].at = "asked" /\ items' # items /\ syn'[c] # syn[c] /\ ~overtaken[c] =>
         IF Len(items') = Len(items)
         THEN \A i \in DOMAIN items : items[i] \subseteq items'[i]
         ELSE \/ Len(items) > ItemLimit
              \/ \A i \in DOMAIN items : items[i] \cap items'[Len(items')] = {}]_kvars

=============================================================================
