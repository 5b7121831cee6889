------------------------ MODULE ConsolidationProofs ------------------------
(***************************************************************************)
(* Theorems about Graph and Knowledge, alone and composed in               *)
(* Consolidation, for any entries, entities, chains, workers and stores.   *)
(*                                                                         *)
(* KnowledgeInv says what a synthesizer knows while it waits for the       *)
(* language model: its chains have a quorum and are completed for good,    *)
(* and as long as nobody has overtaken it, the item it read is still as it *)
(* read it.  CountInv is about mentions and their counts, StandInv about   *)
(* the pairs a contradiction is looked for in, and FallInv about the       *)
(* importances a store has read and is going to write back.                *)
(***************************************************************************)
EXTENDS Consolidation, TLAPS, FiniteSetTheorems, WellFoundedInduction

(* Chains of two sessions at least.                                        *)
TwoOwners(k) == \E h, g \in k : OwnerOf[h] # OwnerOf[g]

Sound(k) == k \subseteq completed /\ TwoOwners(k)

(* Whatever a synthesizer has clustered or is about to write.              *)
SoundSynthesis(c) ==
  /\ \A k \in syn[c].clusters : Sound(k)
  /\ syn[c].at = "asked" => Sound(syn[c].chains)

(* What was read from the items holds until another store writes one: the  *)
(* item is unchanged and kept, or no item shared a chain, unless there are *)
(* more than one query returns.                                            *)
Current(c) ==
  syn[c].at = "asked" /\ ~overtaken[c] =>
    IF syn[c].item = NoItem
    THEN Len(items) > ItemLimit \/ \A i \in DOMAIN items : items[i] \cap syn[c].chains = {}
    ELSE syn[c].item \in DOMAIN items /\ items[syn[c].item] \subseteq syn[c].chains

SynRecord ==
  [at : {"idle", "match", "asked"}, clusters : SUBSET SUBSET Chains,
   chains : SUBSET Chains, item : Nat, was : SUBSET Chains]

SynType == syn \in [Consolidators -> SynRecord]

(* An item that is written back is a row of the table.                     *)
Written(c) ==
  syn[c].at = "asked" /\ syn[c].item # NoItem => syn[c].item \in DOMAIN items

KnowledgeInv ==
  /\ completed \subseteq Chains
  /\ items \in Seq(SUBSET Chains)
  /\ SynType
  /\ overtaken \in [Consolidators -> BOOLEAN]
  /\ \A i \in DOMAIN items : Sound(items[i])
  /\ \A c \in Consolidators : SoundSynthesis(c) /\ Written(c) /\ Current(c)

-----------------------------------------------------------------------------
LEMMA QuorumMeans ==
  ASSUME NEW k, Quorate(k)
  PROVE  TwoOwners(k)
  <1> DEFINE S == {OwnerOf[h] : h \in k}
  <1> SUFFICES ASSUME ~TwoOwners(k) PROVE FALSE
    OBVIOUS
  <1>1. Cardinality(S) >= 2
    BY DEF Quorate
  <1>2. S = {} \/ \E x : S = {x}
    BY DEF TwoOwners
  <1>3. Cardinality(S) = 0 \/ Cardinality(S) = 1
    BY <1>2, FS_EmptySet, FS_Singleton
  <1> HIDE DEF S
  <1> QED BY <1>1, <1>3

(* Up to ItemLimit items, a page is all of them.                           *)
LEMMA PageIsAll ==
  ASSUME items \in Seq(SUBSET Chains), NEW V \in Page, ~(Len(items) > ItemLimit)
  PROVE  V = DOMAIN items
  <1>1. /\ Len(items) \in Nat /\ ItemLimit \in Nat /\ DOMAIN items = 1..Len(items)
    BY KnowledgeConstants
  <1>2. IsFiniteSet(DOMAIN items) /\ Cardinality(DOMAIN items) = Len(items)
    <2> DEFINE n == Len(items)
    <2>1. n \in Nat /\ DOMAIN items = 1..n
      BY <1>1
    <2> HIDE DEF n
    <2>2. IsFiniteSet(1..n) /\ Cardinality(1..n) = n
      BY <2>1, FS_Interval
    <2> QED BY <2>1, <2>2 DEF n
  <1>3. V \subseteq DOMAIN items /\ Cardinality(V) = Len(items)
    BY <1>1 DEF Page
  <1> QED BY <1>2, <1>3, FS_Subset

LEMMA KnowledgeStart == KnowledgeInit => KnowledgeInv
  BY KnowledgeConstants
  DEF KnowledgeInit, KnowledgeInv, Resting, SynType, SynRecord, SoundSynthesis, Written, Current, NoItem

LEMMA CompleteKeeps ==
  ASSUME KnowledgeInv, NEW k \in Chains, CompleteChain(k)
  PROVE  KnowledgeInv'
  BY DEF CompleteChain, KnowledgeInv, SynType, Sound, SoundSynthesis, Written, Current

(* A step of c that writes no item.                                        *)
LEMMA SynStep ==
  ASSUME KnowledgeInv, NEW c \in Consolidators, UNCHANGED <<completed, items>>,
         overtaken' \in [Consolidators -> BOOLEAN],
         \A d \in Consolidators : d # c => overtaken'[d] = overtaken[d] /\ syn'[d] = syn[d],
         SynType', SoundSynthesis(c)', Written(c)', Current(c)'
  PROVE  KnowledgeInv'
  <1>1. ASSUME NEW d \in Consolidators, d # c
        PROVE  (SoundSynthesis(d) /\ Written(d) /\ Current(d))'
    BY <1>1 DEF KnowledgeInv, Sound, SoundSynthesis, Written, Current
  <1> QED BY <1>1 DEF KnowledgeInv, Sound

LEMMA BeginKeeps ==
  ASSUME KnowledgeInv, NEW c \in Consolidators, BeginSynthesis(c)
  PROVE  KnowledgeInv'
  <1>1. PICK K \in Clusterings(completed) :
          syn' = [syn EXCEPT ![c] =
            [Resting EXCEPT !.at = "match", !.clusters = {k \in K : Quorate(k)}]]
    BY DEF BeginSynthesis
  <1>2. K \subseteq SUBSET completed
    BY DEF Clusterings
  <1>3. /\ syn'[c].at = "match" /\ syn'[c].clusters = {k \in K : Quorate(k)}
        /\ UNCHANGED <<completed, items, overtaken>>
        /\ \A d \in Consolidators : d # c => syn'[d] = syn[d]
    BY <1>1 DEF BeginSynthesis, KnowledgeInv, SynType, SynRecord, Resting
  <1>4. SynType'
    BY <1>1, <1>2 DEF KnowledgeInv, SynType, SynRecord, Resting, NoItem
  <1>5. SoundSynthesis(c)'
    BY <1>2, <1>3, QuorumMeans DEF SoundSynthesis, Sound, TwoOwners
  <1> QED BY <1>3, <1>4, <1>5, SynStep DEF KnowledgeInv, Written, Current

LEMMA MatchKeeps ==
  ASSUME KnowledgeInv, NEW c \in Consolidators, NEW k \in syn[c].clusters, Match(c, k)
  PROVE  KnowledgeInv'
  <1>0. PICK V \in Page : \E item, was :
          /\ \/ {i \in V : Shares(i, k)} = {} /\ item = NoItem /\ was = {}
             \/ item \in {i \in V : Shares(i, k)} /\ was = items[item]
          /\ syn' = [syn EXCEPT ![c] =
               [at |-> "asked", clusters |-> @.clusters \ {k}, chains |-> was \cup k,
                item |-> item, was |-> was]]
    BY DEF Match
  <1>1. PICK item, was :
          /\ \/ {i \in V : Shares(i, k)} = {} /\ item = NoItem /\ was = {}
             \/ item \in {i \in V : Shares(i, k)} /\ was = items[item]
          /\ syn' = [syn EXCEPT ![c] =
               [at |-> "asked", clusters |-> @.clusters \ {k}, chains |-> was \cup k,
                item |-> item, was |-> was]]
    BY <1>0
  <1>2. /\ Sound(k) /\ \A j \in syn[c].clusters : Sound(j)
        /\ DOMAIN items \subseteq Nat \ {0} /\ V \subseteq DOMAIN items
    BY DEF KnowledgeInv, SoundSynthesis, Page
  <1>3. /\ syn'[c].at = "asked" /\ syn'[c].clusters = syn[c].clusters \ {k}
        /\ syn'[c].chains = was \cup k /\ syn'[c].item = item
        /\ \A d \in Consolidators : d # c => syn'[d] = syn[d]
        /\ overtaken' = [overtaken EXCEPT ![c] = FALSE] /\ UNCHANGED <<completed, items>>
    BY <1>1 DEF Match, KnowledgeInv, SynType, SynRecord
  <1>4. was \subseteq completed /\ item \in Nat /\ (item = NoItem \/ item \in DOMAIN items)
    BY <1>1, <1>2 DEF KnowledgeInv, Sound, NoItem
  <1>5. SynType'
    <2>1. syn[c].clusters \ {k} \in SUBSET SUBSET Chains /\ was \cup k \in SUBSET Chains
          /\ was \in SUBSET Chains
      BY <1>2, <1>4 DEF KnowledgeInv, SynType, SynRecord, Sound
    <2> QED BY <1>1, <1>4, <2>1 DEF KnowledgeInv, SynType, SynRecord
  <1>6. SoundSynthesis(c)'
    BY <1>2, <1>3, <1>4 DEF SoundSynthesis, Sound, TwoOwners
  <1>7. Current(c)'
    <2>1. CASE item = NoItem
      <3>1. was = {} /\ {i \in V : Shares(i, k)} = {}
        BY <1>1, <1>2, <2>1 DEF NoItem
      <3>2. Len(items) > ItemLimit \/ \A i \in DOMAIN items : items[i] \cap k = {}
        BY <3>1, PageIsAll DEF KnowledgeInv, Shares
      <3> QED BY <1>3, <2>1, <3>1, <3>2 DEF Current
    <2>2. CASE item # NoItem
      BY <1>1, <1>2, <1>3, <2>2 DEF Current
    <2> QED BY <2>1, <2>2
  <1>8. Written(c)' /\ overtaken' \in [Consolidators -> BOOLEAN]
    BY <1>3, <1>4 DEF Written, KnowledgeInv
  <1>9. \A d \in Consolidators : d # c => overtaken'[d] = overtaken[d]
    BY <1>3 DEF KnowledgeInv
  <1> QED BY <1>3, <1>5, <1>6, <1>7, <1>8, <1>9, SynStep

LEMMA BackToMatch ==
  ASSUME SynType, NEW c \in Consolidators, syn' = [syn EXCEPT ![c].at = "match"]
  PROVE  /\ SynType' /\ syn'[c].at = "match" /\ syn'[c].clusters = syn[c].clusters
         /\ \A d \in Consolidators : d # c => syn'[d] = syn[d]
  <1> DEFINE r == [syn[c] EXCEPT !.at = "match"]
  <1>1. syn' = [syn EXCEPT ![c] = r] /\ syn[c] \in SynRecord
    BY DEF SynType
  <1>2. r \in SynRecord /\ r.at = "match" /\ r.clusters = syn[c].clusters
    BY <1>1 DEF SynRecord
  <1> HIDE DEF r
  <1> QED BY <1>1, <1>2 DEF SynType

LEMMA LeaveKeeps ==
  ASSUME KnowledgeInv, NEW c \in Consolidators, NoPrinciple(c) \/ EndSynthesis(c)
  PROVE  KnowledgeInv'
  <1>1. /\ UNCHANGED <<completed, items, overtaken>> /\ SynType'
        /\ syn'[c].at # "asked" /\ syn'[c].clusters \subseteq syn[c].clusters
        /\ \A d \in Consolidators : d # c => syn'[d] = syn[d]
    <2>1. CASE NoPrinciple(c)
      <3>1. syn' = [syn EXCEPT ![c].at = "match"] /\ UNCHANGED <<completed, items, overtaken>>
        BY <2>1 DEF NoPrinciple
      <3> QED BY <3>1, BackToMatch DEF KnowledgeInv
    <2>2. CASE EndSynthesis(c)
      <3>1. syn' = [syn EXCEPT ![c] = Resting] /\ UNCHANGED <<completed, items, overtaken>>
        BY <2>2 DEF EndSynthesis
      <3> QED BY <3>1 DEF KnowledgeInv, SynType, SynRecord, Resting, NoItem
    <2> QED BY <2>1, <2>2
  <1>2. (SoundSynthesis(c) /\ Written(c) /\ Current(c))'
    BY <1>1 DEF KnowledgeInv, SoundSynthesis, Sound, Written, Current
  <1> QED BY <1>1, <1>2, SynStep DEF KnowledgeInv

(* An item is written: those who have read the items before are overtaken. *)
LEMMA WriteKeeps ==
  ASSUME KnowledgeInv, NEW c \in Consolidators, WriteItem(c)
  PROVE  /\ KnowledgeInv'
         /\ ~overtaken[c] =>
              IF Len(items') = Len(items)
              THEN \A i \in DOMAIN items : items[i] \subseteq items'[i]
              ELSE \/ Len(items) > ItemLimit
                   \/ \A i \in DOMAIN items : items[i] \cap items'[Len(items')] = {}
  <1> DEFINE new == syn[c].chains
             i0 == syn[c].item
  <1>1. /\ syn[c].at = "asked" /\ new \in SUBSET Chains /\ Sound(new) /\ Current(c) /\ Written(c)
    BY DEF WriteItem, KnowledgeInv, SynType, SynRecord, SoundSynthesis
  <1>2. /\ syn'[c].at = "match" /\ syn'[c].clusters = syn[c].clusters /\ completed' = completed
        /\ \A d \in Consolidators : d # c => syn'[d] = syn[d] /\ overtaken'[d]
        /\ overtaken' \in [Consolidators -> BOOLEAN] /\ SynType'
    <2>1. syn' = [syn EXCEPT ![c].at = "match"] /\ completed' = completed
      BY DEF WriteItem
    <2>2. /\ overtaken' \in [Consolidators -> BOOLEAN]
          /\ \A d \in Consolidators : d # c => overtaken'[d]
      BY DEF WriteItem, KnowledgeInv
    <2> QED BY <2>1, <2>2, BackToMatch DEF KnowledgeInv
  <1>3. /\ items' \in Seq(SUBSET Chains) /\ DOMAIN items \subseteq DOMAIN items'
        /\ \A i \in DOMAIN items' : items'[i] = new \/ (i \in DOMAIN items /\ items'[i] = items[i])
        /\ IF i0 = NoItem
           THEN Len(items') # Len(items) /\ items'[Len(items')] = new
           ELSE /\ Len(items') = Len(items) /\ i0 \in DOMAIN items /\ items'[i0] = new
                /\ \A i \in DOMAIN items : i # i0 => items'[i] = items[i]
    <2>1. CASE i0 = NoItem
      <3>1. items' = Append(items, new) /\ items \in Seq(SUBSET Chains)
        BY <2>1 DEF WriteItem, KnowledgeInv
      <3> HIDE DEF new
      <3>2. items' \in Seq(SUBSET Chains) /\ Len(items') = Len(items) + 1 /\ items'[Len(items')] = new
            /\ \A i \in 1..Len(items) : items'[i] = items[i]
        BY <1>1, <3>1
      <3> QED BY <2>1, <3>1, <3>2
    <2>2. CASE i0 # NoItem
      <3>1. items' = [items EXCEPT ![i0] = new] /\ items \in Seq(SUBSET Chains) /\ i0 \in DOMAIN items
        BY <1>1, <2>2 DEF WriteItem, KnowledgeInv, Written
      <3> HIDE DEF new, i0
      <3>2. items' \in Seq(SUBSET Chains) /\ Len(items') = Len(items) /\ DOMAIN items' = DOMAIN items
        BY <1>1, <3>1
      <3> QED BY <2>2, <3>1, <3>2
    <2> QED BY <2>1, <2>2
  <1>4. (\A i \in DOMAIN items : Sound(items[i]))'
    BY <1>1, <1>2, <1>3 DEF KnowledgeInv, Sound
  <1>5. ASSUME NEW d \in Consolidators PROVE (SoundSynthesis(d) /\ Written(d) /\ Current(d))'
    BY <1>2, <1>3, <1>5 DEF KnowledgeInv, SoundSynthesis, Sound, Written, Current
  <1>6. KnowledgeInv'
    BY <1>2, <1>3, <1>4, <1>5 DEF KnowledgeInv
  <1> HIDE DEF new
  <1>7. ASSUME ~overtaken[c]
        PROVE  IF Len(items') = Len(items)
               THEN \A i \in DOMAIN items : items[i] \subseteq items'[i]
               ELSE \/ Len(items) > ItemLimit
                    \/ \A i \in DOMAIN items : items[i] \cap items'[Len(items')] = {}
    BY <1>1, <1>3, <1>7 DEF Current, new
  <1> QED BY <1>6, <1>7

LEMMA KnowledgeStep == KnowledgeInv /\ [KnowledgeNext]_kvars => KnowledgeInv'
  <1> SUFFICES ASSUME KnowledgeInv, [KnowledgeNext]_kvars PROVE KnowledgeInv'
    OBVIOUS
  <1>1. CASE UNCHANGED kvars
    BY <1>1 DEF kvars, KnowledgeInv, SynType, Sound, SoundSynthesis, Written, Current
  <1>2. ASSUME NEW c \in Consolidators, Synthesis(c) PROVE KnowledgeInv'
    BY <1>2, MatchKeeps, LeaveKeeps, WriteKeeps DEF Synthesis
  <1> QED BY <1>1, <1>2, CompleteKeeps, BeginKeeps, LeaveKeeps DEF KnowledgeNext

(* However many synthesizers merge into it, and whatever chains are        *)
(* completed meanwhile, a knowledge item rests on two sessions at least.   *)
THEOREM QuorumTheorem == KnowledgeSpec => []Quorum
  <1>1. KnowledgeInv => Quorum
    BY DEF KnowledgeInv, Sound, TwoOwners, Quorum
  <1> QED BY <1>1, KnowledgeStart, KnowledgeStep, PTL DEF KnowledgeSpec

(* What QuietSynthesis allows a step to do to the items.                   *)
QuietWrite ==
  \A c \in Consolidators :
    syn[c].at = "asked" /\ items' # items /\ syn'[c] # syn[c] /\ ~overtaken[c] =>
      IF Len(items') = Len(items)
      THEN \A i \in DOMAIN items : items[i] \subseteq items'[i]
      ELSE \/ Len(items) > ItemLimit
           \/ \A i \in DOMAIN items : items[i] \cap items'[Len(items')] = {}

LEMMA QuietStep == KnowledgeInv /\ [KnowledgeNext]_kvars => [QuietWrite]_kvars
  <1> SUFFICES ASSUME KnowledgeInv, [KnowledgeNext]_kvars,
                      NEW c \in Consolidators, items' # items, syn'[c] # syn[c], ~overtaken[c]
               PROVE  IF Len(items') = Len(items)
                      THEN \A i \in DOMAIN items : items[i] \subseteq items'[i]
                      ELSE \/ Len(items) > ItemLimit
                           \/ \A i \in DOMAIN items : items[i] \cap items'[Len(items')] = {}
    BY DEF QuietWrite
  <1>1. PICK d \in Consolidators : WriteItem(d)
    BY DEF KnowledgeNext, CompleteChain, BeginSynthesis, Synthesis, Match, NoPrinciple, EndSynthesis,
           kvars
  <1>2. d = c
    BY <1>1 DEF WriteItem, KnowledgeInv, SynType
  <1> QED BY <1>1, <1>2, WriteKeeps

(* A synthesizer that nobody overtook loses no chain of an item and, while *)
(* one query returns all items, makes no second item for a chain.          *)
THEOREM QuietSynthesisTheorem == KnowledgeSpec => QuietSynthesis
  <1>1. KnowledgeSpec => [][QuietWrite]_kvars
    BY KnowledgeStart, KnowledgeStep, QuietStep, PTL DEF KnowledgeSpec
  <1> QED BY <1>1 DEF QuietWrite, QuietSynthesis

-----------------------------------------------------------------------------
(* The knowledge graph.                                                    *)

Jobs ==
  [kind : Kinds, entry : Entries, at : {"upsert", "mention", "queued", "relate"},
   ent : Ents \cup {NoJob}, said : Nat]

(* Entries that mention x, and those about to.                             *)
Counted(x) == {e \in Entries : <<x, e>> \in mentions} \cup Due(x)

CountInv ==
  /\ count \in [Ents -> Nat]
  /\ job \in [Workers -> {NoJob} \cup Jobs]
  /\ \A w \in Workers : At(w, "mention") => job[w].ent \in Ents
  /\ \A x \in Ents : Cardinality(Counted(x)) <= count[x]
  /\ rels \subseteq Known \X Known

LEMMA CountedFinite ==
  ASSUME CountInv, NEW x \in Ents
  PROVE  Counted(x) \subseteq Entries /\ IsFiniteSet(Counted(x)) /\ Cardinality(Counted(x)) \in Nat
  <1>1. Counted(x) \subseteq Entries
    BY DEF CountInv, Counted, Due, At, Jobs
  <1> QED BY <1>1, GraphConstants, FS_Subset, FS_CardinalityType

LEMMA CountStart == GraphInit => CountInv
  <1> SUFFICES ASSUME GraphInit PROVE CountInv
    OBVIOUS
  <1>1. job = [w \in Workers |-> NoJob] /\ mentions = Linked /\ rels = {}
        /\ count = [x \in Ents |-> Cardinality({e \in Entries : <<x, e>> \in Linked})]
    BY DEF GraphInit
  <1>2. \A w \in Workers : ~At(w, "mention")
    BY <1>1 DEF At
  <1>3. ASSUME NEW x \in Ents
        PROVE  Counted(x) = {e \in Entries : <<x, e>> \in Linked} /\ count[x] = Cardinality(Counted(x))
               /\ count[x] \in Nat
    <2>1. Counted(x) = {e \in Entries : <<x, e>> \in Linked}
      BY <1>1, <1>2 DEF Counted, Due
    <2>2. IsFiniteSet(Counted(x)) /\ Cardinality(Counted(x)) \in Nat
      BY <2>1, GraphConstants, FS_Subset, FS_CardinalityType
    <2> QED BY <1>1, <2>1, <2>2
  <1>4. count \in [Ents -> Nat] /\ \A x \in Ents : Cardinality(Counted(x)) <= count[x]
    BY <1>1, <1>3
  <1> QED BY <1>1, <1>2, <1>4 DEF CountInv

(* A step that counts no less and owes no more.                            *)
LEMMA CountedLess ==
  ASSUME CountInv,
         count' \in [Ents -> Nat], job' \in [Workers -> {NoJob} \cup Jobs],
         \A w \in Workers : At(w, "mention")' => job'[w].ent \in Ents,
         \A x \in Ents : count[x] <= count'[x],
         \A x \in Ents : Counted(x)' \subseteq Counted(x),
         rels' \subseteq Known \X Known
  PROVE  CountInv'
  <1>1. ASSUME NEW x \in Ents PROVE Cardinality(Counted(x)') <= count'[x]
    <2>1. /\ IsFiniteSet(Counted(x)) /\ Counted(x)' \in SUBSET Counted(x)
          /\ Cardinality(Counted(x)) \in Nat
      BY CountedFinite
    <2>2. Cardinality(Counted(x)') <= Cardinality(Counted(x)) /\ Cardinality(Counted(x)') \in Nat
      BY <2>1, FS_Subset, FS_CardinalityType
    <2>3. count[x] \in Nat /\ count'[x] \in Nat /\ Cardinality(Counted(x)) <= count[x]
      BY DEF CountInv
    <2> QED BY <2>1, <2>2, <2>3
  <1>2. Known \subseteq Known'
    BY DEF Known, CountInv
  <1> QED BY <1>1, <1>2 DEF CountInv

(* upsert_entity(): one mention more is counted, and one more is due.      *)
LEMMA UpsertKeeps ==
  ASSUME CountInv, NEW w \in Workers, NEW x \in Ents, Upsert(w, x)
  PROVE  CountInv'
  <1>1. job[w] \in Jobs /\ ~At(w, "mention") /\ count \in [Ents -> Nat]
    BY DEF Upsert, At, CountInv
  <1>2. /\ count' = [count EXCEPT ![x] = @ + 1] /\ mentions' = mentions /\ rels' = rels
        /\ job' = [job EXCEPT ![w].at = "mention", ![w].ent = x, ![w].said = @ + 1]
    BY DEF Upsert
  <1>3. /\ job'[w] \in Jobs /\ job'[w].ent = x /\ job'[w].entry = job[w].entry
        /\ \A v \in Workers : v # w => job'[v] = job[v]
        /\ job' \in [Workers -> {NoJob} \cup Jobs]
    <2>1. PICK n \in Nat : n = job[w].said + 1
      BY <1>1 DEF Jobs
    <2> DEFINE r == [job[w] EXCEPT !.at = "mention", !.ent = x, !.said = n]
    <2>2. job' = [job EXCEPT ![w] = r]
      BY <1>2, <2>1
    <2>3. r \in Jobs /\ r.ent = x /\ r.entry = job[w].entry
      BY <1>1 DEF Jobs
    <2> HIDE DEF r
    <2> QED BY <2>2, <2>3 DEF CountInv
  <1>4. /\ count' \in [Ents -> Nat] /\ count'[x] = count[x] + 1
        /\ \A y \in Ents : y # x => count'[y] = count[y]
    BY <1>1, <1>2
  <1>5. ASSUME NEW y \in Ents
        PROVE  Counted(y)' \subseteq Counted(y) \cup (IF y = x THEN {job[w].entry} ELSE {})
    <2>1. Due(y)' \subseteq Due(y) \cup (IF y = x THEN {job[w].entry} ELSE {})
      BY <1>3 DEF Due, At
    <2> QED BY <1>2, <2>1 DEF Counted
  <1>6. ASSUME NEW y \in Ents PROVE Cardinality(Counted(y)') <= count'[y]
    <2> DEFINE S == Counted(y)
               T == S \cup {job[w].entry}
    <2>1. IsFiniteSet(S) /\ Cardinality(S) \in Nat /\ Cardinality(S) <= count[y] /\ count[y] \in Nat
      BY CountedFinite DEF CountInv
    <2>2. IsFiniteSet(T) /\ Cardinality(T) \in Nat /\ Cardinality(T) <= Cardinality(S) + 1
      <3> HIDE DEF S
      <3>1. /\ IsFiniteSet(T)
            /\ Cardinality(T) = IF job[w].entry \in S THEN Cardinality(S) ELSE Cardinality(S) + 1
        BY <2>1, FS_AddElement
      <3> HIDE DEF T
      <3> QED BY <2>1, <3>1
    <2> HIDE DEF S, T
    <2>3. CASE y = x
      <3>1. Counted(y)' \in SUBSET T
        BY <1>5, <2>3 DEF S, T
      <3>2. Cardinality(Counted(y)') <= Cardinality(T) /\ Cardinality(Counted(y)') \in Nat
        BY <2>2, <3>1, FS_Subset, FS_CardinalityType
      <3>3. count'[y] = count[y] + 1
        BY <1>4, <2>3
      <3> QED BY <2>1, <2>2, <3>2, <3>3
    <2>4. CASE y # x
      <3>1. Counted(y)' \in SUBSET S
        BY <1>5, <2>4 DEF S
      <3>2. Cardinality(Counted(y)') <= Cardinality(S) /\ Cardinality(Counted(y)') \in Nat
        BY <2>1, <3>1, FS_Subset, FS_CardinalityType
      <3> QED BY <1>4, <2>1, <2>4, <3>2
    <2> QED BY <2>3, <2>4
  <1>7. \A v \in Workers : At(v, "mention")' => job'[v].ent \in Ents
    BY <1>3 DEF CountInv, At
  <1>8. Known \subseteq Known'
    <2>1. \A y \in Ents : count[y] > 0 => count'[y] > 0
      BY <1>1, <1>4
    <2> QED BY <2>1 DEF Known
  <1> QED BY <1>2, <1>3, <1>4, <1>6, <1>7, <1>8 DEF CountInv

LEMMA MentionKeeps ==
  ASSUME CountInv, NEW w \in Workers, Mention(w)
  PROVE  CountInv'
  <1>1. job[w] \in Jobs /\ At(w, "mention") /\ job[w].ent \in Ents
    BY DEF Mention, At, CountInv
  <1>2. /\ count' = count /\ rels' = rels /\ mentions' = mentions \cup {<<job[w].ent, job[w].entry>>}
        /\ job' = [job EXCEPT ![w].at = "upsert"]
    BY DEF Mention
  <1>3. /\ job'[w].at = "upsert" /\ job' \in [Workers -> {NoJob} \cup Jobs]
        /\ \A v \in Workers : v # w => job'[v] = job[v]
    <2> DEFINE r == [job[w] EXCEPT !.at = "upsert"]
    <2>1. job' = [job EXCEPT ![w] = r]
      BY <1>2
    <2>2. r \in Jobs /\ r.at = "upsert"
      BY <1>1 DEF Jobs
    <2> HIDE DEF r
    <2> QED BY <2>1, <2>2 DEF CountInv
  <1>4. \A v \in Workers : At(v, "mention")' => v # w /\ At(v, "mention")
    BY <1>3 DEF At
  <1>5. \A x \in Ents : Counted(x)' \subseteq Counted(x)
    BY <1>1, <1>2, <1>3, <1>4 DEF Counted, Due
  <1> QED BY <1>2, <1>3, <1>4, <1>5, CountedLess DEF CountInv

(* Steps after which no mention is due that was not due before.            *)
LEMMA JobKeeps ==
  ASSUME CountInv, NEW w \in Workers, UNCHANGED <<count, mentions>>, rels' \subseteq Known \X Known,
         NEW j \in {NoJob} \cup Jobs, job' = [job EXCEPT ![w] = j], j = NoJob \/ j.at # "mention"
  PROVE  CountInv'
  <1>1. /\ job' \in [Workers -> {NoJob} \cup Jobs]
        /\ \A v \in Workers : At(v, "mention")' => At(v, "mention") /\ job'[v] = job[v]
    BY DEF CountInv, At
  <1>2. \A x \in Ents : Counted(x)' \subseteq Counted(x)
    BY <1>1 DEF Counted, Due
  <1> QED BY <1>1, <1>2, CountedLess DEF CountInv

LEMMA CountStep == CountInv /\ [GraphNext]_gvars => CountInv'
  <1> SUFFICES ASSUME CountInv, [GraphNext]_gvars PROVE CountInv'
    OBVIOUS
  <1>1. CASE UNCHANGED <<count, mentions, rels, job>>
    BY <1>1 DEF CountInv, Counted, Due, At, Known
  <1>2. ASSUME NEW w \in Workers, NEW k \in Kinds, NEW e \in Entries, Take(w, k, e) PROVE CountInv'
    <2> DEFINE j == [kind |-> k, entry |-> e, ent |-> NoJob, said |-> 0,
                     at |-> IF k = "extract" THEN "upsert" ELSE "relate"]
    <2>1. j \in Jobs /\ j.at # "mention"
      BY DEF Jobs
    <2>2. job' = [job EXCEPT ![w] = j] /\ UNCHANGED <<count, mentions, rels>>
      BY <1>2 DEF Take, rows
    <2> HIDE DEF j
    <2> QED BY <2>1, <2>2, JobKeeps DEF CountInv
  <1>3. ASSUME NEW w \in Workers, Complete(w) \/ Abandon(w) PROVE CountInv'
    <2>1. job' = [job EXCEPT ![w] = NoJob] /\ UNCHANGED <<count, mentions, rels>>
      BY <1>3 DEF Complete, Abandon, rows
    <2> QED BY <2>1, JobKeeps DEF CountInv
  <1>4. ASSUME NEW w \in Workers, Related(w) \/ EnqueueLink(w) PROVE CountInv'
    <2>1. PICK pc \in {"relate", "queued"} :
            job' = [job EXCEPT ![w].at = pc] /\ UNCHANGED <<count, mentions, rels>>
      BY <1>4 DEF Related, EnqueueLink, rows
    <2>2. job[w] \in Jobs
      BY <1>4 DEF Related, EnqueueLink, At, CountInv
    <2> DEFINE j == [job[w] EXCEPT !.at = pc]
    <2>3. j \in Jobs /\ j.at # "mention" /\ job' = [job EXCEPT ![w] = j]
      BY <2>1, <2>2 DEF Jobs
    <2> HIDE DEF j
    <2> QED BY <2>1, <2>3, JobKeeps DEF CountInv
  <1>5. ASSUME NEW w \in Workers, NEW a, NEW b, Relate(w, a, b) PROVE CountInv'
    <2>1. rels' \subseteq Known \X Known /\ UNCHANGED <<count, mentions, job>>
      BY <1>5 DEF Relate, CountInv
    <2>2. \A x \in Ents : Counted(x)' = Counted(x)
      BY <2>1 DEF Counted, Due, At
    <2> QED BY <2>1, <2>2 DEF CountInv, At, Known
  <1>6. CASE Requeue
    BY <1>1, <1>6 DEF Requeue, rows
  <1>7. CASE UNCHANGED gvars
    BY <1>1, <1>7 DEF gvars, rows
  <1> QED BY <1>2, <1>3, <1>4, <1>5, <1>6, <1>7, UpsertKeeps, MentionKeeps DEF GraphNext

(* However workers interleave, fail half way and repeat an extraction,     *)
(* mention_count covers the mentions, and the ends of every relationship   *)
(* have rows.                                                              *)
THEOREM CountTheorem == GraphSpec => []CountCoversMentions
  <1>1. CountInv => CountCoversMentions
    BY DEF CountInv, Counted, CountCoversMentions
  <1> QED BY <1>1, CountStart, CountStep, PTL DEF GraphSpec

(* Types of the tables of the graph.                                       *)
Tables ==
  /\ mentions \subseteq Ents \X Entries
  /\ pending \in [Kinds \X Entries -> Nat]
  /\ extracted \subseteq Entries
  /\ requeues \in Nat

LEMMA TablesStart == GraphInit => Tables
  <1> SUFFICES ASSUME GraphInit PROVE Tables
    OBVIOUS
  <1>1. extracted \subseteq Entries
    BY GraphConstants DEF GraphInit
  <1>2. \A t \in Kinds \X Entries : pending[t] \in Nat
    BY DEF GraphInit
  <1> QED BY <1>1, <1>2, GraphConstants DEF GraphInit, Tables

LEMMA TablesStep == CountInv /\ Tables /\ [GraphNext]_gvars => Tables'
  <1> SUFFICES ASSUME CountInv, Tables, [GraphNext]_gvars PROVE Tables'
    OBVIOUS
  <1>1. CASE UNCHANGED gvars
    BY <1>1 DEF gvars, rows, queue, Tables
  <1>2. ASSUME NEW w \in Workers, NEW k \in Kinds, NEW e \in Entries, Take(w, k, e) PROVE Tables'
    BY <1>2 DEF Take, Tables, rows
  <1>3. ASSUME NEW w \in Workers, NEW x \in Ents, Upsert(w, x) PROVE Tables'
    BY <1>3 DEF Upsert, Tables, queue
  <1>4. ASSUME NEW w \in Workers, Mention(w) PROVE Tables'
    <2>1. job[w].ent \in Ents /\ job[w].entry \in Entries
      BY <1>4 DEF Mention, At, CountInv, Jobs
    <2> QED BY <1>4, <2>1 DEF Mention, Tables, queue
  <1>5. ASSUME NEW w \in Workers, Related(w) \/ Abandon(w) PROVE Tables'
    BY <1>5 DEF Related, Abandon, Tables, rows, queue
  <1>6. ASSUME NEW w \in Workers, EnqueueLink(w) PROVE Tables'
    <2>1. job[w].entry \in Entries
      BY <1>6 DEF EnqueueLink, At, CountInv, Jobs
    <2> DEFINE t == <<"link", job[w].entry>>
    <2>2. t \in Kinds \X Entries
      BY <2>1 DEF Kinds
    <2>3. pending' = [pending EXCEPT ![t] = @ + 1]
      BY <1>6 DEF EnqueueLink
    <2> HIDE DEF t
    <2> QED BY <1>6, <2>2, <2>3 DEF EnqueueLink, Tables, rows
  <1>7. ASSUME NEW w \in Workers, Complete(w) PROVE Tables'
    <2>1. job[w].entry \in Entries
      BY <1>7 DEF Complete, At, CountInv, Jobs
    <2> QED BY <1>7, <2>1 DEF Complete, Tables, rows
  <1>8. ASSUME NEW w \in Workers, NEW x, NEW y, Relate(w, x, y) PROVE Tables'
    BY <1>8 DEF Relate, Tables, queue
  <1>9. ASSUME Requeue PROVE Tables'
    BY <1>9 DEF Requeue, Tables, rows
  <1> QED BY <1>1, <1>2, <1>3, <1>4, <1>5, <1>6, <1>7, <1>8, <1>9 DEF GraphNext

(* Whatever handlers interleave, fail and repeat: the types of the tables. *)
THEOREM GraphTypeCorrect == GraphSpec => []GraphTypeOK
  <1>1. CountInv /\ Tables => GraphTypeOK
    BY DEF CountInv, Tables, GraphTypeOK, Jobs, Known
  <1> QED BY <1>1, CountStart, CountStep, TablesStart, TablesStep, PTL DEF GraphSpec

-----------------------------------------------------------------------------
(* The traversal, of any graph: three hops' rows and no fourth.            *)

Solved(hop, S) ==
  hop = [h \in 0..MAX_HOPS |-> IF h = 0 THEN S \cap Known ELSE Beside(hop[h - 1])]

LEMMA WalkRows ==
  ASSUME NEW S
  PROVE  /\ Walk(S)[0] = S \cap Known
         /\ Walk(S)[1] = Beside(S \cap Known)
         /\ Walk(S)[2] = Beside(Beside(S \cap Known))
  <1> DEFINE one == Beside(S \cap Known)
             two == Beside(one)
             g == [h \in 0..MAX_HOPS |-> IF h = 0 THEN S \cap Known ELSE IF h = 1 THEN one ELSE two]
  <1>1. 0..MAX_HOPS = {0, 1, 2}
    BY DEF MAX_HOPS
  <1>2. Solved(g, S)
    <2> SUFFICES ASSUME NEW h \in 0..MAX_HOPS
                 PROVE  g[h] = IF h = 0 THEN S \cap Known ELSE Beside(g[h - 1])
      BY DEF Solved
    <2>1. CASE h = 0
      BY <2>1
    <2>2. CASE h = 1
      <3>1. g[h] = one /\ g[h - 1] = S \cap Known
        BY <1>1, <2>2
      <3> QED BY <2>2, <3>1
    <2>3. CASE h = 2
      <3>1. g[h] = two /\ g[h - 1] = one
        BY <1>1, <2>3
      <3> QED BY <2>3, <3>1
    <2> QED BY <1>1, <2>1, <2>2, <2>3
  <1> DEFINE w == CHOOSE hop : Solved(hop, S)
  <1>3. Walk(S) = w
    BY DEF Walk, Solved
  <1>4. Solved(w, S)
    BY <1>2
  <1> HIDE DEF g, w
  <1>5. \A h \in 0..MAX_HOPS : w[h] = IF h = 0 THEN S \cap Known ELSE Beside(w[h - 1])
    BY <1>4, Zenon DEF Solved
  <1>6. w[0] = S \cap Known /\ w[1] = Beside(w[1 - 1]) /\ w[2] = Beside(w[2 - 1])
    <2>1. 0 \in 0..MAX_HOPS /\ 1 \in 0..MAX_HOPS /\ 2 \in 0..MAX_HOPS /\ 1 # 0 /\ 2 # 0
      BY <1>1
    <2> QED BY <1>5, <2>1, Zenon
  <1>7. 1 - 1 = 0 /\ 2 - 1 = 1
    OBVIOUS
  <1> QED BY <1>3, <1>6, <1>7

LEMMA TraverseExact ==
  ASSUME NEW S \in SUBSET Known
  PROVE  Traverse(S) = {<<x, Distance(S, x)>> : x \in {x \in Ents \ S : Distance(S, x) <= 2}}
  <1> DEFINE hop == Walk(S)
  <1>1. hop[0] = S /\ hop[1] = Beside(S) /\ hop[2] = Beside(Beside(S))
    <2>1. S \cap Known = S
      OBVIOUS
    <2> QED BY <2>1, WalkRows
  <1>2. \A x \in Ents : x \in hop[1] <=> \E y \in S : Joined(x, y)
    BY <1>1 DEF Beside, Joined
  <1>3. \A x \in Ents : x \in hop[2] <=> \E y \in S, z \in Ents : Joined(x, z) /\ Joined(z, y)
    BY <1>1 DEF Beside, Joined
  <1> HIDE DEF hop
  <1>4. ASSUME NEW x \in Ents \ S, NEW h \in 0..MAX_HOPS
        PROVE  x \in hop[h] /\ (\A g \in 0..(h - 1) : x \notin hop[g])
                 <=> Distance(S, x) <= 2 /\ h = Distance(S, x)
    <2>1. x \notin hop[0]
      BY <1>1
    <2>2. CASE h = 0
      BY <2>1, <2>2 DEF Distance
    <2>3. CASE h = 1
      <3>1. 0..(h - 1) = {0}
        BY <2>3
      <3> QED BY <1>2, <2>1, <2>3, <3>1 DEF Distance
    <2>4. CASE h = 2
      <3>1. 0..(h - 1) = {0, 1}
        BY <2>4
      <3> QED BY <1>2, <1>3, <2>1, <2>4, <3>1 DEF Distance
    <2> QED BY <2>2, <2>3, <2>4 DEF MAX_HOPS
  <1>5. Traverse(S) = {r \in (Ents \ S) \X (0..MAX_HOPS) :
                         r[1] \in hop[r[2]] /\ \A g \in 0..(r[2] - 1) : r[1] \notin hop[g]}
    BY DEF Traverse, hop
  <1>6. \A x : Distance(S, x) \in 0..3
    BY DEF Distance
  <1>7. \A x \in Ents \ S : Distance(S, x) <= 2 => Distance(S, x) \in 0..MAX_HOPS
    BY <1>6 DEF MAX_HOPS
  <1>8. ASSUME NEW r \in Traverse(S)
        PROVE  \E x \in {x \in Ents \ S : Distance(S, x) <= 2} : r = <<x, Distance(S, x)>>
    <2>1. PICK x \in Ents \ S, h \in 0..MAX_HOPS : r = <<x, h>>
      BY <1>5, <1>8
    <2>2. x \in hop[h] /\ \A g \in 0..(h - 1) : x \notin hop[g]
      BY <1>5, <1>8, <2>1
    <2> QED BY <1>4, <2>1, <2>2
  <1>9. ASSUME NEW x \in Ents \ S, Distance(S, x) <= 2
        PROVE  <<x, Distance(S, x)>> \in Traverse(S)
    BY <1>4, <1>5, <1>7, <1>9
  <1> QED BY <1>8, <1>9

(* Whatever cycles, parallel relationships and loops the handlers write,   *)
(* a traversal returns each entity within two hops, once, with its least   *)
(* distance, and no other.                                                 *)
THEOREM TraversalTheorem == GraphSpec => []TraversalExact
  <1>1. TraversalExact
    BY TraverseExact DEF TraversalExact
  <1> QED BY <1>1, PTL

-----------------------------------------------------------------------------
(* Consolidation leaves both parts to themselves.                          *)
LEMMA PartsStep ==
  [ConsolidationNext]_cvars => [KnowledgeNext]_kvars /\ [GraphNext]_gvars
  <1> SUFFICES ASSUME [ConsolidationNext]_cvars PROVE [KnowledgeNext]_kvars /\ [GraphNext]_gvars
    OBVIOUS
  <1>1. CASE UNCHANGED <<gvars, kvars>>
    BY <1>1
  <1>2. CASE Elsewhere
    BY <1>2 DEF Elsewhere, KnowledgeNext
  <1>3. ASSUME NEW c \in Consolidators, Synthesize(c) PROVE KnowledgeNext /\ UNCHANGED gvars
    BY <1>3 DEF Synthesize, KnowledgeNext
  <1>4. ASSUME NEW c \in Consolidators, Stop(c)
        PROVE  (EndSynthesis(c) \/ UNCHANGED kvars) /\ UNCHANGED gvars
    BY <1>4 DEF Stop
  <1>5. ASSUME NEW c \in Consolidators, EndSynthesis(c) PROVE KnowledgeNext
    BY <1>5 DEF KnowledgeNext
  <1>6. CASE UNCHANGED cvars
    BY <1>1, <1>6 DEF cvars
  <1> QED BY <1>1, <1>2, <1>3, <1>4, <1>5, <1>6
      DEF ConsolidationNext, Consolidate, BeginDecay, WriteDecay, ReadPairs, WriteSuperseded, Judge,
          Dismiss, ReadClusters, WriteMerged, EndMerge, SkipCluster, StoreSummary

LEMMA Parts == ConsolidationSpec => KnowledgeSpec /\ GraphSpec
  <1>1. ConsolidationInit => KnowledgeInit /\ GraphInit
    BY DEF ConsolidationInit
  <1> QED BY <1>1, PartsStep, PTL DEF ConsolidationSpec, KnowledgeSpec, GraphSpec

(* In a run of consolidate() beside others and beside the worker, too.     *)
THEOREM ConsolidatedQuorum == ConsolidationSpec => []Quorum
  BY Parts, QuorumTheorem, PTL

(* Decay, contradictions and merging do not disturb a synthesis.           *)
THEOREM ConsolidatedQuiet == ConsolidationSpec => QuietSynthesis
  BY Parts, QuietSynthesisTheorem, PTL

(* Whatever a consolidation does to importances, counts still cover.       *)
THEOREM ConsolidatedCount == ConsolidationSpec => []CountCoversMentions
  BY Parts, CountTheorem, PTL

-----------------------------------------------------------------------------
(* Contradictions: one of two entries about the same entity, the older     *)
(* one unless a language model says otherwise.                             *)

OnSubject(p) == \E x \in Ents : p \in Pairs(x) \ Natural

Whole(r) ==
  r \in [at : {r.at}, snap : {r.snap}, pairs : {r.pairs}, clusters : {r.clusters},
         hit : {r.hit}, prev : {r.prev}, runs : {r.runs}]

(* Only a store that has a classifier reads pairs.                         *)
Judgeable(c, p) == OnSubject(p) /\ Classifier[c] # "none"

Standing == retired \subseteq Entries \X {"deberta", "llm"} /\ NewestStands

(* Mentions are only added, so a pair once read stays one of its entity.   *)
StandInv ==
  /\ con = [c \in Consolidators |-> con[c]]
  /\ \A c \in Consolidators : Whole(con[c]) /\ \A p \in con[c].pairs : Judgeable(c, p)
  /\ Standing

LEMMA TwoOf ==
  ASSUME NEW p \in SUBSET Entries, Cardinality(p) = 2
  PROVE  \E a, b \in Entries : a # b /\ p = {a, b}
  <1>1. IsFiniteSet(p)
    BY GraphConstants, FS_Subset
  <1>2. PICK a \in p : TRUE
    <2>1. p # {}
      BY <1>1, FS_EmptySet
    <2> QED BY <2>1
  <1>3. IsFiniteSet(p \ {a}) /\ Cardinality(p \ {a}) = 1
    BY <1>1, <1>2, FS_RemoveElement
  <1>4. PICK b : p \ {a} = {b}
    BY <1>3, FS_Singleton
  <1> QED BY <1>2, <1>4

LEMMA OneOfTwo ==
  ASSUME NEW c \in Consolidators, NEW p, OnSubject(p), NEW e \in Superseded(c, p)
  PROVE  e \in Entries /\ \E f \in Entries : p = {e, f} /\ (Classifier[c] = "llm" \/ Born[e] <= Born[f])
  <1>1. p \in SUBSET Entries /\ Cardinality(p) = 2
    BY DEF OnSubject, Pairs, About
  <1>2. PICK a \in Entries, b \in Entries : p = {a, b}
    BY <1>1, TwoOf
  <1>3. e \in p /\ (Classifier[c] = "llm" \/ \A f \in p : Born[e] <= Born[f])
    BY DEF Superseded
  <1>4. CASE e = a
    BY <1>2, <1>3, <1>4
  <1>5. CASE e = b
    BY <1>2, <1>3, <1>5
  <1> QED BY <1>2, <1>3, <1>4, <1>5

LEMMA PairsStay ==
  ASSUME mentions \subseteq mentions', NEW x
  PROVE  Pairs(x) \subseteq Pairs(x)'
  BY DEF Pairs, About

LEMMA SubjectsStay ==
  ASSUME mentions \subseteq mentions', NEW c, NEW p, Judgeable(c, p)
  PROVE  Judgeable(c, p)'
  BY PairsStay DEF Judgeable, OnSubject

LEMMA StandStay ==
  ASSUME mentions \subseteq mentions', Standing, retired' = retired
  PROVE  Standing'
  BY PairsStay DEF Standing, NewestStands

LEMMA MentionsGrow == [GraphNext]_gvars => mentions \subseteq mentions'
  BY DEF GraphNext, Take, Upsert, Mention, Related, EnqueueLink, Complete, Abandon, Relate, Requeue,
         gvars, rows

LEMMA StandStart == ConsolidationInit => StandInv
  <1> SUFFICES ASSUME ConsolidationInit PROVE StandInv
    OBVIOUS
  <1>1. /\ retired = {}
        /\ con \in [Consolidators -> [at : {"idle"}, snap : {<<>>}, pairs : {{}}, clusters : {{}},
                                      hit : {{}}, prev : BOOLEAN, runs : {0}]]
    BY DEF ConsolidationInit
  <1>2. ASSUME NEW c \in Consolidators PROVE Whole(con[c]) /\ con[c].pairs = {}
    BY <1>1 DEF Whole
  <1> QED BY <1>1, <1>2 DEF StandInv, Standing, NewestStands

(* Every step of consolidate() replaces one local state and the mentions   *)
(* are the worker's.                                                       *)
LEMMA LocalKeeps ==
  ASSUME StandInv, mentions' = mentions, NEW c \in Consolidators, NEW r, Whole(r),
         \A p \in r.pairs : Judgeable(c, p), con' = [con EXCEPT ![c] = r], Standing'
  PROVE  StandInv'
  <1>1. con'[c] = r /\ \A d \in Consolidators : d # c => con'[d] = con[d]
    BY DEF StandInv
  <1>2. con' = [d \in Consolidators |-> con'[d]]
    BY DEF StandInv
  <1>3. \A d, p : Judgeable(d, p) => Judgeable(d, p)'
    BY SubjectsStay
  <1>4. ASSUME NEW d \in Consolidators
        PROVE  Whole(con'[d]) /\ \A p \in con'[d].pairs : Judgeable(d, p)'
    BY <1>1, <1>3 DEF StandInv
  <1>5. ASSUME NEW d \in Consolidators
        PROVE  (Whole(con[d]) /\ \A p \in con[d].pairs : Judgeable(d, p))'
    BY <1>4 DEF Whole
  <1> QED BY <1>2, <1>5 DEF StandInv

LEMMA ReadPairsKeeps ==
  ASSUME StandInv, NEW c \in Consolidators, ReadPairs(c)
  PROVE  StandInv'
  <1>1. PICK P \in Candidates :
          con' = [con EXCEPT ![c].at = "judge", ![c].pairs = P \ Natural, ![c].snap = imp]
    BY DEF ReadPairs
  <1>2. \A p \in P \ Natural : Judgeable(c, p)
    BY DEF Candidates, OnSubject, Judgeable, ReadPairs
  <1> DEFINE Q == P \ Natural
             r == [con[c] EXCEPT !.at = "judge", !.pairs = Q, !.snap = imp]
  <1> HIDE DEF Q
  <1>3. con' = [con EXCEPT ![c] = r] /\ Whole(r) /\ r.pairs = Q
    BY <1>1 DEF StandInv, Whole, Q
  <1> HIDE DEF r
  <1>4. mentions' = mentions /\ Standing'
    BY StandStay DEF ReadPairs, StandInv, gvars, rows
  <1> QED BY <1>2, <1>3, <1>4, LocalKeeps DEF Q

LEMMA JudgeKeeps ==
  ASSUME StandInv, NEW c \in Consolidators, NEW p \in con[c].pairs, Judge(c, p)
  PROVE  StandInv'
  <1>1. OnSubject(p) /\ Classifier[c] \in {"deberta", "llm"} /\ mentions' = mentions
    BY ConsolidationConstants DEF StandInv, Judgeable, Judge, gvars, rows
  <1>2. PICK e \in Superseded(c, p) :
          /\ retired' = retired \cup {<<e, Classifier[c]>>}
          /\ con' = [con EXCEPT ![c].pairs = @ \ {p}, ![c].hit = @ \cup {e}]
    BY DEF Judge
  <1>3. PICK f \in Entries : p = {e, f} /\ (Classifier[c] = "llm" \/ Born[e] <= Born[f])
    BY <1>1, OneOfTwo
  <1>4. e \in Entries
    BY <1>1, OneOfTwo
  <1>5. retired' \subseteq Entries \X {"deberta", "llm"}
    BY <1>1, <1>2, <1>4 DEF StandInv, Standing
  <1>6. NewestStands'
    <2>1. SUFFICES ASSUME NEW g \in Entries, NEW by \in {"deberta", "llm"}, <<g, by>> \in retired'
                   PROVE  \E x \in Ents, h \in Entries :
                            {g, h} \in Pairs(x) \ Natural /\ (by = "llm" \/ Born[g] <= Born[h])
      <3>1. \A x : Pairs(x)' = Pairs(x)
        BY <1>1 DEF Pairs, About
      <3> QED BY <3>1 DEF NewestStands
    <2>2. CASE <<g, by>> \in retired
      BY <2>2 DEF StandInv, Standing, NewestStands
    <2>3. CASE g = e /\ by = Classifier[c]
      BY <1>1, <1>3, <2>3 DEF OnSubject
    <2> QED BY <1>2, <2>1, <2>2, <2>3
  <1> DEFINE Q == con[c].pairs \ {p}
             h == con[c].hit \cup {e}
             r == con'[c]
  <1> HIDE DEF h
  <1>7. con' = [con EXCEPT ![c] = r] /\ Whole(r) /\ r.pairs = Q
    <2> HIDE DEF Q
    <2>1. con' = [con EXCEPT ![c].pairs = Q, ![c].hit = h]
      BY <1>2 DEF h, Q
    <2> QED BY <2>1 DEF StandInv, Whole
  <1>8. \A q \in Q : Judgeable(c, q)
    BY DEF StandInv
  <1> HIDE DEF Q, r
  <1> QED BY <1>1, <1>5, <1>6, <1>7, <1>8, LocalKeeps DEF Standing

(* The other steps of a run judge nothing and read no pair.                *)
LEMMA OthersKeep ==
  ASSUME StandInv, UNCHANGED <<mentions, retired>>, NEW c \in Consolidators, NEW r, Whole(r),
         r.pairs \subseteq con[c].pairs, con' = [con EXCEPT ![c] = r]
  PROVE  StandInv'
  <1>1. Standing' /\ \A p \in r.pairs : Judgeable(c, p)
    BY StandStay DEF StandInv
  <1> QED BY <1>1, LocalKeeps

LEMMA ConsolidateKeeps ==
  ASSUME StandInv, NEW c \in Consolidators, Consolidate(c)
  PROVE  StandInv'
  <1> DEFINE r == con'[c]
  <1>1. CASE UNCHANGED <<mentions, retired, con>>
    BY <1>1, StandStay, SubjectsStay DEF StandInv, Whole
  <1>2. ASSUME BeginDecay(c) PROVE StandInv'
    <2>1. PICK D \in Oldest :
            con' = [con EXCEPT ![c].at = "decay", ![c].snap = [e \in D |-> imp[e]], ![c].runs = @ + 1]
      BY <1>2 DEF BeginDecay
    <2>2. PICK t, n : con' = [con EXCEPT ![c].at = "decay", ![c].snap = t, ![c].runs = n]
      BY <2>1
    <2>3. con' = [con EXCEPT ![c] = r] /\ Whole(r) /\ r.pairs = con[c].pairs
      BY <2>2 DEF StandInv, Whole
    <2> QED BY <1>2, <2>3, OthersKeep DEF BeginDecay, gvars, rows
  <1>3. ASSUME WriteDecay(c) PROVE StandInv'
    <2>1. con' = [con EXCEPT ![c] = r] /\ Whole(r) /\ r.pairs = con[c].pairs
      BY <1>3 DEF WriteDecay, StandInv, Whole
    <2> QED BY <1>3, <2>1, OthersKeep DEF WriteDecay, gvars, rows
  <1>4. ASSUME NEW p, Dismiss(c, p) PROVE StandInv'
    <2>1. con' = [con EXCEPT ![c] = r] /\ Whole(r) /\ r.pairs = con[c].pairs \ {p}
      BY <1>4 DEF Dismiss, StandInv, Whole
    <2> QED BY <1>4, <2>1, OthersKeep DEF Dismiss, gvars, rows
  <1>5. ASSUME WriteSuperseded(c) PROVE StandInv'
    <2>1. con' = [con EXCEPT ![c] = r] /\ Whole(r) /\ r.pairs = con[c].pairs
      BY <1>5 DEF WriteSuperseded, StandInv, Whole
    <2> QED BY <1>5, <2>1, OthersKeep DEF WriteSuperseded, gvars, rows
  <1>6. ASSUME ReadClusters(c) PROVE StandInv'
    <2>1. PICK s \in BySize : con' = [con EXCEPT ![c].at = "merge", ![c].snap = imp,
                                                 ![c].clusters = Clusters(s)]
      BY <1>6 DEF ReadClusters
    <2>2. PICK K : con' = [con EXCEPT ![c].at = "merge", ![c].snap = imp, ![c].clusters = K]
      BY <2>1
    <2>3. con' = [con EXCEPT ![c] = r] /\ Whole(r) /\ r.pairs = con[c].pairs
      BY <2>2 DEF StandInv, Whole
    <2> QED BY <1>6, <2>3, OthersKeep DEF ReadClusters, gvars, rows
  <1>7. ASSUME NEW k, SkipCluster(c, k) PROVE StandInv'
    <2>1. con' = [con EXCEPT ![c] = r] /\ Whole(r) /\ r.pairs = con[c].pairs
      BY <1>7 DEF SkipCluster, StandInv, Whole
    <2> QED BY <1>7, <2>1, OthersKeep DEF SkipCluster, gvars, rows
  <1>8. ASSUME NEW k, StoreSummary(c, k) PROVE StandInv'
    <2>1. con' = [con EXCEPT ![c] = r] /\ Whole(r) /\ r.pairs = con[c].pairs
      BY <1>8 DEF StoreSummary, StandInv, Whole
    <2> QED BY <1>8, <2>1, OthersKeep DEF StoreSummary, gvars, rows
  <1>9. ASSUME WriteMerged(c) \/ EndMerge(c) PROVE StandInv'
    <2>1. con' = [con EXCEPT ![c] = r] /\ Whole(r) /\ r.pairs = con[c].pairs
      BY <1>9 DEF WriteMerged, EndMerge, StandInv, Whole
    <2> QED BY <1>9, <2>1, OthersKeep DEF WriteMerged, EndMerge, gvars, rows
  <1>10. ASSUME Stop(c) PROVE StandInv'
    <2>1. con' = [con EXCEPT ![c] = r] /\ Whole(r) /\ r.pairs = {}
      BY <1>10 DEF Stop, StandInv, Whole
    <2> QED BY <1>10, <2>1, OthersKeep DEF Stop, gvars, rows
  <1>11. ASSUME Synthesize(c) PROVE StandInv'
    BY <1>1, <1>11 DEF Synthesize, gvars, rows
  <1> QED BY <1>2, <1>3, <1>4, <1>5, <1>6, <1>7, <1>8, <1>9, <1>10, <1>11,
            ReadPairsKeeps, JudgeKeeps DEF Consolidate

LEMMA StandStep == StandInv /\ [ConsolidationNext]_cvars => StandInv'
  <1> SUFFICES ASSUME StandInv, [ConsolidationNext]_cvars PROVE StandInv'
    OBVIOUS
  <1>1. ASSUME mentions \subseteq mentions', UNCHANGED <<retired, con>> PROVE StandInv'
    BY <1>1, StandStay, SubjectsStay DEF StandInv, Whole
  <1>2. CASE Elsewhere
    <2>1. mentions \subseteq mentions' /\ UNCHANGED <<retired, con>>
      BY <1>2, MentionsGrow DEF Elsewhere, gvars, rows
    <2> QED BY <1>1, <2>1
  <1>3. CASE UNCHANGED cvars
    BY <1>1, <1>3 DEF cvars, gvars, rows
  <1> QED BY <1>2, <1>3, ConsolidateKeeps DEF ConsolidationNext

(* However many runs, pairs and stores judge, whatever is said meanwhile,  *)
(* and whatever entries a language model retires: one that the local       *)
(* classifier retired has another, no older, that mentions its entity.     *)
THEOREM NewestTheorem == ConsolidationSpec => []NewestStands
  <1>1. StandInv => NewestStands
    BY DEF StandInv, Standing
  <1> QED BY <1>1, StandStart, StandStep, PTL DEF ConsolidationSpec

-----------------------------------------------------------------------------
(* Importances.                                                            *)

LEMMA HasLeast ==
  ASSUME NEW S \in SUBSET Nat, S # {}
  PROVE  \E i \in S : \A j \in S : i <= j
  <1> DEFINE R == OpToRel(<, Nat)
  <1>1. IsWellFoundedOn(R, Nat)
    BY NatLessThanWellFounded
  <1>2. ASSUME NEW i \in Nat, NEW j \in Nat, j < i PROVE <<j, i>> \in R
    BY <1>2 DEF OpToRel
  <1> HIDE DEF R
  <1>3. PICK i \in S : \A j \in S : ~ (<<j, i>> \in R)
    BY <1>1, WFMin
  <1>4. \A j \in S : ~ (j < i)
    BY <1>2, <1>3, Zenon
  <1> QED BY <1>4

(* Induction, for a set of numbers.                                        *)
LEMMA SetInduction ==
  ASSUME NEW S, 0 \in S, \A n \in Nat : n \in S => n + 1 \in S
  PROVE  Nat \subseteq S
  <1> SUFFICES ASSUME Nat \ S # {} PROVE FALSE
    OBVIOUS
  <1>1. PICK i \in Nat \ S : \A j \in Nat \ S : i <= j
    BY HasLeast
  <1>2. i # 0 /\ i - 1 \in Nat /\ i - 1 < i
    BY <1>1
  <1>3. i - 1 \in S
    BY <1>1, <1>2
  <1> QED BY <1>1, <1>2, <1>3

(* A value for every number up to n, each from the one before.             *)
Iterates(g, n, V, base, step) ==
  g \in [0..n -> V] /\ g[0] = base /\ \A i \in 1..n : g[i] = step[i][g[i - 1]]

LEMMA Iteration ==
  ASSUME NEW n \in Nat, NEW V, NEW base \in V, NEW step \in [1..n -> [V -> V]]
  PROVE  \E g : Iterates(g, n, V, base, step)
  <1> DEFINE Upto(m) == \E g : Iterates(g, m, V, base, step)
             S == {m \in Nat : m <= n => Upto(m)}
  <1>1. 0 \in S
    <2>1. [i \in 0..0 |-> base] \in [0..0 -> V]
      OBVIOUS
    <2>2. [i \in 0..0 |-> base][0] = base /\ 1..0 = {}
      OBVIOUS
    <2>3. Iterates([i \in 0..0 |-> base], 0, V, base, step)
      BY <2>1, <2>2 DEF Iterates
    <2> QED BY <2>3
  <1>2. ASSUME NEW m \in Nat, m \in S PROVE m + 1 \in S
    <2> SUFFICES ASSUME m + 1 <= n PROVE Upto(m + 1)
      OBVIOUS
    <2>1. PICK g : Iterates(g, m, V, base, step)
      BY <1>2
    <2> DEFINE f == [i \in 0..(m + 1) |-> IF i = m + 1 THEN step[i][g[m]] ELSE g[i]]
    <2>2. m + 1 \in 1..n /\ m \in 0..m /\ step[m + 1][g[m]] \in V
      BY <2>1 DEF Iterates
    <2>3. f \in [0..(m + 1) -> V]
      BY <2>1, <2>2 DEF Iterates
    <2>4. f[0] = base
      BY <2>1 DEF Iterates
    <2>5. ASSUME NEW i \in 1..(m + 1) PROVE f[i] = step[i][f[i - 1]]
      BY <2>1 DEF Iterates
    <2> HIDE DEF f
    <2>6. Iterates(f, m + 1, V, base, step)
      BY <2>3, <2>4, <2>5 DEF Iterates
    <2> QED BY <2>6
  <1> HIDE DEF S
  <1>3. n \in S
    BY <1>1, <1>2, SetInduction
  <1> QED BY <1>3 DEF S

Disjoint(K) == \A k, l \in K : k = l \/ k \cap l = {}

(* An entry is put into the cluster of the first entity that has it.       *)
LEMMA ClustersApart ==
  ASSUME NEW s \in BySize
  PROVE  Clusters(s) \subseteq SUBSET Entries /\ Disjoint(Clusters(s))
  <1> DEFINE X == {x \in Ents : About(x) # {}}
             n == Cardinality(X)
             V == SUBSET SUBSET Entries
             Own(v, x) == (About(x) \ UNION v) \ InChain
             Add(v, x) == v \cup (IF Cardinality(Own(v, x)) >= MinCluster THEN {Own(v, x)} ELSE {})
             Solves(g) == g = [i \in 0..n |-> IF i = 0 THEN {} ELSE Add(g[i - 1], s[i])]
             step == [i \in 1..n |-> [v \in V |-> Add(v, s[i])]]
  <1>1. n \in Nat
    <2>1. IsFiniteSet(X)
      BY FS_Subset, GraphConstants
    <2> QED BY <2>1, FS_CardinalityType
  <1>2. s \in [1..n -> X]
    BY DEF BySize, SetToSeqs
  <1>3. Len(s) = n
    BY <1>1, <1>2
  <1>4. \A v \in V, x \in X : Add(v, x) \in V
    BY DEF About
  <1>5. ASSUME NEW v \in V, NEW x \in X, Disjoint(v) PROVE Disjoint(Add(v, x))
    <2>1. \A k \in v : k \cap Own(v, x) = {}
      OBVIOUS
    <2> HIDE DEF Own
    <2> QED BY <1>5, <2>1 DEF Disjoint
  <1>6. Clusters(s) = (CHOOSE g : Solves(g))[n]
    BY <1>3 DEF Clusters
  <1> HIDE DEF n, V, X, Add
  <1>7. step \in [1..n -> [V -> V]] /\ \A i \in 1..n, v \in V : step[i][v] = Add(v, s[i])
    BY <1>2, <1>4
  <1> HIDE DEF step
  <1>8. {} \in V
    BY DEF V
  <1>9. \E g : Solves(g)
    <2>1. PICK g : Iterates(g, n, V, {}, step)
      BY <1>1, <1>7, <1>8, Iteration
    <2>2. \A i \in 0..n : i # 0 => i \in 1..n /\ g[i - 1] \in V
      BY <1>1, <2>1 DEF Iterates
    <2>3. \A i \in 0..n : g[i] = IF i = 0 THEN {} ELSE Add(g[i - 1], s[i])
      BY <1>7, <2>1, <2>2 DEF Iterates
    <2>4. Solves(g)
      BY <2>1, <2>3 DEF Iterates
    <2> QED BY <2>4
  <1> DEFINE m == CHOOSE g : Solves(g)
  <1>10. Solves(m)
    BY <1>9
  <1> HIDE DEF m
  <1>11. m[0] = {} /\ \A i \in 1..n : m[i] = Add(m[i - 1], s[i])
    BY <1>1, <1>10
  <1> DEFINE S == {j \in Nat : j <= n => m[j] \in V /\ Disjoint(m[j])}
  <1>12. 0 \in S
    BY <1>8, <1>11 DEF Disjoint
  <1>13. \A j \in Nat : j \in S => j + 1 \in S
    <2> SUFFICES ASSUME NEW j \in Nat, j \in S, j + 1 <= n
                 PROVE  m[j + 1] \in V /\ Disjoint(m[j + 1])
      OBVIOUS
    <2>1. j + 1 \in 1..n /\ (j + 1) - 1 = j /\ m[j] \in V /\ Disjoint(m[j])
      BY <1>1
    <2>2. s[j + 1] \in X /\ m[j + 1] = Add(m[j], s[j + 1])
      BY <1>2, <1>11, <2>1
    <2> QED BY <1>4, <1>5, <2>1, <2>2
  <1> HIDE DEF S
  <1>14. n \in S
    BY <1>1, <1>12, <1>13, SetInduction
  <1>15. m[n] \in V /\ Disjoint(m[n])
    BY <1>1, <1>14 DEF S
  <1>16. Clusters(s) = m[n]
    BY <1>6 DEF m
  <1> QED BY <1>15, <1>16 DEF V

Levels == 0..Top

LEMMA LessOrFloor ==
  ASSUME NEW x \in Levels
  PROVE  /\ Decayed(x) \in Levels /\ Lowered(x) \in Levels
         /\ Decayed(x) <= x \/ Decayed(x) = FLOOR
         /\ Lowered(x) <= x
  <1>1. Top \in Nat /\ Top > 0 /\ x \in Nat /\ x <= Top
    BY ConsolidationConstants DEF Levels
  <1>2. x \div 2 \in Nat /\ x \div 2 <= x
    BY <1>1
  <1>3. (3 * x) \div 10 \in Nat /\ (3 * x) \div 10 <= x
    BY <1>1
  <1> QED BY <1>1, <1>2, <1>3 DEF Decayed, Lowered, FLOOR, Levels

(* The rows a store may still write back from the importances it has read. *)
Owed(c) ==
  {e \in DOMAIN con[c].snap :
     \/ In(c, "decay") \/ In(c, "judge")
     \/ In(c, "merge") /\ e \in UNION con[c].clusters
     \/ In(c, "reduce") /\ e \in con[c].hit \cup UNION con[c].clusters}

(* They are as they were read unless another store wrote them since.       *)
Fresh(c) == \A e \in Owed(c) : e \in behind[c] \/ con[c].snap[e] = imp[e]

Places ==
  {"idle", "decay", "pairs", "judge", "clusters", "merge", "reduce", "synthesis"}

SnapType(c) ==
  /\ DOMAIN con[c].snap \subseteq DOMAIN imp
  /\ \A e \in DOMAIN con[c].snap : con[c].snap[e] \in Levels
  /\ con[c].at \in Places
  /\ con[c].at \in {"judge", "merge", "reduce"} => Entries \subseteq DOMAIN con[c].snap
  /\ con[c].hit \subseteq Entries

(* A store merges a row once: what it wrote does not stand in a cluster    *)
(* still to come, whose importances it would have read too early.          *)
Apart(c) ==
  /\ con[c].clusters \subseteq SUBSET Entries /\ Disjoint(con[c].clusters)
  /\ In(c, "reduce") => con[c].hit \cap UNION con[c].clusters = {}

Reading(c) == SnapType(c) /\ Apart(c) /\ Fresh(c)

Importances ==
  /\ Entries \subseteq DOMAIN imp /\ DOMAIN imp \subseteq Entries \cup Summaries
  /\ imp \in [DOMAIN imp -> Levels]
  /\ behind = [c \in Consolidators |-> behind[c]]

FallInv ==
  /\ StandInv /\ Importances
  /\ \A c \in Consolidators : Reading(c)

LEMMA FallStart == ConsolidationInit => FallInv
  <1> SUFFICES ASSUME ConsolidationInit PROVE FallInv
    OBVIOUS
  <1>1. StandInv
    BY StandStart
  <1>2. Importances
    BY ConsolidationConstants DEF ConsolidationInit, Importances, Levels
  <1>3. ASSUME NEW c \in Consolidators PROVE Reading(c)
    <2>1. con[c].at = "idle" /\ con[c].snap = <<>> /\ con[c].clusters = {} /\ con[c].hit = {}
      BY DEF ConsolidationInit
    <2> QED BY <2>1 DEF Reading, SnapType, Places, Apart, Fresh, Owed, Disjoint, In
  <1> QED BY <1>1, <1>2, <1>3 DEF FallInv

(* What one store does leaves the others' readings good.                   *)
LEMMA FallStay ==
  ASSUME FallInv, NEW c \in Consolidators,
         con'[c] = con[c], DOMAIN imp \subseteq DOMAIN imp', behind[c] \subseteq behind'[c],
         \A e \in DOMAIN imp : imp'[e] = imp[e] \/ e \in behind'[c]
  PROVE  Reading(c)'
  <1>1. SnapType(c) /\ Apart(c) /\ Fresh(c)
    BY DEF FallInv, Reading
  <1>2. SnapType(c)'
    BY <1>1 DEF SnapType
  <1>3. Apart(c)'
    BY <1>1 DEF Apart, In
  <1>4. Owed(c)' = Owed(c) /\ Owed(c) \subseteq DOMAIN imp
    BY <1>1 DEF Owed, In, SnapType
  <1>5. ASSUME NEW e \in Owed(c) PROVE e \in behind'[c] \/ con'[c].snap[e] = imp'[e]
    BY <1>1, <1>4, <1>5 DEF Fresh
  <1>6. Fresh(c)'
    BY <1>4, <1>5 DEF Fresh
  <1> QED BY <1>2, <1>3, <1>6 DEF Reading

LEMMA FallLocal ==
  ASSUME FallInv, StandInv', Importances', NEW c \in Consolidators, NEW r,
         con' = [con EXCEPT ![c] = r], DOMAIN imp \subseteq DOMAIN imp',
         \A d \in Consolidators \ {c} :
           /\ behind[d] \subseteq behind'[d]
           /\ \A e \in DOMAIN imp : imp'[e] = imp[e] \/ e \in behind'[d],
         Reading(c)'
  PROVE  FallInv'
  <1>1. \A d \in Consolidators \ {c} : con'[d] = con[d]
    BY DEF FallInv, StandInv
  <1>2. \A d \in Consolidators \ {c} : Reading(d)'
    BY <1>1, FallStay
  <1> QED BY <1>2 DEF FallInv

(* A store that starts over from the importances, or only goes on.         *)
LEMMA FallReads ==
  ASSUME FallInv, StandInv', UNCHANGED imp, NEW c \in Consolidators, NEW r,
         con' = [con EXCEPT ![c] = r], Reading(c)',
         UNCHANGED behind \/ behind' = [behind EXCEPT ![c] = {}]
  PROVE  FallInv'
  <1>1. Importances' /\ \A d \in Consolidators \ {c} : behind'[d] = behind[d]
    BY DEF FallInv, Importances
  <1> QED BY <1>1, FallLocal

LEMMA ReadingAnew ==
  ASSUME FallInv, NEW c \in Consolidators, NEW r, con' = [con EXCEPT ![c] = r], Whole(r),
         \A e \in DOMAIN r.snap : e \in DOMAIN imp /\ r.snap[e] = imp[e],
         UNCHANGED imp, r.hit \subseteq Entries, r.at \in Places \ {"reduce"},
         r.at \in {"judge", "merge"} => Entries \subseteq DOMAIN r.snap,
         r.clusters \subseteq SUBSET Entries, Disjoint(r.clusters)
  PROVE  Reading(c)'
  <1>1. con'[c] = r
    BY DEF FallInv, StandInv
  <1>2. \A e \in DOMAIN imp : imp[e] \in Levels
    BY DEF FallInv, Importances
  <1>3. SnapType(c)'
    BY <1>1, <1>2 DEF SnapType
  <1>4. Apart(c)'
    BY <1>1 DEF Apart, In
  <1>5. Fresh(c)'
    BY <1>1 DEF Fresh, Owed
  <1> QED BY <1>3, <1>4, <1>5 DEF Reading

LEMMA BeginDecayFalls ==
  ASSUME FallInv, StandInv', NEW c \in Consolidators, BeginDecay(c)
  PROVE  FallInv'
  <1>0. PICK D \in Oldest :
          con' = [con EXCEPT ![c].at = "decay", ![c].snap = [e \in D |-> imp[e]], ![c].runs = @ + 1]
    BY DEF BeginDecay
  <1> DEFINE S == [e \in D |-> imp[e]]
             n == con[c].runs + 1
             r == con'[c]
  <1>1. con' = [con EXCEPT ![c].at = "decay", ![c].snap = S, ![c].runs = n]
    BY <1>0
  <1>2. \A e \in DOMAIN S : e \in DOMAIN imp /\ S[e] = imp[e]
    BY DEF Oldest
  <1> HIDE DEF S, n
  <1>3. con' = [con EXCEPT ![c] = r]
    BY <1>1 DEF FallInv, StandInv
  <1>4. r.at = "decay" /\ r.snap = S /\ r.clusters = con[c].clusters /\ r.hit = con[c].hit /\ Whole(r)
    BY <1>1 DEF FallInv, StandInv, Whole
  <1>5. UNCHANGED imp /\ behind' = [behind EXCEPT ![c] = {}]
    BY DEF BeginDecay
  <1> HIDE DEF r
  <1>6. con[c].hit \subseteq Entries /\ con[c].clusters \subseteq SUBSET Entries
        /\ Disjoint(con[c].clusters)
    BY DEF FallInv, Reading, SnapType, Apart
  <1>7. Reading(c)'
    BY <1>2, <1>3, <1>4, <1>5, <1>6, ReadingAnew DEF Places
  <1> QED BY <1>3, <1>5, <1>7, FallReads

LEMMA ReadPairsFalls ==
  ASSUME FallInv, StandInv', NEW c \in Consolidators, ReadPairs(c)
  PROVE  FallInv'
  <1>1. PICK P \in Candidates :
          con' = [con EXCEPT ![c].at = "judge", ![c].pairs = P \ Natural, ![c].snap = imp]
    BY DEF ReadPairs
  <1> DEFINE Q == P \ Natural
             r == [con[c] EXCEPT !.at = "judge", !.pairs = Q, !.snap = imp]
  <1> HIDE DEF Q
  <1>2. con' = [con EXCEPT ![c] = r] /\ UNCHANGED imp /\ behind' = [behind EXCEPT ![c] = {}]
    BY <1>1 DEF ReadPairs, FallInv, StandInv, Q
  <1>3. r.at = "judge" /\ r.snap = imp /\ r.clusters = con[c].clusters /\ r.hit = con[c].hit /\ Whole(r)
    BY DEF FallInv, StandInv, Whole
  <1> HIDE DEF r
  <1>4. con[c].hit \subseteq Entries /\ con[c].clusters \subseteq SUBSET Entries
        /\ Disjoint(con[c].clusters) /\ Entries \subseteq DOMAIN imp
    BY DEF FallInv, Reading, SnapType, Apart, Importances
  <1>5. Reading(c)'
    BY <1>2, <1>3, <1>4, ReadingAnew DEF Places
  <1> QED BY <1>2, <1>5, FallReads

LEMMA ReadClustersFalls ==
  ASSUME FallInv, StandInv', NEW c \in Consolidators, ReadClusters(c)
  PROVE  FallInv'
  <1>1. PICK K : /\ K \subseteq SUBSET Entries /\ Disjoint(K)
                 /\ con' = [con EXCEPT ![c].at = "merge", ![c].snap = imp, ![c].clusters = K]
    BY ClustersApart DEF ReadClusters
  <1> DEFINE r == [con[c] EXCEPT !.at = "merge", !.snap = imp, !.clusters = K]
  <1>2. con' = [con EXCEPT ![c] = r] /\ UNCHANGED imp /\ behind' = [behind EXCEPT ![c] = {}]
    BY <1>1 DEF ReadClusters, FallInv, StandInv
  <1>3. r.at = "merge" /\ r.snap = imp /\ r.clusters = K /\ r.hit = con[c].hit /\ Whole(r)
    BY DEF FallInv, StandInv, Whole
  <1> HIDE DEF r
  <1>4. con[c].hit \subseteq Entries /\ Entries \subseteq DOMAIN imp
    BY DEF FallInv, Reading, SnapType, Importances
  <1>5. Reading(c)'
    BY <1>1, <1>2, <1>3, <1>4, ReadingAnew DEF Places
  <1> QED BY <1>2, <1>5, FallReads

(* A row judged, a cluster left out, the end of a part: less is owed.      *)
LEMMA LessOwed ==
  ASSUME FallInv, NEW c \in Consolidators, NEW r, con' = [con EXCEPT ![c] = r],
         UNCHANGED <<imp, behind>>, r.hit \subseteq Entries,
         r.clusters \subseteq con[c].clusters,
         \/ r.snap = <<>> /\ r.at \in {"idle", "synthesis"}
         \/ r.snap = con[c].snap /\ r.at = con[c].at /\ r.at \in {"judge", "merge"}
  PROVE  Reading(c)'
  <1>1. con'[c] = r
    BY DEF FallInv, StandInv
  <1>2. SnapType(c) /\ Apart(c) /\ Fresh(c)
    BY DEF FallInv, Reading
  <1>3. SnapType(c)'
    BY <1>1, <1>2 DEF SnapType, Places
  <1>4. Apart(c)'
    BY <1>1, <1>2 DEF Apart, In, Disjoint
  <1>5. Owed(c)' \subseteq Owed(c) /\ \A e \in Owed(c)' : con'[c].snap[e] = con[c].snap[e]
    <2>1. CASE r.snap = <<>> /\ r.at \in {"idle", "synthesis"}
      BY <1>1, <2>1 DEF Owed
    <2>2. CASE r.snap = con[c].snap /\ r.at = con[c].at /\ r.at \in {"judge", "merge"}
      BY <1>1, <2>2 DEF Owed, In
    <2> QED BY <2>1, <2>2
  <1>6. Fresh(c)'
    BY <1>2, <1>5 DEF Fresh
  <1> QED BY <1>3, <1>4, <1>6 DEF Reading

LEMMA JudgeFalls ==
  ASSUME FallInv, StandInv', NEW c \in Consolidators, NEW p \in con[c].pairs,
         Judge(c, p) \/ Dismiss(c, p)
  PROVE  FallInv'
  <1> DEFINE Q == con[c].pairs \ {p}
             r == con'[c]
  <1>1. OnSubject(p) /\ con[c].hit \subseteq Entries
    BY DEF FallInv, StandInv, Judgeable, Reading, SnapType
  <1>2. /\ con' = [con EXCEPT ![c] = r]
        /\ r.at = con[c].at /\ r.snap = con[c].snap /\ r.clusters = con[c].clusters
        /\ r.hit \subseteq Entries
    <2>1. CASE Dismiss(c, p)
      BY <1>1, <2>1 DEF Dismiss, FallInv, StandInv, Whole
    <2>2. CASE Judge(c, p)
      <3>1. PICK e \in Superseded(c, p) :
              con' = [con EXCEPT ![c].pairs = @ \ {p}, ![c].hit = @ \cup {e}]
        BY <2>2 DEF Judge
      <3> DEFINE h == con[c].hit \cup {e}
      <3>2. h \subseteq Entries
        BY <1>1, OneOfTwo
      <3> HIDE DEF h, Q
      <3>3. con' = [con EXCEPT ![c].pairs = Q, ![c].hit = h]
        BY <3>1 DEF h, Q
      <3> QED BY <3>2, <3>3 DEF FallInv, StandInv, Whole
    <2> QED BY <2>1, <2>2
  <1> HIDE DEF r
  <1>3. UNCHANGED <<imp, behind>> /\ con[c].at = "judge"
    BY DEF Judge, Dismiss, In
  <1>4. Reading(c)'
    BY <1>2, <1>3, LessOwed
  <1> QED BY <1>2, <1>3, <1>4, FallReads

LEMMA LeaveFalls ==
  ASSUME FallInv, StandInv', NEW c \in Consolidators,
         EndMerge(c) \/ Stop(c) \/ \E k : SkipCluster(c, k)
  PROVE  FallInv'
  <1> DEFINE r == con'[c]
  <1>1. con[c].hit \subseteq Entries
    BY DEF FallInv, Reading, SnapType
  <1>2. /\ con' = [con EXCEPT ![c] = r]
        /\ r.clusters \subseteq con[c].clusters /\ r.hit \subseteq Entries
        /\ \/ r.snap = <<>> /\ r.at \in {"idle", "synthesis"}
           \/ r.snap = con[c].snap /\ r.at = con[c].at /\ r.at = "merge"
    <2>1. CASE EndMerge(c)
      <3>1. con' = [con EXCEPT ![c].at = "synthesis", ![c].snap = <<>>]
        BY <2>1 DEF EndMerge
      <3>2. r.snap = <<>> /\ r.at = "synthesis" /\ r.clusters = con[c].clusters /\ r.hit = con[c].hit
        BY <3>1 DEF FallInv, StandInv, Whole
      <3>3. con' = [con EXCEPT ![c] = r]
        BY <3>1 DEF FallInv, StandInv, Whole
      <3> QED BY <1>1, <3>2, <3>3
    <2>2. CASE Stop(c)
      BY <2>2 DEF Stop, FallInv, StandInv, Whole
    <2>3. ASSUME NEW k, SkipCluster(c, k)
          PROVE  /\ con' = [con EXCEPT ![c] = r]
                 /\ r.clusters \subseteq con[c].clusters /\ r.hit \subseteq Entries
                 /\ r.snap = con[c].snap /\ r.at = con[c].at /\ r.at = "merge"
      BY <1>1, <2>3 DEF SkipCluster, In, FallInv, StandInv, Whole
    <2> QED BY <2>1, <2>2, <2>3
  <1> HIDE DEF r
  <1>3. UNCHANGED <<imp, behind>>
    BY DEF EndMerge, Stop, SkipCluster
  <1>4. Reading(c)'
    BY <1>2, <1>3, LessOwed
  <1> QED BY <1>2, <1>3, <1>4, FallReads

-----------------------------------------------------------------------------
(* Writes.                                                                 *)

Falls ==
  \A e \in DOMAIN imp :
    imp'[e] <= imp[e] \/ imp'[e] = FLOOR
      \/ \E c \in Consolidators : e \in behind[c] /\ con'[c] # con[c]

(* A store writes what it owes, each value no more than the one it read.   *)
NoHigher(c, new) ==
  \A e \in DOMAIN new :
    /\ e \in Owed(c) /\ new[e] \in Levels
    /\ new[e] <= con[c].snap[e] \/ new[e] = FLOOR

LEMMA WrittenBack ==
  ASSUME FallInv, NEW c \in Consolidators, NEW new, NoHigher(c, new), Writes(c, new)
  PROVE  /\ Importances' /\ DOMAIN imp' = DOMAIN imp
         /\ \A e \in DOMAIN imp : imp'[e] = IF e \in DOMAIN new THEN new[e] ELSE imp[e]
         /\ behind'[c] = behind[c]
         /\ \A d \in Consolidators \ {c} :
              /\ behind[d] \subseteq behind'[d]
              /\ \A e \in DOMAIN imp : imp'[e] = imp[e] \/ e \in behind'[d]
  <1>1. imp' = [e \in DOMAIN imp |-> IF e \in DOMAIN new THEN new[e] ELSE imp[e]]
    BY DEF Writes
  <1>2. behind' = [d \in Consolidators |->
          IF d = c THEN behind[d] ELSE behind[d] \cup {e \in DOMAIN imp : imp'[e] # imp[e]}]
    BY DEF Writes
  <1>3. Importances'
    BY <1>1, <1>2 DEF FallInv, Importances, NoHigher
  <1> QED BY <1>1, <1>2, <1>3

LEMMA WrittenFalls ==
  ASSUME FallInv, NEW c \in Consolidators, NEW new, NoHigher(c, new), Writes(c, new),
         con'[c] # con[c]
  PROVE  Falls
  <1> SUFFICES ASSUME NEW e \in DOMAIN imp, e \notin behind[c]
               PROVE  imp'[e] <= imp[e] \/ imp'[e] = FLOOR
    BY DEF Falls
  <1>1. imp[e] \in Nat
    BY DEF FallInv, Importances, Levels
  <1>2. imp'[e] = IF e \in DOMAIN new THEN new[e] ELSE imp[e]
    BY WrittenBack
  <1>3. e \in DOMAIN new => con[c].snap[e] = imp[e] /\ (new[e] <= con[c].snap[e] \/ new[e] = FLOOR)
    BY DEF NoHigher, FallInv, Reading, Fresh
  <1> QED BY <1>1, <1>2, <1>3

LEMMA WriteDecayFalls ==
  ASSUME FallInv, StandInv', NEW c \in Consolidators, WriteDecay(c)
  PROVE  FallInv' /\ Falls
  <1> DEFINE r == con'[c]
  <1>1. PICK aged \in SUBSET DOMAIN con[c].snap :
          Writes(c, [e \in aged |-> Decayed(con[c].snap[e])])
    BY DEF WriteDecay
  <1> DEFINE new == [e \in aged |-> Decayed(con[c].snap[e])]
  <1>2. NoHigher(c, new)
    <2>1. \A e \in aged : e \in Owed(c) /\ con[c].snap[e] \in Levels
      BY DEF WriteDecay, Owed, FallInv, Reading, SnapType
    <2> QED BY <2>1, LessOrFloor DEF NoHigher
  <1> HIDE DEF new
  <1>3. Writes(c, new)
    BY <1>1 DEF new
  <1>4. /\ con' = [con EXCEPT ![c] = r]
        /\ r.at = "pairs" /\ r.snap = <<>> /\ r.clusters = con[c].clusters /\ r.hit = con[c].hit
    <2>1. con' = [con EXCEPT ![c].at = "pairs", ![c].snap = <<>>]
      BY DEF WriteDecay
    <2>2. r.snap = <<>> /\ r.at = "pairs" /\ r.clusters = con[c].clusters /\ r.hit = con[c].hit
      BY <2>1 DEF FallInv, StandInv, Whole
    <2>3. con' = [con EXCEPT ![c] = r]
      BY <2>1 DEF FallInv, StandInv, Whole
    <2> QED BY <2>2, <2>3
  <1> HIDE DEF r
  <1>5. Reading(c)'
    BY <1>4 DEF FallInv, Reading, SnapType, Places, Apart, Fresh, Owed, In, r
  <1>6. con'[c] # con[c]
    BY <1>4 DEF r, WriteDecay, In
  <1> QED BY <1>2, <1>3, <1>4, <1>5, <1>6, WrittenBack, WrittenFalls, FallLocal

(* The clusters that are left when one was merged share no row with it.    *)
LEMMA WriteMergedFalls ==
  ASSUME FallInv, StandInv', NEW c \in Consolidators, WriteMerged(c)
  PROVE  FallInv' /\ Falls
  <1> DEFINE r == con'[c]
             new == [e \in con[c].hit |-> Lowered(con[c].snap[e])]
  <1>1. SnapType(c) /\ Apart(c) /\ Fresh(c) /\ con[c].at = "reduce"
    BY DEF FallInv, Reading, WriteMerged, In
  <1>2. NoHigher(c, new)
    <2>1. \A e \in con[c].hit : e \in Owed(c) /\ con[c].snap[e] \in Levels
      BY <1>1 DEF Owed, SnapType, In
    <2> QED BY <2>1, LessOrFloor DEF NoHigher
  <1>3. Writes(c, new) /\ DOMAIN new = con[c].hit
    BY DEF WriteMerged
  <1> HIDE DEF new
  <1>4. /\ con' = [con EXCEPT ![c] = r]
        /\ r.at = "merge" /\ r.snap = con[c].snap /\ r.clusters = con[c].clusters /\ r.hit = {}
    BY DEF WriteMerged, FallInv, StandInv, Whole
  <1> HIDE DEF r
  <1>5. con'[c] = r
    BY DEF r
  <1>6. /\ Importances' /\ DOMAIN imp' = DOMAIN imp
        /\ \A e \in DOMAIN imp : imp'[e] = IF e \in DOMAIN new THEN new[e] ELSE imp[e]
        /\ behind'[c] = behind[c]
    BY <1>2, <1>3, WrittenBack
  <1>7. SnapType(c)'
    BY <1>1, <1>4, <1>5, <1>6 DEF SnapType, Places
  <1>8. Apart(c)'
    BY <1>1, <1>4, <1>5 DEF Apart, In
  <1>9. Owed(c)' \subseteq Owed(c) \ con[c].hit
    BY <1>1, <1>4, <1>5 DEF Owed, In, Apart
  <1>10. \A e \in Owed(c)' : e \in DOMAIN imp /\ imp'[e] = imp[e]
    BY <1>1, <1>3, <1>6, <1>9 DEF Owed, SnapType
  <1>11. Fresh(c)'
    BY <1>1, <1>4, <1>5, <1>6, <1>9, <1>10 DEF Fresh
  <1>12. Reading(c)'
    BY <1>7, <1>8, <1>11 DEF Reading
  <1>13. con'[c] # con[c]
    BY <1>1, <1>4, <1>5
  <1> QED BY <1>2, <1>3, <1>4, <1>12, <1>13, WrittenBack, WrittenFalls, FallLocal

LEMMA WriteSupersededFalls ==
  ASSUME FallInv, StandInv', NEW c \in Consolidators, WriteSuperseded(c)
  PROVE  FallInv' /\ Falls
  <1> DEFINE r == con'[c]
             new == [e \in con[c].hit |-> Lowered(con[c].snap[e])]
             pc == IF c \in WithModel THEN "clusters" ELSE "idle"
  <1>1. SnapType(c) /\ Apart(c) /\ con[c].at = "judge"
    BY DEF FallInv, Reading, WriteSuperseded, In
  <1>2. NoHigher(c, new)
    <2>1. \A e \in con[c].hit : e \in Owed(c) /\ con[c].snap[e] \in Levels
      BY <1>1 DEF Owed, SnapType, In
    <2> QED BY <2>1, LessOrFloor DEF NoHigher
  <1>3. Writes(c, new)
    BY DEF WriteSuperseded
  <1> HIDE DEF new
  <1>4. pc \in {"clusters", "idle"}
    OBVIOUS
  <1>5. con' = [con EXCEPT ![c].at = pc, ![c].hit = {}, ![c].snap = <<>>]
    BY DEF WriteSuperseded
  <1> HIDE DEF pc
  <1>6. con' = [con EXCEPT ![c] = r]
    BY <1>5 DEF FallInv, StandInv, Whole
  <1>7. con'[c].at = pc /\ con'[c].snap = <<>> /\ con'[c].clusters = con[c].clusters /\ con'[c].hit = {}
    BY <1>5 DEF FallInv, StandInv, Whole
  <1>8. Reading(c)'
    BY <1>1, <1>4, <1>7 DEF Reading, SnapType, Places, Apart, Fresh, Owed, In
  <1>9. con'[c] # con[c]
    BY <1>1, <1>4, <1>7
  <1> QED BY <1>2, <1>3, <1>6, <1>8, <1>9, WrittenBack, WrittenFalls, FallLocal

(* The cluster summarised becomes the one to be lowered; the summary is a  *)
(* row nobody has read yet.                                                *)
LEMMA StoreSummaryFalls ==
  ASSUME FallInv, StandInv', NEW c \in Consolidators, NEW k, StoreSummary(c, k)
  PROVE  FallInv' /\ Falls
  <1> DEFINE r == con'[c]
             K == con[c].clusters \ {k}
  <1>1. PICK s \in Summaries \ DOMAIN imp :
          imp' = [e \in DOMAIN imp \cup {s} |-> IF e = s THEN Top ELSE imp[e]]
    BY DEF StoreSummary
  <1>2. DOMAIN imp \subseteq DOMAIN imp' /\ \A e \in DOMAIN imp : imp'[e] = imp[e]
    BY <1>1
  <1>3. Importances'
    <2>1. Top \in Levels
      BY ConsolidationConstants DEF Levels
    <2>2. \A e \in DOMAIN imp' : imp'[e] \in Levels
      BY <1>1, <2>1 DEF FallInv, Importances
    <2>3. imp' = [e \in DOMAIN imp' |-> imp'[e]]
      BY <1>1
    <2>4. behind' = behind
      BY DEF StoreSummary
    <2> QED BY <1>1, <1>2, <2>2, <2>3, <2>4 DEF FallInv, Importances
  <1>4. Falls
    BY <1>2 DEF FallInv, Importances, Levels, Falls
  <1>5. SnapType(c) /\ Apart(c) /\ Fresh(c) /\ con[c].at = "merge" /\ k \in con[c].clusters
    BY DEF FallInv, Reading, StoreSummary, In
  <1>6. UNCHANGED behind
    BY DEF StoreSummary
  <1>7. CASE con[c].prev
    <2>1. con' = [con EXCEPT ![c].at = "idle", ![c].snap = <<>>, ![c].clusters = {}]
      BY <1>7 DEF StoreSummary
    <2>2. con' = [con EXCEPT ![c] = r]
      BY <2>1 DEF FallInv, StandInv, Whole
    <2>3. con'[c].at = "idle" /\ con'[c].snap = <<>> /\ con'[c].clusters = {} /\ con'[c].hit = con[c].hit
      BY <2>1 DEF FallInv, StandInv, Whole
    <2>4. Reading(c)'
      BY <1>5, <2>3 DEF Reading, SnapType, Places, Apart, Fresh, Owed, In, Disjoint
    <2> QED BY <1>2, <1>3, <1>4, <1>6, <2>2, <2>4, FallLocal
  <1>8. CASE ~con[c].prev
    <2> HIDE DEF K
    <2>1. con' = [con EXCEPT ![c].at = "reduce", ![c].hit = k, ![c].clusters = K, ![c].prev = TRUE]
      BY <1>8 DEF StoreSummary, K
    <2>2. con' = [con EXCEPT ![c] = r]
      BY <2>1 DEF FallInv, StandInv, Whole
    <2>3. con'[c].at = "reduce" /\ con'[c].snap = con[c].snap /\ con'[c].clusters = K /\ con'[c].hit = k
      BY <2>1 DEF FallInv, StandInv, Whole
    <2>4. k \subseteq Entries /\ K \subseteq con[c].clusters /\ k \cap UNION K = {}
      BY <1>5 DEF Apart, Disjoint, K
    <2>5. SnapType(c)'
      BY <1>2, <1>5, <2>3, <2>4 DEF SnapType, Places
    <2>6. Apart(c)'
      BY <1>5, <2>3, <2>4 DEF Apart, Disjoint
    <2>7. Owed(c)' \subseteq Owed(c) /\ Owed(c) \subseteq DOMAIN imp
      BY <1>5, <2>3, <2>4 DEF Owed, In, SnapType
    <2>8. Fresh(c)'
      BY <1>2, <1>5, <1>6, <2>3, <2>7 DEF Fresh
    <2>9. Reading(c)'
      BY <2>5, <2>6, <2>8 DEF Reading
    <2> QED BY <1>2, <1>3, <1>4, <1>6, <2>2, <2>9, FallLocal
  <1> QED BY <1>7, <1>8

LEMMA FallStep == FallInv /\ [ConsolidationNext]_cvars => FallInv' /\ [Falls]_cvars
  <1> SUFFICES ASSUME FallInv, [ConsolidationNext]_cvars PROVE FallInv' /\ [Falls]_cvars
    OBVIOUS
  <1>1. StandInv'
    BY StandStep DEF FallInv
  <1>2. ASSUME UNCHANGED imp PROVE Falls
    BY <1>2 DEF FallInv, Importances, Levels, Falls
  <1>3. ASSUME UNCHANGED <<imp, con, behind>> PROVE FallInv' /\ Falls
    <2>1. Importances' /\ \A c \in Consolidators : Reading(c)'
      BY <1>3, FallStay DEF FallInv, Importances
    <2> QED BY <1>1, <1>2, <1>3, <2>1 DEF FallInv
  <1>4. CASE UNCHANGED cvars
    BY <1>3, <1>4 DEF cvars
  <1>5. CASE Elsewhere
    BY <1>3, <1>5 DEF Elsewhere
  <1>6. ASSUME NEW c \in Consolidators, Consolidate(c) PROVE FallInv' /\ Falls
    <2>1. CASE BeginDecay(c)
      BY <1>1, <1>2, <2>1, BeginDecayFalls DEF BeginDecay
    <2>2. CASE ReadPairs(c)
      BY <1>1, <1>2, <2>2, ReadPairsFalls DEF ReadPairs
    <2>3. CASE ReadClusters(c)
      BY <1>1, <1>2, <2>3, ReadClustersFalls DEF ReadClusters
    <2>4. CASE \E p \in con[c].pairs : Judge(c, p) \/ Dismiss(c, p)
      BY <1>1, <1>2, <2>4, JudgeFalls DEF Judge, Dismiss
    <2>5. CASE EndMerge(c) \/ Stop(c) \/ \E k \in con[c].clusters : SkipCluster(c, k)
      <3>1. FallInv'
        BY <1>1, <2>5, LeaveFalls
      <3> QED BY <1>2, <2>5, <3>1 DEF EndMerge, Stop, SkipCluster
    <2>6. CASE Synthesize(c)
      BY <1>3, <2>6 DEF Synthesize
    <2>7. CASE \E k \in con[c].clusters : StoreSummary(c, k)
      BY <1>1, <2>7, StoreSummaryFalls
    <2> QED BY <1>1, <1>6, <2>1, <2>2, <2>3, <2>4, <2>5, <2>6, <2>7, WriteDecayFalls, WriteMergedFalls,
               WriteSupersededFalls DEF Consolidate
  <1> QED BY <1>4, <1>5, <1>6 DEF ConsolidationNext

(* However many stores consolidate one file together: an importance goes   *)
(* up only to the floor, or where a store writes over what another wrote   *)
(* after it had read.                                                      *)
THEOREM FallsTheorem == ConsolidationSpec => QuietFalls
  <1>1. ConsolidationSpec => [][Falls]_cvars
    BY FallStart, FallStep, PTL DEF ConsolidationSpec
  <1> QED BY <1>1 DEF Falls, QuietFalls

(* The type invariant of the composition: importances stay between 0 and   *)
(* that of a new entry, what a store has read are rows of the table, and   *)
(* contradictions and merging choose entries only, never summaries.        *)
THEOREM ConsolidationTypeCorrect == ConsolidationSpec => []ConsolidationTypeOK
  <1>1. ConsolidationSpec => []FallInv
    BY FallStart, FallStep, PTL DEF ConsolidationSpec
  <1>2. ConsolidationSpec => []GraphTypeOK
    BY Parts, GraphTypeCorrect, PTL
  <1>3. ConsolidationSpec => []KnowledgeTypeOK
    <2>1. KnowledgeInv => KnowledgeTypeOK
      BY DEF KnowledgeInv, SynType, SynRecord, KnowledgeTypeOK
    <2> QED BY <2>1, KnowledgeStart, KnowledgeStep, Parts, PTL DEF KnowledgeSpec
  <1>4. ASSUME FallInv, GraphTypeOK, KnowledgeTypeOK PROVE ConsolidationTypeOK
    <2>1. retired \subseteq Entries \X {"deberta", "llm"}
      BY <1>4 DEF FallInv, StandInv, Standing
    <2>2. /\ Entries \subseteq DOMAIN imp /\ DOMAIN imp \subseteq Entries \cup Summaries
          /\ \A e \in DOMAIN imp : imp[e] \in 0..Top
      BY <1>4 DEF FallInv, Importances, Levels
    <2>3. \A c \in Consolidators : SnapType(c)
      BY <1>4 DEF FallInv, Reading
    <2> QED BY <1>4, <2>1, <2>2, <2>3 DEF ConsolidationTypeOK, SnapType, Places
  <1>5. FallInv /\ GraphTypeOK /\ KnowledgeTypeOK => ConsolidationTypeOK
    BY <1>4
  <1> QED BY <1>1, <1>2, <1>3, <1>5, PTL

=============================================================================
