--------------------------- MODULE Consolidation ---------------------------
(***************************************************************************)
(* MemoryStore.consolidate() (store.py, consolidation/): decay, then       *)
(* contradictions, then merging, then the synthesis of Knowledge, over the *)
(* mentions the extraction worker goes on writing (Graph).  Nothing keeps  *)
(* two stores, the capture daemon's and a command line's, from             *)
(* consolidating one file together: every part reads importances, works on *)
(* them and writes absolute values back.                                   *)
(*                                                                         *)
(* Importance is counted in units in which FLOOR is MINIMUM_IMPORTANCE.    *)
(* A store may have no classifier, the local one, which says that two      *)
(* texts contradict each other and not which of them is superseded, or a   *)
(* language model, which may name either.                                  *)
(***************************************************************************)
EXTENDS Graph, Knowledge, SequencesExt

CONSTANTS
  WithModel,   (* consolidators that were given a language model           *)
  Classifier,  (* Classifier[c]: "none", "deberta" or "llm"                *)
  Summaries,   (* rows of memory_entries to come from merging              *)
  Born,        (* Born[e]: created_at of a row                             *)
  InChain,     (* entries with a reasoning_chain_id                        *)
  Natural,     (* pairs of entries whose types supersede naturally         *)
  PerEntity,   (* _MAX_PAIRS_PER_ENTITY                                    *)
  InTotal,     (* _MAX_TOTAL_PAIRS                                         *)
  DecayLimit,  (* limit of apply_decay                                     *)
  MinCluster,  (* _MIN_CLUSTER_SIZE                                        *)
  Top,         (* importance of a new entry                                *)
  MaxRuns      (* bound: calls of consolidate() per store                  *)

ASSUME ConsolidationConstants ==
  /\ WithModel \subseteq Consolidators
  /\ Classifier \in [Consolidators -> {"none", "deberta", "llm"}]
  /\ \A c \in WithModel : Classifier[c] # "none"
  /\ Entries \cap Summaries = {} /\ InChain \subseteq Entries
  /\ Born \in [Entries \cup Summaries -> Nat]
  /\ {PerEntity, InTotal, DecayLimit, MinCluster, Top, MaxRuns} \subseteq Nat \ {0}

VARIABLES
  imp,      (* importance of each row of memory_entries                    *)
  retired,  (* entries with a valid_to, which "recall now" leaves out, and *)
            (* as history the classifiers that made them so                *)
  con,      (* con[c]: [at, snap, pairs, clusters, hit, prev, runs]        *)
  behind    (* history: rows others wrote since c read their importances   *)

cvars == <<gvars, kvars, imp, retired, con, behind>>

FLOOR == 1

(* Slip: an entry at the floor is lifted above it.                         *)
Sharpened(x) == IF x = FLOOR THEN 2 * FLOOR ELSE x \div 2

(* max(MINIMUM_IMPORTANCE, importance * retention * security): an entry is *)
(* halved if it has aged enough.  Merged and superseded ones keep 0.3.     *)
Decayed(x) == IF x \div 2 < FLOOR THEN FLOOR ELSE x \div 2
Lowered(x) == (3 * x) \div 10

ConsolidationInit ==
  /\ GraphInit /\ KnowledgeInit
  /\ imp = [e \in Entries |-> Top]
  /\ retired = {}
  /\ con \in [Consolidators -> [at : {"idle"}, snap : {<<>>}, pairs : {{}}, clusters : {{}},
                                hit : {{}}, prev : BOOLEAN, runs : {0}]]
  /\ behind = [c \in Consolidators |-> {}]

In(c, pc) == con[c].at = pc

(* batch_update_entry_importance(): one transaction.                       *)
Writes(c, new) ==
  /\ imp' = [e \in DOMAIN imp |-> IF e \in DOMAIN new THEN new[e] ELSE imp[e]]
  /\ behind' = [d \in Consolidators |->
       IF d = c THEN behind[d] ELSE behind[d] \cup {e \in DOMAIN imp : imp'[e] # imp[e]}]

(* The rows get_entries_for_decay() may return: nothing ever sets          *)
(* accessed_at, so they are the oldest, those of one age in any order.     *)
Oldest ==
  {S \in SUBSET DOMAIN imp :
     /\ Cardinality(S) = DecayLimit \/ (S = DOMAIN imp /\ Cardinality(S) < DecayLimit)
     /\ \A e \in S, f \in DOMAIN imp \ S : Born[e] <= Born[f]}

BeginDecay(c) ==
  /\ In(c, "idle") /\ con[c].runs < MaxRuns
  /\ \E S \in Oldest :
       con' = [con EXCEPT ![c].at = "decay", ![c].snap = [e \in S |-> imp[e]], ![c].runs = @ + 1]
  /\ behind' = [behind EXCEPT ![c] = {}]
  /\ UNCHANGED <<gvars, kvars, imp, retired>>

WriteDecay(c) ==
  /\ In(c, "decay")
  /\ \E aged \in SUBSET DOMAIN con[c].snap :
       Writes(c, [e \in aged |-> Decayed(con[c].snap[e])])
  /\ con' = [con EXCEPT ![c].at = "pairs", ![c].snap = <<>>]
  /\ UNCHANGED <<gvars, kvars, retired>>

-----------------------------------------------------------------------------
(* Contradictions.                                                         *)

About(x) == {e \in Entries : <<x, e>> \in mentions}
Pairs(x) == {p \in SUBSET About(x) : Cardinality(p) = 2}

(* _collect_candidate_pairs(): pairs are taken entity by entity, each pair *)
(* for the first entity that has it, until a cap is met, in an order of    *)
(* rows that is left open here: the sets that may come out.  consolidated  *)
(* is never set, so every run collects them anew.                          *)
Candidates ==
  {P \in SUBSET UNION {Pairs(x) : x \in Ents} :
     \E for \in [P -> Ents] :
       LET load(x) == Cardinality({p \in P : for[p] = x})
       IN  /\ \A p \in P : p \in Pairs(for[p])
           /\ \A x \in Ents : load(x) <= PerEntity
           /\ Cardinality(P) <= InTotal
           /\ \/ Cardinality(P) = InTotal
              \/ \A x \in Ents : load(x) = PerEntity \/ Pairs(x) \subseteq P}

(* The pairs and the entries are two queries; what the worker writes       *)
(* between them changes neither.  Natural pairs are dropped after the caps. *)
(* Without a classifier, and so without a model for the rest, the run ends. *)
ReadPairs(c) ==
  /\ In(c, "pairs") /\ Classifier[c] # "none"
  /\ \E P \in Candidates :
       con' = [con EXCEPT ![c].at = "judge", ![c].pairs = P \ Natural, ![c].snap = imp]
  /\ behind' = [behind EXCEPT ![c] = {}]
  /\ UNCHANGED <<gvars, kvars, imp, retired>>

(* Slip: without an index the newer entry is superseded.                   *)
NewerSuperseded(c, p) ==
  {e \in p : Classifier[c] = "llm" \/ \A f \in p : Born[f] <= Born[e]}

(* _resolve_verdict(): the entry the verdict names by its index, or else   *)
(* the older one; of two of one age the one whose row came first.          *)
Superseded(c, p) ==
  {e \in p : Classifier[c] = "llm" \/ \A f \in p : Born[e] <= Born[f]}

(* No contradiction, or an index out of range: the pair is passed over.    *)
Dismiss(c, p) ==
  /\ In(c, "judge") /\ p \in con[c].pairs
  /\ con' = [con EXCEPT ![c].pairs = @ \ {p}]
  /\ UNCHANGED <<gvars, kvars, imp, retired, behind>>

(* valid_to is committed at once, the importances after the last pair.     *)
Judge(c, p) ==
  /\ In(c, "judge") /\ p \in con[c].pairs
  /\ \E e \in Superseded(c, p) :
       /\ retired' = retired \cup {<<e, Classifier[c]>>}
       /\ con' = [con EXCEPT ![c].pairs = @ \ {p}, ![c].hit = @ \cup {e}]
  /\ UNCHANGED <<gvars, kvars, imp, behind>>

WriteSuperseded(c) ==
  /\ In(c, "judge") /\ con[c].pairs = {}
  /\ Writes(c, [e \in con[c].hit |-> Lowered(con[c].snap[e])])
  /\ con' = [con EXCEPT ![c].at = IF c \in WithModel THEN "clusters" ELSE "idle",
                        ![c].hit = {}, ![c].snap = <<>>]
  /\ UNCHANGED <<gvars, kvars, retired>>

-----------------------------------------------------------------------------
(* Merging.                                                                *)

(* Entities by the number of their entries, ties in any order.             *)
BySize ==
  {s \in SetToSeqs({x \in Ents : About(x) # {}}) :
     \A i, j \in DOMAIN s : i < j => Cardinality(About(s[i])) >= Cardinality(About(s[j]))}

(* merge_similar(): each entry in one cluster at most, entries of a        *)
(* reasoning chain in none.                                                *)
Clusters(s) ==
  LET upto[i \in 0..Len(s)] ==
        IF i = 0 THEN {}
        ELSE LET own == (About(s[i]) \ UNION upto[i - 1]) \ InChain
             IN  upto[i - 1] \cup (IF Cardinality(own) >= MinCluster THEN {own} ELSE {})
  IN  upto[Len(s)]

ReadClusters(c) ==
  /\ In(c, "clusters")
  /\ \E s \in BySize : con' = [con EXCEPT ![c].at = "merge", ![c].snap = imp,
                                          ![c].clusters = Clusters(s)]
  /\ behind' = [behind EXCEPT ![c] = {}]
  /\ UNCHANGED <<gvars, kvars, imp, retired>>

(* The language model fails: the cluster is left as it is.                 *)
SkipCluster(c, k) ==
  /\ In(c, "merge") /\ k \in con[c].clusters
  /\ con' = [con EXCEPT ![c].clusters = @ \ {k}]
  /\ UNCHANGED <<gvars, kvars, imp, retired, behind>>

(* The summary is stored as the next entry of the session.  If that has a  *)
(* parent, insert_dag_parents is called, which StorageEngine does not      *)
(* have: the row stays and consolidate() raises.                           *)
StoreSummary(c, k) ==
  /\ In(c, "merge") /\ k \in con[c].clusters
  /\ \E s \in Summaries \ DOMAIN imp :
       /\ \A t \in Summaries \ DOMAIN imp : Born[s] <= Born[t]
       /\ imp' = [e \in DOMAIN imp \cup {s} |-> IF e = s THEN Top ELSE imp[e]]
  /\ con' = IF con[c].prev
            THEN [con EXCEPT ![c].at = "idle", ![c].snap = <<>>, ![c].clusters = {}]
            ELSE [con EXCEPT ![c].at = "reduce", ![c].hit = k, ![c].clusters = @ \ {k},
                             ![c].prev = TRUE]
  /\ UNCHANGED <<gvars, kvars, retired, behind>>

WriteMerged(c) ==
  /\ In(c, "reduce")
  /\ Writes(c, [e \in con[c].hit |-> Lowered(con[c].snap[e])])
  /\ con' = [con EXCEPT ![c].at = "merge", ![c].hit = {}]
  /\ UNCHANGED <<gvars, kvars, retired>>

EndMerge(c) ==
  /\ In(c, "merge") /\ con[c].clusters = {}
  /\ con' = [con EXCEPT ![c].at = "synthesis", ![c].snap = <<>>]
  /\ UNCHANGED <<gvars, kvars, imp, retired, behind>>

-----------------------------------------------------------------------------
(* Synthesis, and the end of a run.                                        *)

Synthesize(c) ==
  /\ In(c, "synthesis")
  /\ BeginSynthesis(c) \/ Synthesis(c)
  /\ UNCHANGED <<gvars, imp, retired, con, behind>>

(* The run is over, raises, or its process ends: a new one has a session   *)
(* without entries.                                                        *)
Stop(c) ==
  /\ ~In(c, "idle")
  /\ IF syn[c].at = "idle" THEN UNCHANGED kvars ELSE EndSynthesis(c)
  /\ \E prev \in {con[c].prev, FALSE} :
       con' = [con EXCEPT ![c] = [@ EXCEPT !.at = "idle", !.snap = <<>>, !.pairs = {},
                                           !.clusters = {}, !.hit = {}, !.prev = prev]]
  /\ UNCHANGED <<gvars, imp, retired, behind>>

Consolidate(c) ==
  \/ BeginDecay(c) \/ WriteDecay(c) \/ ReadPairs(c) \/ WriteSuperseded(c)
  \/ \E p \in con[c].pairs : Judge(c, p) \/ Dismiss(c, p)
  \/ ReadClusters(c) \/ WriteMerged(c) \/ EndMerge(c)
  \/ \E k \in con[c].clusters : SkipCluster(c, k) \/ StoreSummary(c, k)
  \/ Synthesize(c) \/ Stop(c)

Elsewhere ==
  /\ \/ GraphNext /\ UNCHANGED kvars
     \/ \E k \in Chains : CompleteChain(k) /\ UNCHANGED gvars
  /\ UNCHANGED <<imp, retired, con, behind>>

ConsolidationNext == Elsewhere \/ \E c \in Consolidators : Consolidate(c)

ConsolidationSpec == ConsolidationInit /\ [][ConsolidationNext]_cvars

-----------------------------------------------------------------------------
(* Properties.                                                             *)

ConsolidationTypeOK ==
  /\ GraphTypeOK /\ KnowledgeTypeOK
  /\ Entries \subseteq DOMAIN imp /\ DOMAIN imp \subseteq Entries \cup Summaries
  /\ \A e \in DOMAIN imp : imp[e] \in 0..Top
  /\ retired \subseteq Entries \X {"deberta", "llm"}
  /\ \A c \in Consolidators :
       /\ con[c].at \in {"idle", "decay", "pairs", "judge", "clusters", "merge", "reduce",
                         "synthesis"}
       /\ DOMAIN con[c].snap \subseteq DOMAIN imp
       /\ con[c].hit \subseteq Entries

(* Consolidation only lowers importances: a value goes up only to the      *)
(* floor, from the 0.3 that merging leaves of a low one, or when a store   *)
(* writes over what another wrote since it had read.                       *)
QuietFalls ==
  [][\A e \in DOMAIN imp :
       imp'[e] <= imp[e] \/ imp'[e] = FLOOR
         \/ \E c \in Consolidators : e \in behind[c] /\ con'[c] # con[c]]_cvars

(* An entry is retired only against another one that mentions the same     *)
(* entity and, unless a language model named it, is no older: whatever the *)
(* local classifier says, of what was said about something the newest      *)
(* stands, however many runs, pairs and stores judged, and although those  *)
(* that a model retired go on being compared with the others.              *)
NewestStands ==
  \A e \in Entries, by \in {"deberta", "llm"} : <<e, by>> \in retired =>
    \E x \in Ents, f \in Entries :
      {e, f} \in Pairs(x) \ Natural /\ (by = "llm" \/ Born[e] <= Born[f])

=============================================================================
