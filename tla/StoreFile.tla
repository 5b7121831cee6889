------------------------------ MODULE StoreFile ------------------------------
(***************************************************************************)
(* What is done to whole files: a file that was opened or migrated         *)
(* (Migration) is written by another process, compacted (store.compact,    *)
(* engine.truncate_all_embeddings_to_dim), exported (store.export_json)    *)
(* and imported into a second file (store.import_json).                    *)
(*                                                                         *)
(* The export reads one table after the other, each SELECT its own         *)
(* snapshot.  The import holds the engine's lock and its transaction takes *)
(* the database's write lock, so its statements are one step; but nothing  *)
(* rolls back when one of them raises, and the transaction stays open on   *)
(* the connection.                                                         *)
(***************************************************************************)
EXTENDS Migration

CONSTANTS
  MaxStored,    (* bound: entries the other process stores in the source   *)
  MaxLocal      (* bound: entries stored in the target                     *)

ASSUME StoreFileConstants == MaxStored \in Nat /\ MaxLocal \in Nat

VARIABLES
  comp,      (* [pc, rows]: the compacting process                         *)
  torn,      (* history: a compaction was cut off                          *)
  unseen,    (* history: entries stored between its SELECT and its DROP    *)
  exp,       (* [pc, one, quiet, part]: the exporting one, what it has read *)
  payload,   (* the export file, or NoFile                                 *)
  dst,       (* committed tables of the target                             *)
  tx,        (* what an import that raised left uncommitted, or Clean      *)
  imp,       (* [pc, merge]: the importing store                           *)
  local,     (* history: entries stored in the target                      *)
  gap,       (* history: those stored after import_json found it empty     *)
  half,      (* history: a failed import was committed by a later write    *)
  quietFail  (* history: an import of an undisturbed export raised         *)

source == <<svars, v2, mig, cut, src>>
target == <<dst, tx, imp, local, gap, half, quietFail>>
fvars == <<source, comp, torn, unseen, exp, payload, target>>

NoFile == [sessions |-> {}, entries |-> {}, ents |-> {}, mentions |-> {},
           vecs |-> {}, width |-> "none", dim |-> "none", quiet |-> FALSE]
Clean == [NoTables EXCEPT !.dim = "none"]

NoComp == [pc |-> "idle", rows |-> {}]
NoExp == [pc |-> "idle", one |-> FALSE, quiet |-> FALSE, part |-> NoFile]
NoImp == [pc |-> "idle", merge |-> FALSE]

(* The target's store has its own session; y is an entity of the same name *)
(* and type as the source's x.                                             *)
FileInit ==
  /\ MigrationInit
  /\ comp = NoComp /\ torn = FALSE /\ unseen = {}
  /\ exp = NoExp /\ payload = NoFile
  /\ dst = [NoTables EXCEPT !.sessions = {"d"}]
  /\ tx = Clean /\ imp = NoImp
  /\ local = {} /\ gap = {} /\ half = FALSE /\ quietFail = FALSE

-----------------------------------------------------------------------------
(* Another process on the source file: opens a store of its own, stores    *)
(* entries with their code in one transaction, and its worker adds the     *)
(* entity and then the mention.  Its embedder has the old width.           *)

Written == {e \in src.entries : e[1] = "w"}

OtherOpens ==
  /\ Ready /\ MaxStored > 0 /\ "w" \notin src.sessions
  /\ src' = [src EXCEPT !.sessions = @ \cup {"w"}]
  /\ UNCHANGED <<svars, v2, mig, cut, comp, torn>>

OtherStores ==
  /\ "w" \in src.sessions /\ Cardinality(Written) < MaxStored
  /\ src.width = "wide"   (* else the vector table refuses the row           *)
  /\ LET e == <<"w", Cardinality(Written) + 1>>
     IN  src' = [src EXCEPT !.entries = @ \cup {e}, !.vecs = @ \cup {e}, !.codes = @ \cup {e}]
  /\ UNCHANGED <<svars, v2, mig, cut, comp, torn>>

OtherLinks ==
  /\ \/ Written # {} /\ src' = [src EXCEPT !.ents = @ \cup {"x"}]
     \/ /\ "x" \in src.ents
        /\ \E e \in Written : src' = [src EXCEPT !.mentions = @ \cup {<<"x", e>>}]
  /\ UNCHANGED <<svars, v2, mig, cut, comp, torn>>

-----------------------------------------------------------------------------
(* compact(): outside a transaction DROP and CREATE are committed at once. *)
(* A v2 file is compacted and exported after its migration (a bound).      *)

Settled == Ready /\ mig.pc = "idle" /\ ~v2.memories

CompactStep(pc, rows, tables) ==
  /\ comp' = [pc |-> pc, rows |-> rows]
  /\ src' = tables
  /\ UNCHANGED <<svars, v2, mig, cut, torn>>

CompactRead ==
  /\ comp.pc = "idle" /\ Settled /\ src.dim = "wide" /\ src.width = "wide"
  /\ CompactStep("drop", src.vecs, src)

CompactDrop ==
  /\ comp.pc = "drop"
  /\ CompactStep("fill", comp.rows, [src EXCEPT !.vecs = {}, !.width = "narrow"])

(* Slip: the rows of the table just made are copied, not those read.       *)
CompactFillEmpty ==
  /\ comp.pc = "fill"
  /\ CompactStep("dropCodes", {}, [src EXCEPT !.dim = "narrow"])

CompactFill ==
  /\ comp.pc = "fill"
  /\ CompactStep("dropCodes", {}, [src EXCEPT !.vecs = comp.rows, !.dim = "narrow"])

CompactDropCodes ==
  /\ comp.pc = "dropCodes"
  /\ CompactStep("encode", {}, [src EXCEPT !.codes = {}])

CompactEncode ==
  /\ comp.pc = "encode"
  /\ CompactStep("idle", {}, [src EXCEPT !.codes = src.vecs])

CompactCut ==
  /\ comp.pc # "idle"
  /\ torn' = (torn \/ comp.pc # "drop")
  /\ comp' = NoComp
  /\ UNCHANGED source

CompactNext ==
  \/ CompactRead \/ CompactDrop \/ CompactFill
  \/ CompactDropCodes \/ CompactEncode \/ CompactCut

-----------------------------------------------------------------------------
(* export_json(), of everything or (one) of one agent's sessions.          *)

ExportStep(pc, part) ==
  /\ exp' = [exp EXCEPT !.pc = pc, !.part = part]
  /\ UNCHANGED <<source, comp, torn, unseen, payload, target>>

ExportSessions(want, one) ==
  /\ exp.pc = "idle" /\ Settled
  /\ IF one THEN want # {} /\ want \subseteq src.sessions ELSE want = src.sessions
  /\ exp' = [pc |-> "entries", one |-> one, quiet |-> ~one, part |-> [NoFile EXCEPT !.sessions = want]]
  /\ UNCHANGED <<source, comp, torn, unseen, payload, target>>

ExportEntries ==
  /\ exp.pc = "entries"
  /\ ExportStep("ents", [exp.part EXCEPT !.entries =
       {e \in src.entries : exp.one => e[1] \in exp.part.sessions}])

(* Slip: the entities are left out.                                        *)
ExportEntsSkipped ==
  /\ exp.pc = "ents"
  /\ ExportStep("mentions", exp.part)

ExportEnts ==
  /\ exp.pc = "ents"
  /\ ExportStep("mentions", [exp.part EXCEPT !.ents = src.ents])

(* Rows of the exported entries; of all entries when none is exported.     *)
Exported(e) == exp.part.entries = {} \/ e \in exp.part.entries

ExportMentions ==
  /\ exp.pc = "mentions"
  /\ ExportStep("vecs", [exp.part EXCEPT !.mentions = {m \in src.mentions : Exported(m[2])}])

ExportVecs ==
  /\ exp.pc = "vecs"
  /\ ExportStep("write", [exp.part EXCEPT !.vecs = {e \in src.vecs : Exported(e)}, !.width = src.width])

(* embedding_dim is read last.                                             *)
ExportWrite ==
  /\ exp.pc = "write"
  /\ payload' = [exp.part EXCEPT !.dim = src.dim, !.quiet = exp.quiet]
  /\ exp' = NoExp
  /\ UNCHANGED <<source, comp, torn, unseen, target>>

ExportNext ==
  \/ \E want \in SUBSET {"mig", "w"}, one \in BOOLEAN : ExportSessions(want, one)
  \/ ExportEntries \/ ExportEnts \/ ExportMentions \/ ExportVecs \/ ExportWrite

-----------------------------------------------------------------------------
(* import_json() and the other writes of the target's store.               *)

view == IF tx = Clean THEN dst ELSE tx

(* The checks before the lock is taken.                                    *)
ImportCheck(merge) ==
  /\ payload # NoFile /\ payload.dim = dst.dim
  /\ imp.pc = "idle" /\ tx = Clean
  /\ merge \/ dst.entries = {}
  /\ imp' = [pc |-> "body", merge |-> merge]
  /\ UNCHANGED <<source, comp, torn, unseen, exp, payload, dst, tx, local, gap, half, quietFail>>

(* The tables after each loop of the body, when it gets that far.          *)
(* Slip: a merge empties the target like a plain import.                   *)
BaseEmptied == NoTables
Base == IF imp.merge THEN dst ELSE NoTables
WithSessions == [Base EXCEPT !.sessions = @ \cup payload.sessions]
WithEntries == [WithSessions EXCEPT !.entries = @ \cup payload.entries]
WithEnts ==
  [WithEntries EXCEPT !.ents = IF "x" \in payload.ents THEN (@ \ {"y"}) \cup {"x"} ELSE @]
WithMentions == [WithEnts EXCEPT !.mentions = @ \cup payload.mentions]
Imported == [WithMentions EXCEPT !.vecs = @ \cup payload.vecs, !.codes = @ \cup payload.vecs]

(* Rows a foreign key or a length check refuses.  REPLACE of an entity of  *)
(* the same name and type deletes the one that is there, mentioned or not. *)
Orphans == {e \in payload.entries \ Base.entries : e[1] \notin WithSessions.sessions}
Clash == "x" \in payload.ents /\ \E m \in Base.mentions : m[1] = "y"
Dangling == {m \in payload.mentions : m[1] \notin WithEnts.ents \/ m[2] \notin WithEntries.entries}
WrongWidth == payload.vecs # {} /\ payload.width # dst.dim

(* Slip: the entries come in any order.                                    *)
AnyOrder == SUBSET (payload.entries \ Orphans)

(* A beginning of the entries in the order they were created.              *)
Beginnings == {p \in SUBSET (payload.entries \ Orphans) :
  \A e \in p, i \in 1..(N + MaxStored) : i <= e[2] /\ <<e[1], i>> \in payload.entries => <<e[1], i>> \in p}

(* What the statements before the one that raises have written.            *)
Remains ==
  IF Orphans # {} THEN {[WithSessions EXCEPT !.entries = @ \cup p] : p \in Beginnings}
  ELSE IF Clash THEN {WithEntries}
  ELSE IF Dangling # {}
       THEN {[WithEnts EXCEPT !.mentions = @ \cup p] : p \in SUBSET (payload.mentions \ Dangling)}
  ELSE IF WrongWidth THEN {WithMentions} ELSE {}

(* Slip: each statement is committed by itself.                            *)
ImportBodyCommitting ==
  /\ imp.pc = "body"
  /\ dst' \in IF Remains = {} THEN {Imported} ELSE Remains
  /\ imp' = [imp EXCEPT !.pc = "done"]
  /\ UNCHANGED <<source, comp, torn, unseen, exp, payload, tx, local, gap, half, quietFail>>

ImportBody ==
  /\ imp.pc = "body"
  /\ \/ /\ Remains = {}
        /\ dst' = Imported
        /\ UNCHANGED <<tx, quietFail>>
     \/ /\ tx' \in Remains
        /\ quietFail' = (quietFail \/ (payload.quiet /\ ~imp.merge))
        /\ UNCHANGED dst
  /\ imp' = [imp EXCEPT !.pc = "done"]
  /\ UNCHANGED <<source, comp, torn, unseen, exp, payload, local, gap, half>>

ImportAgain ==
  /\ imp.pc = "done" /\ tx = Clean /\ ~half
  /\ imp' = NoImp
  /\ UNCHANGED <<source, comp, torn, unseen, exp, payload, dst, tx, local, gap, half, quietFail>>

(* remember() of the target's store, from any thread: the commit takes     *)
(* what is left in the transaction along; a foreign key error, its session *)
(* being gone, rolls both back.                                            *)
LocalStores ==
  /\ Cardinality(local) < MaxLocal
  /\ LET e == <<"d", Cardinality(local) + 1>>
     IN  IF "d" \in view.sessions
         THEN /\ dst' = [view EXCEPT !.entries = @ \cup {e}, !.vecs = @ \cup {e}, !.codes = @ \cup {e}]
              /\ local' = local \cup {e}
              /\ gap' = IF imp.pc = "body" /\ ~imp.merge THEN gap \cup {e} ELSE gap
              /\ half' = (half \/ tx # Clean)
         ELSE UNCHANGED <<dst, local, gap, half>>
  /\ tx' = Clean
  /\ UNCHANGED <<source, comp, torn, unseen, exp, payload, imp, quietFail>>

(* The worker links the entry, or settles a task: any write commits.       *)
LocalLinks ==
  /\ view.entries \cap local # {}
  /\ dst' = [view EXCEPT !.ents = @ \cup {"y"},
             !.mentions = @ \cup {<<"y", e>> : e \in view.entries \cap local}]
  /\ tx' = Clean
  /\ half' = (half \/ tx # Clean)
  /\ UNCHANGED <<source, comp, torn, unseen, exp, payload, imp, local, gap, quietFail>>

LocalCommits ==
  /\ tx # Clean
  /\ dst' = tx /\ tx' = Clean /\ half' = TRUE
  /\ UNCHANGED <<source, comp, torn, unseen, exp, payload, imp, local, gap, quietFail>>

(* close() or a crash.                                                     *)
Closes ==
  /\ tx # Clean
  /\ tx' = Clean
  /\ UNCHANGED <<source, comp, torn, unseen, exp, payload, dst, imp, local, gap, half, quietFail>>

ImportNext ==
  \/ \E merge \in BOOLEAN : ImportCheck(merge)
  \/ ImportBody \/ ImportAgain
  \/ LocalStores \/ LocalLinks \/ LocalCommits \/ Closes

-----------------------------------------------------------------------------
(* History: what a compaction does not see, and whether an export of       *)
(* everything is undisturbed.                                              *)
Watch ==
  /\ unseen' = IF comp.pc = "drop" THEN unseen \cup (src'.entries \ src.entries) ELSE unseen
  /\ exp' = [exp EXCEPT !.quiet = @ /\ src' = src]

(* Nothing of the target depends on the source but the export file, so the *)
(* steps of the target are taken after those of the source (a bound).      *)
FileNext ==
  \/ /\ payload = NoFile
     /\ \/ MigrationNext /\ UNCHANGED <<comp, torn>>
        \/ OtherOpens \/ OtherStores \/ OtherLinks
        \/ CompactNext
     /\ Watch
     /\ UNCHANGED <<payload, target>>
  \/ payload = NoFile /\ ExportNext
  \/ payload # NoFile /\ ImportNext

FileSpec == FileInit /\ [][FileNext]_fvars

-----------------------------------------------------------------------------
FileTypeOK ==
  /\ SchemaTypeOK
  /\ src.dim \in {"wide", "narrow"} /\ dst.dim = "wide"
  /\ comp.pc \in {"idle", "drop", "fill", "dropCodes", "encode"}
  /\ exp.pc \in {"idle", "entries", "ents", "mentions", "vecs", "write"}
  /\ imp.pc \in {"idle", "body", "done"}
  /\ gap \subseteq local

(* A compaction that is not cut off costs no entry its vector or its code, *)
(* but those another process stored between its SELECT and its DROP; and   *)
(* afterwards the width of the table is the one in db_metadata, so that    *)
(* entries can be stored and searched.                                     *)
CompactionKeeps ==
  comp.pc = "idle" /\ ~torn =>
    /\ src.width = src.dim
    /\ src.entries \ src.vecs \subseteq unseen
    /\ mig.pc = "idle" /\ ~cut => src.vecs \subseteq src.codes

(* Every session in either file is numbered from 1 without a gap, so that  *)
(* verify() can walk it: after a migration cut off anywhere, an export     *)
(* while others write, or half of an import.                               *)
SessionsWhole ==
  \A t \in {src, dst, view} : \A e \in t.entries :
    /\ e[1] \in t.sessions \/ (e[1] = "d" /\ t # src)
    /\ \A i \in 1..e[2] : <<e[1], i>> \in t.entries

(* An export of the whole store that nobody wrote to meanwhile can be      *)
(* imported into an empty store.  Exports during writes, and those of one  *)
(* agent, may hold rows whose foreign keys they leave out.                 *)
QuietExportImports == ~quietFail

(* Import is all or nothing, unless it raised and the same store wrote     *)
(* something else before it was closed: that write commits the half.       *)
AllOrNothing ==
  \/ half
  \/ payload.entries \cap dst.entries = {} /\ payload.sessions \cap dst.sessions = {}
  \/ /\ payload.entries \subseteq dst.entries
     /\ payload.vecs \subseteq dst.vecs \cap dst.codes
     /\ payload.mentions \subseteq dst.mentions

(* What the target held is still there after any import, but an entry      *)
(* stored after a plain import found the file empty and before it deletes. *)
LocalKept ==
  /\ local \ dst.entries \subseteq gap
  /\ gap = {} => "d" \in dst.sessions \/ local = {}

=============================================================================
