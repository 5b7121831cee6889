------------------------------ MODULE Migration ------------------------------
(***************************************************************************)
(* storage/migration.py, migrate_v2_to_v3(): the v2 tables are read into   *)
(* the process, dropped, and written back as v3 entries of a session of    *)
(* their own through a StorageEngine, whose opening is SchemaUpgrade.      *)
(* Each DROP and each stored row is committed by itself; the links and the *)
(* QJL codes are one transaction at the end.                               *)
(***************************************************************************)
EXTENDS SchemaUpgrade

CONSTANTS
  N,      (* number of rows of the v2 table memories                       *)
  Links   (* rows of memories an entity is linked to                       *)

ASSUME MigrationConstants == N \in Nat \ {0} /\ Links \subseteq 1..N

VARIABLES
  v2,    (* [had, memories, vectors, links]: which v2 tables are there     *)
  mig,   (* [pc, next, vectors, links]: the migrating process              *)
  cut,   (* history: a run was cut off after its first DROP                *)
  src    (* the v3 tables of the file, committed                           *)

mvars == <<svars, v2, mig, cut, src>>

(* v3 tables: entries and vectors are named <<session, sequence number>>,  *)
(* mentions <<entity, entry>>; width is that of the vector table, dim the  *)
(* one in db_metadata; blank are entries with a zero embedding.            *)
NoTables ==
  [sessions |-> {}, entries |-> {}, ents |-> {}, mentions |-> {}, vecs |-> {},
   codes |-> {}, blank |-> {}, width |-> "wide", dim |-> "wide"]

Idle == [pc |-> "idle", next |-> 1, vectors |-> FALSE, links |-> FALSE]
Migrated == {<<"mig", i>> : i \in 1..N}
Ready == version = SCHEMA_VERSION /\ refused = {}

(* A file of version 2 has all its tables, and entities is shared with v3. *)
MigrationInit ==
  /\ SchemaInit
  /\ LET old == version = 2
     IN  v2 = [had |-> old, memories |-> old, vectors |-> old, links |-> old]
  /\ mig = Idle
  /\ cut = FALSE
  /\ src = [NoTables EXCEPT !.ents = IF v2.had THEN {"x"} ELSE {}]

Step(pc) == mig' = [mig EXCEPT !.pc = pc]

(* Without the table memories there is nothing to migrate: it returns 0.   *)
ReadV2 ==
  /\ mig.pc = "idle" /\ v2.memories
  /\ mig' = [pc |-> "vectors", next |-> 1, vectors |-> v2.vectors, links |-> v2.links]
  /\ UNCHANGED <<svars, v2, cut, src>>

DropVectors ==
  /\ mig.pc = "vectors"
  /\ v2' = [v2 EXCEPT !.vectors = FALSE]
  /\ Step("memories")
  /\ UNCHANGED <<svars, cut, src>>

DropMemories ==
  /\ mig.pc = "memories"
  /\ v2' = [v2 EXCEPT !.memories = FALSE]
  /\ Step("rest")
  /\ UNCHANGED <<svars, cut, src>>

(* entity_memories, and meta with the version of a file not yet opened.    *)
DropRest ==
  /\ mig.pc = "rest"
  /\ v2' = [v2 EXCEPT !.links = FALSE]
  /\ version' = IF HasTables(version) THEN version ELSE 0
  /\ Step("session")
  /\ UNCHANGED <<cols, encoded, opener, refused, cut, src>>

(* StorageEngine(db_path) has opened the file; store_session().            *)
StoreSession ==
  /\ mig.pc = "session" /\ Ready
  /\ src' = [src EXCEPT !.sessions = @ \cup {"mig"}]
  /\ Step("rows")
  /\ UNCHANGED <<svars, v2, cut>>

(* store_entry() for the next memory; it raises when the vector table has  *)
(* another width, and a memory without a vector gets zeros.                *)
StoreRow ==
  /\ mig.pc = "rows" /\ src.width = "wide"
  /\ LET e == <<"mig", mig.next>>
     IN  src' = [src EXCEPT !.entries = @ \cup {e}, !.vecs = @ \cup {e},
                            !.blank = IF mig.vectors THEN @ ELSE @ \cup {e}]
  /\ mig' = [mig EXCEPT !.next = @ + 1, !.pc = IF mig.next = N THEN "links" ELSE "rows"]
  /\ UNCHANGED <<svars, v2, cut>>

(* Slip: the codes are committed and the links are left behind.            *)
CodesOnly ==
  /\ mig.pc = "links"
  /\ src' = [src EXCEPT !.codes = src.vecs]
  /\ mig' = Idle
  /\ UNCHANGED <<svars, v2, cut>>

LinkAndEncode ==
  /\ mig.pc = "links"
  /\ src' = [src EXCEPT !.mentions = IF mig.links THEN @ \cup {<<"x", <<"mig", i>>>> : i \in Links} ELSE @,
                        !.codes = src.vecs]
  /\ mig' = Idle
  /\ UNCHANGED <<svars, v2, cut>>

(* A crash or an exception anywhere: nothing is rolled back but an open    *)
(* transaction, and what the process held in memory is gone.               *)
CutOff ==
  /\ mig.pc # "idle"
  /\ cut' = (cut \/ mig.pc # "vectors")
  /\ mig' = Idle
  /\ UNCHANGED <<svars, v2, src>>

MigrationStep ==
  \/ ReadV2 \/ DropVectors \/ DropMemories \/ DropRest
  \/ StoreSession \/ StoreRow \/ LinkAndEncode \/ CutOff

Upgrade == SchemaNext /\ UNCHANGED <<v2, mig, cut, src>>

MigrationNext == Upgrade \/ MigrationStep

MigrationSpec == MigrationInit /\ [][MigrationNext]_mvars

-----------------------------------------------------------------------------
(* While the v2 tables are there no memory is a v3 entry, so that running  *)
(* the migration again stores nothing twice; and once they are gone every  *)
(* memory is an entry with its own vector and its links, unless a run was  *)
(* cut off between the first DROP and its last commit.  The comment "safe  *)
(* to drop old tables" (migration.py) holds for uninterrupted runs only.   *)
MigrationWhole ==
  /\ v2.memories => src.entries \cap Migrated = {}
  /\ v2.had /\ ~v2.memories /\ mig.pc = "idle" /\ ~cut =>
       /\ Migrated \subseteq src.entries
       /\ src.blank = {}
       /\ \A i \in Links : <<"x", <<"mig", i>>>> \in src.mentions

=============================================================================
