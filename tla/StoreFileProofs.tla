-------------------------- MODULE StoreFileProofs --------------------------
(***************************************************************************)
(* Theorems about StoreFile and, inside it, SchemaUpgrade and Migration,   *)
(* for any version found, any number of memories, links and entries, and   *)
(* any number of crashes, locks, other writers, compactions, exports and   *)
(* imports.                                                                *)
(*                                                                         *)
(* SchemaInv says what an upgrade may rely on: it sees all that is         *)
(* committed, its file has the columns of the version it read but for      *)
(* those that met the lock, and each step it has passed has left its own.  *)
(* MemoryInv follows the memories of a v2 file from the table memories     *)
(* through the process to the entries.  SourceInv says which rows of the   *)
(* source refer to which, and where its vectors are during a compaction;   *)
(* ExportInv what an export has read so far and what its file holds;       *)
(* TargetInv that each committed or pending state of the target has whole  *)
(* sessions, its own among them with all its entries or not at all.        *)
(***************************************************************************)
EXTENDS StoreFile, TLAPS, FiniteSetTheorems

Passed(step) ==
  CASE step = "v5"  -> {"v6", "v7", "v9", "v10", "index", "stamp"}
    [] step = "v6"  -> {"v7", "v9", "v10", "index", "stamp"}
    [] step = "v7"  -> {"v9", "v10", "index", "stamp"}
    [] step = "v10" -> {"index", "stamp"}

Opening == opener.pc # "closed"

(* The connection sees what is committed, and is the only one.             *)
SeesCommitted ==
  Opening =>
    /\ version # SCHEMA_VERSION
    /\ cols \subseteq opener.cols
    /\ encoded => opener.encoded

OpenerType ==
  [pc : {"closed", "create", "v5", "v6", "v7", "v9", "v10", "index", "stamp"},
   version : 0..SCHEMA_VERSION, tx : BOOLEAN, cols : SUBSET Columns, encoded : BOOLEAN]

(* Columns: those of the version, those of the steps passed, and all of    *)
(* them in tables that the opening has made.                               *)
ColumnsThere ==
  /\ ColumnsAt(version) \subseteq cols \cup refused
  /\ Opening => ColumnsAt(opener.version) \subseteq opener.cols \cup refused
  /\ Opening /\ opener.pc # "create" /\ ~HasTables(opener.version) => opener.cols = Columns
  /\ \A step \in DOMAIN ColumnsOf :
       opener.pc \in Passed(step) => ColumnsOf[step] \subseteq opener.cols \cup refused
  /\ opener.pc = "stamp" => Indexed \subseteq opener.cols

(* Only files of the versions 4 to 8 hold vectors without a code.          *)
CodesThere ==
  /\ version \notin 4..8 => encoded
  /\ Opening /\ opener.version \notin 4..8 => opener.encoded
  /\ opener.pc \in {"v10", "index", "stamp"} => opener.encoded

SchemaInv ==
  /\ SchemaTypeOK
  /\ SeesCommitted
  /\ ColumnsThere
  /\ CodesThere
  /\ VersionMeansComplete

-----------------------------------------------------------------------------
LEMMA ColumnsByVersion ==
  ASSUME NEW v \in 0..SCHEMA_VERSION
  PROVE  /\ ColumnsAt(v) \subseteq Columns
         /\ ~HasTables(v) => ColumnsAt(v) = {}
         /\ v = SCHEMA_VERSION => ColumnsAt(v) = Columns
         /\ \A step \in DOMAIN ColumnsOf : VersionOf[step] <= v => ColumnsOf[step] \subseteq ColumnsAt(v)
  BY DEF ColumnsAt, Columns, ColumnsOf, VersionOf, HasTables, SCHEMA_VERSION

LEMMA StepNames == DOMAIN ColumnsOf = {"v5", "v6", "v7", "v10"}
  BY DEF ColumnsOf

LEMMA SchemaStart == SchemaInit => SchemaInv
  <1> SUFFICES ASSUME SchemaInit PROVE SchemaInv
    OBVIOUS
  <1>1. version \in 0..SCHEMA_VERSION /\ cols = ColumnsAt(version) /\ refused = {}
        /\ opener = Closed /\ encoded = (version \notin 4..8)
    BY SchemaConstants DEF SchemaInit
  <1>2. cols \subseteq Columns
    BY <1>1, ColumnsByVersion
  <1>3. SchemaTypeOK
    BY <1>1, <1>2 DEF SchemaTypeOK, Closed, SCHEMA_VERSION
  <1>4. opener.pc = "closed"
    BY <1>1 DEF Closed
  <1>5. ColumnsThere
    BY <1>1, <1>4, StepNames DEF ColumnsThere, Opening, Passed
  <1>6. CodesThere /\ SeesCommitted
    BY <1>1, <1>4 DEF CodesThere, SeesCommitted, Opening
  <1>7. VersionMeansComplete
    <2>1. Indexed \subseteq Columns
      BY DEF Indexed, Columns, ColumnsOf
    <2>2. version = SCHEMA_VERSION => cols = Columns
      BY <1>1, ColumnsByVersion
    <2>3. version = SCHEMA_VERSION => version \notin 4..8
      BY DEF SCHEMA_VERSION
    <2>4. version = SCHEMA_VERSION => encoded
      BY <1>1, <2>3
    <2> QED BY <2>1, <2>2, <2>4 DEF VersionMeansComplete
  <1> QED BY <1>3, <1>5, <1>6, <1>7 DEF SchemaInv

LEMMA OpenFileKeeps == SchemaInv /\ OpenFile => SchemaInv'
  <1> SUFFICES ASSUME SchemaInv, OpenFile PROVE SchemaInv'
    OBVIOUS
  <1>1. /\ opener' = [pc |-> "create", version |-> version, tx |-> FALSE,
                      cols |-> cols, encoded |-> encoded]
        /\ UNCHANGED <<version, cols, encoded, refused>> /\ version # SCHEMA_VERSION
    BY DEF OpenFile
  <1>2. SchemaTypeOK'
    BY <1>1 DEF SchemaInv, SchemaTypeOK
  <1>3. ColumnsThere'
    BY <1>1, StepNames DEF SchemaInv, ColumnsThere, Passed
  <1> QED BY <1>1, <1>2, <1>3
      DEF SchemaInv, SeesCommitted, CodesThere, VersionMeansComplete

LEMMA CreateTablesKeeps == SchemaInv /\ CreateTables => SchemaInv'
  <1> SUFFICES ASSUME SchemaInv, CreateTables PROVE SchemaInv'
    OBVIOUS
  <1> DEFINE c == IF HasTables(opener.version) THEN opener.cols ELSE Columns
  <1>1. /\ opener.pc = "create" /\ opener \in OpenerType
        /\ opener' = [opener EXCEPT !.pc = "v5", !.cols = c, !.encoded = opener.encoded, !.tx = FALSE]
        /\ \/ UNCHANGED <<cols, encoded>>
           \/ cols' = c /\ encoded' = opener.encoded
        /\ UNCHANGED <<version, refused>>
    BY DEF CreateTables, Go, Settle, SchemaInv, SchemaTypeOK, OpenerType
  <1>2. c \subseteq Columns /\ opener.cols \subseteq c
    BY <1>1 DEF OpenerType
  <1>3. SchemaTypeOK'
    BY <1>1, <1>2 DEF SchemaInv, SchemaTypeOK, OpenerType
  <1>4. /\ opener'.pc = "v5" /\ opener'.version = opener.version
        /\ opener'.cols = c /\ opener'.encoded = opener.encoded
    BY <1>1 DEF OpenerType
  <1>5. cols \subseteq cols' /\ cols' \subseteq c /\ (encoded => encoded')
        /\ (encoded' => opener.encoded) /\ Opening
    BY <1>1, <1>2 DEF SchemaInv, SeesCommitted, Opening
  <1>6. ColumnsThere'
    <2>1. ColumnsAt(version)' \subseteq cols' \cup refused'
      BY <1>1, <1>5 DEF SchemaInv, ColumnsThere, ColumnsAt
    <2>2. ColumnsAt(opener.version)' \subseteq opener'.cols \cup refused'
      BY <1>1, <1>2, <1>4, <1>5 DEF SchemaInv, ColumnsThere, ColumnsAt
    <2>3. ~HasTables(opener.version)' => opener'.cols = Columns
      BY <1>4 DEF HasTables
    <2> QED BY <1>4, <2>1, <2>2, <2>3, StepNames DEF ColumnsThere, Passed, HasTables
  <1>7. CodesThere' /\ SeesCommitted'
    BY <1>1, <1>4, <1>5 DEF SchemaInv, CodesThere, SeesCommitted, Opening
  <1>8. VersionMeansComplete'
    BY <1>1, <1>5 DEF SchemaInv, SeesCommitted, VersionMeansComplete
  <1> QED BY <1>3, <1>6, <1>7, <1>8 DEF SchemaInv

(* The steps that add columns, each with the one after it.                 *)
After == [v5 |-> "v6", v6 |-> "v7", v7 |-> "v9", v10 |-> "index"]

(* A step that is not needed finds its columns: the version read has them, *)
(* or the tables were made with all of them.                               *)
LEMMA NotNeeded ==
  ASSUME SchemaInv, NEW step \in DOMAIN ColumnsOf, opener.pc = step, ~Needed(VersionOf[step])
  PROVE  ColumnsOf[step] \subseteq opener.cols \cup refused
  <1>1. opener.version \in 0..SCHEMA_VERSION /\ Opening /\ opener.pc # "create"
    BY StepNames DEF SchemaInv, SchemaTypeOK, Opening
  <1>2. CASE opener.version = 0
    <2>1. opener.cols = Columns
      BY <1>1, <1>2 DEF SchemaInv, ColumnsThere, HasTables
    <2> QED BY <2>1 DEF Columns
  <1>3. CASE opener.version # 0
    <2>1. VersionOf[step] <= opener.version
      BY <1>1, <1>3, StepNames DEF Needed, VersionOf, SCHEMA_VERSION
    <2>2. ColumnsOf[step] \subseteq ColumnsAt(opener.version)
      BY <1>1, <2>1, ColumnsByVersion
    <2> QED BY <1>1, <2>2 DEF SchemaInv, ColumnsThere
  <1> QED BY <1>2, <1>3

LEMMA AddColumnsKeeps ==
  ASSUME SchemaInv, NEW step \in DOMAIN ColumnsOf, NEW skipped \in SUBSET ColumnsOf[step],
         AddColumns(step, After[step], skipped)
  PROVE  SchemaInv'
  <1>1. PICK c \in SUBSET Columns, begun \in BOOLEAN :
          /\ opener' = [opener EXCEPT !.pc = After[step], !.cols = c, !.encoded = opener.encoded,
                                      !.tx = begun]
          /\ \/ UNCHANGED <<cols, encoded>>
             \/ cols' = c /\ encoded' = opener.encoded
          /\ opener.cols \subseteq c /\ c \subseteq opener.cols \cup ColumnsOf[step]
          /\ refused \subseteq refused' /\ refused' \subseteq refused \cup ColumnsOf[step]
          /\ ColumnsOf[step] \subseteq c \cup refused'
    <2>1. CASE Needed(VersionOf[step])
      <3> DEFINE c == opener.cols \cup (ColumnsOf[step] \ skipped)
                 begun == opener.tx \/ step = "v5"
      <3>1. /\ Go(After[step], c, opener.encoded, begun)
            /\ Settle(c, opener.encoded)
            /\ refused' = refused \cup (skipped \ opener.cols)
        BY <2>1 DEF AddColumns
      <3>2. begun \in BOOLEAN /\ c \in SUBSET Columns
        BY DEF SchemaInv, SchemaTypeOK, Columns
      <3>3. /\ opener' = [opener EXCEPT !.pc = After[step], !.cols = c, !.encoded = opener.encoded,
                                        !.tx = begun]
            /\ \/ UNCHANGED <<cols, encoded>>
               \/ cols' = c /\ encoded' = opener.encoded
        BY <3>1 DEF Go, Settle
      <3>4. /\ opener.cols \subseteq c /\ c \subseteq opener.cols \cup ColumnsOf[step]
            /\ refused \subseteq refused' /\ refused' \subseteq refused \cup ColumnsOf[step]
            /\ ColumnsOf[step] \subseteq c \cup refused'
        BY <3>1
      <3> HIDE DEF c, begun
      <3> QED BY <3>2, <3>3, <3>4
    <2>2. CASE ~Needed(VersionOf[step])
      <3>1. /\ Go(After[step], opener.cols, opener.encoded, opener.tx)
            /\ UNCHANGED <<cols, encoded, refused>> /\ opener.pc = step
        BY <2>2 DEF AddColumns
      <3>2. opener.tx \in BOOLEAN /\ opener.cols \in SUBSET Columns
        BY DEF SchemaInv, SchemaTypeOK
      <3>3. ColumnsOf[step] \subseteq opener.cols \cup refused
        BY <2>2, <3>1, NotNeeded
      <3>4. opener' = [opener EXCEPT !.pc = After[step], !.cols = opener.cols,
                                     !.encoded = opener.encoded, !.tx = opener.tx]
        BY <3>1 DEF Go
      <3> QED BY <3>1, <3>2, <3>3, <3>4
    <2> QED BY <2>1, <2>2
  <1>2. /\ opener.pc = step /\ version' = version /\ opener \in OpenerType
        /\ After[step] \in {"v6", "v7", "v9", "index"} /\ ColumnsOf[step] \subseteq Columns
    BY StepNames DEF AddColumns, SchemaInv, SchemaTypeOK, OpenerType, After, Columns
  <1>3. /\ opener'.pc = After[step] /\ opener'.version = opener.version
        /\ opener'.cols = c /\ opener'.encoded = opener.encoded /\ opener' \in OpenerType
    BY <1>1, <1>2 DEF OpenerType
  <1>4. SchemaTypeOK'
    BY <1>1, <1>2, <1>3 DEF SchemaInv, SchemaTypeOK, OpenerType
  <1>5. Opening /\ opener.pc # "create"
    BY <1>2, StepNames DEF Opening
  <1>6. cols \subseteq cols' /\ cols' \subseteq c /\ (encoded => encoded')
        /\ (encoded' => opener.encoded)
    BY <1>1, <1>5 DEF SchemaInv, SeesCommitted
  <1>7. ColumnsThere'
    <2>1. ColumnsAt(version)' \subseteq cols' \cup refused'
      BY <1>1, <1>2, <1>6 DEF SchemaInv, ColumnsThere, ColumnsAt
    <2>2. ColumnsAt(opener.version)' \subseteq opener'.cols \cup refused'
      BY <1>1, <1>3, <1>5 DEF SchemaInv, ColumnsThere, ColumnsAt
    <2>3. ~HasTables(opener.version)' => opener'.cols = Columns
      BY <1>1, <1>2, <1>3, <1>5 DEF SchemaInv, ColumnsThere, HasTables, OpenerType
    <2>4. ASSUME NEW s \in DOMAIN ColumnsOf, After[step] \in Passed(s)
          PROVE  ColumnsOf[s] \subseteq c \cup refused'
      <3>1. s = step \/ step \in Passed(s)
        BY <2>4, StepNames DEF Passed, After
      <3> QED BY <1>1, <1>2, <3>1 DEF SchemaInv, ColumnsThere
    <2> QED BY <1>2, <1>3, <2>1, <2>2, <2>3, <2>4 DEF ColumnsThere, HasTables
  <1>8. CodesThere' /\ SeesCommitted'
    <2>1. After[step] \in {"v10", "index", "stamp"} => opener.encoded
      BY <1>2, StepNames DEF SchemaInv, CodesThere, After
    <2>2. CodesThere'
      BY <1>2, <1>3, <1>5, <1>6, <2>1 DEF SchemaInv, CodesThere
    <2>3. SeesCommitted'
      BY <1>2, <1>3, <1>5, <1>6 DEF SchemaInv, SeesCommitted
    <2> QED BY <2>2, <2>3
  <1>9. VersionMeansComplete'
    BY <1>2, <1>5 DEF SchemaInv, SeesCommitted, VersionMeansComplete
  <1> QED BY <1>4, <1>7, <1>8, <1>9 DEF SchemaInv

LEMMA EncodeKeeps == SchemaInv /\ Encode => SchemaInv'
  <1> SUFFICES ASSUME SchemaInv, Encode PROVE SchemaInv'
    OBVIOUS
  <1>1. PICK e \in BOOLEAN, begun \in BOOLEAN :
          /\ opener' = [opener EXCEPT !.pc = "v10", !.cols = opener.cols, !.encoded = e, !.tx = begun]
          /\ (opener.encoded => e) /\ (e \/ ~Needed(9))
    BY DEF Encode, Go, SchemaInv, SchemaTypeOK
  <1>2. opener.pc = "v9" /\ UNCHANGED <<version, cols, encoded, refused>> /\ opener \in OpenerType
    BY DEF Encode, SchemaInv, SchemaTypeOK, OpenerType
  <1>3. /\ opener'.pc = "v10" /\ opener'.version = opener.version
        /\ opener'.cols = opener.cols /\ opener'.encoded = e /\ opener' \in OpenerType
    BY <1>1, <1>2 DEF OpenerType
  <1>4. e
    <2>1. opener.version \in 0..10 /\ (~Needed(9) => opener.version \notin 4..8)
      BY <1>2 DEF OpenerType, SCHEMA_VERSION, Needed
    <2> QED BY <1>1, <1>2, <2>1 DEF SchemaInv, CodesThere, Opening
  <1>5. SchemaTypeOK'
    BY <1>2, <1>3 DEF SchemaInv, SchemaTypeOK, OpenerType
  <1>6. ColumnsThere'
    BY <1>2, <1>3, StepNames DEF SchemaInv, ColumnsThere, ColumnsAt, HasTables, Passed, Opening
  <1>7. CodesThere' /\ SeesCommitted' /\ VersionMeansComplete'
    BY <1>1, <1>2, <1>3, <1>4
    DEF SchemaInv, CodesThere, SeesCommitted, Opening, VersionMeansComplete
  <1> QED BY <1>5, <1>6, <1>7 DEF SchemaInv

LEMMA CreateIndexesKeeps == SchemaInv /\ CreateIndexes => SchemaInv'
  <1> SUFFICES ASSUME SchemaInv, CreateIndexes PROVE SchemaInv'
    OBVIOUS
  <1>1. /\ opener.pc = "index" /\ Indexed \subseteq opener.cols
        /\ opener' = [opener EXCEPT !.pc = "stamp"] /\ opener \in OpenerType
        /\ UNCHANGED <<version, cols, encoded, refused>>
    BY DEF CreateIndexes, Go, SchemaInv, SchemaTypeOK, OpenerType
  <1>2. /\ opener'.pc = "stamp" /\ opener'.version = opener.version
        /\ opener'.cols = opener.cols /\ opener'.encoded = opener.encoded /\ opener' \in OpenerType
    BY <1>1 DEF OpenerType
  <1>3. SchemaTypeOK'
    BY <1>1, <1>2 DEF SchemaInv, SchemaTypeOK, OpenerType
  <1>4. ColumnsThere'
    BY <1>1, <1>2, StepNames DEF SchemaInv, ColumnsThere, ColumnsAt, HasTables, Passed, Opening
  <1>5. CodesThere' /\ SeesCommitted' /\ VersionMeansComplete'
    BY <1>1, <1>2 DEF SchemaInv, CodesThere, SeesCommitted, Opening, VersionMeansComplete
  <1> QED BY <1>3, <1>4, <1>5 DEF SchemaInv

(* The commit at the end: every step has been passed.                      *)
LEMMA StampKeeps == SchemaInv /\ Stamp => SchemaInv'
  <1> SUFFICES ASSUME SchemaInv, Stamp PROVE SchemaInv'
    OBVIOUS
  <1>1. /\ opener.pc = "stamp" /\ opener'.pc = "closed" /\ refused' = refused
        /\ version' = SCHEMA_VERSION /\ cols' = opener.cols /\ encoded' = opener.encoded
        /\ opener \in OpenerType /\ opener' \in OpenerType
    BY DEF Stamp, Closed, SchemaInv, SchemaTypeOK, OpenerType, SCHEMA_VERSION
  <1>2. SchemaTypeOK'
    BY <1>1 DEF SchemaInv, SchemaTypeOK, OpenerType, SCHEMA_VERSION
  <1>3. encoded' /\ Indexed \subseteq cols'
    BY <1>1 DEF SchemaInv, ColumnsThere, CodesThere
  <1>4. Columns \subseteq cols' \cup refused'
    <2>1. \A step \in DOMAIN ColumnsOf : ColumnsOf[step] \subseteq opener.cols \cup refused
      BY <1>1, StepNames DEF SchemaInv, ColumnsThere, Passed
    <2> QED BY <1>1, <2>1 DEF Columns
  <1>5. ColumnsThere'
    <2>1. ColumnsAt(version') \subseteq Columns
      BY <1>1, ColumnsByVersion DEF SCHEMA_VERSION
    <2>2. ColumnsAt(version)' = ColumnsAt(version')
      BY DEF ColumnsAt
    <2> QED BY <1>1, <1>4, <2>1, <2>2, StepNames DEF ColumnsThere, Passed, Opening
  <1>6. CodesThere' /\ SeesCommitted' /\ VersionMeansComplete'
    BY <1>1, <1>3, <1>4 DEF CodesThere, SeesCommitted, Opening, VersionMeansComplete
  <1> QED BY <1>2, <1>5, <1>6 DEF SchemaInv

LEMMA AbandonKeeps == SchemaInv /\ Abandon => SchemaInv'
  <1> SUFFICES ASSUME SchemaInv, Abandon PROVE SchemaInv'
    OBVIOUS
  <1>1. /\ opener'.pc = "closed" /\ opener' \in OpenerType
        /\ UNCHANGED <<version, cols, encoded, refused>>
    BY DEF Abandon, Closed, OpenerType, SCHEMA_VERSION
  <1>2. SchemaTypeOK'
    BY <1>1 DEF SchemaInv, SchemaTypeOK, OpenerType
  <1>3. ColumnsThere'
    BY <1>1, StepNames DEF SchemaInv, ColumnsThere, ColumnsAt, Passed, Opening
  <1>4. CodesThere' /\ SeesCommitted' /\ VersionMeansComplete'
    BY <1>1 DEF SchemaInv, CodesThere, SeesCommitted, Opening, VersionMeansComplete
  <1> QED BY <1>2, <1>3, <1>4 DEF SchemaInv

LEMMA SchemaStep == SchemaInv /\ SchemaNext => SchemaInv'
  <1> SUFFICES ASSUME SchemaInv, SchemaNext PROVE SchemaInv'
    OBVIOUS
  <1>1. ASSUME NEW m \in SUBSET Columns,
               \/ m \subseteq ColumnsOf["v5"] /\ AddColumns("v5", "v6", m)
               \/ m \subseteq ColumnsOf["v6"] /\ AddColumns("v6", "v7", m)
               \/ m \subseteq ColumnsOf["v7"] /\ AddColumns("v7", "v9", m)
               \/ m \subseteq ColumnsOf["v10"] /\ AddColumns("v10", "index", m)
        PROVE  SchemaInv'
    <2>1. \E step \in DOMAIN ColumnsOf : m \subseteq ColumnsOf[step] /\ AddColumns(step, After[step], m)
      BY <1>1, StepNames DEF After
    <2> QED BY <2>1, AddColumnsKeeps
  <1> QED BY <1>1, OpenFileKeeps, CreateTablesKeeps, EncodeKeeps, CreateIndexesKeeps, StampKeeps,
             AbandonKeeps
      DEF SchemaNext, OpenStep

(* The migration drops the table with the version of a file not yet opened.*)
LEMMA VersionDropped ==
  ASSUME SchemaInv, version' = IF HasTables(version) THEN version ELSE 0,
         UNCHANGED <<cols, encoded, opener, refused>>
  PROVE  SchemaInv'
  <1>1. CASE version' = version
    BY <1>1 DEF SchemaInv, SchemaTypeOK, SeesCommitted, Opening, ColumnsThere, ColumnsAt, CodesThere,
            VersionMeansComplete
  <1>2. CASE version' = 0 /\ ~HasTables(version)
    <2>1. version \in 0..3 /\ version' \in 0..SCHEMA_VERSION
      BY <1>2 DEF HasTables, SchemaInv, SchemaTypeOK, SCHEMA_VERSION
    <2>2. ColumnsAt(version') = {} /\ ColumnsAt(version)' = ColumnsAt(version')
      BY <1>2, <2>1, ColumnsByVersion DEF HasTables, ColumnsAt
    <2>3. version' # SCHEMA_VERSION /\ version \notin 4..8
      BY <1>2, <2>1 DEF SCHEMA_VERSION
    <2>4. SchemaTypeOK'
      BY <2>1 DEF SchemaInv, SchemaTypeOK
    <2>5. ColumnsThere'
      BY <2>2 DEF SchemaInv, ColumnsThere, ColumnsAt, Opening
    <2>6. SeesCommitted' /\ VersionMeansComplete'
      BY <2>3 DEF SchemaInv, SeesCommitted, Opening, VersionMeansComplete
    <2>7. CodesThere'
      BY <2>3 DEF SchemaInv, CodesThere, Opening
    <2> QED BY <2>4, <2>5, <2>6, <2>7 DEF SchemaInv
  <1> QED BY <1>1, <1>2

-----------------------------------------------------------------------------
(* The memories of a v2 file.                                              *)

IsV2(r) == r \in [had : BOOLEAN, memories : BOOLEAN, vectors : BOOLEAN, links : BOOLEAN]
IsRun(r) ==
  r \in [pc : {"idle", "vectors", "memories", "rest", "session", "rows", "links"},
         next : Nat, vectors : BOOLEAN, links : BOOLEAN]

(* t has exactly the fields of NoTables.                                   *)
IsTables(t) ==
  t = [sessions |-> t.sessions, entries |-> t.entries, ents |-> t.ents, mentions |-> t.mentions,
       vecs |-> t.vecs, codes |-> t.codes, blank |-> t.blank, width |-> t.width, dim |-> t.dim]

(* The table memories is there until its DROP and never made again.        *)
DroppedOnce ==
  /\ v2.memories => v2.had
  /\ mig.pc \in {"vectors", "memories"} => v2.memories
  /\ mig.pc \in {"rest", "session", "rows", "links"} => ~v2.memories

(* The rows before the next one have been stored.                          *)
StoredSoFar ==
  /\ mig.pc \in {"vectors", "memories", "rest", "session"} => mig.next = 1
  /\ mig.pc = "rows" => mig.next \in 1..N /\ {<<"mig", i>> : i \in 1..(mig.next - 1)} \subseteq src.entries
  /\ mig.pc = "links" => Migrated \subseteq src.entries

(* Until a run is cut off, the vectors and the links are dropped only by a *)
(* run that holds them in memory.                                          *)
HeldOrThere ==
  ~cut /\ v2.had =>
    /\ mig.pc = "idle" /\ v2.memories => v2.vectors /\ v2.links
    /\ mig.pc # "idle" => mig.vectors /\ mig.links
    /\ mig.pc = "vectors" => v2.vectors /\ v2.links
    /\ src.blank = {}

MemoryInv ==
  /\ IsV2(v2) /\ IsRun(mig) /\ cut \in BOOLEAN /\ IsTables(src)
  /\ DroppedOnce
  /\ StoredSoFar
  /\ HeldOrThere
  /\ MigrationWhole

LEMMA MemoryStart == MigrationInit => MemoryInv
  <1> SUFFICES ASSUME MigrationInit PROVE MemoryInv
    OBVIOUS
  <1>1. PICK old \in BOOLEAN : v2 = [had |-> old, memories |-> old, vectors |-> old, links |-> old]
    BY DEF MigrationInit
  <1>2. /\ mig.pc = "idle" /\ IsRun(mig) /\ cut = FALSE
    BY DEF MigrationInit, Idle, IsRun
  <1>3. IsTables(src) /\ src.entries = {} /\ src.blank = {}
    BY DEF MigrationInit, NoTables, IsTables
  <1> QED BY <1>1, <1>2, <1>3
      DEF MemoryInv, IsV2, DroppedOnce, StoredSoFar, HeldOrThere, MigrationWhole

(* What other processes and a compaction do to the file: entries and       *)
(* mentions are only added, none of them the migration's.                  *)
Outside ==
  /\ UNCHANGED <<v2, mig, cut>>
  /\ IsTables(src')
  /\ src'.blank = src.blank
  /\ src.mentions \subseteq src'.mentions
  /\ src.entries \subseteq src'.entries
  /\ src'.entries \cap Migrated = src.entries \cap Migrated

LEMMA OutsideKeeps == MemoryInv /\ Outside => MemoryInv'
  <1> SUFFICES ASSUME MemoryInv, Outside PROVE MemoryInv'
    OBVIOUS
  <1>1. IsV2(v2)' /\ IsRun(mig)' /\ cut' \in BOOLEAN /\ IsTables(src)'
    BY DEF MemoryInv, Outside, IsV2, IsRun, IsTables
  <1>2. DroppedOnce' /\ StoredSoFar' /\ HeldOrThere'
    BY DEF MemoryInv, Outside, DroppedOnce, StoredSoFar, HeldOrThere, Migrated
  <1>3. MigrationWhole'
    BY DEF MemoryInv, Outside, MigrationWhole, Migrated
  <1> QED BY <1>1, <1>2, <1>3 DEF MemoryInv

LEMMA OthersOutside ==
  ASSUME MemoryInv,
         \/ OtherOpens \/ OtherStores \/ OtherLinks \/ CompactNext \/ Upgrade
  PROVE  Outside
  <1>1. IsTables(src)
    BY DEF MemoryInv
  <1>2. CASE OtherOpens
    BY <1>1, <1>2 DEF OtherOpens, Outside, IsTables
  <1>3. CASE OtherStores
    <2>1. PICK e : e \notin Migrated /\ src' = [src EXCEPT !.entries = @ \cup {e}, !.vecs = @ \cup {e}, !.codes = @ \cup {e}]
      BY <1>3 DEF OtherStores, Migrated
    <2> QED BY <1>1, <1>3, <2>1 DEF OtherStores, Outside, IsTables
  <1>4. CASE OtherLinks
    <2>1. CASE src' = [src EXCEPT !.ents = @ \cup {"x"}]
      BY <1>1, <1>4, <2>1 DEF OtherLinks, Outside, IsTables
    <2>2. ASSUME NEW e \in Written, src' = [src EXCEPT !.mentions = @ \cup {<<"x", e>>}] PROVE Outside
      BY <1>1, <1>4, <2>2 DEF OtherLinks, Outside, IsTables
    <2> QED BY <1>4, <2>1, <2>2 DEF OtherLinks
  <1>5. CASE CompactNext
    <2>1. CASE CompactRead \/ CompactCut
      BY <1>1, <2>1 DEF CompactRead, CompactCut, CompactStep, source, Outside
    <2>2. CASE CompactDrop
      BY <1>1, <2>2 DEF CompactDrop, CompactStep, Outside, IsTables
    <2>3. CASE CompactFill
      BY <1>1, <2>3 DEF CompactFill, CompactStep, Outside, IsTables
    <2>4. CASE CompactDropCodes \/ CompactEncode
      BY <1>1, <2>4 DEF CompactDropCodes, CompactEncode, CompactStep, Outside, IsTables
    <2> QED BY <1>5, <2>1, <2>2, <2>3, <2>4 DEF CompactNext
  <1>6. CASE Upgrade
    BY <1>1, <1>6 DEF Upgrade, Outside
  <1> QED BY <1>2, <1>3, <1>4, <1>5, <1>6

LEMMA ReadKeeps == MemoryInv /\ ReadV2 => MemoryInv'
  <1> SUFFICES ASSUME MemoryInv, ReadV2 PROVE MemoryInv'
    OBVIOUS
  <1>1. /\ mig'.pc = "vectors" /\ mig'.next = 1 /\ mig'.vectors = v2.vectors /\ mig'.links = v2.links /\ IsRun(mig')
        /\ mig.pc = "idle" /\ v2.memories /\ UNCHANGED <<v2, cut, src>>
    BY DEF ReadV2, MemoryInv, IsV2, IsRun
  <1> QED BY <1>1
      DEF MemoryInv, IsV2, IsRun, IsTables, DroppedOnce, StoredSoFar, HeldOrThere, MigrationWhole

LEMMA DropKeeps ==
  ASSUME MemoryInv, DropVectors \/ DropMemories \/ DropRest
  PROVE  MemoryInv'
  <1>1. /\ cut' = cut /\ src' = src /\ IsV2(v2') /\ IsRun(mig')
        /\ v2'.had = v2.had /\ mig'.next = mig.next /\ mig'.vectors = mig.vectors /\ mig'.links = mig.links
        /\ \/ mig.pc = "vectors" /\ mig'.pc = "memories" /\ v2'.memories = v2.memories
           \/ mig.pc = "memories" /\ mig'.pc = "rest" /\ ~v2'.memories
           \/ mig.pc = "rest" /\ mig'.pc = "session" /\ v2'.memories = v2.memories
    BY DEF DropVectors, DropMemories, DropRest, Step, MemoryInv, IsV2, IsRun
  <1> QED BY <1>1
      DEF MemoryInv, IsTables, DroppedOnce, StoredSoFar, HeldOrThere, MigrationWhole

LEMMA SessionKeeps == MemoryInv /\ StoreSession => MemoryInv'
  <1> SUFFICES ASSUME MemoryInv, StoreSession PROVE MemoryInv'
    OBVIOUS
  <1>1. /\ mig.pc = "session" /\ mig'.pc = "rows" /\ mig'.next = mig.next
        /\ mig'.vectors = mig.vectors /\ mig'.links = mig.links /\ IsRun(mig')
        /\ UNCHANGED <<v2, cut>> /\ IsTables(src')
        /\ src'.entries = src.entries /\ src'.blank = src.blank /\ src'.mentions = src.mentions
    BY DEF StoreSession, Step, MemoryInv, IsRun, IsTables
  <1>2. StoredSoFar'
    BY <1>1, MigrationConstants DEF MemoryInv, StoredSoFar
  <1> QED BY <1>1, <1>2 DEF MemoryInv, IsV2, DroppedOnce, HeldOrThere, MigrationWhole

LEMMA RowKeeps == MemoryInv /\ StoreRow => MemoryInv'
  <1> SUFFICES ASSUME MemoryInv, StoreRow PROVE MemoryInv'
    OBVIOUS
  <1>1. /\ mig.pc = "rows" /\ mig.next \in 1..N /\ ~v2.memories /\ UNCHANGED <<v2, cut>>
    BY DEF StoreRow, MemoryInv, StoredSoFar, DroppedOnce
  <1>2. /\ mig'.next = mig.next + 1 /\ mig'.pc = IF mig.next = N THEN "links" ELSE "rows"
        /\ mig'.vectors = mig.vectors /\ mig'.links = mig.links /\ IsRun(mig')
    <2> DEFINE pc == IF mig.next = N THEN "links" ELSE "rows"
    <2>1. mig' = [mig EXCEPT !.next = @ + 1, !.pc = pc] /\ pc \in {"links", "rows"}
      BY DEF StoreRow
    <2>2. IsRun(mig) /\ mig.next + 1 \in Nat
      BY DEF MemoryInv, IsRun
    <2> HIDE DEF pc
    <2>3. IsRun(mig') /\ mig'.next = mig.next + 1 /\ mig'.pc = pc
          /\ mig'.vectors = mig.vectors /\ mig'.links = mig.links
      BY <2>1, <2>2 DEF IsRun
    <2> QED BY <2>3 DEF pc
  <1>3. /\ src'.entries = src.entries \cup {<<"mig", mig.next>>} /\ IsTables(src')
        /\ src'.mentions = src.mentions
        /\ mig.vectors => src'.blank = src.blank
    BY DEF StoreRow, MemoryInv, IsTables
  <1>4. StoredSoFar'
    <2>1. \A i \in 1..mig.next : <<"mig", i>> \in src'.entries
      <3> SUFFICES ASSUME NEW i \in 1..mig.next PROVE <<"mig", i>> \in src'.entries
        OBVIOUS
      <3>1. i = mig.next \/ i \in 1..(mig.next - 1)
        BY <1>1, MigrationConstants
      <3> QED BY <1>1, <1>3, <3>1 DEF MemoryInv, StoredSoFar
    <2>2. CASE mig.next = N
      BY <1>2, <2>1, <2>2 DEF StoredSoFar, Migrated
    <2>3. CASE mig.next # N
      <3>1. mig'.next \in 1..N /\ 1..(mig'.next - 1) = 1..mig.next
        BY <1>1, <1>2, <2>3, MigrationConstants
      <3> QED BY <1>2, <2>1, <2>3, <3>1 DEF StoredSoFar
    <2> QED BY <2>2, <2>3
  <1>5. HeldOrThere'
    BY <1>1, <1>2, <1>3 DEF MemoryInv, HeldOrThere
  <1> QED BY <1>1, <1>2, <1>3, <1>4, <1>5 DEF MemoryInv, DroppedOnce, MigrationWhole

(* The last transaction: nothing of a run that was not cut off is missing. *)
LEMMA LinksKeep == MemoryInv /\ LinkAndEncode => MemoryInv'
  <1> SUFFICES ASSUME MemoryInv, LinkAndEncode PROVE MemoryInv'
    OBVIOUS
  <1>1. /\ mig.pc = "links" /\ mig'.pc = "idle" /\ IsRun(mig') /\ UNCHANGED <<v2, cut>>
        /\ ~v2.memories
    BY DEF LinkAndEncode, MemoryInv, Idle, IsRun, DroppedOnce
  <1>2. /\ IsTables(src') /\ src'.entries = src.entries /\ src'.blank = src.blank
        /\ mig.links => \A i \in Links : <<"x", <<"mig", i>>>> \in src'.mentions
    BY DEF LinkAndEncode, MemoryInv, IsTables
  <1>3. Migrated \subseteq src'.entries
    BY <1>1, <1>2 DEF MemoryInv, StoredSoFar
  <1>4. MigrationWhole'
    BY <1>1, <1>2, <1>3 DEF MemoryInv, HeldOrThere, MigrationWhole
  <1> QED BY <1>1, <1>2, <1>4 DEF MemoryInv, IsV2, DroppedOnce, StoredSoFar, HeldOrThere

LEMMA CutKeeps == MemoryInv /\ CutOff => MemoryInv'
  <1> SUFFICES ASSUME MemoryInv, CutOff PROVE MemoryInv'
    OBVIOUS
  <1>1. /\ mig.pc # "idle" /\ mig'.pc = "idle" /\ IsRun(mig') /\ UNCHANGED <<v2, src>>
        /\ cut' = (cut \/ mig.pc # "vectors")
    BY DEF CutOff, Idle, IsRun
  <1>2. cut' \in BOOLEAN /\ (~cut' => ~cut /\ mig.pc = "vectors")
    BY <1>1
  <1> QED BY <1>1, <1>2
      DEF MemoryInv, IsV2, IsTables, DroppedOnce, StoredSoFar, HeldOrThere, MigrationWhole

-----------------------------------------------------------------------------
FileInv == SchemaInv /\ MemoryInv

LEMMA MigrationKeeps == FileInv /\ MigrationNext => FileInv'
  <1> SUFFICES ASSUME FileInv, MigrationNext PROVE FileInv'
    OBVIOUS
  <1>1. CASE Upgrade
    BY <1>1, SchemaStep, OthersOutside, OutsideKeeps DEF FileInv, Upgrade
  <1>2. CASE MigrationStep
    <2>1. MemoryInv'
      BY <1>2, ReadKeeps, DropKeeps, SessionKeeps, RowKeeps, LinksKeep, CutKeeps
      DEF FileInv, MigrationStep
    <2>2. CASE DropRest
      BY <2>1, <2>2, VersionDropped DEF FileInv, DropRest
    <2>3. CASE ~DropRest
      <3>1. UNCHANGED svars
        BY <1>2, <2>3 DEF MigrationStep, ReadV2, DropVectors, DropMemories, StoreSession, StoreRow,
               LinkAndEncode, CutOff
      <3> QED BY <2>1, <3>1 DEF FileInv, SchemaInv, SchemaTypeOK, SeesCommitted, Opening, ColumnsThere,
                 ColumnsAt, CodesThere, VersionMeansComplete, svars
    <2> QED BY <2>2, <2>3
  <1> QED BY <1>1, <1>2 DEF MigrationNext

LEMMA FileStep == FileInv /\ [FileNext]_fvars => FileInv'
  <1> SUFFICES ASSUME FileInv, [FileNext]_fvars PROVE FileInv'
    OBVIOUS
  <1>1. CASE MigrationNext
    BY <1>1, MigrationKeeps
  <1>2. ASSUME UNCHANGED svars, MemoryInv' PROVE FileInv'
    BY <1>2 DEF FileInv, SchemaInv, SchemaTypeOK, SeesCommitted, Opening, ColumnsThere, ColumnsAt,
           CodesThere, VersionMeansComplete, svars
  <1>3. CASE OtherOpens \/ OtherStores \/ OtherLinks \/ CompactNext
    <2>1. UNCHANGED svars
      BY <1>3 DEF OtherOpens, OtherStores, OtherLinks, CompactNext, CompactRead, CompactDrop, CompactFill,
             CompactDropCodes, CompactEncode, CompactCut, CompactStep, source
    <2> QED BY <1>2, <1>3, <2>1, OthersOutside, OutsideKeeps DEF FileInv
  <1>4. CASE UNCHANGED source
    BY <1>2, <1>4 DEF source, FileInv, MemoryInv, IsV2, IsRun, IsTables, DroppedOnce, StoredSoFar,
       HeldOrThere, MigrationWhole
  <1>5. CASE ExportNext
    BY <1>4, <1>5 DEF ExportNext, ExportSessions, ExportEntries, ExportEnts, ExportMentions, ExportVecs,
       ExportWrite, ExportStep
  <1>6. CASE ImportNext
    BY <1>4, <1>6 DEF ImportNext, ImportCheck, ImportBody, ImportAgain, LocalStores, LocalLinks,
       LocalCommits, Closes
  <1> QED BY <1>1, <1>3, <1>4, <1>5, <1>6 DEF FileNext, fvars

LEMMA FileStart == FileInit => FileInv
  BY SchemaStart, MemoryStart DEF FileInit, MigrationInit, FileInv

(* A file that says version 10 is complete, whatever version it had,       *)
(* wherever its upgrades were cut off and whatever met the lock.           *)
THEOREM UpgradeTheorem == FileSpec => []VersionMeansComplete
  <1>1. FileInv => VersionMeansComplete
    BY DEF FileInv, SchemaInv
  <1> QED BY <1>1, FileStart, FileStep, PTL DEF FileSpec

(* However many memories a v2 file has and whoever else writes to it, the  *)
(* migration stores none of them twice, and loses something only when it   *)
(* is cut off between its first DROP and its last commit.                  *)
THEOREM MigrationTheorem == FileSpec => []MigrationWhole
  <1>1. FileInv => MigrationWhole
    BY DEF FileInv, MemoryInv
  <1> QED BY <1>1, FileStart, FileStep, PTL DEF FileSpec

-----------------------------------------------------------------------------
(* The rows of the source file.                                            *)

Rows == ({"mig"} \X (1..N)) \cup ({"w"} \X (1..MaxStored))

(* A session is numbered without a gap.                                    *)
Unbroken(entries) == \A e \in entries : \A i \in 1..e[2] : <<e[1], i>> \in entries

(* Nothing is stored before its session, and nothing linked before both    *)
(* ends of the link are there.                                             *)
SourceRows ==
  /\ src.sessions \subseteq {"mig", "w"} /\ src.entries \subseteq Rows /\ src.ents \subseteq {"x"}
  /\ Unbroken(src.entries)
  /\ \A e \in src.entries : e[1] \in src.sessions
  /\ \E k \in 0..MaxStored : Written = {<<"w", i>> : i \in 1..k}
  /\ src.mentions \subseteq src.ents \X src.entries
  /\ mig.pc # "idle" => v2.had
  /\ v2.had => "x" \in src.ents
  /\ mig.pc \in {"rows", "links"} => "mig" \in src.sessions

(* A table that is narrower than the metadata says is empty.               *)
EmptyIfNarrow == src.dim = "wide" => src.width = "wide" \/ src.vecs = {}

(* Where the vectors and the codes are in each phase of a compaction: in   *)
(* the table, or in the memory of the process that has dropped it.         *)
CompactInv ==
  /\ comp = [pc |-> comp.pc, rows |-> comp.rows]
  /\ comp.pc # "idle" => mig.pc = "idle" /\ ~v2.memories
  /\ ~torn =>
       /\ comp.pc # "fill" => src.width = src.dim /\ src.entries \ src.vecs \subseteq unseen
       /\ comp.pc \in {"drop", "fill"} => src.entries \ comp.rows \subseteq unseen
       /\ comp.pc = "fill" => src.width = "narrow"
       /\ comp.pc \in {"idle", "drop"} /\ mig.pc \in {"idle", "vectors"} /\ ~cut => src.vecs \subseteq src.codes

SourceInv == SourceRows /\ EmptyIfNarrow /\ CompactInv

LEMMA CountFrom1 ==
  ASSUME NEW k \in Nat, NEW c
  PROVE  Cardinality({<<c, i>> : i \in 1..k}) = k
  <1> DEFINE f == [i \in 1..k |-> <<c, i>>]
             S == {<<c, i>> : i \in 1..k}
  <1>1. f \in Bijection(1..k, S)
    BY DEF Bijection, Injection, Surjection, IsInjective
  <1> HIDE DEF f, S
  <1>2. ExistsBijection(1..k, S)
    BY <1>1 DEF ExistsBijection
  <1>3. Cardinality(S) = k
    BY <1>2, FS_CountingElements
  <1> QED BY <1>3 DEF S

LEMMA SourceStart == FileInit => SourceInv
  <1> SUFFICES ASSUME FileInit PROVE SourceInv
    OBVIOUS
  <1>1. /\ mig.pc = "idle" /\ comp = NoComp /\ torn = FALSE
        /\ src = [NoTables EXCEPT !.ents = IF v2.had THEN {"x"} ELSE {}]
    BY DEF FileInit, MigrationInit, Idle
  <1>2. /\ src.sessions = {} /\ src.entries = {} /\ src.mentions = {} /\ src.vecs = {} /\ src.codes = {}
        /\ src.width = "wide" /\ src.dim = "wide" /\ src.ents \subseteq {"x"} /\ (v2.had => src.ents = {"x"})
    BY <1>1 DEF NoTables
  <1>3. Written = {<<"w", i>> : i \in 1..0} /\ 0 \in 0..MaxStored
    BY <1>2, StoreFileConstants DEF Written
  <1>4. SourceRows
    BY <1>1, <1>2, <1>3 DEF SourceRows, Unbroken
  <1> QED BY <1>1, <1>2, <1>4 DEF SourceInv, EmptyIfNarrow, CompactInv, NoComp

(* Rows, links and sessions stay as they are.                              *)
LEMMA RowsStay ==
  ASSUME SourceRows, UNCHANGED <<src.sessions, src.entries, src.ents, src.mentions, v2.had>>,
         mig'.pc # "idle" => v2.had,
         mig'.pc \in {"rows", "links"} => mig.pc \in {"rows", "links"}
  PROVE  SourceRows'
  <1>1. Written' = Written
    BY DEF Written
  <1> QED BY <1>1 DEF SourceRows, Unbroken

(* Steps that leave the tables of the file alone.                          *)
LEMMA TablesStay ==
  ASSUME FileInv, SourceInv, UNCHANGED <<src, comp, torn, v2.had>>, v2'.memories => v2.memories,
         unseen \subseteq unseen', cut => cut',
         \/ UNCHANGED <<mig, cut>>
         \/ mig.pc = "idle" /\ v2.memories /\ mig'.pc = "vectors"
         \/ mig.pc = "vectors" /\ mig'.pc = "memories"
         \/ mig.pc \notin {"idle", "vectors"} /\ mig'.pc \in {"rest", "session"}
         \/ mig.pc = "vectors" /\ mig'.pc = "idle"
         \/ mig.pc # "idle" /\ mig'.pc = "idle" /\ cut'
  PROVE  SourceInv'
  <1>1. comp.pc # "idle" => UNCHANGED <<mig, cut>>
    BY DEF SourceInv, CompactInv
  <1>2. v2.memories => v2.had
    BY DEF FileInv, MemoryInv, DroppedOnce
  <1>3. SourceRows'
    BY <1>2, RowsStay DEF SourceInv, SourceRows
  <1>4. CompactInv'
    BY <1>1 DEF SourceInv, CompactInv
  <1> QED BY <1>3, <1>4 DEF SourceInv, EmptyIfNarrow

LEMMA SourceMigrates ==
  ASSUME FileInv, SourceInv, MigrationNext, UNCHANGED <<comp, torn>>, Watch
  PROVE  SourceInv'
  <1>1. IsTables(src) /\ IsV2(v2) /\ IsRun(mig)
    BY DEF FileInv, MemoryInv
  <1>2. unseen' = IF comp.pc = "drop" THEN unseen \cup (src'.entries \ src.entries) ELSE unseen
    BY DEF Watch
  <1>3. CASE Upgrade
    BY <1>2, <1>3, TablesStay DEF Upgrade
  <1>4. CASE ReadV2
    BY <1>2, <1>4, TablesStay DEF ReadV2
  <1>5. CASE DropVectors \/ DropMemories \/ DropRest
    <2>1. /\ UNCHANGED <<src, cut>> /\ v2'.had = v2.had /\ (v2'.memories => v2.memories)
          /\ \/ mig.pc = "vectors" /\ mig'.pc = "memories"
             \/ mig.pc \notin {"idle", "vectors"} /\ mig'.pc \in {"rest", "session"}
      BY <1>1, <1>5 DEF DropVectors, DropMemories, DropRest, Step, IsV2, IsRun
    <2> QED BY <1>2, <2>1, TablesStay
  <1>6. CASE CutOff
    BY <1>1, <1>2, <1>6, TablesStay DEF CutOff, Idle
  <1>7. CASE StoreSession \/ StoreRow \/ LinkAndEncode
    <2>1. /\ mig.pc \in {"session", "rows", "links"} /\ comp.pc = "idle" /\ UNCHANGED <<v2, cut>> /\ v2.had
          /\ unseen' = unseen
      BY <1>2, <1>7 DEF StoreSession, StoreRow, LinkAndEncode, SourceInv, SourceRows, CompactInv
    <2>2. CASE StoreSession
      <3>1. /\ mig'.pc = "rows" /\ src'.sessions = src.sessions \cup {"mig"}
            /\ UNCHANGED <<src.entries, src.ents, src.mentions, src.vecs, src.codes, src.width, src.dim>>
        BY <1>1, <2>2 DEF StoreSession, Step, IsRun, IsTables
      <3>2. Written' = Written
        BY <3>1 DEF Written
      <3> QED BY <2>1, <3>1, <3>2
          DEF SourceInv, SourceRows, Unbroken, EmptyIfNarrow, CompactInv
    <2>3. CASE StoreRow
      <3> DEFINE e == <<"mig", mig.next>>
      <3>1. /\ mig.pc = "rows" /\ mig'.pc \in {"rows", "links"}
            /\ src'.entries = src.entries \cup {e} /\ src'.vecs = src.vecs \cup {e} /\ src.width = "wide"
            /\ UNCHANGED <<src.sessions, src.ents, src.mentions, src.codes, src.width, src.dim>>
        BY <1>1, <2>3 DEF StoreRow, IsRun, IsTables
      <3>2. mig.next \in 1..N /\ e[1] = "mig" /\ e[2] = mig.next /\ e \in Rows
        BY <3>1 DEF FileInv, MemoryInv, StoredSoFar, Rows
      <3>3. \A i \in 1..mig.next : <<"mig", i>> \in src'.entries
        <4> SUFFICES ASSUME NEW i \in 1..mig.next PROVE <<"mig", i>> \in src'.entries
          OBVIOUS
        <4>1. i = mig.next \/ i \in 1..(mig.next - 1)
          BY <3>2, MigrationConstants
        <4> QED BY <3>1, <4>1 DEF FileInv, MemoryInv, StoredSoFar
      <3>4. Written' = Written
        BY <3>1, <3>2 DEF Written
      <3> HIDE DEF e
      <3>5. Unbroken(src.entries)'
        BY <3>1, <3>2, <3>3 DEF SourceInv, SourceRows, Unbroken
      <3>6. SourceRows'
        BY <2>1, <3>1, <3>2, <3>4, <3>5 DEF SourceInv, SourceRows
      <3> QED BY <2>1, <3>1, <3>6 DEF SourceInv, EmptyIfNarrow, CompactInv
    <2>4. CASE LinkAndEncode
      <3> DEFINE new == {<<"x", <<"mig", i>>>> : i \in Links}
      <3>1. /\ mig.pc = "links" /\ mig'.pc = "idle" /\ src'.codes = src.vecs
            /\ src'.mentions \subseteq src.mentions \cup new
            /\ UNCHANGED <<src.sessions, src.entries, src.ents, src.vecs, src.width, src.dim>>
        BY <1>1, <2>4 DEF LinkAndEncode, Idle, IsTables
      <3>2. new \subseteq src.ents \X src.entries
        BY <2>1, <3>1, MigrationConstants
        DEF FileInv, MemoryInv, StoredSoFar, Migrated, SourceInv, SourceRows
      <3> HIDE DEF new
      <3>3. Written' = Written
        BY <3>1 DEF Written
      <3>4. SourceRows'
        BY <2>1, <3>1, <3>2, <3>3 DEF SourceInv, SourceRows, Unbroken
      <3> QED BY <2>1, <3>1, <3>4 DEF SourceInv, EmptyIfNarrow, CompactInv
    <2> QED BY <1>7, <2>2, <2>3, <2>4
  <1> QED BY <1>3, <1>4, <1>5, <1>6, <1>7 DEF MigrationNext, MigrationStep

(* The other process: its rows are numbered by their count.                *)
LEMMA SourceWritten ==
  ASSUME FileInv, SourceInv, OtherOpens \/ OtherStores \/ OtherLinks, Watch
  PROVE  SourceInv'
  <1>1. IsTables(src) /\ UNCHANGED <<v2, mig, cut, comp, torn>>
    BY DEF FileInv, MemoryInv, OtherOpens, OtherStores, OtherLinks
  <1>2. unseen' = IF comp.pc = "drop" THEN unseen \cup (src'.entries \ src.entries) ELSE unseen
    BY DEF Watch
  <1>3. CASE OtherOpens
    <2>1. /\ src'.sessions = src.sessions \cup {"w"}
          /\ UNCHANGED <<src.entries, src.ents, src.mentions, src.vecs, src.codes, src.width, src.dim>>
      BY <1>1, <1>3 DEF OtherOpens, IsTables
    <2>2. Written' = Written
      BY <2>1 DEF Written
    <2>3. SourceRows'
      BY <1>1, <2>1, <2>2 DEF SourceInv, SourceRows, Unbroken
    <2> QED BY <1>1, <1>2, <2>1, <2>3 DEF SourceInv, EmptyIfNarrow, CompactInv
  <1>4. CASE OtherStores
    <2> DEFINE e == <<"w", Cardinality(Written) + 1>>
    <2>1. PICK k \in 0..MaxStored : Written = {<<"w", i>> : i \in 1..k}
      BY DEF SourceInv, SourceRows
    <2>2. k \in Nat /\ MaxStored \in Nat /\ Cardinality(Written) = k
      <3>1. k \in Nat /\ MaxStored \in Nat
        BY StoreFileConstants
      <3>2. Cardinality({<<"w", i>> : i \in 1..k}) = k
        BY <3>1, CountFrom1
      <3> QED BY <2>1, <3>1, <3>2
    <2>3. /\ e = <<"w", k + 1>> /\ k + 1 \in 1..MaxStored /\ "w" \in src.sessions /\ src.width = "wide"
          /\ src'.entries = src.entries \cup {e} /\ src'.vecs = src.vecs \cup {e} /\ src'.codes = src.codes \cup {e}
          /\ UNCHANGED <<src.sessions, src.ents, src.mentions, src.width, src.dim>>
      BY <1>1, <1>4, <2>2 DEF OtherStores, IsTables
    <2>4. e \in Rows /\ e[1] = "w" /\ e[2] = k + 1
      BY <2>3 DEF Rows
    <2>5. Written' = {<<"w", i>> : i \in 1..(k + 1)}
      <3>1. Written' = Written \cup {e}
        BY <2>3, <2>4 DEF Written
      <3>2. 1..(k + 1) = (1..k) \cup {k + 1}
        BY <2>2
      <3> HIDE DEF e
      <3>3. {<<"w", i>> : i \in (1..k) \cup {k + 1}} = {<<"w", i>> : i \in 1..k} \cup {e}
        BY <2>3
      <3> QED BY <2>1, <3>1, <3>2, <3>3
    <2>6. \A i \in 1..(k + 1) : <<"w", i>> \in src'.entries
      BY <2>5 DEF Written
    <2>7. k + 1 \in 0..MaxStored
      BY <2>2, <2>3
    <2> HIDE DEF e
    <2>8. Unbroken(src.entries)'
      <3>1. \A i \in 1..e[2] : <<e[1], i>> \in src'.entries
        BY <2>4, <2>6
      <3> QED BY <2>3, <3>1 DEF SourceInv, SourceRows, Unbroken
    <2>9. SourceRows'
      BY <1>1, <2>3, <2>4, <2>5, <2>7, <2>8 DEF SourceInv, SourceRows
    <2>10. CompactInv'
      BY <1>1, <1>2, <2>3 DEF SourceInv, CompactInv
    <2> QED BY <1>1, <2>3, <2>9, <2>10 DEF SourceInv, EmptyIfNarrow
  <1>5. CASE OtherLinks
    <2>1. /\ src.ents \subseteq src'.ents /\ src'.ents \subseteq {"x"}
          /\ src'.mentions \subseteq src'.ents \X src.entries
          /\ UNCHANGED <<src.sessions, src.entries, src.vecs, src.codes, src.width, src.dim>>
      <3>1. CASE src' = [src EXCEPT !.ents = @ \cup {"x"}]
        BY <1>1, <3>1 DEF IsTables, SourceInv, SourceRows
      <3>2. ASSUME "x" \in src.ents, NEW e \in Written, src' = [src EXCEPT !.mentions = @ \cup {<<"x", e>>}]
            PROVE  <2>1
        BY <1>1, <3>2 DEF IsTables, SourceInv, SourceRows, Written
      <3> QED BY <1>5, <3>1, <3>2 DEF OtherLinks
    <2>2. Written' = Written
      BY <2>1 DEF Written
    <2>3. SourceRows'
      BY <1>1, <2>1, <2>2 DEF SourceInv, SourceRows, Unbroken
    <2> QED BY <1>1, <1>2, <2>1, <2>3 DEF SourceInv, EmptyIfNarrow, CompactInv
  <1> QED BY <1>3, <1>4, <1>5

(* The compaction: between its DROP and its INSERTs only its own memory    *)
(* has the vectors.                                                        *)
LEMMA SourceCompacts ==
  ASSUME FileInv, SourceInv, CompactNext, Watch
  PROVE  SourceInv'
  <1>1. IsTables(src) /\ UNCHANGED <<v2, mig, cut>>
    BY DEF FileInv, MemoryInv, CompactNext, CompactRead, CompactDrop, CompactFill, CompactDropCodes,
           CompactEncode, CompactCut, CompactStep, source
  <1>2. unseen' = IF comp.pc = "drop" THEN unseen \cup (src'.entries \ src.entries) ELSE unseen
    BY DEF Watch
  <1>3. UNCHANGED <<src.sessions, src.entries, src.ents, src.mentions>>
    BY <1>1 DEF IsTables, CompactNext, CompactRead, CompactDrop, CompactFill, CompactDropCodes,
                CompactEncode, CompactCut, CompactStep, source
  <1>4. SourceRows'
    BY <1>1, <1>3, RowsStay DEF SourceInv, SourceRows
  <1>5. /\ EmptyIfNarrow /\ CompactInv /\ unseen \subseteq unseen'
    BY <1>2 DEF SourceInv
  <1>6. EmptyIfNarrow' /\ CompactInv'
    <2>1. CASE CompactRead
      BY <1>1, <1>5, <2>1 DEF CompactRead, CompactStep, Settled, EmptyIfNarrow, CompactInv
    <2>2. CASE CompactDrop
      <3>1. /\ comp.pc = "drop" /\ comp' = [pc |-> "fill", rows |-> comp.rows] /\ torn' = torn
            /\ src'.vecs = {} /\ src'.width = "narrow" /\ UNCHANGED <<src.dim, src.codes>>
        BY <1>1, <2>2 DEF CompactDrop, CompactStep, IsTables
      <3> QED BY <1>1, <1>3, <1>5, <3>1 DEF EmptyIfNarrow, CompactInv
    <2>3. CASE CompactFill
      <3>1. /\ comp.pc = "fill" /\ comp' = [pc |-> "dropCodes", rows |-> {}] /\ torn' = torn
            /\ src'.vecs = comp.rows /\ src'.dim = "narrow" /\ UNCHANGED <<src.width, src.codes>>
        BY <1>1, <2>3 DEF CompactFill, CompactStep, IsTables
      <3> QED BY <1>1, <1>3, <1>5, <3>1 DEF EmptyIfNarrow, CompactInv
    <2>4. CASE CompactDropCodes \/ CompactEncode
      <3>1. /\ torn' = torn /\ comp' = [pc |-> comp'.pc, rows |-> comp'.rows]
            /\ \/ comp.pc = "dropCodes" /\ comp'.pc = "encode"
               \/ comp.pc = "encode" /\ comp'.pc = "idle" /\ src'.codes = src.vecs
            /\ UNCHANGED <<src.vecs, src.width, src.dim>>
        BY <1>1, <2>4 DEF CompactDropCodes, CompactEncode, CompactStep, IsTables
      <3> QED BY <1>1, <1>3, <1>5, <3>1 DEF EmptyIfNarrow, CompactInv
    <2>5. CASE CompactCut
      <3>1. /\ src' = src /\ comp' = [pc |-> "idle", rows |-> {}] /\ torn' = (torn \/ comp.pc # "drop")
            /\ comp.pc # "idle"
        BY <2>5 DEF CompactCut, NoComp, source
      <3>2. ~torn' => ~torn /\ comp.pc = "drop"
        BY <3>1
      <3> QED BY <1>1, <1>3, <1>5, <3>1, <3>2 DEF EmptyIfNarrow, CompactInv
    <2> QED BY <2>1, <2>2, <2>3, <2>4, <2>5 DEF CompactNext
  <1> QED BY <1>4, <1>6 DEF SourceInv

LEMMA SourceStep == FileInv /\ SourceInv /\ [FileNext]_fvars => SourceInv'
  <1> SUFFICES ASSUME FileInv, SourceInv, [FileNext]_fvars PROVE SourceInv'
    OBVIOUS
  <1>1. CASE Watch /\ (\/ MigrationNext /\ UNCHANGED <<comp, torn>>
                       \/ OtherOpens \/ OtherStores \/ OtherLinks \/ CompactNext)
    BY <1>1, SourceMigrates, SourceWritten, SourceCompacts
  <1>2. CASE UNCHANGED <<source, comp, torn, unseen>>
    BY <1>2 DEF source, SourceInv, SourceRows, Written, Unbroken, EmptyIfNarrow, CompactInv
  <1>3. CASE ExportNext
    BY <1>2, <1>3 DEF ExportNext, ExportSessions, ExportEntries, ExportEnts, ExportMentions, ExportVecs,
       ExportWrite, ExportStep
  <1>4. CASE ImportNext
    BY <1>2, <1>4 DEF ImportNext, ImportCheck, ImportBody, ImportAgain, LocalStores, LocalLinks,
       LocalCommits, Closes
  <1>5. CASE UNCHANGED fvars
    BY <1>2, <1>5 DEF fvars
  <1> QED BY <1>1, <1>3, <1>4, <1>5 DEF FileNext

(* Whoever writes while a file is compacted, and however its upgrade and   *)
(* its migration went: a compaction that is not cut off costs no entry     *)
(* its vector or its code, but those stored between its SELECT and its     *)
(* DROP, and leaves the table as wide as db_metadata says.                 *)
THEOREM CompactionTheorem == FileSpec => []CompactionKeeps
  <1>1. SourceInv => CompactionKeeps
    BY DEF SourceInv, CompactInv, CompactionKeeps
  <1> QED BY <1>1, FileStart, FileStep, SourceStart, SourceStep, PTL DEF FileSpec

-----------------------------------------------------------------------------
(* An export file, whole or in the making.                                 *)
IsFile(f) ==
  f = [sessions |-> f.sessions, entries |-> f.entries, ents |-> f.ents, mentions |-> f.mentions,
       vecs |-> f.vecs, width |-> f.width, dim |-> f.dim, quiet |-> f.quiet]

FileRows(f) ==
  /\ IsFile(f) /\ f.sessions \subseteq {"mig", "w"} /\ f.entries \subseteq Rows /\ Unbroken(f.entries)
  /\ f.ents \subseteq {"x"}

(* What an undisturbed export has read is what the file still holds.       *)
QuietSoFar ==
  exp.quiet =>
    /\ ~exp.one
    /\ exp.pc # "idle" => exp.part.sessions = src.sessions
    /\ exp.pc \notin {"idle", "entries"} => exp.part.entries = src.entries
    /\ exp.pc \in {"mentions", "vecs", "write"} => exp.part.ents = src.ents
    /\ exp.pc \in {"vecs", "write"} => exp.part.mentions \subseteq src.mentions
    /\ exp.pc = "write" => exp.part.width = src.width /\ exp.part.vecs \subseteq src.vecs

(* An undisturbed export leaves out nothing that its rows refer to.        *)
SelfContained(f) ==
  f.quiet =>
    /\ \A e \in f.entries : e[1] \in f.sessions
    /\ f.mentions \subseteq f.ents \X f.entries
    /\ f.dim = "wide" => f.width = "wide" \/ f.vecs = {}

ExportInv ==
  /\ exp = [pc |-> exp.pc, one |-> exp.one, quiet |-> exp.quiet, part |-> exp.part]
  /\ FileRows(exp.part) /\ FileRows(payload)
  /\ QuietSoFar
  /\ SelfContained(payload)

LEMMA ExportStart == FileInit => ExportInv
  <1> SUFFICES ASSUME FileInit PROVE ExportInv
    OBVIOUS
  <1>1. exp = NoExp /\ payload = NoFile
    BY DEF FileInit
  <1>2. FileRows(NoFile) /\ ~NoFile.quiet
    BY DEF FileRows, IsFile, NoFile, Unbroken
  <1>3. exp = [pc |-> "idle", one |-> FALSE, quiet |-> FALSE, part |-> NoFile]
    BY <1>1 DEF NoExp
  <1> QED BY <1>1, <1>2, <1>3 DEF ExportInv, QuietSoFar, SelfContained

(* What the next SELECT has read is there, and what was read before it.    *)
LEMMA ExportReads ==
  ASSUME SourceInv, ExportInv, ExportNext
  PROVE  ExportInv'
  <1>1. /\ src' = src /\ exp = [pc |-> exp.pc, one |-> exp.one, quiet |-> exp.quiet, part |-> exp.part]
        /\ IsFile(exp.part) /\ FileRows(exp.part)
    BY DEF ExportNext, ExportSessions, ExportEntries, ExportEnts, ExportMentions, ExportVecs,
           ExportWrite, ExportStep, source, ExportInv, FileRows
  <1>2. CASE \E want \in SUBSET {"mig", "w"}, one \in BOOLEAN : ExportSessions(want, one)
    <2>1. PICK want \in SUBSET {"mig", "w"}, one \in BOOLEAN : ExportSessions(want, one)
      BY <1>2
    <2> DEFINE part == [NoFile EXCEPT !.sessions = want]
    <2>2. /\ exp' = [pc |-> "entries", one |-> one, quiet |-> ~one, part |-> part] /\ payload' = payload
          /\ ~one => want = src.sessions
      BY <2>1 DEF ExportSessions
    <2>3. FileRows(part) /\ part.sessions = want
      <3>1. IsFile(NoFile) /\ NoFile.entries = {} /\ NoFile.ents = {}
        BY DEF NoFile, IsFile
      <3>2. IsFile(part) /\ part.sessions = want /\ part.entries = {} /\ part.ents = {}
        BY <3>1 DEF IsFile
      <3> QED BY <3>2 DEF FileRows, Unbroken
    <2> HIDE DEF part
    <2>4. QuietSoFar'
      BY <1>1, <2>2, <2>3 DEF QuietSoFar
    <2> QED BY <2>2, <2>3, <2>4 DEF ExportInv
  <1>3. CASE ExportEntries \/ ExportEnts \/ ExportMentions \/ ExportVecs
    <2>1. PICK pc, part :
            /\ exp' = [exp EXCEPT !.pc = pc, !.part = part] /\ payload' = payload
            /\ FileRows(part) /\ part.sessions = exp.part.sessions
            /\ \/ /\ exp.pc = "entries" /\ pc = "ents"
                  /\ ~exp.one => part.entries = src.entries
               \/ /\ exp.pc = "ents" /\ pc = "mentions"
                  /\ part.entries = exp.part.entries /\ part.ents = src.ents
               \/ /\ exp.pc = "mentions" /\ pc = "vecs"
                  /\ part.entries = exp.part.entries /\ part.ents = exp.part.ents
                  /\ part.mentions \subseteq src.mentions
               \/ /\ exp.pc = "vecs" /\ pc = "write"
                  /\ part.entries = exp.part.entries /\ part.ents = exp.part.ents
                  /\ part.mentions = exp.part.mentions /\ part.vecs \subseteq src.vecs /\ part.width = src.width
      <3>1. CASE ExportEntries
        <4> DEFINE es == {e \in src.entries : exp.one => e[1] \in exp.part.sessions}
                   part == [exp.part EXCEPT !.entries = es]
        <4>1. exp' = [exp EXCEPT !.pc = "ents", !.part = part] /\ exp.pc = "entries" /\ payload' = payload
          BY <3>1 DEF ExportEntries, ExportStep
        <4>2. es \subseteq Rows /\ Unbroken(es)
          BY DEF SourceInv, SourceRows, Unbroken
        <4>3. ~exp.one => es = src.entries
          OBVIOUS
        <4> HIDE DEF es
        <4>4. FileRows(part) /\ part.sessions = exp.part.sessions /\ part.entries = es
          BY <1>1, <4>2 DEF FileRows, IsFile
        <4> HIDE DEF part
        <4> QED BY <4>1, <4>3, <4>4
      <3>2. CASE ExportEnts
        <4> DEFINE part == [exp.part EXCEPT !.ents = src.ents]
        <4>1. exp' = [exp EXCEPT !.pc = "mentions", !.part = part] /\ exp.pc = "ents" /\ payload' = payload
          BY <3>2 DEF ExportEnts, ExportStep
        <4>2. FileRows(part) /\ part.sessions = exp.part.sessions /\ part.entries = exp.part.entries
              /\ part.ents = src.ents
          BY <1>1 DEF FileRows, IsFile, SourceInv, SourceRows
        <4> HIDE DEF part
        <4> QED BY <4>1, <4>2
      <3>3. CASE ExportMentions
        <4> DEFINE ms == {m \in src.mentions : Exported(m[2])}
                   part == [exp.part EXCEPT !.mentions = ms]
        <4>1. exp' = [exp EXCEPT !.pc = "vecs", !.part = part] /\ exp.pc = "mentions" /\ payload' = payload
          BY <3>3 DEF ExportMentions, ExportStep
        <4>2. ms \subseteq src.mentions
          OBVIOUS
        <4> HIDE DEF ms
        <4>3. IsFile(part) /\ part.sessions = exp.part.sessions /\ part.entries = exp.part.entries
              /\ part.ents = exp.part.ents /\ part.mentions = ms
          BY <1>1 DEF IsFile
        <4>4. FileRows(part)
          BY <1>1, <4>3 DEF FileRows
        <4> HIDE DEF part
        <4> QED BY <4>1, <4>2, <4>3, <4>4
      <3>4. CASE ExportVecs
        <4> DEFINE vs == {e \in src.vecs : Exported(e)}
                   f == exp.part
                   w == src.width
                   part == [f EXCEPT !.vecs = vs, !.width = w]
        <4>1. exp' = [exp EXCEPT !.pc = "write", !.part = part] /\ exp.pc = "vecs" /\ payload' = payload
          BY <3>4 DEF ExportVecs, ExportStep
        <4>2. vs \subseteq src.vecs /\ IsFile(f)
          BY <1>1
        <4> HIDE DEF vs, f, w
        <4>3. part.sessions = f.sessions /\ part.entries = f.entries /\ part.ents = f.ents
              /\ part.mentions = f.mentions /\ part.vecs = vs /\ part.width = w
          BY <4>2 DEF IsFile
        <4>4. IsFile(part)
          <5> DEFINE g == [f EXCEPT !.vecs = vs]
          <5>1. IsFile(g)
            BY <4>2 DEF IsFile
          <5>2. part = [g EXCEPT !.width = w]
            OBVIOUS
          <5> HIDE DEF g, part
          <5> QED BY <5>1, <5>2 DEF IsFile
        <4> HIDE DEF part
        <4>5. FileRows(part)
          BY <1>1, <4>3, <4>4 DEF FileRows, f
        <4> QED BY <4>1, <4>2, <4>3, <4>5 DEF f, w
      <3> QED BY <1>3, <3>1, <3>2, <3>3, <3>4
    <2>2. /\ exp'.pc = pc /\ exp'.part = part /\ exp'.one = exp.one /\ exp'.quiet = exp.quiet
          /\ exp' = [pc |-> exp'.pc, one |-> exp'.one, quiet |-> exp'.quiet, part |-> exp'.part]
      BY <1>1, <2>1
    <2>3. QuietSoFar'
      BY <1>1, <2>1, <2>2 DEF ExportInv, QuietSoFar
    <2> QED BY <2>1, <2>2, <2>3 DEF ExportInv
  <1>4. CASE ExportWrite
    <2>1. /\ exp.pc = "write" /\ exp' = [pc |-> "idle", one |-> FALSE, quiet |-> FALSE, part |-> NoFile]
          /\ payload' = [exp.part EXCEPT !.dim = src.dim, !.quiet = exp.quiet]
      BY <1>4 DEF ExportWrite, NoExp
    <2>2. FileRows(NoFile)
      BY DEF FileRows, IsFile, NoFile, Unbroken
    <2>3. /\ payload'.sessions = exp.part.sessions /\ payload'.entries = exp.part.entries
          /\ payload'.ents = exp.part.ents /\ payload'.mentions = exp.part.mentions
          /\ payload'.vecs = exp.part.vecs /\ payload'.width = exp.part.width
          /\ payload'.dim = src.dim /\ payload'.quiet = exp.quiet
      BY <1>1, <2>1 DEF IsFile
    <2>4. FileRows(payload')
      BY <1>1, <2>1, <2>3 DEF FileRows, IsFile
    <2>5. SelfContained(payload')
      BY <2>1, <2>3 DEF ExportInv, QuietSoFar, SelfContained, SourceInv, SourceRows, EmptyIfNarrow
    <2> QED BY <2>1, <2>2, <2>4, <2>5 DEF ExportInv, QuietSoFar
  <1> QED BY <1>2, <1>3, <1>4 DEF ExportNext

LEMMA ExportStepKeeps == SourceInv /\ ExportInv /\ [FileNext]_fvars => ExportInv'
  <1> SUFFICES ASSUME SourceInv, ExportInv, [FileNext]_fvars PROVE ExportInv'
    OBVIOUS
  <1>1. CASE Watch /\ payload' = payload
    <2>1. /\ exp'.pc = exp.pc /\ exp'.one = exp.one /\ exp'.part = exp.part
          /\ exp' = [pc |-> exp'.pc, one |-> exp'.one, quiet |-> exp'.quiet, part |-> exp'.part]
          /\ exp'.quiet = (exp.quiet /\ src' = src)
      BY <1>1 DEF Watch, ExportInv
    <2>2. QuietSoFar'
      BY <2>1 DEF ExportInv, QuietSoFar
    <2> QED BY <1>1, <2>1, <2>2 DEF ExportInv
  <1>2. CASE UNCHANGED <<source, exp, payload>>
    BY <1>2 DEF source, ExportInv, QuietSoFar
  <1>3. CASE ExportNext
    BY <1>3, ExportReads
  <1>4. CASE ImportNext
    BY <1>2, <1>4 DEF ImportNext, ImportCheck, ImportBody, ImportAgain, LocalStores, LocalLinks,
       LocalCommits, Closes
  <1>5. CASE UNCHANGED fvars
    BY <1>2, <1>5 DEF fvars
  <1> QED BY <1>1, <1>3, <1>4, <1>5 DEF FileNext

-----------------------------------------------------------------------------
(* The rows of the target: a session of the source is numbered without a   *)
(* gap, and its own is there with all its entries or not at all, which     *)
(* happens only to entries stored in the gap.                              *)
TargetRows(t) ==
  /\ IsTables(t) /\ t.dim = "wide"
  /\ \A e \in t.entries : e[1] # "d" => e[1] \in t.sessions
  /\ Unbroken({e \in t.entries : e[1] # "d"})
  /\ {e \in t.entries : e[1] = "d"} = IF "d" \in t.sessions THEN local ELSE {}
  /\ "d" \notin t.sessions => local \subseteq gap

TargetInv ==
  /\ TargetRows(dst) /\ (tx # Clean => TargetRows(tx) /\ imp.pc = "done")
  /\ \E k \in 0..MaxLocal : local = {<<"d", i>> : i \in 1..k}
  /\ imp = [pc |-> imp.pc, merge |-> imp.merge]
  /\ imp.pc = "body" => payload.dim = "wide" /\ (~imp.merge => local \subseteq gap)
  /\ payload = NoFile => dst.sessions = {"d"} /\ dst.entries = {} /\ tx = Clean
  /\ AllOrNothing
  /\ QuietExportImports

LEMMA TargetStart == FileInit => TargetInv
  <1> SUFFICES ASSUME FileInit PROVE TargetInv
    OBVIOUS
  <1>1. /\ dst = [NoTables EXCEPT !.sessions = {"d"}] /\ payload = NoFile /\ tx = Clean /\ imp = NoImp
        /\ local = {} /\ quietFail = FALSE
    BY DEF FileInit
  <1>2. IsTables(dst) /\ dst.dim = "wide" /\ dst.sessions = {"d"} /\ dst.entries = {}
    BY <1>1 DEF NoTables, IsTables
  <1>3. payload.sessions = {} /\ payload.entries = {}
    BY <1>1 DEF NoFile
  <1>4. TargetRows(dst)
    BY <1>1, <1>2 DEF TargetRows, Unbroken
  <1>5. local = {<<"d", i>> : i \in 1..0} /\ 0 \in 0..MaxLocal
    BY <1>1, StoreFileConstants
  <1>6. imp = [pc |-> "idle", merge |-> FALSE]
    BY <1>1 DEF NoImp
  <1> QED BY <1>1, <1>2, <1>3, <1>4, <1>5, <1>6 DEF TargetInv, AllOrNothing, QuietExportImports

(* The tables after each loop of an import's body.                         *)
LEMMA ImportTables ==
  ASSUME TargetRows(dst)
  PROVE  /\ IsTables(Base) /\ Base.dim = "wide"
         /\ IsTables(WithSessions) /\ WithSessions.dim = "wide"
         /\ WithSessions.sessions = Base.sessions \cup payload.sessions /\ WithSessions.entries = Base.entries
         /\ IsTables(WithEntries) /\ WithEntries.dim = "wide"
         /\ WithEntries.sessions = WithSessions.sessions /\ WithEntries.entries = Base.entries \cup payload.entries
         /\ IsTables(WithEnts) /\ WithEnts.dim = "wide"
         /\ WithEnts.sessions = WithSessions.sessions /\ WithEnts.entries = WithEntries.entries
         /\ WithEnts.ents = IF "x" \in payload.ents THEN (Base.ents \ {"y"}) \cup {"x"} ELSE Base.ents
         /\ IsTables(WithMentions) /\ WithMentions.dim = "wide"
         /\ WithMentions.sessions = WithSessions.sessions /\ WithMentions.entries = WithEntries.entries
         /\ payload.mentions \subseteq WithMentions.mentions
         /\ IsTables(Imported) /\ Imported.dim = "wide"
         /\ Imported.sessions = WithSessions.sessions /\ Imported.entries = WithEntries.entries
         /\ payload.mentions \subseteq Imported.mentions
         /\ payload.vecs \subseteq Imported.vecs \cap Imported.codes
  <1>1. IsTables(NoTables) /\ NoTables.dim = "wide"
    BY DEF NoTables, IsTables
  <1>2. IsTables(Base) /\ Base.dim = "wide"
    BY <1>1 DEF Base, TargetRows
  <1>3. /\ IsTables(WithSessions) /\ WithSessions.dim = "wide"
        /\ WithSessions.sessions = Base.sessions \cup payload.sessions
        /\ WithSessions.entries = Base.entries /\ WithSessions.ents = Base.ents
    BY <1>2 DEF WithSessions, IsTables
  <1>4. /\ IsTables(WithEntries) /\ WithEntries.dim = "wide"
        /\ WithEntries.sessions = WithSessions.sessions /\ WithEntries.ents = Base.ents
        /\ WithEntries.entries = Base.entries \cup payload.entries
    BY <1>3 DEF WithEntries, IsTables
  <1>5. /\ IsTables(WithEnts) /\ WithEnts.dim = "wide"
        /\ WithEnts.sessions = WithSessions.sessions /\ WithEnts.entries = WithEntries.entries
        /\ WithEnts.ents = IF "x" \in payload.ents THEN (Base.ents \ {"y"}) \cup {"x"} ELSE Base.ents
    BY <1>4 DEF WithEnts, IsTables
  <1>6. /\ IsTables(WithMentions) /\ WithMentions.dim = "wide"
        /\ WithMentions.sessions = WithSessions.sessions /\ WithMentions.entries = WithEntries.entries
        /\ payload.mentions \subseteq WithMentions.mentions
    BY <1>5 DEF WithMentions, IsTables
  <1>7. /\ IsTables(Imported) /\ Imported.dim = "wide"
        /\ Imported.sessions = WithSessions.sessions /\ Imported.entries = WithEntries.entries
        /\ Imported.mentions = WithMentions.mentions
        /\ payload.vecs \subseteq Imported.vecs \cap Imported.codes
    <2> DEFINE t == WithMentions
    <2>1. IsTables(t) /\ t.dim = "wide" /\ t.sessions = WithSessions.sessions /\ t.entries = WithEntries.entries
      BY <1>6
    <2>2. Imported = [t EXCEPT !.vecs = @ \cup payload.vecs, !.codes = @ \cup payload.vecs]
      BY DEF Imported
    <2> HIDE DEF t
    <2>3. IsTables(Imported) /\ Imported.dim = t.dim /\ Imported.sessions = t.sessions
          /\ Imported.entries = t.entries /\ Imported.mentions = t.mentions
          /\ Imported.vecs = t.vecs \cup payload.vecs /\ Imported.codes = t.codes \cup payload.vecs
      BY <2>1, <2>2 DEF IsTables
    <2> QED BY <2>1, <2>3 DEF t
  <1> QED BY <1>2, <1>3, <1>4, <1>5, <1>6, <1>7

(* However far the body got, its tables hold whole sessions.               *)
LEMMA ImportRows ==
  ASSUME ExportInv, TargetRows(dst), imp.pc = "body", ~imp.merge => local \subseteq gap,
         NEW t, IsTables(t), t.dim = "wide", t.sessions = WithSessions.sessions,
         NEW p \in SUBSET (payload.entries \ Orphans), Unbroken(p), t.entries = Base.entries \cup p
  PROVE  TargetRows(t)
  <1>1. t.sessions = Base.sessions \cup payload.sessions
    BY ImportTables
  <1>2. payload.sessions \subseteq {"mig", "w"} /\ p \subseteq Rows
    BY DEF ExportInv, FileRows
  <1>3. \A e \in p : e[1] # "d"
    BY <1>2 DEF Rows
  <1>4. \A e \in p : e \in Base.entries \/ e[1] \in t.sessions
    BY DEF Orphans
  <1>5. CASE imp.merge
    <2>1. Base = dst
      BY <1>5 DEF Base
    <2>2. \A e \in t.entries : e[1] # "d" => e[1] \in t.sessions
      BY <1>1, <1>4, <2>1 DEF TargetRows
    <2>3. Unbroken({e \in t.entries : e[1] # "d"})
      <3> SUFFICES ASSUME NEW e \in t.entries, e[1] # "d", NEW i \in 1..e[2]
                   PROVE  <<e[1], i>> \in {f \in t.entries : f[1] # "d"}
        BY DEF Unbroken
      <3>1. CASE e \in p
        BY <3>1 DEF Unbroken
      <3>2. CASE e \in dst.entries
        BY <2>1, <3>2 DEF TargetRows, Unbroken
      <3> QED BY <2>1, <3>1, <3>2
    <2>4. {e \in t.entries : e[1] = "d"} = {e \in dst.entries : e[1] = "d"}
      BY <1>3, <2>1
    <2>5. "d" \in t.sessions <=> "d" \in dst.sessions
      BY <1>1, <1>2, <2>1
    <2> QED BY <2>2, <2>3, <2>4, <2>5 DEF TargetRows
  <1>6. CASE ~imp.merge
    <2>1. Base.sessions = {} /\ Base.entries = {}
      BY <1>6 DEF Base, NoTables
    <2>2. t.entries = p /\ "d" \notin t.sessions
      BY <1>1, <1>2, <2>1
    <2>3. {e \in t.entries : e[1] # "d"} = p /\ {e \in t.entries : e[1] = "d"} = {}
      BY <1>3, <2>2
    <2> QED BY <1>4, <1>6, <2>1, <2>2, <2>3 DEF TargetRows
  <1> QED BY <1>5, <1>6

(* So does what the statements before the one that raises have written.    *)
LEMMA RemainsRows ==
  ASSUME ExportInv, TargetRows(dst), imp.pc = "body", ~imp.merge => local \subseteq gap,
         NEW t \in Remains \cup (IF Remains = {} THEN {Imported} ELSE {})
  PROVE  TargetRows(t)
  <1>1. FileRows(payload) /\ Unbroken(payload.entries)
    BY DEF ExportInv, FileRows
  <1>2. CASE Orphans # {}
    <2>1. PICK p \in Beginnings : t = [WithSessions EXCEPT !.entries = @ \cup p]
      <3>1. Remains = {[WithSessions EXCEPT !.entries = @ \cup p] : p \in Beginnings}
        BY <1>2 DEF Remains
      <3>2. {} \in Beginnings
        BY DEF Beginnings
      <3>3. Remains # {}
        BY <3>1, <3>2
      <3> QED BY <3>1, <3>3
    <2>2. p \in SUBSET (payload.entries \ Orphans)
      BY DEF Beginnings
    <2>3. Unbroken(p)
      <3> SUFFICES ASSUME NEW e \in p, NEW i \in 1..e[2] PROVE <<e[1], i>> \in p
        BY DEF Unbroken
      <3>1. e \in Rows /\ <<e[1], i>> \in payload.entries
        BY <1>1, <2>2 DEF FileRows, Unbroken
      <3>2. e[2] \in 1..N \/ e[2] \in 1..MaxStored
        BY <3>1 DEF Rows
      <3>3. i \in 1..(N + MaxStored) /\ i <= e[2]
        BY <3>2, MigrationConstants, StoreFileConstants
      <3> QED BY <3>1, <3>3 DEF Beginnings
    <2>4. /\ IsTables(t) /\ t.dim = "wide" /\ t.sessions = WithSessions.sessions
          /\ t.entries = Base.entries \cup p
      BY <2>1, ImportTables DEF IsTables
    <2> QED BY <2>2, <2>3, <2>4, ImportRows
  <1>3. CASE Orphans = {}
    <2>1. /\ IsTables(t) /\ t.dim = "wide" /\ t.sessions = WithSessions.sessions
          /\ t.entries = Base.entries \cup payload.entries
      <3>1. CASE t \in {WithEntries, WithMentions, Imported}
        BY <3>1, ImportTables
      <3>2. CASE \E p \in SUBSET (payload.mentions \ Dangling) : t = [WithEnts EXCEPT !.mentions = @ \cup p]
        <4>1. PICK p : t = [WithEnts EXCEPT !.mentions = @ \cup p]
          BY <3>2
        <4> QED BY <4>1, ImportTables DEF IsTables
      <3>3. Remains = {} \/ Remains = {WithEntries} \/ Remains = {WithMentions}
            \/ Remains = {[WithEnts EXCEPT !.mentions = @ \cup p] : p \in SUBSET (payload.mentions \ Dangling)}
        BY <1>3 DEF Remains
      <3> QED BY <3>1, <3>2, <3>3
    <2> QED BY <1>1, <1>3, <2>1, ImportRows
  <1> QED BY <1>2, <1>3

(* An undisturbed export leaves no foreign key and no width to refuse.     *)
LEMMA QuietFits ==
  ASSUME ExportInv, payload.quiet, payload.dim = "wide", dst.dim = "wide", ~imp.merge, TargetRows(dst)
  PROVE  Remains = {}
  <1>1. Base.sessions = {} /\ Base.entries = {} /\ Base.ents = {} /\ Base.mentions = {}
    BY DEF Base, NoTables
  <1>2. Orphans = {}
    <2>1. \A e \in payload.entries : e[1] \in WithSessions.sessions
      BY ImportTables DEF ExportInv, SelfContained
    <2> QED BY <2>1 DEF Orphans
  <1>3. ~Clash
    BY <1>1 DEF Clash
  <1>4. Dangling = {}
    <2>1. \A m \in payload.mentions : m[1] \in payload.ents /\ m[2] \in payload.entries
      BY DEF ExportInv, SelfContained
    <2>2. payload.ents \subseteq {"x"}
      BY DEF ExportInv, FileRows
    <2>3. \A m \in payload.mentions : m[1] \in WithEnts.ents /\ m[2] \in WithEntries.entries
      BY <2>1, <2>2, ImportTables
    <2> QED BY <2>3 DEF Dangling
  <1>5. ~WrongWidth
    BY DEF WrongWidth, ExportInv, SelfContained
  <1> QED BY <1>2, <1>3, <1>4, <1>5 DEF Remains

LEMMA BodyKeeps ==
  ASSUME ExportInv, TargetInv, ImportBody, payload # NoFile
  PROVE  TargetInv'
  <1>1. /\ imp.pc = "body" /\ imp' = [imp EXCEPT !.pc = "done"] /\ tx = Clean
        /\ TargetRows(dst) /\ dst.dim = "wide" /\ payload.dim = "wide" /\ (~imp.merge => local \subseteq gap)
        /\ UNCHANGED <<payload, local, gap, half>>
    BY DEF ImportBody, TargetInv, TargetRows
  <1>2. imp' = [pc |-> imp'.pc, merge |-> imp'.merge] /\ imp'.pc = "done"
    BY <1>1 DEF TargetInv
  <1>3. CASE Remains = {} /\ dst' = Imported /\ UNCHANGED <<tx, quietFail>>
    <2>1. TargetRows(Imported)
      BY <1>1, <1>3, RemainsRows
    <2>2. TargetRows(dst)'
      BY <1>1, <1>3, <2>1 DEF TargetRows
    <2>3. AllOrNothing'
      <3>1. /\ payload.entries \subseteq dst'.entries /\ payload.mentions \subseteq dst'.mentions
            /\ payload.vecs \subseteq dst'.vecs \cap dst'.codes
        BY <1>1, <1>3, ImportTables
      <3> QED BY <1>1, <3>1 DEF AllOrNothing
    <2> QED BY <1>1, <1>2, <1>3, <2>2, <2>3 DEF TargetInv, QuietExportImports
  <1>4. CASE /\ tx' \in Remains /\ dst' = dst
             /\ quietFail' = (quietFail \/ (payload.quiet /\ ~imp.merge))
    <2>1. TargetRows(tx')
      BY <1>1, <1>4, RemainsRows
    <2>2. TargetRows(tx)' /\ TargetRows(dst)'
      BY <1>1, <1>4, <2>1 DEF TargetRows
    <2>3. ~(payload.quiet /\ ~imp.merge)
      BY <1>1, <1>4, QuietFits
    <2>4. ~quietFail'
      BY <1>4, <2>3 DEF TargetInv, QuietExportImports
    <2>5. AllOrNothing'
      BY <1>1, <1>4 DEF TargetInv, AllOrNothing
    <2> QED BY <1>1, <1>2, <1>4, <2>2, <2>4, <2>5 DEF TargetInv, QuietExportImports
  <1> QED BY <1>3, <1>4 DEF ImportBody

(* The target's own entries; view is what their writer sees.               *)
LEMMA StoresKeep ==
  ASSUME ExportInv, TargetInv, LocalStores, payload # NoFile
  PROVE  TargetInv'
  <1> DEFINE e == <<"d", Cardinality(local) + 1>>
             t == view
  <1>1. PICK k \in 0..MaxLocal : local = {<<"d", i>> : i \in 1..k}
    BY DEF TargetInv
  <1>2. e = <<"d", k + 1>> /\ k + 1 \in 0..MaxLocal
    <2>1. k \in Nat /\ MaxLocal \in Nat
      BY StoreFileConstants
    <2>2. Cardinality({<<"d", i>> : i \in 1..k}) = k
      BY <2>1, CountFrom1
    <2> QED BY <1>1, <2>1, <2>2 DEF LocalStores
  <1>3. local \cup {e} = {<<"d", i>> : i \in 1..(k + 1)}
    <2>1. 1..(k + 1) = (1..k) \cup {k + 1}
      BY StoreFileConstants
    <2> HIDE DEF e
    <2>2. {<<"d", i>> : i \in (1..k) \cup {k + 1}} = {<<"d", i>> : i \in 1..k} \cup {e}
      BY <1>2
    <2> QED BY <1>1, <2>1, <2>2
  <1>4. e[1] = "d"
    OBVIOUS
  <1>5. TargetRows(t) /\ (tx = Clean => t = dst)
    BY DEF TargetInv, view
  <1>6. tx' = Clean /\ UNCHANGED <<payload, imp, quietFail>>
    BY DEF LocalStores
  <1>7. CASE "d" \in view.sessions
    <2> HIDE DEF e
    <2>1. /\ dst' = [t EXCEPT !.entries = @ \cup {e}, !.vecs = @ \cup {e}, !.codes = @ \cup {e}]
          /\ local' = local \cup {e}
          /\ gap' = IF imp.pc = "body" /\ ~imp.merge THEN gap \cup {e} ELSE gap
          /\ half' = (half \/ tx # Clean)
      BY <1>7 DEF LocalStores, e
    <2> HIDE DEF t
    <2>2. /\ IsTables(dst') /\ dst'.dim = "wide" /\ dst'.sessions = t.sessions
          /\ dst'.entries = t.entries \cup {e}
          /\ t.vecs \subseteq dst'.vecs /\ t.codes \subseteq dst'.codes /\ dst'.mentions = t.mentions
      BY <1>5, <2>1 DEF TargetRows, IsTables
    <2>3. "d" \in t.sessions
      BY <1>7 DEF t
    <2>4. TargetRows(dst)'
      <3>1. {f \in dst'.entries : f[1] # "d"} = {f \in t.entries : f[1] # "d"}
        BY <1>4, <2>2
      <3>2. {f \in dst'.entries : f[1] = "d"} = {f \in t.entries : f[1] = "d"} \cup {e}
        BY <1>4, <2>2
      <3>3. \A f \in dst'.entries : f[1] # "d" => f[1] \in dst'.sessions
        BY <1>4, <1>5, <2>2 DEF TargetRows
      <3>4. {f \in dst'.entries : f[1] = "d"} = local'
        BY <1>5, <2>1, <2>3, <3>2 DEF TargetRows
      <3> QED BY <1>5, <2>2, <2>3, <3>1, <3>3, <3>4 DEF TargetRows
    <2>5. imp.pc = "body" => payload'.dim = "wide" /\ (~imp.merge => local' \subseteq gap')
      BY <1>6, <2>1 DEF TargetInv
    <2>6. AllOrNothing'
      <3>1. CASE half \/ tx # Clean
        BY <2>1, <3>1 DEF AllOrNothing
      <3>2. CASE ~half /\ tx = Clean
        <4>1. t = dst
          BY <1>5, <3>2
        <4>2. e \notin payload.entries
          BY <1>4 DEF ExportInv, FileRows, Rows
        <4> QED BY <1>6, <2>2, <3>2, <4>1, <4>2 DEF TargetInv, AllOrNothing
      <3> QED BY <3>1, <3>2
    <2>7. \E n \in 0..MaxLocal : local' = {<<"d", i>> : i \in 1..n}
      BY <1>2, <1>3, <2>1
    <2> QED BY <1>6, <2>4, <2>5, <2>6, <2>7 DEF TargetInv, QuietExportImports
  <1>8. CASE "d" \notin view.sessions
    <2>1. UNCHANGED <<dst, local, gap, half>>
      BY <1>8 DEF LocalStores
    <2> QED BY <1>6, <2>1 DEF TargetInv, TargetRows, AllOrNothing, QuietExportImports
  <1> QED BY <1>7, <1>8

LEMMA ImportKeeps ==
  ASSUME ExportInv, TargetInv, ImportNext, payload # NoFile
  PROVE  TargetInv'
  <1>1. CASE ImportBody
    BY <1>1, BodyKeeps
  <1>2. CASE LocalStores
    BY <1>2, StoresKeep
  <1>3. ASSUME NEW merge \in BOOLEAN, ImportCheck(merge) PROVE TargetInv'
    <2>1. /\ imp' = [pc |-> "body", merge |-> merge] /\ (merge \/ dst.entries = {}) /\ tx = Clean
          /\ payload.dim = "wide" /\ UNCHANGED <<payload, dst, tx, local, gap, half, quietFail>>
      BY <1>3 DEF ImportCheck, TargetInv, TargetRows
    <2>2. dst.entries = {} => local \subseteq gap
      BY DEF TargetInv, TargetRows
    <2> QED BY <2>1, <2>2 DEF TargetInv, TargetRows, AllOrNothing, QuietExportImports
  <1>4. CASE ImportAgain
    <2>1. imp' = [pc |-> "idle", merge |-> FALSE] /\ tx = Clean
          /\ UNCHANGED <<payload, dst, tx, local, gap, half, quietFail>>
      BY <1>4 DEF ImportAgain, NoImp
    <2> QED BY <2>1 DEF TargetInv, TargetRows, AllOrNothing, QuietExportImports
  <1>5. CASE LocalLinks
    <2> DEFINE t == view
               ms == {<<"y", e>> : e \in view.entries \cap local}
    <2>1. /\ dst' = [t EXCEPT !.ents = @ \cup {"y"}, !.mentions = @ \cup ms]
          /\ tx' = Clean /\ half' = (half \/ tx # Clean) /\ UNCHANGED <<payload, imp, local, gap, quietFail>>
      BY <1>5 DEF LocalLinks
    <2>2. TargetRows(t) /\ (tx = Clean => t = dst)
      BY DEF TargetInv, view
    <2> HIDE DEF t, ms
    <2>3. /\ IsTables(dst') /\ dst'.dim = "wide" /\ dst'.sessions = t.sessions /\ dst'.entries = t.entries
          /\ dst'.vecs = t.vecs /\ dst'.codes = t.codes /\ t.mentions \subseteq dst'.mentions
      BY <2>1, <2>2 DEF TargetRows, IsTables
    <2>4. TargetRows(dst)'
      BY <2>1, <2>2, <2>3 DEF TargetRows
    <2>5. AllOrNothing'
      BY <2>1, <2>2, <2>3 DEF TargetInv, AllOrNothing
    <2> QED BY <2>1, <2>4, <2>5 DEF TargetInv, QuietExportImports
  <1>6. CASE LocalCommits
    <2>1. tx # Clean /\ dst' = tx /\ tx' = Clean /\ half' = TRUE
          /\ UNCHANGED <<payload, imp, local, gap, quietFail>>
      BY <1>6 DEF LocalCommits
    <2> QED BY <2>1 DEF TargetInv, TargetRows, AllOrNothing, QuietExportImports
  <1>7. CASE Closes
    <2>1. tx' = Clean /\ UNCHANGED <<payload, dst, imp, local, gap, half, quietFail>>
      BY <1>7 DEF Closes
    <2> QED BY <2>1 DEF TargetInv, TargetRows, AllOrNothing, QuietExportImports
  <1> QED BY <1>1, <1>2, <1>3, <1>4, <1>5, <1>6, <1>7 DEF ImportNext

LEMMA TargetStep == ExportInv /\ ExportInv' /\ TargetInv /\ [FileNext]_fvars => TargetInv'
  <1> SUFFICES ASSUME ExportInv, ExportInv', TargetInv, [FileNext]_fvars PROVE TargetInv'
    OBVIOUS
  <1>1. CASE UNCHANGED <<payload, target>>
    BY <1>1 DEF target, TargetInv, TargetRows, AllOrNothing, QuietExportImports
  <1>2. CASE payload # NoFile /\ ImportNext
    BY <1>2, ImportKeeps
  <1>3. CASE payload = NoFile /\ ExportNext
    <2>1. UNCHANGED target
      BY <1>3 DEF ExportNext, ExportSessions, ExportEntries, ExportEnts, ExportMentions, ExportVecs,
             ExportWrite, ExportStep
    <2>2. UNCHANGED <<dst, tx, imp, local, gap, half, quietFail>>
      BY <2>1 DEF target
    <2>3. dst.sessions = {"d"} /\ dst.entries = {} /\ tx = Clean /\ imp.pc # "body"
      BY <1>3 DEF TargetInv, NoFile
    <2>4. payload'.sessions \subseteq {"mig", "w"}
      BY DEF ExportInv, FileRows
    <2>5. AllOrNothing'
      BY <2>2, <2>3, <2>4 DEF AllOrNothing
    <2> QED BY <2>2, <2>3, <2>5 DEF TargetInv, TargetRows, QuietExportImports
  <1> QED BY <1>1, <1>2, <1>3 DEF FileNext, fvars

FilesInv == FileInv /\ SourceInv /\ ExportInv /\ TargetInv

LEMMA FilesInvariant == FileSpec => []FilesInv
  <1>1. FileInit => FilesInv
    BY FileStart, SourceStart, ExportStart, TargetStart DEF FilesInv
  <1>2. FilesInv /\ [FileNext]_fvars => FilesInv'
    BY FileStep, SourceStep, ExportStepKeeps, TargetStep DEF FilesInv
  <1> QED BY <1>1, <1>2, PTL DEF FileSpec

(* Wherever a migration is cut off, whoever writes while an export reads   *)
(* table after table, and however much of an import is committed: every    *)
(* session in either file is numbered from 1 without a gap.                *)
THEOREM WholeTheorem == FileSpec => []SessionsWhole
  <1>1. FilesInv => SessionsWhole
    <2> SUFFICES ASSUME FilesInv, NEW t \in {src, dst, view}, NEW e \in t.entries
                 PROVE  /\ e[1] \in t.sessions \/ (e[1] = "d" /\ t # src)
                        /\ \A i \in 1..e[2] : <<e[1], i>> \in t.entries
      BY DEF SessionsWhole
    <2>1. CASE t = src
      BY <2>1 DEF FilesInv, SourceInv, SourceRows, Unbroken
    <2>2. CASE t # src
      <3>1. TargetRows(t)
        BY <2>2 DEF FilesInv, TargetInv, view
      <3>2. CASE e[1] # "d"
        BY <3>1, <3>2 DEF TargetRows, Unbroken
      <3>3. CASE e[1] = "d"
        <4>1. e \in local /\ local \subseteq t.entries
          BY <3>1, <3>3 DEF TargetRows
        <4>2. PICK k \in 0..MaxLocal : local = {<<"d", i>> : i \in 1..k}
          BY DEF FilesInv, TargetInv
        <4>3. PICK n \in 1..k : e = <<"d", n>>
          BY <4>1, <4>2
        <4>4. \A i \in 1..n : i \in 1..k
          BY <4>3, StoreFileConstants
        <4> QED BY <2>2, <4>1, <4>2, <4>3, <4>4
      <3> QED BY <3>2, <3>3
    <2> QED BY <2>1, <2>2
  <1> QED BY <1>1, FilesInvariant, PTL

(* An export of everything that nobody wrote to meanwhile holds all that   *)
(* its rows refer to, so that an empty store can import it.                *)
THEOREM QuietTheorem == FileSpec => []QuietExportImports
  <1>1. FilesInv => QuietExportImports
    BY DEF FilesInv, TargetInv
  <1> QED BY <1>1, FilesInvariant, PTL

(* Import is all or nothing, unless the same store committed the half.     *)
THEOREM AllOrNothingTheorem == FileSpec => []AllOrNothing
  <1>1. FilesInv => AllOrNothing
    BY DEF FilesInv, TargetInv
  <1> QED BY <1>1, FilesInvariant, PTL

(* No import costs the target an entry, but those stored after a plain     *)
(* import found the file empty and before it emptied it.                   *)
THEOREM KeptTheorem == FileSpec => []LocalKept
  <1>1. FilesInv => LocalKept
    <2> SUFFICES ASSUME FilesInv PROVE LocalKept
      OBVIOUS
    <2>1. TargetRows(dst)
      BY DEF FilesInv, TargetInv
    <2>2. CASE "d" \in dst.sessions
      BY <2>1, <2>2 DEF TargetRows, LocalKept
    <2>3. CASE "d" \notin dst.sessions
      BY <2>1, <2>3 DEF TargetRows, LocalKept
    <2> QED BY <2>2, <2>3
  <1> QED BY <1>1, FilesInvariant, PTL

(* How far a compaction, an export and an import may be.                   *)
Phases ==
  /\ comp.pc \in {"idle", "drop", "fill", "dropCodes", "encode"}
  /\ exp.pc \in {"idle", "entries", "ents", "mentions", "vecs", "write"}
  /\ imp.pc \in {"idle", "body", "done"}
  /\ gap \subseteq local

Dims == {"wide", "narrow"}

LEMMA DimStep ==
  ASSUME IsTables(src), src.dim \in Dims, [FileNext]_fvars
  PROVE  src'.dim \in Dims
  <1>1. CASE src' = src
    BY <1>1
  <1>2. CASE StoreSession \/ OtherOpens
    BY <1>2 DEF StoreSession, OtherOpens, IsTables
  <1>3. CASE StoreRow
    <2> DEFINE e == <<"mig", mig.next>>
               blank == IF mig.vectors THEN src.blank ELSE src.blank \cup {e}
    <2> HIDE DEF e, blank
    <2>1. src' = [src EXCEPT !.entries = @ \cup {e}, !.vecs = @ \cup {e}, !.blank = blank]
      BY <1>3 DEF StoreRow, e, blank
    <2> QED BY <2>1 DEF IsTables
  <1>4. CASE LinkAndEncode
    <2>1. PICK M : src' = [src EXCEPT !.mentions = M, !.codes = src.vecs]
      BY <1>4 DEF LinkAndEncode
    <2> QED BY <2>1 DEF IsTables
  <1>5. CASE OtherStores
    <2>1. PICK e : src' = [src EXCEPT !.entries = @ \cup {e}, !.vecs = @ \cup {e}, !.codes = @ \cup {e}]
      BY <1>5 DEF OtherStores
    <2> QED BY <2>1 DEF IsTables
  <1>6. CASE OtherLinks
    <2>1. CASE src' = [src EXCEPT !.ents = @ \cup {"x"}]
      BY <2>1 DEF IsTables
    <2>2. ASSUME NEW e, src' = [src EXCEPT !.mentions = @ \cup {<<"x", e>>}] PROVE src'.dim \in Dims
      BY <2>2 DEF IsTables
    <2> QED BY <1>6, <2>1, <2>2 DEF OtherLinks
  <1>7. CASE CompactDrop \/ CompactFill
    BY <1>7 DEF CompactDrop, CompactFill, CompactStep, IsTables, Dims
  <1>8. CASE CompactDropCodes \/ CompactEncode
    BY <1>8 DEF CompactDropCodes, CompactEncode, CompactStep, IsTables
  <1>9. ASSUME CompactRead \/ CompactCut PROVE src' = src
    BY <1>9 DEF CompactRead, CompactCut, CompactStep, source, mvars
  <1>10. ASSUME Upgrade \/ ReadV2 \/ DropVectors \/ DropMemories \/ DropRest \/ CutOff PROVE src' = src
    BY <1>10 DEF Upgrade, ReadV2, DropVectors, DropMemories, DropRest, CutOff
  <1>11. ASSUME ExportNext PROVE src' = src
    BY <1>11 DEF ExportNext, ExportSessions, ExportEntries, ExportEnts, ExportMentions, ExportVecs,
                 ExportWrite, ExportStep, source, mvars
  <1>12. ASSUME ImportNext PROVE src' = src
    BY <1>12 DEF ImportNext, ImportCheck, ImportBody, ImportAgain, LocalStores, LocalLinks,
                 LocalCommits, Closes, source, mvars
  <1>13. ASSUME UNCHANGED fvars PROVE src' = src
    BY <1>13 DEF fvars, source, mvars
  <1> QED BY <1>1, <1>2, <1>3, <1>4, <1>5, <1>6, <1>7, <1>8, <1>9, <1>10, <1>11, <1>12, <1>13
      DEF FileNext, MigrationNext, MigrationStep, CompactNext

LEMMA PhasesStep == FilesInv /\ Phases /\ [FileNext]_fvars => Phases'
  <1> SUFFICES ASSUME FilesInv, Phases, [FileNext]_fvars PROVE Phases'
    OBVIOUS
  <1>1. /\ exp = [pc |-> exp.pc, one |-> exp.one, quiet |-> exp.quiet, part |-> exp.part]
        /\ imp = [pc |-> imp.pc, merge |-> imp.merge]
    BY DEF FilesInv, ExportInv, TargetInv
  <1>2. ASSUME Watch, UNCHANGED target, UNCHANGED comp \/ CompactNext PROVE Phases'
    <2>1. exp'.pc = exp.pc
      BY <1>1, <1>2 DEF Watch
    <2>2. comp'.pc \in {"idle", "drop", "fill", "dropCodes", "encode"}
      BY <1>2 DEF Phases, CompactNext, CompactRead, CompactDrop, CompactFill, CompactDropCodes,
                  CompactEncode, CompactCut, CompactStep, NoComp
    <2> QED BY <1>2, <2>1, <2>2 DEF target, Phases
  <1>3. ASSUME ExportNext PROVE Phases'
    <2>1. UNCHANGED <<comp, target>>
      BY <1>3 DEF ExportNext, ExportSessions, ExportEntries, ExportEnts, ExportMentions, ExportVecs,
                  ExportWrite, ExportStep
    <2>2. \A pc, part : ExportStep(pc, part) => exp'.pc = pc
      BY <1>1 DEF ExportStep
    <2>3. exp'.pc \in {"idle", "entries", "ents", "mentions", "vecs", "write"}
      BY <1>3, <2>2 DEF ExportNext, ExportSessions, ExportEntries, ExportEnts, ExportMentions,
                        ExportVecs, ExportWrite, NoExp
    <2> QED BY <2>1, <2>3 DEF target, Phases
  <1>4. ASSUME ImportNext PROVE Phases'
    <2>1. UNCHANGED <<comp, exp>>
      BY <1>4 DEF ImportNext, ImportCheck, ImportBody, ImportAgain, LocalStores, LocalLinks,
                  LocalCommits, Closes
    <2>2. imp'.pc \in {"idle", "body", "done"}
      BY <1>1, <1>4 DEF Phases, ImportNext, ImportCheck, ImportBody, ImportAgain, LocalStores,
                        LocalLinks, LocalCommits, Closes, NoImp
    <2>3. gap' \subseteq local'
      BY <1>4 DEF Phases, ImportNext, ImportCheck, ImportBody, ImportAgain, LocalStores, LocalLinks,
                  LocalCommits, Closes
    <2> QED BY <2>1, <2>2, <2>3 DEF Phases
  <1>5. CASE UNCHANGED fvars
    BY <1>5 DEF fvars, target, Phases
  <1> QED BY <1>2, <1>3, <1>4, <1>5
      DEF FileNext, OtherOpens, OtherStores, OtherLinks

(* Whatever is cut off: the type invariant of the files and of what is     *)
(* under way on them.                                                      *)
THEOREM FileTypeCorrect == FileSpec => []FileTypeOK
  <1>1. FileInit => Phases /\ src.dim \in Dims
    BY DEF FileInit, NoComp, NoExp, NoImp, Phases, MigrationInit, NoTables, Dims
  <1>2. FileSpec => [](Phases /\ src.dim \in Dims)
    <2>1. FilesInv /\ src.dim \in Dims /\ [FileNext]_fvars => src'.dim \in Dims
      BY DimStep DEF FilesInv, FileInv, MemoryInv
    <2>2. FilesInv /\ (Phases /\ src.dim \in Dims) /\ [FileNext]_fvars => (Phases /\ src.dim \in Dims)'
      BY <2>1, PhasesStep
    <2> QED BY <1>1, <2>2, FilesInvariant, PTL DEF FileSpec
  <1>3. FilesInv /\ Phases /\ src.dim \in Dims => FileTypeOK
    BY DEF Dims, FilesInv, FileInv, SchemaInv, MemoryInv, IsTables, TargetInv, TargetRows, Phases, FileTypeOK
  <1> QED BY <1>2, <1>3, FilesInvariant, PTL

=============================================================================
