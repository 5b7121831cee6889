---------------------------- MODULE SchemaUpgrade ----------------------------
(***************************************************************************)
(* storage/schema.py, apply_schema(): every StorageEngine runs it when it  *)
(* opens its file.  Python's sqlite3 begins a transaction before INSERT,   *)
(* UPDATE and DELETE only: until one of those runs, each CREATE, ALTER and *)
(* DROP is committed by itself, and a crash keeps it; from then on all is  *)
(* committed with the version at the very end.                             *)
(*                                                                         *)
(* Another process may hold the write lock longer than busy_timeout: a     *)
(* statement then raises OperationalError, which the upgrade steps take    *)
(* for "column already exists".                                            *)
(***************************************************************************)
EXTENDS Naturals, FiniteSets

CONSTANTS
  FirstVersions,  (* schema_version values of the file found; 0 for none   *)
  MayLock         (* whether another process may hold the write lock       *)

(* Columns by the step that adds them; an index needs those of Indexed.    *)
ColumnsOf == [v5 |-> {"due_at", "stability"}, v6 |-> {"surprise"},
              v7 |-> {"consolidated"}, v10 |-> {"status", "scope"}]
Columns == UNION {ColumnsOf[s] : s \in DOMAIN ColumnsOf}
Indexed == {"due_at", "status"}

SCHEMA_VERSION == 10
VersionOf == [v5 |-> 5, v6 |-> 6, v7 |-> 7, v10 |-> 10]

(* What an old file has: the columns of the steps up to its version.       *)
ColumnsAt(v) == UNION {ColumnsOf[s] : s \in {t \in DOMAIN ColumnsOf : VersionOf[t] <= v}}

(* A new file, or one whose version is in the v2 table "meta", has none of *)
(* the tables yet.                                                         *)
HasTables(v) == v >= 4

ASSUME SchemaConstants ==
  /\ FirstVersions \subseteq 0..SCHEMA_VERSION
  /\ MayLock \in BOOLEAN

VARIABLES
  version,    (* committed schema_version; 0 for none                      *)
  cols,       (* committed columns                                         *)
  encoded,    (* committed: every old vector has its QJL code              *)
  opener,     (* [pc, version, tx, cols, encoded]: the connection opening  *)
  refused     (* history: columns whose ALTER met the lock and was skipped *)

svars == <<version, cols, encoded, opener, refused>>

Closed == [pc |-> "closed", version |-> 0, tx |-> FALSE, cols |-> {}, encoded |-> FALSE]

SchemaInit ==
  /\ version \in FirstVersions
  /\ cols = ColumnsAt(version)
  /\ encoded = (version \notin 4..8)
  /\ opener = Closed
  /\ refused = {}

(* A statement outside a transaction is committed at once.                 *)
Settle(c, e) ==
  IF opener.tx THEN UNCHANGED <<cols, encoded>> ELSE cols' = c /\ encoded' = e

Go(pc, c, e, tx) ==
  opener' = [opener EXCEPT !.pc = pc, !.cols = c, !.encoded = e, !.tx = tx]

(* __init__ reads the version once; a file at the current one is used as   *)
(* it is, and nothing changes.                                             *)
OpenFile ==
  /\ opener.pc = "closed" /\ version # SCHEMA_VERSION
  /\ opener' = [pc |-> "create", version |-> version, tx |-> FALSE,
                cols |-> cols, encoded |-> encoded]
  /\ UNCHANGED <<version, cols, encoded, refused>>

(* CREATE TABLE IF NOT EXISTS makes missing tables with every column.      *)
CreateTables ==
  /\ opener.pc = "create"
  /\ LET c == IF HasTables(opener.version) THEN opener.cols ELSE Columns
     IN  Go("v5", c, opener.encoded, FALSE) /\ Settle(c, opener.encoded)
  /\ UNCHANGED <<version, refused>>

(* Slip: a step is skipped for the version just below its own.             *)
NeededOffByOne(v) == opener.version # 0 /\ opener.version + 1 < v
Needed(v) == opener.version # 0 /\ opener.version < v

(* ALTERs, each swallowing its error: those of skipped met the lock, which *)
(* nobody else can hold once the connection's own transaction has begun.   *)
(* The one of due_at also fails when knowledge_items has rows, since its   *)
(* default is not a constant.  Without due_at the UPDATE after it raises.  *)
AddColumns(step, next, skipped) ==
  /\ opener.pc = step
  /\ skipped # {} => MayLock /\ ~opener.tx /\ Needed(VersionOf[step])
  /\ IF Needed(VersionOf[step])
     THEN LET c == opener.cols \cup (ColumnsOf[step] \ skipped)
              starts == opener.tx \/ step = "v5"   (* UPDATE knowledge_items *)
          IN  /\ step = "v5" => "due_at" \in c
              /\ Go(next, c, opener.encoded, starts)
              /\ Settle(c, opener.encoded)
              /\ refused' = refused \cup (skipped \ opener.cols)
     ELSE Go(next, opener.cols, opener.encoded, opener.tx) /\ UNCHANGED <<cols, encoded, refused>>
  /\ UNCHANGED version

(* _migrate_v8_to_v9: DELETE begins the transaction if none has; every     *)
(* vector gets its code in it.                                             *)
Encode ==
  /\ opener.pc = "v9"
  /\ IF Needed(9) THEN Go("v10", opener.cols, TRUE, TRUE)
     ELSE Go("v10", opener.cols, opener.encoded, opener.tx)
  /\ UNCHANGED <<version, cols, encoded, refused>>

(* The indexes that need the new columns: a missing one raises.            *)
CreateIndexes ==
  /\ opener.pc = "index"
  /\ Indexed \subseteq opener.cols
  /\ Go("stamp", opener.cols, opener.encoded, opener.tx)
  /\ UNCHANGED <<version, cols, encoded, refused>>

(* schema_version, embedding_dim and qjl_seed, and the only commit().      *)
Stamp ==
  /\ opener.pc = "stamp"
  /\ version' = SCHEMA_VERSION
  /\ cols' = opener.cols /\ encoded' = opener.encoded
  /\ opener' = Closed
  /\ UNCHANGED refused

(* A crash, or an error that leaves __init__: what was in a transaction is *)
(* gone.                                                                   *)
Abandon ==
  /\ opener.pc # "closed"
  /\ opener' = Closed
  /\ UNCHANGED <<version, cols, encoded, refused>>

OpenStep ==
  \/ OpenFile
  \/ CreateTables
  \/ \E m \in SUBSET Columns :
       \/ m \subseteq ColumnsOf["v5"] /\ AddColumns("v5", "v6", m)
       \/ m \subseteq ColumnsOf["v6"] /\ AddColumns("v6", "v7", m)
       \/ m \subseteq ColumnsOf["v7"] /\ AddColumns("v7", "v9", m)
       \/ m \subseteq ColumnsOf["v10"] /\ AddColumns("v10", "index", m)
  \/ Encode
  \/ CreateIndexes
  \/ Stamp

SchemaNext == OpenStep \/ Abandon

SchemaSpec == SchemaInit /\ [][SchemaNext]_svars

-----------------------------------------------------------------------------
SchemaTypeOK ==
  /\ version \in 0..SCHEMA_VERSION
  /\ cols \subseteq Columns /\ encoded \in BOOLEAN /\ refused \subseteq Columns
  /\ opener \in [pc : {"closed", "create", "v5", "v6", "v7", "v9", "v10", "index", "stamp"},
                 version : 0..SCHEMA_VERSION, tx : BOOLEAN,
                 cols : SUBSET Columns, encoded : BOOLEAN]

(* A file that says version 10 is complete, whatever it was cut off at and *)
(* however often: its vectors are encoded, every column an index needs is  *)
(* there, and a column that is missing is one whose ALTER met the lock.    *)
(* Nothing upgrades such a file again.                                     *)
VersionMeansComplete ==
  version = SCHEMA_VERSION =>
    encoded /\ Indexed \subseteq cols /\ Columns \ cols \subseteq refused

=============================================================================
