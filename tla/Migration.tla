----------------------------- MODULE Migration -----------------------------
(***************************************************************************)
(* migrate of internal/store/sqlite.go: what store.Open does to the        *)
(* database file before anything else is done with it.  The tables and the *)
(* index are created if they do not exist; then each column that a later   *)
(* release has added to tunnels is looked for, and added when it is not    *)
(* there.  Every statement commits by itself.                              *)
(***************************************************************************)
EXTENDS Naturals, Sequences

VARIABLES
    schema,     \* tables, index and added columns that the file has
    migration   \* the next statement: what it is about, and which it is

migrationVars == <<schema, migration>>

Tables == <<"tunnels", "operations", "api_keys", "idx_operations_created_at">>

Columns == <<"failure_count", "masquerade", "peer_address", "retry_at">>

Order == Tables \o Columns

Objects == {Order[i] : i \in 1..Len(Order)}

Later == {Columns[i] : i \in 1..Len(Columns)}

Beginning == [next |-> 1, pc |-> "look"]

Migrated == migration.next > Len(Order)

Subject == Order[migration.next]

Advance == migration' = [next |-> migration.next + 1, pc |-> "look"]

-----------------------------------------------------------------------------
(* CREATE ... IF NOT EXISTS: a table tunnels that is new has every column. *)
CreateObject ==
    /\ migration.next <= Len(Tables)
    /\ schema' = schema \cup {Subject}
                        \cup (IF Subject = "tunnels" /\ Subject \notin schema
                              THEN Later ELSE {})
    /\ Advance

AtColumn == migration.next > Len(Tables) /\ ~Migrated

Inspect_EndsMigration ==
    /\ AtColumn
    /\ migration.pc = "look"
    /\ migration' = IF Subject \in schema
                    THEN [migration EXCEPT !.next = Len(Order) + 1]
                    ELSE [migration EXCEPT !.pc = "alter"]
    /\ UNCHANGED schema

Inspect_NeverLooks ==
    /\ AtColumn
    /\ migration.pc = "look"
    /\ migration' = [migration EXCEPT !.pc = "alter"]
    /\ UNCHANGED schema

(* ensureColumn reads PRAGMA table_info. *)
Inspect ==
    /\ AtColumn
    /\ migration.pc = "look"
    /\ IF Subject \in schema THEN Advance
                             ELSE migration' = [migration EXCEPT !.pc = "alter"]
    /\ UNCHANGED schema

(* The rows of the PRAGMA end early: rows.Err is not asked, so a column that
   is there may be taken for missing. *)
InspectCutShort ==
    /\ AtColumn
    /\ migration.pc = "look"
    /\ migration' = [migration EXCEPT !.pc = "alter"]
    /\ UNCHANGED schema

(* ALTER TABLE ... ADD COLUMN fails on a column that is there. *)
AddColumn ==
    /\ AtColumn
    /\ migration.pc = "alter"
    /\ Subject \notin schema
    /\ schema' = schema \cup {Subject}
    /\ Advance

DuplicateColumn == AtColumn /\ migration.pc = "alter" /\ Subject \in schema

Migrate == CreateObject \/ Inspect \/ AddColumn

(* No file yet, or that of an earlier release. *)
MigrationInit ==
    /\ \/ schema = {}
       \/ \E columns \in SUBSET Later : schema = (Objects \ Later) \cup columns
    /\ migration = Beginning

MigrationTypeOK ==
    /\ schema \subseteq Objects
    /\ migration \in [next: 1..(Len(Order) + 1), pc: {"look", "alter"}]
    /\ migration.pc = "alter" => AtColumn
=============================================================================
