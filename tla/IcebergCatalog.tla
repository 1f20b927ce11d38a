--------------------------- MODULE IcebergCatalog ---------------------------
(***************************************************************************)
(* One bronze Iceberg table and the catalog that points at it.             *)
(*                                                                         *)
(* "hadoop" is LakeHadoopCatalog: the pointer is a version-hint file that  *)
(* is read, compared and later overwritten.  "rest" stands for the         *)
(* catalogs whose server compares and swaps the pointer in one request     *)
(* (external; used through pyiceberg).  A table is the set of extract runs *)
(* whose rows it holds.  Columns, and the commit that adds one, are left   *)
(* out: every writer has the same schema.                                  *)
(***************************************************************************)
EXTENDS BronzeWorkers

CONSTANT NoTable

VARIABLES
    catalog,     \* "hadoop" or "rest"
    table,       \* the runs in the table the pointer shows, or NoTable
    base,        \* the runs in the table a writer has loaded
    fresh        \* the writers whose base is still what the pointer shows

tableVars == <<catalog, table, base, fresh>>

TableInit ==
    /\ table = NoTable
    /\ base = [w \in Worker |-> {}]
    /\ fresh = {}

-----------------------------------------------------------------------------
\* What a reader of bronze finds.
Rows == IF table = NoTable THEN {} ELSE table

\* A new pointer outdates what every other writer has loaded.
Point(runs, known) ==
    /\ table' = runs
    /\ fresh' = known
    /\ catalog' = catalog

LoadTable(w) ==
    /\ table # NoTable
    /\ base' = [base EXCEPT ![w] = table]
    /\ fresh' = fresh \cup {w}
    /\ UNCHANGED <<catalog, table>>

\* create_table() once its check found no table: the hint is overwritten.
CreateTable(w) ==
    /\ Point({}, {w})
    /\ base' = [base EXCEPT ![w] = {}]

\* Mutant: the snapshot the transaction started from is not asserted.
BaseAssumedFresh(w) == table # NoTable

\* The requirements of the transaction against the table as it is now.
BaseIsCurrent(w) == table # NoTable /\ w \in fresh

\* The rows of the run are replaced by those just parsed.
Publish(w, run) ==
    /\ Point(base[w] \cup {run}, {})
    /\ base' = [base EXCEPT ![w] = {}]

\* The transaction is given up.
Discard(w) ==
    /\ base' = [base EXCEPT ![w] = {}] /\ fresh' = fresh \ {w}
    /\ UNCHANGED <<catalog, table>>

\* purge_iceberg_table(): the pointer goes, then the tree of the location.
DropTable ==
    /\ Point(NoTable, {})
    /\ base' = base
=============================================================================
