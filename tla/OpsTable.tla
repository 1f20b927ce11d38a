------------------------------ MODULE OpsTable ------------------------------
(***************************************************************************)
(* The way of a receipt from an attempt into the table ops.run_receipts,   *)
(* and from there to the tests of the ops build:                           *)
(*   - workers attempt extracts and loads, and record what became of them; *)
(*   - runs-materialize and the daily DAG replace the table's days, one    *)
(*     commit each, by what a scan of the log has found                    *)
(*     (runtime/receipts_materialize.py);                                  *)
(*   - the table is pointed at by the version hint of the lake, by an      *)
(*     outside catalog, or by both, and BigQuery serves what was last      *)
(*     registered there (iceberg_register.py, biglake_register.py).        *)
(***************************************************************************)
EXTENDS RunReceipts

CONSTANTS
  Materializer,
  Airflow,       \* the materializer that the DAG runs; the others are commands
  Attempted,     \* pairs of a pipeline and a command
  Errors,        \* what a body may raise: sets of instances
  Policies,      \* the SLOs of the pipelines, in the variants to be checked
  Deployments,   \* catalog, materializers, bigquery, and the table that is there
  Hours,         \* that pass in a tick of the clock
  MaxAttempts, MaxClock  \* bounds

(* What a body raises is an exception of the table or a plugin's; a policy *)
(* resolves to hours (an SLO without a cadence and without recency_hours   *)
(* is refused).  A table that is there has no row of the attempts to come. *)
ASSUME OpsConstants ==
  /\ Airflow \in Materializer
  /\ Hours \in Nat
  /\ None \notin Errors \cup {{}}
  /\ Errors \subseteq {Instances(c) : c \in DOMAIN Lineage} \cup {FromPlugin(c) : c \in DOMAIN Lineage}
  /\ \A policy \in Policies : \A row \in FlattenSloRows(policy) :
       row.hours \in [recency : Nat, score : Nat]
  /\ \A d \in Deployments :
       d.table \in {None} \cup [rows : {EmptyBag}, columns : {"all", "older", "other"},
                               partitioned : BOOLEAN, snapshot : {FALSE}]

VARIABLES
  attempt,       \* in the order of their start, with what its body has raised,
                 \* None while it runs, and the release of its lease
  deployment,    \* which catalog, who materialises, what the ops build reads
  tables,        \* what hint, metastore and external point at, or None
  job,           \* of each materializer
  fresh,         \* the jobs whose base is still what the pointer shows
  daily          \* the last day that the DAG has materialised

vars == <<clock, log, attempt, deployment, tables, job, fresh, daily>>

attempts == <<log, attempt>>

pointers == <<deployment, tables, job, fresh, daily>>

-----------------------------------------------------------------------------
(* Attempts.                                                               *)

Begin(what) ==
  /\ Len(attempt) < MaxAttempts
  /\ attempt' = Append(attempt, [id |-> Len(attempt) + 1, what |-> what, started |-> clock,
                                 body |-> None, release |-> {}])
  /\ UNCHANGED <<clock, log, pointers>>

(* The body ends, then the lease is released if it was acquired (within a  *)
(* run that is left to the run), and the receipt is written.  One that is  *)
(* killed, or whose receipt is switched off or cannot be written, which    *)
(* fails no attempt, is one that never ends here.                          *)
End(id) ==
  /\ attempt[id].body = None
  /\ \E body \in Errors \cup {{}}, release \in {{}, Instances("OSError")} :
       /\ attempt' = [attempt EXCEPT ![id].body = body, ![id].release = release]
       /\ log' = log \cup {Payload(attempt[id], Raised(body, release))}
  /\ UNCHANGED <<clock, pointers>>

-----------------------------------------------------------------------------
(* Materialisation.  A table has rows, columns (those of this version,     *)
(* those of an older one, or one of another type), may be partitioned by   *)
(* attempt_date or not, and has a snapshot once something was committed.   *)

NewTable == [rows |-> EmptyBag, columns |-> "all", partitioned |-> TRUE, snapshot |-> FALSE]

\* No table is none.
ASSUME NoTableAssumption == NewTable # None

(* Of a scan its day and what the log had then are kept, too.              *)
IdleJob ==
  [pc |-> "idle", window |-> {}, days |-> {}, scan |-> {}, began |-> 0, logged |-> {},
   base |-> NewTable, alone |-> FALSE]

Current == IF deployment.catalog = "hadoop" THEN "hint" ELSE "metastore"

Running(m) == job[m].pc # "idle"

(* A step of m points the catalog at another version, and goes on as in    *)
(* after.                                                                  *)
Point(m, table, after, holders) ==
  /\ tables' = [tables EXCEPT ![Current] = table]
  /\ fresh' = holders
  /\ job' = [n \in Materializer |-> IF n = m THEN after ELSE [job[n] EXCEPT !.alone = FALSE]]

Goto(m, pc) == job' = [job EXCEPT ![m].pc = pc]

Stop(m) ==
  /\ job' = [job EXCEPT ![m] = IdleJob]
  /\ fresh' = fresh \ {m}

Rest == <<clock, attempts, deployment, daily>>

(* The log is scanned before the catalog is asked for anything.  Whatever  *)
(* of it may be unread, for an error that is swallowed or because it is    *)
(* written while the days are listed.                                      *)
Scan(m, since, until) ==
  /\ m \in deployment.materializers
  /\ ~Running(m)
  /\ LET days == AttemptWindow(since, until)
     IN  /\ days # {}
         /\ \E unread \in SUBSET log :
              job' = [job EXCEPT ![m] =
                        [pc |-> "ensure", window |-> days, days |-> days,
                         scan |-> IterReceipts(days, unread), began |-> Today, logged |-> log,
                         base |-> NewTable,
                         alone |-> \A n \in Materializer \ {m} : ~Running(n)]]
  /\ UNCHANGED <<Rest, tables, fresh>>

RunsMaterialize(m) == m # Airflow /\ Scan(m, None, None)

(* The DAG of a day runs once the day is over; it may be run again if it   *)
(* failed.                                                                 *)
DailyDag ==
  /\ daily < Today - 1
  /\ Scan(Airflow, Today - 1, Today)

Live(table) == {AttemptDate(r) : r \in DOMAIN table.rows}

OfDay(m, day) == {r \in job[m].scan : AttemptDate(r) = day}

(* Mutant: the partitions that the metadata lists are trusted, whatever    *)
(* the table is partitioned by.                                            *)
ShouldDeleteListed(table, day) ==
  table.partitioned /\ day \in Live(table)

(* The rows of a day are deleted by their date when the table is not       *)
(* partitioned by it.                                                      *)
ShouldDelete(table, day) ==
  IF table.partitioned THEN day \in Live(table) ELSE table.snapshot

(* Mutant: a day without a receipt is left alone. *)
NothingToReplace(table, day, receipts) == receipts = {}

NothingToDo(table, day, receipts) == receipts = {} /\ ~ShouldDelete(table, day)

(* Mutant: the filter of the delete is always true. *)
ReplacedAll(table, day, receipts) ==
  LET others == {r \in DOMAIN table.rows : ~ShouldDelete(table, day)}
  IN  [table EXCEPT !.rows = [r \in others |-> table.rows[r]] (+) SetToBag(receipts),
                    !.snapshot = TRUE]

Replaced(table, day, receipts) ==
  LET others == {r \in DOMAIN table.rows : AttemptDate(r) # day \/ ~ShouldDelete(table, day)}
  IN  [table EXCEPT !.rows = [r \in others |-> table.rows[r]] (+) SetToBag(receipts),
                    !.snapshot = TRUE]

(* The days that are left, once those are skipped that the loaded table    *)
(* has nothing to do for.                                                  *)
DaysLeft(m, table) ==
  {day \in job[m].days : \E d \in job[m].days : d <= day /\ ~NothingToDo(table, d, OfDay(m, d))}

Replacing(m, table) == [job[m] EXCEPT !.pc = "replace", !.base = table, !.days = DaysLeft(m, table)]

NextDay(m) == CHOOSE day \in job[m].days : \A d \in job[m].days : day <= d

(* ensure_ops_run_receipts_table, and load_table after every commit.       *)
Load(m) ==
  /\ job[m].pc \in {"ensure", "load"}
  /\ tables[Current] # None
  /\ LET table == tables[Current]
     IN  IF table.columns = "other" THEN Stop(m)
         ELSE /\ fresh' = fresh \cup {m}
              /\ job' = [job EXCEPT ![m] =
                           IF job[m].pc = "load" \/ table.columns = "all" THEN Replacing(m, table)
                           ELSE [@ EXCEPT !.pc = "evolve", !.base = table]]
  /\ UNCHANGED <<Rest, tables>>

NoSuchTable(m) ==
  /\ job[m].pc = "ensure"
  /\ tables[Current] = None
  /\ Goto(m, "create")
  /\ UNCHANGED <<Rest, tables, fresh>>

(* A REST catalog refuses to create what is there; the version hint was    *)
(* looked for just before, and is overwritten.                             *)
Create(m) ==
  /\ job[m].pc = "create"
  /\ IF deployment.catalog = "rest" /\ tables["metastore"] # None
     THEN Stop(m) /\ UNCHANGED tables
     ELSE Point(m, NewTable, Replacing(m, NewTable), {m})
  /\ UNCHANGED Rest

(* The version that m is about to commit: its base with the columns it     *)
(* lacked, or with a day replaced.                                         *)
Staged(m) ==
  IF job[m].pc \in {"evolve", "evolve hint"} THEN [job[m].base EXCEPT !.columns = "all"]
  ELSE Replaced(job[m].base, NextDay(m), OfDay(m, NextDay(m)))

Committed(m) ==
  [job[m] EXCEPT !.pc = "load", !.base = NewTable,
                 !.days = IF job[m].pc \in {"evolve", "evolve hint"} THEN @ ELSE @ \ {NextDay(m)}]

(* The transaction asserts the version it started from.  A REST catalog    *)
(* compares and swaps at once; the version hint is compared in one step    *)
(* and overwritten in another.                                             *)
Commit(m) ==
  /\ job[m].pc = "evolve" \/ (job[m].pc = "replace" /\ job[m].days # {})
  /\ IF m \notin fresh THEN Stop(m) /\ UNCHANGED tables
     ELSE IF deployment.catalog = "rest" THEN Point(m, Staged(m), Committed(m), {})
     ELSE /\ Goto(m, IF job[m].pc = "evolve" THEN "evolve hint" ELSE "hint")
          /\ UNCHANGED <<tables, fresh>>
  /\ UNCHANGED Rest

WriteHint(m) ==
  /\ job[m].pc \in {"hint", "evolve hint"}
  /\ Point(m, Staged(m), Committed(m), {})
  /\ UNCHANGED Rest

Finish(m) ==
  /\ job[m].pc = "replace"
  /\ job[m].days = {}
  /\ Stop(m)
  /\ daily' = IF m = Airflow THEN CHOOSE day \in job[m].window : TRUE ELSE daily
  /\ UNCHANGED <<clock, attempts, deployment, tables>>

(* Between a load and the commit that follows nothing is written: to be    *)
(* killed there is to be killed before the load.                           *)
Kill(m) ==
  /\ job[m].pc \in {"ensure", "create", "load", "hint", "evolve hint"}
  /\ Stop(m)
  /\ UNCHANGED <<Rest, tables>>

Step(m) ==
  Load(m) \/ NoSuchTable(m) \/ Create(m) \/ Commit(m) \/ WriteHint(m) \/ Finish(m)

-----------------------------------------------------------------------------
(* Registration names the metadata file that the version hint shows or,   *)
(* without one, the last that there is.  (What happens between its plan    *)
(* and the approved call makes the registered version older, no more.)     *)

MetadataUri == IF tables["hint"] # None THEN tables["hint"] ELSE tables["metastore"]

(* An external table is created or replaced.                               *)
BigLakeRegister ==
  /\ deployment.bigquery
  /\ MetadataUri # None
  /\ tables' = [tables EXCEPT !["external"] = MetadataUri]
  /\ UNCHANGED <<Rest, job, fresh>>

(* A catalog that has the table already is left as it is.                  *)
IcebergRegister ==
  /\ deployment.catalog = "rest"
  /\ tables["metastore"] = None
  /\ MetadataUri # None
  /\ tables' = [tables EXCEPT !["metastore"] = MetadataUri]
  /\ job' = [m \in Materializer |-> [job[m] EXCEPT !.alone = FALSE]]
  /\ UNCHANGED <<Rest, fresh>>

-----------------------------------------------------------------------------
(* The world.                                                              *)

(* A bucket's lifecycle rule removes the receipts of a day.                *)
ExpireReceipts ==
  /\ \E day \in {AttemptDate(r) : r \in log} :
       day < Today /\ log' = {r \in log : AttemptDate(r) # day}
  /\ UNCHANGED <<clock, attempt, pointers>>

Tick ==
  /\ clock < MaxClock
  /\ clock' = clock + Hours
  /\ UNCHANGED <<attempts, pointers>>

Init ==
  /\ clock = 0
  /\ log = {}
  /\ attempt = <<>>
  /\ deployment \in Deployments
  /\ tables = [hint |-> deployment.table, metastore |-> None, external |-> None]
  /\ job = [m \in Materializer |-> IdleJob]
  /\ fresh = {}
  /\ daily = Today - 2

Next ==
  \/ \E what \in Attempted : Begin(what)
  \/ \E id \in DOMAIN attempt : End(id)
  \/ \E m \in Materializer : RunsMaterialize(m) \/ Step(m) \/ Kill(m)
  \/ DailyDag
  \/ BigLakeRegister \/ IcebergRegister
  \/ ExpireReceipts \/ Tick

Spec == Init /\ [][Next]_vars

-----------------------------------------------------------------------------
(* Properties.                                                             *)

(* The table has no attempt twice, as its source declares (attempt_id is   *)
(* unique), and none that left no receipt: through crashes between two     *)
(* days, overlapping materialisations, lost commits, and on a table that   *)
(* is not partitioned by attempt_date.                                     *)
OneRowPerAttempt ==
  \A p \in DOMAIN tables : tables[p] # None =>
    LET rows == tables[p].rows
    IN  /\ \A r \in DOMAIN rows : rows[r] = 1 /\ r.id \in DOMAIN attempt
        /\ \A r, s \in DOMAIN rows : r.id = s.id => r = s

(* "Replace Iceberg partitions for each attempt-date in [since, until).    *)
(* [...] Empty days delete the partition" (materialize_receipts): when no  *)
(* other materialisation overlaps, the daily model over the window then    *)
(* says what the summary of the receipts says.                             *)
DailyAgreesWithSummary ==
  \A m \in Materializer :
    job[m].pc = "replace" /\ job[m].days = {} /\ job[m].alone =>
      \A what \in Attempted, day \in job[m].window :
        RunDaily(tables[Current].rows, day, what) = Summary(OfDay(m, day), what)

(* What a materialisation has read it leaves in the table, whatever others *)
(* do meanwhile: the row of a receipt that is still there leaves only      *)
(* through one that could not read the receipt; through one that is not    *)
(* alone and has scanned the log before the receipt was written; or        *)
(* through a commit that overwrites the version hint another has written   *)
(* since it was compared.                                                  *)
Missed(m) == {r \in job[m].logged : AttemptDate(r) \in job[m].window} \ job[m].scan

Overwrites(m) ==
  \/ job[m].pc = "create" /\ deployment.catalog # "rest"
  \/ job[m].pc \in {"hint", "evolve hint"} /\ m \notin fresh

MayTake(m, r) ==
  \/ r \in Missed(m)
  \/ ~job[m].alone /\ (r \notin job[m].logged \/ Overwrites(m))

RowsStay ==
  [][\A p \in {"hint", "metastore"} :
       tables[p] # None /\ tables'[p] # None =>
         \A r \in DOMAIN tables[p].rows :
           r \in log /\ r \notin DOMAIN tables'[p].rows =>
             \E m \in Materializer : Running(m) /\ MayTake(m, r)]_vars

(* What the ops build reads.                                               *)
Served == tables[IF deployment.bigquery THEN "external" ELSE "hint"]

(* When the SLO tests of the ops build pass, however old the table is that *)
(* they are served, each pair that has promised it was attempted within    *)
(* its hours of recency and went well, release of the lease included; and  *)
(* no attempt that they were shown in the scored hours broke a contract,   *)
(* whoever wrapped the exception, unless its release failed as well: that  *)
(* error is recorded in place of the other, and no test fails on it.       *)
BreaksContract(raised) ==
  raised \cap {"HttpIntegrityError", "SecretError", "DetContractError", "ValidationError"} # {}

VerdictIsTrue ==
  \A policy \in Policies : \A row \in FlattenSloRows(policy) :
    Served # None /\ SloHolds(Served.rows, row) =>
      /\ \E r \in DOMAIN Served.rows :
           /\ r.what = row.what /\ clock - r.started <= row.hours.recency
           /\ attempt[r.id].body = {} /\ attempt[r.id].release = {}
      /\ \A r \in DOMAIN Served.rows :
           r.what = row.what /\ clock - r.started <= row.hours.score
             /\ BreaksContract(attempt[r.id].body)
               => attempt[r.id].release # {}

(* At its end a materialisation that was alone has put into the table      *)
(* every receipt that lay in the log when it began and could be read: of   *)
(* the last WindowDays days up to that hour by a command, of the day       *)
(* before by the DAG.                                                      *)
Promised(m) ==
  {r \in job[m].logged \ Missed(m) :
     LET ago == job[m].began - AttemptDate(r)
     IN  ago \in IF m = Airflow THEN {1} ELSE 0 .. WindowDays - 1}

TableSettles ==
  \A m \in Materializer :
    job[m].pc = "replace" /\ job[m].days = {} /\ job[m].alone =>
      Promised(m) \subseteq DOMAIN tables[Current].rows
=============================================================================
