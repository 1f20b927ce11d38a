---------------------------- MODULE SilverCatchup ----------------------------
(***************************************************************************)
(* Bronze runs, the incremental silver model, and the catch-up that heals  *)
(* what its watermark misses.                                              *)
(*                                                                         *)
(* Extracts land in bronze in any order; dbt builds silver from what it    *)
(* sees there.  A catch-up session lists bronze, reads silver's coverage,  *)
(* plans the holes (the latest run of an interval that silver does not     *)
(* cover), writes the plan as a pair of immutable objects, builds those    *)
(* runs and checks again.  A Healer is the scheduled heal, which starts    *)
(* over with a fresh manifest id; an Operator goes through dry run,        *)
(* approval of the digest, and apply, and may retry under the same id.     *)
(* Prune and migrate take landed runs out of bronze under all of this.     *)
(* Each listing, silver query, object write and dbt statement is one step. *)
(***************************************************************************)
EXTENDS Integers, FiniteSets

CONSTANTS
    Interval,
    Key,          \* dbt.silver.unique_key values (row hashes by default)
    MaxTs,        \* bound: extract-run timestamps, in seconds
    Healer,
    Operator,
    Deployments,  \* the ways the pipeline may be set up
    NoRun

Session == Healer \cup Operator

\* files: JSONL partitions, or else Iceberg or SQL bronze.  lookback:
\* dbt.silver.lookback, {n} seconds or {} for none.  window: catch-up
\* candidates are the runs of the last so many seconds.  sessions: the
\* catch-ups in use.  runs and losses: bounds of the extracts that start and
\* of those that are taken out of bronze again.
Deployment == [files : BOOLEAN, lookback : SUBSET Nat, window : Nat,
               sessions : SUBSET Session, runs : Nat, losses : Nat]
Ts == 1..MaxTs
Run == [iv : Interval, ts : Ts]
Nothing == {NoRun}   \* no listing, no object

ASSUME ConstantsAssumption ==
    /\ Healer \cap Operator = {}
    /\ MaxTs \in Nat
    /\ Deployments \subseteq Deployment
    /\ NoRun \notin Run

VARIABLES
    setup,     \* the deployment
    clock,     \* the second of the last extract
    rows,      \* the keys each run extracted
    phase,     \* of each run: "none", "raw", "writing" its bronze, "landed"
    visible,   \* the keys of each run that dbt finds in bronze
    lost,      \* history: the runs that were taken out of bronze
    built,     \* the silver table exists
    silver,    \* the run that each key's silver row comes from
    pc,        \* where each catch-up session is
    latest,    \* its listing of bronze, Nothing before it is taken
    plan,      \* the runs it has planned
    sidecar,   \* the .runs.jsonl object under its manifest id
    marker     \* the .json object, whose presence commits the manifest

bronze == <<clock, rows, phase, visible, lost>>
table == <<built, silver>>
session == <<pc, latest, plan, sidecar, marker>>
vars == <<setup, bronze, table, session>>

Diffing == {"before", "plan", "verify"}
Ended   == {"skipped", "healed", "failed"}

TypeOK ==
    /\ setup \in Deployments
    /\ clock \in 0..MaxTs
    /\ rows \in [Run -> SUBSET Key]
    /\ phase \in [Run -> {"none", "raw", "writing", "landed"}]
    /\ visible \in [Run -> SUBSET Key]
    /\ lost \in SUBSET Run
    /\ built \in BOOLEAN
    /\ silver \in [Key -> Run \cup {NoRun}]
    /\ pc \in [Session -> {"idle", "write", "commit", "build"} \cup Diffing \cup Ended]
    /\ latest \in [Session -> (SUBSET Run) \cup {Nothing}]
    /\ plan \in [Session -> SUBSET Run]
    /\ sidecar \in [Session -> (SUBSET Run) \cup {Nothing}]
    /\ marker \in [Session -> (SUBSET Run) \cup {Nothing}]

Init ==
    /\ setup \in Deployments
    /\ clock = 0
    /\ rows = [r \in Run |-> {}]
    /\ phase = [r \in Run |-> "none"]
    /\ visible = [r \in Run |-> {}]
    /\ lost = {}
    /\ built = FALSE
    /\ silver = [k \in Key |-> NoRun]
    /\ pc = [s \in Session |-> "idle"]
    /\ latest = [s \in Session |-> Nothing]
    /\ plan = [s \in Session |-> {}]
    /\ sidecar = [s \in Session |-> Nothing]
    /\ marker = [s \in Session |-> Nothing]

-----------------------------------------------------------------------------
\* Extracts and loads.  Extracts of two intervals may share a second.
Extract ==
    \E r \in Run, ks \in SUBSET Key :
        /\ Cardinality({q \in Run : phase[q] # "none"}) < setup.runs
        /\ r.ts \in {clock, clock + 1}
        /\ phase[r] = "none"
        /\ clock' = r.ts
        /\ rows' = [rows EXCEPT ![r] = ks]
        /\ phase' = [phase EXCEPT ![r] = "raw"]
        /\ UNCHANGED <<setup, visible, lost, table, session>>

Bronze(r, ph, ks) ==
    /\ phase' = [phase EXCEPT ![r] = ph]
    /\ visible' = [visible EXCEPT ![r] = ks]
    /\ UNCHANGED <<setup, clock, rows, lost, table, session>>

\* Mutant: each chunk is a transaction of its own.
LandChunk(r) ==
    /\ ~setup.files /\ phase[r] = "raw"
    /\ \E ks \in SUBSET rows[r] :
           visible[r] \subseteq ks
           /\ Bronze(r, IF ks = rows[r] THEN "landed" ELSE "raw", ks)

\* Iceberg and SQL: delete by run identity and insert, in one transaction, so
\* that loading a run again changes nothing.
Land(r) ==
    /\ ~setup.files /\ phase[r] = "raw"
    /\ Bronze(r, "landed", rows[r])

\* JSONL: the partition is removed, with its commit object when the run is
\* loaded again, then streamed in place, then committed.  A failure removes
\* the partition; a crash leaves it as it is.
FileStart(r) ==
    /\ setup.files /\ phase[r] \in {"raw", "writing", "landed"}
    /\ Bronze(r, "writing", {})

FileStream(r) ==
    /\ phase[r] = "writing"
    /\ \E k \in rows[r] \ visible[r] : Bronze(r, "writing", visible[r] \cup {k})

FileCommit(r) ==
    /\ phase[r] = "writing" /\ visible[r] = rows[r]
    /\ Bronze(r, "landed", rows[r])

FileFails(r) ==
    /\ phase[r] = "writing"
    /\ Bronze(r, "raw", {})

\* Rows leave bronze.  The raw extract may stay, to be loaded again.
Lose(runs) ==
    /\ Cardinality(lost \cup runs) <= setup.losses
    /\ lost' = lost \cup runs
    /\ phase' = [r \in Run |-> IF r \in runs THEN "raw" ELSE phase[r]]
    /\ visible' = [r \in Run |-> IF r \in runs THEN {} ELSE visible[r]]
    /\ UNCHANGED <<setup, clock, rows, table, session>>

\* Prune: a run that had a newer one of its interval beside it when the prune
\* was planned.
Prune(r) ==
    /\ phase[r] = "landed"
    /\ \E q \in Run : q.iv = r.iv /\ q.ts > r.ts /\ phase[q] # "none"
    /\ Lose({r})

\* migrate --recreate-iceberg purges the table, and loads what it picks.
Recreate ==
    /\ ~setup.files
    /\ \E r \in Run : phase[r] = "landed"
    /\ Lose({r \in Run : phase[r] = "landed"})

-----------------------------------------------------------------------------
\* The silver model.  Of the rows of `batch` with one key, the newest run's
\* replaces the key's silver row; among equals row_number() picks any.
Newest(S) == {r \in S : \A q \in S : q.ts <= r.ts}

Merge(batch) ==
    /\ silver' \in [Key -> Run \cup {NoRun}]
    /\ \A k \in Key : IF batch[k] = {} THEN silver'[k] = silver[k]
                                       ELSE silver'[k] \in Newest(batch[k])

SilverTs(k) == IF silver[k] = NoRun THEN 0 ELSE silver[k].ts

\* det_silver_incremental_filter: watermark > max(this), or, with a lookback,
\* >= max(this) - lookback.
PastWatermark(r) ==
    \A k \in Key : r.ts > SilverTs(k) \/ \E n \in setup.lookback : r.ts >= SilverTs(k) - n

\* A normal build.  The first one creates the table and takes every row.
WatermarkBuild ==
    /\ Merge([k \in Key |-> {r \in Run : k \in visible[r] /\ PastWatermark(r)}])
    /\ built' = TRUE
    /\ UNCHANGED <<setup, bronze, session>>

\* Mutant: the guard is dropped.
Unguarded(r, k) == TRUE

\* det_silver_catchup_guard: a key silver has not got, or a newer row of it.
Guarded(r, k) == silver[k] = NoRun \/ r.ts > SilverTs(k)

CatchupBatch(runs) ==
    [k \in Key |-> {r \in runs : k \in visible[r] /\ Guarded(r, k)}]

-----------------------------------------------------------------------------
\* diff_bronze_silver.  A JSONL run is listed once it is committed, another
\* one when it has rows.  The listing is widened to the siblings of every
\* recent run, and its latest run per interval is what silver must cover.
ListedFile(r) == phase[r] = "landed"

ListedRows(r) == visible[r] # {}

Listed(r) == IF setup.files THEN ListedFile(r) ELSE ListedRows(r)

Recent(r) == r.ts >= clock - setup.window

Candidates ==
    {r \in Run : Listed(r) /\ \E q \in Run : q.iv = r.iv /\ Listed(q) /\ Recent(q)}

LatestPerInterval(S) == {r \in S : \A q \in S : q.iv = r.iv => q.ts <= r.ts}

\* Mutant: the coverage key is the run's timestamp alone.
CoveredByTimestamp(r) == \E k \in Key : silver[k] # NoRun /\ silver[k].ts = r.ts

Covered(r) == \E k \in Key : silver[k] = r

Holes(runs) == {r \in runs : ~Covered(r)}

Goto(s, label) == pc' = [pc EXCEPT ![s] = label]

DiffList(s) ==
    /\ pc[s] \in Diffing /\ latest[s] = Nothing
    /\ latest' = [latest EXCEPT ![s] = LatestPerInterval(Candidates)]
    /\ UNCHANGED <<setup, bronze, table, pc, plan, sidecar, marker>>

\* The silver query of a diff, and what the session does with its holes.
DiffBefore(s, holes) ==
    /\ pc[s] = "before"
    /\ Goto(s, IF holes = {} THEN "skipped" ELSE "plan")
    /\ plan' = [plan EXCEPT ![s] = IF s \in Operator THEN holes ELSE {}]

\* Mutant: the approved digest is not compared with the live plan.
DiffPlanUnchecked(s, holes) ==
    /\ pc[s] = "plan"
    /\ Goto(s, IF holes = {} THEN "skipped" ELSE "write")
    /\ plan' = [plan EXCEPT ![s] = holes]

DiffPlan(s, holes) ==
    /\ pc[s] = "plan"
    /\ IF s \in Operator
         THEN Goto(s, IF holes = plan[s] THEN "write" ELSE "failed") /\ plan' = plan
         ELSE /\ Goto(s, IF holes = {} THEN "skipped" ELSE "write")
              /\ plan' = [plan EXCEPT ![s] = holes]

DiffVerify(s, holes) ==
    /\ pc[s] = "verify"
    /\ Goto(s, IF holes = {} THEN "healed" ELSE "failed")
    /\ plan' = plan

\* Without a silver table the diff raises, for it asks for complete coverage.
\* It does not look for the table if no interval is left to ask about, unless
\* the whole database is missing.
DiffRaises(s) ==
    /\ pc[s] \in Diffing /\ ~built
    /\ Goto(s, "failed")
    /\ plan' = plan

DiffRead(s) ==
    /\ latest[s] # Nothing
    /\ \/ DiffRaises(s)
       \/ /\ built \/ latest[s] = {}
          /\ LET holes == Holes(latest[s])
             IN  DiffBefore(s, holes) \/ DiffPlan(s, holes) \/ DiffVerify(s, holes)
    /\ latest' = [latest EXCEPT ![s] = IF pc[s] = "verify" THEN @ ELSE Nothing]
    /\ UNCHANGED <<setup, bronze, table, sidecar, marker>>

Start(s) ==
    /\ pc[s] = "idle" /\ s \in setup.sessions
    /\ Goto(s, "before")
    /\ UNCHANGED <<setup, bronze, table, latest, plan, sidecar, marker>>

-----------------------------------------------------------------------------
\* write_catchup_manifest: the sidecar first, then the commit marker.  An
\* equal sidecar that a failed attempt left behind is taken over.
WriteSidecar(s) ==
    /\ pc[s] = "write"
    /\ IF marker[s] # Nothing \/ sidecar[s] \notin {Nothing, plan[s]}
         THEN Goto(s, "failed") /\ sidecar' = sidecar
         ELSE Goto(s, "commit") /\ sidecar' = [sidecar EXCEPT ![s] = plan[s]]
    /\ UNCHANGED <<setup, bronze, table, latest, plan, marker>>

WriteMarker(s) ==
    /\ pc[s] = "commit"
    /\ marker' = [marker EXCEPT ![s] = plan[s]]
    /\ Goto(s, "build")
    /\ UNCHANGED <<setup, bronze, table, latest, plan, sidecar>>

\* det dbt --catchup: DuckDB reads the marker, BigQuery the sidecar once its
\* digest is the marker's.
Build(s) ==
    /\ pc[s] = "build" /\ sidecar[s] = marker[s]
    /\ Merge(CatchupBatch(marker[s]))
    /\ Goto(s, "verify")
    /\ UNCHANGED <<setup, bronze, built, latest, plan, sidecar, marker>>

\* A session is cut short.  An operator applies again what was approved.
Crash(s) ==
    /\ pc[s] \notin Ended \cup {"idle"}
    /\ Goto(s, IF s \in Operator /\ pc[s] \in {"write", "commit", "build"}
               THEN "plan" ELSE "failed")
    /\ latest' = [latest EXCEPT ![s] = Nothing]
    /\ UNCHANGED <<setup, bronze, table, plan, sidecar, marker>>

\* The next scheduled heal, or the operator's next dry run: a fresh id.
StartOver(s) ==
    /\ pc[s] \in Ended
    /\ Goto(s, "idle")
    /\ latest' = [latest EXCEPT ![s] = Nothing]
    /\ plan' = [plan EXCEPT ![s] = {}]
    /\ sidecar' = [sidecar EXCEPT ![s] = Nothing]
    /\ marker' = [marker EXCEPT ![s] = Nothing]
    /\ UNCHANGED <<setup, bronze, table>>

Load(r) ==
    Land(r) \/ FileStart(r) \/ FileStream(r) \/ FileCommit(r) \/ FileFails(r)

Catchup(s) ==
    \/ Start(s) \/ DiffList(s) \/ DiffRead(s) \/ WriteSidecar(s)
    \/ WriteMarker(s) \/ Build(s) \/ StartOver(s)

Next ==
    \/ Extract \/ WatermarkBuild \/ Recreate
    \/ \E r \in Run : Load(r) \/ Prune(r)
    \/ \E s \in Session : Catchup(s) \/ Crash(s)

Spec == Init /\ [][Next]_vars

\* The scheduler runs heals for ever, and not every one is cut short.
FairSpec ==
    /\ Spec
    /\ \A s \in Healer : WF_vars(Catchup(s))
    /\ <>[][\A s \in Session : ~Crash(s)]_vars

-----------------------------------------------------------------------------
\* Every row of the run is in silver, or a row at least as new is.
Reflected(r) == \A k \in rows[r] : SilverTs(k) >= r.ts

\* No build replaces a silver row by an older one: a catch-up never, and a
\* watermark build only when it looks back and bronze has lost the row.
NeverDemotes ==
    [][\A k \in Key : silver'[k] # silver[k] =>
          /\ silver'[k] # NoRun
          /\ \/ silver'[k].ts >= SilverTs(k)
             \/ /\ setup.lookback # {} /\ k \notin visible[silver[k]]
                /\ UNCHANGED session]_vars

\* A run whose rows silver may have given up again: a build that looks back
\* does so once bronze has lost them.
GivenUp(r) == setup.lookback # {} /\ r \in lost

\* One row of a run in silver stands for all of them, which is what lets the
\* diff ask for a coverage key and not for rows.
CoverageIsComplete ==
    ~setup.files =>
        \A k \in Key : silver[k] # NoRun /\ ~GivenUp(silver[k]) => Reflected(silver[k])

\* What a verified session has listed is in silver, row by row.
HealedIsReflected ==
    ~setup.files =>
        \A s \in Session : pc[s] = "healed" =>
            \A r \in latest[s] : GivenUp(r) \/ Reflected(r)

\* The two objects of a committed manifest agree, with each other and with
\* what was approved, whatever landed or crashed since.
ManifestAsPlanned ==
    \A s \in Session : marker[s] # Nothing =>
        sidecar[s] = marker[s] /\ marker[s] = plan[s]

\* The run has a row that no other run as new has extracted.
HasOwnRow(r) == \E k \in rows[r] : \A q \in Run \ {r} : k \in rows[q] => q.ts < r.ts

InSilver(r) == \E k \in Key : silver[k] = r

\* The heals alone get a run that landed into silver, and its coverage key
\* with it, so that they end without a hole.  Not so a run whose every row
\* some other run as new has too: that of an interval with a newer run does
\* not matter, that of another interval is a hole for ever.
ReachesSilver ==
    \A r \in Run :
        (/\ ~setup.files /\ setup.sessions \cap Healer # {}
         /\ built /\ phase[r] = "landed") ~>
            \/ InSilver(r)
            \/ ~HasOwnRow(r)
            \/ phase[r] # "landed"
            \/ \E q \in Run : q.iv = r.iv /\ q.ts > r.ts /\ phase[q] = "landed"

=============================================================================
