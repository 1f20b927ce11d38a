---------------------------- MODULE ApprovalPlans ----------------------------
(***************************************************************************)
(* The canonical argument list that an approval of a writing command is    *)
(* for, and the flags it covers.  The flags of a command line are a        *)
(* function on the Typer names that were passed.  The flags of an argument *)
(* list come in a fixed order, so the list is the set of its <<flag,       *)
(* value>> pairs; its digest is as good as the list itself.                *)
(***************************************************************************)
EXTENDS LakeRoots, Integers, TLC

Passed(a, name) == name \in DOMAIN a

ValueOf(a, name, default) == IF Passed(a, name) THEN a[name] ELSE default

With(a, name, value) == [n \in DOMAIN a \cup {name} |-> IF n = name THEN value ELSE a[n]]

Option(flag, a, name) == {<<flag, a[n]>> : n \in {name} \cap DOMAIN a}

Switch(flag, a, name) == {<<flag, b>> : b \in {ValueOf(a, name, FALSE)} \cap {TRUE}}

-----------------------------------------------------------------------------
(* Normalised values.  An instant is written as a date or in ISO form, a   *)
(* path with or without a leading "./" or from the root of the file tree.  *)

NormInterval(value) == value.instant

NormRelpath(value) == IF value.form = "dotted" THEN [value EXCEPT !.form = "plain"] ELSE value

Assignments(a) == ValueOf(a, "set_", <<>>)

(* Sorted, so that only how often an assignment occurs is left. *)
SetArgv(a) ==
  IF Assignments(a) = <<>>
  THEN {}
  ELSE {<<"--set", [x \in Range(Assignments(a)) |->
                      Cardinality({i \in DOMAIN Assignments(a) : Assignments(a)[i] = x})]>>}

IntervalArgv(a) ==
  {<<"-s", NormInterval(a.interval_start)>>}
    \cup {<<"-e", NormInterval(a[n])>> : n \in {"interval_end"} \cap DOMAIN a}

-----------------------------------------------------------------------------
(* One builder per command; lake is the result of LakeKwargs.              *)

ExtractArgv(a, lake) == Option("-p", a, "pipeline") \cup IntervalArgv(a) \cup lake \cup SetArgv(a)

LoadArgv(a, lake) ==
  ExtractArgv(a, lake) \cup Option("--extract-run-datetime", a, "extract_run_datetime")

RunArgv(a, lake) == ExtractArgv(a, lake)

MigrateArgv(a, lake) ==
  Option("-p", a, "pipeline") \cup Option("--to-bronze", a, "to_bronze")
    \cup {<<"--schema", NormRelpath(a.schema)>>} \cup Option("--mapper", a, "mapper")
    \cup (IF ValueOf(a, "all_raw", FALSE) THEN {<<"--all-raw", TRUE>>} ELSE IntervalArgv(a))
    \cup Option("--from-raw", a, "from_raw") \cup Option("--wire-version", a, "wire_version")
    \cup Switch("--recreate-iceberg", a, "recreate_iceberg")
    \cup Switch("--all-raw-runs", a, "all_raw_runs")
    \cup Option("--ingestion", a, "ingestion") \cup lake \cup SetArgv(a)

PruneArgv(a, lake) ==
  Option("-p", a, "pipeline") \cup IntervalArgv(a) \cup {<<"--keep", ValueOf(a, "keep", 1)>>}
    \cup {<<"--apply", TRUE>>} \cup lake \cup SetArgv(a)

(* Instants are counted in half days; of a backfill window only the dates  *)
(* count.                                                                  *)
Day == 2

Date(value) == value.instant \div Day

BackfillArgv(a) ==
  {<<"--interval-start", Date(a.interval_start)>>, <<"--interval-end", Date(a.interval_end)>>}

InitPipelineArgv(a) ==
  Option("--name", a, "name") \cup Option("--source-type", a, "source_type")
    \cup {<<"--destination-type", ValueOf(a, "destination_type", "iceberg")>>}
    \cup Option("--connection", a, "connection") \cup Option("--lake-path", a, "lake_path")
    \cup Switch("--skip-dbt", a, "skip_dbt") \cup Switch("--force", a, "force")

ScaffoldDbtArgv(a) ==
  Option("-p", a, "pipeline") \cup Switch("--force", a, "force") \cup SetArgv(a)

ScaffoldOpsArgv(a) == Switch("--force", a, "force")

DbtArgv(a, lake) ==
  {<<"--command", ValueOf(a, "command", "build")>>} \cup Option("-p", a, "pipeline")
    \cup Option("--select", a, "select") \cup Switch("--full-refresh", a, "full_refresh")
    \cup Switch("--catchup", a, "catchup") \cup Option("--catchup-manifest", a, "catchup_manifest")
    \cup Option("--target", a, "target") \cup lake \cup SetArgv(a)

(* resolve_catchup_candidate_scope: a census, an interval or a lookback,   *)
(* of which there is a default.                                            *)
DefaultLookback == 2

ScopeOk(a) ==
  /\ Passed(a, "interval_end") => Passed(a, "interval_start")
  /\ Cardinality({"census", "interval_start", "extract_lookback"} \cap DOMAIN a) <= 1

EffectiveLookback(a) ==
  IF {"census", "interval_start"} \cap DOMAIN a # {}
  THEN None
  ELSE ValueOf(a, "extract_lookback", DefaultLookback)

ScopeArgv(a) ==
  {<<"--extract-lookback", l>> : l \in {EffectiveLookback(a)} \ {None}}
    \cup Switch("--census", a, "census")
    \cup (IF Passed(a, "interval_start") THEN IntervalArgv(a) ELSE {})

CatchupPlanArgv(a, lake) ==
  (IF Passed(a, "all_pipelines") THEN {<<"--all-pipelines", TRUE>>} ELSE Option("-p", a, "pipeline"))
    \cup ScopeArgv(a) \cup ({<<"--limit", ValueOf(a, "limit", 200)>>} \ {<<"--limit", 200>>})
    \cup Option("--manifest-id", a, "manifest_id") \cup Option("--content-digest", a, "content_digest")
    \cup lake

CleanupArgv(a) ==
  Option("--manifest-id", a, "manifest_id") \cup Option("--created-before", a, "created_before")

BiglakeArgv(a, lake) ==
  lake \cup Option("--pipeline", a, "pipeline") \cup Option("--project", a, "project")
    \cup Option("--location", a, "location") \cup Option("--connection", a, "connection")
    \cup Switch("--skip-ops", a, "skip_ops")

(* The catalogue that the environment names is part of the list. *)
IcebergArgv(a, lake, target) ==
  lake \cup Option("--pipeline", a, "pipeline") \cup {<<"--catalog-target", target>>}
    \cup (IF Passed(a, "skip_ops") \/ Passed(a, "pipeline") THEN {<<"--skip-ops", TRUE>>} ELSE {})

LockReleaseArgv(a, lake) ==
  Option("-p", a, "pipeline") \cup {<<"--force", TRUE>>} \cup lake
    \cup (IF Passed(a, "dataset_id") THEN Option("--dataset-id", a, "dataset_id") ELSE IntervalArgv(a))

-----------------------------------------------------------------------------
(* Which flags an approval covers; any other flag is refused under one     *)
(* unless it is neutral.                                                   *)

LakeParams == {"lake_path"} \cup {LayerParam[l] : l \in Layers}

Window == {"interval_start", "interval_end"}

BoundParams ==
  ("extract" :> {"pipeline", "set_"} \cup Window \cup LakeParams)
  @@ ("load" :> {"pipeline", "extract_run_datetime", "set_"} \cup Window \cup LakeParams)
  @@ ("run" :> {"pipeline", "set_"} \cup Window \cup LakeParams)
  @@ ("migrate" :> {"pipeline", "to_bronze", "schema", "mapper", "from_raw", "wire_version",
                    "recreate_iceberg", "all_raw", "all_raw_runs", "ingestion", "set_"}
                     \cup Window \cup LakeParams)
  @@ ("prune" :> {"pipeline", "keep", "apply", "set_"} \cup Window \cup LakeParams)
  @@ ("dbt" :> {"pipeline", "select", "command", "full_refresh", "catchup", "catchup_manifest",
                "target", "set_"} \cup LakeParams)
  @@ ("scaffold-dbt" :> {"pipeline", "force", "set_"})
  @@ ("scaffold-ops" :> {"force"})
  @@ ("init-pipeline" :> {"name", "source_type", "destination_type", "connection", "lake_path",
                          "skip_dbt", "force"})
  @@ ("biglake-register" :> {"pipeline", "project", "location", "connection", "skip_ops", "apply"}
                              \cup LakeParams)
  @@ ("iceberg-register" :> {"pipeline", "skip_ops", "apply"} \cup LakeParams)
  @@ ("lock-release" :> {"pipeline", "dataset_id", "force"} \cup Window \cup LakeParams)
  @@ ("silver-catchup-plan" :> {"pipeline", "all_pipelines", "extract_lookback", "census", "limit",
                                "apply", "manifest_id", "content_digest"} \cup Window \cup LakeParams)
  @@ ("silver-catchup-cleanup" :> {"manifest_id", "created_before", "apply"})

NeutralParams == {"project_root", "project_dir", "lock_ttl_sec", "dry_run", "validate_limit",
                  "list_tables", "older_than"}

UnboundParams(command, line) == DOMAIN line \ (BoundParams[command] \cup NeutralParams)

(* silver-catchup build runs under an approval of dbt, where its           *)
(* --manifest-id is dbt's --catchup-manifest.                              *)
UnboundBuildParams(line) == UnboundParams("dbt", line) \ {"manifest_id"}
=============================================================================
