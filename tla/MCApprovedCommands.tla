------------------------- MODULE MCApprovedCommands -------------------------
EXTENDS ApprovedCommands

(* Environments. *)
NoLayer == [l \in Layers |-> None]
Local(p) == <<"local", p>>
Split(p) == [l \in Layers |-> <<"local", p, l>>]

Plainly ==
  [path |-> None, layer |-> NoLayer, mode |-> "local", layout |-> None, target |-> "bigquery",
   project |-> None, catalog |-> "c", store |-> "lake", overrides |-> <<>>]

LakeA == [Plainly EXCEPT !.path = Local("A"), !.layout = 2]
LakeB == [Plainly EXCEPT !.path = Local("B"), !.target = "duckdb"]
SplitA == [Plainly EXCEPT !.layer = Split("A")]
Partly == [Plainly EXCEPT !.layer = [Split("A") EXCEPT !["ops"] = None]]
Cloud == [Plainly EXCEPT !.path = <<"gs", "A">>, !.mode = "cloud", !.store = "postgres"]
Worker == [LakeA EXCEPT !.overrides = <<[key |-> "k", value |-> 1]>>]
Old == [Plainly EXCEPT !.layout = 1]

Pairs ==
  {<<Plainly, Plainly>>, <<LakeA, LakeB>>, <<SplitA, LakeA>>, <<Cloud, Cloud>>, <<Old, Partly>>}

(* The server and a worker of Airflow. *)
TaskPairs == {<<LakeA, Worker>>, <<Plainly, Worker>>}

(* Commands that are called together. *)
Families ==
  {{"extract"}, {"load", "run"}, {"migrate"}, {"prune"}, {"dbt", "silver-catchup build"},
   {"init-pipeline", "scaffold-ops"}, {"scaffold-dbt"}, {"biglake-register"}, {"iceberg-register"},
   {"lock-release"}, {"silver-catchup-plan"}, {"silver-catchup-cleanup"}, {"backfill"}}

MCScenes ==
  {[server |-> pair[1], shell |-> pair[2], commands |-> family,
    loads |-> IF "silver-catchup-plan" \in family THEN 1 ELSE 0,
    ticks |-> IF "silver-catchup-cleanup" \in family THEN 1 ELSE 0] :
     pair \in Pairs, family \in Families}
  \cup {[server |-> pair[1], shell |-> pair[2], commands |-> {command}, loads |-> 0, ticks |-> 0] :
         pair \in TaskPairs, command \in {"prune", "backfill"}}

(* Flags. *)
Ref(file, form) == [file |-> file, form |-> form]
At(instant, form) == [instant |-> instant, form |-> form]
P == "pipeline" :> Ref("p", "id")
S == "interval_start" :> At(0, "date")
E == "interval_end" :> At(2, "iso")
Half == "interval_end" :> At(3, "iso")
SetTo(v) == "set_" :> <<[key |-> "k", value |-> v]>>
Twice == "set_" :> <<[key |-> "k", value |-> 1], [key |-> "k", value |-> 2]>>
LakePath == "lake_path" :> Local("B")

Variants == {<<>>, SetTo(1), Twice, LakePath, "pipeline" :> Ref("p", "path"),
             "pipeline" :> Ref("p", "outside"), "verbose" :> TRUE}

Windows == {S @@ E, S, "interval_start" :> At(0, "iso") @@ Half}

Around(base, variants) == {v @@ base : v \in variants}

Transfers == Around(P @@ S @@ E, Variants \ {LakePath, "pipeline" :> Ref("p", "path")})
               \cup {w @@ P : w \in Windows}

Migration == P @@ S @@ E @@ ("to_bronze" :> "b") @@ ("schema" :> [file |-> "s", form |-> "plain"])
               @@ ("mapper" :> "m")

Missing(n) == ("manifest_id" :> "planned") @@ ("content_digest" :> <<"p", n>>)

MCLines ==
  ("extract" :> Transfers)
  @@ ("load" :> Around(P @@ S @@ E, {<<>>, "extract_run_datetime" :> 1, LakePath,
                                    "pipeline" :> Ref("p", "path")}))
  @@ ("run" :> Around(P @@ S @@ E, {<<>>, SetTo(1)}))
  @@ ("migrate" :> Around(Migration, {<<>>, "schema" :> [file |-> "s", form |-> "dotted"], LakePath,
                                     "ingestion" :> "thin", "ingestion" :> "dlt",
                                     "wire_version" :> 1, "recreate_iceberg" :> TRUE})
                    \cup {[n \in DOMAIN Migration \ Window |-> Migration[n]]
                            @@ ("all_raw" :> TRUE) @@ ("recreate_iceberg" :> TRUE)})
  @@ ("prune" :> Around(P @@ S @@ E, {<<>>, "keep" :> 2, LakePath, "pipeline" :> Ref("p", "path"),
                                     SetTo(1), S @@ Half}) \cup {P @@ S})
  @@ ("dbt" :> Around(P, {<<>>, "target" :> "t", "select" :> "s", "full_refresh" :> TRUE, LakePath,
                         "project_dir" :> "other",
                         ("catchup" :> TRUE) @@ ("catchup_manifest" :> "planned")}))
  @@ ("silver-catchup build" :> Around("manifest_id" :> "planned", {<<>>, P, "target" :> "t", LakePath}))
  @@ ("init-pipeline" :> Around(("name" :> "n") @@ ("source_type" :> "n"),
                               {<<>>, "force" :> TRUE, "connection" :> "c", LakePath}))
  @@ ("scaffold-dbt" :> Around(P, {<<>>, "force" :> TRUE, SetTo(1)}))
  @@ ("scaffold-ops" :> {<<>>, "force" :> TRUE})
  @@ ("biglake-register" :> {<<>>, P, "skip_ops" :> TRUE, "project" :> "g", LakePath})
  @@ ("iceberg-register" :> {<<>>, P, "skip_ops" :> TRUE, LakePath})
  @@ ("lock-release" :> Around(P, {S @@ E, S, "dataset_id" :> "d", S @@ LakePath}))
  @@ ("silver-catchup-plan" :> Around(P, {<<>>, S @@ E, "census" :> TRUE,
                                         LakePath, Missing(0), Missing(1), Missing(1) @@ LakePath,
                                         "census" :> TRUE @@ Missing(1)})
                                \cup {"all_pipelines" :> TRUE})
  @@ ("silver-catchup-cleanup" :> {"manifest_id" :> "m", "manifest_id" :> "n", "older_than" :> 1,
                                  "created_before" :> 0, "created_before" :> -1})
  @@ ("backfill" :> {S @@ E, "interval_start" :> At(1, "iso") @@ Half, S @@ "interval_end" :> At(4, "date")})
  @@ ("approve" :> {<<>>, LakePath})
=============================================================================
