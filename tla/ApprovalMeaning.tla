--------------------------- MODULE ApprovalMeaning ----------------------------
(***************************************************************************)
(* What an approval says.  An approval keeps the argument list that was    *)
(* shown; Means reads from such a list, and from nothing else, what a      *)
(* command with that list does: the data, the place and the configuration. *)
(* ApprovalProofs shows that each effect is what its list means, so that   *)
(* commands with the same list do the same.                                *)
(***************************************************************************)
EXTENDS ApprovedCommands

\* The values that an argument list gives a flag, of which there is at most
\* one.
Values(argv, flag) == {x[2] : x \in {y \in argv : y[1] = flag}}

Has(argv, flag) == Values(argv, flag) # {}

Only(S) == CHOOSE value \in S : TRUE

Given(argv, flag, default) == IF Has(argv, flag) THEN Only(Values(argv, flag)) ELSE default

\* The roots of the lake, from its flags.
LayersIn(argv) == [l \in Layers |-> Given(argv, LayerFlag[l], None)]

LakeIn(argv) ==
    IF \E l \in Layers : LayersIn(argv)[l] # None
    THEN LayersIn(argv)
    ELSE LET parent == Given(argv, "--lake-path", DefaultLake)
         IN  [raw |-> JoinChild(parent, "raw"), bronze |-> JoinChild(parent, "bronze"),
              ops |-> parent]

PathIn(argv, flag, otherwise) ==
    IF Has(argv, flag) THEN <<"pipelines", Given(argv, flag, None)>> ELSE otherwise

\* Each key has one value where lines are plain.
OverridesOf(entries) ==
    [key \in {x.key : x \in entries} |-> (CHOOSE x \in entries : x.key = key).value]

OverridesIn(argv) == OverridesOf(DOMAIN Given(argv, "--set", <<>>))

IntervalIn(argv) ==
    LET start == Given(argv, "-s", None)
    IN  [interval_start |-> Iso(start), interval_end |-> Iso(Given(argv, "-e", start + Day))]

ConfigIn(argv) == {<<"config", PathIn(argv, "-p", None)>>, <<"overrides", OverridesIn(argv)>>}

TransferMeans(argv) ==
    ConfigIn(argv) \cup {<<"interval", IntervalIn(argv)>>, <<"lake", LakeIn(argv)>>}

LoadMeans(argv) ==
    TransferMeans(argv)
      \cup {<<"extract_run_datetime", Given(argv, "--extract-run-datetime", None)>>}

MigrateMeans(argv) ==
    ConfigIn(argv)
      \cup {<<"lake", LakeIn(argv)>>,
            <<"interval", IF Has(argv, "--all-raw") THEN "all" ELSE IntervalIn(argv)>>,
            <<"schema", Given(argv, "--schema", None).file>>,
            <<"to_bronze", Given(argv, "--to-bronze", None)>>,
            <<"mapper", Given(argv, "--mapper", None)>>,
            <<"from_raw", Given(argv, "--from-raw", None)>>,
            <<"wire_version", Given(argv, "--wire-version", None)>>,
            <<"recreate_iceberg", Given(argv, "--recreate-iceberg", FALSE)>>,
            <<"all_raw_runs", Given(argv, "--all-raw-runs", FALSE)>>,
            <<"ingestion", Given(argv, "--ingestion", "thin")>>}

PruneMeans(argv) == TransferMeans(argv) \cup {<<"keep", Given(argv, "--keep", 1)>>}

DbtMeans(argv, target) ==
    ConfigIn(argv)
      \cup {<<"lake", LakeIn(argv)>>,
            <<"target", FirstGiven(Given(argv, "--target", None), target)>>,
            <<"select", Given(argv, "--select", PathIn(argv, "-p", "all"))>>,
            <<"command", Given(argv, "--command", "build")>>,
            <<"full_refresh", Given(argv, "--full-refresh", FALSE)>>,
            <<"catchup_manifest", Given(argv, "--catchup-manifest", None)>>}

InitPipelineMeans(argv) ==
    {<<"name", Given(argv, "--name", None)>>, <<"source_type", Given(argv, "--source-type", None)>>,
     <<"connection", Given(argv, "--connection", None)>>,
     <<"destination_type", Given(argv, "--destination-type", "iceberg")>>,
     <<"skip_dbt", Given(argv, "--skip-dbt", FALSE)>>, <<"force", Given(argv, "--force", FALSE)>>}

ScaffoldDbtMeans(argv) == ConfigIn(argv) \cup {<<"force", Given(argv, "--force", FALSE)>>}

ScaffoldOpsMeans(argv) == {<<"force", Given(argv, "--force", FALSE)>>}

RegisterMeans(argv) ==
    {<<"config", PathIn(argv, "--pipeline", "all")>>, <<"ops", ~Has(argv, "--skip-ops")>>,
     <<"lake", LakeIn(argv)>>}

BiglakeMeans(argv, project) ==
    RegisterMeans(argv)
      \cup {<<"dataset", FirstGiven(Given(argv, "--project", None), project)>>}

IcebergMeans(argv) ==
    RegisterMeans(argv) \cup {<<"catalog", Given(argv, "--catalog-target", None)>>}

LockReleaseMeans(argv) ==
    {<<"lake", LakeIn(argv)>>,
     <<"lock", IF Has(argv, "--dataset-id")
               THEN Given(argv, "--dataset-id", None)
               ELSE <<Given(argv, "-p", None), IntervalIn(argv)>> >>}

CatchupMeans(argv) ==
    {<<"manifest", Given(argv, "--content-digest", None)>>, <<"lake", LakeIn(argv)>>}

CleanupMeans(argv) ==
    {<<"drop", Given(argv, "--manifest-id", Given(argv, "--created-before", None))>>}

BackfillMeans(argv) ==
    {<<"days", Given(argv, "--interval-start", None) .. Given(argv, "--interval-end", None) - 1>>}

Means(gate, argv, environment) ==
    CASE gate \in {"extract", "run"} -> TransferMeans(argv)
      [] gate = "load" -> LoadMeans(argv)
      [] gate = "migrate" -> MigrateMeans(argv)
      [] gate = "prune" -> PruneMeans(argv)
      [] gate = "dbt" -> DbtMeans(argv, environment.target)
      [] gate = "init-pipeline" -> InitPipelineMeans(argv)
      [] gate = "scaffold-dbt" -> ScaffoldDbtMeans(argv)
      [] gate = "scaffold-ops" -> ScaffoldOpsMeans(argv)
      [] gate = "biglake-register" -> BiglakeMeans(argv, environment.project)
      [] gate = "iceberg-register" -> IcebergMeans(argv)
      [] gate = "lock-release" -> LockReleaseMeans(argv)
      [] gate = "silver-catchup-plan" -> CatchupMeans(argv)
      [] gate = "silver-catchup-cleanup" -> CleanupMeans(argv)
      [] gate = "backfill" -> BackfillMeans(argv)
=============================================================================
