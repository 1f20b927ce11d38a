--------------------------- MODULE ApprovedCommands ---------------------------
(***************************************************************************)
(* Writing commands under approvals, from the preview that an operator is  *)
(* shown to the write: the tools of the MCP server, the det command line   *)
(* and the Airflow tasks each build the argument list of what they are     *)
(* about to do, and an approval admits the command whose list is the same. *)
(*                                                                         *)
(* A call is what a surface makes of its flags: whether it accepts them,   *)
(* the list, the lake it works on, and the effect, a set of <<aspect,      *)
(* value>> pairs that says what is written, where and from which           *)
(* configuration.  LakeApproval shows what happens when several processes  *)
(* use one approval at once; here one acts at a time.                      *)
(***************************************************************************)
EXTENDS ApprovalPlans

CONSTANTS
  Scenes,     \* the environments of the server and of the shell, the commands in
              \* use, and bounds on the loads that land meanwhile and on the clock
  Lines,      \* the flags that may be passed, by command
  MaxCalls    \* bounds how often a command is called

VARIABLES
  env,       \* a scene, and require: DET_REQUIRE_APPROVAL
  world,     \* holes: the runs that silver misses; clock
  approval,  \* what was shown and approved, and how far its use is
  call,      \* the command under way
  writes,    \* what was written
  calls      \* how many commands were called

commandVars == <<env, world, approval, call, writes, calls>>

Idle == [pc |-> "idle"]

NoApproval == [status |-> "none"]

Approved == approval.status \notin {"none", "shown"}

-----------------------------------------------------------------------------
(* Resolving a command line.                                               *)

(* A reference by id or path names a file of the project's tree; a path    *)
(* outside the tree is known by its stem.                                  *)
ResolvedPath(ref) == <<IF ref.form = "outside" THEN "outside" ELSE "pipelines", ref.file>>

CanonicalId(ref) == ref.file

Iso(instant) == [instant |-> instant, form |-> "iso"]

ResolveInterval(line) ==
  LET start == line.interval_start.instant
  IN  [interval_start |-> Iso(start),
       interval_end |-> IF Passed(line, "interval_end")
                        THEN Iso(line.interval_end.instant) ELSE Iso(start + Day)]

IntervalOk(line) ==
  LET window == ResolveInterval(line)
  IN  window.interval_end.instant > window.interval_start.instant

WithInterval(line) ==
  IF Passed(line, "interval_start")
  THEN LET window == ResolveInterval(line)
       IN  With(With(line, "interval_start", window.interval_start),
                "interval_end", window.interval_end)
  ELSE line

(* Mutant: the pipeline is left as it was typed. *)
WithPipelineTyped(line) == line

WithPipeline(line) ==
  IF Passed(line, "pipeline") THEN With(line, "pipeline", CanonicalId(line.pipeline)) ELSE line

Resolved(line) == WithPipeline(WithInterval(line))

Settings(line) == WithOverrides(FromEnv(env.shell), line)

ServerSettings == FromEnv(env.server)

(* Overrides are applied in the order given: the last one of a key wins. *)
LastWins(assignments) ==
  LET of(key) == {i \in DOMAIN assignments : assignments[i].key = key}
      last(key) == CHOOSE i \in of(key) : \A j \in of(key) : j <= i
  IN  [key \in {x.key : x \in Range(assignments)} |-> assignments[last(key)].value]

Config(line) ==
  {<<"config", IF Passed(line, "pipeline") THEN ResolvedPath(line.pipeline) ELSE None>>,
   <<"overrides", LastWins(Assignments(line))>>,
   <<"tree", ValueOf(line, "project_root", None)>>}

Interval(line) == {<<"interval", ResolveInterval(line)>>}

Aspects(line, defaults) ==
  {<<name, ValueOf(line, name, defaults[name])>> : name \in DOMAIN defaults}

Lake(settings) == {<<"lake", Roots(settings)>>}

Unset(names) == [n \in names |-> None]

-----------------------------------------------------------------------------
(* The calls of the command line: which flags it accepts, the argument     *)
(* list, and what the runtime does.                                        *)

Call(ok, settings, argv, effect) ==
  [ok |-> ok /\ ~KwargsRefused(settings), settings |-> settings, argv |-> argv, effect |-> effect]

ExtractCall(line) ==
  Call(IntervalOk(line), Settings(line),
       ExtractArgv(Resolved(line), LakeKwargs(Settings(line))),
       Config(line) \cup Interval(line) \cup Lake(Settings(line)))

LoadCall(line) ==
  Call(IntervalOk(line), Settings(line),
       LoadArgv(Resolved(line), LakeKwargs(Settings(line))),
       Config(line) \cup Interval(line) \cup Lake(Settings(line))
         \cup Aspects(line, Unset({"extract_run_datetime"})))

RunCall(line) ==
  Call(IntervalOk(line), Settings(line),
       RunArgv(Resolved(line), LakeKwargs(Settings(line))),
       Config(line) \cup Interval(line) \cup Lake(Settings(line)))

SchemaForDigest(line) == [line EXCEPT !.schema.form = "plain"]

MigrateScopeOk(line) ==
  IF Passed(line, "all_raw")
  THEN Window \cap DOMAIN line = {} /\ Passed(line, "recreate_iceberg")
  ELSE Passed(line, "interval_start") /\ IntervalOk(line)

MigrateEffect(line, settings) ==
  Config(line) \cup Lake(settings)
    \cup (IF Passed(line, "all_raw") THEN {<<"interval", "all">>} ELSE Interval(line))
    \cup {<<"schema", line.schema.file>>}
    \cup Aspects(line, Unset({"to_bronze", "mapper", "from_raw", "wire_version"}))
    \cup Aspects(line, [recreate_iceberg |-> FALSE, all_raw_runs |-> FALSE, ingestion |-> "thin"])

MigrateCall(line) ==
  Call(MigrateScopeOk(line), Settings(line),
       MigrateArgv(With(SchemaForDigest(Resolved(line)), "ingestion",
                        ValueOf(line, "ingestion", "thin")),
                   LakeKwargs(Settings(line))),
       MigrateEffect(line, Settings(line)))

PruneEffect(line, settings) ==
  Config(line) \cup Interval(line) \cup Lake(settings) \cup Aspects(line, [keep |-> 1])

PruneCall(line) ==
  Call(IntervalOk(line) /\ ValueOf(line, "keep", 1) >= 1, Settings(line),
       PruneArgv(Resolved(line), LakeKwargs(Settings(line))),
       PruneEffect(line, Settings(line)))

(* run_dbt: the selection, the target and the profile it falls back on.    *)
DbtEffect(line, settings, environment) ==
  Config(line) \cup Lake(settings)
    \cup {<<"target", FirstGiven(ValueOf(line, "target", None), environment.target)>>,
          <<"select", IF Passed(line, "select") THEN line.select
                      ELSE IF Passed(line, "pipeline") THEN ResolvedPath(line.pipeline) ELSE "all">>,
          <<"project", ValueOf(line, "project_dir", None)>>}
    \cup Aspects(line, [command |-> "build", full_refresh |-> FALSE, catchup_manifest |-> None])

CatchupFlagsOk(line) == Passed(line, "catchup") <=> Passed(line, "catchup_manifest")

DbtCall(line) ==
  Call(CatchupFlagsOk(line), Settings(line),
       DbtArgv(Resolved(line), LakeKwargs(Settings(line))),
       DbtEffect(line, Settings(line), env.shell))

(* silver-catchup build: dbt build --catchup for its manifest. *)
AsDbt(line) ==
  With(With([n \in DOMAIN line \ {"manifest_id"} |-> line[n]], "catchup", TRUE),
       "catchup_manifest", line.manifest_id)

BuildCall(line) == DbtCall(AsDbt(line))

InitPipelineCall(line) ==
  Call(~Passed(line, "lake_path"), FromEnv(env.shell), InitPipelineArgv(line),
       {<<"tree", ValueOf(line, "project_root", None)>>}
         \cup Aspects(line, Unset({"name", "source_type", "connection"}))
         \cup Aspects(line, [destination_type |-> "iceberg", skip_dbt |-> FALSE, force |-> FALSE]))

ScaffoldDbtCall(line) ==
  Call(TRUE, FromEnv(env.shell), ScaffoldDbtArgv(WithPipeline(line)),
       Config(line) \cup Aspects(line, [force |-> FALSE]))

ScaffoldOpsCall(line) ==
  Call(TRUE, FromEnv(env.shell), ScaffoldOpsArgv(line),
       {<<"tree", ValueOf(line, "project_root", None)>>} \cup Aspects(line, [force |-> FALSE]))

BiglakeEffect(line, settings, environment) ==
  {<<"config", IF Passed(line, "pipeline") THEN ResolvedPath(line.pipeline) ELSE "all">>,
   <<"tree", ValueOf(line, "project_root", None)>>,
   <<"ops", ~Passed(line, "skip_ops") /\ ~Passed(line, "pipeline")>>,
   <<"dataset", FirstGiven(ValueOf(line, "project", None), environment.project)>>}
    \cup Lake(settings)

BiglakeFlags(line) ==
  IF Passed(line, "pipeline") THEN With(WithPipeline(line), "skip_ops", TRUE) ELSE line

BiglakeCall(line) ==
  Call(Resolves(Settings(line)), Settings(line),
       BiglakeArgv(BiglakeFlags(line), LakeKwargs(Settings(line))),
       BiglakeEffect(line, Settings(line), env.shell))

IcebergEffect(line, settings, environment) ==
  {<<"config", IF Passed(line, "pipeline") THEN ResolvedPath(line.pipeline) ELSE "all">>,
   <<"tree", ValueOf(line, "project_root", None)>>,
   <<"ops", ~Passed(line, "skip_ops") /\ ~Passed(line, "pipeline")>>,
   <<"catalog", environment.catalog>>}
    \cup Lake(settings)

IcebergCall(line) ==
  Call(Resolves(Settings(line)), Settings(line),
       IcebergArgv(WithPipeline(line), LakeKwargs(Settings(line)), env.shell.catalog),
       IcebergEffect(line, Settings(line), env.shell))

LockReleaseCall(line) ==
  Call(/\ Passed(line, "dataset_id") \/ Passed(line, "interval_start")
       /\ Passed(line, "dataset_id") => Window \cap DOMAIN line = {}
       /\ Passed(line, "interval_start") => IntervalOk(line)
       /\ Resolves(Settings(line)),
       Settings(line), LockReleaseArgv(Resolved(line), LakeKwargs(Settings(line))),
       Lake(Settings(line))
         \cup {<<"lock", IF Passed(line, "dataset_id") THEN line.dataset_id
                         ELSE <<CanonicalId(line.pipeline), ResolveInterval(line)>> >>})

(* Catch-up: a manifest of the runs that silver misses.  Its digest is of   *)
(* those runs alone, however they were looked for.                         *)
CatchupContent(line) ==
  <<IF Passed(line, "all_pipelines") THEN "all" ELSE CanonicalId(line.pipeline), world.holes>>

CatchupScopeOk(line) ==
  /\ Passed(line, "all_pipelines") # Passed(line, "pipeline")
  /\ ScopeOk(line)
  /\ Passed(line, "interval_start") => IntervalOk(line)
  /\ Passed(line, "manifest_id") = Passed(line, "content_digest")

CatchupEffect(content, settings) == {<<"manifest", content>>} \cup Lake(settings)

CatchupCall(line) ==
  Call(CatchupScopeOk(line), Settings(line),
       IF Passed(line, "manifest_id")
       THEN CatchupPlanArgv(Resolved(line), LakeKwargs(Settings(line)))
       ELSE {<<"--apply", TRUE>>},
       CatchupEffect(ValueOf(line, "content_digest", "whatever is missing"), Settings(line)))

(* Cleanup: catch-up tables of one manifest, or all that are old enough.   *)
CleanupScopeOk(line) ==
  Cardinality({"manifest_id", "created_before", "older_than"} \cap DOMAIN line) = 1

WithCutoff(line) ==
  IF Passed(line, "older_than")
  THEN With(line, "created_before", world.clock - line.older_than)
  ELSE line

CleanupEffect(line) ==
  {<<"drop", IF Passed(line, "manifest_id") THEN line.manifest_id ELSE WithCutoff(line).created_before>>}

CleanupCall(line) ==
  Call(CleanupScopeOk(line) /\ env.shell.target = "bigquery", FromEnv(env.shell),
       CleanupArgv(WithCutoff(line)), CleanupEffect(line))

CallOf(command, line) ==
  CASE command = "extract" -> ExtractCall(line)
    [] command = "load" -> LoadCall(line)
    [] command = "run" -> RunCall(line)
    [] command = "migrate" -> MigrateCall(line)
    [] command = "prune" -> PruneCall(line)
    [] command = "dbt" -> DbtCall(line)
    [] command = "silver-catchup build" -> BuildCall(line)
    [] command = "init-pipeline" -> InitPipelineCall(line)
    [] command = "scaffold-dbt" -> ScaffoldDbtCall(line)
    [] command = "scaffold-ops" -> ScaffoldOpsCall(line)
    [] command = "biglake-register" -> BiglakeCall(line)
    [] command = "iceberg-register" -> IcebergCall(line)
    [] command = "lock-release" -> LockReleaseCall(line)
    [] command = "silver-catchup-plan" -> CatchupCall(line)
    [] command = "silver-catchup-cleanup" -> CleanupCall(line)

Commands == env.commands

-----------------------------------------------------------------------------
(* What the tools of the MCP server show.  A tool has fewer parameters     *)
(* than the command, works on the server's lake, and builds the list from  *)
(* its parameters as they are.                                             *)

ToolParams(tool) ==
  CASE tool = "migrate" -> {"pipeline", "to_bronze", "schema", "mapper", "from_raw", "wire_version",
                            "recreate_iceberg", "all_raw", "all_raw_runs"} \cup Window
    [] tool = "prune" -> {"pipeline", "keep"} \cup Window
    [] tool = "dbt" -> {"pipeline", "command", "select", "catchup", "catchup_manifest"}
    [] tool = "scaffold-dbt" -> {"pipeline", "force"}
    [] tool = "scaffold-ops" -> {"force"}
    [] tool = "init-pipeline" -> {"name", "source_type", "destination_type", "connection",
                                  "lake_path", "skip_dbt"}
    [] tool = "biglake-register" -> {"pipeline", "lake_path", "project", "location", "connection",
                                     "skip_ops"}
    [] tool = "iceberg-register" -> {"pipeline", "lake_path", "skip_ops"}
    [] tool = "silver-catchup-plan" -> {"pipeline", "all_pipelines", "extract_lookback", "census",
                                        "limit"} \cup Window
    [] tool = "silver-catchup-cleanup" -> {"manifest_id", "older_than"}

Tools ==
  {"migrate", "prune", "dbt", "scaffold-dbt", "scaffold-ops", "init-pipeline", "biglake-register",
   "iceberg-register", "silver-catchup-plan", "silver-catchup-cleanup"} \cap Commands

MigrateDryRun(line) ==
  Call(IF Passed(line, "all_raw") THEN MigrateScopeOk(line) ELSE Passed(line, "interval_start"),
       ServerSettings, MigrateArgv(WithPipeline(line), LakeKwargs(ServerSettings)),
       MigrateEffect(line, ServerSettings))

PruneDryRun(line) ==
  Call(ValueOf(line, "keep", 1) >= 1, ServerSettings,
       PruneArgv(WithPipeline(line), LakeKwargs(ServerSettings)), PruneEffect(line, ServerSettings))

DbtDryRun(line) ==
  Call(CatchupFlagsOk(line), ServerSettings,
       DbtArgv(WithPipeline(line), LakeKwargs(ServerSettings)),
       DbtEffect(line, ServerSettings, env.server))

(* What they would write does not depend on the lake. *)
ScaffoldDbtDryRun(line) ==
  Call(TRUE, ServerSettings, ScaffoldDbtArgv(WithPipeline(line)), ScaffoldDbtCall(line).effect)

ScaffoldOpsDryRun(line) ==
  Call(TRUE, ServerSettings, ScaffoldOpsArgv(line), ScaffoldOpsCall(line).effect)

InitPipelineDryRun(line) ==
  Call(~Passed(line, "lake_path"), ServerSettings, InitPipelineArgv(line),
       InitPipelineCall(line).effect)

BiglakeDryRun(line) ==
  LET settings == WithOverrides(ServerSettings, line)
  IN  Call(Resolves(settings), settings, BiglakeArgv(BiglakeFlags(line), LakeKwargs(settings)),
           BiglakeEffect(line, settings, env.server))

IcebergDryRun(line) ==
  LET settings == WithOverrides(ServerSettings, line)
  IN  Call(Resolves(settings), settings,
           IcebergArgv(WithPipeline(line), LakeKwargs(settings), env.server.catalog),
           IcebergEffect(line, settings, env.server))

(* A plan is for a manifest of its own, with the runs missing now. *)
Planned(line) ==
  With(With(line, "manifest_id", "planned"), "content_digest", CatchupContent(line))

CatchupDryRun(line) ==
  Call(CatchupScopeOk(line), ServerSettings,
       CatchupPlanArgv(WithPipeline(Planned(line)), LakeKwargs(ServerSettings)),
       CatchupEffect(CatchupContent(line), ServerSettings))

CleanupDryRun(line) ==
  Call(CleanupScopeOk(line), ServerSettings, CleanupArgv(WithCutoff(line)), CleanupEffect(line))

DryRunOf(tool, line) ==
  CASE tool = "migrate" -> MigrateDryRun(line)
    [] tool = "prune" -> PruneDryRun(line)
    [] tool = "dbt" -> DbtDryRun(line)
    [] tool = "scaffold-dbt" -> ScaffoldDbtDryRun(line)
    [] tool = "scaffold-ops" -> ScaffoldOpsDryRun(line)
    [] tool = "init-pipeline" -> InitPipelineDryRun(line)
    [] tool = "biglake-register" -> BiglakeDryRun(line)
    [] tool = "iceberg-register" -> IcebergDryRun(line)
    [] tool = "silver-catchup-plan" -> CatchupDryRun(line)
    [] tool = "silver-catchup-cleanup" -> CleanupDryRun(line)

-----------------------------------------------------------------------------
(* Showing a plan and approving it.                                        *)

Shows(surface, command, line, preview) ==
  /\ approval = NoApproval
  /\ call = Idle
  /\ preview.ok
  /\ approval' = [status |-> "shown", surface |-> surface, command |-> command, line |-> line,
                  argv |-> preview.argv, effect |-> preview.effect, store |-> None]
  /\ UNCHANGED <<env, world, call, writes, calls>>

ToolShows ==
  /\ ~LayoutRefused(env.server)
  /\ \E tool \in Tools : \E line \in Lines[tool] :
       /\ DOMAIN line \subseteq ToolParams(tool)
       /\ Shows("tool", tool, line, DryRunOf(tool, line))

(* silver-catchup plan, or --dry-run. *)
CatchupPlanShows ==
  /\ "silver-catchup-plan" \in Commands
  /\ \E line \in Lines["silver-catchup-plan"] :
    /\ ~Passed(line, "manifest_id")
    /\ CatchupScopeOk(line)
    /\ Shows("shell", "silver-catchup-plan", line,
             Call(TRUE, Settings(line),
                  CatchupPlanArgv(Resolved(Planned(line)), LakeKwargs(Settings(line))),
                  CatchupEffect(CatchupContent(line), Settings(line))))

(* silver-catchup heal looks for the missing runs in the lake of its       *)
(* flags; the list is bound to the lake of the environment.                *)
HealShows ==
  /\ "silver-catchup-plan" \in Commands
  /\ \E line \in Lines["silver-catchup-plan"] :
    /\ Passed(line, "pipeline")
    /\ DOMAIN line \subseteq {"pipeline", "extract_lookback", "limit"} \cup LakeParams
    /\ world.holes > 0
    /\ Shows("heal", "silver-catchup-plan", line,
             Call(TRUE, FromEnv(env.shell),
                  CatchupPlanArgv(WithPipeline(Planned(line)), LakeKwargs(FromEnv(env.shell))),
                  CatchupEffect(CatchupContent(line), Settings(line))))

(* silver-catchup heal --continue. *)
HealContinueShows ==
  /\ "silver-catchup build" \in Commands
  /\ \E line \in Lines["silver-catchup build"] :
    /\ DOMAIN line \subseteq {"pipeline", "manifest_id"} \cup LakeParams
    /\ Shows("shell", "silver-catchup build", line, BuildCall(line))

(* An operator writes the list of a command line, or takes the one that    *)
(* its --dry-run prints.                                                   *)
OperatorWrites ==
  \E command \in Commands \ {"backfill"} : \E line \in Lines[command] :
    /\ ~Passed(line, "older_than")
    /\ command = "silver-catchup-plan" => Passed(line, "manifest_id")
    /\ Shows("shell", command, line, CallOf(command, line))

PreviewBackfill ==
  /\ "backfill" \in Commands
  /\ \E line \in Lines["backfill"] :
    /\ Date(line.interval_end) > Date(line.interval_start)
    /\ Shows("tool", "backfill", line,
             Call(TRUE, ServerSettings, BackfillArgv(line),
                  {<<"days", Date(line.interval_start) .. Date(line.interval_end) - 1>>}))

Store(environment, settings) ==
  IF environment.store = "postgres" THEN "postgres" ELSE Roots(settings).ops

GateName(command) == IF command = "silver-catchup build" THEN "dbt" ELSE command

(* det approve, with lake flags of its own. *)
Approve(flags) ==
  LET settings == WithOverrides(FromEnv(env.shell), flags)
  IN  /\ approval.status = "shown"
      /\ ~LayoutRefused(env.shell)
      /\ env.shell.store = "lake" => Resolves(settings)
      /\ approval' = [approval EXCEPT !.status = "unused", !.store = Store(env.shell, settings)]
      /\ UNCHANGED <<env, world, call, writes, calls>>

ApprovalExpires ==
  /\ approval.status = "unused"
  /\ approval' = [approval EXCEPT !.status = "expired"]
  /\ UNCHANGED <<env, world, call, writes, calls>>

-----------------------------------------------------------------------------
(* Passing an approval and writing.                                        *)

Unbound(command, line) ==
  IF command = "silver-catchup build"
  THEN UnboundBuildParams(line) ELSE UnboundParams(GateName(command), line)

(* Why an approval is not one for this call, in the order it is checked. *)
Mismatch(command, argv, store) ==
  IF approval.store # store THEN "not_found"
  ELSE IF approval.status # "unused" THEN approval.status
  ELSE IF GateName(approval.command) # GateName(command) THEN "command_mismatch"
  ELSE IF approval.argv # argv THEN "argv_mismatch"
  ELSE "none"

(* Mutant: a command without an approval is let through. *)
RefusalIfPassed(command, line, passes, one) ==
  IF passes THEN Mismatch(command, one.argv, Store(env.shell, one.settings)) ELSE "none"

Refusal(command, line, passes, one) ==
  IF passes
  THEN IF Unbound(command, line) # {}
       THEN "unbound_flag"
       ELSE Mismatch(command, one.argv, Store(env.shell, one.settings))
  ELSE IF env.require THEN "required" ELSE "none"

(* Flags that a command refuses when an approval is passed or required:    *)
(* what they stand for would be decided again at the time of the write.    *)
Drifts(command, line) ==
  \/ command = "silver-catchup-plan" /\ ~Passed(line, "content_digest")
  \/ Passed(line, "older_than")

RunsWith(command, line, passes, surface) ==
  /\ call.pc # "working"
  /\ calls < MaxCalls
  /\ ~LayoutRefused(env.shell)
  /\ LET one == CallOf(command, line)
         refusal == Refusal(command, line, passes, one)
     IN  /\ one.ok
         /\ Drifts(command, line) => ~passes /\ ~env.require
         /\ passes /\ env.shell.store = "lake" => Resolves(one.settings)
         /\ IF refusal = "none"
            THEN /\ call' = [pc |-> "working", command |-> command, line |-> line,
                             surface |-> surface, under |-> passes,
                             settings |-> one.settings, effect |-> one.effect]
                 /\ approval' = IF passes THEN [approval EXCEPT !.status = "claimed"]
                                ELSE approval
            ELSE /\ call' = [pc |-> "refused", command |-> command, line |-> line,
                             surface |-> surface, reason |-> refusal]
                 /\ UNCHANGED approval
  /\ calls' = calls + 1
  /\ UNCHANGED <<env, world, writes>>

Runs(command, line) ==
  \/ RunsWith(command, line, FALSE, "shell")
  \/ Approved /\ RunsWith(command, line, TRUE, "shell")

(* The clear-lock task calls det lock-release on the worker, and passes no *)
(* approval.                                                               *)
ClearLockTask ==
  /\ "lock-release" \in Commands
  /\ \E line \in Lines["lock-release"] :
    /\ Passed(line, "interval_start")
    /\ DOMAIN line \subseteq {"pipeline"} \cup Window
    /\ RunsWith("lock-release", line, FALSE, "task")

(* The Airflow task checks an approval, which it always requires, without  *)
(* claiming it.  Neither the worker's lake nor its overrides are bound.    *)
Overridden(line) ==
  IF env.shell.overrides = <<>> THEN line ELSE With(line, "set_", env.shell.overrides)

TaskStarts(command, line, argv, effect) ==
  /\ call.pc # "working"
  /\ calls < MaxCalls
  /\ ~LayoutRefused(env.shell)
  /\ Approved
  /\ env.shell.store = "lake" => Resolves(FromEnv(env.shell))
  /\ LET refusal == Mismatch(command, argv, Store(env.shell, FromEnv(env.shell)))
     IN  call' = IF refusal = "none"
                 THEN [pc |-> "working", command |-> command, line |-> line, surface |-> "task",
                       under |-> TRUE, settings |-> FromEnv(env.shell), effect |-> effect]
                 ELSE [pc |-> "refused", command |-> command, line |-> line, surface |-> "task",
                       reason |-> refusal]
  /\ calls' = calls + 1
  /\ UNCHANGED <<env, world, approval, writes>>

PruneTask ==
  /\ "prune" \in Commands
  /\ \E line \in Lines["prune"] :
    /\ DOMAIN line \subseteq {"pipeline", "keep"} \cup Window
    /\ line.pipeline.form = "id"
    /\ TaskStarts("prune", line, PruneArgv(WithPipeline(line), {}),
                  PruneEffect(Overridden(line), FromEnv(env.shell)))

BackfillTask ==
  /\ "backfill" \in Commands
  /\ \E line \in Lines["backfill"] :
    /\ TaskStarts("backfill", line, BackfillArgv(line),
                  {<<"days", Date(line.interval_start) .. Date(line.interval_end) - 1>>})

-----------------------------------------------------------------------------
(* The write.  Catch-up looks for the missing runs again, and only writes  *)
(* what the digest was for.                                                *)

DigestMatches ==
  call.command = "silver-catchup-plan" /\ Passed(call.line, "content_digest")
    => call.line.content_digest = CatchupContent(call.line)

Written ==
  IF call.command = "silver-catchup-plan"
  THEN CatchupEffect(CatchupContent(call.line), call.settings)
  ELSE call.effect

ResolvesIfNeeded == (\E x \in call.effect : x[1] = "lake") => Resolves(call.settings)

Work ==
  /\ call.pc = "working"
  /\ DigestMatches
  /\ ResolvesIfNeeded
  /\ writes' = writes \cup {[number |-> calls, command |-> call.command, line |-> call.line,
                            surface |-> call.surface, under |-> call.under, effect |-> Written]}
  /\ approval' = IF call.under THEN [approval EXCEPT !.status = "consumed"] ELSE approval
  /\ call' = Idle
  /\ UNCHANGED <<env, world, calls>>

(* A command that fails leaves what it claimed. *)
Fail ==
  /\ call.pc = "working"
  /\ call' = Idle
  /\ UNCHANGED <<env, world, approval, writes, calls>>

LoadLands ==
  /\ world.holes < env.loads
  /\ world' = [world EXCEPT !.holes = @ + 1]
  /\ UNCHANGED <<env, approval, call, writes, calls>>

Tick ==
  /\ world.clock < env.ticks
  /\ world' = [world EXCEPT !.clock = @ + 1]
  /\ UNCHANGED <<env, approval, call, writes, calls>>

-----------------------------------------------------------------------------
(* What is assumed of the environments and the command lines.              *)

\* The command names of the command line.
Names ==
  {"extract", "load", "run", "migrate", "prune", "dbt", "silver-catchup build", "init-pipeline",
   "scaffold-dbt", "scaffold-ops", "biglake-register", "iceberg-register", "lock-release",
   "silver-catchup-plan", "silver-catchup-cleanup", "backfill"}

\* Flags without a value, which are passed to turn something on.
Switches ==
  {"all_raw", "recreate_iceberg", "all_raw_runs", "full_refresh", "skip_dbt", "force", "skip_ops"}

\* Typer's required options are there, and the assignments of --set are a list.
WellFormed(command, line) ==
  /\ command \in {"extract", "load", "run", "prune"} => Passed(line, "interval_start")
  /\ command = "migrate" => Passed(line, "schema") /\ "file" \in DOMAIN line.schema
  /\ command = "lock-release" => Passed(line, "pipeline")
  /\ \A name \in Switches \cap DOMAIN line : line[name] = TRUE
  /\ DOMAIN Assignments(line) \subseteq Nat

\* An environment only has commands in use that there are lines for.
ASSUME ScenesAssumption ==
  \A scene \in Scenes :
    "commands" \in DOMAIN scene /\ scene.commands \subseteq Names \cap DOMAIN Lines

\* The command line parser lets no other line through.
ASSUME LinesAssumption ==
  \A command \in DOMAIN Lines \ {"approve"} : \A line \in Lines[command] : WellFormed(command, line)

-----------------------------------------------------------------------------
(* The specification.                                                      *)

CommandsInit ==
  /\ \E scene \in Scenes, required \in BOOLEAN : env = With(scene, "require", required)
  /\ world = [holes |-> 0, clock |-> 0]
  /\ approval = NoApproval
  /\ call = Idle
  /\ writes = {}
  /\ calls = 0

CommandsNext ==
  \/ ToolShows \/ CatchupPlanShows \/ HealShows \/ HealContinueShows \/ OperatorWrites
  \/ PreviewBackfill
  \/ \E flags \in Lines["approve"] : Approve(flags)
  \/ ApprovalExpires
  \/ \E command \in Commands \ {"backfill"} : \E line \in Lines[command] : Runs(command, line)
  \/ PruneTask \/ BackfillTask \/ ClearLockTask
  \/ Work \/ Fail \/ LoadLands \/ Tick

CommandsSpec == CommandsInit /\ [][CommandsNext]_commandVars

-----------------------------------------------------------------------------
(* Properties.                                                             *)

(* No key is assigned twice, and the pipeline is of the project's tree. *)
Plain(line) ==
  /\ \A i, j \in DOMAIN Assignments(line) :
       Assignments(line)[i].key = Assignments(line)[j].key => i = j
  /\ Passed(line, "pipeline") => line.pipeline.form # "outside"

(* Flags that approvals leave open choose the source tree. *)
Bound(effect) == {x \in effect : x[1] \notin {"tree", "project"}}

SameWarehouse ==
  /\ env.server.target = env.shell.target
  /\ env.server.project = env.shell.project

BoundByTask(w) ==
  \/ w.command = "backfill"
  \/ LakeKwargs(FromEnv(env.shell)) = {} /\ env.shell.overrides = <<>>

(* What is written under an approval is what was shown when it was asked   *)
(* for: the same data, place and configuration, whichever surface showed   *)
(* it, however flags and environment say where the lake is, and whatever   *)
(* has landed since (approval.py's "the approved record accurately         *)
(* describes the command that runs").                                      *)
EffectIsApproved ==
  \A w \in writes :
    (/\ w.under
     /\ approval.surface # "heal"
     /\ SameWarehouse
     /\ w.surface = "task" => BoundByTask(w)
     /\ Plain(w.line) /\ Plain(approval.line))
      => Bound(w.effect) = Bound(approval.effect)

(* Where approvals are required nothing is written without one, and one    *)
(* approval is for one write, also when a command fails half-way           *)
(* (_gate_approval, _consume_approval).                                    *)
RequiredMeansApproved ==
  /\ env.require => \A w \in writes : w.under
  /\ Cardinality({w \in writes : w.under}) <= 1
  /\ approval.status = "consumed" <=> \E w \in writes : w.under

(* A flag as it was meant, however it is written. *)
Said(line, name) ==
  IF name = "pipeline" THEN CanonicalId(line[name])
  ELSE IF name \in Window THEN line[name].instant ELSE line[name]

(* A line as it was meant: the flags that catch-up's plan adds aside. *)
Meant(line) ==
  LET added == IF Passed(line, "content_digest") THEN {"manifest_id", "content_digest"} ELSE {}
  IN  [n \in DOMAIN line \ added |-> Said(line, n)]

FromPlan(line, argv) ==
  Passed(line, "content_digest") => Option("--content-digest", line, "content_digest")
                                      \cup Option("--manifest-id", line, "manifest_id") \subseteq argv

(* The command that a tool showed is refused as another one. *)
Misunderstood ==
  /\ call.pc = "refused"
  /\ call.reason = "argv_mismatch"
  /\ approval.surface = "tool"
  /\ approval.command = call.command
  /\ env.server = env.shell
  /\ Meant(call.line) = Meant(approval.line)
  /\ FromPlan(call.line, approval.argv)

(* The argument list that a tool shows is the one that the command builds, *)
(* however the pipeline and the instants are written, as long as the end   *)
(* of the interval is given (the builders of approval.py normalise).  The  *)
(* lists of migrate never agree, because migrate_dry_run leaves out the    *)
(* --ingestion that the command always binds; a tool leaves out the end of *)
(* an interval that was not given; the Airflow task leaves out the lake.   *)
SpelledOutPlansAgree ==
  Misunderstood =>
    \/ call.surface = "task"
    \/ call.command = "migrate"
    \/ Passed(call.line, "interval_start") /\ ~Passed(call.line, "interval_end")
=============================================================================
