------------------------------ MODULE LakeRoots ------------------------------
(***************************************************************************)
(* Which lake a process works on: the settings taken from the environment  *)
(* and the command's flags, the raw, bronze and ops roots they resolve to, *)
(* and the part of them that an approval binds.  A location is a sequence  *)
(* of segments headed by the kind of its URI, so that joining a child      *)
(* appends to it; None stands for an unset or blank value.                 *)
(***************************************************************************)
EXTENDS SequencesExt, FiniteSets

CONSTANT None

Layers == {"raw", "bronze", "ops"}

ObjectKinds == {"s3", "gs", "gcs"}

DefaultLake == <<"local", "data/lake">>

FirstGiven(value, fallback) == IF value = None THEN fallback ELSE value

-----------------------------------------------------------------------------
(* DetSettings, as far as it selects a lake.                               *)

LayoutRefused(env) == env.layout \notin {None, 2}

FromEnv(env) ==
  [path |-> env.path, layer |-> env.layer, mode |-> env.mode,
   override |-> None, layerOverride |-> [l \in Layers |-> None]]

LayerParam == [raw |-> "lake_path_raw", bronze |-> "lake_path_bronze", ops |-> "lake_path_ops"]

(* Flags are given as a function on the names that were passed. *)
WithOverrides(settings, flags) ==
  LET flag(name, else) == IF name \in DOMAIN flags THEN flags[name] ELSE else
  IN  [settings EXCEPT !.override = flag("lake_path", @),
                       !.layerOverride = [l \in Layers |-> flag(LayerParam[l], @[l])]]

-----------------------------------------------------------------------------
(* Roots.                                                                  *)

SplitSpecs(settings) ==
  [l \in Layers |-> FirstGiven(settings.layerOverride[l], settings.layer[l])]

IsSplit(settings) == \E l \in Layers : SplitSpecs(settings)[l] # None

PickLake(settings) == FirstGiven(settings.override, FirstGiven(settings.path, DefaultLake))

JoinChild(parent, child) == Append(parent, child)

Kind(spec) == Head(spec)

ModeAllows(spec, mode) == (mode = "cloud") <=> (Kind(spec) \in ObjectKinds)

(* The specs before they are validated; a layer may be missing. *)
RootSpecs(settings) ==
  IF IsSplit(settings)
  THEN SplitSpecs(settings)
  ELSE LET parent == PickLake(settings)
       IN  [raw |-> JoinChild(parent, "raw"), bronze |-> JoinChild(parent, "bronze"),
            ops |-> parent]

RootsValid(roots, mode) ==
  /\ \A l \in Layers : roots[l] # None
  /\ Cardinality({Kind(roots[l]) : l \in Layers}) = 1
  /\ \A l \in Layers : ModeAllows(roots[l], mode)

Resolves(settings) == RootsValid(RootSpecs(settings), settings.mode)

Roots(settings) == RootSpecs(settings)

-----------------------------------------------------------------------------
(* What an approval binds of it: _approval_lake_kwargs.                    *)

KwargsRefused(settings) == IsSplit(settings) /\ settings.override # None

LayerFlag ==
  [raw |-> "--lake-path-raw", bronze |-> "--lake-path-bronze", ops |-> "--lake-path-ops"]

(* Mutant: an approval does not bind the environment's lake. *)
LakeKwargsFlagsOnly(settings) ==
  IF IsSplit(settings)
  THEN {<<LayerFlag[l], SplitSpecs(settings)[l]>> :
          l \in {m \in Layers : settings.layerOverride[m] # None}}
  ELSE {<<"--lake-path", parent>> : parent \in {settings.override} \ {None}}

LakeKwargs(settings) ==
  IF IsSplit(settings)
  THEN {<<LayerFlag[l], SplitSpecs(settings)[l]>> :
          l \in {m \in Layers : SplitSpecs(settings)[m] # None}}
  ELSE {<<"--lake-path", parent>> :
          parent \in {FirstGiven(settings.override, settings.path)} \ {None}}
=============================================================================
