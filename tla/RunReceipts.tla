---------------------------- MODULE RunReceipts ----------------------------
(***************************************************************************)
(* What an attempt of extract or load leaves behind (runtime/receipts.py), *)
(* and what a fleet of pipelines promises of its attempts                  *)
(* (runtime/slo.py and the tests of the ops models).                       *)
(*                                                                         *)
(* Time is in hours.  A receipt names its attempt, the pipeline and the    *)
(* command, and says when it started and finished, how it ended and, when  *)
(* it failed, with which code.  Its object lies under the UTC date of its  *)
(* start.  Intervals, owners, counts of rows and messages are left out.    *)
(***************************************************************************)
EXTENDS Integers, SequencesExt, Bags

CONSTANTS
  None,
  WindowDays   \* DEFAULT_WINDOW_DAYS

ASSUME ReceiptConstants == WindowDays \in Nat /\ None \notin Int

VARIABLES
  clock,
  log          \* the receipts under runs/

First(value, fallback) == IF value = None THEN fallback ELSE value

Day(hour) == hour \div 24

Today == Day(clock)

-----------------------------------------------------------------------------
(* How an exception is classified: by the first line of the table that it, *)
(* or the cause of a plugin's error, is an instance of.  AlreadyExists is  *)
(* a DetConflictError that says so.                                        *)

Lineage ==
  [OSError |-> {}, HttpError |-> {}, HttpIntegrityError |-> {"HttpError"}, SecretError |-> {"DetError"},
   SecretNotSetError |-> {"SecretError", "DetError"}, DetConflictError |-> {"DetError"},
   AlreadyExists |-> {"DetConflictError", "DetError"},
   LeaseHeldError |-> {"DetConflictError", "DetError"},
   LeaseFencedError |-> {"DetConflictError", "DetError"},
   DetContractError |-> {"DetError"}, CoerceError |-> {"DetContractError", "DetError", "ValueError"},
   ValidationError |-> {}, DetNotFoundError |-> {"DetError"}, FileNotFoundError |-> {},
   FileExistsError |-> {}, ValueError |-> {}, KeyboardInterrupt |-> {}]

Instances(class) == {class} \cup Lineage[class]

(* A plugin's exception is wrapped unless it is one of DET's own.          *)
FromPlugin(class) ==
  Instances(class) \cup IF "DetError" \in Instances(class) THEN {} ELSE {"DetPluginError"}

Codes ==
  <<<<"HttpIntegrityError", "integrity_error">>, <<"HttpError", "http_error">>,
    <<"LeaseFencedError", "lease_fenced">>, <<"LeaseHeldError", "lease_held">>,
    <<"SecretError", "secret_not_set">>, <<"CoerceError", "schema_invalid">>,
    <<"ValidationError", "schema_invalid">>, <<"DetContractError", "schema_invalid">>,
    <<"AlreadyExists", "raw_exists">>, <<"DetConflictError", "conflict">>,
    <<"DetNotFoundError", "raw_missing">>,
    <<"DetPluginError", "plugin_error">>, <<"FileNotFoundError", "raw_missing">>,
    <<"FileExistsError", "raw_exists">>, <<"ValueError", "config_invalid">>>>

(* The lines of the table that an exception is an instance of. *)
Matching(instances) == {n \in DOMAIN Codes : Codes[n][1] \in instances}

(* Mutant: what a plugin raised is a plugin error, before anything else.   *)
ClassifyWrapperFirst(instances) ==
  IF "DetPluginError" \in instances THEN "plugin_error"
  ELSE IF Matching(instances) = {} THEN "unknown" ELSE Codes[Min(Matching(instances))][2]

ClassifyError(instances) ==
  IF Matching(instances) = {} THEN "unknown" ELSE Codes[Min(Matching(instances))][2]

-----------------------------------------------------------------------------
(* Receipts.  An attempt ends with what its body raises and, after that,   *)
(* the release of its lease: the classes that the exception is an instance *)
(* of, none when all goes well.  The recorder is outside both, and sees    *)
(* the exception of the release in place of that of the body.              *)

Raised(body, release) == IF release = {} THEN body ELSE release

Payload(attempt, raised) ==
  [id |-> attempt.id, what |-> attempt.what, started |-> attempt.started,
   status |-> IF raised = {} THEN "ok" ELSE "error",
   code |-> IF raised = {} THEN "none" ELSE ClassifyError(raised)]

AttemptDate(receipt) == Day(receipt.started)

(* Mutant: the window ends with yesterday. *)
WindowToYesterday(since, until) ==
  LET end == First(until, Today)
  IN  First(since, end - WindowDays) .. end - 1

(* The half-open window of attempt dates: the last days up to today's end, *)
(* if nothing else is asked for.                                           *)
AttemptWindow(since, until) ==
  LET end == First(until, Today + 1)
  IN  First(since, end - WindowDays) .. end - 1

(* What cannot be read, or is only half written, is passed over.           *)
IterReceipts(days, unread) == {r \in log \ unread : AttemptDate(r) \in days}

(* det runs --summary, and what the ops model run_daily makes of the rows. *)
Summary(receipts, what) ==
  [attempts |-> Cardinality({r \in receipts : r.what = what}),
   ok |-> Cardinality({r \in receipts : r.what = what /\ r.status = "ok"}),
   error |-> Cardinality({r \in receipts : r.what = what /\ r.status = "error"})]

RunDaily(rows, day, what) ==
  LET count(receipts) == Cardinality(UNION {{r} \X (1 .. rows[r]) : r \in receipts})
      those == {r \in DOMAIN rows : AttemptDate(r) = day /\ r.what = what}
  IN  [attempts |-> count(those),
       ok |-> count({r \in those : r.status = "ok"}),
       error |-> count({r \in those : r.status = "error"})]

-----------------------------------------------------------------------------
(* What a pipeline promises.  Fields that an overlay sets replace those of *)
(* the pipeline; hours that neither sets come from the cadence; a command  *)
(* whose overlay is FALSE is skipped.                                      *)

CadenceDefaults ==
  [daily |-> [recency |-> 26, score |-> 24], weekly |-> [recency |-> 192, score |-> 168],
   hourly |-> [recency |-> 2, score |-> 24]]

MergeCommand(slo, overlay) == [field \in DOMAIN slo |-> First(overlay[field], slo[field])]

ResolveSloHours(merged) ==
  LET defaults == IF merged.cadence = None THEN [recency |-> None, score |-> None]
                  ELSE CadenceDefaults[merged.cadence]
      recency == First(merged.recency, defaults.recency)
  IN  [recency |-> recency, score |-> First(merged.score, First(defaults.score, recency))]

SloRow(policy, command) ==
  LET merged == IF policy[command] = None THEN policy.slo ELSE MergeCommand(policy.slo, policy[command])
  IN  [what |-> <<policy.pipeline, command>>, hours |-> ResolveSloHours(merged),
       rate |-> merged.rate]

FlattenSloRows(policy) ==
  {SloRow(policy, command) : command \in {"extract", "load"} \ policy.skips}

(* The tests of the ops build over the rows that they are served.  The     *)
(* error rate is in percent.                                               *)

Within(rows, row, hours) ==
  {r \in DOMAIN rows : r.what = row.what /\ r.started >= clock - hours}

Recent(rows, row) ==
  \E r \in Within(rows, row, row.hours.recency) : r.status = "ok"

RateHolds(rows, row) ==
  LET scored == Within(rows, row, row.hours.score)
      errors == {r \in scored : r.status = "error"}
  IN  row.rate # None =>
        /\ scored # {}
        /\ 100 * Cardinality(errors) <= row.rate * Cardinality(scored)

FailClosedCodes == {"schema_invalid", "integrity_error", "secret_not_set"}

NoContractBroken(rows, row) ==
  \A r \in Within(rows, row, row.hours.score) : r.code \notin FailClosedCodes

SloHolds(rows, row) ==
  Recent(rows, row) /\ RateHolds(rows, row) /\ NoContractBroken(rows, row)
=============================================================================
