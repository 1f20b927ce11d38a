----------------------------- MODULE MCOpsTable -----------------------------
(* A command and the daily DAG over the receipts of a pipeline that        *)
(* extracts: tables that are absent, older, of other types or not          *)
(* partitioned, in either catalog, read from the lake or from BigQuery.    *)
EXTENDS OpsTable

CONSTANTS cli, dag

Table(columns, partitioned) ==
  [NewTable EXCEPT !.columns = columns, !.partitioned = partitioned]

Deployed(kind, big, who, table) ==
  [catalog |-> kind, bigquery |-> big, materializers |-> who, table |-> table]

MCDeployments ==
  {Deployed("hadoop", FALSE, {cli, dag}, None), Deployed("hadoop", TRUE, {cli}, Table("older", FALSE)),
   Deployed("rest", FALSE, {cli, dag}, Table("other", TRUE))}

MCErrors == {FromPlugin("HttpIntegrityError")}

MCAttempted == {<<"p", "extract">>}

Nothing == [cadence |-> None, recency |-> None, score |-> None, rate |-> None]

MCPolicies ==
  {[pipeline |-> "p", slo |-> [Nothing EXCEPT !.cadence = "daily"], extract |-> None, load |-> None, skips |-> {"load"}],
   [pipeline |-> "p", slo |-> [Nothing EXCEPT !.cadence = "weekly", !.rate = 50],
    extract |-> [Nothing EXCEPT !.recency = 12, !.score = 36], load |-> None, skips |-> {"load"}]}

(* A failed release and a receipt that a scan could not read are looked at *)
(* one at a time.                                                          *)
OneTrouble ==
  \/ \A id \in DOMAIN attempt : attempt[id].release = {}
  \/ \A m \in Materializer : Missed(m) = {}
=============================================================================
