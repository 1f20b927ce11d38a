SPECIFICATION Spec
CONSTANTS
  None = None
  WindowDays = 2
  cli = cli
  dag = dag
  Materializer = {cli, dag}
  Airflow = dag
  Attempted <- MCAttempted
  Errors <- MCErrors
  Policies <- MCPolicies
  Deployments <- MCDeployments
  MaxAttempts = 2
  MaxClock = 24
  Hours = 24
INVARIANT OneRowPerAttempt
INVARIANT DailyAgreesWithSummary
INVARIANT VerdictIsTrue
PROPERTY RowsStay
INVARIANT TableSettles
CONSTRAINT OneTrouble
CHECK_DEADLOCK FALSE
