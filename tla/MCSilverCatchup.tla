-------------------------- MODULE MCSilverCatchup --------------------------
(***************************************************************************)
(* SilverCatchup on small instances: two intervals suffice for a run that  *)
(* lands late and for one that shares a second or a key with another.      *)
(***************************************************************************)
EXTENDS SilverCatchup

\* Transactional bronze, with a lookback of n seconds.
Tables(n, sessions, runs, losses) ==
    [files |-> FALSE, lookback |-> {n}, window |-> MaxTs, sessions |-> sessions,
     runs |-> runs, losses |-> losses]

\* JSONL bronze.
Files(lookback, sessions, runs, losses) ==
    [files |-> TRUE, lookback |-> lookback, window |-> 0, sessions |-> sessions,
     runs |-> runs, losses |-> losses]

\* Scheduled heals, first of runs that stay in bronze.
Heals == {Tables(0, Healer, 3, 0), Tables(1, Healer, 2, 2)}

\* Dry run, approval and apply: what is planned changes with the second run.
Applies ==
    {[Tables(0, Operator, 2, 0) EXCEPT !.lookback = {}, !.window = 0],
     Files({}, Operator, 1, 1)}

\* Watermark builds by themselves.
Builds == {Tables(1, {}, 3, 3), Files({0}, {}, 2, 2)}

Deployed == Heals \cup Applies \cup Builds
=============================================================================
