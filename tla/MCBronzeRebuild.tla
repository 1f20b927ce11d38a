--------------------------- MODULE MCBronzeRebuild ---------------------------
(***************************************************************************)
(* BronzeRebuild on small instances: two days, and in overlap mode the two *)
(* days together as a third interval.                                      *)
(***************************************************************************)
EXTENDS BronzeRebuild, TLC

TwoDays == {{1}, {2}}
DayAndBoth == {{1}, {1, 2}}
AllDays == {Interval}

Symmetry == Permutations(Worker)

\* Every pair of commands that share the dataset lock or exclude each other.
Deployed ==
    {<<"exact", "rest">>, <<"overlap", "hadoop">>, <<"overlap", "rest">>}
Commands ==
    [d \in Deployed |-> CASE d = <<"exact", "rest">> -> {"migrate", "recreate"}
                          [] d = <<"overlap", "hadoop">> -> {"load", "recreate"}
                          [] d = <<"overlap", "rest">> -> {"load", "migrate"}]

DefaultDeployment == {<<"exact", "hadoop">>}
AllCommands ==
    [d \in DefaultDeployment |-> {"load", "migrate", "recreate"}]
=============================================================================
