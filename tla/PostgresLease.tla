---------------------------- MODULE PostgresLease ----------------------------
(***************************************************************************)
(* Interval leases as rows of a Postgres table (PostgresLeaseStore).       *)
(*                                                                         *)
(* The primary key keeps one row per interval; in overlap mode an          *)
(* exclusion constraint keeps overlapping intervals apart as well.  An     *)
(* operator is one statement or one transaction.  Acquiring takes two      *)
(* steps when the insert finds a rival: the rival's row is read, and       *)
(* stolen by its token in a later statement.                               *)
(***************************************************************************)
EXTENDS BronzeWorkers

CONSTANT Interval   \* a set of intervals, each the set of the instants in it

ASSUME IntervalAssumption == {} \notin Interval

VARIABLES
    mode,        \* DET_LOCK_MODE: "exact" or "overlap"
    holder,      \* the token in the row of an interval, NoOne without a row
    leaseDue,    \* the rows whose expires_at has passed
    rival        \* the row that stopped an insert, until it is stolen

leaseVars == <<mode, holder, leaseDue, rival>>

NoRival == [row |-> {}, token |-> NoOne]

LeaseTypeOK ==
    /\ mode \in {"exact", "overlap"}
    /\ holder \in [Interval -> Worker \cup {NoOne}]
    /\ leaseDue \subseteq Interval
    /\ rival \in [Worker -> [row : Interval, token : Worker] \cup {NoRival}]

LeaseInit ==
    /\ holder = [i \in Interval |-> NoOne]
    /\ leaseDue = {}
    /\ rival = [w \in Worker |-> NoRival]

-----------------------------------------------------------------------------
Clash(i, j) == IF mode = "overlap" THEN i \cap j # {} ELSE i = j

\* The rows _fetch_blocking and _clear_expired look at.
RowsAgainst(i) == {j \in Interval : holder[j] # NoOne /\ Clash(i, j)}

\* The table once `gone` is deleted and w's row written.
WithLease(w, i, gone) ==
    [j \in Interval |-> IF j = i THEN w ELSE IF j \in gone THEN NoOne ELSE holder[j]]

\* Overdue rows are cleared and the insert meets no conflict.
InsertLease(w, i) ==
    /\ RowsAgainst(i) \subseteq leaseDue
    /\ holder' = WithLease(w, i, RowsAgainst(i))
    /\ leaseDue' = leaseDue \ (RowsAgainst(i) \cup {i})
    /\ UNCHANGED <<mode, rival>>

\* The insert's savepoint is rolled back and a blocking row is fetched.
MeetRival(w, i) ==
    \E j \in RowsAgainst(i) \ leaseDue :
        /\ rival' = [rival EXCEPT ![w] = [row |-> j, token |-> holder[j]]]
        /\ UNCHANGED <<mode, holder, leaseDue>>

\* The fetched row is overdue by now: UPDATE ... WHERE token = the rival's.
RivalOverdue(w) == rival[w].row \in leaseDue

\* The row moves to the thief's interval, wherever its deadline is by now.
StealLease(w, i) ==
    LET j == rival[w].row
    IN /\ holder[j] = rival[w].token
       /\ RowsAgainst(i) \ {j} \subseteq leaseDue
       /\ holder' = WithLease(w, i, RowsAgainst(i))
       /\ leaseDue' = leaseDue \ (RowsAgainst(i) \cup {i})
       /\ rival' = [rival EXCEPT ![w] = NoRival]
       /\ mode' = mode

\* LeaseHeldError, or the constraint's own error: everything rolls back.
LoseToRival(w) ==
    /\ rival' = [rival EXCEPT ![w] = NoRival]
    /\ UNCHANGED <<mode, holder, leaseDue>>

StealFails(w, i) ==
    \/ holder[rival[w].row] # rival[w].token
    \/ RowsAgainst(i) \ {rival[w].row} # {}

-----------------------------------------------------------------------------
\* refresh(): by token, whatever the deadline.
RefreshLease(w, i) ==
    /\ leaseDue' = IF holder[i] = w THEN leaseDue \ {i} ELSE leaseDue
    /\ UNCHANGED <<mode, holder, rival>>

\* Mutant: ensure_held() asks only whether the interval is leased.
LeaseHeldBySomebody(w, i) == holder[i] # NoOne /\ i \notin leaseDue

\* ensure_held(): by token, and only before the deadline.
LeaseHeld(w, i) == holder[i] = w /\ i \notin leaseDue

DeleteLease(w, i) ==
    /\ holder' = IF holder[i] = w THEN [holder EXCEPT ![i] = NoOne] ELSE holder
    /\ leaseDue' = IF holder[i] = w THEN leaseDue \ {i} ELSE leaseDue
    /\ UNCHANGED <<mode, rival>>

\* force_release() deletes every row that clashes with the interval.
ForceDeleteLease(i) ==
    /\ RowsAgainst(i) # {}
    /\ holder' = [j \in Interval |-> IF j \in RowsAgainst(i) THEN NoOne ELSE holder[j]]
    /\ leaseDue' = leaseDue \ RowsAgainst(i)
    /\ UNCHANGED <<mode, rival>>

LeaseDeadlinePasses(i) ==
    /\ holder[i] # NoOne /\ i \notin leaseDue
    /\ leaseDue' = leaseDue \cup {i}
    /\ UNCHANGED <<mode, holder, rival>>
=============================================================================
