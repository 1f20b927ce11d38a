---------------------------- MODULE BronzeRebuild ----------------------------
(***************************************************************************)
(* Loads and migrations of one Iceberg bronze dataset, with the locks in   *)
(* Postgres (det load, det migrate, det migrate --recreate-iceberg).       *)
(*                                                                         *)
(* A load or a plain migration takes the interval lease, then the dataset  *)
(* lock shared; a recreate takes the dataset lock exclusively, purges the  *)
(* table and lands one raw partition after the other, each under its       *)
(* interval lease.  Every remote operation is one step.                    *)
(*                                                                         *)
(* Assumed of the deployment: no deadline of the dataset lock passes       *)
(* between a fence and the end of what it guards (the documented residual  *)
(* window), and nobody force-releases the dataset lock of a live process.  *)
(***************************************************************************)
EXTENDS PostgresLease, PostgresDatasetLock, IcebergCatalog, Integers

CONSTANTS
    MaxRun,      \* bound on the extract runs of an interval
    Scopes,      \* the sets of intervals a migration may be asked for
    Deployments, \* the lock modes and catalogs, in the combinations to check
    Jobs         \* the commands that run in each of them

ASSUME RebuildConstants ==
    /\ MaxRun \in Nat \ {0}
    /\ Scopes \subseteq SUBSET Interval
    /\ Deployments \subseteq {"exact", "overlap"} \X {"hadoop", "rest"}
    /\ Jobs \in [Deployments -> SUBSET {"load", "migrate", "recreate"}]

Run == Interval \X (0 .. MaxRun)

ASSUME NoTableAssumption == \A runs \in SUBSET Run : runs # NoTable

VARIABLES
    raw,         \* how many extract runs of an interval are committed to raw
    pc,
    job,         \* "load", "migrate" or "recreate"
    plan,        \* the runs a recreate set out to rebuild
    todo,        \* the runs a migration has not started on
    part,        \* the run being landed
    failed,      \* the workers on their way out with an exception
    loaded,      \* the runs reported as landed since the table was purged, by
                 \* workers that were not crowded
    ousted,      \* the workers whose interval was leased to another since
    crowded      \* the workers that have been in the dataset lock together, one
                 \* exclusively, the others let in beside its lapsed entry

workVars == <<pc, job, plan, todo, part, failed>>
historyVars == <<loaded, ousted, crowded>>
vars == <<leaseVars, lockVars, tableVars, raw, workVars, historyVars>>

NoRun == <<{}, 0>>

At(w) == part[w][1]

Recreating(w) == job[w] = "recreate"

Init ==
    /\ \E d \in Deployments : mode = d[1] /\ catalog = d[2]
    /\ LeaseInit /\ LockInit /\ TableInit
    /\ raw = [i \in Interval |-> 0]
    /\ pc = [w \in Worker |-> "idle"]
    /\ job = [w \in Worker |-> "load"]
    /\ plan = [w \in Worker |-> {}]
    /\ todo = [w \in Worker |-> {}]
    /\ part = [w \in Worker |-> NoRun]
    /\ failed = {} /\ loaded = {} /\ ousted = {} /\ crowded = {}

-----------------------------------------------------------------------------
\* Steps that touch one part of the state leave the others alone.
LeaseOnly == UNCHANGED <<lockVars, tableVars, raw>>
LockOnly  == UNCHANGED <<leaseVars, tableVars, raw>>
TableOnly == UNCHANGED <<leaseVars, lockVars, raw>>
Nothing   == UNCHANGED <<leaseVars, lockVars, tableVars, raw>>

\* What a command that has ended knew.
Forget(w) ==
    /\ job' = [job EXCEPT ![w] = "load"]
    /\ plan' = [plan EXCEPT ![w] = {}] /\ todo' = [todo EXCEPT ![w] = {}]
    /\ part' = [part EXCEPT ![w] = NoRun]
    /\ failed' = failed \ {w}

Continue(w, label, errors) ==
    /\ pc' = [pc EXCEPT ![w] = label]
    /\ IF label = "done" THEN Forget(w)
       ELSE failed' = errors /\ UNCHANGED <<job, plan, todo, part>>

Goto(w, label) == Continue(w, label, failed)

\* An exception: the context managers release what they hold, inside out.
Raise(w, label) == Continue(w, label, failed \cup {w})

\* Where an exception while landing, or while leasing, leads to.
AfterLand(w) == IF Recreating(w) THEN "unlease" ELSE "unshare"
AfterLease(w) == IF Recreating(w) THEN "close" ELSE "done"

-----------------------------------------------------------------------------
Offered == Jobs[<<mode, catalog>>]

StartLoad(w) ==
    /\ pc[w] = "idle" /\ "load" \in Offered
    /\ \E i \in Interval : part' = [part EXCEPT ![w] = <<i, 0>>]
    /\ job' = [job EXCEPT ![w] = "load"]
    /\ pc' = [pc EXCEPT ![w] = "lease"]
    /\ Nothing
    /\ UNCHANGED <<plan, todo, failed, historyVars>>

\* _raw_partitions_for_migrate(): the latest committed run of each interval,
\* or with --all-raw-runs every one of them.
Selected(scope, every) ==
    {run \in scope \X (1 .. MaxRun) :
        IF every THEN run[2] <= raw[run[1]] ELSE run[2] = raw[run[1]]}

\* The partitions are selected before any lock is taken.
StartMigrate(w) ==
    /\ pc[w] = "idle"
    /\ \E scope \in Scopes, every \in BOOLEAN, kind \in Offered \ {"load"} :
        /\ job' = [job EXCEPT ![w] = kind]
        /\ todo' = [todo EXCEPT ![w] = Selected(scope, every)]
        /\ plan' = [plan EXCEPT ![w] = IF kind = "recreate" THEN Selected(scope, every) ELSE {}]
        /\ pc' = [pc EXCEPT ![w] = IF kind = "recreate" THEN "open" ELSE "next"]
    /\ Nothing
    /\ UNCHANGED <<part, failed, historyVars>>

\* The next partition of a migration, or its end.
NextPart(w) ==
    /\ pc[w] = "next"
    /\ \/ /\ todo[w] = {}
          /\ Goto(w, AfterLease(w))
       \/ \E run \in todo[w] :
            /\ part' = [part EXCEPT ![w] = run]
            /\ todo' = [todo EXCEPT ![w] = @ \ {run}]
            /\ pc' = [pc EXCEPT ![w] = "lease"]
            /\ UNCHANGED <<job, plan, failed>>
    /\ Nothing /\ UNCHANGED historyVars

-----------------------------------------------------------------------------
\* pipeline_lease(): acquire, refresh; LeaseHeldError ends the command.
Leasing == {"refreshLease", "resolve", "share", "refreshShare", "fenceLease",
            "fenceLock", "ensure", "create", "createHint", "reload", "write",
            "hint", "stamp", "renew"}

\* Another worker now holds what w believes to hold.
Ousts(v) ==
    /\ ousted' = (ousted \ {v}) \cup
           {w \in Worker \ {v} : pc[w] \in Leasing /\ Clash(At(w), At(v))}
    /\ UNCHANGED <<loaded, crowded>>

AcquireLease(w) ==
    /\ pc[w] = "lease"
    /\ \/ InsertLease(w, At(w)) /\ Goto(w, "refreshLease") /\ Ousts(w)
       \/ MeetRival(w, At(w)) /\ Goto(w, "rival") /\ UNCHANGED historyVars
    /\ LeaseOnly

ConsiderRival(w) ==
    /\ pc[w] = "rival"
    /\ \/ RivalOverdue(w) /\ Goto(w, "steal") /\ UNCHANGED leaseVars
       \/ ~RivalOverdue(w) /\ Raise(w, AfterLease(w)) /\ LoseToRival(w)
    /\ LeaseOnly /\ UNCHANGED historyVars

Steal(w) ==
    /\ pc[w] = "steal"
    /\ \/ StealLease(w, At(w)) /\ Goto(w, "refreshLease") /\ Ousts(w)
       \/ /\ StealFails(w, At(w)) /\ LoseToRival(w)
          /\ Raise(w, AfterLease(w)) /\ UNCHANGED historyVars
    /\ LeaseOnly

RefreshAcquired(w) ==
    /\ pc[w] = "refreshLease"
    /\ RefreshLease(w, At(w))
    /\ Goto(w, CASE job[w] = "load" -> "resolve"
                 [] job[w] = "migrate" -> "share"
                 [] job[w] = "recreate" -> "fenceLease")
    /\ LeaseOnly /\ UNCHANGED historyVars

\* _resolve_raw_dir(): a committed run, and the lease is refreshed again.
Resolve(w) ==
    /\ pc[w] = "resolve"
    /\ \/ \E r \in 1 .. raw[At(w)] :
            /\ part' = [part EXCEPT ![w] = <<At(w), r>>]
            /\ pc' = [pc EXCEPT ![w] = "share"]
            /\ RefreshLease(w, At(w))
            /\ UNCHANGED <<job, plan, todo, failed>>
       \/ raw[At(w)] = 0 /\ Raise(w, "unlease") /\ UNCHANGED leaseVars
    /\ LeaseOnly /\ UNCHANGED historyVars

-----------------------------------------------------------------------------
\* A reader that has been let in beside an exclusive entry that has lapsed.
Joins(w) ==
    crowded' = (crowded \ {w}) \cup
                   (IF exclusive' # NoOne /\ exclusive \in lockDue THEN {w, exclusive} ELSE {})

\* dataset_shared_lock(): never waits.
Share(w) ==
    /\ pc[w] = "share"
    /\ \/ /\ \E late \in SUBSET Lapsed : AcquireShared(w, late)
          /\ Joins(w) /\ Goto(w, "refreshShare")
       \/ SharedRefused /\ Raise(w, "unlease") /\ RollBack(w) /\ UNCHANGED crowded
    /\ LockOnly /\ UNCHANGED <<loaded, ousted>>

RefreshShared(w) ==
    /\ pc[w] = "refreshShare"
    /\ RefreshLock(w)
    /\ Goto(w, "fenceLease")
    /\ LockOnly /\ UNCHANGED historyVars

\* dataset_exclusive_lock(): computes its deadline, polls until readers are
\* gone, fails behind another writer or when it has waited long enough.
Open(w) ==
    /\ pc[w] = "open"
    /\ RollBack(w)
    /\ Goto(w, "poll")
    /\ LockOnly /\ UNCHANGED historyVars

Poll(w) ==
    /\ pc[w] \in {"poll", "wait"}
    /\ \E late \in SUBSET Lapsed :
        \/ AcquireExclusive(w, late) /\ Goto(w, "refreshExclusive")
        \/ AnnounceIntent(w, late) /\ Goto(w, "wait")
        \/ ExclusiveRefused(late) /\ Raise(w, "done") /\ RollBack(w)
    /\ LockOnly /\ UNCHANGED historyVars

GiveUp(w) ==
    /\ pc[w] = "wait"
    /\ WithdrawIntent(w) /\ Raise(w, "done")
    /\ LockOnly /\ UNCHANGED historyVars

\* The refresh and the fence right after it: the entry is there, or it is not.
EnterExclusive(w) ==
    /\ pc[w] = "refreshExclusive"
    /\ \E late \in SUBSET (Lapsed \ {w}) :
        \/ RefreshAndFence(w, late) /\ Goto(w, "drop")
        \/ ~InLock(w) /\ Prune(late) /\ Raise(w, "close")
    /\ LockOnly /\ UNCHANGED historyVars

\* purge_iceberg_table()
Drop(w) ==
    /\ pc[w] = "drop"
    /\ DropTable
    /\ loaded' = {}
    /\ Goto(w, "wipe")
    /\ TableOnly /\ UNCHANGED <<ousted, crowded>>

Wipe(w) ==
    /\ pc[w] = "wipe"
    /\ DropTable
    /\ Goto(w, "next")
    /\ TableOnly /\ UNCHANGED historyVars

-----------------------------------------------------------------------------
\* land_bronze_partition()
FenceLease(w) ==
    /\ pc[w] = "fenceLease"
    /\ \/ LeaseHeld(w, At(w)) /\ Goto(w, "fenceLock")
       \/ ~LeaseHeld(w, At(w)) /\ Raise(w, AfterLand(w))
    /\ Nothing /\ UNCHANGED historyVars

\* assert_dataset_lock_held(), then refresh_bronze_locks().
FenceLock(w) ==
    /\ pc[w] = "fenceLock"
    /\ \E late \in SUBSET Lapsed :
        \/ FencePasses(w, late) /\ RefreshLease(w, At(w)) /\ Goto(w, "ensure")
        \/ ~LockHeld(w, late) /\ Prune(late) /\ UNCHANGED leaseVars /\ Raise(w, AfterLand(w))
    /\ UNCHANGED <<tableVars, raw, historyVars>>

\* The second lease fence, then stamp_validation_success().
Stamp(w) ==
    /\ pc[w] = "stamp"
    /\ \/ /\ LeaseHeld(w, At(w))
          /\ loaded' = IF w \in crowded THEN loaded ELSE loaded \cup {part[w]}
          /\ Goto(w, IF job[w] = "migrate" THEN "renew" ELSE AfterLand(w))
       \/ ~LeaseHeld(w, At(w)) /\ loaded' = loaded /\ Raise(w, AfterLand(w))
    /\ Nothing /\ UNCHANGED <<ousted, crowded>>

\* ensure_iceberg_table()
EnsureTable(w) ==
    /\ pc[w] \in {"ensure", "reload"}
    /\ \/ LoadTable(w) /\ Goto(w, "write")
       \/ /\ table = NoTable /\ UNCHANGED tableVars
          /\ IF pc[w] = "ensure" THEN Goto(w, "create") ELSE Raise(w, AfterLand(w))
    /\ TableOnly /\ UNCHANGED historyVars

Create(w) ==
    /\ pc[w] = "create"
    /\ \/ table = NoTable /\ catalog = "hadoop" /\ Goto(w, "createHint") /\ UNCHANGED tableVars
       \/ table = NoTable /\ catalog = "rest" /\ CreateTable(w) /\ Goto(w, "write")
       \/ table # NoTable /\ Raise(w, AfterLand(w)) /\ UNCHANGED tableVars
    /\ TableOnly /\ UNCHANGED historyVars

CreateHint(w) ==
    /\ pc[w] = "createHint"
    /\ CreateTable(w)
    /\ Goto(w, "reload")
    /\ TableOnly /\ UNCHANGED historyVars

\* Rows are parsed, coerced and appended to the transaction, chunk by chunk.
\* Every chunk refreshes both locks.
WriteChunk(w) ==
    /\ pc[w] = "write"
    /\ RefreshLease(w, At(w)) /\ RefreshLock(w)
    /\ UNCHANGED <<pc, job, plan, todo, part, failed, tableVars, raw, historyVars>>

WriteFails(w) ==
    /\ pc[w] = "write"
    /\ Discard(w) /\ Raise(w, AfterLand(w))
    /\ TableOnly /\ UNCHANGED historyVars

\* commit_transaction(): requirements, then the pointer.
Commit(w) ==
    /\ pc[w] = "write"
    /\ \/ /\ BaseIsCurrent(w)
          /\ \/ catalog = "hadoop" /\ Goto(w, "hint") /\ UNCHANGED tableVars
             \/ catalog = "rest" /\ Publish(w, part[w]) /\ Goto(w, "stamp")
       \/ ~BaseIsCurrent(w) /\ Discard(w) /\ Raise(w, AfterLand(w))
    /\ TableOnly /\ UNCHANGED historyVars

\* _write_hint() overwrites whatever the pointer is by then.
WriteHint(w) ==
    /\ pc[w] = "hint"
    /\ Publish(w, part[w])
    /\ Goto(w, "stamp")
    /\ TableOnly /\ UNCHANGED historyVars

-----------------------------------------------------------------------------
Unshare(w) ==
    /\ pc[w] = "unshare"
    /\ ReleaseLock(w)
    /\ Goto(w, "unlease")
    /\ crowded' = crowded \ {w}
    /\ LockOnly /\ UNCHANGED <<loaded, ousted>>

Unlease(w) ==
    /\ pc[w] = "unlease"
    /\ DeleteLease(w, At(w))
    /\ Goto(w, IF w \in failed \/ job[w] = "load" THEN AfterLease(w)
               ELSE IF Recreating(w) THEN "renew" ELSE "next")
    /\ ousted' = ousted \ {w} /\ UNCHANGED <<loaded, crowded>>
    /\ LeaseOnly

\* A migration's refresh_bronze_locks() after a partition; a recreate has
\* released the lease by then, and the refresh finds no row.
Renew(w) ==
    /\ pc[w] = "renew"
    /\ RefreshLease(w, At(w)) /\ RefreshLock(w)
    /\ Goto(w, IF Recreating(w) THEN "next" ELSE "unshare")
    /\ UNCHANGED <<tableVars, raw, historyVars>>

Close(w) ==
    /\ pc[w] = "close"
    /\ ReleaseLock(w)
    /\ Goto(w, "done")
    /\ crowded' = crowded \ {w}
    /\ LockOnly /\ UNCHANGED <<loaded, ousted>>

-----------------------------------------------------------------------------
Alive(w) == pc[w] # "dead"

Crash(w) ==
    /\ pc[w] \notin {"idle", "done", "dead"}
    /\ pc' = [pc EXCEPT ![w] = "dead"]
    /\ Forget(w) /\ Discard(w)
    /\ rival' = [rival EXCEPT ![w] = NoRival]
    /\ lockDue' = IF InLock(w) THEN lockDue ELSE lockDue \ {w}
    /\ ousted' = ousted \ {w}
    /\ UNCHANGED <<mode, holder, leaseDue, entries, raw, loaded, crowded>>

\* A new process takes the name once the old one's tokens are nowhere left.
Restart(w) ==
    /\ pc[w] \in {"done", "dead"}
    /\ ~InLock(w) /\ intent # w
    /\ \A i \in Interval : holder[i] # w
    /\ \A v \in Worker : rival[v].token # w
    /\ pc' = [pc EXCEPT ![w] = "idle"]
    /\ crowded' = crowded \ {w}
    /\ Nothing
    /\ UNCHANGED <<job, plan, todo, part, failed, loaded, ousted>>

\* Another command commits an extract run, under the interval's lease.
Extract(i) ==
    /\ RowsAgainst(i) = {} /\ raw[i] < MaxRun
    /\ raw' = [raw EXCEPT ![i] = @ + 1]
    /\ UNCHANGED <<leaseVars, lockVars, tableVars, workVars, historyVars>>

\* What a dataset fence guards, to the end of the write or of the purge.
Guarded == {"ensure", "create", "createHint", "reload", "write", "hint", "stamp",
            "drop", "wipe"}

\* Deadlines pass; a waiting writer renews its intent with every poll.
LeaseExpires(i) ==
    /\ LeaseDeadlinePasses(i)
    /\ LeaseOnly /\ UNCHANGED <<workVars, historyVars>>

LockExpires(w) ==
    /\ InLock(w) \/ pc[w] \in {"poll", "wait"}
    /\ pc[w] \notin Guarded
    /\ LockDeadlinePasses(w)
    /\ LockOnly /\ UNCHANGED <<workVars, historyVars>>

IntentExpires ==
    /\ intent \in {w \in Worker : pc[w] # "wait"}
    /\ IntentDeadlinePasses
    /\ LockOnly /\ UNCHANGED <<workVars, historyVars>>

\* det lock-status prunes what has expired.
InspectLock ==
    /\ Prune({})
    /\ LockOnly /\ UNCHANGED <<workVars, historyVars>>

ForceRelease ==
    \/ /\ \E i \in Interval : ForceDeleteLease(i)
       /\ LeaseOnly /\ UNCHANGED <<workVars, historyVars>>
    \/ /\ \A w \in Worker : InLock(w) \/ intent = w => ~Alive(w)
       /\ ForceDeleteLock
       /\ LockOnly /\ UNCHANGED <<workVars, historyVars>>

-----------------------------------------------------------------------------
LeaseStep(w) ==
    \/ AcquireLease(w) \/ ConsiderRival(w) \/ Steal(w) \/ RefreshAcquired(w)
    \/ Resolve(w) \/ Unlease(w)

LockStep(w) ==
    \/ Share(w) \/ RefreshShared(w) \/ Open(w) \/ Poll(w) \/ EnterExclusive(w)
    \/ FenceLock(w) \/ Unshare(w) \/ Renew(w) \/ Close(w)

LandStep(w) ==
    \/ FenceLease(w) \/ EnsureTable(w) \/ Create(w) \/ CreateHint(w)
    \/ WriteFails(w) \/ Commit(w) \/ WriteHint(w) \/ Stamp(w)

Step(w) == LeaseStep(w) \/ LockStep(w) \/ LandStep(w) \/ NextPart(w) \/ Drop(w) \/ Wipe(w)

Next ==
    \/ \E w \in Worker :
        \/ StartLoad(w) \/ StartMigrate(w) \/ Step(w) \/ WriteChunk(w) \/ GiveUp(w)
        \/ Crash(w) \/ Restart(w) \/ LockExpires(w)
    \/ \E i \in Interval : Extract(i) \/ LeaseExpires(i)
    \/ IntentExpires \/ InspectLock \/ ForceRelease

Spec == Init /\ [][Next]_vars

-----------------------------------------------------------------------------
\* As long as no reader has been let in beside an exclusive entry whose deadline
\* had passed, the dataset lock has a writer or readers, those included whose
\* deadline has passed and who may still renew it.
ReadersOrWriter == exclusive \notin crowded \cup {NoOne} => shared = {}

\* A recreate that ends well leaves every run it set out to rebuild in the
\* table, unless its lock went to another command meanwhile or was shared.
RebuildIsWhole ==
    \A w \in Worker :
        pc[w] = "close" /\ w \notin failed /\ exclusive = w /\ w \notin crowded =>
            plan[w] \subseteq Rows

\* Where the catalog swaps its pointer atomically, what was reported as landed
\* stays in the table until the table is purged.
LoadedStays == catalog = "rest" => loaded \subseteq Rows

\* The raw partition is stamped as validated by a worker whose interval has
\* been nobody else's since it acquired the lease.
Stamps(w) == pc[w] = "stamp" /\ pc'[w] \notin {"stamp", "dead"} /\ w \notin failed'
StampedByHolder == [][\A w \in Worker : Stamps(w) => w \notin ousted]_vars

\* "Parallel loads on different intervals remain concurrent"
\* (docs/publication-contract.md): while every lease was kept, what was
\* reported as landed is in the table, with the default catalog too.
CommitsAreKept == ousted = {} => loaded \subseteq Rows
=============================================================================
