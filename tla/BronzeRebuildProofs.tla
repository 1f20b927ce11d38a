------------------------- MODULE BronzeRebuildProofs -------------------------
(***************************************************************************)
(* Proofs about BronzeRebuild, for any workers, intervals, runs, scopes    *)
(* and deployments: readers and a writer exclude each other until a reader *)
(* is let in beside a lapsed writer, a partition is stamped by a holder of *)
(* its lease, and where the dataset lock is kept and not crowded a rebuild *)
(* is whole and nothing that was loaded is lost.                           *)
(***************************************************************************)
EXTENDS BronzeRebuild, TLAPS

USE DEF leaseVars, entries, lockVars, tableVars, workVars, historyVars, LeaseOnly, LockOnly,
        TableOnly, Nothing

\* Everything a worker does by itself.
Act(w) ==
    \/ StartLoad(w) \/ StartMigrate(w) \/ Step(w) \/ WriteChunk(w) \/ GiveUp(w)
    \/ Crash(w) \/ Restart(w)

Environment ==
    \/ \E w \in Worker : LockExpires(w)
    \/ \E i \in Interval : Extract(i) \/ LeaseExpires(i)
    \/ IntentExpires \/ InspectLock \/ ForceRelease

LEMMA NextSplits == Next <=> Environment \/ \E w \in Worker : Act(w)
  BY DEF Next, Act, Environment

-----------------------------------------------------------------------------
\* A writer and readers are in the lock together, expired ones included, only
\* if each of the readers was let in beside the writer.
Sides ==
    exclusive # NoOne /\ shared # {} => exclusive \in crowded /\ shared \subseteq crowded

LEMMA SidesKept == Sides /\ [Next]_vars => Sides'
  <1> SUFFICES ASSUME Sides, [Next]_vars PROVE Sides'
    OBVIOUS
  <1> USE DEF Sides, Prune, Store, LiveExclusive, LeftExclusive, LeftShared, Left, StillDue, Lapsed
  <1>1. CASE UNCHANGED <<lockVars, crowded>>
    BY <1>1
  <1>2. ASSUME NEW w \in Worker, Share(w) PROVE Sides'
    <2>1. CASE SharedRefused /\ RollBack(w) /\ UNCHANGED crowded
      BY <2>1 DEF RollBack
    <2>2. CASE Joins(w) /\ \E late \in SUBSET Lapsed : AcquireShared(w, late)
      <3>1. PICK late \in SUBSET Lapsed : AcquireShared(w, late)
        BY <2>2
      <3>2. /\ exclusive' \in {exclusive, NoOne}
            /\ exclusive # NoOne => exclusive \in lockDue
            /\ shared' \subseteq shared \cup {w}
        BY <3>1 DEF AcquireShared, SharedRefused
      <3>3. exclusive' # NoOne => crowded' = (crowded \ {w}) \cup {w, exclusive}
        BY <2>2, <3>2 DEF Joins
      <3>4. QED
        BY <3>2, <3>3
    <2>3. QED
      BY <1>2, <2>1, <2>2 DEF Share
  <1>3. ASSUME NEW w \in Worker, Poll(w) PROVE Sides'
    BY <1>3 DEF Poll, AcquireExclusive, ExclusiveFree, AnnounceIntent, ExclusiveRefused, RollBack
  <1>4. ASSUME NEW w \in Worker, EnterExclusive(w) \/ FenceLock(w) PROVE Sides'
    BY <1>4 DEF EnterExclusive, RefreshAndFence, FenceLock, FencePasses
  <1>5. ASSUME NEW w \in Worker, Unshare(w) \/ Close(w) PROVE Sides'
    BY <1>5 DEF Unshare, Close, ReleaseLock
  <1>6. ASSUME NEW w \in Worker, Restart(w) PROVE Sides'
    BY <1>6 DEF Restart, InLock
  <1>7. ASSUME NEW w \in Worker,
               \/ RefreshShared(w) \/ Open(w) \/ Renew(w) \/ WriteChunk(w) \/ GiveUp(w)
               \/ Crash(w) \/ LockExpires(w)
        PROVE Sides'
    BY <1>7 DEF RefreshShared, RefreshLock, Open, RollBack, Renew, WriteChunk, GiveUp,
           WithdrawIntent, Crash, LockExpires, LockDeadlinePasses
  <1>8. CASE IntentExpires \/ InspectLock \/ ForceRelease
    BY <1>8 DEF IntentExpires, IntentDeadlinePasses, InspectLock, ForceRelease, ForceDeleteLock
  <1>9. ASSUME NEW w \in Worker,
               \/ LeaseStep(w) \/ LandStep(w) \/ NextPart(w) \/ Drop(w) \/ Wipe(w)
               \/ StartLoad(w) \/ StartMigrate(w)
        PROVE UNCHANGED <<lockVars, crowded>>
    BY <1>9 DEF LeaseStep, AcquireLease, ConsiderRival, Steal, Ousts, RefreshAcquired, Resolve,
           Unlease, LandStep, FenceLease, EnsureTable, Create, CreateHint, WriteFails, Commit,
           WriteHint, Stamp, NextPart, Drop, Wipe, StartLoad, StartMigrate
  <1>10. ASSUME NEW i \in Interval, Extract(i) \/ LeaseExpires(i)
         PROVE UNCHANGED <<lockVars, crowded>>
    BY <1>10 DEF Extract, LeaseExpires
  <1>11. CASE UNCHANGED vars
    BY <1>11, <1>1 DEF vars
  <1>12. QED
    BY <1>1, <1>2, <1>3, <1>4, <1>5, <1>6, <1>7, <1>8, <1>9, <1>10, <1>11
       DEF Next, Step, LockStep

\* No command reads or writes beside one that rebuilds the dataset, unless it
\* was let in beside the rebuilding one's lapsed entry.
THEOREM ReadersExclude == Spec => []ReadersOrWriter
  <1>1. Init => Sides
    BY DEF Init, LockInit, Sides
  <1>2. Sides => ReadersOrWriter
    BY DEF Sides, ReadersOrWriter
  <1>3. QED
    BY <1>1, <1>2, SidesKept, PTL DEF Spec

-----------------------------------------------------------------------------
\* Where a worker has a partition in hand.
Placed == Leasing \cup {"lease", "rival", "steal", "unshare", "unlease"}

Typed ==
    /\ <<mode, catalog>> \in Deployments
    /\ holder \in [Interval -> Worker \cup {NoOne}]
    /\ raw \in [Interval -> 0 .. MaxRun]
    /\ table \in (SUBSET Run) \cup {NoTable}
    /\ base \in [Worker -> SUBSET Run]
    /\ pc = [w \in Worker |-> pc[w]]
    /\ job \in [Worker -> {"load", "migrate", "recreate"}]
    /\ plan \in [Worker -> SUBSET Run]
    /\ todo \in [Worker -> SUBSET Run]
    /\ part \in [Worker -> Run \cup {NoRun}]
    /\ shared \subseteq Worker /\ failed \subseteq Worker
    /\ \A w \in Worker : pc[w] \in Placed => part[w] \in Run

LEMMA RunParts ==
    ASSUME NEW run \in Run PROVE run[1] \in Interval /\ run[2] \in 0 .. MaxRun
  BY DEF Run

LEMMA SelectedRuns ==
    ASSUME NEW scope \in Scopes, NEW every \in BOOLEAN PROVE Selected(scope, every) \subseteq Run
  BY RebuildConstants DEF Selected, Run

LEMMA LeaseTyped ==
    ASSUME Typed, NEW w \in Worker, NEW i \in Interval,
           \/ InsertLease(w, i) \/ MeetRival(w, i) \/ StealLease(w, i) \/ LoseToRival(w)
           \/ RefreshLease(w, i) \/ DeleteLease(w, i)
    PROVE  holder' \in [Interval -> Worker \cup {NoOne}]
  BY DEF Typed, InsertLease, MeetRival, StealLease, LoseToRival, RefreshLease, DeleteLease,
         WithLease

LEMMA InitTyped == Init => Typed
  <1> SUFFICES ASSUME Init PROVE Typed
    OBVIOUS
  <1>1. 0 \in 0 .. MaxRun
    BY RebuildConstants
  <1>2. holder \in [Interval -> Worker \cup {NoOne}] /\ raw \in [Interval -> 0 .. MaxRun]
    BY <1>1 DEF Init, LeaseInit
  <1>3. \A w \in Worker : pc[w] \notin Placed
    BY DEF Init, Placed, Leasing
  <1>3a. <<mode, catalog>> \in Deployments
    BY RebuildConstants DEF Init
  <1>4. QED
    BY <1>2, <1>3, <1>3a DEF Init, TableInit, LockInit, Typed

\* What a worker does next, and with which partition.
Moves(w) ==
    /\ pc' = [u \in Worker |-> pc'[u]]
    /\ job' \in [Worker -> {"load", "migrate", "recreate"}]
    /\ plan' \in [Worker -> SUBSET Run]
    /\ todo' \in [Worker -> SUBSET Run]
    /\ part' \in [Worker -> Run \cup {NoRun}]
    /\ failed' \subseteq Worker
    /\ pc'[w] \in Placed => part'[w] \in Run
    /\ \A u \in Worker \ {w} :
        /\ pc'[u] = pc[u] /\ job'[u] = job[u] /\ plan'[u] = plan[u]
        /\ todo'[u] = todo[u] /\ part'[u] = part[u]
        /\ u \in failed' <=> u \in failed

LEMMA GotoMoves ==
    ASSUME Typed, NEW w \in Worker, NEW label,
           label \in Placed => part[w] \in Run,
           Goto(w, label)
    PROVE  Moves(w)
  BY DEF Typed, Goto, Continue, Forget, Moves, Placed, Leasing

LEMMA RaiseMoves ==
    ASSUME Typed, NEW w \in Worker, NEW label,
           label \in Placed => part[w] \in Run,
           Raise(w, label)
    PROVE  Moves(w)
  BY DEF Typed, Raise, Continue, Forget, Moves, Placed, Leasing

LEMMA WorkTyped ==
    ASSUME Typed, NEW w \in Worker, Act(w)
    PROVE  Moves(w)
  <1> USE DEF AfterLand, AfterLease, Recreating
  <1>0. pc[w] \in Placed => part[w] \in Run
    BY DEF Typed
  <1>0a. Jobs[<<mode, catalog>>] \subseteq {"load", "migrate", "recreate"}
    BY RebuildConstants DEF Typed
  <1>1. CASE StartLoad(w)
    <2>1. PICK i \in Interval : part' = [part EXCEPT ![w] = <<i, 0>>]
      BY <1>1 DEF StartLoad
    <2>2. <<i, 0>> \in Run
      BY RebuildConstants DEF Run
    <2>3. QED
      BY <1>1, <2>1, <2>2 DEF StartLoad, Typed, Moves
  <1>2. CASE StartMigrate(w)
    <2>0. Offered \ {"load"} \subseteq {"migrate", "recreate"}
      BY <1>0a DEF Offered
    <2>1. PICK scope \in Scopes, every \in BOOLEAN, kind \in {"migrate", "recreate"} :
            /\ job' = [job EXCEPT ![w] = kind]
            /\ todo' = [todo EXCEPT ![w] = Selected(scope, every)]
            /\ plan' = [plan EXCEPT ![w] = IF kind = "recreate" THEN Selected(scope, every) ELSE {}]
            /\ pc' = [pc EXCEPT ![w] = IF kind = "recreate" THEN "open" ELSE "next"]
      BY <1>2, <2>0 DEF StartMigrate
    <2>2. Selected(scope, every) \subseteq Run
      BY SelectedRuns
    <2>3. part' = part /\ failed' = failed
      BY <1>2 DEF StartMigrate
    <2>4. pc'[w] \notin Placed
      BY <2>1 DEF Typed, Placed, Leasing
    <2>5. QED
      BY <2>1, <2>2, <2>3, <2>4 DEF Typed, Moves
  <1>3. CASE AcquireLease(w) \/ ConsiderRival(w) \/ Steal(w)
    BY <1>3, <1>0, GotoMoves, RaiseMoves DEF AcquireLease, ConsiderRival, Steal, Placed, Leasing
  <1>4. CASE RefreshAcquired(w)
    <2>1. job[w] \in {"load", "migrate", "recreate"}
      BY DEF Typed
    <2>2. PICK label \in {"resolve", "share", "fenceLease"} : Goto(w, label)
      BY <1>4, <2>1 DEF RefreshAcquired
    <2>3. pc[w] = "refreshLease"
      BY <1>4 DEF RefreshAcquired
    <2>4. QED
      BY <1>0, <2>2, <2>3, GotoMoves, RaiseMoves DEF Placed, Leasing
  <1>5. CASE Resolve(w)
    <2>1. CASE Raise(w, "unlease")
      BY <1>5, <2>1, <1>0, RaiseMoves DEF Resolve, Placed, Leasing
    <2>2. CASE ~Raise(w, "unlease")
      <3>1. PICK r \in 1 .. raw[At(w)] :
              /\ part' = [part EXCEPT ![w] = <<At(w), r>>]
              /\ pc' = [pc EXCEPT ![w] = "share"]
              /\ UNCHANGED <<job, plan, todo, failed>>
        BY <1>5, <2>2 DEF Resolve
      <3>2. At(w) \in Interval
        BY <1>5, <1>0, RunParts DEF Resolve, Placed, Leasing, At
      <3>3. raw[At(w)] \in 0 .. MaxRun
        BY <3>2 DEF Typed
      <3>4. <<At(w), r>> \in Run
        BY <3>2, <3>3, RebuildConstants DEF Run
      <3>5. QED
        BY <3>1, <3>4 DEF Typed, Moves
    <2>3. QED
      BY <2>1, <2>2
  <1>6. CASE Unlease(w)
    BY <1>6, <1>0, GotoMoves, RaiseMoves DEF Unlease, Placed, Leasing
  <1>7. CASE Share(w) \/ RefreshShared(w) \/ Open(w) \/ Poll(w) \/ EnterExclusive(w)
    BY <1>7, <1>0, GotoMoves, RaiseMoves
       DEF Share, RefreshShared, Open, Poll, EnterExclusive, Placed, Leasing
  <1>8. CASE FenceLock(w) \/ Unshare(w) \/ Renew(w) \/ Close(w) \/ GiveUp(w)
    BY <1>8, <1>0, GotoMoves, RaiseMoves
       DEF FenceLock, Unshare, Renew, Close, GiveUp, Placed, Leasing
  <1>9. CASE FenceLease(w) \/ EnsureTable(w) \/ Create(w) \/ CreateHint(w)
    BY <1>9, <1>0, GotoMoves, RaiseMoves
       DEF FenceLease, EnsureTable, Create, CreateHint, Placed, Leasing
  <1>10. CASE WriteFails(w) \/ Commit(w) \/ WriteHint(w) \/ Stamp(w)
    BY <1>10, <1>0, GotoMoves, RaiseMoves DEF WriteFails, Commit, WriteHint, Stamp, Placed, Leasing
  <1>11. CASE NextPart(w)
    <2>1. CASE Goto(w, AfterLease(w))
      BY <2>1, GotoMoves, RaiseMoves DEF Placed, Leasing
    <2>2. CASE ~Goto(w, AfterLease(w))
      <3>1. PICK run \in todo[w] :
              /\ part' = [part EXCEPT ![w] = run]
              /\ todo' = [todo EXCEPT ![w] = @ \ {run}]
              /\ pc' = [pc EXCEPT ![w] = "lease"]
              /\ UNCHANGED <<job, plan, failed>>
        BY <1>11, <2>2 DEF NextPart
      <3>2. run \in Run /\ todo' \in [Worker -> SUBSET Run]
        BY <3>1 DEF Typed
      <3>3. QED
        BY <3>1, <3>2 DEF Typed, Moves
    <2>3. QED
      BY <2>1, <2>2
  <1>12. CASE Drop(w) \/ Wipe(w)
    BY <1>12, GotoMoves, RaiseMoves DEF Drop, Wipe, Placed, Leasing
  <1>13. CASE WriteChunk(w)
    BY <1>13, <1>0 DEF WriteChunk, Typed, Moves
  <1>14. CASE Crash(w)
    BY <1>14 DEF Crash, Forget, Typed, Moves, Placed, Leasing
  <1>15. CASE Restart(w)
    BY <1>15 DEF Restart, Typed, Moves, Placed, Leasing
  <1>16. QED
    BY <1>1, <1>2, <1>3, <1>4, <1>5, <1>6, <1>7, <1>8, <1>9, <1>10, <1>11, <1>12, <1>13, <1>14,
       <1>15 DEF Act, Step, LeaseStep, LockStep, LandStep

\* At(w) is an interval wherever a lease is acquired, kept or released.
LEMMA AtInterval ==
    ASSUME Typed, NEW w \in Worker, pc[w] \in Placed PROVE At(w) \in Interval
  BY RunParts DEF Typed, At

LEMMA StoresTyped ==
    ASSUME Typed, NEW w \in Worker, Act(w)
    PROVE  /\ mode' = mode /\ catalog' = catalog
           /\ holder' \in [Interval -> Worker \cup {NoOne}]
           /\ raw' = raw
           /\ shared' \subseteq Worker
           /\ table' \in (SUBSET Run) \cup {NoTable}
           /\ base' \in [Worker -> SUBSET Run]
  <1>1. ASSUME pc[w] \notin Placed, LeaseStep(w) \/ FenceLock(w) \/ WriteChunk(w) \/ Renew(w)
        PROVE  FALSE
    BY <1>1 DEF LeaseStep, AcquireLease, ConsiderRival, Steal, RefreshAcquired, Resolve, Unlease,
           FenceLock, WriteChunk, Renew, Placed, Leasing
  <1>2. holder' \in [Interval -> Worker \cup {NoOne}]
    <2>1. CASE LeaseStep(w) \/ FenceLock(w) \/ WriteChunk(w) \/ Renew(w)
      BY <1>1, <2>1, AtInterval, LeaseTyped
         DEF LeaseStep, AcquireLease, ConsiderRival, Steal, RefreshAcquired, Resolve, Unlease,
             FenceLock, WriteChunk, Renew, Typed
    <2>2. CASE ~(LeaseStep(w) \/ FenceLock(w) \/ WriteChunk(w) \/ Renew(w))
      <3>1. holder' = holder
        BY <2>2 DEF Act, Step, LockStep, LandStep, StartLoad, StartMigrate, NextPart, Share,
               RefreshShared, Open, Poll, EnterExclusive, Drop, Wipe, FenceLease, EnsureTable,
               Create, CreateHint, WriteFails, Commit, WriteHint, Stamp, Unshare, Close, GiveUp,
               Crash, Restart
      <3>2. QED
        BY <3>1 DEF Typed
    <2>3. QED
      BY <2>1, <2>2
  <1>3. raw' = raw
    BY DEF Act, Step, LeaseStep, LockStep, LandStep, StartLoad, StartMigrate, NextPart,
           AcquireLease, ConsiderRival, Steal, RefreshAcquired, Resolve, Unlease, Share,
           RefreshShared, Open, Poll, EnterExclusive, FenceLock, Unshare, Renew, Close, Drop, Wipe,
           FenceLease, EnsureTable, Create, CreateHint, WriteFails, Commit, WriteHint, Stamp,
           WriteChunk, GiveUp, Crash, Restart
  <1>4. shared' \subseteq Worker
    <2>1. CASE LockStep(w)
      BY <2>1 DEF LockStep, Share, AcquireShared, RefreshShared, RefreshLock, Open, Poll,
             AcquireExclusive, AnnounceIntent, RollBack, EnterExclusive, RefreshAndFence,
             FenceLock, FencePasses, Unshare, ReleaseLock, Renew, Close, Prune, Store,
             LeftShared, Typed
    <2>2. CASE ~LockStep(w)
      <3>1. shared' = shared
        BY <2>2 DEF Act, Step, LeaseStep, LandStep, StartLoad, StartMigrate, NextPart,
               AcquireLease, ConsiderRival, Steal, RefreshAcquired, Resolve, Unlease, Drop, Wipe,
               FenceLease, EnsureTable, Create, CreateHint, WriteFails, Commit, WriteHint, Stamp,
               WriteChunk, RefreshLock, GiveUp, WithdrawIntent, Crash, Restart
      <3>2. QED
        BY <3>1 DEF Typed
    <2>3. QED
      BY <2>1, <2>2
  <1>5. table' \in (SUBSET Run) \cup {NoTable} /\ base' \in [Worker -> SUBSET Run]
    <2>1. CASE LandStep(w)
      <3>1. pc[w] \in {"write", "hint"} => part[w] \in Run
        BY DEF Typed, Placed, Leasing
      <3>2. QED
        BY <2>1, <3>1 DEF LandStep, FenceLease, EnsureTable, LoadTable, Create, CreateTable,
               CreateHint, WriteFails, Discard, Commit, Publish, WriteHint, Stamp, Point, Typed
    <2>2. CASE Drop(w) \/ Wipe(w) \/ Crash(w)
      BY <2>2 DEF Drop, Wipe, DropTable, Point, Crash, Discard, Typed
    <2>3. CASE ~(LandStep(w) \/ Drop(w) \/ Wipe(w) \/ Crash(w))
      <3>1. table' = table /\ base' = base
        BY <2>3 DEF Act, Step, LeaseStep, LockStep, StartLoad, StartMigrate, NextPart,
               AcquireLease, ConsiderRival, Steal, RefreshAcquired, Resolve, Unlease, Share,
               RefreshShared, Open, Poll, EnterExclusive, FenceLock, Unshare, Renew, Close,
               WriteChunk, GiveUp, Restart
      <3>2. QED
        BY <3>1 DEF Typed
    <2>4. QED
      BY <2>1, <2>2, <2>3
  <1>6. mode' = mode /\ catalog' = catalog
    BY DEF Act, Step, LeaseStep, LockStep, LandStep, StartLoad, StartMigrate, NextPart,
           AcquireLease, InsertLease, MeetRival, ConsiderRival, LoseToRival, Steal, StealLease,
           RefreshAcquired, RefreshLease, Resolve, Unlease, DeleteLease, Share, RefreshShared,
           Open, Poll, EnterExclusive, FenceLock, Unshare, Renew, Close, Drop, Wipe, DropTable,
           FenceLease, EnsureTable, LoadTable, Create, CreateTable, CreateHint, WriteFails,
           Discard, Commit, Publish, Point, WriteHint, Stamp, WriteChunk, GiveUp, Crash, Restart
  <1>7. QED
    BY <1>2, <1>3, <1>4, <1>5, <1>6

LEMMA EnvironmentKeeps ==
    ASSUME Environment
    PROVE  /\ UNCHANGED <<mode, workVars, tableVars, historyVars>>
           /\ \A i \in Interval : holder'[i] \in {holder[i], NoOne}
  BY DEF Environment, LockExpires, Extract, LeaseExpires, LeaseDeadlinePasses, IntentExpires,
         InspectLock, ForceRelease, ForceDeleteLease

LEMMA NextTyped == Typed /\ [Next]_vars => Typed'
  <1> SUFFICES ASSUME Typed, [Next]_vars PROVE Typed'
    OBVIOUS
  <1>1. ASSUME NEW w \in Worker, Act(w) PROVE Typed'
    BY <1>1, WorkTyped, StoresTyped DEF Typed, Moves
  <1>2. CASE Environment
    <2>1. holder' \in [Interval -> Worker \cup {NoOne}]
      BY <1>2 DEF Environment, LockExpires, Extract, LeaseExpires, LeaseDeadlinePasses,
             IntentExpires, InspectLock, ForceRelease, ForceDeleteLease, Typed
    <2>2. raw' \in [Interval -> 0 .. MaxRun]
      BY <1>2, RebuildConstants DEF Environment, LockExpires, Extract, LeaseExpires,
             IntentExpires, InspectLock, ForceRelease, Typed
    <2>3. shared' \subseteq Worker
      BY <1>2 DEF Environment, LockExpires, LockDeadlinePasses, Extract, LeaseExpires,
             IntentExpires, IntentDeadlinePasses, InspectLock, Prune, Store, LeftShared,
             ForceRelease, ForceDeleteLock, Typed
    <2>4. UNCHANGED <<mode, catalog, table, base, pc, job, plan, todo, part, failed>>
      BY <1>2, EnvironmentKeeps
    <2>5. QED
      BY <2>1, <2>2, <2>3, <2>4 DEF Typed
  <1>3. CASE UNCHANGED vars
    BY <1>3 DEF vars, Typed
  <1>4. QED
    BY <1>1, <1>2, <1>3, NextSplits

-----------------------------------------------------------------------------
\* Who was ousted from its interval is no longer in that interval's row.
OustedLost ==
    \A w \in Worker : w \in ousted /\ pc[w] \in Leasing => holder[At(w)] # w

\* A new row takes away every row that stands against it.
LEMMA NewRow ==
    ASSUME Typed, NEW v \in Worker, NEW w \in Worker \ {v}, pc[v] \in Placed, pc[w] \in Leasing,
           Clash(At(w), At(v)),
           holder' = WithLease(v, At(v), RowsAgainst(At(v)))
    PROVE  holder'[At(w)] # w
  <1>1. At(v) \in Interval /\ At(w) \in Interval
    BY AtInterval DEF Placed
  <1>2. Clash(At(v), At(w))
    BY DEF Clash
  <1>3. holder[At(w)] = w => At(w) \in RowsAgainst(At(v))
    BY <1>1, <1>2, WorkerAssumption DEF RowsAgainst
  <1>4. QED
    BY <1>1, <1>3, WorkerAssumption DEF WithLease

\* Nobody else's row becomes its own by a new row of v.
LEMMA NotByOthers ==
    ASSUME Typed, NEW v \in Worker, NEW w \in Worker \ {v}, NEW i \in Interval,
           holder' = WithLease(v, At(v), RowsAgainst(At(v))), holder[i] # w
    PROVE  holder'[i] # w
  BY WorkerAssumption DEF Typed, WithLease

LEMMA OustedLostKept == Typed /\ OustedLost /\ [Next]_vars => OustedLost'
  <1> SUFFICES ASSUME Typed, OustedLost, [Next]_vars PROVE OustedLost'
    OBVIOUS
  <1>1. ASSUME NEW v \in Worker, Act(v) PROVE OustedLost'
    <2> SUFFICES ASSUME NEW w \in Worker, w \in ousted', pc'[w] \in Leasing
                 PROVE  holder'[At(w)'] # w
      BY DEF OustedLost
    <2>1. Moves(v)
      BY <1>1, WorkTyped
    <2>2. CASE /\ holder' = WithLease(v, At(v), RowsAgainst(At(v)))
               /\ pc[v] \in Placed
               /\ Ousts(v)
      <3>1. w # v
        BY <2>2 DEF Ousts
      <3>2. At(w)' = At(w) /\ pc[w] \in Leasing
        BY <2>1, <3>1 DEF Moves, At
      <3>3. At(w) \in Interval
        BY <3>2, AtInterval DEF Placed
      <3>4. CASE Clash(At(w), At(v))
        BY <2>2, <3>1, <3>2, <3>4, NewRow
      <3>5. CASE ~Clash(At(w), At(v))
        <4>1. w \in ousted
          BY <2>2, <3>1, <3>5 DEF Ousts
        <4>2. QED
          BY <2>2, <3>1, <3>2, <3>3, <4>1, NotByOthers DEF OustedLost
      <3>6. QED
        BY <3>4, <3>5
    <2>3. CASE /\ \A i \in Interval : holder'[i] \in {holder[i], NoOne}
               /\ ousted' \subseteq ousted
               /\ v \in ousted' /\ pc'[v] \in Leasing => pc[v] \in Leasing /\ At(v)' = At(v)
      <3>1. pc[w] \in Leasing /\ At(w)' = At(w)
        BY <2>1, <2>3 DEF Moves, At
      <3>2. At(w) \in Interval
        BY <3>1, AtInterval DEF Placed
      <3>3. QED
        BY <2>3, <3>1, <3>2, WorkerAssumption DEF OustedLost
    <2>4. CASE AcquireLease(v) \/ Steal(v)
      <3>1. pc[v] \in Placed
        BY <2>4 DEF AcquireLease, Steal, Placed
      <3>2. CASE holder' = WithLease(v, At(v), RowsAgainst(At(v))) /\ Ousts(v)
        BY <2>2, <3>1, <3>2
      <3>3. CASE ~(holder' = WithLease(v, At(v), RowsAgainst(At(v))) /\ Ousts(v))
        <4>1. UNCHANGED <<holder, ousted>>
          BY <2>4, <3>3 DEF AcquireLease, InsertLease, MeetRival, Steal, StealLease, LoseToRival
        <4>2. pc'[v] \notin Leasing
          BY <2>4, <3>3 DEF AcquireLease, InsertLease, Steal, StealLease, Goto, Raise, Continue,
             AfterLease, Typed, Leasing
        <4>3. QED
          BY <2>3, <4>1, <4>2
      <3>4. QED
        BY <3>2, <3>3
    <2>5. CASE ConsiderRival(v) \/ RefreshAcquired(v) \/ Resolve(v) \/ Unlease(v)
      <3>1. \A i \in Interval : holder'[i] \in {holder[i], NoOne}
        BY <2>5 DEF ConsiderRival, LoseToRival, RefreshAcquired, RefreshLease, Resolve, Unlease,
           DeleteLease, Typed
      <3>2. ousted' \subseteq ousted /\ (v \in ousted' => ~Unlease(v))
        BY <2>5 DEF ConsiderRival, RefreshAcquired, Resolve, Unlease
      <3>3. CASE Resolve(v)
        BY <2>3, <3>1, <3>2, <3>3
           DEF Resolve, Goto, Raise, Continue, Typed, Leasing, At
      <3>4. CASE ConsiderRival(v) \/ RefreshAcquired(v)
        BY <2>3, <3>1, <3>2, <3>4
           DEF ConsiderRival, RefreshAcquired, Goto, Raise, Continue, AfterLease, Typed, Leasing, At
      <3>5. CASE Unlease(v)
        BY <2>3, <3>1, <3>2, <3>5
      <3>6. QED
        BY <2>5, <3>3, <3>4, <3>5
    <2>6. CASE ~LeaseStep(v)
      <3>1. holder' = holder /\ ousted' \subseteq ousted
        BY <1>1, <2>6 DEF Act, Step, LockStep, LandStep, StartLoad, StartMigrate, NextPart, Share,
           RefreshShared, Open, Poll, EnterExclusive, FenceLock, Unshare, Renew, Close, Drop, Wipe,
           FenceLease, EnsureTable, Create, CreateHint, WriteFails, Commit, WriteHint, Stamp,
           WriteChunk, RefreshLease, GiveUp, Crash, Restart
      <3>2. pc'[v] \in Leasing => pc[v] \in Leasing /\ part'[v] = part[v]
        <4>1. CASE LockStep(v)
          BY <4>1 DEF LockStep, Share, RefreshShared, Open, Poll, EnterExclusive, FenceLock,
             Unshare, Renew, Close, Goto, Raise, Continue, Recreating, AfterLand, Typed, Leasing
        <4>2. CASE LandStep(v)
          BY <4>2 DEF LandStep, FenceLease, EnsureTable, Create, CreateHint, WriteFails, Commit,
             WriteHint, Stamp, Goto, Raise, Continue, AfterLand, Typed, Leasing
        <4>3. CASE StartLoad(v) \/ StartMigrate(v) \/ NextPart(v) \/ Drop(v) \/ Wipe(v)
          BY <4>3 DEF StartLoad, StartMigrate, NextPart, Drop, Wipe, Goto, Continue, AfterLease,
             Typed, Leasing
        <4>4. CASE WriteChunk(v) \/ GiveUp(v) \/ Crash(v) \/ Restart(v)
          BY <4>4 DEF WriteChunk, GiveUp, Crash, Restart, Raise, Continue, Typed, Leasing
        <4>5. QED
          BY <1>1, <2>6, <4>1, <4>2, <4>3, <4>4 DEF Act, Step
      <3>3. QED
        BY <2>3, <3>1, <3>2 DEF At
    <2>7. QED
      BY <2>4, <2>5, <2>6 DEF LeaseStep
  <1>2. CASE Environment
    <2>1. ASSUME NEW w \in Worker, pc[w] \in Leasing PROVE At(w) \in Interval
      BY <2>1, AtInterval DEF Placed
    <2>2. \A i \in Interval : holder'[i] \in {holder[i], NoOne}
      BY <1>2, EnvironmentKeeps
    <2>3. UNCHANGED <<pc, part, ousted>>
      BY <1>2, EnvironmentKeeps
    <2>4. QED
      BY <2>1, <2>2, <2>3, WorkerAssumption DEF OustedLost, At
  <1>3. CASE UNCHANGED vars
    BY <1>3 DEF vars, OustedLost, At
  <1>4. QED
    BY <1>1, <1>2, <1>3, NextSplits

\* A partition is stamped as validated by the holder of its interval's lease.
THEOREM HolderStamps == Spec => StampedByHolder
  <1>1. ASSUME Typed, OustedLost, [Next]_vars, NEW w \in Worker, Stamps(w)
        PROVE  w \notin ousted
    <2>1. w \in failed' \/ Stamp(w) \/ pc'[w] = "dead"
      <3>1. CASE \E v \in Worker : Act(v)
        <4>1. PICK v \in Worker : Act(v)
          BY <3>1
        <4>2. v = w
          BY <1>1, <4>1, WorkTyped DEF Moves, Stamps
        <4>3. QED
          BY <1>1, <4>1, <4>2 DEF Stamps, Act, Step, LeaseStep, LockStep, LandStep, StartLoad,
             StartMigrate, NextPart, AcquireLease, ConsiderRival, Steal, RefreshAcquired, Resolve,
             Unlease, Share, RefreshShared, Open, Poll, EnterExclusive, FenceLock, Unshare, Renew,
             Close, Drop, Wipe, FenceLease, EnsureTable, Create, CreateHint, WriteFails, Commit,
             WriteHint, WriteChunk, GiveUp, Crash, Restart, Typed
      <3>2. CASE Environment
        BY <1>1, <3>2, EnvironmentKeeps DEF Stamps
      <3>3. CASE UNCHANGED vars
        BY <1>1, <3>3 DEF vars, Stamps
      <3>4. QED
        BY <1>1, <3>1, <3>2, <3>3, NextSplits
    <2>2. Stamp(w)
      BY <1>1, <2>1 DEF Stamps
    <2>3. holder[At(w)] = w
      BY <1>1, <2>2 DEF Stamps, Stamp, Raise, Continue, AfterLand, LeaseHeld, Typed
    <2>4. pc[w] \in Leasing
      BY <1>1 DEF Stamps, Leasing
    <2>5. QED
      BY <1>1, <2>3, <2>4 DEF OustedLost
  <1>2. Typed /\ OustedLost /\ [Next]_vars => [\A w \in Worker : Stamps(w) => w \notin ousted]_vars
    BY <1>1
  <1>3. Init => OustedLost
    BY DEF Init, OustedLost
  <1>4. QED
    BY <1>2, <1>3, InitTyped, NextTyped, OustedLostKept, PTL DEF Spec, StampedByHolder

-----------------------------------------------------------------------------
SharedAt == {"refreshShare", "fenceLease", "fenceLock", "ensure", "create", "createHint",
             "reload", "write", "hint", "stamp", "renew", "unshare"}

ExclusiveAt == {"refreshExclusive", "drop", "wipe", "next", "lease", "rival", "steal",
                "refreshLease", "fenceLease", "fenceLock", "ensure", "create", "createHint",
                "reload", "write", "hint", "stamp", "unlease", "renew", "close"}

\* In the lock a worker that lives is where its command holds it.
InPlace(w) ==
    /\ pc[w] \in {"open", "poll", "wait", "refreshExclusive", "drop", "wipe", "close"} => Recreating(w)
    /\ pc[w] \in {"resolve", "share", "refreshShare", "unshare"} => ~Recreating(w)
    /\ w \in shared => pc[w] = "dead" \/ (~Recreating(w) /\ pc[w] \in SharedAt)
    /\ exclusive = w => pc[w] = "dead" \/ (Recreating(w) /\ pc[w] \in ExclusiveAt)

\* What a fence of the dataset lock found stays so to the end of what it guards.
Protected(w) ==
    pc[w] \in Guarded => w \notin lockDue /\ (IF Recreating(w) THEN exclusive = w ELSE w \in shared)

Locked == \A w \in Worker : InPlace(w) /\ Protected(w)

\* The steps of a worker let no other into the lock and drop nobody who is live.
LEMMA LockOfOthers ==
    ASSUME NEW v \in Worker, Act(v), NEW u \in Worker \ {v}
    PROVE  /\ u \in shared' => u \in shared
           /\ exclusive' = u => exclusive = u
           /\ u \notin lockDue => u \notin lockDue'
           /\ u \notin lockDue /\ u \in shared => u \in shared'
           /\ u \notin lockDue /\ exclusive = u => exclusive' = u
  <1> USE WorkerAssumption
      DEF Prune, Store, LiveExclusive, LeftExclusive, LeftShared, Left, StillDue, Lapsed
  <1>1. CASE Share(v) \/ Poll(v)
    BY <1>1 DEF Share, AcquireShared, SharedRefused, Poll, AcquireExclusive, ExclusiveFree,
       AnnounceIntent, RollBack
  <1>1a. CASE EnterExclusive(v) \/ FenceLock(v)
    BY <1>1a DEF EnterExclusive, RefreshAndFence, FenceLock, FencePasses
  <1>1b. CASE RefreshShared(v) \/ Open(v) \/ Unshare(v) \/ Renew(v) \/ Close(v)
    BY <1>1b DEF RefreshShared, RefreshLock, Open, RollBack, Unshare, ReleaseLock, Renew, Close
  <1>2. CASE WriteChunk(v) \/ GiveUp(v) \/ Crash(v)
    BY <1>2 DEF WriteChunk, RefreshLock, GiveUp, WithdrawIntent, Crash
  <1>3. CASE ~(LockStep(v) \/ WriteChunk(v) \/ GiveUp(v) \/ Crash(v))
    BY <1>3 DEF Act, Step, LeaseStep, LandStep, StartLoad, StartMigrate, NextPart, AcquireLease,
       ConsiderRival, Steal, RefreshAcquired, Resolve, Unlease, Drop, Wipe, FenceLease,
       EnsureTable, Create, CreateHint, WriteFails, Commit, WriteHint, Stamp, Restart
  <1>4. QED
    BY <1>1, <1>1a, <1>1b, <1>2, <1>3 DEF LockStep

\* Being crowded ends with a step of one's own.
LEMMA CrowdedOfOthers ==
    ASSUME NEW v \in Worker, Act(v), NEW u \in Worker \ {v}, u \in crowded
    PROVE  u \in crowded'
  BY DEF Act, Step, LeaseStep, LockStep, LandStep, StartLoad, StartMigrate, NextPart, AcquireLease,
     ConsiderRival, Steal, Ousts, RefreshAcquired, Resolve, Unlease, Share, Joins, RefreshShared,
     Open, Poll, EnterExclusive, FenceLock, Unshare, Renew, Close, Drop, Wipe, FenceLease,
     EnsureTable, Create, CreateHint, WriteFails, Commit, WriteHint, Stamp, WriteChunk, GiveUp,
     Crash, Restart

\* The environment drops from the lock only what is overdue or has died.
LEMMA LockOfEnvironment ==
    ASSUME Locked, Environment, NEW u \in Worker
    PROVE  /\ u \in shared' => u \in shared
           /\ exclusive' = u => exclusive = u
           /\ pc[u] \in Guarded => Protected(u)'
  <1>1. UNCHANGED <<pc, job>>
    BY EnvironmentKeeps
  <1>2. pc[u] \in Guarded => InLock(u) /\ pc[u] # "dead"
    BY DEF Locked, Protected, InLock, Guarded
  <1>3. QED
    BY <1>1, <1>2, WorkerAssumption
       DEF Environment, LockExpires, LockDeadlinePasses, Extract, LeaseExpires, IntentExpires,
           IntentDeadlinePasses, InspectLock, Prune, Store, LeftExclusive, LeftShared,
           Left, StillDue, Lapsed, ForceRelease, ForceDeleteLock, Alive, Locked, Protected, Recreating

\* The place and the protection of the worker that takes the step.
LEMMA OwnLock ==
    ASSUME Typed, Locked, NEW v \in Worker, Act(v)
    PROVE  InPlace(v)' /\ Protected(v)'
  <1> USE DEF Typed, Continue, Goto, Raise, Forget, Recreating, AfterLand, AfterLease, Locked,
              InPlace, Protected, Guarded, SharedAt, ExclusiveAt
  <1>0. v # NoOne
    BY WorkerAssumption
  <1>1. CASE StartLoad(v) \/ StartMigrate(v) \/ NextPart(v)
    BY <1>1 DEF StartLoad, StartMigrate, NextPart
  <1>2. CASE AcquireLease(v) \/ ConsiderRival(v) \/ Steal(v)
    BY <1>2 DEF AcquireLease, ConsiderRival, Steal
  <1>3. CASE RefreshAcquired(v) \/ Resolve(v) \/ Unlease(v)
    BY <1>3 DEF RefreshAcquired, Resolve, Unlease
  <1>4. CASE Share(v)
    BY <1>0, <1>4 DEF Share, AcquireShared, SharedRefused, RollBack, Store, LiveExclusive, LeftExclusive,
       LeftShared, Left, StillDue, Lapsed
  <1>5. CASE RefreshShared(v) \/ Open(v) \/ GiveUp(v)
    BY <1>5 DEF RefreshShared, RefreshLock, Open, RollBack, GiveUp, WithdrawIntent
  <1>6. CASE Poll(v)
    BY <1>0, <1>6 DEF Poll, AcquireExclusive, AnnounceIntent, ExclusiveFree, ExclusiveRefused, RollBack,
       Store, LiveExclusive, LeftExclusive, LeftShared, Left, StillDue, Lapsed
  <1>7. CASE EnterExclusive(v)
    BY <1>0, <1>7 DEF EnterExclusive, RefreshAndFence, InLock, Prune, Store, LeftExclusive, LeftShared,
       Left, StillDue, Lapsed
  <1>8. CASE FenceLock(v)
    BY <1>0, <1>8 DEF FenceLock, FencePasses, LockHeld, InLock, Prune, Store, LeftExclusive, LeftShared,
       Left, StillDue, Lapsed
  <1>9. CASE Unshare(v) \/ Renew(v) \/ Close(v)
    BY <1>0, <1>9 DEF Unshare, Renew, Close, ReleaseLock, RefreshLock
  <1>10. CASE LandStep(v)
    BY <1>10 DEF LandStep, FenceLease, EnsureTable, Create, CreateHint, WriteFails, Commit,
       WriteHint, Stamp
  <1>11. CASE Drop(v) \/ Wipe(v) \/ WriteChunk(v)
    BY <1>11 DEF Drop, Wipe, WriteChunk, RefreshLock
  <1>12. CASE Crash(v) \/ Restart(v)
    BY <1>12 DEF Crash, Restart, InLock
  <1>13. QED
    BY <1>1, <1>2, <1>3, <1>4, <1>5, <1>6, <1>7, <1>8, <1>9, <1>10, <1>11, <1>12
       DEF Act, Step, LeaseStep, LockStep

LEMMA LockedKept == Typed /\ Locked /\ [Next]_vars => Locked'
  <1> SUFFICES ASSUME Typed, Locked, [Next]_vars PROVE Locked'
    OBVIOUS
  <1>1. ASSUME NEW v \in Worker, Act(v) PROVE Locked'
    <2>1. ASSUME NEW u \in Worker \ {v} PROVE InPlace(u)' /\ Protected(u)'
      <3>1. pc'[u] = pc[u] /\ job'[u] = job[u]
        BY <1>1, WorkTyped DEF Moves
      <3>2. QED
        BY <1>1, <3>1, LockOfOthers DEF Locked, InPlace, Protected, Recreating
    <2>2. QED
      BY <1>1, <2>1, OwnLock DEF Locked
  <1>2. CASE Environment
    <2>1. UNCHANGED <<pc, job>>
      BY <1>2, EnvironmentKeeps
    <2>2. QED
      BY <1>2, <2>1, LockOfEnvironment DEF Locked, InPlace, Protected, Recreating
  <1>3. CASE UNCHANGED vars
    BY <1>3 DEF vars, Locked, InPlace, Protected, Recreating
  <1>4. QED
    BY <1>1, <1>2, <1>3, NextSplits

-----------------------------------------------------------------------------
\* What a writer has loaded is the table while it is fresh, and what has been
\* written stays there to be stamped.
TableIsLoaded ==
    /\ \A w \in Worker :
        /\ w \in fresh => table # NoTable /\ base[w] = table
        /\ pc[w] \in {"createHint", "hint"} => catalog = "hadoop"
        /\ pc[w] = "wipe" => loaded = {}
        /\ catalog = "rest" /\ pc[w] = "stamp" /\ w \notin crowded => part[w] \in Rows
    /\ LoadedStays

\* Past a fence beside a writer are only those that were let in beside it.
LEMMA AloneInLock ==
    ASSUME Locked, Sides, NEW v \in Worker, exclusive = v, NEW u \in Worker, pc[u] \in Guarded
    PROVE  u = v \/ (u \in crowded /\ v \in crowded)
  BY WorkerAssumption DEF Locked, Protected, Sides

\* What a step does to the table.
LEMMA TableSteps ==
    ASSUME Typed, NEW v \in Worker, Act(v), TableIsLoaded
    PROVE  /\ \A u \in Worker \ {v} : base'[u] = base[u]
           /\ catalog' = catalog
           /\ v \in fresh' => table' # NoTable /\ base'[v] = table'
           /\ \/ table' = table /\ \A u \in Worker \ {v} : u \in fresh' => u \in fresh
              \/ \A u \in Worker \ {v} : u \notin fresh'
           /\ \/ table' = table
              \/ pc[v] \in {"drop", "wipe"}
              \/ catalog = "rest" /\ table = NoTable
              \/ catalog = "rest" /\ table # NoTable /\ table' = table \cup {part[v]}
                   /\ table' # NoTable
              \/ catalog = "hadoop"
  <1> USE NoTableAssumption DEF Typed, TableIsLoaded, Point
  <1>1. CASE EnsureTable(v) \/ Create(v) \/ CreateHint(v)
    BY <1>1 DEF EnsureTable, LoadTable, Create, CreateHint, CreateTable
  <1>2. CASE WriteFails(v) \/ Crash(v)
    BY <1>2 DEF WriteFails, Crash, Discard
  <1>3. CASE Commit(v) \/ WriteHint(v)
    <2>1. part[v] \in Run
      BY <1>3 DEF Commit, WriteHint, Placed, Leasing
    <2>2. QED
      BY <1>3, <2>1 DEF Commit, BaseIsCurrent, WriteHint, Publish, Discard
  <1>4. CASE Drop(v) \/ Wipe(v)
    BY <1>4 DEF Drop, Wipe, DropTable
  <1>5. CASE ~(EnsureTable(v) \/ Create(v) \/ CreateHint(v) \/ WriteFails(v) \/ Crash(v) \/ Commit(v)
                \/ WriteHint(v) \/ Drop(v) \/ Wipe(v))
    <2>1. UNCHANGED tableVars
      BY <1>5 DEF Act, Step, LeaseStep, LockStep, LandStep, StartLoad, StartMigrate, NextPart,
         AcquireLease, ConsiderRival, Steal, RefreshAcquired, Resolve, Unlease, Share,
         RefreshShared, Open, Poll, EnterExclusive, FenceLock, Unshare, Renew, Close,
         FenceLease, Stamp, WriteChunk, GiveUp, Restart
    <2>2. QED
      BY <2>1
  <1>6. QED
    BY <1>1, <1>2, <1>3, <1>4, <1>5

\* What is reported as landed grows at a stamp and ends with a purge.
LEMMA LoadedSteps ==
    ASSUME NEW v \in Worker, Act(v)
    PROVE  \/ loaded' = loaded
           \/ pc[v] = "drop" /\ loaded' = {}
           \/ /\ pc[v] = "stamp" /\ v \notin crowded
              /\ loaded' = loaded \cup {part[v]} /\ table' = table
  BY DEF Act, Step, LeaseStep, LockStep, LandStep, StartLoad, StartMigrate, NextPart, AcquireLease,
     ConsiderRival, Steal, Ousts, RefreshAcquired, Resolve, Unlease, Share, RefreshShared, Open,
     Poll, EnterExclusive, FenceLock, Unshare, Renew, Close, Drop, Wipe, FenceLease, EnsureTable,
     Create, CreateHint, WriteFails, Commit, WriteHint, Stamp, WriteChunk, GiveUp, Crash, Restart

\* Where the worker that takes the step comes to.
LEMMA OwnTable ==
    ASSUME Typed, NEW v \in Worker, Act(v), TableIsLoaded
    PROVE  /\ pc'[v] \in {"createHint", "hint"} => catalog = "hadoop"
           /\ pc'[v] = "wipe" => loaded' = {}
           /\ catalog = "rest" /\ pc'[v] = "stamp" /\ v \notin crowded' => part'[v] \in Rows'
  <1> USE DEF Typed, TableIsLoaded, Goto, Raise, Continue, AfterLand, AfterLease
  <1>1. CASE Drop(v) \/ Create(v)
    BY <1>1 DEF Drop, Create
  <1>2. CASE Commit(v) \/ WriteHint(v)
    <2>1. part[v] \in Run
      BY <1>2 DEF Commit, WriteHint, Placed, Leasing
    <2>2. base[v] \cup {part[v]} # NoTable
      BY <2>1, NoTableAssumption
    <2>3. QED
      BY <1>2, <2>2 DEF Commit, WriteHint, Publish, Point, Rows
  <1>3. CASE ~(Drop(v) \/ Create(v) \/ Commit(v) \/ WriteHint(v))
    <2>1. pc'[v] \notin {"createHint", "hint", "wipe", "stamp"}
      <3>1. CASE LeaseStep(v) \/ LockStep(v)
        BY <3>1 DEF LeaseStep, LockStep, AcquireLease, ConsiderRival, Steal, RefreshAcquired,
           Resolve, Unlease, Share, RefreshShared, Open, Poll, EnterExclusive, FenceLock, Unshare,
           Renew, Close
      <3>2. CASE LandStep(v) \/ Wipe(v) \/ WriteChunk(v) \/ GiveUp(v)
        BY <1>3, <3>2 DEF LandStep, FenceLease, EnsureTable, CreateHint, WriteFails, Stamp, Wipe,
           WriteChunk, GiveUp
      <3>3. CASE StartLoad(v) \/ StartMigrate(v) \/ NextPart(v) \/ Crash(v) \/ Restart(v)
        BY <3>3 DEF StartLoad, StartMigrate, NextPart, Crash, Restart
      <3>4. QED
        BY <1>3, <3>1, <3>2, <3>3 DEF Act, Step
    <2>2. QED
      BY <2>1
  <1>4. QED
    BY <1>1, <1>2, <1>3

LEMMA TableKept ==
    Typed /\ Locked /\ Sides /\ TableIsLoaded /\ [Next]_vars => TableIsLoaded'
  <1> SUFFICES ASSUME Typed, Locked, Sides, TableIsLoaded, [Next]_vars PROVE TableIsLoaded'
    OBVIOUS
  <1>1. ASSUME NEW v \in Worker, Act(v) PROVE TableIsLoaded'
    <2>1. /\ pc[v] \in {"drop", "wipe"} => exclusive = v
          /\ \A u \in Worker : pc[u] \in {"wipe", "stamp"} => pc[u] \in Guarded
          /\ \A u \in Worker : pc[u] = "wipe" => exclusive = u
          /\ pc[v] \in {"drop", "wipe", "stamp"} => pc[v] \in Guarded
      BY DEF Locked, InPlace, Protected, Guarded
    <2>2. ASSUME NEW u \in Worker \ {v}
          PROVE  /\ u \in fresh' => table' # NoTable /\ base'[u] = table'
                 /\ pc'[u] \in {"createHint", "hint"} => catalog' = "hadoop"
                 /\ pc'[u] = "wipe" => loaded' = {}
                 /\ catalog' = "rest" /\ pc'[u] = "stamp" /\ u \notin crowded' =>
                      part'[u] \in Rows'
      <3>1. pc'[u] = pc[u] /\ part'[u] = part[u]
        BY <1>1, WorkTyped DEF Moves
      <3>2. u \in fresh' => table' # NoTable /\ base'[u] = table'
        BY <1>1, TableSteps DEF TableIsLoaded
      <3>3. pc[u] = "wipe" => loaded' = {}
        BY <1>1, <2>1, LoadedSteps, AloneInLock DEF TableIsLoaded
      <3>4. ASSUME catalog = "rest", pc[u] = "stamp", u \notin crowded' PROVE part[u] \in Rows'
        <4>0. u \notin crowded
          BY <1>1, <3>4, CrowdedOfOthers
        <4>1. pc[v] \notin {"drop", "wipe"}
          BY <2>1, <3>4, <4>0, AloneInLock
        <4>2. part[u] \in Rows
          BY <3>4, <4>0 DEF TableIsLoaded
        <4>3. QED
          BY <1>1, <3>4, <4>1, <4>2, TableSteps DEF Rows
      <3>5. QED
        BY <1>1, <3>1, <3>2, <3>3, <3>4, TableSteps DEF TableIsLoaded
    <2>3. LoadedStays'
      <3> SUFFICES ASSUME catalog = "rest" PROVE loaded' \subseteq Rows'
        BY <1>1, TableSteps DEF LoadedStays
      <3>1. loaded \subseteq Rows
        BY DEF TableIsLoaded, LoadedStays
      <3>2. CASE pc[v] \in {"drop", "wipe"} /\ table' # table
        <4>1. pc[v] = "drop" => Drop(v)
          BY <1>1, <3>2 DEF Act, Step, LeaseStep, LockStep, LandStep, StartLoad, StartMigrate, NextPart,
             AcquireLease, ConsiderRival, Steal, RefreshAcquired, Resolve, Unlease, Share,
             RefreshShared, Open, Poll, EnterExclusive, FenceLock, Unshare, Renew, Close, Wipe,
             FenceLease, EnsureTable, Create, CreateHint, WriteFails, Commit, WriteHint, Stamp,
             WriteChunk, GiveUp, Crash, Discard, Restart
        <4>2. loaded' = {}
          BY <1>1, <3>2, <4>1, LoadedSteps DEF TableIsLoaded, Drop
        <4>3. QED
          BY <4>2
      <3>3. CASE table' = table
        BY <1>1, <3>1, <3>3, LoadedSteps DEF TableIsLoaded, Rows
      <3>4. CASE pc[v] \notin {"drop", "wipe"} /\ table' # table
        BY <1>1, <3>1, <3>4, LoadedSteps, TableSteps DEF Rows
      <3>5. QED
        BY <3>2, <3>3, <3>4
    <2>4. QED
      BY <1>1, <2>2, <2>3, OwnTable, TableSteps DEF TableIsLoaded
  <1>2. CASE Environment
    <2>1. UNCHANGED <<tableVars, pc, part, loaded, crowded>>
      BY <1>2, EnvironmentKeeps
    <2>2. QED
      BY <2>1 DEF TableIsLoaded, LoadedStays, Rows
  <1>3. CASE UNCHANGED vars
    BY <1>3 DEF vars, TableIsLoaded, LoadedStays, Rows
  <1>4. QED
    BY <1>1, <1>2, <1>3, NextSplits

Inv == Typed /\ Sides /\ Locked /\ TableIsLoaded

LEMMA InitInv == Init => Inv
  <1> SUFFICES ASSUME Init PROVE Inv
    OBVIOUS
  <1>1. Locked
    BY WorkerAssumption
       DEF Init, LockInit, Locked, InPlace, Protected, Guarded
  <1>2. TableIsLoaded
    BY DEF Init, TableInit, TableIsLoaded, LoadedStays, Rows
  <1>3. QED
    BY <1>1, <1>2, InitTyped DEF Inv, Init, LockInit, Sides

LEMMA NextInv == Inv /\ [Next]_vars => Inv'
  BY NextTyped, SidesKept, LockedKept, TableKept DEF Inv

\* With a catalog that swaps its pointer atomically, no load, migration or
\* recreate loses what another reported as landed that was let in beside no
\* writer's lapsed entry.
THEOREM NothingIsLost == Spec => []LoadedStays
  <1>1. Inv => LoadedStays
    BY DEF Inv, TableIsLoaded
  <1>2. QED
    BY <1>1, InitInv, NextInv, PTL DEF Spec

-----------------------------------------------------------------------------
\* How far a recreate is that nothing has stopped and nobody has ousted: what
\* it planned is in the table, in hand, or still to do.
Rebuilt(w) ==
    /\ pc[w] \in {"open", "poll", "wait"} => plan[w] \subseteq todo[w]
    /\ exclusive = w /\ Recreating(w) /\ w \notin failed \cup crowded =>
        /\ pc[w] \in {"refreshExclusive", "drop", "wipe"} => plan[w] \subseteq todo[w]
        /\ pc[w] \in {"lease", "rival", "steal", "refreshLease", "fenceLease", "fenceLock",
                      "ensure", "create", "createHint", "reload", "write", "hint"} =>
             plan[w] \subseteq Rows \cup todo[w] \cup {part[w]}
        /\ pc[w] \in {"stamp", "unlease", "renew", "next"} => plan[w] \subseteq Rows \cup todo[w]
        /\ pc[w] = "close" => plan[w] \subseteq Rows
        /\ pc[w] = "createHint" => table = NoTable
        /\ pc[w] = "hint" => w \in fresh

Rebuilding == \A w \in Worker : Rebuilt(w)

\* Only past a fence does a worker change the table for others.
LEMMA TableGuarded ==
    ASSUME NEW v \in Worker, Act(v), pc[v] \notin Guarded
    PROVE  table' = table /\ \A u \in Worker \ {v} : u \in fresh => u \in fresh'
  BY DEF Act, Step, LeaseStep, LockStep, LandStep, StartLoad, StartMigrate, NextPart, AcquireLease,
     ConsiderRival, Steal, RefreshAcquired, Resolve, Unlease, Share, RefreshShared, Open, Poll,
     EnterExclusive, FenceLock, Unshare, Renew, Close, Drop, Wipe, FenceLease, EnsureTable, Create,
     CreateHint, WriteFails, Commit, WriteHint, Stamp, WriteChunk, GiveUp, Crash, Discard, Restart,
     Guarded

LEMMA OwnRebuild ==
    ASSUME Inv, Rebuilding, NEW v \in Worker, Act(v)
    PROVE  Rebuilt(v)'
  <1> USE DEF Inv, Typed, Rebuilding, Rebuilt, Goto, Raise, Continue, Forget, Recreating,
              AfterLand, AfterLease
  <1>0. v # NoOne
    BY WorkerAssumption
  <1>1. CASE StartLoad(v)
    BY <1>1 DEF StartLoad
  <1>2. CASE StartMigrate(v)
    BY <1>2, <1>0 DEF StartMigrate, Locked, InPlace, ExclusiveAt
  <1>3. CASE NextPart(v)
    BY <1>3 DEF NextPart, Rows
  <1>4. CASE AcquireLease(v) \/ ConsiderRival(v) \/ Steal(v)
    BY <1>4 DEF AcquireLease, Ousts, ConsiderRival, Steal, Rows
  <1>5. CASE RefreshAcquired(v) \/ Unlease(v)
    BY <1>5 DEF RefreshAcquired, Unlease, Rows
  <1>6. CASE Resolve(v)
    BY <1>6 DEF Resolve, Locked, InPlace
  <1>7. CASE Share(v) \/ RefreshShared(v) \/ Unshare(v)
    <2>1. ~Recreating(v) /\ job'[v] = job[v]
      BY <1>7 DEF Share, RefreshShared, Unshare, Locked, InPlace
    <2>2. pc'[v] \in {"refreshShare", "fenceLease", "unlease"}
      BY <1>7 DEF Share, RefreshShared, Unshare
    <2>3. QED
      BY <2>1, <2>2
  <1>7a. CASE Close(v)
    BY <1>7a DEF Close
  <1>8. CASE Open(v) \/ Poll(v) \/ GiveUp(v)
    BY <1>8 DEF Open, Poll, GiveUp
  <1>9. CASE EnterExclusive(v)
    <2>1. (Goto(v, "drop") /\ pc[v] = "refreshExclusive") \/ v \in failed'
      BY <1>9 DEF EnterExclusive
    <2>2. exclusive' \in {exclusive, NoOne} /\ crowded' = crowded
      BY <1>9 DEF EnterExclusive, RefreshAndFence, Prune, Store, LeftExclusive
    <2>3. CASE Goto(v, "drop") /\ pc[v] = "refreshExclusive"
      BY <1>0, <2>2, <2>3
    <2>4. CASE v \in failed'
      <3>1. pc'[v] \in {"drop", "close"}
        BY <1>9 DEF EnterExclusive
      <3>2. QED
        BY <2>4, <3>1
    <2>5. QED
      BY <2>1, <2>3, <2>4
  <1>10. CASE FenceLease(v) \/ Renew(v) \/ WriteChunk(v)
    BY <1>10 DEF FenceLease, Renew, WriteChunk, RefreshLock, Rows
  <1>10a. CASE FenceLock(v)
    <2>1. exclusive' \in {exclusive, NoOne}
      BY <1>10a DEF FenceLock, FencePasses, Prune, Store, LeftExclusive
    <2>2. UNCHANGED <<tableVars, crowded>>
      BY <1>10a DEF FenceLock
    <2>3. (Goto(v, "ensure") /\ pc[v] = "fenceLock") \/ v \in failed'
      BY <1>10a DEF FenceLock
    <2>4. CASE Goto(v, "ensure") /\ pc[v] = "fenceLock"
      BY <1>0, <2>1, <2>2, <2>4 DEF Rows
    <2>5. CASE v \in failed'
      <3>1. pc'[v] \in {"unlease", "unshare", "ensure"}
        BY <1>10a DEF FenceLock
      <3>2. QED
        BY <2>5, <3>1
    <2>6. QED
      BY <2>3, <2>4, <2>5
  <1>11. CASE Drop(v) \/ Wipe(v)
    BY <1>11 DEF Drop, Wipe, Rows
  <1>12. CASE EnsureTable(v)
    BY <1>12 DEF EnsureTable, LoadTable, Rows
  <1>13. CASE Create(v)
    BY <1>13, NoTableAssumption DEF Create, CreateTable, Point, Rows
  <1>14. CASE CreateHint(v)
    BY <1>14, NoTableAssumption DEF CreateHint, CreateTable, Point, Rows
  <1>15. CASE Commit(v) \/ WriteHint(v)
    <2>1. part[v] \in Run
      BY <1>15 DEF Commit, WriteHint, Placed, Leasing
    <2>2. base[v] \cup {part[v]} # NoTable
      BY <2>1, NoTableAssumption
    <2>3. v \in fresh => base[v] = Rows
      BY DEF TableIsLoaded, Rows
    <2>4. CASE Publish(v, part[v]) /\ Goto(v, "stamp")
      <3>1. v \in fresh => Rows' = Rows \cup {part[v]}
        BY <2>2, <2>3, <2>4 DEF Publish, Point, Rows
      <3>2. exclusive' = exclusive /\ pc[v] \in {"write", "hint"}
        BY <1>15 DEF Commit, WriteHint
      <3>2a. crowded' = crowded
        BY <1>15 DEF Commit, WriteHint
      <3>3. exclusive = v /\ Recreating(v) /\ v \notin failed \cup crowded => v \in fresh
        BY <1>15, <2>4 DEF Commit, BaseIsCurrent, WriteHint
      <3>4. /\ pc'[v] = "stamp" /\ plan'[v] = plan[v] /\ todo'[v] = todo[v]
            /\ Recreating(v)' = Recreating(v) /\ failed' = failed
        BY <2>4
      <3>5. exclusive = v /\ Recreating(v) /\ v \notin failed \cup crowded =>
              plan[v] \subseteq Rows' \cup todo[v]
        BY <3>1, <3>2, <3>3
      <3>6. QED
        BY <3>2, <3>2a, <3>4, <3>5
    <2>5. CASE ~(Publish(v, part[v]) /\ Goto(v, "stamp"))
      BY <1>15, <2>5 DEF Commit, BaseIsCurrent, WriteHint, Rows
    <2>6. QED
      BY <2>4, <2>5
  <1>16. CASE WriteFails(v) \/ Stamp(v)
    BY <1>16 DEF WriteFails, Stamp, Rows
  <1>17. CASE Crash(v) \/ Restart(v)
    BY <1>17 DEF Crash, Restart
  <1>18. QED
    BY <1>1, <1>2, <1>3, <1>4, <1>5, <1>6, <1>7, <1>7a, <1>8, <1>9, <1>10, <1>10a, <1>11, <1>12, <1>13,
       <1>14, <1>15, <1>16, <1>17 DEF Act, Step, LeaseStep, LockStep, LandStep

LEMMA RebuildKept == Inv /\ Rebuilding /\ [Next]_vars => Rebuilding'
  <1> SUFFICES ASSUME Inv, Rebuilding, [Next]_vars PROVE Rebuilding'
    OBVIOUS
  <1>1. ASSUME NEW v \in Worker, Act(v) PROVE Rebuilding'
    <2>1. ASSUME NEW u \in Worker \ {v} PROVE Rebuilt(u)'
      <3>1. /\ pc'[u] = pc[u] /\ job'[u] = job[u] /\ plan'[u] = plan[u]
            /\ todo'[u] = todo[u] /\ part'[u] = part[u] /\ (u \in failed' <=> u \in failed)
        BY <1>1, WorkTyped DEF Inv, Moves
      <3>2. exclusive' = u => exclusive = u
        BY <1>1, LockOfOthers
      <3>2a. u \notin crowded' => u \notin crowded
        BY <1>1, CrowdedOfOthers
      <3>3. exclusive = u /\ u \notin crowded => pc[v] \notin Guarded
        BY AloneInLock DEF Inv
      <3>4. exclusive = u /\ u \notin crowded => table' = table /\ (u \in fresh => u \in fresh')
        BY <1>1, <3>3, TableGuarded
      <3>5. QED
        BY <3>1, <3>2, <3>2a, <3>4 DEF Rebuilding, Rebuilt, Recreating, Rows
    <2>2. QED
      BY <1>1, <2>1, OwnRebuild DEF Rebuilding
  <1>2. CASE Environment
    <2>1. UNCHANGED <<tableVars, workVars, crowded>>
      BY <1>2, EnvironmentKeeps
    <2>2. \A w \in Worker : exclusive' = w => exclusive = w
      BY <1>2, LockOfEnvironment DEF Inv
    <2>3. QED
      BY <2>1, <2>2 DEF Rebuilding, Rebuilt, Recreating, Rows
  <1>3. CASE UNCHANGED vars
    BY <1>3 DEF vars, Rebuilding, Rebuilt, Recreating, Rows
  <1>4. QED
    BY <1>1, <1>2, <1>3, NextSplits

\* A recreate that ends well, its lock kept and not crowded, has rebuilt all it planned to.
THEOREM RebuildsAreWhole == Spec => []RebuildIsWhole
  <1>1. Init => Rebuilding
    BY DEF Init, Rebuilding, Rebuilt, Recreating
  <1>2. Inv /\ Rebuilding => RebuildIsWhole
    BY DEF Inv, Locked, InPlace, Rebuilding, Rebuilt, RebuildIsWhole
  <1>3. QED
    BY <1>1, <1>2, InitInv, NextInv, RebuildKept, PTL DEF Spec
=============================================================================
