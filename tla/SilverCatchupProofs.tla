------------------------- MODULE SilverCatchupProofs -------------------------
(***************************************************************************)
(* Proofs about SilverCatchup, for any intervals, keys, runs and sessions. *)
(*                                                                         *)
(* A manifest commits what was planned, whatever bronze does.  A build     *)
(* that looks back finds the rows which silver has, and takes none of them *)
(* back, unless bronze has lost them.  When loads are transactions, it     *)
(* follows that one row of a run stands for all of them, and that what a   *)
(* session has verified is in silver, but for runs which a lookback gave   *)
(* up after prune or migrate had taken them out of bronze.                 *)
(***************************************************************************)
EXTENDS SilverCatchup, TLAPS

USE DEF Nothing, Diffing, Ended

\* A run's timestamp is a natural number.
LEMMA RunTs == \A r \in Run : r.ts \in Nat /\ r.iv \in Interval /\ r # NoRun
  BY ConstantsAssumption DEF Run, Ts

LEMMA SilverTsType == ASSUME TypeOK, NEW k \in Key PROVE SilverTs(k) \in Nat
  BY RunTs DEF TypeOK, SilverTs

\* What a listing holds are runs.
LEMMA ListingType == LatestPerInterval(Candidates) \subseteq Run
  BY DEF LatestPerInterval, Candidates

\* Every field stays in its range.
THEOREM TypeCorrect == Spec => []TypeOK
  <1>1. Init => TypeOK
    <2> SUFFICES ASSUME Init PROVE TypeOK
      OBVIOUS
    <2>1. clock \in 0..MaxTs
      BY ConstantsAssumption DEF Init
    <2>2. built \in BOOLEAN
      BY DEF Init
    <2>3. QED
      BY <2>1, <2>2 DEF Init, TypeOK
  <1>2. TypeOK /\ [Next]_vars => TypeOK'
    <2> SUFFICES ASSUME TypeOK, [Next]_vars PROVE TypeOK'
      OBVIOUS
    <2> USE DEF TypeOK, bronze, table, session, Goto
    <2>1. CASE Extract
      <3>1. PICK r \in Run, ks \in SUBSET Key :
               /\ clock' = r.ts
               /\ rows' = [rows EXCEPT ![r] = ks]
               /\ phase' = [phase EXCEPT ![r] = "raw"]
               /\ UNCHANGED <<setup, visible, lost, table, session>>
        BY <2>1 DEF Extract
      <3>2. r.ts \in 0..MaxTs
        BY ConstantsAssumption DEF Run, Ts
      <3>3. QED
        BY <3>1, <3>2
    <2>2. CASE WatermarkBuild
      BY <2>2 DEF WatermarkBuild, Merge
    <2>3. ASSUME NEW r \in Run, Load(r) PROVE TypeOK'
      BY <2>3 DEF Load, Land, FileStart, FileStream, FileCommit, FileFails, Bronze
    <2>8. ASSUME NEW runs \in SUBSET Run, Lose(runs) PROVE TypeOK'
      <3>1. lost' \in SUBSET Run /\ phase' \in [Run -> {"none", "raw", "writing", "landed"}]
        BY <2>8 DEF Lose
      <3>2. visible' \in [Run -> SUBSET Key]
        BY <2>8 DEF Lose
      <3>3. QED
        BY <2>8, <3>1, <3>2 DEF Lose
    <2>9. CASE Recreate \/ \E r \in Run : Prune(r)
      BY <2>8, <2>9 DEF Recreate, Prune
    <2>4. ASSUME NEW s \in Session, Catchup(s) PROVE TypeOK'
      <3>1. CASE Start(s) BY <3>1 DEF Start
      <3>2. CASE DiffList(s) BY <3>2, ListingType DEF DiffList
      <3>3. CASE DiffRead(s)
        <4>1. Holes(latest[s]) \subseteq Run
          BY <3>3 DEF DiffRead, Holes
        <4>2. CASE DiffBefore(s, Holes(latest[s]))
          BY <3>3, <4>1, <4>2 DEF DiffRead, DiffBefore
        <4>3. CASE DiffPlan(s, Holes(latest[s]))
          BY <3>3, <4>1, <4>3 DEF DiffRead, DiffPlan
        <4>4. CASE DiffVerify(s, Holes(latest[s]))
          BY <3>3, <4>1, <4>4 DEF DiffRead, DiffVerify
        <4>5. CASE DiffRaises(s)
          BY <3>3, <4>5 DEF DiffRead, DiffRaises
        <4>6. QED
          BY <3>3, <4>2, <4>3, <4>4, <4>5 DEF DiffRead
      <3>4. CASE WriteSidecar(s) BY <3>4 DEF WriteSidecar
      <3>5. CASE WriteMarker(s) BY <3>5 DEF WriteMarker
      <3>6. CASE Build(s) BY <3>6 DEF Build, Merge
      <3>7. CASE StartOver(s) BY <3>7 DEF StartOver
      <3>8. QED
        BY <2>4, <3>1, <3>2, <3>3, <3>4, <3>5, <3>6, <3>7 DEF Catchup
    <2>5. ASSUME NEW s \in Session, Crash(s) PROVE TypeOK'
      BY <2>5 DEF Crash
    <2>6. CASE UNCHANGED vars
      BY <2>6 DEF vars
    <2>7. QED
      BY <2>1, <2>2, <2>3, <2>4, <2>5, <2>6, <2>9 DEF Next
  <1>3. QED
    BY <1>1, <1>2, PTL DEF Spec

-----------------------------------------------------------------------------
(***************************************************************************)
(* The manifest.  Its marker is written only over an equal sidecar, and    *)
(* what is planned stays as it is while either object exists.              *)
(***************************************************************************)
ManifestInv ==
    /\ ManifestAsPlanned
    /\ \A s \in Session :
          /\ pc[s] \in {"build", "verify"} => marker[s] # Nothing
          /\ pc[s] = "commit" => sidecar[s] = plan[s]
          /\ pc[s] \in {"idle", "before"} \/ (s \in Healer /\ pc[s] = "plan") =>
                sidecar[s] = Nothing /\ marker[s] = Nothing

\* The steps of a session leave the others alone.
LEMMA ManifestInvIsInductive == TypeOK /\ ManifestInv /\ [Next]_vars => ManifestInv'
  <1> SUFFICES ASSUME TypeOK, ManifestInv, [Next]_vars PROVE ManifestInv'
    OBVIOUS
  <1> USE ConstantsAssumption
          DEF TypeOK, ManifestInv, ManifestAsPlanned, session, Goto, Session
  <1>1. CASE UNCHANGED session
    BY <1>1
  <1>2. ASSUME NEW s \in Session, Catchup(s) PROVE ManifestInv'
    <2>1. CASE Start(s) BY <2>1 DEF Start
    <2>2. CASE DiffList(s) BY <2>2 DEF DiffList
    <2>3. CASE DiffRead(s)
      <3> DEFINE holes == Holes(latest[s])
      <3>1. CASE DiffBefore(s, holes)
        <4> HIDE DEF holes
        <4> QED BY <2>3, <3>1 DEF DiffRead, DiffBefore
      <3>2. CASE DiffPlan(s, holes)
        <4> HIDE DEF holes
        <4> QED BY <2>3, <3>2 DEF DiffRead, DiffPlan
      <3>3. CASE DiffVerify(s, holes)
        <4> HIDE DEF holes
        <4> QED BY <2>3, <3>3 DEF DiffRead, DiffVerify
      <3>4. CASE DiffRaises(s)
        BY <2>3, <3>4 DEF DiffRead, DiffRaises
      <3>5. QED
        BY <2>3, <3>1, <3>2, <3>3, <3>4 DEF DiffRead
    <2>4. CASE WriteSidecar(s) BY <2>4 DEF WriteSidecar
    <2>5. CASE WriteMarker(s) BY <2>5 DEF WriteMarker
    <2>6. CASE Build(s) BY <2>6 DEF Build
    <2>7. CASE StartOver(s) BY <2>7 DEF StartOver
    <2>8. QED
      BY <1>2, <2>1, <2>2, <2>3, <2>4, <2>5, <2>6, <2>7 DEF Catchup
  <1>3. ASSUME NEW s \in Session, Crash(s) PROVE ManifestInv'
    BY <1>3 DEF Crash
  <1>4. ASSUME NEW r \in Run, Load(r) PROVE UNCHANGED session
    BY <1>4 DEF Load, Land, FileStart, FileStream, FileCommit, FileFails, Bronze
  <1>5. CASE Recreate \/ \E r \in Run : Prune(r)
    BY <1>1, <1>5 DEF Recreate, Prune, Lose
  <1>6. QED
    BY <1>1, <1>2, <1>3, <1>4, <1>5 DEF Next, vars, Extract, WatermarkBuild

LEMMA ManifestInvHolds == Spec => [](TypeOK /\ ManifestInv)
  <1>1. Init => ManifestInv
    BY ConstantsAssumption DEF Init, ManifestInv, ManifestAsPlanned
  <1>2. QED
    BY <1>1, ManifestInvIsInductive, TypeCorrect, PTL DEF Spec

\* Whatever lands, fails or crashes, the two objects of a committed manifest
\* agree with each other and with the plan whose digest was approved.
THEOREM ManifestCorrect == Spec => []ManifestAsPlanned
  BY ManifestInvHolds, PTL DEF ManifestInv

-----------------------------------------------------------------------------
(***************************************************************************)
(* Builds.  A watermark build that reaches back to an older run finds the  *)
(* newer one too, if bronze still has it, and takes the newest.            *)
(***************************************************************************)
\* The rows a build considers, by key.
IsBatch(batch) ==
    \A k \in Key : batch[k] \subseteq {r \in Run : k \in visible[r]}

WatermarkBatch ==
    [k \in Key |-> {r \in Run : k \in visible[r] /\ PastWatermark(r)}]

\* A merge takes each key from the newest run of its batch.
LEMMA MergeTakesNewest ==
    ASSUME TypeOK, NEW batch, IsBatch(batch), Merge(batch), NEW k \in Key
    PROVE  \/ batch[k] = {} /\ silver'[k] = silver[k]
           \/ /\ silver'[k] \in batch[k] /\ silver'[k] \in Run
              /\ k \in visible[silver'[k]]
              /\ \A q \in batch[k] : q.ts <= silver'[k].ts
  BY DEF IsBatch, Merge, Newest

\* What a catch-up builds is a batch once its manifest is committed.
LEMMA CatchupBatchIsBatch ==
    ASSUME TypeOK, ManifestInv, NEW s \in Session, pc[s] = "build"
    PROVE  IsBatch(CatchupBatch(marker[s]))
  BY ConstantsAssumption
     DEF IsBatch, CatchupBatch, TypeOK, ManifestInv, ManifestAsPlanned

LEMMA WatermarkBatchIsBatch ==
    ASSUME WatermarkBuild PROVE IsBatch(WatermarkBatch) /\ Merge(WatermarkBatch)
  BY DEF WatermarkBuild, WatermarkBatch, IsBatch

\* What passes the watermark stays past it with a later timestamp.
LEMMA WatermarkIsUpward ==
    ASSUME TypeOK, NEW q \in Run, NEW r \in Run, PastWatermark(q), q.ts <= r.ts
    PROVE  PastWatermark(r)
  <1> SUFFICES ASSUME NEW k \in Key
               PROVE  \/ r.ts > SilverTs(k)
                      \/ \E n \in setup.lookback : r.ts >= SilverTs(k) - n
    BY DEF PastWatermark
  <1>1. SilverTs(k) \in Nat /\ q.ts \in Nat /\ r.ts \in Nat
    BY SilverTsType, RunTs
  <1>2. CASE q.ts > SilverTs(k)
    BY <1>1, <1>2
  <1>3. CASE \E n \in setup.lookback : q.ts >= SilverTs(k) - n
    <2>1. PICK n \in setup.lookback : q.ts >= SilverTs(k) - n
      BY <1>3
    <2>2. n \in Nat
      BY <2>1, ConstantsAssumption DEF TypeOK, Deployment
    <2>3. r.ts >= SilverTs(k) - n
      BY <1>1, <2>1, <2>2
    <2>4. QED
      BY <2>1, <2>3
  <1>4. QED
    BY <1>2, <1>3 DEF PastWatermark

\* A watermark build leaves each key at least as new as any run that shows it
\* and is as new as what the build gave it.
LEMMA WatermarkTakesNewest ==
    ASSUME TypeOK, WatermarkBuild, NEW k \in Key, silver'[k] # silver[k],
           NEW r \in Run, k \in visible[r]
    PROVE  silver'[k] \in Run /\ r.ts <= silver'[k].ts
  <1>1. /\ silver'[k] \in WatermarkBatch[k] /\ silver'[k] \in Run
        /\ \A q \in WatermarkBatch[k] : q.ts <= silver'[k].ts
    BY WatermarkBatchIsBatch, MergeTakesNewest
  <1>2. CASE silver'[k].ts <= r.ts
    <2>1. PastWatermark(r)
      BY <1>1, <1>2, WatermarkIsUpward DEF WatermarkBatch
    <2>2. QED
      BY <1>1, <2>1 DEF WatermarkBatch
  <1>3. QED
    BY <1>1, <1>2, RunTs

\* Without a lookback a watermark build takes only what is newer than silver.
LEMMA WatermarkPromotes ==
    ASSUME TypeOK, WatermarkBuild, setup.lookback = {}, NEW k \in Key,
           silver'[k] # silver[k]
    PROVE  silver'[k] \in Run /\ silver'[k].ts > SilverTs(k)
  <1>1. silver'[k] \in WatermarkBatch[k] /\ silver'[k] \in Run
    BY WatermarkBatchIsBatch, MergeTakesNewest
  <1>2. QED
    BY <1>1 DEF WatermarkBatch, PastWatermark

\* A catch-up build takes only what is newer than silver.
LEMMA CatchupPromotes ==
    ASSUME TypeOK, ManifestInv, NEW s \in Session, Build(s), NEW k \in Key
    PROVE  \/ silver'[k] = silver[k]
           \/ silver'[k] \in Run /\ silver'[k].ts >= SilverTs(k)
  <1>1. IsBatch(CatchupBatch(marker[s])) /\ Merge(CatchupBatch(marker[s]))
    BY CatchupBatchIsBatch DEF Build
  <1>2. \/ silver'[k] = silver[k]
        \/ silver'[k] \in Run /\ silver'[k] \in CatchupBatch(marker[s])[k]
    BY <1>1, MergeTakesNewest
  <1>3. CASE silver'[k] \in Run /\ silver'[k] \in CatchupBatch(marker[s])[k]
    <2>1. Guarded(silver'[k], k)
      BY <1>3 DEF CatchupBatch
    <2>2. QED
      BY <1>3, <2>1, RunTs, SilverTsType DEF Guarded, SilverTs
  <1>4. QED
    BY <1>2, <1>3

\* The steps that are no build leave silver as it is.
LEMMA OnlyBuildsTouchSilver ==
    ASSUME [Next]_vars, ~WatermarkBuild, \A s \in Session : ~Build(s)
    PROVE  silver' = silver
  BY DEF Next, vars, table, Extract, Load, Land, FileStart, FileStream, FileCommit,
         FileFails, Bronze, Recreate, Prune, Lose, Catchup, Start, DiffList, DiffRead,
         WriteSidecar, WriteMarker, StartOver, Crash

Promotes ==
    \A k \in Key : silver'[k] # silver[k] =>
        /\ silver'[k] # NoRun
        /\ \/ silver'[k].ts >= SilverTs(k)
           \/ /\ setup.lookback # {} /\ k \notin visible[silver[k]]
              /\ UNCHANGED session

LEMMA StepsPromote ==
    ASSUME TypeOK, ManifestInv, [Next]_vars PROVE Promotes
  <1> SUFFICES ASSUME NEW k \in Key, silver'[k] # silver[k]
               PROVE  /\ silver'[k] # NoRun
                      /\ \/ silver'[k].ts >= SilverTs(k)
                         \/ /\ setup.lookback # {} /\ k \notin visible[silver[k]]
                            /\ UNCHANGED session
    BY DEF Promotes
  <1>1. CASE WatermarkBuild
    <2>1. silver'[k] \in Run /\ UNCHANGED session
      BY <1>1, WatermarkBatchIsBatch, MergeTakesNewest DEF WatermarkBuild
    <2>2. CASE setup.lookback = {}
      BY <1>1, <2>1, <2>2, WatermarkPromotes, RunTs, SilverTsType
    <2>3. CASE silver[k] = NoRun
      BY <2>1, <2>3, RunTs DEF SilverTs
    <2>4. CASE silver[k] # NoRun /\ k \in visible[silver[k]]
      <3>1. silver[k] \in Run /\ SilverTs(k) = silver[k].ts
        BY <2>4 DEF TypeOK, SilverTs
      <3>2. QED
        BY <1>1, <2>1, <2>4, <3>1, WatermarkTakesNewest, RunTs
    <2>5. QED
      BY <2>1, <2>2, <2>3, <2>4, RunTs
  <1>2. ASSUME NEW s \in Session, Build(s)
        PROVE  silver'[k] # NoRun /\ silver'[k].ts >= SilverTs(k)
    BY <1>2, CatchupPromotes, RunTs
  <1>3. QED
    BY <1>1, <1>2, OnlyBuildsTouchSilver

\* No catch-up replaces a silver row by an older one, and no watermark build
\* either unless it looks back and bronze has lost the row: on any bronze.
THEOREM SilverNeverDemotes == Spec => NeverDemotes
  <1>1. TypeOK /\ ManifestInv /\ [Next]_vars => [Promotes]_vars
    BY StepsPromote
  <1>2. QED
    BY <1>1, ManifestInvHolds, PTL DEF Spec, NeverDemotes, Promotes

-----------------------------------------------------------------------------
(***************************************************************************)
(* Bronze and silver, when a load is one transaction.  What dbt sees of a  *)
(* run is all or nothing, and silver's rows are in bronze as long as their *)
(* runs are not lost.                                                      *)
(***************************************************************************)
BronzeIsWhole ==
    \A r \in Run :
        /\ phase[r] # "writing"
        /\ visible[r] = IF phase[r] = "landed" THEN rows[r] ELSE {}
        /\ r \in lost => phase[r] # "none"

SilverIsInBronze ==
    \A k \in Key : silver[k] # NoRun /\ silver[k] \notin lost => k \in visible[silver[k]]

BronzeInv == TypeOK /\ (~setup.files => BronzeIsWhole /\ SilverIsInBronze)

\* The deployment is what it was.
LEMMA SetupStays == ASSUME [Next]_vars PROVE setup' = setup
  BY DEF Next, vars, Extract, WatermarkBuild, Load, Land, FileStart, FileStream,
         FileCommit, FileFails, Bronze, Recreate, Prune, Lose, Catchup, Start, DiffList,
         DiffRead, WriteSidecar, WriteMarker, Build, StartOver, Crash

LEMMA BronzeInvIsInductive ==
    ASSUME BronzeInv, ManifestInv, TypeOK', [Next]_vars
    PROVE  BronzeInv'
  <1> SUFFICES ASSUME ~setup.files PROVE BronzeIsWhole' /\ SilverIsInBronze'
    BY SetupStays DEF BronzeInv
  <1> DEFINE Goal == BronzeIsWhole' /\ SilverIsInBronze'
  <1> USE DEF BronzeInv, BronzeIsWhole, SilverIsInBronze, TypeOK
  <1>1. CASE UNCHANGED <<bronze, silver>>
    BY <1>1 DEF bronze
  <1>2. CASE Extract
    <2>1. PICK r \in Run, ks \in SUBSET Key :
             /\ phase[r] = "none"
             /\ rows' = [rows EXCEPT ![r] = ks]
             /\ phase' = [phase EXCEPT ![r] = "raw"]
             /\ UNCHANGED <<visible, lost, silver>>
      BY <1>2 DEF Extract, table
    <2>2. rows' \in [Run -> SUBSET Key] /\ \A q \in Run : q # r => rows'[q] = rows[q]
      BY <2>1
    <2>3. phase'[r] = "raw" /\ \A q \in Run : q # r => phase'[q] = phase[q]
      BY <2>1
    <2>4. QED
      BY <2>1, <2>2, <2>3
  <1>3. ASSUME NEW r \in Run, Load(r) PROVE Goal
    <2>1. Land(r)
      BY <1>3 DEF Load, FileStart, FileStream, FileCommit, FileFails
    <2>2. /\ phase[r] = "raw" /\ visible[r] = {}
          /\ phase' = [phase EXCEPT ![r] = "landed"]
          /\ visible' = [visible EXCEPT ![r] = rows[r]]
          /\ UNCHANGED <<rows, lost, silver>>
      BY <2>1 DEF Land, Bronze, table
    <2>3. BronzeIsWhole'
      BY <2>2
    <2>4. SilverIsInBronze'
      BY <2>2
    <2>5. QED
      BY <2>3, <2>4
  <1>4. ASSUME NEW batch, IsBatch(batch), Merge(batch), UNCHANGED bronze
        PROVE  Goal
    <2>1. \A k \in Key : silver'[k] = silver[k] \/ k \in visible[silver'[k]]
      BY <1>4, MergeTakesNewest
    <2>2. SilverIsInBronze'
      BY <1>4, <2>1 DEF bronze
    <2>3. BronzeIsWhole'
      BY <1>4 DEF bronze
    <2>4. QED
      BY <2>2, <2>3
  <1>5. CASE WatermarkBuild
    BY <1>4, <1>5, WatermarkBatchIsBatch DEF WatermarkBuild
  <1>6. ASSUME NEW s \in Session, Build(s) PROVE Goal
    BY <1>4, <1>6, CatchupBatchIsBatch DEF Build
  <1>7. ASSUME NEW s \in Session, Catchup(s), ~Build(s) PROVE UNCHANGED <<bronze, silver>>
    BY <1>7 DEF Catchup, Start, DiffList, DiffRead, WriteSidecar, WriteMarker, StartOver,
                table
  <1>8. ASSUME NEW runs \in SUBSET Run, \A r \in runs : phase[r] = "landed", Lose(runs)
        PROVE  Goal
    <2>1. /\ lost' = lost \cup runs /\ rows' = rows /\ silver' = silver
          /\ \A r \in runs : phase'[r] = "raw" /\ visible'[r] = {}
          /\ \A r \in Run \ runs : phase'[r] = phase[r] /\ visible'[r] = visible[r]
      BY <1>8 DEF Lose, table
    <2>2. BronzeIsWhole'
      <3> SUFFICES ASSUME NEW r \in Run
                   PROVE  /\ phase'[r] # "writing"
                          /\ visible'[r] = IF phase'[r] = "landed" THEN rows'[r] ELSE {}
                          /\ r \in lost' => phase'[r] # "none"
        OBVIOUS
      <3>1. CASE r \in runs BY <2>1, <3>1
      <3>2. CASE r \notin runs BY <2>1, <3>2
      <3>3. QED BY <3>1, <3>2
    <2>3. SilverIsInBronze'
      BY <2>1
    <2>4. QED
      BY <2>2, <2>3
  <1>9. CASE Recreate \/ \E r \in Run : Prune(r)
    BY <1>8, <1>9 DEF Recreate, Prune
  <1>10. QED
    BY <1>1, <1>2, <1>3, <1>5, <1>6, <1>7, <1>9 DEF Next, vars, bronze, table, Crash

LEMMA BronzeInvHolds == Spec => [](BronzeInv /\ ManifestInv)
  <1>1. Init /\ TypeOK => BronzeInv
    BY DEF Init, BronzeInv, BronzeIsWhole, SilverIsInBronze
  <1>2. BronzeInv /\ ManifestInv /\ TypeOK' /\ [Next]_vars => BronzeInv'
    BY BronzeInvIsInductive
  <1>3. QED
    BY <1>1, <1>2, ManifestInvHolds, TypeCorrect, PTL DEF Spec

-----------------------------------------------------------------------------
(***************************************************************************)
(* Coverage.  A build takes all that a run has left to give: the watermark *)
(* judges whole runs, and the guard leaves out only keys that silver has   *)
(* at least as new.                                                        *)
(***************************************************************************)
\* An extract is never taken again, and no run is found again.
LEMMA ExtractedIsFixed ==
    ASSUME TypeOK, [Next]_vars, NEW r \in Run, phase[r] # "none"
    PROVE  rows'[r] = rows[r] /\ phase'[r] # "none" /\ lost \subseteq lost'
  <1> USE DEF TypeOK
  <1>1. CASE Extract
    BY <1>1 DEF Extract
  <1>2. ASSUME NEW q \in Run, Load(q) PROVE UNCHANGED <<rows, lost>> /\ phase'[r] # "none"
    BY <1>2 DEF Load, Land, FileStart, FileStream, FileCommit, FileFails, Bronze
  <1>3. CASE UNCHANGED bronze
    BY <1>3 DEF bronze
  <1>4. CASE Recreate \/ \E q \in Run : Prune(q)
    BY <1>4 DEF Recreate, Prune, Lose
  <1>5. QED
    BY <1>1, <1>2, <1>3, <1>4
       DEF Next, vars, WatermarkBuild, Crash, Catchup, Start, DiffList, DiffRead,
           WriteSidecar, WriteMarker, Build, StartOver, bronze

\* On transactional bronze a landed run stays until it is lost.
LEMMA LandedStays ==
    ASSUME TypeOK, ~setup.files, [Next]_vars, NEW r \in Run, phase[r] = "landed"
    PROVE  phase'[r] = "landed" \/ r \in lost'
  <1> USE DEF TypeOK
  <1>1. CASE Extract
    BY <1>1 DEF Extract
  <1>2. ASSUME NEW q \in Run, Load(q) PROVE phase'[r] = "landed"
    BY <1>2 DEF Load, Land, FileStart, FileStream, FileCommit, FileFails, Bronze
  <1>3. CASE UNCHANGED bronze
    BY <1>3 DEF bronze
  <1>4. CASE Recreate \/ \E q \in Run : Prune(q)
    BY <1>4 DEF Recreate, Prune, Lose
  <1>5. QED
    BY <1>1, <1>2, <1>3, <1>4
       DEF Next, vars, WatermarkBuild, Crash, Catchup, Start, DiffList, DiffRead,
           WriteSidecar, WriteMarker, Build, StartOver, bronze

\* After a build, a run that gave one row has given or been excused all.
LEMMA BuildsTakeWholeRuns ==
    ASSUME BronzeInv, ~setup.files, TypeOK', ManifestInv, [Next]_vars,
           NEW k \in Key, silver'[k] # silver[k],
           NEW j \in Key, j \in rows[silver'[k]]
    PROVE  SilverTs(j)' >= silver'[k].ts
  <1> DEFINE r == silver'[k]
  <1> USE DEF BronzeInv
  <1>1. CASE WatermarkBuild
    <2>1. IsBatch(WatermarkBatch) /\ Merge(WatermarkBatch)
      BY <1>1, WatermarkBatchIsBatch
    <2>2. r \in Run /\ k \in visible[r] /\ PastWatermark(r)
      BY <2>1, MergeTakesNewest DEF WatermarkBatch
    <2>3. r \in WatermarkBatch[j]
      BY <2>2 DEF BronzeIsWhole, WatermarkBatch
    <2>4. silver'[j] \in Run /\ r.ts <= silver'[j].ts
      BY <2>1, <2>3, MergeTakesNewest
    <2>5. QED
      BY <2>2, <2>4, RunTs DEF SilverTs
  <1>2. ASSUME NEW s \in Session, Build(s) PROVE SilverTs(j)' >= r.ts
    <2> DEFINE batch == CatchupBatch(marker[s])
    <2>1. IsBatch(batch) /\ Merge(batch)
      BY <1>2, CatchupBatchIsBatch DEF Build
    <2>2. r \in Run /\ k \in visible[r] /\ r \in batch[k]
      BY <2>1, MergeTakesNewest
    <2>3. j \in visible[r] /\ r \in marker[s]
      BY <2>2 DEF BronzeIsWhole, CatchupBatch
    <2>4. CASE Guarded(r, j)
      <3>1. r \in batch[j]
        BY <2>3, <2>4 DEF CatchupBatch
      <3>2. silver'[j] \in Run /\ r.ts <= silver'[j].ts
        BY <2>1, <3>1, MergeTakesNewest
      <3>3. QED
        BY <2>2, <3>2, RunTs DEF SilverTs
    <2>5. CASE ~Guarded(r, j)
      <3>1. SilverTs(j) >= r.ts /\ SilverTs(j) \in Nat
        BY <2>2, <2>5, RunTs, SilverTsType DEF Guarded
      <3>2. SilverTs(j)' >= SilverTs(j) /\ SilverTs(j)' \in Nat
        BY <1>2, <3>1, CatchupPromotes, RunTs DEF SilverTs
      <3>3. QED
        BY <2>2, <3>1, <3>2, RunTs
    <2>6. QED
      BY <2>4, <2>5
  <1>3. QED
    BY <1>1, <1>2, OnlyBuildsTouchSilver

\* A run that is reflected stays so, unless it is lost to a lookback.
LEMMA ReflectedStays ==
    ASSUME BronzeInv, ~setup.files, TypeOK', ManifestInv, [Next]_vars, NEW r \in Run,
           phase[r] = "landed" \/ (setup.lookback = {} /\ phase[r] # "none"),
           Reflected(r)
    PROVE  Reflected(r)'
  <1> USE DEF BronzeInv
  <1> SUFFICES ASSUME NEW j \in rows'[r] PROVE SilverTs(j)' >= r.ts
    BY DEF Reflected
  <1>1. j \in rows[r] /\ j \in Key
    BY ExtractedIsFixed DEF TypeOK
  <1>2. SilverTs(j) >= r.ts /\ SilverTs(j) \in Nat /\ r.ts \in Nat
    BY <1>1, SilverTsType, RunTs DEF Reflected
  <1>3. CASE silver'[j] = silver[j]
    BY <1>2, <1>3 DEF SilverTs
  <1>4. CASE silver'[j] # silver[j] /\ WatermarkBuild
    <2>1. CASE phase[r] = "landed"
      <3>1. silver'[j] \in Run /\ r.ts <= silver'[j].ts
        BY <1>1, <1>4, <2>1, WatermarkTakesNewest DEF BronzeIsWhole
      <3>2. QED
        BY <1>2, <3>1, RunTs DEF SilverTs
    <2>2. CASE setup.lookback = {}
      <3>1. silver'[j] \in Run /\ silver'[j].ts > SilverTs(j)
        BY <1>1, <1>4, <2>2, WatermarkPromotes
      <3>2. QED
        BY <1>2, <3>1, RunTs DEF SilverTs
    <2>3. QED
      BY <2>1, <2>2
  <1>5. ASSUME NEW s \in Session, Build(s) PROVE SilverTs(j)' >= r.ts
    <2>1. \/ silver'[j] = silver[j]
          \/ silver'[j] \in Run /\ silver'[j].ts >= SilverTs(j)
      BY <1>1, <1>5, CatchupPromotes
    <2>2. QED
      BY <1>2, <1>3, <2>1, RunTs DEF SilverTs
  <1>6. QED
    BY <1>3, <1>4, <1>5, OnlyBuildsTouchSilver

LEMMA CoverageIsInductive ==
    ASSUME BronzeInv, BronzeInv', ManifestInv, CoverageIsComplete, [Next]_vars
    PROVE  CoverageIsComplete'
  <1>0. setup' = setup
    BY SetupStays
  <1> SUFFICES ASSUME ~setup.files, NEW k \in Key,
                      silver'[k] # NoRun, ~GivenUp(silver[k])' 
               PROVE  Reflected(silver[k])'
    BY <1>0 DEF CoverageIsComplete
  <1> USE DEF BronzeInv
  <1>1. silver'[k] \in Run
    BY DEF TypeOK
  <1>2. CASE silver'[k] = silver[k]
    <2>1. ASSUME silver[k] \notin lost PROVE phase[silver[k]] = "landed"
      BY <1>1, <1>2, <2>1 DEF BronzeIsWhole, SilverIsInBronze
    <2>2. phase[silver[k]] # "none"
      BY <1>1, <1>2, <2>1 DEF BronzeIsWhole
    <2>3. lost \subseteq lost'
      BY <1>1, <1>2, <2>2, ExtractedIsFixed
    <2>4. ~GivenUp(silver[k])
      BY <1>0, <1>2, <2>3 DEF GivenUp
    <2>5. Reflected(silver[k])
      BY <1>1, <1>2, <2>4 DEF CoverageIsComplete
    <2>6. phase[silver[k]] = "landed" \/ (setup.lookback = {} /\ phase[silver[k]] # "none")
      BY <2>1, <2>2, <2>4 DEF GivenUp
    <2>7. \A r \in Run : r = silver[k] => Reflected(r)'
      BY <2>5, <2>6, ReflectedStays
    <2>8. QED
      BY <1>1, <1>2, <2>7 DEF Reflected
  <1>3. CASE silver'[k] # silver[k]
    <2>1. ~Extract /\ ~Recreate /\ \A r \in Run : ~Prune(r)
      BY <1>3 DEF Extract, Recreate, Prune, Lose, table
    <2>2. rows' = rows
      BY <2>1 DEF Next, vars, WatermarkBuild, Load, Land, FileStart, FileStream,
         FileCommit, FileFails, Bronze, Crash, Catchup, Start, DiffList, DiffRead,
         WriteSidecar, WriteMarker, Build, StartOver, bronze
    <2>3. \A j \in rows'[silver'[k]] : j \in Key /\ j \in rows[silver'[k]]
      BY <1>1, <2>2 DEF TypeOK
    <2>4. QED
      BY <1>1, <1>3, <2>3, BuildsTakeWholeRuns DEF Reflected
  <1>4. QED
    BY <1>2, <1>3

\* On transactional bronze one row of a run in silver stands for all of the
\* run's rows, whichever builds put it there: what lets the diff ask for a
\* coverage key alone.  Only a run that a lookback may have given up, after
\* bronze had lost it, is not spoken for.
THEOREM CoverageCorrect == Spec => []CoverageIsComplete
  <1>1. Init => CoverageIsComplete
    BY DEF Init, CoverageIsComplete
  <1>2. BronzeInv /\ BronzeInv' /\ ManifestInv /\ CoverageIsComplete /\ [Next]_vars
          => CoverageIsComplete'
    BY CoverageIsInductive
  <1>3. QED
    BY <1>1, <1>2, BronzeInvHolds, PTL DEF Spec

-----------------------------------------------------------------------------
\* A session lists runs that have landed, and has a listing when it is healed.
HealInv ==
    /\ ~setup.files =>
          \A s \in Session, r \in Run : r \in latest[s] =>
              phase[r] # "none" /\ (phase[r] = "landed" \/ r \in lost)
    /\ \A s \in Session : pc[s] = "healed" => latest[s] # Nothing
    /\ HealedIsReflected

\* A verify that finds no hole has found a row of every run it listed.
LEMMA VerifyReflects ==
    ASSUME BronzeInv, ~setup.files, CoverageIsComplete, NEW s \in Session, NEW r \in Run,
           r \in latest[s], Holes(latest[s]) = {}
    PROVE  GivenUp(r) \/ Reflected(r)
  <1>1. PICK k \in Key : silver[k] = r
    BY DEF Holes, Covered
  <1>2. QED
    BY <1>1, RunTs DEF CoverageIsComplete

\* Bronze and watermark builds leave the sessions alone.
LEMMA SessionSteps ==
    ASSUME [Next]_vars
    PROVE  UNCHANGED session \/ \E q \in Session : Catchup(q) \/ Crash(q)
  <1>1. ASSUME NEW r \in Run, Load(r) PROVE UNCHANGED session
    BY <1>1 DEF Load, Land, FileStart, FileStream, FileCommit, FileFails, Bronze
  <1>2. CASE Extract \/ WatermarkBuild
    BY <1>2 DEF Extract, WatermarkBuild
  <1>3. CASE UNCHANGED vars
    BY <1>3 DEF vars, session
  <1>4. CASE Recreate \/ \E r \in Run : Prune(r)
    BY <1>4 DEF Recreate, Prune, Lose
  <1>5. QED
    BY <1>1, <1>2, <1>3, <1>4 DEF Next

\* A session keeps its listing, once it has one, for as long as it uses it.
LEMMA ListingSteps ==
    ASSUME TypeOK, [Next]_vars, NEW s \in Session
    PROVE  /\ DiffList(s) \/ latest'[s] = latest[s] \/ latest'[s] = Nothing
           /\ pc[s] = "healed" /\ pc'[s] = "healed" => latest'[s] = latest[s]
  <1> DEFINE Goal == /\ DiffList(s) \/ latest'[s] = latest[s] \/ latest'[s] = Nothing
                     /\ pc[s] = "healed" /\ pc'[s] = "healed" => latest'[s] = latest[s]
  <1>1. CASE UNCHANGED session
    BY <1>1 DEF session
  <1>2. ASSUME NEW q \in Session,
               Start(q) \/ WriteSidecar(q) \/ WriteMarker(q) \/ Build(q)
        PROVE  Goal
    BY <1>2 DEF Start, WriteSidecar, WriteMarker, Build
  <1>3. ASSUME NEW q \in Session, DiffList(q) PROVE Goal
    BY <1>3 DEF DiffList, TypeOK, Diffing
  <1>4. ASSUME NEW q \in Session, DiffRead(q) PROVE Goal
    <2>1. latest' = [latest EXCEPT ![q] = IF pc[q] = "verify" THEN @ ELSE Nothing]
      BY <1>4 DEF DiffRead
    <2>2. pc[q] # "healed"
      BY <1>4 DEF DiffRead, DiffBefore, DiffPlan, DiffVerify, DiffRaises, Diffing
    <2>3. QED
      BY <2>1, <2>2 DEF TypeOK
  <1>5. ASSUME NEW q \in Session, StartOver(q) \/ Crash(q) PROVE Goal
    <2>1. latest' = [latest EXCEPT ![q] = Nothing] /\ pc'[q] # "healed"
      BY <1>5 DEF StartOver, Crash, Goto, TypeOK
    <2>2. QED
      BY <2>1 DEF TypeOK
  <1>6. QED
    BY <1>1, <1>2, <1>3, <1>4, <1>5, SessionSteps DEF Catchup

LEMMA ListedHaveLanded ==
    ASSUME BronzeInv, ~setup.files, NEW s \in Session, NEW r \in Run, DiffList(s),
           r \in latest'[s]
    PROVE  r \in latest[s] \/ phase[r] = "landed"
  BY ConstantsAssumption
     DEF BronzeInv, TypeOK, DiffList, LatestPerInterval, Candidates, Listed, ListedRows,
         BronzeIsWhole

LEMMA HealInvIsInductive ==
    ASSUME BronzeInv, TypeOK', ManifestInv, CoverageIsComplete, HealInv, [Next]_vars
    PROVE  HealInv'
  <1> USE DEF BronzeInv, TypeOK, HealInv, Goto
  <1>0. setup' = setup
    BY SetupStays
  <1>1. ASSUME ~setup.files, NEW s \in Session, NEW r \in Run, r \in latest'[s]
        PROVE  phase'[r] # "none" /\ (phase'[r] = "landed" \/ r \in lost')
    <2>1. phase[r] # "none" /\ (phase[r] = "landed" \/ r \in lost)
      <3>1. CASE r \in latest[s]
        BY <1>1, <3>1
      <3>2. CASE r \notin latest[s]
        <4>1. DiffList(s) \/ latest'[s] = Nothing
          BY <1>1, <3>2, ListingSteps
        <4>2. QED
          BY <1>1, <3>2, <4>1, ListedHaveLanded, RunTs
      <3>3. QED
        BY <3>1, <3>2
    <2>2. phase'[r] # "none" /\ lost \subseteq lost'
      BY <2>1, ExtractedIsFixed
    <2>3. phase[r] = "landed" => phase'[r] = "landed" \/ r \in lost'
      BY <1>1, LandedStays
    <2>4. QED
      BY <2>1, <2>2, <2>3
  <1>2. ASSUME NEW s \in Session, pc'[s] = "healed"
        PROVE  /\ latest'[s] = latest[s] /\ latest[s] # Nothing
               /\ ~setup.files => \A r \in latest[s] \cap Run : GivenUp(r) \/ Reflected(r)
    <2>1. CASE pc[s] = "healed"
      <3>1. latest'[s] = latest[s]
        BY <1>2, <2>1, ListingSteps
      <3>2. QED
        BY <2>1, <3>1 DEF HealedIsReflected
    <2>2. CASE pc[s] # "healed"
      <3>1. DiffRead(s) /\ DiffVerify(s, Holes(latest[s])) /\ Holes(latest[s]) = {}
        <4>1. PICK q \in Session : Catchup(q) \/ Crash(q)
          BY <1>2, <2>2, SessionSteps DEF session
        <4>2. DiffRead(q)
          BY <1>2, <2>2, <4>1
             DEF Crash, Catchup, Start, DiffList, WriteSidecar, WriteMarker, Build,
             StartOver
        <4>3. DiffVerify(q, Holes(latest[q]))
          <5> DEFINE holes == Holes(latest[q])
          <5>1. \/ DiffRaises(q) \/ DiffBefore(q, holes)
                \/ DiffPlan(q, holes) \/ DiffVerify(q, holes)
            BY <4>2 DEF DiffRead
          <5>2. QED
            BY <1>2, <2>2, <5>1 DEF DiffRaises, DiffBefore, DiffPlan
        <4>4. q = s /\ Holes(latest[q]) = {}
          BY <1>2, <2>2, <4>3 DEF DiffVerify
        <4>5. QED
          BY <4>2, <4>3, <4>4
      <3>2. latest[s] # Nothing /\ latest'[s] = latest[s]
        BY <3>1 DEF DiffRead, DiffVerify
      <3>3. QED
        BY <3>1, <3>2, VerifyReflects
    <2>3. QED
      BY <2>1, <2>2
  <1>3. HealedIsReflected'
    <2> SUFFICES ASSUME ~setup.files, NEW s \in Session, pc'[s] = "healed",
                        NEW r \in latest'[s], ~GivenUp(r)'
                 PROVE  Reflected(r)'
      BY <1>0 DEF HealedIsReflected
    <2>1. r \in latest[s] /\ latest[s] # Nothing
      BY <1>2
    <2>2. r \in Run
      BY <2>1
    <2>3. phase[r] # "none" /\ (phase[r] = "landed" \/ r \in lost)
      BY <2>1, <2>2
    <2>4. ~GivenUp(r)
      BY <1>0, <2>2, <2>3, ExtractedIsFixed DEF GivenUp
    <2>5. Reflected(r)
      BY <1>2, <2>1, <2>2, <2>4
    <2>6. phase[r] = "landed" \/ (setup.lookback = {} /\ phase[r] # "none")
      BY <2>3, <2>4 DEF GivenUp
    <2>7. QED
      BY <2>2, <2>5, <2>6, ReflectedStays
  <1>4. QED
    BY <1>0, <1>1, <1>2, <1>3

\* On transactional bronze, what a session has verified is in silver, row by
\* row, and stays there, but for runs that a lookback may have given up after
\* bronze had lost them.
THEOREM HealedCorrect == Spec => []HealedIsReflected
  <1>1. Init => HealInv
    BY RunTs DEF Init, HealInv, HealedIsReflected
  <1>2. /\ BronzeInv /\ TypeOK' /\ ManifestInv /\ CoverageIsComplete /\ HealInv
        /\ [Next]_vars
        => HealInv'
    BY HealInvIsInductive
  <1>3. HealInv => HealedIsReflected
    BY DEF HealInv
  <1>4. QED
    BY <1>1, <1>2, <1>3, BronzeInvHolds, CoverageCorrect, TypeCorrect, PTL DEF Spec

=============================================================================
