-------------------------- MODULE PublicationProofs --------------------------
(***************************************************************************)
(* Proofs about Publication, for any number of workers, artifacts and runs *)
(* and any retention.  Unless two workers were past the check of a run at  *)
(* the same time, its commit stays and is whole, and so are its rows; a    *)
(* load lands the latest of these runs; and prune always keeps the newest. *)
(***************************************************************************)
EXTENDS Publication, FiniteSetTheorems, TLAPS

USE DEF Extracting, Loading, Ended, Job, lease, lake, call, Goto

\* The steps of the lease, seen from here.
LEMMA LeaseSteps ==
    ASSUME TypeOK, NEW w \in Worker,
           \/ Lease!Acquire(w) \/ Lease!Steal(w) \/ Lease!GiveUp(w)
           \/ Lease!Extend \/ Lease!Expire \/ Lease!Release
    PROVE  /\ owner' \in Worker \cup {NoOne}
           /\ live' \in BOOLEAN /\ lapsed' \in BOOLEAN /\ spent' \subseteq Worker
  BY DEF TypeOK, Lease!Acquire, Lease!Steal, Lease!TakeOver, Lease!GiveUp, Lease!Extend,
         Lease!Expire, Lease!Release

LEMMA AllType == ASSUME NEW a \in Author PROVE All(a) \in [Part -> Author]
  BY DEF All

LEMMA InitTyped == Init => TypeOK
  <1> SUFFICES ASSUME Init PROVE TypeOK
    OBVIOUS
  <1>1. NoOne \in Author /\ Past \in Author
    BY DEF Author
  <1>2. manifest \in [Run -> Author]
    BY <1>1 DEF Init
  <1>3. data \in [Run -> [Part -> Author]]
    BY <1>2, AllType DEF Init
  <1>4. bronze \in [Run -> [Part -> Author]]
    BY <1>1, AllType DEF Init, Nothing
  <1>5. QED
    BY <1>1, <1>2, <1>3, <1>4 DEF Init, TypeOK, Lease!Init

LEMMA NextTyped == TypeOK /\ [Next]_vars => TypeOK'
  <1> SUFFICES ASSUME TypeOK, [Next]_vars PROVE TypeOK'
    OBVIOUS
  <1>a. \A w \in Worker : w \in Author
    BY DEF Author
  <1>b. NoOne \in Author /\ Nothing \in [Part -> Author]
    BY AllType DEF Author, Nothing
  <1>1. ASSUME NEW w \in Worker, Step(w) PROVE TypeOK'
    <2>1. CASE StartExtract(w)
      <3>1. PICK r \in Run : ts' = [ts EXCEPT ![w] = r]
        BY <2>1 DEF StartExtract
      <3>2. \/ job' = [job EXCEPT ![w] = "extract"] /\ pc' = [pc EXCEPT ![w] = "check"]
            \/ job' = [job EXCEPT ![w] = "run"] /\ pc' = [pc EXCEPT ![w] = "acquire"]
        BY <2>1 DEF StartExtract, Start
      <3>3. UNCHANGED <<lease, lake, got, read, doomed>>
        BY <2>1 DEF StartExtract, Start
      <3>4. QED
        BY <3>1, <3>2, <3>3 DEF TypeOK
    <2>19. CASE StartLoad(w)
      <3>1. /\ ts' = ts \/ \E r \in Run : ts' = [ts EXCEPT ![w] = r]
            /\ \E j \in {"load", "reload"} : job' = [job EXCEPT ![w] = j]
            /\ pc' = [pc EXCEPT ![w] = "acquire"]
            /\ UNCHANGED <<lease, lake, got, read, doomed>>
        BY <2>19 DEF StartLoad, Start
      <3>2. ts' \in [Worker -> Run \cup {NoRun}] /\ job' \in [Worker -> Job]
        BY <3>1 DEF TypeOK
      <3>3. \A v \in Worker : v # w => pc'[v] = pc[v] /\ job'[v] = job[v] /\ ts'[v] = ts[v]
        BY <3>1 DEF TypeOK
      <3>4. pc'[w] = "acquire" /\ job'[w] \in {"load", "reload"}
        BY <3>1 DEF TypeOK
      <3>5. QED
        BY <3>1, <3>2, <3>3, <3>4 DEF TypeOK
    <2>20. CASE PlanPrune(w)
      <3>1. /\ job' = [job EXCEPT ![w] = "prune"]
            /\ \E label \in {"acquire", "prune", "release"} : pc' = [pc EXCEPT ![w] = label]
            /\ doomed' = [doomed EXCEPT ![w] = {r \in Landed : BeyondKeep(r)}]
            /\ UNCHANGED <<lease, lake, got, read, ts>>
        BY <2>20 DEF PlanPrune, Start
      <3>2. doomed' \in [Worker -> SUBSET Run] /\ job' \in [Worker -> Job]
        BY <3>1 DEF TypeOK, Landed
      <3>3. QED
        BY <3>1, <3>2 DEF TypeOK
    <2>2. CASE Acquire(w) BY <2>2, LeaseSteps DEF TypeOK, Acquire, Body
    <2>3. CASE Fence(w)
      <3>1. /\ Lease!Extend \/ UNCHANGED lease
            /\ UNCHANGED <<lake, call>>
            /\ \/ pc[w] = "fence" /\ pc' = [pc EXCEPT ![w] = "publish"]
               \/ pc[w] = "writeFence" /\ pc' = [pc EXCEPT ![w] = "write"]
               \/ pc[w] = "stampFence" /\ pc' = [pc EXCEPT ![w] = "stampRead"]
               \/ pc' = [pc EXCEPT ![w] = "prune"]
               \/ pc' = [pc EXCEPT ![w] = "release"]
        BY <2>3 DEF Fence, Fenced
      <3>2. /\ owner' \in Worker \cup {NoOne}
            /\ live' \in BOOLEAN /\ lapsed' \in BOOLEAN /\ spent' \subseteq Worker
        BY <3>1, LeaseSteps DEF TypeOK
      <3>3. QED
        BY <3>1, <3>2 DEF TypeOK
    <2>4. CASE Heartbeat(w) BY <2>4, LeaseSteps DEF TypeOK, Heartbeat
    <2>5. CASE Release(w) BY <2>5, <1>b, LeaseSteps DEF TypeOK, Release, End
    <2>6. CASE Check(w)
      <3>1. /\ clashed' = clashed \/ clashed' \subseteq clashed \cup {ts[w]}
            /\ \E next \in {"clean", "release"} : pc' = [pc EXCEPT ![w] = next]
            /\ pc[w] = "check"
            /\ UNCHANGED <<lease, data, manifest, late, bronze, call>>
        BY <2>6 DEF Check
      <3>2. clashed' \subseteq Run
        BY <3>1 DEF TypeOK
      <3>3. QED
        BY <3>1, <3>2 DEF TypeOK
    <2>7. CASE Clean(w) BY <2>7, <1>b DEF TypeOK, Clean, Wiped
    <2>8. CASE WriteArtifact(w)
      <3>1. PICK p \in Part :
               /\ got' = [got EXCEPT ![w] = @ \cup {p}]
               /\ data' = [data EXCEPT ![ts[w]][p] = w]
               /\ ts[w] \in Run
        BY <2>8 DEF WriteArtifact, TypeOK
      <3>2. data' \in [Run -> [Part -> Author]]
        BY <3>1, <1>a DEF TypeOK
      <3>3. QED
        BY <2>8, <3>1, <3>2 DEF TypeOK, WriteArtifact
    <2>9. CASE Extracted(w) \/ ExtractFails(w)
      BY <2>9 DEF TypeOK, Extracted, ExtractFails
    <2>10. CASE Publish(w)
      <3>1. /\ manifest' = manifest \/ manifest' = [manifest EXCEPT ![ts[w]] = w]
            /\ late' \in {late, late \cup {ts[w]}}
            /\ \E next \in {"resolve", "release", "tidy"} : Goto(w, next)
            /\ pc[w] = "publish"
            /\ UNCHANGED <<lease, data, clashed, bronze, call>>
        BY <2>10 DEF Publish
      <3>2. ts[w] \in Run
        BY <3>1 DEF TypeOK
      <3>3. manifest' \in [Run -> Author]
        <4>1. CASE manifest' = manifest BY <4>1 DEF TypeOK
        <4>2. CASE manifest' = [manifest EXCEPT ![ts[w]] = w]
          BY <4>2, <1>a DEF TypeOK
        <4>3. QED BY <3>1, <4>1, <4>2
      <3>4. late' \subseteq Run
        BY <3>1, <3>2 DEF TypeOK
      <3>5. QED
        BY <3>1, <3>2, <3>3, <3>4 DEF TypeOK
    <2>11. CASE Tidy(w) BY <2>11 DEF TypeOK, Tidy
    <2>12. CASE Wipe(w) BY <2>12, <1>b DEF TypeOK, Wipe, Wiped
    <2>13. CASE Resolve(w)
      <3>1. /\ \/ pc' = [pc EXCEPT ![w] = "release"] /\ ts' = ts
               \/ /\ pc' = [pc EXCEPT ![w] = "writeFence"]
                  /\ \E r \in Candidates(w) : ts' = [ts EXCEPT ![w] = r]
            /\ UNCHANGED <<lease, lake, job, got, read, doomed>>
        BY <2>13 DEF Resolve
      <3>2. Candidates(w) \subseteq Run
        BY DEF Candidates, Latest, Committed
      <3>3. QED
        BY <3>1, <3>2 DEF TypeOK
    <2>14. CASE Write(w) BY <2>14 DEF TypeOK, Write
    <2>15. CASE StampRead(w) BY <2>15 DEF TypeOK, StampRead
    <2>16. CASE Stamp(w) BY <2>16 DEF TypeOK, Stamp
    <2>17. CASE Prune(w)
      <3>1. /\ \/ bronze' = bronze
               \/ \E r \in Run : bronze' = [bronze EXCEPT ![r] = Nothing]
            /\ \/ doomed' = doomed
               \/ \E r \in Run : doomed' = [doomed EXCEPT ![w] = @ \ {r}]
            /\ pc' = pc \/ pc' = [pc EXCEPT ![w] = "release"]
            /\ UNCHANGED <<lease, data, manifest, late, clashed, job, ts, got, read>>
        BY <2>17 DEF TypeOK, Prune
      <3>2. bronze' \in [Run -> [Part -> Author]]
        BY <3>1, <1>b DEF TypeOK
      <3>3. doomed' \in [Worker -> SUBSET Run]
        BY <3>1 DEF TypeOK
      <3>4. QED
        BY <3>1, <3>2, <3>3 DEF TypeOK
    <2>18. QED
      BY <1>1, <2>1, <2>2, <2>3, <2>4, <2>5, <2>6, <2>7, <2>8, <2>9, <2>10, <2>11,
         <2>12, <2>13, <2>14, <2>15, <2>16, <2>17, <2>19, <2>20 DEF Step
  <1>2. ASSUME NEW w \in Worker, Crash(w) PROVE TypeOK'
    <2>1. /\ pc' = [pc EXCEPT ![w] = "dead"]
          /\ job' = [job EXCEPT ![w] = "none"]
          /\ ts' = [ts EXCEPT ![w] = NoRun]
          /\ got' = [got EXCEPT ![w] = {}]
          /\ read' = [read EXCEPT ![w] = NoOne]
          /\ doomed' = [doomed EXCEPT ![w] = {}]
          /\ UNCHANGED <<lease, lake>>
      BY <1>2 DEF Crash, End
    <2>2. \A v \in Worker : v # w => pc'[v] = pc[v] /\ job'[v] = job[v] /\ ts'[v] = ts[v]
      BY <2>1 DEF TypeOK
    <2>3. pc'[w] = "dead" /\ job'[w] = "none"
      BY <2>1 DEF TypeOK
    <2>4. \A v \in Worker :
            /\ pc'[v] \in Extracting => job'[v] \in {"extract", "run"}
            /\ pc'[v] \in Loading \/ job'[v] \in {"extract", "run"} => ts'[v] \in Run
      BY <2>2, <2>3 DEF TypeOK
    <2>5. QED
      BY <2>1, <2>4, <1>b DEF TypeOK
  <1>3. CASE Expire \/ ForceRelease
    BY <1>3 DEF TypeOK, Expire, ForceRelease, Lease!Expire, Lease!Release
  <1>4. CASE UNCHANGED vars
    BY <1>4 DEF TypeOK, vars
  <1>5. QED
    BY <1>1, <1>2, <1>3, <1>4 DEF Next

\* Every field stays in its range, and every call past its start has a run.
THEOREM TypeCorrect == Spec => []TypeOK
  BY InitTyped, NextTyped, PTL DEF Spec

-----------------------------------------------------------------------------
\* Retention.  Rows are only lost to a prune that had planned it.
LEMMA LandedSteps ==
    ASSUME TypeOK, [Next]_vars
    PROVE  \/ Landed \subseteq Landed'
           \/ \E w \in Worker : \E s \in doomed[w] : Landed \ {s} \subseteq Landed'
  <1>1. ASSUME NEW w \in Worker, Write(w), bronze' # bronze
        PROVE  Landed \subseteq Landed'
    <2>1. /\ ts[w] \in Run
          /\ \A p \in Part : data[ts[w]][p] # NoOne
          /\ bronze' = [bronze EXCEPT ![ts[w]] = data[ts[w]]]
      BY <1>1 DEF Write, TypeOK
    <2> SUFFICES ASSUME NEW r \in Landed PROVE r \in Landed'
      OBVIOUS
    <2>2. PICK p \in Part : TRUE
      <3>1. bronze[r] \in [Part -> Author] /\ bronze[r] # Nothing /\ r \in Run
        BY DEF Landed, TypeOK
      <3>2. Nothing \in [Part -> Author]
        BY AllType DEF Nothing, Author
      <3>3. QED
        BY <3>1, <3>2
    <2>3. CASE r = ts[w]
      <3>1. bronze'[r] = data[r]
        BY <2>1, <2>3 DEF TypeOK
      <3>2. Nothing[p] = NoOne
        BY <2>2 DEF Nothing, All
      <3>3. bronze'[r] # Nothing
        BY <3>1, <3>2, <2>1, <2>2, <2>3
      <3>4. QED
        BY <3>3 DEF Landed
    <2>4. CASE r # ts[w]
      BY <2>4, <2>1 DEF Landed, TypeOK
    <2>5. QED
      BY <2>3, <2>4
  <1>2. ASSUME NEW w \in Worker, Prune(w), bronze' # bronze
        PROVE  \E s \in doomed[w] : Landed \ {s} \subseteq Landed'
    <2>1. PICK s \in doomed[w] : bronze' = [bronze EXCEPT ![s] = Nothing]
      BY <1>2 DEF Prune
    <2>2. Landed \ {s} \subseteq Landed'
      BY <2>1 DEF Landed, TypeOK
    <2>3. QED
      BY <2>2
  <1>3. bronze' = bronze => Landed \subseteq Landed'
    BY DEF Landed, Nothing
  <1>4. \/ bronze' = bronze
        \/ \E w \in Worker : Write(w) \/ Prune(w)
    BY DEF Next, Step, StartExtract, StartLoad, PlanPrune, Start, Acquire, Fence,
           Heartbeat, Release, Check, Clean, WriteArtifact, Extracted, ExtractFails,
           Publish, Tidy, Wipe, Resolve, StampRead, Stamp, Crash, Expire, ForceRelease,
           End, vars
  <1>5. QED
    BY <1>1, <1>2, <1>3, <1>4

\* A plan only shrinks once it is made.
LEMMA DoomedSteps ==
    ASSUME TypeOK, [Next]_vars, NEW w \in Worker
    PROVE  \/ doomed'[w] \subseteq doomed[w]
           \/ doomed'[w] = {r \in Landed : BeyondKeep(r)} /\ bronze' = bronze
  <1>1. ASSUME NEW v \in Worker, PlanPrune(v)
        PROVE  \/ doomed'[w] \subseteq doomed[w]
               \/ doomed'[w] = {r \in Landed : BeyondKeep(r)} /\ bronze' = bronze
    BY <1>1 DEF PlanPrune, Start, TypeOK
  <1>2. ASSUME NEW v \in Worker, Prune(v) PROVE doomed'[w] \subseteq doomed[w]
    <2>1. doomed' = doomed \/ \E r \in doomed[v] : doomed' = [doomed EXCEPT ![v] = @ \ {r}]
      BY <1>2 DEF Prune
    <2>2. QED
      BY <2>1 DEF TypeOK
  <1>3. ASSUME NEW v \in Worker, Release(v) \/ Crash(v) PROVE doomed'[w] \subseteq doomed[w]
    <2>1. doomed' = [doomed EXCEPT ![v] = {}]
      BY <1>3 DEF Release, Crash, End
    <2>2. doomed' \in [Worker -> SUBSET Run] /\ doomed'[w] \in {{}, doomed[w]}
      BY <2>1 DEF TypeOK
    <2>3. QED
      BY <2>2
  <1>4. \/ doomed' = doomed
        \/ \E v \in Worker : PlanPrune(v) \/ Prune(v) \/ Release(v) \/ Crash(v)
    BY DEF Next, Step, StartExtract, StartLoad, Start, Acquire, Fence,
           Heartbeat, Check, Clean, WriteArtifact, Extracted, ExtractFails,
           Publish, Tidy, Wipe, Resolve, Write, StampRead, Stamp, Expire, ForceRelease, vars
  <1>5. QED
    BY <1>1, <1>2, <1>3, <1>4

\* Every run that a prune has planned to remove has a newer one beside it.
NewerIsKept ==
    \A w \in Worker : \A r \in doomed[w] : \E q \in Landed : q > r

LEMMA KeptInitially == Init => NewerIsKept
  BY DEF Init, NewerIsKept

LEMMA KeptNext == TypeOK /\ NewerIsKept /\ [Next]_vars => NewerIsKept'
  <1> SUFFICES ASSUME TypeOK, NewerIsKept, [Next]_vars,
                      NEW w \in Worker, NEW r \in doomed'[w]
               PROVE  \E q \in Landed' : q > r
    BY DEF NewerIsKept
  <1>1. CASE doomed'[w] = {s \in Landed : BeyondKeep(s)} /\ bronze' = bronze
    <2>1. r \in Landed /\ Cardinality({q \in Landed : q > r}) >= Keep
      BY <1>1 DEF BeyondKeep
    <2>2. {q \in Landed : q > r} # {}
      BY <2>1, FS_EmptySet, ConstantsAssumption
    <2>3. Landed' = Landed
      BY <1>1 DEF Landed, Nothing
    <2>4. QED
      BY <2>2, <2>3
  <1>2. CASE doomed'[w] \subseteq doomed[w]
    <2>1. PICK q \in Landed : q > r
      BY <1>2 DEF NewerIsKept
    <2>2. CASE q \in Landed'
      BY <2>1, <2>2
    <2>3. CASE q \notin Landed'
      <3>0. PICK v \in Worker : \E s \in doomed[v] : Landed \ {s} \subseteq Landed'
        BY LandedSteps, <2>1, <2>3
      <3>1. PICK s \in doomed[v] : Landed \ {s} \subseteq Landed'
        BY <3>0
      <3>2. s = q
        BY <3>1, <2>3
      <3>3. PICK n \in Landed : n > s
        BY <3>1 DEF NewerIsKept
      <3>4. n \in Nat /\ q \in Nat /\ r \in Nat
        BY <1>2, ConstantsAssumption DEF Landed, TypeOK, Run
      <3>5. n > r /\ n # s
        BY <2>1, <3>2, <3>3, <3>4
      <3>6. QED
        BY <3>1, <3>3, <3>5
    <2>4. QED
      BY <2>2, <2>3
  <1>3. QED
    BY <1>1, <1>2, DoomedSteps

\* prune, with any --keep of at least one and whatever else is under way,
\* never takes the newest rows of the interval.
THEOREM RetentionCorrect == Spec => NewestStays
  <1>1. TypeOK /\ NewerIsKept /\ [Next]_vars => [Latest(Landed) \subseteq Landed']_vars
    <2> SUFFICES ASSUME TypeOK, NewerIsKept, [Next]_vars, NEW r \in Latest(Landed)
                 PROVE  r \in Landed'
      OBVIOUS
    <2>1. r \in Landed /\ (\A q \in Landed : q <= r)
      BY DEF Latest
    <2>2. ASSUME NEW v \in Worker, r \in doomed[v] PROVE FALSE
      <3>1. PICK q \in Landed : q > r
        BY <2>2 DEF NewerIsKept
      <3>2. q \in Nat /\ r \in Nat
        BY <2>1, ConstantsAssumption DEF Landed, Run
      <3>3. QED
        BY <2>1, <3>1, <3>2
    <2>3. QED
      BY <2>1, <2>2, LandedSteps
  <1>2. QED
    BY <1>1, TypeCorrect, KeptInitially, KeptNext, PTL DEF Spec, NewestStays

-----------------------------------------------------------------------------
\* Commits.  Unless its run has clashed, a run that is being extracted is not
\* committed and nobody else touches it.
Touching == {"clean", "extract", "fence", "publish", "wipe"}

OwnRuns ==
    \A v, w \in Worker :
        v # w /\ AtWork(v) /\ AtWork(w) /\ ts[v] = ts[w] => ts[w] \in clashed

\* What a worker relies on, at each place of its call.
Uncommitted(w) ==
    (pc[w] \in Touching \/ (pc[w] = "acquire" /\ job[w] = "extract")) /\ ts[w] \notin clashed
        => ts[w] \notin Committed
Gathered(w) ==
    /\ pc[w] \in {"idle", "acquire", "check", "clean"} => got[w] = {}
    /\ pc[w] = "extract" /\ ts[w] \notin clashed => \A p \in got[w] : data[ts[w]][p] = w
    /\ pc[w] \in {"fence", "publish"} /\ ts[w] \notin clashed => data[ts[w]] = All(w)
Resolved(w) ==
    /\ pc[w] \in Loading /\ ts[w] \notin clashed => ts[w] \in Committed
    /\ pc[w] = "stamp" /\ ts[w] \notin clashed => read[w] = manifest[ts[w]]
    /\ pc[w] = "idle" \/ (job[w] = "load" /\ pc[w] \in {"acquire", "resolve"}) => ts[w] = NoRun

CallsOK == \A w \in Worker : Uncommitted(w) /\ Gathered(w) /\ Resolved(w)

Inv == TypeOK /\ OwnRuns /\ CallsOK /\ CommittedIsWhole /\ BronzeIsWhole

LEMMA InvInitially == Init => Inv
  <1> SUFFICES ASSUME Init PROVE Inv
    OBVIOUS
  <1>1. TypeOK
    BY InitTyped
  <1>2. OwnRuns /\ CallsOK
    BY DEF Init, OwnRuns, AtWork, CallsOK, Uncommitted, Gathered, Resolved, Touching
  <1>3. CommittedIsWhole
    BY DEF Init, CommittedIsWhole, Committed
  <1>4. BronzeIsWhole
    <2> SUFFICES ASSUME NEW r \in Landed \ clashed
                 PROVE  r \in Committed /\ bronze[r] = All(manifest[r])
      BY DEF BronzeIsWhole
    <2>1. PICK extracted \in SUBSET Run :
             /\ manifest = [q \in Run |-> IF q \in extracted THEN Past ELSE NoOne]
             /\ \E landed \in SUBSET extracted :
                    bronze = [q \in Run |-> IF q \in landed THEN All(Past) ELSE Nothing]
      BY DEF Init
    <2>2. PICK landed \in SUBSET extracted :
             bronze = [q \in Run |-> IF q \in landed THEN All(Past) ELSE Nothing]
      BY <2>1
    <2>3. r \in Run /\ r \in landed
      BY <2>2 DEF Landed
    <2>4. manifest[r] = Past /\ bronze[r] = All(Past)
      BY <2>1, <2>2, <2>3
    <2>5. QED
      BY <2>3, <2>4, ConstantsAssumption DEF Committed
  <1>5. QED
    BY <1>1, <1>2, <1>3, <1>4 DEF Inv

\* What has clashed stays so.
LEMMA ClashedGrows ==
    ASSUME [Next]_vars PROVE clashed \subseteq clashed'
  BY DEF Next, Step, StartExtract, StartLoad, PlanPrune, Start, Acquire, Fence, Heartbeat,
         Release, Check, Clean, WriteArtifact, Extracted, ExtractFails, Publish, Tidy, Wipe,
         Resolve, Write, StampRead, Stamp, Prune, Crash, Expire, ForceRelease, End, vars

\* Only a worker that extracts a run changes its artifacts or its manifest.
LEMMA Touches ==
    ASSUME Inv, NEW v \in Worker, Step(v) \/ Crash(v),
           NEW r \in Run \ clashed, manifest'[r] # manifest[r] \/ data'[r] # data[r]
    PROVE  ts[v] = r /\ pc[v] \in Touching
  <1>1. \/ Clean(v) \/ Wipe(v) \/ WriteArtifact(v) \/ Publish(v) \/ Stamp(v)
    BY DEF Step, StartExtract, StartLoad, PlanPrune, Start, Acquire, Fence,
           Heartbeat, Release, Check, Extracted, ExtractFails, Tidy, Resolve, Write,
           StampRead, Prune, Crash, End
  <1>2. CASE Clean(v) \/ Wipe(v)
    BY <1>2 DEF Clean, Wipe, Wiped, Inv, TypeOK, Touching
  <1>3. CASE WriteArtifact(v)
    BY <1>3 DEF WriteArtifact, Inv, TypeOK, Touching
  <1>4. CASE Publish(v)
    BY <1>4 DEF Publish, Inv, TypeOK, Touching
  <1>5. CASE Stamp(v)
    <2>1. manifest' = [manifest EXCEPT ![ts[v]] = read[v]] /\ data' = data /\ pc[v] = "stamp"
      BY <1>5 DEF Stamp
    <2>2. ts[v] = r
      BY <2>1 DEF Inv, TypeOK
    <2>3. read[v] = manifest[r]
      BY <2>1, <2>2 DEF Inv, CallsOK, Resolved
    <2>4. QED
      BY <2>1, <2>2, <2>3 DEF Inv, TypeOK
  <1>6. QED
    BY <1>1, <1>2, <1>3, <1>4, <1>5

LEMMA CommitStays ==
    ASSUME Inv, [Next]_vars, NEW r \in Committed \ clashed
    PROVE  manifest'[r] = manifest[r] /\ data'[r] = data[r]
  <1>1. ASSUME NEW v \in Worker, Step(v) \/ Crash(v)
        PROVE  manifest'[r] = manifest[r] /\ data'[r] = data[r]
    <2>1. r \in Run
      BY DEF Committed
    <2>2. ~(ts[v] = r /\ pc[v] \in Touching)
      BY DEF Inv, CallsOK, Uncommitted
    <2>3. QED
      BY <1>1, <2>1, <2>2, Touches
  <1>2. CASE Expire \/ ForceRelease \/ UNCHANGED vars
    BY <1>2 DEF Expire, ForceRelease, vars
  <1>3. QED
    BY <1>1, <1>2 DEF Next

\* A worker leaves the calls of the others alone.
LEMMA Others ==
    ASSUME TypeOK, NEW v \in Worker, Step(v) \/ Crash(v), NEW w \in Worker, w # v
    PROVE  /\ pc'[w] = pc[w] /\ job'[w] = job[w] /\ ts'[w] = ts[w]
           /\ got'[w] = got[w] /\ read'[w] = read[w]
  <1>1. CASE StartExtract(v) \/ StartLoad(v) \/ PlanPrune(v)
    BY <1>1 DEF StartExtract, StartLoad, PlanPrune, Start, TypeOK
  <1>2. CASE Acquire(v) \/ Fence(v) \/ Heartbeat(v)
    BY <1>2 DEF Acquire, Fence, Fenced, Heartbeat, TypeOK
  <1>3. CASE Release(v) \/ Crash(v)
    BY <1>3 DEF Release, Crash, End, TypeOK
  <1>4. CASE Check(v) \/ Clean(v) \/ Extracted(v) \/ ExtractFails(v) \/ Tidy(v) \/ Wipe(v)
    BY <1>4 DEF Check, Clean, Extracted, ExtractFails, Tidy, Wipe, TypeOK
  <1>5. CASE WriteArtifact(v) \/ Publish(v)
    BY <1>5 DEF WriteArtifact, Publish, TypeOK
  <1>6. CASE Resolve(v) \/ Write(v) \/ StampRead(v) \/ Stamp(v)
    BY <1>6 DEF Resolve, Write, StampRead, Stamp, TypeOK
  <1>7. CASE Prune(v)
    BY <1>7 DEF Prune, TypeOK
  <1>8. QED
    BY <1>1, <1>2, <1>3, <1>4, <1>5, <1>6, <1>7 DEF Step

\* A worker gets to work at its check only.
LEMMA GetsToWork ==
    ASSUME TypeOK, NEW v \in Worker, Step(v) \/ Crash(v), AtWork(v)'
    PROVE  ts'[v] = ts[v] /\ (AtWork(v) \/ (Check(v) /\ ts[v] \notin Committed))
  <1>1. CASE StartExtract(v) \/ StartLoad(v) \/ PlanPrune(v)
    BY <1>1 DEF StartExtract, StartLoad, PlanPrune, Start, TypeOK, AtWork
  <1>2. CASE Acquire(v)
    BY <1>2 DEF Acquire, Body, TypeOK, AtWork
  <1>3. CASE Fence(v) \/ Heartbeat(v)
    BY <1>3 DEF Fence, Fenced, Heartbeat, TypeOK, AtWork
  <1>4. CASE Release(v) \/ Crash(v)
    BY <1>4 DEF Release, Crash, End, TypeOK, AtWork
  <1>5. CASE Check(v)
    BY <1>5 DEF Check, TypeOK, AtWork
  <1>6. CASE Clean(v) \/ Wipe(v) \/ WriteArtifact(v)
    BY <1>6 DEF Clean, Wipe, WriteArtifact, TypeOK, AtWork
  <1>7. CASE Extracted(v) \/ ExtractFails(v) \/ Tidy(v)
    BY <1>7 DEF Extracted, ExtractFails, Tidy, TypeOK, AtWork
  <1>8. CASE Publish(v)
    <2>1. pc[v] = "publish" /\ job' = job /\ ts' = ts
      BY <1>8 DEF Publish
    <2>2. QED
      BY <2>1 DEF TypeOK, AtWork
  <1>9. CASE Resolve(v) \/ Write(v) \/ StampRead(v) \/ Stamp(v) \/ Prune(v)
    <2>1. pc'[v] \in {"release", "writeFence", "stampFence", "stamp", "prune"}
      BY <1>9 DEF Resolve, Write, StampRead, Stamp, Prune, TypeOK
    <2>2. QED
      BY <2>1 DEF AtWork
  <1>10. QED
    BY <1>1, <1>2, <1>3, <1>4, <1>5, <1>6, <1>7, <1>8, <1>9 DEF Step

LEMMA OwnRunsNext ==
    ASSUME Inv, [Next]_vars PROVE OwnRuns'
  <1>1. ASSUME NEW v \in Worker, Step(v) \/ Crash(v), NEW w \in Worker, w # v,
               AtWork(v)', AtWork(w)', ts'[v] = ts'[w]
        PROVE  ts'[w] \in clashed'
    <2>1. AtWork(w) /\ ts'[w] = ts[w] /\ ts'[v] = ts[v]
      BY <1>1, Others, GetsToWork DEF Inv, AtWork
    <2>2. CASE AtWork(v)
      BY <1>1, <2>1, <2>2, ClashedGrows DEF Inv, OwnRuns
    <2>3. CASE Check(v) /\ ts[v] \notin Committed
      BY <1>1, <2>1, <2>3 DEF Check
    <2>4. QED
      BY <1>1, <2>2, <2>3, GetsToWork DEF Inv
  <1>2. ASSUME NEW v \in Worker, Step(v) \/ Crash(v) PROVE OwnRuns'
    <2> SUFFICES ASSUME NEW u \in Worker, NEW w \in Worker, u # w,
                        AtWork(u)', AtWork(w)', ts'[u] = ts'[w]
                 PROVE  ts'[w] \in clashed'
      BY DEF OwnRuns
    <2>1. CASE u = v BY <1>1, <1>2, <2>1
    <2>2. CASE w = v BY <1>1, <1>2, <2>2
    <2>3. CASE u # v /\ w # v
      <3>1. AtWork(u) /\ AtWork(w) /\ ts'[u] = ts[u] /\ ts'[w] = ts[w]
        BY <1>2, <2>3, Others DEF Inv, AtWork
      <3>2. QED
        BY <3>1, ClashedGrows DEF Inv, OwnRuns
    <2>4. QED
      BY <2>1, <2>2, <2>3
  <1>3. CASE Expire \/ ForceRelease \/ UNCHANGED vars
    BY <1>3 DEF Expire, ForceRelease, vars, Inv, OwnRuns, AtWork
  <1>4. QED
    BY <1>2, <1>3 DEF Next

\* Each step, seen by the worker that makes it.
LEMMA UncommittedNext ==
    ASSUME Inv, NEW v \in Worker, Step(v) \/ Crash(v) PROVE Uncommitted(v)'
  <1> USE DEF Uncommitted, Touching, Committed
  <1>1. TypeOK /\ Uncommitted(v) /\ clashed \subseteq clashed'
    BY ClashedGrows DEF Inv, CallsOK, Next
  <1>2. CASE StartExtract(v) \/ StartLoad(v) \/ PlanPrune(v)
    BY <1>1, <1>2 DEF StartExtract, StartLoad, PlanPrune, Start, TypeOK
  <1>3. CASE Acquire(v)
    BY <1>1, <1>3 DEF Acquire, Body, TypeOK
  <1>4. CASE Fence(v) \/ Heartbeat(v)
    BY <1>1, <1>4 DEF Fence, Fenced, Heartbeat, TypeOK
  <1>5. CASE Release(v) \/ Crash(v)
    BY <1>1, <1>5 DEF Release, Crash, End, TypeOK
  <1>6. CASE Check(v) \/ Extracted(v) \/ ExtractFails(v) \/ Tidy(v)
    BY <1>1, <1>6 DEF Check, Extracted, ExtractFails, Tidy, TypeOK
  <1>7. CASE Clean(v) \/ Wipe(v)
    <2>1. manifest' = [manifest EXCEPT ![ts[v]] = NoOne] /\ ts' = ts /\ ts[v] \in Run
      BY <1>1, <1>7 DEF Clean, Wipe, Wiped, TypeOK
    <2>2. manifest'[ts'[v]] = NoOne
      BY <1>1, <2>1 DEF TypeOK
    <2>3. QED
      BY <2>2
  <1>8. CASE WriteArtifact(v)
    BY <1>1, <1>8 DEF WriteArtifact, TypeOK
  <1>9. CASE Publish(v)
    <2>1. pc'[v] \in {"resolve", "release", "tidy"}
      BY <1>1, <1>9 DEF Publish, TypeOK
    <2>2. QED
      BY <2>1
  <1>10. CASE Resolve(v) \/ Write(v) \/ StampRead(v) \/ Stamp(v) \/ Prune(v)
    <2>1. pc'[v] \in {"release", "writeFence", "stampFence", "stamp", "prune"}
      BY <1>1, <1>10 DEF Resolve, Write, StampRead, Stamp, Prune, TypeOK
    <2>2. QED
      BY <2>1
  <1>11. QED
    BY <1>2, <1>3, <1>4, <1>5, <1>6, <1>7, <1>8, <1>9, <1>10 DEF Step

LEMMA GatheredNext ==
    ASSUME Inv, NEW v \in Worker, Step(v) \/ Crash(v) PROVE Gathered(v)'
  <1> USE DEF Gathered
  <1>1. TypeOK /\ Gathered(v) /\ clashed \subseteq clashed'
    BY ClashedGrows DEF Inv, CallsOK, Next
  <1>2. CASE StartExtract(v) \/ StartLoad(v) \/ PlanPrune(v)
    <2>1. pc[v] = "idle" /\ got' = got /\ pc'[v] \in {"check", "acquire", "prune", "release"}
      BY <1>1, <1>2 DEF StartExtract, StartLoad, PlanPrune, Start, TypeOK
    <2>2. QED
      BY <1>1, <2>1
  <1>3. CASE Acquire(v)
    <2>1. /\ pc[v] = "acquire" /\ got' = got
          /\ pc'[v] \in {"extract", "check", "pruneFence", "resolve", "release"}
      BY <1>1, <1>3 DEF Acquire, Body, TypeOK
    <2>2. QED
      BY <1>1, <2>1
  <1>4. CASE Fence(v) \/ Heartbeat(v)
    BY <1>1, <1>4 DEF Fence, Fenced, Heartbeat, TypeOK
  <1>5. CASE Release(v) \/ Crash(v)
    <2>1. pc'[v] \in {"done", "dead"}
      BY <1>1, <1>5 DEF Release, Crash, End, TypeOK
    <2>2. QED
      BY <2>1
  <1>6. CASE Check(v) \/ ExtractFails(v) \/ Tidy(v)
    BY <1>1, <1>6 DEF Check, ExtractFails, Tidy, TypeOK
  <1>7. CASE Clean(v) \/ Wipe(v)
    <2>1. \/ pc[v] = "clean" /\ pc'[v] \in {"extract", "acquire"} /\ got' = got
          \/ pc'[v] = "release"
      BY <1>1, <1>7 DEF Clean, Wipe, TypeOK
    <2>2. QED
      BY <1>1, <2>1
  <1>8. CASE WriteArtifact(v)
    <2>1. PICK p \in Part :
             /\ got' = [got EXCEPT ![v] = @ \cup {p}]
             /\ data' = [data EXCEPT ![ts[v]][p] = v]
      BY <1>8 DEF WriteArtifact
    <2>2. pc[v] = "extract" /\ pc' = pc /\ ts' = ts /\ ts[v] \in Run
      BY <1>1, <1>8 DEF WriteArtifact, TypeOK
    <2>3. \A q \in Part : data'[ts[v]][q] = IF q = p THEN v ELSE data[ts[v]][q]
      BY <1>1, <2>1, <2>2 DEF TypeOK
    <2>4. got'[v] = got[v] \cup {p} /\ got[v] \subseteq Part
      BY <1>1, <2>1 DEF TypeOK
    <2>5. QED
      BY <1>1, <2>2, <2>3, <2>4
  <1>9. CASE Extracted(v)
    <2>1. /\ pc[v] = "extract" /\ pc'[v] = "fence" /\ got[v] = Part
          /\ data' = data /\ ts' = ts /\ ts[v] \in Run
      BY <1>1, <1>9 DEF Extracted, TypeOK
    <2>2. ts[v] \notin clashed' => data[ts[v]] = All(v)
      BY <1>1, <2>1 DEF All, TypeOK
    <2>3. QED
      BY <2>1, <2>2
  <1>10. CASE Publish(v)
    <2>1. pc'[v] \in {"resolve", "release", "tidy"}
      BY <1>1, <1>10 DEF Publish, TypeOK
    <2>2. QED
      BY <2>1
  <1>11. CASE Resolve(v) \/ Write(v) \/ StampRead(v) \/ Stamp(v) \/ Prune(v)
    <2>1. pc'[v] \in {"release", "writeFence", "stampFence", "stamp", "prune"}
      BY <1>1, <1>11 DEF Resolve, Write, StampRead, Stamp, Prune, TypeOK
    <2>2. QED
      BY <2>1
  <1>12. QED
    BY <1>2, <1>3, <1>4, <1>5, <1>6, <1>7, <1>8, <1>9, <1>10, <1>11 DEF Step

LEMMA ResolvedNext ==
    ASSUME Inv, NEW v \in Worker, Step(v) \/ Crash(v) PROVE Resolved(v)'
  <1> USE DEF Resolved
  <1>1. TypeOK /\ Resolved(v) /\ clashed \subseteq clashed'
    BY ClashedGrows DEF Inv, CallsOK, Next
  <1>2. CASE StartExtract(v) \/ PlanPrune(v)
    <2>1. /\ pc'[v] \in {"check", "acquire", "prune", "release"}
          /\ job'[v] \in {"extract", "run", "prune"}
      BY <1>1, <1>2 DEF StartExtract, PlanPrune, Start, TypeOK
    <2>2. QED
      BY <2>1
  <1>3. CASE StartLoad(v)
    <2>1. pc[v] = "idle" /\ pc'[v] = "acquire" /\ (job'[v] = "load" => ts'[v] = ts[v])
      BY <1>1, <1>3 DEF StartLoad, Start, TypeOK
    <2>2. QED
      BY <1>1, <2>1
  <1>4. CASE Acquire(v)
    <2>1. /\ pc[v] = "acquire" /\ ts' = ts /\ job' = job
          /\ pc'[v] \in {"extract", "check", "pruneFence", "resolve", "release"}
      BY <1>1, <1>4 DEF Acquire, Body, TypeOK
    <2>2. QED
      BY <1>1, <2>1
  <1>5. CASE Fence(v) \/ Heartbeat(v)
    <2>1. /\ pc[v] = pc'[v] \/ <<pc[v], pc'[v]>> \in
               {<<"fence", "publish">>, <<"writeFence", "write">>, <<"pruneFence", "prune">>,
                <<"stampFence", "stampRead">>} \/ pc'[v] = "release"
          /\ UNCHANGED <<manifest, job, ts, read>>
      BY <1>1, <1>5 DEF Fence, Fenced, Heartbeat, TypeOK
    <2>2. Committed' = Committed
      BY <2>1 DEF Committed
    <2>3. QED
      BY <1>1, <2>1, <2>2
  <1>6. CASE Release(v) \/ Crash(v) \/ Stamp(v) \/ Prune(v)
    <2>1. pc'[v] \in {"done", "dead", "release", "prune"}
      BY <1>1, <1>6 DEF Release, Crash, End, Stamp, Prune, TypeOK
    <2>2. QED
      BY <2>1
  <1>7. CASE Check(v) \/ ExtractFails(v) \/ Tidy(v) \/ Extracted(v)
    <2>1. pc'[v] \in {"release", "clean", "fence", "tidy", "wipe"}
      BY <1>1, <1>7 DEF Check, ExtractFails, Tidy, Extracted, TypeOK
    <2>2. QED
      BY <2>1
  <1>8. CASE Clean(v) \/ Wipe(v) \/ WriteArtifact(v) \/ Publish(v)
    <2>1. pc[v] \in Extracting /\ job' = job /\ pc'[v] \notin Loading \cup {"idle"}
      BY <1>1, <1>8 DEF Clean, Wipe, WriteArtifact, Publish, TypeOK
    <2>2. job[v] # "load"
      BY <1>1, <2>1 DEF TypeOK
    <2>3. QED
      BY <2>1, <2>2
  <1>9. CASE Resolve(v)
    <2>1. manifest' = manifest /\ Committed' = Committed
      BY <1>9 DEF Resolve, Committed
    <2>2. Candidates(v) \subseteq Committed
      BY DEF Candidates, Latest
    <2>3. \/ pc'[v] = "release"
          \/ pc'[v] = "writeFence" /\ ts'[v] \in Candidates(v)
      BY <1>1, <1>9 DEF Resolve, TypeOK
    <2>4. QED
      BY <2>1, <2>2, <2>3
  <1>10. CASE Write(v)
    <2>1. pc[v] = "write" /\ pc'[v] \in {"stampFence", "release"} /\ UNCHANGED <<manifest, ts>>
      BY <1>1, <1>10 DEF Write, TypeOK
    <2>2. Committed' = Committed
      BY <2>1 DEF Committed
    <2>3. QED
      BY <1>1, <2>1, <2>2
  <1>11. CASE StampRead(v)
    <2>1. /\ pc'[v] = "release" \/ (pc'[v] = "stamp" /\ ts[v] \in Committed)
          /\ UNCHANGED <<manifest, ts>> /\ read'[v] = manifest[ts[v]]
      BY <1>1, <1>11 DEF StampRead, TypeOK
    <2>2. Committed' = Committed
      BY <2>1 DEF Committed
    <2>3. QED
      BY <2>1, <2>2
  <1>12. QED
    BY <1>2, <1>3, <1>4, <1>5, <1>6, <1>7, <1>8, <1>9, <1>10, <1>11 DEF Step

LEMMA CallsNext ==
    ASSUME Inv, [Next]_vars PROVE CallsOK'
  <1> SUFFICES ASSUME NEW w \in Worker
               PROVE  Uncommitted(w)' /\ Gathered(w)' /\ Resolved(w)'
    BY DEF CallsOK
  <1>0. TypeOK /\ Uncommitted(w) /\ Gathered(w) /\ Resolved(w)
    BY DEF Inv, CallsOK
  <1>1. ASSUME Step(w) \/ Crash(w)
        PROVE  Uncommitted(w)' /\ Gathered(w)' /\ Resolved(w)'
    BY <1>1, UncommittedNext, GatheredNext, ResolvedNext
  <1>2. ASSUME NEW v \in Worker, v # w, Step(v) \/ Crash(v)
        PROVE  Uncommitted(w)' /\ Gathered(w)' /\ Resolved(w)'
    <2>1. /\ pc'[w] = pc[w] /\ job'[w] = job[w] /\ ts'[w] = ts[w]
          /\ got'[w] = got[w] /\ read'[w] = read[w]
      BY <1>2, Others DEF Inv
    <2>2. clashed \subseteq clashed'
      BY ClashedGrows
    <2>3. CASE ts[w] \in clashed'
      BY <1>0, <2>1, <2>3 DEF Uncommitted, Gathered, Resolved
    <2>4. CASE ts[w] \notin clashed' /\ AtWork(w)
      <3>1. ts[w] \in Run /\ ts[w] \notin clashed
        BY <1>0, <2>2, <2>4 DEF TypeOK, AtWork
      <3>2. ~(ts[v] = ts[w] /\ pc[v] \in Touching)
        BY <1>0, <1>2, <2>4, <3>1 DEF Inv, OwnRuns, TypeOK, Touching, AtWork
      <3>3. manifest'[ts[w]] = manifest[ts[w]] /\ data'[ts[w]] = data[ts[w]]
        BY <1>2, <3>1, <3>2, Touches
      <3>4. ts'[w] \in Committed' <=> ts[w] \in Committed
        BY <2>1, <3>1, <3>3 DEF Committed
      <3>5. QED
        BY <1>0, <2>1, <3>1, <3>3, <3>4 DEF Uncommitted, Gathered, Resolved
    <2>5. CASE ts[w] \notin clashed' /\ ~AtWork(w)
      <3>1. Uncommitted(w)' /\ Gathered(w)'
        BY <1>0, <2>1, <2>5 DEF Uncommitted, Gathered, Touching, AtWork, TypeOK
      <3>2. Resolved(w)'
        <4>1. CASE pc[w] \in Loading
          <5>1. ts[w] \in Committed \ clashed
            BY <1>0, <2>2, <2>5, <4>1 DEF Resolved
          <5>2. manifest'[ts[w]] = manifest[ts[w]] /\ ts[w] \in Committed'
            BY <5>1, CommitStays DEF Committed
          <5>3. QED
            BY <1>0, <2>1, <4>1, <5>1, <5>2 DEF Resolved
        <4>2. CASE pc[w] \notin Loading
          BY <1>0, <2>1, <4>2 DEF Resolved
        <4>3. QED
          BY <4>1, <4>2
      <3>3. QED
        BY <3>1, <3>2
    <2>6. QED
      BY <2>3, <2>4, <2>5
  <1>3. CASE Expire \/ ForceRelease \/ UNCHANGED vars
    BY <1>0, <1>3 DEF Expire, ForceRelease, vars, Uncommitted, Gathered, Resolved, Committed
  <1>4. QED
    BY <1>1, <1>2, <1>3 DEF Next

\* A commit is made over the artifacts of its own extract, and they stay.
LEMMA WholeNext ==
    ASSUME Inv, [Next]_vars PROVE CommittedIsWhole'
  <1> SUFFICES ASSUME NEW r \in Committed' \ clashed' PROVE data'[r] = All(manifest'[r])
    BY DEF CommittedIsWhole
  <1>0. r \notin clashed
    BY ClashedGrows
  <1>1. CASE r \in Committed
    BY <1>0, <1>1, CommitStays DEF Inv, CommittedIsWhole
  <1>2. CASE r \notin Committed
    <2>1. r \in Run /\ manifest'[r] # manifest[r]
      BY <1>2 DEF Committed
    <2>2. PICK v \in Worker : Step(v) \/ Crash(v)
      BY <2>1 DEF Next, Expire, ForceRelease, vars
    <2>3. ts[v] = r /\ pc[v] \in Touching
      BY <1>0, <2>1, <2>2, Touches
    <2>4. Publish(v) \/ Clean(v) \/ Wipe(v)
      <3>1. ~Stamp(v)
        BY <2>3 DEF Stamp, Touching
      <3>2. QED
        BY <2>1, <2>2, <3>1 DEF Step, StartExtract, StartLoad, PlanPrune, Start, Acquire, Fence,
           Heartbeat, Release, Check, WriteArtifact, Extracted, ExtractFails, Tidy, Resolve,
           Write, StampRead, Prune, Crash, End
    <2>5. CASE Clean(v) \/ Wipe(v)
      BY <2>1, <2>3, <2>5 DEF Clean, Wipe, Wiped, Committed, Inv, TypeOK
    <2>6. CASE Publish(v)
      <3>1. manifest'[r] = v /\ data' = data /\ pc[v] = "publish"
        BY <2>1, <2>3, <2>6 DEF Publish, Inv, TypeOK
      <3>2. data[r] = All(v)
        BY <1>0, <2>3, <3>1 DEF Inv, CallsOK, Gathered
      <3>3. QED
        BY <3>1, <3>2
    <2>7. QED
      BY <2>4, <2>5, <2>6
  <1>3. QED
    BY <1>1, <1>2

LEMMA BronzeNext ==
    ASSUME Inv, [Next]_vars PROVE BronzeIsWhole'
  <1> SUFFICES ASSUME NEW r \in Landed' \ clashed'
               PROVE  r \in Committed' /\ bronze'[r] = All(manifest'[r])
    BY DEF BronzeIsWhole
  <1>0. r \in Run /\ bronze'[r] # Nothing /\ r \notin clashed
    BY ClashedGrows DEF Landed, Nothing
  <1>1. CASE r \in Landed /\ bronze'[r] = bronze[r]
    <2>1. r \in Committed /\ bronze[r] = All(manifest[r])
      BY <1>0, <1>1 DEF Inv, BronzeIsWhole
    <2>2. manifest'[r] = manifest[r]
      BY <1>0, <2>1, CommitStays
    <2>3. QED
      BY <1>1, <2>1, <2>2 DEF Committed
  <1>2. CASE bronze'[r] # bronze[r]
    <2>1. PICK v \in Worker : Write(v) \/ Prune(v)
      BY <1>2 DEF Next, Step, StartExtract, StartLoad, PlanPrune, Start, Acquire, Fence,
           Heartbeat, Release, Check, Clean, WriteArtifact, Extracted, ExtractFails,
           Publish, Tidy, Wipe, Resolve, StampRead, Stamp, Crash, Expire, ForceRelease,
           End, vars
    <2>2. CASE Prune(v)
      BY <1>0, <1>2, <2>2 DEF Prune, Inv, TypeOK
    <2>3. CASE Write(v)
      <3>1. /\ bronze'[r] = data[r] /\ r = ts[v] /\ pc[v] = "write"
            /\ manifest' = manifest
        BY <1>0, <1>2, <2>3 DEF Write, Inv, TypeOK
      <3>2. r \in Committed
        BY <1>0, <3>1 DEF Inv, CallsOK, Resolved
      <3>3. QED
        BY <1>0, <3>1, <3>2 DEF Inv, CommittedIsWhole, Committed
    <2>4. QED
      BY <2>1, <2>2, <2>3
  <1>3. CASE r \notin Landed /\ bronze'[r] = bronze[r]
    BY <1>0, <1>3 DEF Landed
  <1>4. QED
    BY <1>1, <1>2, <1>3

LEMMA InvNext == Inv /\ [Next]_vars => Inv'
  BY OwnRunsNext, CallsNext, WholeNext, BronzeNext, NextTyped DEF Inv

\* What is committed is never taken back or overwritten, unless two workers
\* were past the check of the run at a time.
THEOREM CommitsCorrect == Spec => CommittedStays
  <1>1. Inv /\ [Next]_vars
        => [\A r \in Committed \ clashed :
               manifest'[r] = manifest[r] /\ data'[r] = data[r]]_vars
    BY CommitStays
  <1>2. QED
    BY <1>1, InvInitially, InvNext, PTL DEF Spec, CommittedStays

\* A commit lists its own extract, whole, unless two workers were past the
\* check of the run at a time (which the lease does not prevent, see the run
\* publication_doc).
THEOREM CommitsAreWhole == Spec => []CommittedIsWhole
  <1>1. Inv => CommittedIsWhole
    BY DEF Inv
  <1>2. QED
    BY <1>1, InvInitially, InvNext, PTL DEF Spec

\* Rows of bronze are one committed extract, whole, whatever crashes, expires
\* or is taken over, with the same exception.
THEOREM BronzeCorrect == Spec => []BronzeIsWhole
  <1>1. Inv => BronzeIsWhole
    BY DEF Inv
  <1>2. QED
    BY <1>1, InvInitially, InvNext, PTL DEF Spec

-----------------------------------------------------------------------------
\* Order.  As long as it holds the lease, no commit passes a load by.
PicksLatest ==
    \A w \in Worker :
        job[w] = "load" /\ pc[w] = "writeFence" /\ owner = w =>
            \A r \in Committed \ (late \cup clashed) : r <= ts[w]

\* A worker is the owner only from its Acquire on.
LEMMA OwnerSteps ==
    ASSUME TypeOK, NEW v \in Worker, Step(v) \/ Crash(v), owner' # owner
    PROVE  owner' = NoOne \/ (Acquire(v) /\ owner' = v)
  <1>1. Acquire(v) \/ Release(v)
    BY DEF Step, StartExtract, StartLoad, PlanPrune, Start, Fence, Fenced, Lease!Extend,
           Heartbeat, Check, Clean, WriteArtifact, Extracted, ExtractFails, Publish, Tidy,
           Wipe, Resolve, Write, StampRead, Stamp, Prune, Crash, End
  <1>2. CASE Acquire(v)
    BY <1>2 DEF Acquire, Lease!Acquire, Lease!Steal, Lease!TakeOver, Lease!GiveUp
  <1>3. CASE Release(v)
    BY <1>3 DEF Release, Lease!Release
  <1>4. QED
    BY <1>1, <1>2, <1>3

\* What is committed in time is committed by the owner of the lease.
LEMMA InTime ==
    ASSUME Inv, NEW v \in Worker, Step(v) \/ Crash(v),
           NEW r \in Committed', r \notin late' \cup clashed', r \notin Committed \ late
    PROVE  owner = v
  <1>0. clashed \subseteq clashed'
    BY ClashedGrows DEF Next
  <1>1. late \subseteq late'
    BY DEF Step, StartExtract, StartLoad, PlanPrune, Start, Acquire, Fence, Heartbeat, Release,
           Check, Clean, WriteArtifact, Extracted, ExtractFails, Publish, Tidy, Wipe,
           Resolve, Write, StampRead, Stamp, Prune, Crash, End
  <1>2. r \in Run /\ r \notin Committed /\ manifest'[r] # manifest[r]
    BY <1>1 DEF Committed
  <1>3. ts[v] = r /\ pc[v] \in Touching
    BY <1>0, <1>2, Touches
  <1>4. Publish(v) \/ Clean(v) \/ Wipe(v)
    <2>1. ~Stamp(v)
      BY <1>3 DEF Stamp, Touching
    <2>2. QED
      BY <1>2, <2>1 DEF Step, StartExtract, StartLoad, PlanPrune, Start, Acquire, Fence,
           Heartbeat, Release, Check, WriteArtifact, Extracted, ExtractFails, Tidy, Resolve,
           Write, StampRead, Prune, Crash, End
  <1>5. CASE Clean(v) \/ Wipe(v)
    BY <1>2, <1>3, <1>5 DEF Clean, Wipe, Wiped, Committed, Inv, TypeOK
  <1>6. CASE Publish(v)
    BY <1>2, <1>3, <1>6 DEF Publish
  <1>7. QED
    BY <1>4, <1>5, <1>6

LEMMA PicksInitially == Init => PicksLatest
  BY DEF Init, PicksLatest

LEMMA PicksNext ==
    ASSUME Inv, PicksLatest, [Next]_vars PROVE PicksLatest'
  <1> SUFFICES ASSUME NEW w \in Worker, job'[w] = "load", pc'[w] = "writeFence", owner' = w,
                      NEW r \in Committed' \ (late' \cup clashed')
               PROVE  r <= ts'[w]
    BY DEF PicksLatest
  <1>1. ASSUME NEW v \in Worker, v # w, Step(v) \/ Crash(v) PROVE r <= ts'[w]
    <2>1. pc'[w] = pc[w] /\ job'[w] = job[w] /\ ts'[w] = ts[w]
      BY <1>1, Others DEF Inv
    <2>2. owner = w
      BY <1>1, OwnerSteps, ConstantsAssumption DEF Inv
    <2>3. r \in Committed \ (late \cup clashed)
      BY <1>1, <2>2, InTime, ClashedGrows
    <2>4. QED
      BY <2>1, <2>2, <2>3 DEF PicksLatest
  <1>2. CASE Step(w) \/ Crash(w)
    <2>0. TypeOK
      BY DEF Inv
    <2>1. Resolve(w)
      <3>1. ~(StartExtract(w) \/ StartLoad(w) \/ PlanPrune(w))
        BY <2>0 DEF StartExtract, StartLoad, PlanPrune, Start, TypeOK
      <3>2. ~(Acquire(w) \/ Fence(w) \/ Heartbeat(w) \/ Release(w) \/ Crash(w))
        BY <2>0 DEF Acquire, Body, Fence, Fenced, Heartbeat, Release, Crash, End, TypeOK
      <3>3. ~(Check(w) \/ Clean(w) \/ WriteArtifact(w) \/ Extracted(w) \/ ExtractFails(w))
        BY <2>0 DEF Check, Clean, WriteArtifact, Extracted, ExtractFails, TypeOK
      <3>4. ~(Publish(w) \/ Tidy(w) \/ Wipe(w))
        BY <2>0 DEF Publish, Tidy, Wipe, TypeOK
      <3>5. ~(Write(w) \/ StampRead(w) \/ Stamp(w) \/ Prune(w))
        BY <2>0 DEF Write, StampRead, Stamp, Prune, TypeOK
      <3>6. QED
        BY <1>2, <3>1, <3>2, <3>3, <3>4, <3>5 DEF Step
    <2>2. job[w] = "load" /\ ts[w] = NoRun
      BY <2>1 DEF Resolve, Inv, CallsOK, Resolved
    <2>3. ts'[w] \in Latest(Committed)
      BY <2>0, <2>1, <2>2 DEF Resolve, Candidates, TypeOK
    <2>4. r \in Committed
      BY <2>1 DEF Resolve, Committed
    <2>5. QED
      BY <2>3, <2>4 DEF Latest
  <1>3. CASE Expire \/ ForceRelease \/ UNCHANGED vars
    <2>1. owner = w /\ UNCHANGED <<lake, call, pc>>
      BY <1>3, ConstantsAssumption DEF Expire, ForceRelease, Lease!Expire, Lease!Release, vars
    <2>2. QED
      BY <2>1 DEF PicksLatest, Committed
  <1>4. QED
    BY <1>1, <1>2, <1>3 DEF Next

\* A load of the latest run never lands an older one under a lease it holds.
THEOREM LoadsCorrect == Spec => LoadsLatest
  <1>1. TypeOK /\ PicksLatest /\ [Next]_vars =>
          [\A w \in Worker :
              job[w] = "load" /\ pc[w] = "writeFence" /\ pc'[w] = "write" =>
                  \A r \in Committed \ (late \cup clashed) : r <= ts[w]]_vars
    <2> SUFFICES ASSUME TypeOK, PicksLatest, [Next]_vars,
                        NEW w \in Worker, job[w] = "load", pc[w] = "writeFence", pc'[w] = "write"
                 PROVE  \A r \in Committed \ (late \cup clashed) : r <= ts[w]
      OBVIOUS
    <2>1. Step(w) \/ Crash(w)
      <3>1. ASSUME NEW v \in Worker, v # w, Step(v) \/ Crash(v) PROVE FALSE
        BY <3>1, Others
      <3>2. QED
        BY <3>1 DEF Next, Expire, ForceRelease, vars
    <2>2. Fence(w)
      BY <2>1 DEF Step, StartExtract, StartLoad, PlanPrune, Start, Acquire, Heartbeat, Release,
           Check, Clean, WriteArtifact, Extracted, ExtractFails, Publish, Tidy, Wipe,
           Resolve, Write, StampRead, Stamp, Prune, Crash, End, TypeOK
    <2>3. owner = w
      BY <2>2 DEF Fence, Fenced, TypeOK
    <2>4. QED
      BY <2>3 DEF PicksLatest
  <1>2. Inv => TypeOK
    BY DEF Inv
  <1>3. QED
    BY <1>1, <1>2, InvInitially, InvNext, PicksInitially, PicksNext, PTL DEF Spec, LoadsLatest
=============================================================================
