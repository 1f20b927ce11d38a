----------------------------- MODULE Publication -----------------------------
(***************************************************************************)
(* Extract, load, run and prune of one pipeline interval.                  *)
(*                                                                         *)
(* Several workers publish raw extract runs, land them in bronze and prune *)
(* bronze, under the interval lease of LeaseContract.  A raw run is a      *)
(* prefix of artifacts that meta/manifest.json commits; a bronze run is    *)
(* rows that one transaction replaces (Iceberg or SQL bronze).             *)
(* A worker makes one call, and may stop or stall between any two steps.   *)
(***************************************************************************)
EXTENDS Naturals, FiniteSets

CONSTANTS
    Worker,      \* calls, each with the token of the lease it may get
    Part,        \* the artifacts of an extract
    MaxTs,       \* bound: extract_run_datetime values, in seconds
    Keep,        \* prune's --keep
    Past,        \* the author of what earlier calls have committed
    NoOne

VARIABLES owner, live, lapsed, spent   \* the lease, see LeaseContract

Lease == INSTANCE LeaseContract WITH Attempt <- Worker, Strict <- FALSE

Run == 1..MaxTs
NoRun == 0

ASSUME ConstantsAssumption ==
    /\ MaxTs \in Nat /\ Keep \in Nat \ {0}
    /\ NoOne \notin Worker \cup {Past} /\ Past \notin Worker

VARIABLES
    data,      \* raw: whose artifact is under each name, NoOne if there is none
    manifest,  \* raw: whose commit object it is, NoOne if uncommitted
    late,      \* history: runs committed by a worker that had lost its lease
    clashed,   \* history: runs that two workers have extracted at a time
    bronze,    \* the rows of each run: data of raw, or Nothing
    job,       \* what each worker was called for
    ts,        \* the run it works on, NoRun when load picks the latest
    got,       \* the artifacts its source has written
    read,      \* the commit object it has read in order to stamp it
    doomed,    \* the runs a prune has planned to remove
    pc         \* where it is

lake == <<data, manifest, late, clashed, bronze>>
call == <<job, ts, got, read, doomed>>
lease == <<owner, live, lapsed, spent>>
vars == <<lease, lake, call, pc>>

Job == {"none", "extract", "load", "reload", "run", "prune"}
Extracting == {"check", "clean", "extract", "fence", "publish", "tidy", "wipe"}
Loading == {"writeFence", "write", "stampFence", "stampRead", "stamp"}
Ended == {"done", "dead"}
Author == Worker \cup {Past, NoOne}
All(a) == [p \in Part |-> a]
Nothing == All(NoOne)
Committed == {r \in Run : manifest[r] # NoOne}
Landed == {r \in Run : bronze[r] # Nothing}

TypeOK ==
    /\ owner \in Worker \cup {NoOne}
    /\ live \in BOOLEAN /\ lapsed \in BOOLEAN
    /\ spent \subseteq Worker
    /\ data \in [Run -> [Part -> Author]]
    /\ manifest \in [Run -> Author]
    /\ late \subseteq Run
    /\ clashed \subseteq Run
    /\ bronze \in [Run -> [Part -> Author]]
    /\ job \in [Worker -> Job]
    /\ ts \in [Worker -> Run \cup {NoRun}]
    /\ got \in [Worker -> SUBSET Part]
    /\ read \in [Worker -> Author]
    /\ doomed \in [Worker -> SUBSET Run]
    /\ pc \in [Worker ->
         {"idle", "acquire", "resolve", "pruneFence", "prune", "release"}
            \cup Extracting \cup Loading \cup Ended]
    /\ \A w \in Worker :
         /\ pc[w] \in Extracting => job[w] \in {"extract", "run"}
         /\ pc[w] \in Loading \/ job[w] \in {"extract", "run"} => ts[w] \in Run

\* Some runs have been extracted before, and some of them landed.
Init ==
    /\ Lease!Init
    /\ \E extracted \in SUBSET Run :
           /\ manifest = [r \in Run |-> IF r \in extracted THEN Past ELSE NoOne]
           /\ \E landed \in SUBSET extracted :
                  bronze = [r \in Run |-> IF r \in landed THEN All(Past) ELSE Nothing]
    /\ data = [r \in Run |-> All(manifest[r])]
    /\ late = {}
    /\ clashed = {}
    /\ job = [w \in Worker |-> "none"]
    /\ ts = [w \in Worker |-> NoRun]
    /\ got = [w \in Worker |-> {}]
    /\ read = [w \in Worker |-> NoOne]
    /\ doomed = [w \in Worker |-> {}]
    /\ pc = [w \in Worker |-> "idle"]

Goto(w, label) == pc' = [pc EXCEPT ![w] = label]

-----------------------------------------------------------------------------
\* Calls and their lease.
Start(w, j, label) ==
    /\ pc[w] = "idle"
    /\ job' = [job EXCEPT ![w] = j]
    /\ Goto(w, label)
    /\ UNCHANGED <<lease, lake, got, read>>

StartExtract(w) ==
    /\ Start(w, "extract", "check") \/ Start(w, "run", "acquire")
    /\ \E r \in Run : ts' = [ts EXCEPT ![w] = r]
    /\ UNCHANGED doomed

\* A reload is given its run, a load picks the latest.
StartLoad(w) ==
    /\ \/ Start(w, "load", "acquire") /\ ts' = ts
       \/ Start(w, "reload", "acquire") /\ \E r \in Run : ts' = [ts EXCEPT ![w] = r]
    /\ UNCHANGED doomed

\* Mutant: a group's runs are taken in descending order.
BeyondKeepOldest(r) == Cardinality({q \in Landed : q < r}) >= Keep

BeyondKeep(r) == Cardinality({q \in Landed : q > r}) >= Keep

\* The plan is made before any lock is taken.  A window that is not exactly
\* the interval takes another lease than the interval's.
PlanPrune(w) ==
    LET plan == {r \in Landed : BeyondKeep(r)}
    IN  /\ \/ plan # {} /\ (Start(w, "prune", "acquire") \/ Start(w, "prune", "prune"))
           \/ plan = {} /\ Start(w, "prune", "release")
        /\ doomed' = [doomed EXCEPT ![w] = plan]
        /\ UNCHANGED ts

\* pipeline_lease: what the body begins with.
Body(w) ==
    CASE job[w] = "extract" -> "extract"
      [] job[w] = "run"     -> "check"
      [] job[w] = "prune"   -> "pruneFence"
      [] OTHER              -> "resolve"

Acquire(w) ==
    /\ pc[w] = "acquire"
    /\ \/ (Lease!Acquire(w) \/ Lease!Steal(w)) /\ Goto(w, Body(w))
       \/ owner # NoOne /\ Lease!GiveUp(w) /\ Goto(w, "release")
    /\ UNCHANGED <<lake, call>>

\* Mutant: the fence looks at the token only when it is asked to extend.
Unfenced(w, label) ==
    /\ IF owner = w THEN Lease!Extend ELSE UNCHANGED lease
    /\ Goto(w, label)

\* assert_lease_held.
Fenced(w, label) ==
    \/ owner = w /\ live /\ Lease!Extend /\ Goto(w, label)
    \/ ~(owner = w /\ live) /\ UNCHANGED lease /\ Goto(w, "release")

Fence(w) ==
    /\ \/ pc[w] = "fence"      /\ Fenced(w, "publish")
       \/ pc[w] = "writeFence" /\ Fenced(w, "write")
       \/ pc[w] = "stampFence" /\ Fenced(w, "stampRead")
       \/ pc[w] = "pruneFence" /\ Fenced(w, "prune")
    /\ UNCHANGED <<lake, call>>

\* refresh, between artifacts and chunks; without effect once it is lost.
Heartbeat(w) ==
    /\ pc[w] \in {"extract", "resolve", "write"} /\ owner = w
    /\ Lease!Extend
    /\ UNCHANGED <<lake, call, pc>>

\* What a call knows ends with it.
End(w, label) ==
    /\ Goto(w, label)
    /\ job' = [job EXCEPT ![w] = "none"]
    /\ ts' = [ts EXCEPT ![w] = NoRun]
    /\ got' = [got EXCEPT ![w] = {}]
    /\ read' = [read EXCEPT ![w] = NoOne]
    /\ doomed' = [doomed EXCEPT ![w] = {}]
    /\ UNCHANGED lake

Release(w) ==
    /\ pc[w] = "release"
    /\ IF owner = w THEN Lease!Release ELSE UNCHANGED lease
    /\ End(w, "done")

-----------------------------------------------------------------------------
\* Extract.  A prefix that is not committed is taken for one left behind and
\* removed, before the lease is asked for, except in a run, which has taken it
\* already.  Two extracts share a run if they are given the same second.
Wiped(r) ==
    /\ data' = [data EXCEPT ![r] = Nothing]
    /\ manifest' = [manifest EXCEPT ![r] = NoOne]

\* Past its check, and not yet through with the prefix.
AtWork(w) ==
    /\ job[w] \in {"extract", "run"}
    /\ \/ pc[w] \in Extracting \ {"check"}
       \/ pc[w] = "acquire" /\ job[w] = "extract"

Check(w) ==
    /\ pc[w] = "check"
    /\ \/ ts[w] \in Committed /\ Goto(w, "release") /\ clashed' = clashed
       \/ /\ ts[w] \notin Committed /\ Goto(w, "clean")
          /\ clashed' = clashed \cup
                {r \in {ts[w]} : \E v \in Worker \ {w} : AtWork(v) /\ ts[v] = r}
    /\ UNCHANGED <<lease, data, manifest, late, bronze, call>>

Clean(w) ==
    /\ pc[w] = "clean"
    /\ Wiped(ts[w])
    /\ Goto(w, IF job[w] = "run" THEN "extract" ELSE "acquire")
    /\ UNCHANGED <<lease, late, clashed, bronze, call>>

\* The source writes an artifact under its final key.
WriteArtifact(w) ==
    /\ pc[w] = "extract"
    /\ \E p \in Part :
           /\ p \notin got[w]
           /\ got' = [got EXCEPT ![w] = @ \cup {p}]
           /\ data' = [data EXCEPT ![ts[w]][p] = w]
    /\ UNCHANGED <<lease, manifest, late, clashed, bronze, job, ts, read, doomed, pc>>

\* Mutant: the manifest is prepared while the source still writes.
ExtractedEarly(w) ==
    /\ pc[w] = "extract"
    /\ Goto(w, "fence")
    /\ UNCHANGED <<lease, lake, call>>

\* The artifacts it returns are those it wrote, whatever became of them.
Extracted(w) ==
    /\ pc[w] = "extract"
    /\ got[w] = Part
    /\ Goto(w, "fence")
    /\ UNCHANGED <<lease, lake, call>>

\* The source or the hygiene check raises.
ExtractFails(w) ==
    /\ pc[w] = "extract"
    /\ Goto(w, "tidy")
    /\ UNCHANGED <<lease, lake, call>>

\* write_manifest: one put, which may raise although it was carried out.
Publish(w) ==
    /\ pc[w] = "publish"
    /\ \/ /\ manifest' = [manifest EXCEPT ![ts[w]] = w]
          /\ late' = IF owner = w THEN late ELSE late \cup {ts[w]}
          /\ \/ Goto(w, IF job[w] = "run" THEN "resolve" ELSE "release")
             \/ Goto(w, "tidy")
       \/ UNCHANGED <<manifest, late>> /\ Goto(w, "tidy")
    /\ UNCHANGED <<lease, data, clashed, bronze, call>>

\* Mutant: the prefix of a failed extract goes, committed or not.
TidyUnchecked(w) ==
    /\ pc[w] = "tidy"
    /\ Goto(w, "wipe")
    /\ UNCHANGED <<lease, lake, call>>

Tidy(w) ==
    /\ pc[w] = "tidy"
    /\ Goto(w, IF ts[w] \in Committed THEN "release" ELSE "wipe")
    /\ UNCHANGED <<lease, lake, call>>

Wipe(w) ==
    /\ pc[w] = "wipe"
    /\ Wiped(ts[w])
    /\ Goto(w, "release")
    /\ UNCHANGED <<lease, late, clashed, bronze, call>>

-----------------------------------------------------------------------------
\* Load.  It picks the latest committed run, unless it was given one.
Latest(S) == {r \in S : \A q \in S : q <= r}

\* Mutant: a prefix counts as a run before it is committed.
CandidatesUncommitted(w) ==
    LET present == {r \in Run : data[r] # Nothing}
    IN  IF ts[w] = NoRun THEN Latest(present) ELSE {ts[w]} \cap present

Candidates(w) ==
    IF ts[w] = NoRun THEN Latest(Committed) ELSE {ts[w]} \cap Committed

Resolve(w) ==
    /\ pc[w] = "resolve"
    /\ \/ \E r \in Candidates(w) :
              ts' = [ts EXCEPT ![w] = r] /\ Goto(w, "writeFence")
       \/ Candidates(w) = {} /\ ts' = ts /\ Goto(w, "release")
    /\ UNCHANGED <<lease, lake, job, got, read, doomed>>

\* Rows are read from the artifacts and replace the run's in one transaction;
\* a missing artifact, or a failing source or store, rolls it back.
Write(w) ==
    /\ pc[w] = "write"
    /\ \/ /\ \A p \in Part : data[ts[w]][p] # NoOne
          /\ bronze' = [bronze EXCEPT ![ts[w]] = data[ts[w]]]
          /\ Goto(w, "stampFence")
       \/ bronze' = bronze /\ Goto(w, "release")
    /\ UNCHANGED <<lease, data, manifest, late, clashed, call>>

\* stamp_validation_success reads the manifest and puts it back, with the
\* receipt.
StampRead(w) ==
    /\ pc[w] = "stampRead"
    /\ Goto(w, IF ts[w] \in Committed THEN "stamp" ELSE "release")
    /\ read' = [read EXCEPT ![w] = manifest[ts[w]]]
    /\ UNCHANGED <<lease, lake, job, ts, doomed, got>>

Stamp(w) ==
    /\ pc[w] = "stamp"
    /\ manifest' = [manifest EXCEPT ![ts[w]] = read[w]]
    /\ Goto(w, "release")
    /\ UNCHANGED <<lease, data, late, clashed, bronze, call>>

-----------------------------------------------------------------------------
\* Prune deletes what it planned, run by run, and never raw.
Prune(w) ==
    /\ pc[w] = "prune"
    /\ \/ \E r \in doomed[w] :
              /\ \A q \in doomed[w] : r <= q
              /\ bronze' = [bronze EXCEPT ![r] = Nothing]
              /\ doomed' = [doomed EXCEPT ![w] = @ \ {r}]
              /\ pc' = pc
       \/ doomed[w] = {} /\ Goto(w, "release") /\ UNCHANGED <<bronze, doomed>>
    /\ UNCHANGED <<lease, data, manifest, late, clashed, job, ts, got, read>>

-----------------------------------------------------------------------------
\* A worker dies, and never answers again.
Crash(w) ==
    /\ pc[w] \notin Ended \cup {"idle"}
    /\ End(w, "dead")
    /\ UNCHANGED lease

Expire ==
    /\ Lease!Expire
    /\ UNCHANGED <<lake, call, pc>>

\* det lock-release --force, of a worker that is confirmed dead.
ForceRelease ==
    /\ owner # NoOne /\ pc[owner] = "dead"
    /\ Lease!Release
    /\ UNCHANGED <<lake, call, pc>>

Step(w) ==
    \/ StartExtract(w) \/ StartLoad(w) \/ PlanPrune(w)
    \/ Acquire(w) \/ Fence(w) \/ Heartbeat(w) \/ Release(w)
    \/ Check(w) \/ Clean(w) \/ WriteArtifact(w) \/ Extracted(w) \/ ExtractFails(w)
    \/ Publish(w) \/ Tidy(w) \/ Wipe(w)
    \/ Resolve(w) \/ Write(w) \/ StampRead(w) \/ Stamp(w)
    \/ Prune(w)

Next ==
    \/ \E w \in Worker : Step(w) \/ Crash(w)
    \/ Expire \/ ForceRelease

Spec == Init /\ [][Next]_vars

-----------------------------------------------------------------------------
\* "Concurrent, same pipeline and interval: serialized by lease"
\* (publication-contract.md): the extract that commits under its lease lists
\* its own artifacts, all of them.  The check and the removal come before the
\* lease, so the code does not keep this (run publication_doc).
SerializedByLease == \A r \in Committed \ late : data[r] = All(manifest[r])

\* It does where extracts do not share a run, and that is as far as it goes: a
\* commit is whole unless two workers were past the check of its run at a time,
\* whatever leases lapse and are stolen, and whoever extracts it again.
CommittedIsWhole == \A r \in Committed \ clashed : data[r] = All(manifest[r])

\* "Prefix already COMMITTED: do not overwrite" (publication-contract.md): no
\* step takes the commit of such a run back or touches what it commits.
CommittedStays ==
    [][\A r \in Committed \ clashed :
          manifest'[r] = manifest[r] /\ data'[r] = data[r]]_vars

\* What such a run holds in bronze is one committed extract, whole.
BronzeIsWhole ==
    \A r \in Landed \ clashed :
        r \in Committed /\ bronze[r] = All(manifest[r])

\* A load without a run lands the latest one committed: up to its fence, only
\* a worker that had lost the lease can have committed a later one (or an
\* extract that shares its run with another, and is then wiped and restored).
LoadsLatest ==
    [][\A w \in Worker :
          job[w] = "load" /\ pc[w] = "writeFence" /\ pc'[w] = "write" =>
              \A r \in Committed \ (late \cup clashed) : r <= ts[w]]_vars

\* The newest run in bronze stays there, however stale the plans of the
\* prunes that are under way.
NewestStays == [][Latest(Landed) \subseteq Landed']_vars
=============================================================================
