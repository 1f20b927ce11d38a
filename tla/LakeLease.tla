------------------------------ MODULE LakeLease ------------------------------
(***************************************************************************)
(* The pipeline-interval lease kept as one JSON object in the lake         *)
(* (LakeLeaseStore), as driven by the pipeline_lease context manager.      *)
(*                                                                         *)
(* An Attempt is one call of acquire() and the handle it returns: acquire  *)
(* draws a fresh 128-bit token, so the attempt stands for its token.  Every*)
(* remote operation on the lock object (conditional put, read, version     *)
(* lookup, conditional delete) is one step: between two of them any other  *)
(* attempt, the operator or the passing of time may act.                   *)
(*                                                                         *)
(* Time appears only as the moment the stored deadline passes (Expire).    *)
(***************************************************************************)
EXTENDS FiniteSets

CONSTANTS
    Attempt,        \* acquire() calls, each with its token
    Version,        \* object versions (etag, generation, local stamp)
    NoOne,          \* "there is no lock object"
    NoVersion,      \* a handle's version before the store returned one
    VersionInReply  \* TRUE: a put returns its version (s3, local, memory);
                    \* FALSE: the version is looked up after the put (gs)

ASSUME ConstantsAssumption ==
    /\ NoOne \notin Attempt
    /\ NoVersion \notin Version
    /\ VersionInReply \in BOOLEAN

VARIABLES
    owner,     \* token in the lock object, NoOne when there is no object
    version,   \* the object's version
    live,      \* the stored expires_at is in the future
    lapsed,    \* history: this owner's deadline has passed at some time
    pc,        \* where each attempt is
    ver,       \* Lease.version of the handle, or the stealer's `expected`
    seen,      \* the token a stealer read first (`held`)
    operator   \* lock-release --force: "idle", or "confirmed" after its read

vars == <<owner, version, live, lapsed, pc, ver, seen, operator>>
lock == <<owner, version, live, lapsed>>
handle == <<ver, seen, operator>>

Acquiring == {"idle", "stealRead", "stealVersion", "stealRecheck", "stealSwap"}
Holding   == {"created", "acquired", "held", "refreshing", "fencing", "wrote",
              "closing", "releasing"}
Ended     == {"refused", "done", "dead"}

TypeOK ==
    /\ owner \in Attempt \cup {NoOne}
    /\ version \in Version
    /\ live \in BOOLEAN
    /\ lapsed \in BOOLEAN
    /\ pc \in [Attempt -> Acquiring \cup Holding \cup Ended]
    /\ ver \in [Attempt -> Version \cup {NoVersion}]
    /\ seen \in [Attempt -> Attempt \cup {NoOne}]
    /\ operator \in {"idle", "confirmed"}

Init ==
    /\ owner = NoOne
    /\ version \in Version
    /\ live = FALSE
    /\ lapsed = FALSE
    /\ pc = [a \in Attempt |-> "idle"]
    /\ ver = [a \in Attempt |-> NoVersion]
    /\ seen = [a \in Attempt |-> NoOne]
    /\ operator = "idle"

-----------------------------------------------------------------------------
\* A put gives the object a version nobody remembers: generations and etags
\* do not come back.  Which one is of no consequence, so one is chosen.
Remembered == {version} \cup {ver[a] : a \in Attempt}

FreshVersion ==
    LET v == CHOOSE w \in Version : w \notin Remembered
    IN  {v} \cap (Version \ Remembered)

Goto(a, label) == pc' = [pc EXCEPT ![a] = label]

\* A put by `a` that took effect.  Its reply carries the new version, or the
\* handle has to look the version up in a further step (`lookup`).
Put(a, next, lookup) ==
    \E v \in FreshVersion :
        /\ owner' = a
        /\ version' = v
        /\ live' = TRUE
        /\ lapsed' = IF owner = a THEN lapsed ELSE FALSE
        /\ IF VersionInReply
             THEN ver' = [ver EXCEPT ![a] = v] /\ Goto(a, next)
             ELSE ver' = ver /\ Goto(a, lookup)
        /\ UNCHANGED <<seen, operator>>

\* The precondition of a conditional put or delete by handle `a`.
Matches(a) == owner # NoOne /\ version = ver[a]

-----------------------------------------------------------------------------
\* acquire(): exclusive create, else the steal of an expired lock.
Create(a) ==
    /\ pc[a] = "idle"
    /\ \/ owner = NoOne /\ Put(a, "acquired", "created")
       \/ /\ owner # NoOne
          /\ Goto(a, "stealRead")
          /\ UNCHANGED <<lock, handle>>

\* Mutant: the deadline of the lock is not looked at.
StealReadUnexpired(a) ==
    /\ pc[a] = "stealRead"
    /\ IF owner = NoOne
         THEN Goto(a, "refused") /\ seen' = seen
         ELSE Goto(a, "stealVersion") /\ seen' = [seen EXCEPT ![a] = owner]
    /\ UNCHANGED <<lock, ver, operator>>

\* held = read_lock(path): refused when the object is gone or still live.
StealRead(a) ==
    /\ pc[a] = "stealRead"
    /\ IF owner = NoOne \/ live
         THEN Goto(a, "refused") /\ seen' = seen
         ELSE Goto(a, "stealVersion") /\ seen' = [seen EXCEPT ![a] = owner]
    /\ UNCHANGED <<lock, ver, operator>>

\* expected = path.object_version(), taken after the read.
StealVersion(a) ==
    /\ pc[a] = "stealVersion"
    /\ IF owner = NoOne
         THEN Goto(a, "refused") /\ ver' = ver
         ELSE Goto(a, "stealRecheck") /\ ver' = [ver EXCEPT ![a] = version]
    /\ UNCHANGED <<lock, seen, operator>>

\* Mutant: the token is not read again.
StealRecheckSkipped(a) ==
    /\ pc[a] = "stealRecheck"
    /\ Goto(a, "stealSwap")
    /\ UNCHANGED <<lock, handle>>

\* again = read_lock(path): the token must be the one read first.
StealRecheck(a) ==
    /\ pc[a] = "stealRecheck"
    /\ Goto(a, IF owner = seen[a] THEN "stealSwap" ELSE "refused")
    /\ UNCHANGED <<lock, handle>>

StealSwap(a) ==
    /\ pc[a] = "stealSwap"
    /\ \/ Matches(a) /\ Put(a, "acquired", "created")
       \/ ~Matches(a) /\ Goto(a, "refused") /\ UNCHANGED <<lock, handle>>

\* The version lookup after a put on gs.  With the object gone it raises:
\* inside acquire no handle exists, later the context manager releases.
LookUpVersion(a) ==
    /\ pc[a] \in {"created", "wrote"}
    /\ IF owner = NoOne
         THEN /\ Goto(a, IF pc[a] = "created" THEN "refused" ELSE "closing")
              /\ ver' = ver
         ELSE /\ Goto(a, IF pc[a] = "created" THEN "acquired" ELSE "held")
              /\ ver' = [ver EXCEPT ![a] = version]
    /\ UNCHANGED <<lock, seen, operator>>

-----------------------------------------------------------------------------
\* refresh(): once on entering the context manager, then as a heartbeat.  A
\* lost token or a failed precondition is a no-op; the deadline is not read.
RefreshRead(a) ==
    /\ pc[a] \in {"acquired", "held"}
    /\ Goto(a, IF owner = a THEN "refreshing" ELSE "held")
    /\ UNCHANGED <<lock, handle>>

\* Mutant: on a conflict, retry with the version found, token unchecked.
RefreshSwapRetry(a) ==
    /\ pc[a] = "refreshing"
    /\ \/ Matches(a) /\ Put(a, "held", "wrote")
       \/ /\ ~Matches(a)
          /\ ver' = [ver EXCEPT ![a] = version]
          /\ UNCHANGED <<lock, pc, seen, operator>>

RefreshSwap(a) ==
    /\ pc[a] = "refreshing"
    /\ \/ Matches(a) /\ Put(a, "held", "wrote")
       \/ ~Matches(a) /\ Goto(a, "held") /\ UNCHANGED <<lock, handle>>

\* ensure_held(): the fence before a publish; LeaseFencedError unwinds the
\* context manager.
FenceRead(a) ==
    /\ pc[a] = "held"
    /\ Goto(a, IF owner = a /\ live THEN "fencing" ELSE "closing")
    /\ UNCHANGED <<lock, handle>>

\* Mutant: a failed precondition is a no-op, as it is in refresh.
FenceSwapLenient(a) ==
    /\ pc[a] = "fencing"
    /\ \/ Matches(a) /\ Put(a, "held", "wrote")
       \/ ~Matches(a) /\ Goto(a, "held") /\ UNCHANGED <<lock, handle>>

FenceSwap(a) ==
    /\ pc[a] = "fencing"
    /\ \/ Matches(a) /\ Put(a, "held", "wrote")
       \/ ~Matches(a) /\ Goto(a, "closing") /\ UNCHANGED <<lock, handle>>

\* The body of the context manager ends or raises, then release().
Leave(a) ==
    /\ pc[a] = "held"
    /\ Goto(a, "closing")
    /\ UNCHANGED <<lock, handle>>

ReleaseRead(a) ==
    /\ pc[a] = "closing"
    /\ Goto(a, IF owner = a THEN "releasing" ELSE "done")
    /\ UNCHANGED <<lock, handle>>

\* delete_if_match(lease.version)
ReleaseDelete(a) ==
    /\ pc[a] = "releasing"
    /\ owner' = IF Matches(a) THEN NoOne ELSE owner
    /\ Goto(a, "done")
    /\ UNCHANGED <<version, live, lapsed, handle>>

-----------------------------------------------------------------------------
\* The worker process dies: its lock object stays in the lake.
Crash(a) ==
    /\ pc[a] \notin Ended
    /\ Goto(a, "dead")
    /\ UNCHANGED <<lock, handle>>

\* expires_at <= now becomes true.
Expire ==
    /\ owner # NoOne /\ live
    /\ live' = FALSE
    /\ lapsed' = TRUE
    /\ UNCHANGED <<owner, version, pc, handle>>

\* det lock-release --force: read the payload, then unlink whatever is there.
ForceRead ==
    /\ operator = "idle" /\ owner # NoOne
    /\ operator' = "confirmed"
    /\ UNCHANGED <<lock, pc, ver, seen>>

ForceUnlink ==
    /\ operator = "confirmed"
    /\ operator' = "idle"
    /\ owner' = NoOne
    /\ UNCHANGED <<version, live, lapsed, pc, ver, seen>>

Step(a) ==
    \/ Create(a) \/ StealRead(a) \/ StealVersion(a) \/ StealRecheck(a)
    \/ StealSwap(a) \/ LookUpVersion(a) \/ RefreshRead(a) \/ RefreshSwap(a)
    \/ FenceRead(a) \/ FenceSwap(a) \/ Leave(a) \/ ReleaseRead(a)
    \/ ReleaseDelete(a) \/ Crash(a)

Next == (\E a \in Attempt : Step(a)) \/ Expire \/ ForceRead \/ ForceUnlink

Spec == Init /\ [][Next]_vars

-----------------------------------------------------------------------------
\* A conditional write or delete that is about to be let through by its
\* version is one on the lock the handle's token still owns, although that
\* token was compared in an earlier step and, on gs, the version itself was
\* looked up after a put and may be a later writer's.
Committing == {"refreshing", "fencing", "releasing"}

SwapsOwnLockOnly ==
    \A a \in Attempt : pc[a] \in Committing /\ Matches(a) => owner = a

\* What a stealer goes by: the token it read belonged to a lease that had
\* lapsed, and a swap its version lets through replaces that very lease.
Stealing == {"stealVersion", "stealRecheck", "stealSwap"}

StealersSawLapsed ==
    \A a \in Attempt :
        /\ pc[a] \in Stealing => seen[a] # NoOne /\ (owner = seen[a] => lapsed)
        /\ pc[a] = "stealSwap" /\ Matches(a) => owner = seen[a]

\* A token in the lock object, or read by a stealer, was put there by an
\* attempt that is past acquiring, so no later acquire brings it back.
TokensAreSpent ==
    /\ owner # NoOne => pc[owner] \notin Acquiring
    /\ \A a \in Attempt : seen[a] # NoOne => pc[seen[a]] \notin Acquiring

ExpiredHasLapsed == owner # NoOne /\ ~live => lapsed

IInv ==
    /\ TypeOK
    /\ SwapsOwnLockOnly
    /\ StealersSawLapsed
    /\ TokensAreSpent
    /\ ExpiredHasLapsed

\* A token that left the lock object never comes back: neither refresh, nor
\* the fence, nor a slow steal resurrects an attempt that lost its lease.
LostForGood ==
    [][\A a \in Attempt : pc[a] \notin Acquiring /\ owner # a => owner' # a]_vars

\* A fence that passes was passed by the owner, and leaves a live lock.
FencePassed(a) == pc[a] = "fencing" /\ pc'[a] \in {"held", "wrote"}

FencePassesOwner ==
    [][\A a \in Attempt : FencePassed(a) => owner = a /\ owner' = a /\ live']_vars

\* A lock changes hands without a release only if the loser's deadline had
\* passed at some time in its tenure (the token re-check is what ensures it).
Stolen == owner # NoOne /\ owner' # NoOne /\ owner' # owner

StealsLapsedOnly == [][Stolen => lapsed]_vars

\* The lake store keeps the contract of a lease, in its weaker form.
Contract == INSTANCE LeaseContract WITH
    Strict <- FALSE,
    spent <- {a \in Attempt : pc[a] \notin Acquiring}

KeepsLeaseContract == Contract!Spec
=============================================================================
