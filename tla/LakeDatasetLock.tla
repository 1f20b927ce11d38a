--------------------------- MODULE LakeDatasetLock ---------------------------
(***************************************************************************)
(* The bronze-dataset reader/writer lock kept as one JSON object in the    *)
(* lake (LakeDatasetLockStore), with the context managers that use it.     *)
(*                                                                         *)
(* The body holds the exclusive holder, the token of an exclusive acquirer *)
(* waiting for readers to drain (exclusive_intent) and the shared holders, *)
(* each with a deadline of its own.  A handle reads the body, prunes what  *)
(* has expired, computes the body it wants (`plan`) and writes it under a  *)
(* version precondition.  Each remote operation is one step.               *)
(***************************************************************************)
EXTENDS FiniteSets, Integers

CONSTANTS
    Shared,       \* attempts at the shared lock, each with its token
    Exclusive,    \* attempts at the exclusive lock
    NoOne,
    Wait,         \* acquire_exclusive(wait=...)
    WaitSecEnv    \* DET_DATASET_LOCK_WAIT_SEC

Attempt == Shared \cup Exclusive

ASSUME ConstantsAssumption ==
    /\ Shared \cap Exclusive = {}
    /\ NoOne \notin Attempt
    /\ Wait \in BOOLEAN
    /\ WaitSecEnv \in Nat

VARIABLES
    exists,    \* the lock object is there
    body,      \* its exclusive holder, exclusive_intent and shared holders
    expired,   \* the tokens whose last written deadline has passed
    pc,
    plan,      \* the body a handle is about to write
    ver        \* the version each handle will write under: "none" yet, the
               \* object's "current" one, or a "stale" one, which is never the
               \* object's again (etags, generations and stamps are unique)

vars == <<exists, body, expired, pc, plan, ver>>
object == <<exists, body>>

Body == [exclusive : Attempt \cup {NoOne}, intent : Attempt \cup {NoOne},
         shared : SUBSET Attempt]

EmptyBody == [exclusive |-> NoOne, intent |-> NoOne, shared |-> {}]

Acquiring == {"idle", "retry", "version", "swap", "poll", "giveUp",
              "clearVersion", "clearSwap"}
Holding   == {"acquired", "held", "refreshSwap", "fenceSwap", "refreshAgain",
              "fenceAgain", "refreshLook", "fenceLook",
              "leaving", "releaseVersion", "lateSwap", "releaseSwap", "releaseLook"}
Ended     == {"refused", "done", "dead"}

TypeOK ==
    /\ exists \in BOOLEAN
    /\ body \in Body
    /\ expired \subseteq Attempt
    /\ pc \in [Attempt -> Acquiring \cup Holding \cup Ended]
    /\ plan \in [Attempt -> Body]
    /\ ver \in [Attempt -> {"none", "current", "stale"}]

Init ==
    /\ exists = FALSE
    /\ body = EmptyBody
    /\ expired = {}
    /\ pc = [a \in Attempt |-> "idle"]
    /\ plan = [a \in Attempt |-> EmptyBody]
    /\ ver = [a \in Attempt |-> "none"]

-----------------------------------------------------------------------------
Live(t) == IF t \in expired THEN NoOne ELSE t

\* The body with expired entries removed, as every reader sees it.
Pruned(b) == [exclusive |-> Live(b.exclusive), intent |-> Live(b.intent),
              shared |-> b.shared \ expired]

\* What a read of the lock object returns, once pruned.
Found == IF exists THEN Pruned(body) ELSE EmptyBody

Has(b, a) == b.exclusive = a \/ a \in b.shared

\* The bodies in which a token can still be: the lock's and those to be written.
Pending == {body} \cup {plan[a] : a \in Attempt}
Mentions(b, t) == Has(b, t) \/ b.intent = t

\* A write or a delete outdates every version that is known.
Outdated == [a \in Attempt |-> IF ver[a] = "current" THEN "stale" ELSE ver[a]]

Goto(a, label) == pc' = [pc EXCEPT ![a] = label]

\* Reset what a handle no longer needs, so that equal states are equal.
Forget(a) == plan' = [plan EXCEPT ![a] = EmptyBody]

Matches(a) == ver[a] = "current"

\* The conditional write of plan[a] takes effect; `renews` says that it
\* carries a new deadline for `a` itself.
Put(a, renews) ==
    /\ exists' = TRUE
    /\ body' = plan[a]
    /\ ver' = [Outdated EXCEPT ![a] = "current"]
    /\ expired' = IF renews THEN expired \ {a} ELSE expired
    /\ Forget(a)

\* create_exclusive when the read found no object, replace_if_match else.
WriteAllowed(a) == Matches(a) \/ (ver[a] = "none" /\ ~exists)

-----------------------------------------------------------------------------
\* Mutant: only a waiting writer is respected, not one that holds the lock.
SharedReadIgnoresHolder(a) ==
    /\ a \in Shared /\ pc[a] \in {"idle", "retry"}
    /\ ver' = [ver EXCEPT ![a] = "none"]
    /\ IF Found.intent # NoOne
         THEN Goto(a, "refused") /\ plan' = plan
         ELSE /\ plan' = [plan EXCEPT ![a] = [Found EXCEPT !.shared = @ \cup {a}]]
              /\ Goto(a, IF exists THEN "version" ELSE "swap")
    /\ UNCHANGED <<object, expired>>

\* Mutant: an acquirer that waits is not respected.
SharedReadIgnoresIntent(a) ==
    /\ a \in Shared /\ pc[a] \in {"idle", "retry"}
    /\ ver' = [ver EXCEPT ![a] = "none"]
    /\ IF Found.exclusive # NoOne
         THEN Goto(a, "refused") /\ plan' = plan
         ELSE /\ plan' = [plan EXCEPT ![a] = [Found EXCEPT !.shared = @ \cup {a}]]
              /\ Goto(a, IF exists THEN "version" ELSE "swap")
    /\ UNCHANGED <<object, expired>>

\* acquire_shared(): refused at once by an exclusive holder or by a waiting one.
SharedRead(a) ==
    /\ a \in Shared /\ pc[a] \in {"idle", "retry"}
    /\ ver' = [ver EXCEPT ![a] = "none"]
    /\ IF Found.exclusive # NoOne \/ Found.intent # NoOne
         THEN Goto(a, "refused") /\ plan' = plan
         ELSE /\ plan' = [plan EXCEPT ![a] = [Found EXCEPT !.shared = @ \cup {a}]]
              /\ Goto(a, IF exists THEN "version" ELSE "swap")
    /\ UNCHANGED <<object, expired>>

\* acquire_exclusive(): wait behind an exclusive holder, announce the intent
\* to readers that are still there, or take the lock.  Somebody else's intent
\* is neither respected nor kept.
ExclusiveRead(a) ==
    /\ a \in Exclusive /\ pc[a] \in {"idle", "retry"}
    /\ ver' = [ver EXCEPT ![a] = "none"]
    /\ \/ /\ Found.exclusive # NoOne \/ (Found.shared # {} /\ ~Wait)
          /\ Goto(a, "poll") /\ plan' = plan
       \/ /\ Found.exclusive = NoOne /\ Found.shared # {} /\ Wait
          /\ plan' = [plan EXCEPT ![a] = [Found EXCEPT !.intent = a]]
          /\ Goto(a, "version")
       \/ /\ Found.exclusive = NoOne /\ Found.shared = {}
          /\ plan' = [plan EXCEPT ![a] = [EmptyBody EXCEPT !.exclusive = a]]
          /\ Goto(a, IF exists THEN "version" ELSE "swap")
    /\ UNCHANGED <<object, expired>>

\* version = path.object_version(), taken after the body was read.
LookUpVersion(a) ==
    /\ pc[a] \in {"version", "clearVersion"}
    /\ IF exists
         THEN /\ ver' = [ver EXCEPT ![a] = "current"]
              /\ Goto(a, IF pc[a] = "version" THEN "swap" ELSE "clearSwap")
              /\ plan' = plan
         ELSE Goto(a, "refused") /\ Forget(a) /\ ver' = ver
    /\ UNCHANGED <<object, expired>>

\* replace_lock_if_match(); a conflict starts over, up to 50 times in a row.
AcquireSwap(a) ==
    /\ pc[a] = "swap"
    /\ \/ /\ WriteAllowed(a)
          /\ Put(a, TRUE)
          /\ Goto(a, IF Has(plan[a], a) THEN "acquired" ELSE "poll")
       \/ /\ ~WriteAllowed(a)
          /\ \/ Goto(a, "retry")
             \/ Goto(a, IF a \in Shared THEN "refused" ELSE "poll")
          /\ Forget(a)
          /\ UNCHANGED <<object, expired, ver>>

\* The exclusive acquirer sleeps and tries again, or stops waiting.
NoDeadline == -1
ResolveWaitSec == IF WaitSecEnv = 0 THEN NoDeadline ELSE WaitSecEnv

Poll(a) ==
    /\ pc[a] = "poll"
    /\ \/ Wait /\ Goto(a, "retry")
       \/ (~Wait \/ ResolveWaitSec # NoDeadline) /\ Goto(a, "giveUp")
    /\ UNCHANGED <<object, expired, plan, ver>>

\* _clear_exclusive_intent_if_owned(), then LeaseHeldError.
GiveUpRead(a) ==
    /\ pc[a] = "giveUp"
    /\ IF Found.intent = a
         THEN /\ plan' = [plan EXCEPT ![a] = [Found EXCEPT !.intent = NoOne]]
              /\ Goto(a, "clearVersion")
         ELSE Goto(a, "refused") /\ plan' = plan
    /\ UNCHANGED <<object, expired, ver>>

ClearSwap(a) ==
    /\ pc[a] = "clearSwap"
    /\ \/ Matches(a) /\ Put(a, FALSE) /\ Goto(a, "refused")
       \/ /\ ~Matches(a)
          /\ Goto(a, "giveUp") \/ Goto(a, "refused")
          /\ Forget(a)
          /\ UNCHANGED <<object, expired, ver>>

-----------------------------------------------------------------------------
\* refresh() and ensure_held(): renew the handle's own entry.  They differ in
\* what follows when the entry is gone, or when no version is known.
Swapping == [refresh |-> "refreshSwap", fence |-> "fenceSwap"]
Looking  == [refresh |-> "refreshLook", fence |-> "fenceLook"]
Reread   == [refresh |-> "refreshAgain", fence |-> "fenceAgain"]
Fails    == [refresh |-> "held", fence |-> "leaving"]
Kind     == {"refresh", "fence"}

RenewRead(a, k) ==
    /\ \/ pc[a] \in {"held", Reread[k]}
       \/ k = "refresh" /\ pc[a] = "acquired"
    /\ IF Has(Found, a) /\ ver[a] # "none"
         THEN plan' = [plan EXCEPT ![a] = Found] /\ Goto(a, Swapping[k])
         ELSE plan' = plan /\ Goto(a, Fails[k])
    /\ UNCHANGED <<object, expired, ver>>

\* Mutant: a conflict is left to the next heartbeat.
RenewSwapLenient(a, k) ==
    /\ pc[a] = Swapping[k]
    /\ \/ Matches(a) /\ Put(a, TRUE) /\ Goto(a, "held")
       \/ /\ ~Matches(a)
          /\ Goto(a, "held") /\ Forget(a)
          /\ UNCHANGED <<object, expired, ver>>

RenewSwap(a, k) ==
    /\ pc[a] = Swapping[k]
    /\ \/ Matches(a) /\ Put(a, TRUE) /\ Goto(a, "held")
       \/ /\ ~Matches(a)
          /\ Goto(a, Looking[k]) \/ Goto(a, Fails[k])
          /\ Forget(a)
          /\ UNCHANGED <<object, expired, ver>>

\* After a conflict the version is looked up before the body is read again.
HandleVersion(a) == ver' = [ver EXCEPT ![a] = IF exists THEN "current" ELSE "none"]

RenewLook(a, k) ==
    /\ pc[a] = Looking[k]
    /\ HandleVersion(a)
    /\ Goto(a, Reread[k])
    /\ UNCHANGED <<object, expired, plan>>

\* The body of the context manager ends or raises.
Leave(a) ==
    /\ pc[a] = "held"
    /\ Goto(a, "leaving")
    /\ UNCHANGED <<object, expired, plan, ver>>

Without(b, a) == [b EXCEPT !.exclusive = IF @ = a THEN NoOne ELSE @, !.shared = @ \ {a}]

\* release(): take the own entry out, delete the object with the last entry.
ReleaseRead(a) ==
    /\ pc[a] = "leaving"
    /\ IF Has(Found, a)
         THEN /\ plan' = [plan EXCEPT ![a] = Without(Found, a)]
              /\ Goto(a, IF ver[a] = "none" THEN "releaseVersion" ELSE "releaseSwap")
         ELSE plan' = plan /\ Goto(a, "done")
    /\ UNCHANGED <<object, expired, ver>>

ReleaseVersion(a) ==
    /\ pc[a] = "releaseVersion"
    /\ HandleVersion(a)
    /\ IF exists
         THEN Goto(a, "lateSwap") /\ plan' = plan
         ELSE Goto(a, "done") /\ Forget(a)
    /\ UNCHANGED <<object, expired>>

\* Mutant: on a conflict the same body is written under the new version.
ReleaseSwapRetry(a) ==
    /\ pc[a] \in {"releaseSwap", "lateSwap"}
    /\ \/ /\ Matches(a) /\ plan[a] # EmptyBody
          /\ Put(a, FALSE)
          /\ Goto(a, "done")
       \/ /\ Matches(a) /\ plan[a] = EmptyBody
          /\ exists' = FALSE /\ body' = EmptyBody
          /\ Goto(a, "done") /\ Forget(a)
          /\ ver' = Outdated
          /\ expired' = expired
       \/ /\ ~Matches(a) /\ exists
          /\ ver' = [ver EXCEPT ![a] = "current"]
          /\ UNCHANGED <<object, expired, pc, plan>>

ReleaseSwap(a) ==
    /\ pc[a] \in {"releaseSwap", "lateSwap"}
    /\ \/ /\ Matches(a) /\ plan[a] # EmptyBody
          /\ Put(a, FALSE)
          /\ Goto(a, "done")
       \/ /\ Matches(a) /\ plan[a] = EmptyBody
          /\ exists' = FALSE /\ body' = EmptyBody
          /\ Goto(a, "done") /\ Forget(a)
          /\ ver' = Outdated
          /\ expired' = expired
       \/ /\ ~Matches(a)
          /\ Goto(a, "releaseLook") \/ Goto(a, "done")
          /\ Forget(a)
          /\ UNCHANGED <<object, expired, ver>>

ReleaseLook(a) ==
    /\ pc[a] = "releaseLook"
    /\ HandleVersion(a)
    /\ Goto(a, "leaving")
    /\ UNCHANGED <<object, expired, plan>>

-----------------------------------------------------------------------------
\* The program is run again.  Each attempt has a token of its own, so that the
\* name of an ended one stands for a new token once no body has the old one.
Again(a) ==
    /\ pc[a] \in Ended
    /\ \A b \in Pending : ~Mentions(b, a)
    /\ Goto(a, "idle")
    /\ ver' = [ver EXCEPT ![a] = "none"]
    /\ expired' = expired \ {a}
    /\ UNCHANGED <<object, plan>>

Crash(a) ==
    /\ pc[a] \notin Ended
    /\ Goto(a, "dead") /\ Forget(a)
    /\ UNCHANGED <<object, expired, ver>>

\* The last deadline written for an entry passes.
Expire(t) ==
    /\ t \notin expired
    /\ \E b \in Pending : Mentions(b, t)
    /\ expired' = expired \cup {t}
    /\ UNCHANGED <<object, pc, plan, ver>>

\* det lock-release --dataset-id --force unlinks whatever is there.
ForceRelease ==
    /\ exists
    /\ exists' = FALSE /\ body' = EmptyBody
    /\ ver' = Outdated
    /\ UNCHANGED <<expired, pc, plan>>

Acquire(a) ==
    \/ SharedRead(a) \/ ExclusiveRead(a) \/ LookUpVersion(a) \/ AcquireSwap(a)
    \/ Poll(a) \/ GiveUpRead(a) \/ ClearSwap(a)

Hold(a) ==
    \/ \E k \in Kind : RenewRead(a, k) \/ RenewSwap(a, k) \/ RenewLook(a, k)
    \/ Leave(a) \/ ReleaseRead(a) \/ ReleaseVersion(a) \/ ReleaseSwap(a)
    \/ ReleaseLook(a)

Next ==
    \/ \E a \in Attempt : Acquire(a) \/ Hold(a) \/ Crash(a) \/ Expire(a) \/ Again(a)
    \/ ForceRelease

Spec == Init /\ [][Next]_vars

\* A holder ends its work, deadlines pass, and an exclusive acquirer keeps
\* trying, whose conditional write is not beaten by other writes for ever.
Fairness ==
    /\ \A a \in Shared : SF_vars(Leave(a)) /\ WF_vars(Expire(a))
    /\ \A a \in Exclusive :
         WF_vars(Acquire(a) /\ pc[a] # "idle") /\ SF_vars(AcquireSwap(a) /\ WriteAllowed(a))

FairSpec == Spec /\ Fairness

-----------------------------------------------------------------------------
\* The lock object never names both an exclusive holder and readers, so that
\* of two conflicting handles at most one can still pass its fence.
ReadersOrWriter == body.exclusive = NoOne \/ body.shared = {}

\* A holder's conditional write that its version lets through, be it a
\* heartbeat, a fence or a release, drops no live entry but its own and brings
\* no ended one back, although the body it was computed from was read in an
\* earlier step.  Excepted is a release that looks its version up after that
\* read ("lateSwap"), as one does whose handle has lost track of the object.
HolderSwaps == {"refreshSwap", "fenceSwap", "releaseSwap"}

KeepsOthers(a, read) ==
    /\ Pruned(body).exclusive \in {read.exclusive, a, NoOne}
    /\ read.exclusive \in {body.exclusive, NoOne}
    /\ Pruned(body).intent \in {read.intent, NoOne}
    /\ read.intent \in {body.intent, NoOne}
    /\ Pruned(body).shared \ {a} \subseteq read.shared
    /\ read.shared \subseteq body.shared

HoldersKeepOthers ==
    \A a \in Attempt :
        pc[a] \in HolderSwaps /\ Matches(a) => KeepsOthers(a, plan[a])

\* A fence that passes finds its handle in the lock, and leaves it there.
FencePassed(a) == pc[a] = "fenceSwap" /\ pc'[a] = "held"
FencePassesHolder ==
    [][\A a \in Attempt :
         FencePassed(a) => Has(body, a) /\ Has(body', a) /\ a \notin expired']_vars

\* An exclusive acquirer that waits gets the lock, or stops trying: readers
\* leave or expire, and while its intent stands no reader gets in behind it,
\* however often readers come back.  The one exception is an intent that is
\* lost again and again, by expiry between two polls, a forced release or an
\* acquirer that had read the body before.
LosesIntent(a) == Live(body.intent) = a /\ Live(body.intent)' # a /\ pc'[a] # "acquired"

WriterGetsIn ==
    \A a \in Exclusive :
        \/ pc[a] = "poll" ~> pc[a] \in {"acquired", "refused", "dead"}
        \/ []<><<LosesIntent(a)>>_vars
=============================================================================
