------------------------- MODULE PostgresDatasetLock -------------------------
(***************************************************************************)
(* The bronze-dataset reader/writer lock in Postgres                       *)
(* (PostgresDatasetLockStore): one row with the exclusive holder and the   *)
(* waiting writer's intent, one row per shared holder.                     *)
(*                                                                         *)
(* Acquiring and fencing run under an advisory lock, so that each is one   *)
(* step: expired entries are pruned, the rest is read, the outcome is      *)
(* written.  Pruning goes by NOW(), the time when the transaction began,   *)
(* before it waited for the advisory lock; an exclusive entry or an intent *)
(* that is still there is compared with the client's clock when it is      *)
(* read.  `late` are the entries whose deadline passed in between: any of  *)
(* those that are overdue, since the model does not keep how long ago a    *)
(* deadline passed.  The clocks of database and clients agree.             *)
(***************************************************************************)
EXTENDS BronzeWorkers

VARIABLES
    exclusive,   \* the token in the exclusive columns
    intent,      \* the token of the last writer that found readers
    shared,      \* the tokens of the shared rows
    lockDue,     \* the tokens whose own deadline has passed
    intentDue    \* the intent's deadline has passed

entries == <<exclusive, intent, shared, intentDue>>
lockVars == <<entries, lockDue>>

LockTypeOK ==
    /\ exclusive \in Worker \cup {NoOne}
    /\ intent \in Worker \cup {NoOne}
    /\ shared \subseteq Worker
    /\ lockDue \subseteq Worker
    /\ intentDue \in BOOLEAN

LockInit ==
    /\ exclusive = NoOne /\ intent = NoOne /\ shared = {}
    /\ lockDue = {} /\ intentDue = FALSE

-----------------------------------------------------------------------------
\* What is live by the clock.
LiveExclusive == IF exclusive \in lockDue THEN NoOne ELSE exclusive
LiveIntent == IF intentDue THEN NoOne ELSE intent
LiveShared == shared \ lockDue

\* The overdue tokens with an entry.
Lapsed == lockDue \cap ({exclusive} \cup shared)

\* The entries that _prune_expired leaves.  An intent that it leaves although
\* it has expired is seen by nobody and renewed by nobody, so that it may as
\* well be pruned.
Left(late) == (Worker \ lockDue) \cup late
LeftExclusive(late) == IF exclusive \in Left(late) THEN exclusive ELSE NoOne
LeftShared(late) == shared \cap Left(late)

\* Commit the lock's new content; `due` are the tokens that stay overdue.
Store(ex, in, sh, due) ==
    /\ exclusive' = ex /\ intent' = in /\ shared' = sh
    /\ intentDue' = (in # NoOne /\ in = intent /\ intentDue)
    /\ lockDue' = due

\* Overdue tokens that still have, or may still get, an entry.
StillDue(late) == (lockDue \ Lapsed) \cup late

\* `_prune_expired` and nothing else.
Prune(late) ==
    Store(LeftExclusive(late), LiveIntent, LeftShared(late), StillDue(late))

\* The body lists the exclusive holder and the intent by the client's clock.
SharedRefused == LiveExclusive # NoOne \/ LiveIntent # NoOne

\* Mutant: only a waiting writer is respected.
AcquireSharedBeside(w, late) ==
    /\ LiveIntent = NoOne
    /\ Store(LeftExclusive(late), LiveIntent, LeftShared(late) \cup {w},
             StillDue(late) \ {w})

AcquireShared(w, late) ==
    /\ ~SharedRefused
    /\ Store(LeftExclusive(late), LiveIntent, LeftShared(late) \cup {w},
             StillDue(late) \ {w})

\* acquire_exclusive() while there are readers: announce, and wait.  The list
\* of readers, unlike the rest of the body, goes by NOW().
AnnounceIntent(w, late) ==
    /\ LeftShared(late) # {}
    /\ exclusive' = LeftExclusive(late) /\ shared' = LeftShared(late)
    /\ intent' = w /\ intentDue' = FALSE
    /\ lockDue' = StillDue(late)

ExclusiveFree(late) == LeftShared(late) = {} /\ LiveExclusive = NoOne
ExclusiveRefused(late) == LeftShared(late) = {} /\ LiveExclusive # NoOne

\* The deadline was computed before the wait: it may have passed already.
AcquireExclusive(w, late) ==
    /\ ExclusiveFree(late)
    /\ Store(w, NoOne, LeftShared(late), (lockDue \ Lapsed) \cup (late \cap shared))

\* Refused: the transaction is rolled back, and the deadline was for nothing.
RollBack(w) ==
    /\ lockDue' = lockDue \ {w}
    /\ UNCHANGED entries

\* A writer that stops waiting takes back its own intent only.
WithdrawIntent(w) ==
    /\ intent' = IF intent = w THEN NoOne ELSE intent
    /\ intentDue' = (intent # w /\ intentDue)
    /\ lockDue' = lockDue \ {w}
    /\ UNCHANGED <<exclusive, shared>>

-----------------------------------------------------------------------------
InLock(w) == exclusive = w \/ w \in shared

\* refresh(): by token, whatever the deadline, outside the advisory lock.
RefreshLock(w) ==
    /\ lockDue' = IF InLock(w) THEN lockDue \ {w} ELSE lockDue
    /\ UNCHANGED entries

\* Mutant: the fence trusts the handle.
LockTrusted(w, late) == TRUE

\* ensure_held(): the entry survives the pruning, and is renewed.
LockHeld(w, late) == InLock(w) /\ w \in Left(late)

FencePasses(w, late) ==
    /\ LockHeld(w, late)
    /\ Store(LeftExclusive(late), LiveIntent, LeftShared(late), StillDue(late) \ {w})

\* A refresh and the fence right after it.
RefreshAndFence(w, late) ==
    /\ InLock(w)
    /\ LET kept == late \cup {w}
       IN  Store(LeftExclusive(kept), LiveIntent, LeftShared(kept), StillDue(late) \ {w})

ReleaseLock(w) ==
    /\ exclusive' = IF exclusive = w THEN NoOne ELSE exclusive
    /\ shared' = shared \ {w}
    /\ lockDue' = lockDue \ {w}
    /\ UNCHANGED <<intent, intentDue>>

\* force_release() deletes the row, and the shared rows with it.
ForceDeleteLock ==
    /\ LiveExclusive # NoOne \/ LiveIntent # NoOne \/ LiveShared # {}
    /\ exclusive' = NoOne /\ intent' = NoOne /\ shared' = {}
    /\ intentDue' = FALSE
    /\ lockDue' = lockDue \ Lapsed

LockDeadlinePasses(w) ==
    /\ w \notin lockDue
    /\ lockDue' = lockDue \cup {w}
    /\ UNCHANGED entries

IntentDeadlinePasses ==
    /\ intent # NoOne /\ ~intentDue
    /\ intentDue' = TRUE
    /\ UNCHANGED <<exclusive, intent, shared, lockDue>>
=============================================================================
