---------------------------- MODULE LakeApproval ----------------------------
(***************************************************************************)
(* One approval in the lake store: a record that is only ever replaced at  *)
(* the version that was read, and a .claim file beside it.                 *)
(*                                                                         *)
(* Command-line runs claim it, write, and consume it, with a heartbeat     *)
(* thread in between; Airflow tasks check it, write, and consume it;       *)
(* operators release the claims of runs they know to be dead.  Every load  *)
(* is two steps, the version before the bytes.  A run or an operator may   *)
(* stop between any two steps.                                             *)
(***************************************************************************)
CONSTANTS
    Run,        \* det commands started with this --approval
    Task,       \* Airflow tasks with this approval in their conf
    Operator,   \* det approval-release --force
    NoOne

ASSUME ActorsAssumption ==
    /\ Run \cap Task = {} /\ Run \cap Operator = {} /\ Task \cap Operator = {}
    /\ NoOne \notin Run

VARIABLES
    status,     \* of the record
    holder,     \* its claimed_by
    claim,      \* who created the .claim file, NoOne if there is none
    expired,    \* expires_at is in the past
    fresh,      \* actors whose loaded version is still the record's
    freshBeat,  \* runs whose heartbeat's loaded version is
    retried,    \* actors in the second try of a consume or release
    beat,       \* where the heartbeat of each run is
    evicted,    \* history: runs whose claim was released while they lived
    pc

record == <<status, holder>>
versions == <<fresh, freshBeat>>
vars == <<record, claim, expired, versions, retried, beat, evicted, pc>>

Worker == Run \cup Task
Actor == Worker \cup Operator

Claiming == {"claim", "claimRead", "claimFile", "claimSwap", "claimUndo"}
Consuming == {"consume", "consumeRead", "consumeSwap"}
Used == {"unlink", "done"}
Failed == {"refused", "failed", "conflict"}
Releasing == {"release", "releaseRead", "releaseSwap", "releaseUnlink",
              "orphanLook", "orphanUnlink"}
Touching == {"read", "swap", "again", "reread", "reswap"}

TypeOK ==
    /\ status \in {"unused", "claimed", "consumed"}
    /\ holder \in Run \cup {NoOne} /\ claim \in Run \cup {NoOne}
    /\ (status = "claimed") => (holder \in Run)
    /\ expired \in BOOLEAN
    /\ fresh \subseteq Actor /\ freshBeat \subseteq Run
    /\ retried \subseteq Actor
    /\ beat \in [Run -> {"off", "idle"} \cup Touching]
    /\ evicted \subseteq Run
    /\ pc \in [Actor -> {"idle", "write", "dead"} \cup Claiming \cup Consuming
                           \cup Used \cup Failed \cup Releasing]
    /\ \A t \in Task : pc[t] \notin Claiming \cup Releasing
    /\ \A r \in Run : pc[r] \notin Releasing
    /\ \A o \in Operator : pc[o] \in {"idle", "dead"} \cup Releasing

Init ==
    /\ status = "unused" /\ holder = NoOne
    /\ claim = NoOne
    /\ expired = FALSE
    /\ fresh = {} /\ freshBeat = {}
    /\ retried = {}
    /\ beat = [r \in Run |-> "off"]
    /\ evicted = {}
    /\ pc = [a \in Actor |-> "idle"]

\* Mutant: the TTL does not gate claiming.
EffectiveUntimed == status

\* effective_status: the TTL ages an unused record only.
Effective == IF status = "unused" /\ expired THEN "expired" ELSE status

-----------------------------------------------------------------------------
(* The versioned record.                                                   *)

Goto(a, place) == pc' = [pc EXCEPT ![a] = place]

TakeVersion(a) == fresh' = fresh \cup {a} /\ UNCHANGED freshBeat

Drop(a) == fresh' = fresh \ {a} /\ UNCHANGED freshBeat

\* A write that succeeds makes every version loaded before it stale.
Put(s, h) ==
    /\ status' = s /\ holder' = h
    /\ fresh' = {} /\ freshBeat' = {}

\* Mutants: a plain overwrite in place of the swap.
CurrentUnchecked(a) == TRUE
CurrentBeatUnchecked(r) == TRUE

Current(a) == a \in fresh
CurrentBeat(r) == r \in freshBeat

\* Mutant: one try only.
ConflictAtOnce(a, again, end) ==
    /\ ~Current(a)
    /\ Goto(a, end)
    /\ UNCHANGED <<record, versions, retried>>

\* A swap that lost: once more from the load, then give up.
Conflict(a, again, end) ==
    /\ ~Current(a)
    /\ IF a \in retried
         THEN Goto(a, end) /\ retried' = retried \ {a}
         ELSE Goto(a, again) /\ retried' = retried \cup {a}
    /\ UNCHANGED <<record, versions>>

-----------------------------------------------------------------------------
(* Check and claim.                                                        *)

\* A command goes on to claim; an Airflow task goes straight to its write.
Check(w) ==
    /\ pc[w] = "idle"
    /\ Goto(w, IF Effective # "unused" THEN "refused"
               ELSE IF w \in Run THEN "claim" ELSE "write")
    /\ UNCHANGED <<record, claim, expired, versions, retried, beat, evicted>>

ClaimVersion(r) ==
    /\ pc[r] = "claim"
    /\ TakeVersion(r)
    /\ Goto(r, "claimRead")
    /\ UNCHANGED <<record, claim, expired, retried, beat, evicted>>

ClaimRead(r) ==
    /\ pc[r] = "claimRead"
    /\ IF Effective = "unused"
         THEN Goto(r, "claimFile") /\ UNCHANGED versions
         ELSE Goto(r, "refused") /\ Drop(r)
    /\ UNCHANGED <<record, claim, expired, retried, beat, evicted>>

ClaimFile(r) ==
    /\ pc[r] = "claimFile"
    /\ IF claim = NoOne
         THEN claim' = r /\ Goto(r, "claimSwap") /\ UNCHANGED versions
         ELSE Goto(r, "refused") /\ Drop(r) /\ UNCHANGED claim
    /\ UNCHANGED <<record, expired, retried, beat, evicted>>

\* The write may lose, or fail in the store.
ClaimSwap(r) ==
    /\ pc[r] = "claimSwap"
    /\ \/ /\ Current(r)
          /\ Put("claimed", r)
          /\ Goto(r, "write")
          /\ beat' = [beat EXCEPT ![r] = "idle"]
       \/ /\ Drop(r)
          /\ Goto(r, "claimUndo")
          /\ UNCHANGED <<record, beat>>
    /\ UNCHANGED <<claim, expired, retried, evicted>>

ClaimUndo(r) ==
    /\ pc[r] = "claimUndo"
    /\ claim' = NoOne
    /\ Goto(r, "refused")
    /\ UNCHANGED <<record, expired, versions, retried, beat, evicted>>

-----------------------------------------------------------------------------
(* The write and its heartbeat.                                            *)

\* A command consumes after its heartbeat has been told to stop (extract, load,
\* prune, the registers, plan) or before (dbt, scaffolds, migrate, lock-release).
WriteEnds(w) ==
    /\ pc[w] = "write"
    /\ Goto(w, "consume")
    /\ \/ UNCHANGED beat
       \/ w \in Run /\ beat[w] = "idle" /\ beat' = [beat EXCEPT ![w] = "off"]
    /\ UNCHANGED <<record, claim, expired, versions, retried, evicted>>

WriteFails(w) ==
    /\ pc[w] = "write"
    /\ Goto(w, "failed")
    /\ beat' = IF w \in Run /\ beat[w] = "idle" THEN [beat EXCEPT ![w] = "off"] ELSE beat
    /\ UNCHANGED <<record, claim, expired, versions, retried, evicted>>

\* Touches of one run are an interval apart, which no consume lasts: at most
\* one ends while it is under way.
TouchEnds(r) ==
    beat' = [beat EXCEPT ![r] = IF pc[r] = "write" THEN "idle" ELSE "off"]

\* stop.set() keeps a new touch from starting, not one under way from writing.
TouchVersion(r) ==
    /\ \/ beat[r] = "idle" /\ pc[r] \in {"write", "unlink"} \cup Consuming
          /\ beat' = [beat EXCEPT ![r] = "read"]
       \/ beat[r] = "again" /\ beat' = [beat EXCEPT ![r] = "reread"]
    /\ freshBeat' = freshBeat \cup {r}
    /\ UNCHANGED <<record, claim, expired, fresh, retried, evicted, pc>>

TouchRead(r) ==
    /\ beat[r] \in {"read", "reread"}
    /\ IF status = "claimed"
         THEN /\ beat' = [beat EXCEPT ![r] = IF @ = "read" THEN "swap" ELSE "reswap"]
              /\ UNCHANGED freshBeat
         ELSE TouchEnds(r) /\ freshBeat' = freshBeat \ {r}
    /\ UNCHANGED <<record, claim, expired, fresh, retried, evicted, pc>>

TouchSwap(r) ==
    /\ beat[r] \in {"swap", "reswap"}
    /\ IF CurrentBeat(r)
         THEN Put("claimed", holder) /\ TouchEnds(r)
         ELSE /\ IF beat[r] = "swap" THEN beat' = [beat EXCEPT ![r] = "again"]
                                     ELSE TouchEnds(r)
              /\ UNCHANGED <<record, versions>>
    /\ UNCHANGED <<claim, expired, retried, evicted, pc>>

-----------------------------------------------------------------------------
(* Consume.                                                                *)

ConsumeVersion(w) ==
    /\ pc[w] = "consume"
    /\ TakeVersion(w)
    /\ Goto(w, "consumeRead")
    /\ UNCHANGED <<record, claim, expired, retried, beat, evicted>>

ConsumeRead(w) ==
    /\ pc[w] = "consumeRead"
    /\ IF Effective \in {"unused", "claimed"}
         THEN Goto(w, "consumeSwap") /\ UNCHANGED <<versions, retried>>
         ELSE Goto(w, "failed") /\ Drop(w) /\ retried' = retried \ {w}
    /\ UNCHANGED <<record, claim, expired, beat, evicted>>

ConsumeSwap(w) ==
    /\ pc[w] = "consumeSwap"
    /\ \/ /\ Current(w)
          /\ Put("consumed", holder)
          /\ Goto(w, "unlink")
          /\ retried' = retried \ {w}
       \/ Conflict(w, "consume", "conflict")
    /\ UNCHANGED <<claim, expired, beat, evicted>>

Unlink(w) ==
    /\ pc[w] = "unlink"
    /\ claim' = NoOne
    /\ Goto(w, "done")
    /\ UNCHANGED <<record, expired, versions, retried, beat, evicted>>

-----------------------------------------------------------------------------
(* Release.                                                                *)

\* The operator has seen that a run is dead: the one that claims the record,
\* or the one named in a .claim file beside an unused record.
Decide(o) ==
    /\ pc[o] = "idle"
    /\ \/ status = "claimed" /\ pc[holder] = "dead"
       \/ status = "unused" /\ claim # NoOne /\ pc[claim] = "dead"
    /\ Goto(o, "release")
    /\ UNCHANGED <<record, claim, expired, versions, retried, beat, evicted>>

ReleaseVersion(o) ==
    /\ pc[o] = "release"
    /\ TakeVersion(o)
    /\ Goto(o, "releaseRead")
    /\ UNCHANGED <<record, claim, expired, retried, beat, evicted>>

\* The claim may be another run's than the one the operator has seen.
ReleaseRead(o) ==
    /\ pc[o] = "releaseRead"
    /\ IF Effective = "claimed"
         THEN Goto(o, "releaseSwap") /\ UNCHANGED <<versions, retried>>
         ELSE /\ Goto(o, IF Effective = "unused" THEN "orphanLook" ELSE "idle")
              /\ Drop(o)
              /\ retried' = retried \ {o}
    /\ UNCHANGED <<record, claim, expired, beat, evicted>>

OrphanLook(o) ==
    /\ pc[o] = "orphanLook"
    /\ Goto(o, IF claim = NoOne THEN "idle" ELSE "orphanUnlink")
    /\ UNCHANGED <<record, claim, expired, versions, retried, beat, evicted>>

ReleaseSwap(o) ==
    /\ pc[o] = "releaseSwap"
    /\ \/ /\ Current(o)
          /\ Put("unused", NoOne)
          /\ evicted' = evicted \cup {r \in Run : r = holder /\ pc[r] # "dead"}
          /\ Goto(o, "releaseUnlink")
          /\ retried' = retried \ {o}
       \/ Conflict(o, "release", "idle") /\ UNCHANGED evicted
    /\ UNCHANGED <<claim, expired, beat>>

ReleaseUnlink(o) ==
    /\ pc[o] \in {"orphanUnlink", "releaseUnlink"}
    /\ claim' = NoOne
    /\ Goto(o, "idle")
    /\ UNCHANGED <<record, expired, versions, retried, beat, evicted>>

-----------------------------------------------------------------------------

Expire ==
    /\ ~expired
    /\ expired' = TRUE
    /\ UNCHANGED <<record, claim, versions, retried, beat, evicted, pc>>

\* A process ends, by itself or not, and its heartbeat with it.
Dies(a) ==
    /\ pc[a] \notin {"idle", "refused", "done", "dead"}
    /\ Goto(a, "dead")
    /\ Drop(a)
    /\ retried' = retried \ {a}
    /\ beat' = [r \in Run |-> IF r = a THEN "off" ELSE beat[r]]
    /\ UNCHANGED <<record, claim, expired, evicted>>

Next ==
    \/ \E r \in Run :
         \/ ClaimVersion(r) \/ ClaimRead(r) \/ ClaimFile(r) \/ ClaimSwap(r)
         \/ ClaimUndo(r) \/ TouchVersion(r) \/ TouchRead(r) \/ TouchSwap(r)
    \/ \E w \in Worker :
         \/ Check(w) \/ WriteEnds(w) \/ WriteFails(w)
         \/ ConsumeVersion(w) \/ ConsumeRead(w) \/ ConsumeSwap(w) \/ Unlink(w)
    \/ \E o \in Operator :
         \/ Decide(o) \/ ReleaseVersion(o) \/ ReleaseRead(o) \/ OrphanLook(o)
         \/ ReleaseSwap(o) \/ ReleaseUnlink(o)
    \/ \E a \in Actor : Dies(a)
    \/ Expire

Spec == Init /\ [][Next]_vars

-----------------------------------------------------------------------------
(* Properties.                                                             *)

\* From its claim to its consume.
Writing(r) == pc[r] \in {"write"} \cup Consuming

\* Claiming closes the window in which two commands perform one approved write,
\* unless an operator has released the claim of a living run.  The .claim file
\* does not do it: a release may remove the file of a run about to claim.
WritersExclude ==
    \A r, s \in Run \ evicted : Writing(r) /\ Writing(s) => r = s

\* One approval, one use: among commands and Airflow tasks, however many have
\* checked it, one can end well, and no heartbeat or release brings it back.
OneUse ==
    /\ \A v, w \in Worker : pc[v] \in Used /\ pc[w] \in Used => v = w
    /\ \A w \in Worker : pc[w] \in Used => status = "consumed"

\* Two tries are enough: as long as every released run was dead, a command that
\* gives up its consume as a conflict has lost to an Airflow task, never to its
\* own heartbeat.  (The heartbeat of an evicted run touches its successor's
\* claim, since a touch looks at the status only.)
ConflictIsForeign ==
    evicted = {} => \A r \in Run : pc[r] = "conflict" => status = "consumed"

Approval == INSTANCE ApprovalContract
              WITH admitted <- {r \in Run : pc[r] \in {"claimFile", "claimSwap"}}

\* The lake store keeps the promises of the Postgres store.
KeepsApprovalContract == Approval!Spec
=============================================================================
