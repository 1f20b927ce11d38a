------------------------ MODULE LakeDatasetLockProofs ------------------------
(***************************************************************************)
(* Proofs about LakeDatasetLock, for any number of attempts.               *)
(*                                                                         *)
(* A body that a handle is about to write was computed from one it has     *)
(* read, so it keeps readers and a writer apart as that one did.  What a   *)
(* holder writes back was read after its version was looked up; while the  *)
(* version is current nothing but deadlines has changed since, and a new   *)
(* attempt takes a token that no body has.                                 *)
(***************************************************************************)
EXTENDS LakeDatasetLock, TLAPS

Apart(b) == b.exclusive = NoOne \/ b.shared = {}

\* Of two conflicting entries neither the lock nor a pending body has both.
AllApart == Apart(body) /\ \A a \in Attempt : Apart(plan[a])

\* A heartbeat or a fence writes a body that its handle is part of.
Renewing == {"refreshSwap", "fenceSwap"}
OwnEntry == \A a \in Attempt : pc[a] \in Renewing => Has(plan[a], a)

LockInv == TypeOK /\ AllApart /\ OwnEntry /\ HoldersKeepOthers

-----------------------------------------------------------------------------
LEMMA FoundFacts ==
    ASSUME TypeOK
    PROVE  /\ Pruned(body) \in Body /\ Found \in Body
           /\ Apart(body) => Apart(Found)
           /\ exists => Found = Pruned(body)
           /\ \A a \in Attempt : Has(Found, a) => exists
  BY ConstantsAssumption
     DEF TypeOK, Pruned, Found, Live, Body, EmptyBody, Apart, Has

LEMMA EmptyIsBody == EmptyBody \in Body /\ Apart(EmptyBody)
  BY DEF EmptyBody, Body, Apart

\* What the operators of a step do, for a typed state.
LEMMA PutFacts ==
    ASSUME TypeOK, NEW a \in Attempt, NEW renews \in BOOLEAN, Put(a, renews)
    PROVE  /\ exists' \in BOOLEAN /\ body' \in Body /\ expired' \subseteq Attempt
           /\ plan' \in [Attempt -> Body]
           /\ ver' \in [Attempt -> {"none", "current", "stale"}]
           /\ body' = plan[a] /\ plan' = [plan EXCEPT ![a] = EmptyBody]
           /\ \A c \in Attempt \ {a} : ver'[c] # "current"
  BY EmptyIsBody DEF Put, TypeOK, Outdated, Forget

LEMMA AcquireTyped ==
    ASSUME TypeOK, NEW a \in Attempt, Acquire(a)
    PROVE  TypeOK'
  <1> USE DEF TypeOK, object, Goto, Forget
  <1>1. CASE SharedRead(a)
    <2>1. [Found EXCEPT !.shared = @ \cup {a}] \in Body
      BY FoundFacts DEF Body
    <2> QED BY <1>1, <2>1 DEF SharedRead, Acquiring, Ended
  <1>2. CASE ExclusiveRead(a)
    <2>1. /\ [Found EXCEPT !.intent = a] \in Body
          /\ [EmptyBody EXCEPT !.exclusive = a] \in Body
      BY FoundFacts, EmptyIsBody DEF Body
    <2> QED BY <1>2, <2>1 DEF ExclusiveRead, Acquiring
  <1>3. CASE LookUpVersion(a)
    BY <1>3, EmptyIsBody DEF LookUpVersion, Acquiring, Ended
  <1>4. CASE AcquireSwap(a)
    BY <1>4, PutFacts, EmptyIsBody DEF AcquireSwap, Acquiring, Holding, Ended
  <1>5. CASE Poll(a)
    BY <1>5 DEF Poll, Acquiring
  <1>6. CASE GiveUpRead(a)
    <2>1. [Found EXCEPT !.intent = NoOne] \in Body
      BY FoundFacts DEF Body
    <2> QED BY <1>6, <2>1 DEF GiveUpRead, Acquiring, Ended
  <1>7. CASE ClearSwap(a)
    BY <1>7, PutFacts, EmptyIsBody DEF ClearSwap, Acquiring, Ended
  <1> QED BY <1>1, <1>2, <1>3, <1>4, <1>5, <1>6, <1>7 DEF Acquire

LEMMA WithoutFacts ==
    ASSUME NEW b \in Body, NEW a \in Attempt
    PROVE  Without(b, a) \in Body /\ (Apart(b) => Apart(Without(b, a)))
  BY DEF Without, Body, Apart

LEMMA Labels ==
    ASSUME NEW k \in Kind
    PROVE  /\ Swapping[k] \in {"refreshSwap", "fenceSwap"}
           /\ Looking[k] \in {"refreshLook", "fenceLook"}
           /\ Reread[k] \in {"refreshAgain", "fenceAgain"}
           /\ Fails[k] \in {"held", "leaving"}
  BY DEF Kind, Swapping, Looking, Reread, Fails

LEMMA HoldTyped ==
    ASSUME TypeOK, NEW a \in Attempt, Hold(a)
    PROVE  TypeOK'
  <1> USE DEF TypeOK, object, Goto, Forget
  <1>1. ASSUME NEW k \in Kind, RenewRead(a, k) PROVE TypeOK'
    BY <1>1, FoundFacts, Labels DEF RenewRead, Holding
  <1>2. ASSUME NEW k \in Kind, RenewSwap(a, k) PROVE TypeOK'
    <2>1. CASE Matches(a) /\ Put(a, TRUE) /\ Goto(a, "held")
      BY <2>1, PutFacts DEF Holding
    <2>2. CASE ~Matches(a)
      <3>1. pc' = [pc EXCEPT ![a] = Looking[k]] \/ pc' = [pc EXCEPT ![a] = Fails[k]]
        BY <1>2, <2>2 DEF RenewSwap
      <3>2. pc' \in [Attempt -> Acquiring \cup Holding \cup Ended]
        BY <3>1, Labels DEF Holding
      <3> QED BY <1>2, <2>2, <3>2, EmptyIsBody DEF RenewSwap
    <2> QED BY <1>2, <2>1, <2>2 DEF RenewSwap
  <1>3. ASSUME NEW k \in Kind, RenewLook(a, k) PROVE TypeOK'
    <2>1. pc' \in [Attempt -> Acquiring \cup Holding \cup Ended]
      BY <1>3, Labels DEF RenewLook, Holding
    <2>2. ver' \in [Attempt -> {"none", "current", "stale"}]
      BY <1>3 DEF RenewLook, HandleVersion
    <2> QED BY <1>3, <2>1, <2>2 DEF RenewLook
  <1>4. CASE Leave(a)
    BY <1>4 DEF Leave, Holding
  <1>5. CASE ReleaseRead(a)
    <2>1. Without(Found, a) \in Body
      BY FoundFacts, WithoutFacts
    <2> QED BY <1>5, <2>1 DEF ReleaseRead, Holding, Ended
  <1>6. CASE ReleaseVersion(a)
    BY <1>6, EmptyIsBody DEF ReleaseVersion, HandleVersion, Holding, Ended
  <1>7. CASE ReleaseSwap(a)
    BY <1>7, PutFacts, EmptyIsBody DEF ReleaseSwap, Outdated, Holding, Ended
  <1>8. CASE ReleaseLook(a)
    BY <1>8 DEF ReleaseLook, HandleVersion, Holding
  <1> QED BY <1>1, <1>2, <1>3, <1>4, <1>5, <1>6, <1>7, <1>8 DEF Hold

LEMMA NextTyped ==
    ASSUME TypeOK, [Next]_vars
    PROVE  TypeOK'
  <1>1. ASSUME NEW a \in Attempt, Crash(a) PROVE TypeOK'
    BY <1>1, EmptyIsBody DEF Crash, TypeOK, object, Goto, Forget, Ended
  <1>2. ASSUME NEW a \in Attempt, Expire(a) PROVE TypeOK'
    BY <1>2 DEF Expire, TypeOK, object
  <1>3. CASE ForceRelease
    BY <1>3, EmptyIsBody DEF ForceRelease, TypeOK, Outdated
  <1>4. CASE UNCHANGED vars
    BY <1>4 DEF vars, TypeOK
  <1>5. ASSUME NEW a \in Attempt, Again(a) PROVE TypeOK'
    BY <1>5 DEF Again, TypeOK, object, Goto, Acquiring
  <1> QED BY <1>1, <1>2, <1>3, <1>4, <1>5, AcquireTyped, HoldTyped DEF Next

-----------------------------------------------------------------------------
\* The pending bodies that a step computes keep readers and writer apart.
LEMMA AcquireApart ==
    ASSUME TypeOK, AllApart, NEW a \in Attempt, Acquire(a)
    PROVE  AllApart'
  <1> USE DEF AllApart, object, Goto, Forget
  <1>1. CASE SharedRead(a)
    <2>1. Found.exclusive = NoOne => Apart([Found EXCEPT !.shared = @ \cup {a}])
      BY FoundFacts DEF Apart, Body
    <2> QED BY <1>1, <2>1 DEF SharedRead, TypeOK, Apart
  <1>2. CASE ExclusiveRead(a)
    <2>1. /\ Found.exclusive = NoOne => Apart([Found EXCEPT !.intent = a])
          /\ Apart([EmptyBody EXCEPT !.exclusive = a])
      BY FoundFacts DEF Apart, Body, EmptyBody
    <2> QED BY <1>2, <2>1 DEF ExclusiveRead, TypeOK, Apart
  <1>3. CASE LookUpVersion(a)
    BY <1>3, EmptyIsBody DEF LookUpVersion, TypeOK, Apart
  <1>4. CASE AcquireSwap(a)
    BY <1>4, PutFacts, EmptyIsBody DEF AcquireSwap, TypeOK, Apart
  <1>5. CASE Poll(a)
    BY <1>5 DEF Poll, Apart
  <1>6. CASE GiveUpRead(a)
    <2>1. Apart([Found EXCEPT !.intent = NoOne])
      BY FoundFacts DEF Apart, Body
    <2> QED BY <1>6, <2>1 DEF GiveUpRead, TypeOK, Apart
  <1>7. CASE ClearSwap(a)
    BY <1>7, PutFacts, EmptyIsBody DEF ClearSwap, TypeOK, Apart
  <1> QED BY <1>1, <1>2, <1>3, <1>4, <1>5, <1>6, <1>7 DEF Acquire

LEMMA HoldApart ==
    ASSUME TypeOK, AllApart, NEW a \in Attempt, Hold(a)
    PROVE  AllApart'
  <1> USE DEF AllApart, object, Goto, Forget
  <1>1. ASSUME NEW k \in Kind, RenewRead(a, k) PROVE AllApart'
    BY <1>1, FoundFacts DEF RenewRead, TypeOK, Apart
  <1>2. ASSUME NEW k \in Kind, RenewSwap(a, k) PROVE AllApart'
    BY <1>2, PutFacts, EmptyIsBody DEF RenewSwap, TypeOK, Apart
  <1>3. ASSUME NEW k \in Kind, RenewLook(a, k) PROVE AllApart'
    BY <1>3 DEF RenewLook, Apart
  <1>4. CASE Leave(a)
    BY <1>4 DEF Leave, Apart
  <1>5. CASE ReleaseRead(a)
    <2>1. Apart(Without(Found, a))
      BY FoundFacts, WithoutFacts
    <2> QED BY <1>5, <2>1 DEF ReleaseRead, TypeOK, Apart
  <1>6. CASE ReleaseVersion(a)
    BY <1>6, EmptyIsBody DEF ReleaseVersion, TypeOK, Apart
  <1>7. CASE ReleaseSwap(a)
    BY <1>7, PutFacts, EmptyIsBody DEF ReleaseSwap, TypeOK, Apart
  <1>8. CASE ReleaseLook(a)
    BY <1>8 DEF ReleaseLook, Apart
  <1> QED BY <1>1, <1>2, <1>3, <1>4, <1>5, <1>6, <1>7, <1>8 DEF Hold

LEMMA NextApart ==
    ASSUME TypeOK, AllApart, [Next]_vars
    PROVE  AllApart'
  <1>1. ASSUME NEW a \in Attempt, Crash(a) PROVE AllApart'
    BY <1>1, EmptyIsBody DEF Crash, TypeOK, AllApart, Apart, object, Forget
  <1>2. ASSUME NEW a \in Attempt, Expire(a) PROVE AllApart'
    BY <1>2 DEF Expire, AllApart, Apart, object
  <1>3. CASE ForceRelease
    BY <1>3, EmptyIsBody DEF ForceRelease, AllApart, Apart
  <1>4. CASE UNCHANGED vars
    BY <1>4 DEF vars, AllApart, Apart
  <1>5. ASSUME NEW a \in Attempt, Again(a) PROVE AllApart'
    BY <1>5 DEF Again, AllApart, Apart, object
  <1> QED BY <1>1, <1>2, <1>3, <1>4, <1>5, AcquireApart, HoldApart DEF Next

-----------------------------------------------------------------------------
\* What a holder is about to write back, compared with what is in the lock.
WritesBack(a) ==
    /\ pc[a] \in Renewing => Has(plan[a], a)
    /\ Matches(a) => KeepsOthers(a, plan[a])

WriteBacks == \A a \in Attempt : pc[a] \in HolderSwaps => WritesBack(a)

\* A step of another attempt, or of the clock, either leaves the lock object
\* alone, and then entries only expire, or outdates every version.
LEMMA WriteBackKept ==
    ASSUME TypeOK, NEW a \in Attempt, WritesBack(a), plan'[a] = plan[a], pc'[a] = pc[a],
           \/ ver'[a] # "current"
           \/ /\ body' = body /\ ver'[a] = ver[a]
              /\ expired \subseteq expired' \/ Pruned(body)' = Pruned(body)
    PROVE  WritesBack(a)'
  <1>1. pc'[a] \in Renewing => Has(plan[a], a)'
    BY DEF WritesBack, Has
  <1>2. ASSUME Matches(a)' PROVE KeepsOthers(a, plan[a])'
    <2>1. body' = body /\ KeepsOthers(a, plan[a])
      BY <1>2 DEF WritesBack, Matches
    <2>2. CASE Pruned(body)' = Pruned(body)
      BY <2>1, <2>2 DEF KeepsOthers
    <2>3. CASE expired \subseteq expired'
      BY <2>1, <2>3, ConstantsAssumption DEF KeepsOthers, Pruned, Live, TypeOK, Body
    <2> QED BY <1>2, <2>2, <2>3 DEF Matches
  <1> QED BY <1>1, <1>2 DEF WritesBack

\* A step of attempt `a` other than Put changes neither object nor deadlines.
Quiet(a) ==
    /\ body' = body /\ expired' = expired
    /\ \A c \in Attempt \ {a} : ver'[c] = ver[c]

Loud(a) == \A c \in Attempt \ {a} : ver'[c] # "current"

Others(a) ==
    /\ \A c \in Attempt \ {a} : plan'[c] = plan[c] /\ pc'[c] = pc[c]
    /\ Quiet(a) \/ Loud(a)

LEMMA OthersKept ==
    ASSUME TypeOK, WriteBacks, NEW a \in Attempt, Others(a),
           pc'[a] \in HolderSwaps => WritesBack(a)'
    PROVE  WriteBacks'
  <1> SUFFICES ASSUME NEW c \in Attempt \ {a}, pc'[c] \in HolderSwaps
               PROVE  WritesBack(c)'
    BY DEF WriteBacks
  <1>1. WritesBack(c) /\ plan'[c] = plan[c] /\ pc'[c] = pc[c]
    BY DEF Others, WriteBacks
  <1>2. ver'[c] # "current" \/ (body' = body /\ expired \subseteq expired' /\ ver'[c] = ver[c])
    BY DEF Others, Quiet, Loud
  <1> QED BY <1>1, <1>2, WriteBackKept

LEMMA AcquireWriteBacks ==
    ASSUME TypeOK, WriteBacks, NEW a \in Attempt, Acquire(a)
    PROVE  WriteBacks'
  <1> USE DEF object, Goto, Forget, TypeOK
  <1>1. Others(a) /\ pc'[a] \notin HolderSwaps
    <2>1. CASE SharedRead(a)
      BY <2>1 DEF SharedRead, Others, Quiet, HolderSwaps
    <2>2. CASE ExclusiveRead(a)
      BY <2>2 DEF ExclusiveRead, Others, Quiet, HolderSwaps
    <2>3. CASE LookUpVersion(a)
      BY <2>3 DEF LookUpVersion, Others, Quiet, HolderSwaps
    <2>4. CASE AcquireSwap(a)
      BY <2>4, PutFacts DEF AcquireSwap, Others, Quiet, Loud, HolderSwaps
    <2>5. CASE Poll(a)
      BY <2>5 DEF Poll, Others, Quiet, HolderSwaps
    <2>6. CASE GiveUpRead(a)
      BY <2>6 DEF GiveUpRead, Others, Quiet, HolderSwaps
    <2>7. CASE ClearSwap(a)
      BY <2>7, PutFacts DEF ClearSwap, Others, Quiet, Loud, HolderSwaps
    <2> QED BY <2>1, <2>2, <2>3, <2>4, <2>5, <2>6, <2>7 DEF Acquire
  <1> QED BY <1>1, OthersKept

\* A body just read, with or without the own entry, keeps the others.
LEMMA ReadKeepsOthers ==
    ASSUME TypeOK, NEW a \in Attempt
    PROVE  KeepsOthers(a, Pruned(body)) /\ KeepsOthers(a, Without(Pruned(body), a))
  <1>1. Pruned(body) \in Body /\ body \in Body
    BY FoundFacts DEF TypeOK
  <1>2. KeepsOthers(a, Pruned(body))
    BY <1>1, ConstantsAssumption DEF KeepsOthers, Pruned, Live, Body
  <1> DEFINE rest == Without(Pruned(body), a)
  <1>3. /\ rest.exclusive = IF Pruned(body).exclusive = a THEN NoOne ELSE Pruned(body).exclusive
        /\ rest.intent = Pruned(body).intent
        /\ rest.shared = Pruned(body).shared \ {a}
    BY <1>1 DEF Without, Body
  <1> HIDE DEF rest
  <1>4. KeepsOthers(a, rest)
    BY <1>2, <1>3, ConstantsAssumption DEF KeepsOthers
  <1> QED BY <1>2, <1>4 DEF rest

LEMMA ReleaseReadStarts ==
    ASSUME TypeOK, NEW a \in Attempt, ReleaseRead(a)
    PROVE  Others(a) /\ (pc'[a] \in HolderSwaps => WritesBack(a)')
  <1>1. Others(a)
    BY DEF ReleaseRead, Others, Quiet, object, Goto, TypeOK
  <1>2. SUFFICES ASSUME pc'[a] \in HolderSwaps
                 PROVE  WritesBack(a)'
    BY <1>1
  <1>3. /\ Has(Found, a) /\ plan'[a] = Without(Found, a)
        /\ pc'[a] \notin Renewing
    BY <1>2 DEF ReleaseRead, Goto, TypeOK, HolderSwaps, Renewing
  <1>4. body' = body /\ expired' = expired /\ Found = Pruned(body)
    BY <1>3, FoundFacts DEF ReleaseRead, object
  <1>5. KeepsOthers(a, plan'[a])
    BY <1>3, <1>4, ReadKeepsOthers
  <1>6. KeepsOthers(a, plan[a])'
    BY <1>4, <1>5 DEF KeepsOthers, Pruned, Live
  <1> QED BY <1>3, <1>6 DEF WritesBack

LEMMA RenewReadStarts ==
    ASSUME TypeOK, NEW a \in Attempt, NEW k \in Kind, RenewRead(a, k)
    PROVE  Others(a) /\ (pc'[a] \in HolderSwaps => WritesBack(a)')
  <1>1. Others(a)
    BY DEF RenewRead, Others, Quiet, object, Goto, TypeOK
  <1>2. SUFFICES ASSUME pc'[a] \in HolderSwaps
                 PROVE  WritesBack(a)'
    BY <1>1
  <1>3. Has(Found, a) /\ plan'[a] = Found
    BY <1>2, Labels DEF RenewRead, Goto, TypeOK, HolderSwaps
  <1>4. body' = body /\ expired' = expired /\ Found = Pruned(body)
    BY <1>3, FoundFacts DEF RenewRead, object
  <1>5. KeepsOthers(a, plan'[a])
    BY <1>3, <1>4, ReadKeepsOthers
  <1>6. KeepsOthers(a, plan[a])'
    BY <1>4, <1>5 DEF KeepsOthers, Pruned, Live
  <1> QED BY <1>3, <1>6 DEF WritesBack, Has

LEMMA HoldWriteBacks ==
    ASSUME TypeOK, WriteBacks, NEW a \in Attempt, Hold(a)
    PROVE  WriteBacks'
  <1> USE DEF object, Goto, Forget, TypeOK
  <1>1. ASSUME NEW k \in Kind, RenewRead(a, k) PROVE WriteBacks'
    BY <1>1, RenewReadStarts, OthersKept
  <1>2. CASE ReleaseRead(a)
    BY <1>2, ReleaseReadStarts, OthersKept
  <1>3. CASE ~ReleaseRead(a) /\ \A k \in Kind : ~RenewRead(a, k)
    <2>0. Others(a) /\ pc'[a] \notin HolderSwaps
      <3>1. ASSUME NEW k \in Kind, RenewSwap(a, k)
            PROVE  Others(a) /\ pc'[a] \notin HolderSwaps
        <4>1. pc' = [pc EXCEPT ![a] = pc'[a]] /\ pc'[a] \notin HolderSwaps
          BY <3>1, Labels DEF RenewSwap, HolderSwaps
        <4>2. CASE Matches(a) /\ Put(a, TRUE)
          BY <4>1, <4>2, PutFacts DEF Others, Loud
        <4>3. CASE ~Matches(a)
          BY <3>1, <4>1, <4>3 DEF RenewSwap, Others, Quiet
        <4> QED BY <3>1, <4>1, <4>2, <4>3 DEF RenewSwap
      <3>2. ASSUME NEW k \in Kind, RenewLook(a, k)
            PROVE  Others(a) /\ pc'[a] \notin HolderSwaps
        BY <3>2, Labels DEF RenewLook, HandleVersion, Others, Quiet, HolderSwaps
      <3>3. CASE Leave(a)
        BY <3>3 DEF Leave, Others, Quiet, HolderSwaps
      <3>5. CASE ReleaseVersion(a)
        BY <3>5 DEF ReleaseVersion, HandleVersion, Others, Quiet, HolderSwaps
      <3>6. CASE ReleaseSwap(a)
        BY <3>6, PutFacts DEF ReleaseSwap, Outdated, Others, Quiet, Loud, HolderSwaps
      <3>7. CASE ReleaseLook(a)
        BY <3>7 DEF ReleaseLook, HandleVersion, Others, Quiet, HolderSwaps
      <3> QED BY <1>3, <3>1, <3>2, <3>3, <3>5, <3>6, <3>7 DEF Hold
    <2> QED BY <2>0, OthersKept
  <1> QED BY <1>1, <1>2, <1>3

LEMMA NextWriteBacks ==
    ASSUME TypeOK, WriteBacks, [Next]_vars
    PROVE  WriteBacks'
  <1>1. ASSUME NEW a \in Attempt, Crash(a) PROVE WriteBacks'
    <2>1. Others(a) /\ pc'[a] \notin HolderSwaps
      BY <1>1 DEF Crash, Others, Quiet, HolderSwaps, object, Goto, Forget, TypeOK
    <2> QED BY <2>1, OthersKept
  <1>2. CASE (\E a \in Attempt : Expire(a)) \/ ForceRelease \/ UNCHANGED vars
    <2> SUFFICES ASSUME NEW c \in Attempt, pc'[c] \in HolderSwaps
                 PROVE  WritesBack(c)'
      BY DEF WriteBacks
    <2>1. WritesBack(c) /\ plan'[c] = plan[c] /\ pc'[c] = pc[c]
      BY <1>2 DEF WriteBacks, Expire, ForceRelease, vars
    <2>2. ver'[c] # "current" \/ (body' = body /\ expired \subseteq expired' /\ ver'[c] = ver[c])
      BY <1>2 DEF Expire, ForceRelease, Outdated, vars, object, TypeOK
    <2> QED BY <2>1, <2>2, WriteBackKept
  <1>3. ASSUME NEW a \in Attempt, Again(a) PROVE WriteBacks'
    <2> SUFFICES ASSUME NEW c \in Attempt, pc'[c] \in HolderSwaps
                 PROVE  WritesBack(c)'
      BY DEF WriteBacks
    <2>1. /\ body' = body /\ plan' = plan /\ expired' = expired \ {a}
          /\ pc' = [pc EXCEPT ![a] = "idle"] /\ ver' = [ver EXCEPT ![a] = "none"]
          /\ ~Mentions(body, a)
      BY <1>3 DEF Again, object, Goto, Pending
    <2>2. c # a /\ pc'[c] = pc[c] /\ ver'[c] = ver[c]
      BY <2>1 DEF HolderSwaps, TypeOK
    <2>3. Pruned(body)' = Pruned(body)
      BY <2>1 DEF Pruned, Live, Mentions, Has
    <2> QED BY <2>1, <2>2, <2>3, WriteBackKept DEF WriteBacks
  <1> QED BY <1>1, <1>2, <1>3, AcquireWriteBacks, HoldWriteBacks DEF Next

-----------------------------------------------------------------------------
\* Only its own swap takes a handle from its fence to what it guards.
LEMMA FenceSteps ==
    ASSUME TypeOK, Next, NEW a \in Attempt, pc[a] = "fenceSwap", pc'[a] = "held"
    PROVE  \E k \in Kind : RenewSwap(a, k)
  <1> USE DEF object, Goto, Forget, TypeOK
  <1>1. ASSUME NEW c \in Attempt, c # a, Acquire(c) \/ Hold(c) \/ Crash(c)
        PROVE  pc'[a] = pc[a]
    <2>1. CASE Acquire(c)
      BY <1>1, <2>1 DEF Acquire, SharedRead, ExclusiveRead, LookUpVersion, AcquireSwap,
                  Poll, GiveUpRead, ClearSwap
    <2>2. CASE Hold(c)
      BY <1>1, <2>2 DEF Hold, RenewRead, RenewSwap, RenewLook, Leave, ReleaseRead,
                  ReleaseVersion, ReleaseSwap, ReleaseLook
    <2>3. CASE Crash(c)
      BY <1>1, <2>3 DEF Crash
    <2> QED BY <1>1, <2>1, <2>2, <2>3
  <1>2. ~Acquire(a) /\ ~Crash(a)
    BY DEF Acquire, SharedRead, ExclusiveRead, LookUpVersion, AcquireSwap, Poll,
           GiveUpRead, ClearSwap, Crash
  <1>3. ~Leave(a) /\ ~ReleaseRead(a) /\ ~ReleaseVersion(a) /\ ~ReleaseSwap(a) /\ ~ReleaseLook(a)
    BY DEF Leave, ReleaseRead, ReleaseVersion, ReleaseSwap, ReleaseLook
  <1>4. \A k \in Kind : ~RenewRead(a, k) /\ ~RenewLook(a, k)
    BY DEF RenewRead, RenewLook, Kind, Reread, Looking
  <1>5. \A c \in Attempt : ~Expire(c)
    BY DEF Expire
  <1>6. ~ForceRelease
    BY DEF ForceRelease
  <1>7. ASSUME NEW c \in Attempt, Again(c) PROVE FALSE
    BY <1>7 DEF Again, Ended
  <1> QED BY <1>1, <1>2, <1>3, <1>4, <1>5, <1>6, <1>7 DEF Next, Hold

LEMMA InvHolds == Spec => []LockInv
  <1>1. Init => LockInv
    BY EmptyIsBody
       DEF Init, LockInv, TypeOK, AllApart, OwnEntry, HoldersKeepOthers, Acquiring,
           Renewing, HolderSwaps
  <1>2. LockInv /\ [Next]_vars => LockInv'
    BY NextTyped, NextApart, NextWriteBacks
       DEF LockInv, WriteBacks, WritesBack, OwnEntry, HoldersKeepOthers, Renewing, HolderSwaps
  <1> QED BY <1>1, <1>2, PTL DEF Spec

\* The variables have the types of their declarations.
THEOREM TypeCorrect == Spec => []TypeOK
  <1>1. LockInv => TypeOK
    BY DEF LockInv
  <1> QED BY <1>1, InvHolds, PTL

\* Whatever versions were looked up when, and whoever has died, expired or
\* been forced out, the lock names an exclusive holder or readers.
THEOREM ReadersExclude == Spec => []ReadersOrWriter
  <1>1. LockInv => ReadersOrWriter
    BY DEF LockInv, AllApart, Apart, ReadersOrWriter
  <1> QED BY <1>1, InvHolds, PTL

\* A holder's heartbeat, fence or release loses no other entry and brings none
\* back, as long as its version was looked up before its body was read.
THEOREM OthersAreKept == Spec => []HoldersKeepOthers
  <1>1. LockInv => HoldersKeepOthers
    BY DEF LockInv
  <1> QED BY <1>1, InvHolds, PTL

\* A fence that passes finds its handle in the lock, before and after.
THEOREM FenceIsSound == Spec => FencePassesHolder
  <1> DEFINE Sound(a) == FencePassed(a) => Has(body, a) /\ Has(body', a) /\ a \notin expired'
  <1>1. LockInv /\ [Next]_vars => [\A a \in Attempt : Sound(a)]_vars
    <2> SUFFICES ASSUME LockInv, Next, NEW a \in Attempt, FencePassed(a)
                 PROVE  Has(body, a) /\ Has(body', a) /\ a \notin expired'
      OBVIOUS
    <2>1. pc[a] = "fenceSwap" /\ pc'[a] = "held" /\ TypeOK
      BY DEF FencePassed, LockInv
    <2>2. \E k \in Kind : RenewSwap(a, k)
      BY <2>1, FenceSteps
    <2>3. Matches(a) /\ Put(a, TRUE)
      <3>1. RenewSwap(a, "fence")
        <4>1. \A k \in Kind : RenewSwap(a, k) => pc[a] = Swapping[k]
          BY DEF RenewSwap
        <4>2. ~RenewSwap(a, "refresh")
          BY <2>1, <4>1 DEF Kind, Swapping
        <4> QED BY <2>2, <4>2 DEF Kind
      <3> QED BY <2>1, <3>1 DEF RenewSwap, Fails, Looking, Goto, TypeOK
    <2>4. Has(plan[a], a) /\ plan[a].exclusive \in {body.exclusive, NoOne}
          /\ plan[a].shared \subseteq body.shared
      BY <2>1, <2>3 DEF LockInv, OwnEntry, HoldersKeepOthers, KeepsOthers, Renewing, HolderSwaps
    <2> QED BY <2>3, <2>4, ConstantsAssumption DEF Put, Has
  <1> QED BY <1>1, InvHolds, PTL DEF Spec, FencePassesHolder
=============================================================================
