--------------------------- MODULE LakeLeaseProofs ---------------------------
(***************************************************************************)
(* Proofs about LakeLease: for any number of attempts and versions, and    *)
(* whichever way the store hands out versions, conditional writes touch    *)
(* only the writer's own lock, a lost lease is lost for good, and the      *)
(* store keeps the contract of a lease.                                    *)
(***************************************************************************)
EXTENDS LakeLease, TLAPS

USE DEF Acquiring, Holding, Ended

\* A version drawn by a put differs from every version still remembered.
LEMMA FreshVersionIsNew ==
    ASSUME NEW v \in FreshVersion
    PROVE  v \in Version /\ v # version /\ \A a \in Attempt : v # ver[a]
  BY DEF FreshVersion, Remembered

\* Every field stays in its range.
THEOREM TypeCorrect == Spec => []TypeOK
  <1>1. Init => TypeOK
    BY DEF Init, TypeOK
  <1>2. TypeOK /\ [Next]_vars => TypeOK'
    <2> SUFFICES ASSUME TypeOK, [Next]_vars PROVE TypeOK'
      OBVIOUS
    <2> USE FreshVersionIsNew DEF TypeOK, lock, handle, Goto
    <2>1. ASSUME NEW a \in Attempt, NEW next \in Holding, NEW lookup \in Holding,
                 Put(a, next, lookup)
          PROVE  TypeOK'
      BY <2>1, ConstantsAssumption DEF Put
    <2>2. ASSUME NEW a \in Attempt, Step(a) PROVE TypeOK'
      <3>1. CASE Create(a)        BY <3>1, <2>1 DEF Create
      <3>2. CASE StealRead(a)     BY <3>2 DEF StealRead
      <3>3. CASE StealVersion(a)  BY <3>3 DEF StealVersion
      <3>4. CASE StealRecheck(a)  BY <3>4 DEF StealRecheck
      <3>5. CASE StealSwap(a)     BY <3>5, <2>1 DEF StealSwap
      <3>6. CASE LookUpVersion(a) BY <3>6 DEF LookUpVersion
      <3>7. CASE RefreshRead(a)   BY <3>7 DEF RefreshRead
      <3>8. CASE RefreshSwap(a)   BY <3>8, <2>1 DEF RefreshSwap
      <3>9. CASE FenceRead(a)     BY <3>9 DEF FenceRead
      <3>10. CASE FenceSwap(a)    BY <3>10, <2>1 DEF FenceSwap
      <3>11. CASE Leave(a)        BY <3>11 DEF Leave
      <3>12. CASE ReleaseRead(a)  BY <3>12 DEF ReleaseRead
      <3>13. CASE ReleaseDelete(a) BY <3>13 DEF ReleaseDelete
      <3>14. CASE Crash(a)        BY <3>14 DEF Crash
      <3>15. QED
        BY <2>2, <3>1, <3>2, <3>3, <3>4, <3>5, <3>6, <3>7, <3>8, <3>9, <3>10,
           <3>11, <3>12, <3>13, <3>14 DEF Step
    <2>3. CASE Expire       BY <2>3 DEF Expire
    <2>4. CASE ForceRead    BY <2>4 DEF ForceRead
    <2>5. CASE ForceUnlink  BY <2>5 DEF ForceUnlink
    <2>6. CASE UNCHANGED vars BY <2>6 DEF vars
    <2>7. QED
      BY <2>2, <2>3, <2>4, <2>5, <2>6 DEF Next
  <1>3. QED
    BY <1>1, <1>2, PTL DEF Spec

\* The inductive invariant, for one put of each kind and every other step.
LEMMA PutKeepsIInv ==
    ASSUME IInv, NEW a \in Attempt, NEW next \in Holding, NEW lookup \in Holding,
           {next, lookup} \cap Committing = {}, Put(a, next, lookup),
           pc[a] \in Acquiring \/ owner = a
    PROVE  /\ SwapsOwnLockOnly'
           /\ StealersSawLapsed'
           /\ TokensAreSpent'
           /\ ExpiredHasLapsed'
  <1>. PICK v \in FreshVersion :
          /\ owner' = a /\ version' = v /\ live' = TRUE /\ UNCHANGED seen
          /\ lapsed' = IF owner = a THEN lapsed ELSE FALSE
          /\ \/ ver' = [ver EXCEPT ![a] = v] /\ Goto(a, next)
             \/ ver' = ver /\ Goto(a, lookup)
    BY DEF Put
  <1>. USE FreshVersionIsNew, ConstantsAssumption
           DEF IInv, TypeOK, Goto, Matches, Committing, Stealing
  <1>1. /\ pc'[a] \in Holding \ Committing
        /\ \A b \in Attempt : b # a => pc'[b] = pc[b] /\ ver'[b] = ver[b]
        /\ \A b \in Attempt : b # a => version' # ver'[b]
    OBVIOUS
  <1>2. SwapsOwnLockOnly'
    BY <1>1 DEF SwapsOwnLockOnly
  <1>3. StealersSawLapsed'
    <2> SUFFICES ASSUME NEW b \in Attempt, pc'[b] \in Stealing
                 PROVE  /\ seen[b] # NoOne
                        /\ owner' = seen[b] => lapsed'
                        /\ version' # ver'[b]
      BY DEF StealersSawLapsed
    <2>1. b # a /\ pc[b] \in Stealing
      BY <1>1
    <2>2. seen[b] # NoOne /\ (owner = seen[b] => lapsed)
      BY <2>1 DEF StealersSawLapsed
    <2>3. owner = a \/ seen[b] # a
      BY <2>2 DEF TokensAreSpent
    <2>4. QED
      BY <1>1, <2>1, <2>2, <2>3
  <1>4. TokensAreSpent'
    BY <1>1 DEF TokensAreSpent
  <1>5. ExpiredHasLapsed'
    BY DEF ExpiredHasLapsed
  <1>6. QED
    BY <1>2, <1>3, <1>4, <1>5

LEMMA IInvInitially == Init => IInv
  BY ConstantsAssumption
     DEF Init, IInv, TypeOK, SwapsOwnLockOnly, StealersSawLapsed,
         TokensAreSpent, ExpiredHasLapsed, Committing, Stealing

LEMMA IInvIsInductive == IInv /\ TypeOK' /\ [Next]_vars => IInv'
  <1> SUFFICES ASSUME IInv, TypeOK', [Next]_vars
               PROVE  /\ SwapsOwnLockOnly' /\ StealersSawLapsed'
                       /\ TokensAreSpent' /\ ExpiredHasLapsed'
    BY DEF IInv
  <1> DEFINE Goal == /\ SwapsOwnLockOnly' /\ StealersSawLapsed'
                     /\ TokensAreSpent' /\ ExpiredHasLapsed'
  <1> USE ConstantsAssumption DEF IInv, lock, handle, Goto, Matches
  <1>1. ASSUME NEW a \in Attempt, Step(a) PROVE Goal
    <2> USE DEF Committing, Stealing
    <2>1. CASE Create(a)
      BY <2>1, PutKeepsIInv
         DEF Create, SwapsOwnLockOnly, StealersSawLapsed, TokensAreSpent,
             ExpiredHasLapsed, TypeOK
    <2>2. CASE StealSwap(a)
      BY <2>2, PutKeepsIInv
         DEF StealSwap, SwapsOwnLockOnly, StealersSawLapsed, TokensAreSpent,
             ExpiredHasLapsed, TypeOK
    <2>3. CASE RefreshSwap(a)
      BY <2>3, PutKeepsIInv
         DEF RefreshSwap, SwapsOwnLockOnly, StealersSawLapsed, TokensAreSpent,
             ExpiredHasLapsed, TypeOK
    <2>4. CASE FenceSwap(a)
      BY <2>4, PutKeepsIInv
         DEF FenceSwap, SwapsOwnLockOnly, StealersSawLapsed, TokensAreSpent,
             ExpiredHasLapsed, TypeOK
    <2> USE DEF SwapsOwnLockOnly, StealersSawLapsed, TokensAreSpent,
             ExpiredHasLapsed, TypeOK
    <2>5. CASE StealRead(a)     BY <2>5 DEF StealRead
    <2>6. CASE StealVersion(a)  BY <2>6 DEF StealVersion
    <2>7. CASE StealRecheck(a)  BY <2>7 DEF StealRecheck
    <2>8. CASE LookUpVersion(a) BY <2>8 DEF LookUpVersion
    <2>9. CASE RefreshRead(a)   BY <2>9 DEF RefreshRead
    <2>10. CASE FenceRead(a)    BY <2>10 DEF FenceRead
    <2>11. CASE Leave(a)        BY <2>11 DEF Leave
    <2>12. CASE ReleaseRead(a)  BY <2>12 DEF ReleaseRead
    <2>13. CASE ReleaseDelete(a) BY <2>13 DEF ReleaseDelete
    <2>14. CASE Crash(a)        BY <2>14 DEF Crash
    <2>15. QED
      BY <1>1, <2>1, <2>2, <2>3, <2>4, <2>5, <2>6, <2>7, <2>8, <2>9, <2>10,
         <2>11, <2>12, <2>13, <2>14 DEF Step
  <1> USE DEF SwapsOwnLockOnly, StealersSawLapsed, TokensAreSpent,
             ExpiredHasLapsed, TypeOK
  <1>2. CASE Expire         BY <1>2 DEF Expire
  <1>3. CASE ForceRead      BY <1>3 DEF ForceRead
  <1>4. CASE ForceUnlink    BY <1>4 DEF ForceUnlink
  <1>5. CASE UNCHANGED vars BY <1>5 DEF vars
  <1>6. QED
    BY <1>1, <1>2, <1>3, <1>4, <1>5 DEF Next

THEOREM IInvHolds == Spec => []IInv
  BY IInvInitially, IInvIsInductive, TypeCorrect, PTL DEF Spec

\* A conditional write or delete let through by its version is one on the
\* writer's own lock.
THEOREM SwapsOwn == Spec => []SwapsOwnLockOnly
  BY IInvHolds, PTL DEF IInv

\* How a worker's step can change the owner.
LEMMA OwnerChanges ==
    ASSUME IInv, NEW b \in Attempt, Step(b)
    PROVE  \/ owner' \in {owner, NoOne}
           \/ owner' = b /\ pc[b] = "idle" /\ owner = NoOne
           \/ owner' = b /\ StealSwap(b) /\ Matches(b)
  <1> USE DEF lock, handle, Put
  <1>1. CASE Create(b)
    BY <1>1 DEF Create
  <1>2. CASE StealSwap(b)
    BY <1>2 DEF StealSwap
  <1>3. CASE RefreshSwap(b) \/ FenceSwap(b)
    BY <1>3 DEF RefreshSwap, FenceSwap, IInv, SwapsOwnLockOnly, Committing
  <1>4. CASE ~(Create(b) \/ StealSwap(b) \/ RefreshSwap(b) \/ FenceSwap(b))
    BY <1>4
       DEF Step, StealRead, StealVersion, StealRecheck, LookUpVersion, RefreshRead,
           FenceRead, Leave, ReleaseRead, ReleaseDelete, Crash
  <1>5. QED
    BY <1>1, <1>2, <1>3, <1>4

\* An attempt that lost its lease never has it again.
THEOREM LossIsFinal == Spec => LostForGood
  <1>1. ASSUME IInv, [Next]_vars, NEW a \in Attempt,
               pc[a] \notin Acquiring, owner # a
        PROVE  owner' # a
    <2> USE <1>1, ConstantsAssumption DEF IInv, TypeOK, lock, handle
    <2>1. ASSUME NEW b \in Attempt, Step(b) PROVE owner' # a
      BY <2>1, OwnerChanges DEF StealSwap
    <2>2. QED
      BY <2>1 DEF Next, vars, Expire, ForceRead, ForceUnlink
  <1>2. IInv /\ [Next]_vars
          => [\A a \in Attempt : pc[a] \notin Acquiring /\ owner # a => owner' # a]_vars
    BY <1>1
  <1>3. QED
    BY <1>2, IInvHolds, PTL DEF Spec, LostForGood

\* Only the owner passes the fence, and it passes with a live lock.
THEOREM FenceIsSound == Spec => FencePassesOwner
  <1>1. ASSUME IInv, [Next]_vars, NEW a \in Attempt, FencePassed(a)
        PROVE  owner = a /\ owner' = a /\ live'
    <2> USE <1>1, ConstantsAssumption DEF IInv, TypeOK, lock, handle, Goto, FencePassed
    <2>1. ASSUME NEW b \in Attempt, Step(b) PROVE FenceSwap(b) /\ b = a
      <3>1. \E label : pc' = [pc EXCEPT ![b] = label]
        BY <2>1
           DEF Step, Create, StealRead, StealVersion, StealRecheck, StealSwap,
               LookUpVersion, RefreshRead, RefreshSwap, FenceRead, FenceSwap, Leave,
               ReleaseRead, ReleaseDelete, Crash, Put
      <3>2. b = a
        BY <3>1
      <3>3. ~Crash(a)
        BY DEF Crash
      <3>4. QED
        BY <2>1, <3>2, <3>3
           DEF Step, Create, StealRead, StealVersion, StealRecheck, StealSwap,
               LookUpVersion, RefreshRead, RefreshSwap, FenceRead, Leave,
               ReleaseRead, ReleaseDelete
    <2>2. FenceSwap(a) => owner = a /\ owner' = a /\ live'
      BY DEF FenceSwap, Put, SwapsOwnLockOnly, Committing
    <2>3. QED
      BY <2>1, <2>2 DEF Next, vars, Expire, ForceRead, ForceUnlink
  <1>2. IInv /\ [Next]_vars
          => [\A a \in Attempt : FencePassed(a) => owner = a /\ owner' = a /\ live']_vars
    BY <1>1
  <1>3. QED
    BY <1>2, IInvHolds, PTL DEF Spec, FencePassesOwner

\* A lock changes hands without a release only after it had lapsed.
THEOREM OnlyLapsedStolen == Spec => StealsLapsedOnly
  <1>1. ASSUME IInv, [Next]_vars, Stolen PROVE lapsed
    <2> USE <1>1, ConstantsAssumption DEF IInv, TypeOK, lock, handle, Stolen
    <2>1. ASSUME NEW b \in Attempt, Step(b) PROVE lapsed
      <3>1. StealSwap(b) /\ Matches(b)
        BY <2>1, OwnerChanges
      <3>2. QED
        BY <3>1 DEF StealSwap, StealersSawLapsed, Stealing
    <2>2. QED
      BY <2>1 DEF Next, vars, Expire, ForceRead, ForceUnlink
  <1>2. IInv /\ [Next]_vars => [Stolen => lapsed]_vars
    BY <1>1
  <1>3. QED
    BY <1>2, IInvHolds, PTL DEF Spec, StealsLapsedOnly

-----------------------------------------------------------------------------
\* The lake store implements the contract of a lease.
THEOREM ImplementsContract == Spec => KeepsLeaseContract
  <1> DEFINE spent == {a \in Attempt : pc[a] \notin Acquiring}
  <1> USE DEF Contract!Init, Contract!Next, Contract!contractVars, Contract!TakeOver
  <1>1. Init => Contract!Init
    BY DEF Init
  <1>2. ASSUME IInv, TypeOK', [Next]_vars
        PROVE  [Contract!Next]_(Contract!contractVars)
    <2> USE <1>2, ConstantsAssumption DEF IInv, TypeOK, lock, handle, Goto
    <2>1. ASSUME NEW a \in Attempt, NEW label, Goto(a, label),
                 pc[a] \in Acquiring \/ label \notin Acquiring,
                 UNCHANGED <<owner, live, lapsed>>
          PROVE  [Contract!Next]_(Contract!contractVars)
      <3>1. CASE pc[a] \in Acquiring /\ label \notin Acquiring
        <4>1. spent' = spent \cup {a}
          BY <2>1, <3>1
        <4>2. QED
          BY <2>1, <4>1 DEF Contract!GiveUp
      <3>2. CASE ~(pc[a] \in Acquiring /\ label \notin Acquiring)
        <4>1. spent' = spent
          BY <2>1, <3>2
        <4>2. QED
          BY <2>1, <4>1
      <3>3. QED
        BY <3>1, <3>2
    <2>2. ASSUME NEW a \in Attempt, NEW next \in Holding, NEW lookup \in Holding,
                 Put(a, next, lookup),
                 pc[a] \in Acquiring => owner = NoOne \/ lapsed,
                 pc[a] \notin Acquiring => owner = a
          PROVE  [Contract!Next]_(Contract!contractVars)
      <3>1. spent' = spent \cup {a}
        BY <2>2 DEF Put
      <3>2. owner' = a /\ live' = TRUE /\ lapsed' = IF owner = a THEN lapsed ELSE FALSE
        BY <2>2 DEF Put
      <3>3. CASE pc[a] \in Acquiring
        <4>1. owner # a /\ a \notin spent
          BY <3>3 DEF TokensAreSpent
        <4>2. QED
          BY <2>2, <3>1, <3>2, <3>3, <4>1 DEF Contract!Acquire, Contract!Steal
      <3>4. CASE pc[a] \notin Acquiring
        <4>1. spent' = spent
          BY <3>1, <3>4
        <4>2. QED
          BY <2>2, <3>2, <3>4, <4>1 DEF Contract!Extend
      <3>5. QED
        BY <3>3, <3>4
    <2> USE DEF Committing, Stealing, SwapsOwnLockOnly, StealersSawLapsed
    <2>3. ASSUME NEW a \in Attempt, Step(a)
          PROVE  [Contract!Next]_(Contract!contractVars)
      <3>1. CASE Create(a)        BY <3>1, <2>1, <2>2 DEF Create
      <3>2. CASE StealRead(a)     BY <3>2, <2>1 DEF StealRead
      <3>3. CASE StealVersion(a)  BY <3>3, <2>1 DEF StealVersion
      <3>4. CASE StealRecheck(a)  BY <3>4, <2>1 DEF StealRecheck
      <3>5. CASE StealSwap(a)     BY <3>5, <2>1, <2>2 DEF StealSwap
      <3>6. CASE LookUpVersion(a) BY <3>6, <2>1 DEF LookUpVersion
      <3>7. CASE RefreshRead(a)   BY <3>7, <2>1 DEF RefreshRead
      <3>8. CASE RefreshSwap(a)   BY <3>8, <2>1, <2>2 DEF RefreshSwap
      <3>9. CASE FenceRead(a)     BY <3>9, <2>1 DEF FenceRead
      <3>10. CASE FenceSwap(a)    BY <3>10, <2>1, <2>2 DEF FenceSwap
      <3>11. CASE Leave(a)        BY <3>11, <2>1 DEF Leave
      <3>12. CASE ReleaseRead(a)  BY <3>12, <2>1 DEF ReleaseRead
      <3>13. CASE ReleaseDelete(a)
        <4>1. spent' = spent
          BY <3>13 DEF ReleaseDelete
        <4>2. QED
          BY <3>13, <4>1 DEF ReleaseDelete, Contract!Release
      <3>14. CASE Crash(a)        BY <3>14, <2>1 DEF Crash
      <3>15. QED
        BY <2>3, <3>1, <3>2, <3>3, <3>4, <3>5, <3>6, <3>7, <3>8, <3>9, <3>10,
           <3>11, <3>12, <3>13, <3>14 DEF Step
    <2>4. CASE Expire
      BY <2>4 DEF Expire, Contract!Expire
    <2>5. CASE ForceRead \/ UNCHANGED vars
      BY <2>5 DEF ForceRead, vars
    <2>6. CASE ForceUnlink
      BY <2>6 DEF ForceUnlink, Contract!Release
    <2>7. QED
      BY <2>3, <2>4, <2>5, <2>6 DEF Next
  <1>3. QED
    BY <1>1, <1>2, IInvHolds, TypeCorrect, PTL DEF Spec, KeepsLeaseContract, Contract!Spec
=============================================================================
