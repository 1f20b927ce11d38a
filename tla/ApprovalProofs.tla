--------------------------- MODULE ApprovalProofs ---------------------------
(***************************************************************************)
(* Proofs about approvals: what LakeApproval guarantees for any number of  *)
(* commands, tasks and operators that use one at once, and what            *)
(* ApprovedCommands guarantees for any environments, flags and commands.   *)
(*                                                                         *)
(* The argument of the first part has one idea: an actor that has read the *)
(* record under a version that is still the record's has read what the     *)
(* record is now (FreshSeen), so each swap is a step of the contract.      *)
(*                                                                         *)
(* The second part is about lists.  What a command does is what the list   *)
(* it builds means (Honest), whichever surface builds it, because each     *)
(* builder says of every flag and setting that the effect depends on what  *)
(* Means needs to read it back.  A command is admitted where its list is   *)
(* the approved one, so what it does is what the approved list means.      *)
(***************************************************************************)
EXTENDS LakeApproval, ApprovalMeaning, FiniteSetTheorems, TLAPS

USE DEF Worker, Actor, Claiming, Consuming, Used, Failed, Releasing, Touching

FreshSeen ==
    /\ \A r \in Run \cap fresh : pc[r] \in {"claimFile", "claimSwap"} => status = "unused"
    /\ \A w \in Worker \cap fresh : pc[w] = "consumeSwap" => status # "consumed"
    /\ \A o \in Operator \cap fresh : pc[o] = "releaseSwap" => status = "claimed"
    /\ \A r \in Run \cap freshBeat : beat[r] \in {"swap", "reswap"} => status = "claimed"

Reads == TypeOK /\ FreshSeen

LEMMA ReadsInit == Init => Reads
  BY ActorsAssumption DEF Init, Reads, TypeOK, FreshSeen

LEMMA ClaimReads ==
  ASSUME Reads, NEW r \in Run,
         \/ ClaimVersion(r) \/ ClaimRead(r) \/ ClaimFile(r) \/ ClaimSwap(r) \/ ClaimUndo(r)
  PROVE  Reads'
<1> USE ActorsAssumption DEF Reads, Goto, Drop, TakeVersion, record, versions
<1>1. CASE ClaimVersion(r)
  <2>1. TypeOK'
    BY <1>1 DEF TypeOK, ClaimVersion
  <2>2. FreshSeen'
    BY <1>1 DEF TypeOK, FreshSeen, ClaimVersion
  <2> QED BY <2>1, <2>2
<1>2. CASE ClaimRead(r)
  <2>1. TypeOK'
    BY <1>2 DEF TypeOK, ClaimRead
  <2>2. FreshSeen'
    BY <1>2 DEF TypeOK, FreshSeen, ClaimRead, Effective
  <2> QED BY <2>1, <2>2
<1>3. CASE ClaimFile(r)
  <2>1. TypeOK'
    BY <1>3 DEF TypeOK, ClaimFile
  <2>2. FreshSeen'
    BY <1>3 DEF TypeOK, FreshSeen, ClaimFile
  <2> QED BY <2>1, <2>2
<1>4. CASE ClaimSwap(r)
  <2>1. TypeOK'
    BY <1>4 DEF TypeOK, ClaimSwap, Put
  <2>2. FreshSeen'
    BY <1>4 DEF TypeOK, FreshSeen, ClaimSwap, Put
  <2> QED BY <2>1, <2>2
<1>5. CASE ClaimUndo(r)
  <2>1. TypeOK'
    BY <1>5 DEF TypeOK, ClaimUndo
  <2>2. FreshSeen'
    BY <1>5 DEF TypeOK, FreshSeen, ClaimUndo
  <2> QED BY <2>1, <2>2
<1> QED BY <1>1, <1>2, <1>3, <1>4, <1>5

LEMMA TouchReads ==
  ASSUME Reads, NEW r \in Run, TouchVersion(r) \/ TouchRead(r) \/ TouchSwap(r)
  PROVE  Reads'
<1> USE ActorsAssumption DEF Reads, TouchEnds, record, versions
<1>1. CASE TouchVersion(r)
  <2>1. TypeOK'
    BY <1>1 DEF TypeOK, TouchVersion
  <2>2. FreshSeen'
    BY <1>1 DEF TypeOK, FreshSeen, TouchVersion
  <2> QED BY <2>1, <2>2
<1>2. CASE TouchRead(r)
  <2>1. TypeOK'
    BY <1>2 DEF TypeOK, TouchRead
  <2>2. FreshSeen'
    BY <1>2 DEF TypeOK, FreshSeen, TouchRead
  <2> QED BY <2>1, <2>2
<1>3. CASE TouchSwap(r)
  <2>1. TypeOK'
    BY <1>3 DEF TypeOK, FreshSeen, TouchSwap, Put, CurrentBeat
  <2>2. FreshSeen'
    BY <1>3 DEF TypeOK, FreshSeen, TouchSwap, Put
  <2> QED BY <2>1, <2>2
<1> QED BY <1>1, <1>2, <1>3

LEMMA WorkerReads ==
  ASSUME Reads, NEW w \in Worker,
         \/ Check(w) \/ WriteEnds(w) \/ WriteFails(w)
         \/ ConsumeVersion(w) \/ ConsumeRead(w) \/ ConsumeSwap(w) \/ Unlink(w)
  PROVE  Reads'
<1> USE ActorsAssumption DEF Reads, Goto, Drop, TakeVersion, record, versions
<1>1. CASE Check(w)
  <2>1. TypeOK'
    BY <1>1 DEF TypeOK, Check
  <2>2. FreshSeen'
    BY <1>1 DEF TypeOK, FreshSeen, Check
  <2> QED BY <2>1, <2>2
<1>2. CASE WriteEnds(w)
  <2>1. TypeOK'
    BY <1>2 DEF TypeOK, WriteEnds
  <2>2. FreshSeen'
    BY <1>2 DEF TypeOK, FreshSeen, WriteEnds
  <2> QED BY <2>1, <2>2
<1>3. CASE WriteFails(w)
  <2>1. TypeOK'
    BY <1>3 DEF TypeOK, WriteFails
  <2>2. FreshSeen'
    BY <1>3 DEF TypeOK, FreshSeen, WriteFails
  <2> QED BY <2>1, <2>2
<1>4. CASE ConsumeVersion(w)
  <2>1. TypeOK'
    BY <1>4 DEF TypeOK, ConsumeVersion
  <2>2. FreshSeen'
    BY <1>4 DEF TypeOK, FreshSeen, ConsumeVersion
  <2> QED BY <2>1, <2>2
<1>5. CASE ConsumeRead(w)
  <2>1. TypeOK'
    BY <1>5 DEF TypeOK, ConsumeRead
  <2>2. FreshSeen'
    BY <1>5 DEF TypeOK, FreshSeen, ConsumeRead, Effective
  <2> QED BY <2>1, <2>2
<1>6. CASE ConsumeSwap(w)
  <2>1. TypeOK'
    BY <1>6 DEF TypeOK, ConsumeSwap, Put, Conflict
  <2>2. FreshSeen'
    BY <1>6 DEF TypeOK, FreshSeen, ConsumeSwap, Put, Conflict
  <2> QED BY <2>1, <2>2
<1>7. CASE Unlink(w)
  <2>1. TypeOK'
    BY <1>7 DEF TypeOK, Unlink
  <2>2. FreshSeen'
    BY <1>7 DEF TypeOK, FreshSeen, Unlink
  <2> QED BY <2>1, <2>2
<1> QED BY <1>1, <1>2, <1>3, <1>4, <1>5, <1>6, <1>7

LEMMA OperatorReads ==
  ASSUME Reads, NEW o \in Operator,
         \/ Decide(o) \/ ReleaseVersion(o) \/ ReleaseRead(o) \/ OrphanLook(o)
         \/ ReleaseSwap(o) \/ ReleaseUnlink(o)
  PROVE  Reads'
<1> USE ActorsAssumption DEF Reads, Goto, Drop, TakeVersion, record, versions
<1>1. CASE Decide(o)
  <2>1. TypeOK'
    BY <1>1 DEF TypeOK, Decide
  <2>2. FreshSeen'
    BY <1>1 DEF TypeOK, FreshSeen, Decide
  <2> QED BY <2>1, <2>2
<1>2. CASE ReleaseVersion(o)
  <2>1. TypeOK'
    BY <1>2 DEF TypeOK, ReleaseVersion
  <2>2. FreshSeen'
    BY <1>2 DEF TypeOK, FreshSeen, ReleaseVersion
  <2> QED BY <2>1, <2>2
<1>3. CASE ReleaseRead(o)
  <2>1. TypeOK'
    BY <1>3 DEF TypeOK, ReleaseRead
  <2>2. FreshSeen'
    BY <1>3 DEF TypeOK, FreshSeen, ReleaseRead, Effective
  <2> QED BY <2>1, <2>2
<1>4. CASE OrphanLook(o)
  <2>1. TypeOK'
    BY <1>4 DEF TypeOK, OrphanLook
  <2>2. FreshSeen'
    BY <1>4 DEF TypeOK, FreshSeen, OrphanLook
  <2> QED BY <2>1, <2>2
<1>5. CASE ReleaseSwap(o)
  <2>1. TypeOK'
    BY <1>5 DEF TypeOK, ReleaseSwap, Put, Conflict
  <2>2. FreshSeen'
    BY <1>5 DEF TypeOK, FreshSeen, ReleaseSwap, Put, Conflict
  <2> QED BY <2>1, <2>2
<1>6. CASE ReleaseUnlink(o)
  <2>1. TypeOK'
    BY <1>6 DEF TypeOK, ReleaseUnlink
  <2>2. FreshSeen'
    BY <1>6 DEF TypeOK, FreshSeen, ReleaseUnlink
  <2> QED BY <2>1, <2>2
<1> QED BY <1>1, <1>2, <1>3, <1>4, <1>5, <1>6

LEMMA OtherReads ==
  ASSUME Reads, Expire \/ UNCHANGED vars \/ (\E a \in Actor : Dies(a))
  PROVE  Reads'
<1> USE ActorsAssumption DEF Reads, record, versions
<1>1. CASE Expire
  BY <1>1 DEF TypeOK, FreshSeen, Expire
<1>2. CASE UNCHANGED vars
  BY <1>2 DEF TypeOK, FreshSeen, vars
<1>3. ASSUME NEW a \in Actor, Dies(a) PROVE Reads'
  <2>1. TypeOK'
    BY <1>3 DEF TypeOK, Dies, Goto, Drop
  <2>2. FreshSeen'
    BY <1>3 DEF TypeOK, FreshSeen, Dies, Goto, Drop
  <2> QED BY <2>1, <2>2
<1> QED BY <1>1, <1>2, <1>3

LEMMA ReadsStep == Reads /\ [Next]_vars => Reads'
  BY ClaimReads, TouchReads, WorkerReads, OperatorReads, OtherReads DEF Next

LEMMA ReadsCorrect == Spec => []Reads
  BY ReadsInit, ReadsStep, PTL DEF Spec

\* Every variable keeps its type and each actor its own places, in particular
\* a claimed record always names the command that claimed it.
THEOREM TypeCorrect == Spec => []TypeOK
<1>1. Reads => TypeOK
  BY DEF Reads
<1> QED BY <1>1, ReadsCorrect, PTL
-----------------------------------------------------------------------------
(* Commands exclude each other.                                            *)

HasClaimed(r) == pc[r] \in {"write", "failed", "conflict"} \cup Consuming \cup Used

Holders ==
    \A r \in Run \ evicted : HasClaimed(r) => status # "unused" /\ holder = r

LEMMA HoldersStep ==
  ASSUME Reads, Holders, [Next]_vars
  PROVE  Holders'
<1> USE ActorsAssumption DEF Reads, TypeOK, FreshSeen, Holders, HasClaimed, Current, Goto, Drop, TakeVersion, record, versions
<1>1. ASSUME NEW r \in Run,
            \/ ClaimVersion(r) \/ ClaimRead(r) \/ ClaimFile(r) \/ ClaimSwap(r)
            \/ ClaimUndo(r) \/ TouchVersion(r) \/ TouchRead(r) \/ TouchSwap(r)
      PROVE  Holders'
  <2>1. CASE ClaimVersion(r)
    BY <2>1 DEF ClaimVersion
  <2>2. CASE ClaimRead(r)
    BY <2>2 DEF ClaimRead
  <2>3. CASE ClaimFile(r)
    BY <2>3 DEF ClaimFile
  <2>4. CASE ClaimSwap(r)
    BY <2>4 DEF ClaimSwap, Put
  <2>5. CASE ClaimUndo(r)
    BY <2>5 DEF ClaimUndo
  <2>6. CASE TouchVersion(r)
    BY <2>6 DEF TouchVersion
  <2>7. CASE TouchRead(r)
    BY <2>7 DEF TouchRead, TouchEnds
  <2>8. CASE TouchSwap(r)
    BY <2>8 DEF TouchSwap, Put, TouchEnds, CurrentBeat
  <2> QED BY <1>1, <2>1, <2>2, <2>3, <2>4, <2>5, <2>6, <2>7, <2>8
<1>2. ASSUME NEW w \in Worker,
            \/ Check(w) \/ WriteEnds(w) \/ WriteFails(w) \/ ConsumeVersion(w)
            \/ ConsumeRead(w) \/ ConsumeSwap(w) \/ Unlink(w)
      PROVE  Holders'
  <2>1. CASE Check(w)
    BY <2>1 DEF Check
  <2>2. CASE WriteEnds(w)
    BY <2>2 DEF WriteEnds
  <2>3. CASE WriteFails(w)
    BY <2>3 DEF WriteFails
  <2>4. CASE ConsumeVersion(w)
    BY <2>4 DEF ConsumeVersion
  <2>5. CASE ConsumeRead(w)
    BY <2>5 DEF ConsumeRead
  <2>6. CASE ConsumeSwap(w)
    BY <2>6 DEF ConsumeSwap, Put, Conflict
  <2>7. CASE Unlink(w)
    BY <2>7 DEF Unlink
  <2> QED BY <1>2, <2>1, <2>2, <2>3, <2>4, <2>5, <2>6, <2>7
<1>3. ASSUME NEW o \in Operator,
            \/ Decide(o) \/ ReleaseVersion(o) \/ ReleaseRead(o) \/ OrphanLook(o)
            \/ ReleaseSwap(o) \/ ReleaseUnlink(o)
      PROVE  Holders'
  <2>1. CASE Decide(o)
    BY <2>1 DEF Decide
  <2>2. CASE ReleaseVersion(o)
    BY <2>2 DEF ReleaseVersion
  <2>3. CASE ReleaseRead(o)
    BY <2>3 DEF ReleaseRead
  <2>4. CASE OrphanLook(o)
    BY <2>4 DEF OrphanLook
  <2>5. CASE ReleaseSwap(o)
    BY <2>5 DEF ReleaseSwap, Put, Conflict
  <2>6. CASE ReleaseUnlink(o)
    BY <2>6 DEF ReleaseUnlink
  <2> QED BY <1>3, <2>1, <2>2, <2>3, <2>4, <2>5, <2>6
<1>4. ASSUME NEW a \in Actor, Dies(a) PROVE Holders'
  BY <1>4 DEF Dies
<1>5. CASE Expire
  BY <1>5 DEF Expire
<1>6. CASE UNCHANGED vars
  BY <1>6 DEF vars
<1> QED BY <1>1, <1>2, <1>3, <1>4, <1>5, <1>6 DEF Next

LEMMA HoldersCorrect == Spec => []Holders
<1>1. Init => Holders
  BY DEF Init, Holders, HasClaimed
<1> QED BY <1>1, HoldersStep, ReadsCorrect, PTL DEF Spec

\* Two commands never write under one approval, if no claim of a living command
\* has been released; the .claim file has no part in the argument.
THEOREM WritersCorrect == Spec => []WritersExclude
<1>1. Holders => WritersExclude
  BY DEF Holders, HasClaimed, WritersExclude, Writing
<1> QED BY <1>1, HoldersCorrect, PTL
-----------------------------------------------------------------------------
(* One use.                                                                *)

LEMMA UseStep ==
  ASSUME Reads, OneUse, [Next]_vars
  PROVE  OneUse'
<1> USE ActorsAssumption DEF Reads, TypeOK, FreshSeen, OneUse, Current, Goto, Drop, TakeVersion, record, versions
<1>1. ASSUME NEW r \in Run,
            \/ ClaimVersion(r) \/ ClaimRead(r) \/ ClaimFile(r) \/ ClaimSwap(r)
            \/ ClaimUndo(r) \/ TouchVersion(r) \/ TouchRead(r) \/ TouchSwap(r)
      PROVE  OneUse'
  <2>1. CASE ClaimVersion(r)
    BY <2>1 DEF ClaimVersion
  <2>2. CASE ClaimRead(r)
    BY <2>2 DEF ClaimRead
  <2>3. CASE ClaimFile(r)
    BY <2>3 DEF ClaimFile
  <2>4. CASE ClaimSwap(r)
    BY <2>4 DEF ClaimSwap, Put
  <2>5. CASE ClaimUndo(r)
    BY <2>5 DEF ClaimUndo
  <2>6. CASE TouchVersion(r)
    BY <2>6 DEF TouchVersion
  <2>7. CASE TouchRead(r)
    BY <2>7 DEF TouchRead, TouchEnds
  <2>8. CASE TouchSwap(r)
    BY <2>8 DEF TouchSwap, Put, TouchEnds, CurrentBeat
  <2> QED BY <1>1, <2>1, <2>2, <2>3, <2>4, <2>5, <2>6, <2>7, <2>8
<1>2. ASSUME NEW w \in Worker,
            \/ Check(w) \/ WriteEnds(w) \/ WriteFails(w) \/ ConsumeVersion(w)
            \/ ConsumeRead(w) \/ ConsumeSwap(w) \/ Unlink(w)
      PROVE  OneUse'
  <2>1. CASE Check(w)
    BY <2>1 DEF Check
  <2>2. CASE WriteEnds(w)
    BY <2>2 DEF WriteEnds
  <2>3. CASE WriteFails(w)
    BY <2>3 DEF WriteFails
  <2>4. CASE ConsumeVersion(w)
    BY <2>4 DEF ConsumeVersion
  <2>5. CASE ConsumeRead(w)
    BY <2>5 DEF ConsumeRead
  <2>6. CASE ConsumeSwap(w)
    BY <2>6 DEF ConsumeSwap, Put, Conflict
  <2>7. CASE Unlink(w)
    BY <2>7 DEF Unlink
  <2> QED BY <1>2, <2>1, <2>2, <2>3, <2>4, <2>5, <2>6, <2>7
<1>3. ASSUME NEW o \in Operator,
            \/ Decide(o) \/ ReleaseVersion(o) \/ ReleaseRead(o) \/ OrphanLook(o)
            \/ ReleaseSwap(o) \/ ReleaseUnlink(o)
      PROVE  OneUse'
  <2>1. CASE Decide(o)
    BY <2>1 DEF Decide
  <2>2. CASE ReleaseVersion(o)
    BY <2>2 DEF ReleaseVersion
  <2>3. CASE ReleaseRead(o)
    BY <2>3 DEF ReleaseRead
  <2>4. CASE OrphanLook(o)
    BY <2>4 DEF OrphanLook
  <2>5. CASE ReleaseSwap(o)
    BY <2>5 DEF ReleaseSwap, Put, Conflict
  <2>6. CASE ReleaseUnlink(o)
    BY <2>6 DEF ReleaseUnlink
  <2> QED BY <1>3, <2>1, <2>2, <2>3, <2>4, <2>5, <2>6
<1>4. ASSUME NEW a \in Actor, Dies(a) PROVE OneUse'
  BY <1>4 DEF Dies
<1>5. CASE Expire
  BY <1>5 DEF Expire
<1>6. CASE UNCHANGED vars
  BY <1>6 DEF vars
<1> QED BY <1>1, <1>2, <1>3, <1>4, <1>5, <1>6 DEF Next

\* At most one command or task ends well, and the record then stays consumed.
THEOREM UseCorrect == Spec => []OneUse
<1>1. Init => OneUse
  BY ActorsAssumption DEF Init, OneUse
<1> QED BY <1>1, UseStep, ReadsCorrect, PTL DEF Spec
-----------------------------------------------------------------------------
(* A consume loses to its own heartbeat at most once.                      *)

BeatOwn == \A r \in Run : beat[r] # "off" => HasClaimed(r)

Retries == \A w \in Worker \cap retried : pc[w] \in Consuming

\* Once a consume has lost, the only touch that can have beaten it has ended.
Tries ==
    evicted = {} /\ status = "claimed" =>
      \A r \in Run :
        /\ pc[r] \in Consuming /\ r \in retried => beat[r] = "off"
        /\ pc[r] \in {"consumeRead", "consumeSwap"} /\ r \notin fresh
             => r \notin retried /\ beat[r] = "off"

LEMMA BeatStep ==
  ASSUME Reads, BeatOwn, [Next]_vars
  PROVE  BeatOwn'
<1> USE ActorsAssumption DEF Reads, TypeOK, BeatOwn, HasClaimed, Goto, Drop, TakeVersion, record, versions
<1>1. ASSUME NEW r \in Run,
            \/ ClaimVersion(r) \/ ClaimRead(r) \/ ClaimFile(r) \/ ClaimSwap(r)
            \/ ClaimUndo(r) \/ TouchVersion(r) \/ TouchRead(r) \/ TouchSwap(r)
      PROVE  BeatOwn'
  <2>1. CASE ClaimVersion(r)
    BY <2>1 DEF ClaimVersion
  <2>2. CASE ClaimRead(r)
    BY <2>2 DEF ClaimRead
  <2>3. CASE ClaimFile(r)
    BY <2>3 DEF ClaimFile
  <2>4. CASE ClaimSwap(r)
    BY <2>4 DEF ClaimSwap, Put
  <2>5. CASE ClaimUndo(r)
    BY <2>5 DEF ClaimUndo
  <2>6. CASE TouchVersion(r)
    BY <2>6 DEF TouchVersion
  <2>7. CASE TouchRead(r)
    BY <2>7 DEF TouchRead, TouchEnds
  <2>8. CASE TouchSwap(r)
    BY <2>8 DEF TouchSwap, Put, TouchEnds, CurrentBeat
  <2> QED BY <1>1, <2>1, <2>2, <2>3, <2>4, <2>5, <2>6, <2>7, <2>8
<1>2. ASSUME NEW w \in Worker,
            \/ Check(w) \/ WriteEnds(w) \/ WriteFails(w) \/ ConsumeVersion(w)
            \/ ConsumeRead(w) \/ ConsumeSwap(w) \/ Unlink(w)
      PROVE  BeatOwn'
  <2>1. CASE Check(w)
    BY <2>1 DEF Check
  <2>2. CASE WriteEnds(w)
    BY <2>2 DEF WriteEnds
  <2>3. CASE WriteFails(w)
    BY <2>3 DEF WriteFails
  <2>4. CASE ConsumeVersion(w)
    BY <2>4 DEF ConsumeVersion
  <2>5. CASE ConsumeRead(w)
    BY <2>5 DEF ConsumeRead
  <2>6. CASE ConsumeSwap(w)
    BY <2>6 DEF ConsumeSwap, Put, Conflict
  <2>7. CASE Unlink(w)
    BY <2>7 DEF Unlink
  <2> QED BY <1>2, <2>1, <2>2, <2>3, <2>4, <2>5, <2>6, <2>7
<1>3. ASSUME NEW o \in Operator,
            \/ Decide(o) \/ ReleaseVersion(o) \/ ReleaseRead(o) \/ OrphanLook(o)
            \/ ReleaseSwap(o) \/ ReleaseUnlink(o)
      PROVE  BeatOwn'
  <2>1. CASE Decide(o)
    BY <2>1 DEF Decide
  <2>2. CASE ReleaseVersion(o)
    BY <2>2 DEF ReleaseVersion
  <2>3. CASE ReleaseRead(o)
    BY <2>3 DEF ReleaseRead
  <2>4. CASE OrphanLook(o)
    BY <2>4 DEF OrphanLook
  <2>5. CASE ReleaseSwap(o)
    BY <2>5 DEF ReleaseSwap, Put, Conflict
  <2>6. CASE ReleaseUnlink(o)
    BY <2>6 DEF ReleaseUnlink
  <2> QED BY <1>3, <2>1, <2>2, <2>3, <2>4, <2>5, <2>6
<1>4. ASSUME NEW a \in Actor, Dies(a) PROVE BeatOwn'
  BY <1>4 DEF Dies
<1>5. CASE Expire
  BY <1>5 DEF Expire
<1>6. CASE UNCHANGED vars
  BY <1>6 DEF vars
<1> QED BY <1>1, <1>2, <1>3, <1>4, <1>5, <1>6 DEF Next

LEMMA RetriesStep ==
  ASSUME Reads, Retries, [Next]_vars
  PROVE  Retries'
<1> USE ActorsAssumption DEF Reads, TypeOK, Retries, Goto, Drop, TakeVersion, record, versions
<1>1. ASSUME NEW r \in Run,
            \/ ClaimVersion(r) \/ ClaimRead(r) \/ ClaimFile(r) \/ ClaimSwap(r)
            \/ ClaimUndo(r) \/ TouchVersion(r) \/ TouchRead(r) \/ TouchSwap(r)
      PROVE  Retries'
  <2>1. CASE ClaimVersion(r)
    BY <2>1 DEF ClaimVersion
  <2>2. CASE ClaimRead(r)
    BY <2>2 DEF ClaimRead
  <2>3. CASE ClaimFile(r)
    BY <2>3 DEF ClaimFile
  <2>4. CASE ClaimSwap(r)
    BY <2>4 DEF ClaimSwap, Put
  <2>5. CASE ClaimUndo(r)
    BY <2>5 DEF ClaimUndo
  <2>6. CASE TouchVersion(r)
    BY <2>6 DEF TouchVersion
  <2>7. CASE TouchRead(r)
    BY <2>7 DEF TouchRead, TouchEnds
  <2>8. CASE TouchSwap(r)
    BY <2>8 DEF TouchSwap, Put, TouchEnds, CurrentBeat
  <2> QED BY <1>1, <2>1, <2>2, <2>3, <2>4, <2>5, <2>6, <2>7, <2>8
<1>2. ASSUME NEW w \in Worker,
            \/ Check(w) \/ WriteEnds(w) \/ WriteFails(w) \/ ConsumeVersion(w)
            \/ ConsumeRead(w) \/ ConsumeSwap(w) \/ Unlink(w)
      PROVE  Retries'
  <2>1. CASE Check(w)
    BY <2>1 DEF Check
  <2>2. CASE WriteEnds(w)
    BY <2>2 DEF WriteEnds
  <2>3. CASE WriteFails(w)
    BY <2>3 DEF WriteFails
  <2>4. CASE ConsumeVersion(w)
    BY <2>4 DEF ConsumeVersion
  <2>5. CASE ConsumeRead(w)
    BY <2>5 DEF ConsumeRead
  <2>6. CASE ConsumeSwap(w)
    BY <2>6 DEF ConsumeSwap, Put, Conflict
  <2>7. CASE Unlink(w)
    BY <2>7 DEF Unlink
  <2> QED BY <1>2, <2>1, <2>2, <2>3, <2>4, <2>5, <2>6, <2>7
<1>3. ASSUME NEW o \in Operator,
            \/ Decide(o) \/ ReleaseVersion(o) \/ ReleaseRead(o) \/ OrphanLook(o)
            \/ ReleaseSwap(o) \/ ReleaseUnlink(o)
      PROVE  Retries'
  <2>1. CASE Decide(o)
    BY <2>1 DEF Decide
  <2>2. CASE ReleaseVersion(o)
    BY <2>2 DEF ReleaseVersion
  <2>3. CASE ReleaseRead(o)
    BY <2>3 DEF ReleaseRead
  <2>4. CASE OrphanLook(o)
    BY <2>4 DEF OrphanLook
  <2>5. CASE ReleaseSwap(o)
    BY <2>5 DEF ReleaseSwap, Put, Conflict
  <2>6. CASE ReleaseUnlink(o)
    BY <2>6 DEF ReleaseUnlink
  <2> QED BY <1>3, <2>1, <2>2, <2>3, <2>4, <2>5, <2>6
<1>4. ASSUME NEW a \in Actor, Dies(a) PROVE Retries'
  BY <1>4 DEF Dies
<1>5. CASE Expire
  BY <1>5 DEF Expire
<1>6. CASE UNCHANGED vars
  BY <1>6 DEF vars
<1> QED BY <1>1, <1>2, <1>3, <1>4, <1>5, <1>6 DEF Next

LEMMA TriesStep ==
  ASSUME Reads, Holders, BeatOwn, Retries, Tries, [Next]_vars
  PROVE  Tries'
<1> USE ActorsAssumption DEF Reads, TypeOK, FreshSeen, Holders, HasClaimed, BeatOwn, Retries, Tries, Current, Goto, Drop, TakeVersion, record, versions
<1>1. ASSUME NEW r \in Run,
            \/ ClaimVersion(r) \/ ClaimRead(r) \/ ClaimFile(r) \/ ClaimSwap(r)
            \/ ClaimUndo(r) \/ TouchVersion(r) \/ TouchRead(r) \/ TouchSwap(r)
      PROVE  Tries'
  <2>1. CASE ClaimVersion(r)
    BY <2>1 DEF ClaimVersion
  <2>2. CASE ClaimRead(r)
    BY <2>2 DEF ClaimRead
  <2>3. CASE ClaimFile(r)
    BY <2>3 DEF ClaimFile
  <2>4. CASE ClaimSwap(r)
    BY <2>4 DEF ClaimSwap, Put
  <2>5. CASE ClaimUndo(r)
    BY <2>5 DEF ClaimUndo
  <2>6. CASE TouchVersion(r)
    BY <2>6 DEF TouchVersion
  <2>7. CASE TouchRead(r)
    BY <2>7 DEF TouchRead, TouchEnds
  <2>8. CASE TouchSwap(r)
    BY <2>8 DEF TouchSwap, Put, TouchEnds, CurrentBeat
  <2> QED BY <1>1, <2>1, <2>2, <2>3, <2>4, <2>5, <2>6, <2>7, <2>8
<1>2. ASSUME NEW w \in Worker,
            \/ Check(w) \/ WriteEnds(w) \/ WriteFails(w) \/ ConsumeVersion(w)
            \/ ConsumeRead(w) \/ ConsumeSwap(w) \/ Unlink(w)
      PROVE  Tries'
  <2>1. CASE Check(w)
    BY <2>1 DEF Check
  <2>2. CASE WriteEnds(w)
    BY <2>2 DEF WriteEnds
  <2>3. CASE WriteFails(w)
    BY <2>3 DEF WriteFails
  <2>4. CASE ConsumeVersion(w)
    BY <2>4 DEF ConsumeVersion
  <2>5. CASE ConsumeRead(w)
    BY <2>5 DEF ConsumeRead
  <2>6. CASE ConsumeSwap(w)
    BY <2>6 DEF ConsumeSwap, Put, Conflict
  <2>7. CASE Unlink(w)
    BY <2>7 DEF Unlink
  <2> QED BY <1>2, <2>1, <2>2, <2>3, <2>4, <2>5, <2>6, <2>7
<1>3. ASSUME NEW o \in Operator,
            \/ Decide(o) \/ ReleaseVersion(o) \/ ReleaseRead(o) \/ OrphanLook(o)
            \/ ReleaseSwap(o) \/ ReleaseUnlink(o)
      PROVE  Tries'
  <2>1. CASE Decide(o)
    BY <2>1 DEF Decide
  <2>2. CASE ReleaseVersion(o)
    BY <2>2 DEF ReleaseVersion
  <2>3. CASE ReleaseRead(o)
    BY <2>3 DEF ReleaseRead
  <2>4. CASE OrphanLook(o)
    BY <2>4 DEF OrphanLook
  <2>5. CASE ReleaseSwap(o)
    BY <2>5 DEF ReleaseSwap, Put, Conflict
  <2>6. CASE ReleaseUnlink(o)
    BY <2>6 DEF ReleaseUnlink
  <2> QED BY <1>3, <2>1, <2>2, <2>3, <2>4, <2>5, <2>6
<1>4. ASSUME NEW a \in Actor, Dies(a) PROVE Tries'
  BY <1>4 DEF Dies
<1>5. CASE Expire
  BY <1>5 DEF Expire
<1>6. CASE UNCHANGED vars
  BY <1>6 DEF vars
<1> QED BY <1>1, <1>2, <1>3, <1>4, <1>5, <1>6 DEF Next

LEMMA ConflictStep ==
  ASSUME Reads, Holders, Tries, ConflictIsForeign, [Next]_vars
  PROVE  ConflictIsForeign'
<1> USE ActorsAssumption DEF Reads, TypeOK, FreshSeen, Holders, HasClaimed, Tries, ConflictIsForeign, Current, Goto, Drop, TakeVersion, record, versions
<1>1. ASSUME NEW r \in Run,
            \/ ClaimVersion(r) \/ ClaimRead(r) \/ ClaimFile(r) \/ ClaimSwap(r)
            \/ ClaimUndo(r) \/ TouchVersion(r) \/ TouchRead(r) \/ TouchSwap(r)
      PROVE  ConflictIsForeign'
  <2>1. CASE ClaimVersion(r)
    BY <2>1 DEF ClaimVersion
  <2>2. CASE ClaimRead(r)
    BY <2>2 DEF ClaimRead
  <2>3. CASE ClaimFile(r)
    BY <2>3 DEF ClaimFile
  <2>4. CASE ClaimSwap(r)
    BY <2>4 DEF ClaimSwap, Put
  <2>5. CASE ClaimUndo(r)
    BY <2>5 DEF ClaimUndo
  <2>6. CASE TouchVersion(r)
    BY <2>6 DEF TouchVersion
  <2>7. CASE TouchRead(r)
    BY <2>7 DEF TouchRead, TouchEnds
  <2>8. CASE TouchSwap(r)
    BY <2>8 DEF TouchSwap, Put, TouchEnds, CurrentBeat
  <2> QED BY <1>1, <2>1, <2>2, <2>3, <2>4, <2>5, <2>6, <2>7, <2>8
<1>2. ASSUME NEW w \in Worker,
            \/ Check(w) \/ WriteEnds(w) \/ WriteFails(w) \/ ConsumeVersion(w)
            \/ ConsumeRead(w) \/ ConsumeSwap(w) \/ Unlink(w)
      PROVE  ConflictIsForeign'
  <2>1. CASE Check(w)
    BY <2>1 DEF Check
  <2>2. CASE WriteEnds(w)
    BY <2>2 DEF WriteEnds
  <2>3. CASE WriteFails(w)
    BY <2>3 DEF WriteFails
  <2>4. CASE ConsumeVersion(w)
    BY <2>4 DEF ConsumeVersion
  <2>5. CASE ConsumeRead(w)
    BY <2>5 DEF ConsumeRead
  <2>6. CASE ConsumeSwap(w)
    BY <2>6 DEF ConsumeSwap, Put, Conflict
  <2>7. CASE Unlink(w)
    BY <2>7 DEF Unlink
  <2> QED BY <1>2, <2>1, <2>2, <2>3, <2>4, <2>5, <2>6, <2>7
<1>3. ASSUME NEW o \in Operator,
            \/ Decide(o) \/ ReleaseVersion(o) \/ ReleaseRead(o) \/ OrphanLook(o)
            \/ ReleaseSwap(o) \/ ReleaseUnlink(o)
      PROVE  ConflictIsForeign'
  <2>1. CASE Decide(o)
    BY <2>1 DEF Decide
  <2>2. CASE ReleaseVersion(o)
    BY <2>2 DEF ReleaseVersion
  <2>3. CASE ReleaseRead(o)
    BY <2>3 DEF ReleaseRead
  <2>4. CASE OrphanLook(o)
    BY <2>4 DEF OrphanLook
  <2>5. CASE ReleaseSwap(o)
    BY <2>5 DEF ReleaseSwap, Put, Conflict
  <2>6. CASE ReleaseUnlink(o)
    BY <2>6 DEF ReleaseUnlink
  <2> QED BY <1>3, <2>1, <2>2, <2>3, <2>4, <2>5, <2>6
<1>4. ASSUME NEW a \in Actor, Dies(a) PROVE ConflictIsForeign'
  BY <1>4 DEF Dies
<1>5. CASE Expire
  BY <1>5 DEF Expire
<1>6. CASE UNCHANGED vars
  BY <1>6 DEF vars
<1> QED BY <1>1, <1>2, <1>3, <1>4, <1>5, <1>6 DEF Next

\* If no claim of a living command has been released, a command whose consume
\* ends in a conflict has lost to another use of the approval.
THEOREM ConflictCorrect == Spec => []ConflictIsForeign
<1>1. Init => BeatOwn /\ Retries /\ Tries /\ ConflictIsForeign
  BY ActorsAssumption DEF Init, BeatOwn, Retries, Tries, ConflictIsForeign
<1>2. Spec => []BeatOwn
  BY <1>1, BeatStep, ReadsCorrect, PTL DEF Spec
<1>3. Spec => []Retries
  BY <1>1, RetriesStep, ReadsCorrect, PTL DEF Spec
<1>4. Spec => []Tries
  BY <1>1, <1>2, <1>3, TriesStep, HoldersCorrect, ReadsCorrect, PTL DEF Spec
<1> QED BY <1>1, <1>4, ConflictStep, HoldersCorrect, ReadsCorrect, PTL DEF Spec
-----------------------------------------------------------------------------
(* The store keeps the contract.                                           *)

Admitted == {r \in Run : pc[r] \in {"claimFile", "claimSwap"}}

ContractStep == [Approval!Next]_<<status, holder, expired, Admitted>>

\* A step that leaves the record and the TTL alone, and admits nobody.
LEMMA Stutters ==
  ASSUME UNCHANGED <<status, holder, expired>>, Admitted' = Admitted
  PROVE  ContractStep
  BY DEF ContractStep

LEMMA ContractSteps ==
  ASSUME Reads, [Next]_vars
  PROVE  ContractStep
<1> USE ActorsAssumption DEF Reads, TypeOK, FreshSeen, Goto, Drop, TakeVersion, record, versions
<1>1. ASSUME NEW r \in Run, ClaimVersion(r) PROVE ContractStep
  BY <1>1, Stutters DEF ClaimVersion, Admitted
<1>2. ASSUME NEW r \in Run, ClaimUndo(r) PROVE ContractStep
  BY <1>2, Stutters DEF ClaimUndo, Admitted
<1>3. ASSUME NEW r \in Run, TouchVersion(r) PROVE ContractStep
  BY <1>3, Stutters DEF TouchVersion, Admitted
<1>4. ASSUME NEW r \in Run, TouchRead(r) PROVE ContractStep
  BY <1>4, Stutters DEF TouchRead, TouchEnds, Admitted
<1>5. ASSUME NEW w \in Worker, Check(w) PROVE ContractStep
  BY <1>5, Stutters DEF Check, Admitted
<1>6. ASSUME NEW w \in Worker, WriteEnds(w) PROVE ContractStep
  BY <1>6, Stutters DEF WriteEnds, Admitted
<1>7. ASSUME NEW w \in Worker, WriteFails(w) PROVE ContractStep
  BY <1>7, Stutters DEF WriteFails, Admitted
<1>8. ASSUME NEW w \in Worker, ConsumeVersion(w) PROVE ContractStep
  BY <1>8, Stutters DEF ConsumeVersion, Admitted
<1>9. ASSUME NEW w \in Worker, ConsumeRead(w) PROVE ContractStep
  BY <1>9, Stutters DEF ConsumeRead, Admitted
<1>10. ASSUME NEW w \in Worker, Unlink(w) PROVE ContractStep
  BY <1>10, Stutters DEF Unlink, Admitted
<1>11. ASSUME NEW o \in Operator, Decide(o) PROVE ContractStep
  BY <1>11, Stutters DEF Decide, Admitted
<1>12. ASSUME NEW o \in Operator, ReleaseVersion(o) PROVE ContractStep
  BY <1>12, Stutters DEF ReleaseVersion, Admitted
<1>13. ASSUME NEW o \in Operator, ReleaseRead(o) PROVE ContractStep
  BY <1>13, Stutters DEF ReleaseRead, Admitted
<1>14. ASSUME NEW o \in Operator, OrphanLook(o) PROVE ContractStep
  BY <1>14, Stutters DEF OrphanLook, Admitted
<1>15. ASSUME NEW o \in Operator, ReleaseUnlink(o) PROVE ContractStep
  BY <1>15, Stutters DEF ReleaseUnlink, Admitted
<1>16. ASSUME NEW r \in Run, TouchSwap(r) PROVE ContractStep
  <2>1. status' = status /\ holder' = holder
    BY <1>16 DEF TouchSwap, Put, CurrentBeat
  <2> QED BY <1>16, <2>1, Stutters DEF TouchSwap, Admitted
<1>17. ASSUME NEW r \in Run, ClaimRead(r) PROVE ContractStep
  <2>1. CASE Effective = "unused"
    <3>1. Admitted' = Admitted \cup {r}
      BY <1>17, <2>1 DEF ClaimRead, Admitted
    <3> QED
      BY <1>17, <2>1, <3>1
         DEF ClaimRead, Effective, ContractStep, Approval!Next, Approval!Admit, Admitted
  <2>2. CASE Effective # "unused"
    BY <1>17, <2>2, Stutters DEF ClaimRead, Admitted
  <2> QED BY <2>1, <2>2
<1>18. ASSUME NEW r \in Run, ClaimFile(r) PROVE ContractStep
  <2>1. CASE claim = NoOne
    BY <1>18, <2>1, Stutters DEF ClaimFile, Admitted
  <2>2. CASE claim # NoOne
    <3>1. Admitted' = Admitted \ {r}
      BY <1>18, <2>2 DEF ClaimFile, Admitted
    <3> QED
      BY <1>18, <3>1 DEF ClaimFile, ContractStep, Approval!Next, Approval!TurnAway, Admitted
  <2> QED BY <2>1, <2>2
<1>19. ASSUME NEW r \in Run, ClaimSwap(r) PROVE ContractStep
  <2>1. r \in Admitted /\ Admitted' = Admitted \ {r} /\ expired' = expired
    BY <1>19 DEF ClaimSwap, Admitted
  <2>2. CASE Current(r) /\ Put("claimed", r)
    <3>1. status = "unused"
      BY <1>19, <2>2 DEF ClaimSwap, Current
    <3> QED
      BY <2>1, <2>2, <3>1 DEF Put, ContractStep, Approval!Next, Approval!Claim, Admitted
  <2>3. CASE UNCHANGED record
    BY <2>1, <2>3 DEF ContractStep, Approval!Next, Approval!TurnAway, Admitted
  <2> QED BY <1>19, <2>2, <2>3 DEF ClaimSwap
<1>20. ASSUME NEW w \in Worker, ConsumeSwap(w) PROVE ContractStep
  <2>1. Admitted' = Admitted /\ expired' = expired
    BY <1>20 DEF ConsumeSwap, Conflict, Admitted
  <2>2. CASE Current(w) /\ Put("consumed", holder)
    <3>1. status # "consumed"
      BY <1>20, <2>2 DEF ConsumeSwap, Current
    <3> QED
      BY <2>1, <2>2, <3>1 DEF Put, ContractStep, Approval!Next, Approval!Consume, Admitted
  <2>3. CASE UNCHANGED record
    BY <2>1, <2>3, Stutters
  <2> QED BY <1>20, <2>2, <2>3 DEF ConsumeSwap, Conflict
<1>21. ASSUME NEW o \in Operator, ReleaseSwap(o) PROVE ContractStep
  <2>1. Admitted' = Admitted /\ expired' = expired
    BY <1>21 DEF ReleaseSwap, Conflict, Admitted
  <2>2. CASE Current(o) /\ Put("unused", NoOne)
    <3>1. status = "claimed"
      BY <1>21, <2>2 DEF ReleaseSwap, Current
    <3> QED
      BY <2>1, <2>2, <3>1 DEF Put, ContractStep, Approval!Next, Approval!Release, Admitted
  <2>3. CASE UNCHANGED record
    BY <2>1, <2>3, Stutters
  <2> QED BY <1>21, <2>2, <2>3 DEF ReleaseSwap, Conflict
<1>22. ASSUME NEW a \in Actor, Dies(a) PROVE ContractStep
  <2>1. Admitted' = Admitted \ {a} /\ UNCHANGED <<status, holder, expired>>
    BY <1>22 DEF Dies, Admitted
  <2>2. CASE a \in Run
    BY <2>1, <2>2 DEF ContractStep, Approval!Next, Approval!TurnAway, Admitted
  <2>3. CASE a \notin Run
    <3>1. Admitted' = Admitted
      BY <2>1, <2>3 DEF Admitted
    <3> QED BY <2>1, <3>1, Stutters
  <2> QED BY <2>2, <2>3
<1>23. CASE Expire
  <2>1. Admitted' = Admitted
    BY <1>23 DEF Expire, Admitted
  <2> QED BY <1>23, <2>1 DEF Expire, ContractStep, Approval!Next, Approval!Expire, Admitted
<1>24. CASE UNCHANGED vars
  BY <1>24, Stutters DEF vars, Admitted
<1> QED
  BY <1>1, <1>2, <1>3, <1>4, <1>5, <1>6, <1>7, <1>8, <1>9, <1>10, <1>11, <1>12, <1>13, <1>14,
     <1>15, <1>16, <1>17, <1>18, <1>19, <1>20, <1>21, <1>22, <1>23, <1>24 DEF Next

\* The lake store does nothing the transactions of the Postgres store would not:
\* a claim only of an unused record that was found in time, a use only once.
THEOREM ContractKept == Spec => KeepsApprovalContract
<1>1. Init => Approval!Init
  BY ActorsAssumption DEF Init, Approval!Init
<1>2. Reads /\ [Next]_vars => [Approval!Next]_Approval!contractVars
  BY ContractSteps DEF ContractStep, Approval!contractVars, Admitted
<1> QED
  BY <1>1, <1>2, ReadsCorrect, PTL DEF Spec, KeepsApprovalContract, Approval!Spec
-----------------------------------------------------------------------------
(* ApprovedCommands: what a list gives each flag.                          *)

\* Of a flag that was passed, its value.
Passing(a, name) == {a[n] : n \in {name} \cap DOMAIN a}

Turned(a, name) == {b \in {ValueOf(a, name, FALSE)} : b = TRUE}

Starting(a) == {a.interval_start.instant}

Ending(a) == {a[n].instant : n \in {"interval_end"} \cap DOMAIN a}

\* How often each assignment occurs.
Counted(a) ==
    [x \in Range(Assignments(a)) |->
       Cardinality({i \in DOMAIN Assignments(a) : Assignments(a)[i] = x})]

Assigning(a) == IF Assignments(a) = <<>> THEN {} ELSE {Counted(a)}

\* Lists are put together from parts that give a flag the values of a set.
Pairs(flag, S) == {<<flag, value>> : value \in S}

Join(A, B) == A \cup B

LEMMA ValuesOfJoin ==
    /\ \A A, B, flag : Values(B, flag) = {} => Values(Join(A, B), flag) = Values(A, flag)
    /\ \A A, B, flag : Values(A, flag) = {} => Values(Join(A, B), flag) = Values(B, flag)
  BY DEF Values, Join

LEMMA ValuesOfPairs ==
    /\ \A flag, S : Values(Pairs(flag, S), flag) = S
    /\ \A flag, S, other : other # flag => Values(Pairs(flag, S), other) = {}
  <1>1. ASSUME NEW flag, NEW S PROVE Values(Pairs(flag, S), flag) = S
    <2>1. ASSUME NEW v \in Values(Pairs(flag, S), flag) PROVE v \in S
      BY DEF Values, Pairs
    <2>2. ASSUME NEW v \in S PROVE v \in Values(Pairs(flag, S), flag)
      <3>1. <<flag, v>> \in {x \in Pairs(flag, S) : x[1] = flag} /\ <<flag, v>>[2] = v
        BY DEF Pairs
      <3> QED
        BY <3>1 DEF Values
    <2> QED
      BY <2>1, <2>2
  <1>2. ASSUME NEW flag, NEW S, NEW other, other # flag PROVE Values(Pairs(flag, S), other) = {}
    BY <1>2 DEF Values, Pairs
  <1> QED
    BY <1>1, <1>2

LEMMA OptionParts == \A flag, a, name : Option(flag, a, name) = Pairs(flag, Passing(a, name))
  BY DEF Option, Pairs, Passing

LEMMA SwitchParts == \A flag, a, name : Switch(flag, a, name) = Pairs(flag, Turned(a, name))
  BY DEF Switch, Pairs, Turned

LEMMA IntervalParts ==
    \A a : IntervalArgv(a) = Join(Pairs("-s", Starting(a)), Pairs("-e", Ending(a)))
  BY DEF IntervalArgv, NormInterval, Pairs, Join, Starting, Ending

LEMMA SetParts == \A a : SetArgv(a) = Pairs("--set", Assigning(a))
  BY DEF SetArgv, Pairs, Assigning, Counted

LakeFlags == {"--lake-path", "--lake-path-raw", "--lake-path-bronze", "--lake-path-ops"}

\* A part of a list that selects the lake and says nothing else.
OnlyLake(lake) == \A flag : flag \notin LakeFlags => Values(lake, flag) = {}

LEMMA KwargsOnlyLake == \A settings : OnlyLake(LakeKwargs(settings))
  <1>1. \A settings : \A x \in LakeKwargs(settings) : x[1] \in LakeFlags
    BY DEF LakeFlags, LakeKwargs, LayerFlag, Layers
  <1> QED
    BY <1>1 DEF OnlyLake, Values

\* A list that selects the lake as this part of it does.
SameLake(argv, lake) == \A flag \in LakeFlags : Values(argv, flag) = Values(lake, flag)

LEMMA PruneSays ==
    ASSUME NEW a, NEW lake, OnlyLake(lake), NEW argv, argv = PruneArgv(a, lake)
    PROVE  /\ Values(argv, "-p") = Passing(a, "pipeline")
           /\ Values(argv, "-s") = Starting(a)
           /\ Values(argv, "-e") = Ending(a)
           /\ Values(argv, "--keep") = {ValueOf(a, "keep", 1)}
           /\ Values(argv, "--set") = Assigning(a)
           /\ SameLake(argv, lake)
  <1>1. argv = Join(Join(Join(Join(Join(
          Option("-p", a, "pipeline"), IntervalArgv(a)), Pairs("--keep", {ValueOf(a, "keep", 1)})),
          Pairs("--apply", {TRUE})), lake), SetArgv(a))
    BY DEF PruneArgv, Pairs, Join
  <1> QED
    BY <1>1, ValuesOfJoin, ValuesOfPairs, OptionParts, IntervalParts, SetParts
    DEF OnlyLake, SameLake, LakeFlags

LEMMA GivenIs ==
    ASSUME NEW argv, NEW flag
    PROVE  /\ Values(argv, flag) = {} => /\ ~Has(argv, flag)
                                         /\ \A default : Given(argv, flag, default) = default
           /\ \A value : Values(argv, flag) = {value} =>
                /\ Has(argv, flag)
                /\ \A default : Given(argv, flag, default) = value
  <1>1. \A value : Only({value}) = value
    BY DEF Only
  <1>2. ASSUME NEW value, Values(argv, flag) = {value}
        PROVE  Has(argv, flag) /\ \A default : Given(argv, flag, default) = value
    BY <1>1, <1>2 DEF Has, Given
  <1>3. ASSUME Values(argv, flag) = {}
        PROVE  ~Has(argv, flag) /\ \A default : Given(argv, flag, default) = default
    BY <1>3 DEF Has, Given
  <1> QED
    BY <1>2, <1>3

\* Reading an option, a switch and an interval.
LEMMA ReadOption ==
    ASSUME NEW argv, NEW flag, NEW a, NEW name, Values(argv, flag) = Passing(a, name)
    PROVE  /\ Has(argv, flag) <=> Passed(a, name)
           /\ \A default : Given(argv, flag, default) = ValueOf(a, name, default)
  <1>1. Passing(a, name) = IF name \in DOMAIN a THEN {a[name]} ELSE {}
    BY DEF Passing
  <1>2. CASE name \in DOMAIN a
    <2>1. Values(argv, flag) = {a[name]}
      BY <1>1, <1>2
    <2> QED
      BY <1>2, <2>1, GivenIs DEF Passed, ValueOf
  <1>3. CASE name \notin DOMAIN a
    <2>1. Values(argv, flag) = {}
      BY <1>1, <1>3
    <2> QED
      BY <1>3, <2>1, GivenIs DEF Passed, ValueOf
  <1> QED
    BY <1>2, <1>3

LEMMA ReadSwitch ==
    ASSUME NEW argv, NEW flag, NEW a, NEW name, Values(argv, flag) = Turned(a, name),
           Passed(a, name) => a[name] = TRUE
    PROVE  /\ Has(argv, flag) <=> Passed(a, name)
           /\ Given(argv, flag, FALSE) = ValueOf(a, name, FALSE)
  <1>1. CASE Passed(a, name)
    <2>1. ValueOf(a, name, FALSE) = TRUE
      BY <1>1 DEF ValueOf
    <2>2. Values(argv, flag) = {TRUE}
      BY <2>1 DEF Turned
    <2> QED
      BY <1>1, <2>1, <2>2, GivenIs
  <1>2. CASE ~Passed(a, name)
    <2>1. ValueOf(a, name, FALSE) = FALSE
      BY <1>2 DEF ValueOf
    <2>2. Values(argv, flag) = {}
      BY <2>1 DEF Turned
    <2> QED
      BY <1>2, <2>1, <2>2, GivenIs
  <1> QED
    BY <1>1, <1>2

LEMMA ReadInterval ==
    ASSUME NEW argv, NEW a, Values(argv, "-s") = Starting(a), Values(argv, "-e") = Ending(a)
    PROVE  /\ Given(argv, "-s", None) = a.interval_start.instant
           /\ \A default : Given(argv, "-e", default) =
                IF Passed(a, "interval_end") THEN a.interval_end.instant ELSE default
  <1> DEFINE start == a.interval_start.instant
             end == a.interval_end.instant
  <1>1. Values(argv, "-s") = {start}
    BY DEF Starting
  <1>2. Passed(a, "interval_end") => Values(argv, "-e") = {end}
    BY DEF Ending, Passed
  <1>3. ~Passed(a, "interval_end") => Values(argv, "-e") = {}
    BY DEF Ending, Passed
  <1> HIDE DEF start, end
  <1>4. Given(argv, "-s", None) = start
    BY <1>1, GivenIs
  <1>5. \A default : Given(argv, "-e", default) =
          IF Passed(a, "interval_end") THEN end ELSE default
    BY <1>2, <1>3, GivenIs
  <1> QED
    BY <1>4, <1>5 DEF start, end
-----------------------------------------------------------------------------
(* The lake that a list selects is the one that its settings resolve to.   *)

LEMMA LakeOfKwargs ==
    ASSUME NEW settings PROVE LakeIn(LakeKwargs(settings)) = Roots(settings)
  <1> DEFINE lake == LakeKwargs(settings)
             spec == SplitSpecs(settings)
             parent == FirstGiven(settings.override, settings.path)
  <1>0. /\ Layers = {"raw", "bronze", "ops"}
        /\ \A l, m \in Layers : LayerFlag[l] = LayerFlag[m] => l = m
        /\ \A l \in Layers : LayerFlag[l] # "--lake-path"
    BY DEF Layers, LayerFlag
  <1>1. CASE IsSplit(settings)
    <2>1. \A l \in Layers : Values(lake, LayerFlag[l]) = {spec[l]} \ {None}
      <3>1. lake = Join(Join(
              Pairs("--lake-path-raw", {spec["raw"]} \ {None}),
              Pairs("--lake-path-bronze", {spec["bronze"]} \ {None})),
              Pairs("--lake-path-ops", {spec["ops"]} \ {None}))
        BY <1>0, <1>1 DEF LakeKwargs, Join, Pairs, LayerFlag
      <3> HIDE DEF lake, spec
      <3>2. /\ Values(lake, "--lake-path-raw") = {spec["raw"]} \ {None}
            /\ Values(lake, "--lake-path-bronze") = {spec["bronze"]} \ {None}
            /\ Values(lake, "--lake-path-ops") = {spec["ops"]} \ {None}
        BY <3>1, ValuesOfPairs, ValuesOfJoin
      <3> QED
        BY <1>0, <3>2 DEF LayerFlag
    <2>2. \A l \in Layers : Given(lake, LayerFlag[l], None) = spec[l]
      <3> SUFFICES ASSUME NEW l \in Layers PROVE Given(lake, LayerFlag[l], None) = spec[l]
        OBVIOUS
      <3> HIDE DEF lake, spec
      <3>1. CASE spec[l] = None
        <4>1. Values(lake, LayerFlag[l]) = {}
          BY <2>1, <3>1
        <4> QED
          BY <3>1, <4>1, GivenIs
      <3>2. CASE spec[l] # None
        <4>1. Values(lake, LayerFlag[l]) = {spec[l]}
          BY <2>1, <3>2
        <4> QED
          BY <4>1, GivenIs
      <3> QED
        BY <3>1, <3>2
    <2>3. spec = [l \in Layers |-> spec[l]]
      BY DEF SplitSpecs
    <2>4. \E l \in Layers : spec[l] # None
      BY <1>1 DEF IsSplit
    <2> HIDE DEF lake, spec
    <2>5. LayersIn(lake) = spec
      BY <2>2, <2>3 DEF LayersIn
    <2>6. Roots(settings) = spec
      BY <1>1 DEF Roots, RootSpecs, spec
    <2> QED
      BY <2>4, <2>5, <2>6 DEF LakeIn, lake
  <1>2. CASE ~IsSplit(settings)
    <2>1. lake = Pairs("--lake-path", {parent} \ {None})
      BY <1>2 DEF LakeKwargs, Pairs
    <2>2. Values(lake, "--lake-path") = {parent} \ {None}
      BY <2>1, ValuesOfPairs
    <2>3. \A l \in Layers : Values(lake, LayerFlag[l]) = {}
      BY <1>0, <2>1, ValuesOfPairs
    <2>4. Given(lake, "--lake-path", DefaultLake) = IF parent = None THEN DefaultLake ELSE parent
      <3> HIDE DEF lake, parent
      <3>1. CASE parent = None
        <4>1. Values(lake, "--lake-path") = {}
          BY <2>2, <3>1
        <4> QED
          BY <3>1, <4>1, GivenIs
      <3>2. CASE parent # None
        <4>1. Values(lake, "--lake-path") = {parent}
          BY <2>2, <3>2
        <4> QED
          BY <3>2, <4>1, GivenIs
      <3> QED
        BY <3>1, <3>2
    <2>5. PickLake(settings) = Given(lake, "--lake-path", DefaultLake)
      BY <2>4 DEF PickLake, FirstGiven
    <2> HIDE DEF lake, parent
    <2>6. \A l \in Layers : LayersIn(lake)[l] = None
      BY <2>3, GivenIs DEF LayersIn
    <2>7. LakeIn(lake) = [raw |-> JoinChild(PickLake(settings), "raw"),
                          bronze |-> JoinChild(PickLake(settings), "bronze"),
                          ops |-> PickLake(settings)]
      BY <2>5, <2>6 DEF LakeIn
    <2>8. LakeIn(lake) = Roots(settings)
      BY <1>2, <2>7 DEF Roots, RootSpecs
    <2> QED
      BY <2>8 DEF lake
  <1> QED
    BY <1>1, <1>2

LEMMA SameLakeReads ==
    ASSUME NEW argv, NEW lake, SameLake(argv, lake) PROVE LakeIn(argv) = LakeIn(lake)
  <1>1. ASSUME NEW flag \in LakeFlags, NEW default
        PROVE  Given(argv, flag, default) = Given(lake, flag, default)
    <2>1. Values(argv, flag) = Values(lake, flag)
      BY DEF SameLake
    <2> QED
      BY <2>1 DEF Given, Has
  <1>2. \A l \in Layers : LayerFlag[l] \in LakeFlags
    BY DEF Layers, LayerFlag, LakeFlags
  <1>3. LayersIn(argv) = LayersIn(lake)
    BY <1>1, <1>2 DEF LayersIn
  <1>4. Given(argv, "--lake-path", DefaultLake) = Given(lake, "--lake-path", DefaultLake)
    BY <1>1 DEF LakeFlags
  <1> QED
    BY <1>3, <1>4 DEF LakeIn

\* A list without lake flags selects the default lake.
LEMMA LakeOfNone ==
    ASSUME NEW settings, LakeKwargs(settings) = {} PROVE LakeIn({}) = Roots(settings)
  BY LakeOfKwargs
-----------------------------------------------------------------------------
(* Where no key is assigned twice, it does not matter which assignment is  *)
(* the last.                                                               *)

Listed(line) == DOMAIN Assignments(line) \subseteq Nat

LEMMA OverridesRead ==
    ASSUME NEW line, Plain(line), Listed(line), NEW a, Assignments(a) = Assignments(line),
           NEW argv, Values(argv, "--set") = Assigning(a)
    PROVE  OverridesIn(argv) = LastWins(Assignments(line))
  <1> DEFINE A == Assignments(line)
             keys == {x.key : x \in Range(A)}
             of(key) == {i \in DOMAIN A : A[i].key = key}
             last(key) == CHOOSE i \in of(key) : \A j \in of(key) : j <= i
             one(key) == (CHOOSE x \in Range(A) : x.key = key).value
  <1>1. DOMAIN Given(argv, "--set", <<>>) = Range(A)
    <2>1. CASE A = <<>>
      <3>1. Values(argv, "--set") = {}
        BY <2>1 DEF Assigning
      <3>2. Given(argv, "--set", <<>>) = A
        BY <2>1, <3>1, GivenIs
      <3>3. DOMAIN A = {}
        BY <2>1
      <3> HIDE DEF A
      <3> QED
        BY <3>2, <3>3 DEF Range
    <2>2. CASE A # <<>>
      <3>1. Values(argv, "--set") = {Counted(a)}
        BY <2>2 DEF Assigning
      <3>2. Given(argv, "--set", <<>>) = Counted(a)
        BY <3>1, GivenIs
      <3>3. DOMAIN Counted(a) = Range(A)
        BY DEF Counted
      <3> QED
        BY <3>2, <3>3
    <2> QED
      BY <2>1, <2>2
  <1>2. ASSUME NEW key \in keys PROVE A[last(key)].value = one(key)
    <2>1. PICK i \in DOMAIN A : A[i].key = key
      BY DEF Range
    <2>2. DOMAIN A \subseteq Nat
      BY DEF Listed
    <2>3. \A j \in DOMAIN A : A[j].key = key => j = i
      BY <2>1 DEF Plain
    <2>4. of(key) = {i}
      BY <2>1, <2>3
    <2>5. last(key) = i
      BY <2>1, <2>2, <2>4
    <2>6. \A x \in Range(A) : x.key = key => x = A[i]
      BY <2>3 DEF Range
    <2>7. A[i] \in Range(A)
      BY <2>1 DEF Range
    <2>8. (CHOOSE x \in Range(A) : x.key = key) = A[i]
      BY <2>1, <2>6, <2>7
    <2> QED
      BY <2>5, <2>8
  <1>3. LastWins(A) = [key \in keys |-> A[last(key)].value]
    BY DEF LastWins
  <1>4. OverridesIn(argv) = [key \in keys |-> one(key)]
    <2>1. OverridesIn(argv) = OverridesOf(Range(A))
      <3> HIDE DEF A
      <3> QED
        BY <1>1 DEF OverridesIn
    <2>2. OverridesOf(Range(A)) = [key \in keys |-> one(key)]
      BY DEF OverridesOf
    <2> QED
      BY <2>1, <2>2
  <1> HIDE DEF A, keys, last, one
  <1>5. LastWins(A) = OverridesIn(argv)
    BY <1>2, <1>3, <1>4
  <1> QED
    BY <1>5 DEF A
-----------------------------------------------------------------------------
(* A command line and the one the list is built from.                      *)

SpelledEnd(a, line) ==
    IF Passed(a, "interval_end") THEN a.interval_end.instant ELSE line.interval_start.instant + Day

\* The same flags, with the pipeline by its id and the interval, if there is
\* one, as it is resolved or as it was passed.
Spelled(a, line) ==
    /\ \A n : n \notin {"pipeline"} \cup Window =>
         /\ Passed(a, n) <=> Passed(line, n)
         /\ \A default : ValueOf(a, n, default) = ValueOf(line, n, default)
    /\ \A default : ValueOf(a, "pipeline", default) =
         IF Passed(line, "pipeline") THEN line.pipeline.file ELSE default
    /\ Passed(a, "pipeline") <=> Passed(line, "pipeline")
    /\ Passed(line, "interval_start") =>
         /\ Passed(a, "interval_start")
         /\ a.interval_start.instant = line.interval_start.instant
         /\ ResolveInterval(line) = [interval_start |-> Iso(line.interval_start.instant),
                                     interval_end |-> Iso(SpelledEnd(a, line))]

LEMMA PassedWith ==
    \A a, name, value : /\ Passed(With(a, name, value), name)
                        /\ \A n : n # name => (Passed(With(a, name, value), n) <=> Passed(a, n))
                        /\ With(a, name, value)[name] = value
                        /\ \A n : n # name /\ Passed(a, n) => With(a, name, value)[n] = a[n]
  BY DEF Passed, With

LEMMA ValueOfWith ==
    \A a, name, value, default :
      /\ ValueOf(With(a, name, value), name, default) = value
      /\ \A n : n # name => ValueOf(With(a, name, value), n, default) = ValueOf(a, n, default)
  BY PassedWith DEF ValueOf

LEMMA PipelineSpelled == \A line : Spelled(WithPipeline(line), line)
  <1> SUFFICES ASSUME NEW line PROVE Spelled(WithPipeline(line), line)
    OBVIOUS
  <1> DEFINE a == WithPipeline(line)
  <1>1. a = IF Passed(line, "pipeline") THEN With(line, "pipeline", line.pipeline.file) ELSE line
    BY DEF WithPipeline, CanonicalId
  <1>2. ResolveInterval(line) =
          [interval_start |-> Iso(line.interval_start.instant),
           interval_end |-> Iso(IF Passed(line, "interval_end") THEN line.interval_end.instant
                                ELSE line.interval_start.instant + Day)]
    BY DEF ResolveInterval
  <1>3. Passed(line, "interval_start") => a["interval_start"] = line["interval_start"]
    BY <1>1, PassedWith
  <1>4. Passed(line, "interval_end") => a["interval_end"] = line["interval_end"]
    BY <1>1, PassedWith
  <1>5. \A n : Passed(a, n) <=> Passed(line, n)
    BY <1>1, PassedWith
  <1>6. \A n : n # "pipeline" => \A default : ValueOf(a, n, default) = ValueOf(line, n, default)
    BY <1>1, ValueOfWith
  <1>7. \A default : ValueOf(a, "pipeline", default) =
          IF Passed(line, "pipeline") THEN line.pipeline.file ELSE default
    <2>1. CASE Passed(line, "pipeline")
      <3>1. \A default : ValueOf(a, "pipeline", default) = line.pipeline.file
        BY <1>1, <2>1, ValueOfWith
      <3> HIDE DEF a
      <3> QED
        BY <2>1, <3>1
    <2>2. CASE ~Passed(line, "pipeline")
      <3>1. \A default : ValueOf(a, "pipeline", default) = default
        BY <1>1, <2>2 DEF ValueOf
      <3> HIDE DEF a
      <3> QED
        BY <2>2, <3>1
    <2> QED
      BY <2>1, <2>2
  <1> HIDE DEF a
  <1>8. SpelledEnd(a, line) = IF Passed(line, "interval_end") THEN line.interval_end.instant
                              ELSE line.interval_start.instant + Day
    BY <1>4, <1>5 DEF SpelledEnd
  <1>9. Spelled(a, line)
    BY <1>2, <1>3, <1>5, <1>6, <1>7, <1>8 DEF Spelled
  <1> QED
    BY <1>9 DEF a

LEMMA ResolvedSpelled == \A line : Spelled(Resolved(line), line)
  <1> SUFFICES ASSUME NEW line PROVE Spelled(Resolved(line), line)
    OBVIOUS
  <1> DEFINE window == ResolveInterval(line)
             b == WithInterval(line)
             a == Resolved(line)
  <1>1. CASE ~Passed(line, "interval_start")
    <2>1. Resolved(line) = WithPipeline(line)
      BY <1>1 DEF Resolved, WithInterval
    <2> QED
      BY <2>1, PipelineSpelled
  <1>2. CASE Passed(line, "interval_start")
    <2>1. b = With(With(line, "interval_start", window.interval_start),
                   "interval_end", window.interval_end)
      BY <1>2 DEF WithInterval
    <2> HIDE DEF b
    <2>2. /\ b["interval_start"] = window.interval_start /\ b["interval_end"] = window.interval_end
          /\ Passed(b, "interval_start") /\ Passed(b, "interval_end")
      BY <2>1, PassedWith
    <2>3. \A n : n \notin Window =>
            /\ Passed(b, n) <=> Passed(line, n)
            /\ \A default : ValueOf(b, n, default) = ValueOf(line, n, default)
      BY <2>1, PassedWith, ValueOfWith DEF Window
    <2>4. Passed(line, "pipeline") => b.pipeline = line.pipeline
      BY <2>1, PassedWith
    <2>5. a = IF Passed(line, "pipeline") THEN With(b, "pipeline", line.pipeline.file) ELSE b
      BY <2>3, <2>4 DEF Resolved, WithPipeline, CanonicalId, Window, b
    <2> HIDE DEF a, window
    <2>6. /\ a["interval_start"] = window.interval_start /\ a["interval_end"] = window.interval_end
          /\ Passed(a, "interval_start") /\ Passed(a, "interval_end")
      BY <2>2, <2>5, PassedWith
    <2>7. \A n : n \notin {"pipeline"} \cup Window =>
            /\ Passed(a, n) <=> Passed(line, n)
            /\ \A default : ValueOf(a, n, default) = ValueOf(line, n, default)
      BY <2>3, <2>5, PassedWith, ValueOfWith
    <2>8. \A default : ValueOf(a, "pipeline", default) =
            IF Passed(line, "pipeline") THEN line.pipeline.file ELSE default
      <3>1. CASE Passed(line, "pipeline")
        <4>1. \A default : ValueOf(a, "pipeline", default) = line.pipeline.file
          BY <2>5, <3>1, ValueOfWith
        <4> QED
          BY <3>1, <4>1
      <3>2. CASE ~Passed(line, "pipeline")
        <4>1. a = b /\ ~Passed(b, "pipeline")
          BY <2>3, <2>5, <3>2 DEF Window
        <4>2. \A default : ValueOf(a, "pipeline", default) = default
          BY <4>1 DEF ValueOf
        <4> QED
          BY <3>2, <4>2
      <3> QED
        BY <3>1, <3>2
    <2>9. Passed(a, "pipeline") <=> Passed(line, "pipeline")
      BY <2>3, <2>5, PassedWith DEF Window
    <2>10. /\ window = [interval_start |-> window.interval_start, interval_end |-> window.interval_end]
           /\ window.interval_start = Iso(window.interval_start.instant)
           /\ window.interval_end = Iso(window.interval_end.instant)
           /\ window.interval_start.instant = line.interval_start.instant
      BY DEF window, ResolveInterval, Iso
    <2>11. SpelledEnd(a, line) = window.interval_end.instant
      BY <2>6 DEF SpelledEnd
    <2>12. Spelled(a, line)
      BY <1>2, <2>6, <2>7, <2>8, <2>9, <2>10, <2>11 DEF Spelled, window
    <2> QED
      BY <2>12 DEF a
  <1> QED
    BY <1>1, <1>2

LEMMA IntervalRead ==
    ASSUME NEW line, NEW a, Spelled(a, line), Passed(line, "interval_start"),
           NEW argv, Values(argv, "-s") = Starting(a), Values(argv, "-e") = Ending(a)
    PROVE  IntervalIn(argv) = ResolveInterval(line)
  <1>1. Given(argv, "-s", None) = line.interval_start.instant
    BY ReadInterval DEF Spelled
  <1>2. Given(argv, "-e", line.interval_start.instant + Day) = SpelledEnd(a, line)
    BY ReadInterval DEF SpelledEnd
  <1> QED
    BY <1>1, <1>2 DEF IntervalIn, Spelled

LEMMA BoundUnion == \A A, B : Bound(A \cup B) = Bound(A) \cup Bound(B)
  BY DEF Bound

LEMMA BoundPair ==
    \A name, value : Bound({<<name, value>>}) =
                       IF name \in {"tree", "project"} THEN {} ELSE {<<name, value>>}
  BY DEF Bound

LEMMA PathRead ==
    ASSUME NEW line, Plain(line), NEW a, Spelled(a, line), NEW otherwise, NEW flag,
           NEW argv, Values(argv, flag) = Passing(a, "pipeline")
    PROVE  PathIn(argv, flag, otherwise) =
             IF Passed(line, "pipeline") THEN ResolvedPath(line.pipeline) ELSE otherwise
  <1>1. /\ Has(argv, flag) <=> Passed(line, "pipeline")
        /\ Passed(line, "pipeline") => Given(argv, flag, None) = line.pipeline.file
    BY ReadOption DEF Spelled
  <1>2. Passed(line, "pipeline") => ResolvedPath(line.pipeline) =
            <<"pipelines", line.pipeline.file>>
    BY DEF Plain, ResolvedPath
  <1> QED
    BY <1>1, <1>2 DEF PathIn

LEMMA ConfigRead ==
    ASSUME NEW line, Plain(line), Listed(line), NEW a, Spelled(a, line),
           NEW argv, Values(argv, "-p") = Passing(a, "pipeline"),
           Values(argv, "--set") = Assigning(a)
    PROVE  Bound(Config(line)) = ConfigIn(argv)
  <1> DEFINE path == IF Passed(line, "pipeline") THEN ResolvedPath(line.pipeline) ELSE None
  <1>1. PathIn(argv, "-p", None) = path
    BY PathRead
  <1>2. Assignments(a) = Assignments(line)
    BY DEF Spelled, Assignments, Window
  <1>3. OverridesIn(argv) = LastWins(Assignments(line))
    BY <1>2, OverridesRead
  <1>4. Bound(Config(line)) = {<<"config", path>>, <<"overrides", LastWins(Assignments(line))>>}
    BY DEF Bound, Config
  <1> HIDE DEF path
  <1> QED
    BY <1>1, <1>3, <1>4 DEF ConfigIn

LEMMA LakeRead ==
    ASSUME NEW settings, NEW argv, SameLake(argv, LakeKwargs(settings))
    PROVE  Bound(Lake(settings)) = {<<"lake", LakeIn(argv)>>}
  <1>1. LakeIn(argv) = Roots(settings)
    BY SameLakeReads, LakeOfKwargs
  <1> QED
    BY <1>1, BoundPair DEF Lake
-----------------------------------------------------------------------------
(* What the list of each command says of its flags.                        *)

LEMMA TransferSays ==
    ASSUME NEW a, NEW lake, OnlyLake(lake), NEW argv, argv = ExtractArgv(a, lake)
    PROVE  /\ Values(argv, "-p") = Passing(a, "pipeline")
           /\ Values(argv, "-s") = Starting(a)
           /\ Values(argv, "-e") = Ending(a)
           /\ Values(argv, "--set") = Assigning(a)
           /\ SameLake(argv, lake)
           /\ Values(argv, "--extract-run-datetime") = {}
  <1>1. argv = Join(Join(Join(Option("-p", a, "pipeline"), IntervalArgv(a)), lake), SetArgv(a))
    BY DEF ExtractArgv, Join
  <1> QED
    BY <1>1, ValuesOfJoin, ValuesOfPairs, OptionParts, IntervalParts, SetParts
    DEF OnlyLake, SameLake, LakeFlags

LEMMA LoadSays ==
    ASSUME NEW a, NEW lake, OnlyLake(lake), NEW argv, argv = LoadArgv(a, lake)
    PROVE  /\ Values(argv, "-p") = Passing(a, "pipeline")
           /\ Values(argv, "-s") = Starting(a)
           /\ Values(argv, "-e") = Ending(a)
           /\ Values(argv, "--set") = Assigning(a)
           /\ SameLake(argv, lake)
           /\ Values(argv, "--extract-run-datetime") = Passing(a, "extract_run_datetime")
  <1> DEFINE rest == ExtractArgv(a, lake)
  <1>1. argv = Join(rest, Option("--extract-run-datetime", a, "extract_run_datetime"))
    BY DEF LoadArgv, Join
  <1> HIDE DEF rest
  <1>2. /\ Values(rest, "-p") = Passing(a, "pipeline")
        /\ Values(rest, "-s") = Starting(a)
        /\ Values(rest, "-e") = Ending(a)
        /\ Values(rest, "--set") = Assigning(a)
        /\ SameLake(rest, lake)
        /\ Values(rest, "--extract-run-datetime") = {}
    BY TransferSays DEF rest
  <1> QED
    BY <1>1, <1>2, ValuesOfJoin, ValuesOfPairs, OptionParts DEF SameLake, LakeFlags

MigrateScope(a) == IF ValueOf(a, "all_raw", FALSE) THEN Pairs("--all-raw", {TRUE}) ELSE IntervalArgv(a)

LEMMA IntervalSays ==
    ASSUME NEW a, NEW argv, argv = IntervalArgv(a)
    PROVE  /\ Values(argv, "-s") = Starting(a)
           /\ Values(argv, "-e") = Ending(a)
           /\ \A flag : flag \notin {"-s", "-e"} => Values(argv, flag) = {}
  <1>1. argv = Join(Pairs("-s", Starting(a)), Pairs("-e", Ending(a)))
    BY IntervalParts
  <1> QED
    BY <1>1, ValuesOfJoin, ValuesOfPairs

LEMMA ScopeOfMigrate ==
    ASSUME NEW a, Passed(a, "all_raw") => a["all_raw"] = TRUE
    PROVE  /\ Passed(a, "all_raw") => Values(MigrateScope(a), "--all-raw") = {TRUE}
           /\ ~Passed(a, "all_raw") =>
                /\ Values(MigrateScope(a), "--all-raw") = {}
                /\ Values(MigrateScope(a), "-s") = Starting(a)
                /\ Values(MigrateScope(a), "-e") = Ending(a)
  <1>1. CASE Passed(a, "all_raw")
    <2>1. ValueOf(a, "all_raw", FALSE) = TRUE
      BY <1>1 DEF ValueOf
    <2>2. MigrateScope(a) = Pairs("--all-raw", {TRUE})
      BY <2>1 DEF MigrateScope
    <2> QED
      BY <1>1, <2>2, ValuesOfPairs
  <1>2. CASE ~Passed(a, "all_raw")
    <2>1. ValueOf(a, "all_raw", FALSE) = FALSE
      BY <1>2 DEF ValueOf
    <2>2. MigrateScope(a) = IntervalArgv(a)
      BY <2>1 DEF MigrateScope
    <2> QED
      BY <1>2, <2>2, IntervalSays
  <1> QED
    BY <1>1, <1>2

\* Either way it says nothing else.
LEMMA ScopeOnly ==
    \A a, flag : flag \notin {"--all-raw", "-s", "-e"} => Values(MigrateScope(a), flag) = {}
  <1> SUFFICES ASSUME NEW a, NEW flag, flag \notin {"--all-raw", "-s", "-e"}
               PROVE  Values(MigrateScope(a), flag) = {}
    OBVIOUS
  <1>1. Values(IntervalArgv(a), flag) = {}
    BY IntervalSays
  <1>2. Values(Pairs("--all-raw", {TRUE}), flag) = {}
    BY ValuesOfPairs
  <1> QED
    BY <1>1, <1>2 DEF MigrateScope

LEMMA MigrateSays ==
    ASSUME NEW a, NEW lake, OnlyLake(lake), NEW argv, argv = MigrateArgv(a, lake)
    PROVE  /\ Values(argv, "-p") = Passing(a, "pipeline")
           /\ \A flag \in {"--all-raw", "-s", "-e"} :
                Values(argv, flag) = Values(MigrateScope(a), flag)
           /\ Values(argv, "--schema") = {NormRelpath(a.schema)}
           /\ Values(argv, "--to-bronze") = Passing(a, "to_bronze")
           /\ Values(argv, "--mapper") = Passing(a, "mapper")
           /\ Values(argv, "--from-raw") = Passing(a, "from_raw")
           /\ Values(argv, "--wire-version") = Passing(a, "wire_version")
           /\ Values(argv, "--recreate-iceberg") = Turned(a, "recreate_iceberg")
           /\ Values(argv, "--all-raw-runs") = Turned(a, "all_raw_runs")
           /\ Values(argv, "--ingestion") = Passing(a, "ingestion")
           /\ Values(argv, "--set") = Assigning(a)
           /\ SameLake(argv, lake)
  <1> DEFINE scope == MigrateScope(a)
             one == Join(Join(Join(Option("-p", a, "pipeline"), Option("--to-bronze", a, "to_bronze")),
                              Pairs("--schema", {NormRelpath(a.schema)})),
                         Option("--mapper", a, "mapper"))
             two == Join(Join(Join(Option("--from-raw", a, "from_raw"),
                                   Option("--wire-version", a, "wire_version")),
                              Switch("--recreate-iceberg", a, "recreate_iceberg")),
                         Switch("--all-raw-runs", a, "all_raw_runs"))
             three == Join(Join(Option("--ingestion", a, "ingestion"), lake), SetArgv(a))
  <1>1. argv = Join(Join(one, scope), Join(two, three))
    BY DEF MigrateArgv, MigrateScope, Join, Pairs
  <1>2. /\ Values(one, "-p") = Passing(a, "pipeline")
        /\ Values(one, "--schema") = {NormRelpath(a.schema)}
        /\ Values(one, "--to-bronze") = Passing(a, "to_bronze")
        /\ Values(one, "--mapper") = Passing(a, "mapper")
        /\ \A flag : flag \notin {"-p", "--schema", "--to-bronze", "--mapper"} => Values(one, flag) = {}
    BY ValuesOfJoin, ValuesOfPairs, OptionParts
  <1>3. /\ Values(two, "--from-raw") = Passing(a, "from_raw")
        /\ Values(two, "--wire-version") = Passing(a, "wire_version")
        /\ Values(two, "--recreate-iceberg") = Turned(a, "recreate_iceberg")
        /\ Values(two, "--all-raw-runs") = Turned(a, "all_raw_runs")
        /\ \A flag : flag \notin {"--from-raw", "--wire-version", "--recreate-iceberg", "--all-raw-runs"}
             => Values(two, flag) = {}
    BY ValuesOfJoin, ValuesOfPairs, OptionParts, SwitchParts
  <1>4. /\ Values(three, "--ingestion") = Passing(a, "ingestion")
        /\ Values(three, "--set") = Assigning(a)
        /\ SameLake(three, lake)
        /\ \A flag : flag \notin {"--ingestion", "--set"} \cup LakeFlags => Values(three, flag) = {}
    BY ValuesOfJoin, ValuesOfPairs, OptionParts, SetParts DEF OnlyLake, SameLake, LakeFlags
  <1>5. \A flag : flag \notin {"--all-raw", "-s", "-e"} => Values(scope, flag) = {}
    BY ScopeOnly
  <1> HIDE DEF one, two, three, scope
  <1>6. \A flag \in {"--all-raw", "-s", "-e"} : Values(argv, flag) = Values(scope, flag)
    BY <1>1, <1>2, <1>3, <1>4, ValuesOfJoin DEF LakeFlags
  <1>7. /\ Values(argv, "-p") = Passing(a, "pipeline")
        /\ Values(argv, "--schema") = {NormRelpath(a.schema)}
        /\ Values(argv, "--to-bronze") = Passing(a, "to_bronze")
        /\ Values(argv, "--mapper") = Passing(a, "mapper")
    BY <1>1, <1>2, <1>3, <1>4, <1>5, ValuesOfJoin DEF LakeFlags
  <1>8. /\ Values(argv, "--from-raw") = Passing(a, "from_raw")
        /\ Values(argv, "--wire-version") = Passing(a, "wire_version")
        /\ Values(argv, "--recreate-iceberg") = Turned(a, "recreate_iceberg")
        /\ Values(argv, "--all-raw-runs") = Turned(a, "all_raw_runs")
    BY <1>1, <1>2, <1>3, <1>4, <1>5, ValuesOfJoin DEF LakeFlags
  <1>9. /\ Values(argv, "--ingestion") = Passing(a, "ingestion")
        /\ Values(argv, "--set") = Assigning(a)
        /\ SameLake(argv, lake)
    BY <1>1, <1>2, <1>3, <1>4, <1>5, ValuesOfJoin DEF LakeFlags, SameLake
  <1> QED
    BY <1>6, <1>7, <1>8, <1>9 DEF scope

LEMMA DbtSays ==
    ASSUME NEW a, NEW lake, OnlyLake(lake), NEW argv, argv = DbtArgv(a, lake)
    PROVE  /\ Values(argv, "--command") = {ValueOf(a, "command", "build")}
           /\ Values(argv, "-p") = Passing(a, "pipeline")
           /\ Values(argv, "--select") = Passing(a, "select")
           /\ Values(argv, "--full-refresh") = Turned(a, "full_refresh")
           /\ Values(argv, "--catchup-manifest") = Passing(a, "catchup_manifest")
           /\ Values(argv, "--target") = Passing(a, "target")
           /\ Values(argv, "--set") = Assigning(a)
           /\ SameLake(argv, lake)
  <1> DEFINE one == Join(Join(Join(Pairs("--command", {ValueOf(a, "command", "build")}),
                                   Option("-p", a, "pipeline")),
                              Option("--select", a, "select")),
                         Switch("--full-refresh", a, "full_refresh"))
             two == Join(Join(Switch("--catchup", a, "catchup"),
                              Option("--catchup-manifest", a, "catchup_manifest")),
                         Option("--target", a, "target"))
             three == Join(lake, SetArgv(a))
  <1>1. argv = Join(one, Join(two, three))
    BY DEF DbtArgv, Join, Pairs
  <1>2. /\ Values(one, "-p") = Passing(a, "pipeline")
        /\ Values(one, "--command") = {ValueOf(a, "command", "build")}
        /\ Values(one, "--select") = Passing(a, "select")
        /\ Values(one, "--full-refresh") = Turned(a, "full_refresh")
        /\ \A flag : flag \notin {"-p", "--command", "--select", "--full-refresh"}
             => Values(one, flag) = {}
    BY ValuesOfJoin, ValuesOfPairs, OptionParts, SwitchParts
  <1>3. /\ Values(two, "--catchup-manifest") = Passing(a, "catchup_manifest")
        /\ Values(two, "--target") = Passing(a, "target")
        /\ \A flag : flag \notin {"--catchup", "--catchup-manifest", "--target"}
             => Values(two, flag) = {}
    BY ValuesOfJoin, ValuesOfPairs, OptionParts, SwitchParts
  <1>4. /\ Values(three, "--set") = Assigning(a)
        /\ SameLake(three, lake)
        /\ \A flag : flag \notin {"--set"} \cup LakeFlags => Values(three, flag) = {}
    BY ValuesOfJoin, ValuesOfPairs, SetParts DEF OnlyLake, SameLake, LakeFlags
  <1> HIDE DEF one, two, three
  <1>5. /\ Values(argv, "-p") = Passing(a, "pipeline")
        /\ Values(argv, "--command") = {ValueOf(a, "command", "build")}
        /\ Values(argv, "--select") = Passing(a, "select")
        /\ Values(argv, "--full-refresh") = Turned(a, "full_refresh")
    BY <1>1, <1>2, <1>3, <1>4, ValuesOfJoin DEF LakeFlags
  <1>6. /\ Values(argv, "--catchup-manifest") = Passing(a, "catchup_manifest")
        /\ Values(argv, "--target") = Passing(a, "target")
        /\ Values(argv, "--set") = Assigning(a)
        /\ SameLake(argv, lake)
    BY <1>1, <1>2, <1>3, <1>4, ValuesOfJoin DEF LakeFlags, SameLake
  <1> QED
    BY <1>5, <1>6

LEMMA InitPipelineSays ==
    ASSUME NEW a, NEW argv, argv = InitPipelineArgv(a)
    PROVE  /\ Values(argv, "--name") = Passing(a, "name")
           /\ Values(argv, "--source-type") = Passing(a, "source_type")
           /\ Values(argv, "--destination-type") = {ValueOf(a, "destination_type", "iceberg")}
           /\ Values(argv, "--connection") = Passing(a, "connection")
           /\ Values(argv, "--skip-dbt") = Turned(a, "skip_dbt")
           /\ Values(argv, "--force") = Turned(a, "force")
  <1>1. argv = Join(Join(Join(Join(Join(Join(
          Option("--name", a, "name"), Option("--source-type", a, "source_type")),
          Pairs("--destination-type", {ValueOf(a, "destination_type", "iceberg")})),
          Option("--connection", a, "connection")), Option("--lake-path", a, "lake_path")),
          Switch("--skip-dbt", a, "skip_dbt")), Switch("--force", a, "force"))
    BY DEF InitPipelineArgv, Join, Pairs
  <1> QED
    BY <1>1, ValuesOfJoin, ValuesOfPairs, OptionParts, SwitchParts

LEMMA ScaffoldDbtSays ==
    ASSUME NEW a, NEW argv, argv = ScaffoldDbtArgv(a)
    PROVE  /\ Values(argv, "-p") = Passing(a, "pipeline")
           /\ Values(argv, "--force") = Turned(a, "force")
           /\ Values(argv, "--set") = Assigning(a)
  <1>1. argv = Join(Join(Option("-p", a, "pipeline"), Switch("--force", a, "force")), SetArgv(a))
    BY DEF ScaffoldDbtArgv, Join
  <1> QED
    BY <1>1, ValuesOfJoin, ValuesOfPairs, OptionParts, SwitchParts, SetParts

LEMMA ScaffoldOpsSays ==
    \A a : Values(ScaffoldOpsArgv(a), "--force") = Turned(a, "force")
  BY ValuesOfPairs, SwitchParts DEF ScaffoldOpsArgv

LEMMA CatchupPlanSays ==
    ASSUME NEW a, NEW lake, OnlyLake(lake), NEW argv, argv = CatchupPlanArgv(a, lake)
    PROVE  /\ Values(argv, "--content-digest") = Passing(a, "content_digest")
           /\ Values(argv, "--manifest-id") = Passing(a, "manifest_id")
           /\ SameLake(argv, lake)
  <1> DEFINE where == IF Passed(a, "all_pipelines") THEN Pairs("--all-pipelines", {TRUE})
                      ELSE Option("-p", a, "pipeline")
             look == Pairs("--extract-lookback", {EffectiveLookback(a)} \ {None})
             window == IF Passed(a, "interval_start") THEN IntervalArgv(a) ELSE {}
             limit == {<<"--limit", ValueOf(a, "limit", 200)>>} \ {<<"--limit", 200>>}
             plan == Join(Option("--manifest-id", a, "manifest_id"),
                          Option("--content-digest", a, "content_digest"))
             scope == Join(Join(look, Switch("--census", a, "census")), window)
             Own == LakeFlags \cup {"--content-digest", "--manifest-id"}
  <1>1. argv = Join(Join(Join(where, scope), limit), Join(plan, lake))
    BY DEF CatchupPlanArgv, ScopeArgv, Join, Pairs
  <1>2. \A flag \in Own : Values(where, flag) = {}
    BY ValuesOfPairs, OptionParts DEF LakeFlags
  <1>3. \A flag \in Own : Values(look, flag) = {}
    BY ValuesOfPairs DEF LakeFlags
  <1>4. \A flag \in Own : Values(window, flag) = {}
    <2>1. \A flag : Values({}, flag) = {}
      BY DEF Values
    <2> QED
      BY <2>1, ValuesOfJoin, ValuesOfPairs, IntervalParts DEF LakeFlags
  <1>5. \A flag \in Own : Values(limit, flag) = {}
    BY DEF Values, LakeFlags
  <1>6. \A flag \in Own : Values(Switch("--census", a, "census"), flag) = {}
    BY ValuesOfPairs, SwitchParts DEF LakeFlags
  <1>7. \A flag \in Own : Values(scope, flag) = {}
    <2> HIDE DEF look, window
    <2> QED
      BY <1>3, <1>4, <1>6, ValuesOfJoin
  <1>8. /\ Values(plan, "--content-digest") = Passing(a, "content_digest")
        /\ Values(plan, "--manifest-id") = Passing(a, "manifest_id")
        /\ \A flag \in LakeFlags : Values(plan, flag) = {}
    BY ValuesOfJoin, ValuesOfPairs, OptionParts DEF LakeFlags
  <1> HIDE DEF where, look, window, limit, scope, plan
  <1>9. \A flag \in Own : Values(argv, flag) = Values(Join(plan, lake), flag)
    BY <1>1, <1>2, <1>5, <1>7, ValuesOfJoin
  <1>10. /\ Values(Join(plan, lake), "--content-digest") = Passing(a, "content_digest")
         /\ Values(Join(plan, lake), "--manifest-id") = Passing(a, "manifest_id")
    BY <1>8, ValuesOfJoin DEF OnlyLake, LakeFlags
  <1>11. \A flag \in LakeFlags : Values(Join(plan, lake), flag) = Values(lake, flag)
    BY <1>8, ValuesOfJoin
  <1> QED
    BY <1>9, <1>10, <1>11 DEF SameLake

LEMMA CleanupSays ==
    ASSUME NEW a, NEW argv, argv = CleanupArgv(a)
    PROVE  /\ Values(argv, "--manifest-id") = Passing(a, "manifest_id")
           /\ Values(argv, "--created-before") = Passing(a, "created_before")
  <1>1. argv = Join(Option("--manifest-id", a, "manifest_id"),
                    Option("--created-before", a, "created_before"))
    BY DEF CleanupArgv, Join
  <1> QED
    BY <1>1, ValuesOfJoin, ValuesOfPairs, OptionParts

LEMMA BiglakeSays ==
    ASSUME NEW a, NEW lake, OnlyLake(lake), NEW argv, argv = BiglakeArgv(a, lake)
    PROVE  /\ Values(argv, "--pipeline") = Passing(a, "pipeline")
           /\ Values(argv, "--project") = Passing(a, "project")
           /\ Values(argv, "--skip-ops") = Turned(a, "skip_ops")
           /\ SameLake(argv, lake)
  <1>1. argv = Join(Join(Join(Join(Join(
          lake, Option("--pipeline", a, "pipeline")), Option("--project", a, "project")),
          Option("--location", a, "location")), Option("--connection", a, "connection")),
          Switch("--skip-ops", a, "skip_ops"))
    BY DEF BiglakeArgv, Join
  <1> QED
    BY <1>1, ValuesOfJoin, ValuesOfPairs, OptionParts, SwitchParts DEF OnlyLake, SameLake, LakeFlags

LEMMA IcebergSays ==
    ASSUME NEW a, NEW lake, OnlyLake(lake), NEW target, NEW argv,
           argv = IcebergArgv(a, lake, target)
    PROVE  /\ Values(argv, "--pipeline") = Passing(a, "pipeline")
           /\ Values(argv, "--catalog-target") = {target}
           /\ Passed(a, "skip_ops") \/ Passed(a, "pipeline") => Values(argv, "--skip-ops") = {TRUE}
           /\ ~(Passed(a, "skip_ops") \/ Passed(a, "pipeline")) => Values(argv, "--skip-ops") = {}
           /\ SameLake(argv, lake)
  <1> DEFINE skip == IF Passed(a, "skip_ops") \/ Passed(a, "pipeline") THEN {TRUE} ELSE {}
  <1>1. argv = Join(Join(Join(lake, Option("--pipeline", a, "pipeline")),
                         Pairs("--catalog-target", {target})), Pairs("--skip-ops", skip))
    BY DEF IcebergArgv, Join, Pairs
  <1> HIDE DEF skip
  <1>2. /\ Values(argv, "--pipeline") = Passing(a, "pipeline")
        /\ Values(argv, "--catalog-target") = {target}
        /\ Values(argv, "--skip-ops") = skip
        /\ SameLake(argv, lake)
    BY <1>1, ValuesOfJoin, ValuesOfPairs, OptionParts DEF OnlyLake, SameLake, LakeFlags
  <1> QED
    BY <1>2 DEF skip

LEMMA LockReleaseSays ==
    ASSUME NEW a, NEW lake, OnlyLake(lake), NEW argv, argv = LockReleaseArgv(a, lake)
    PROVE  /\ Values(argv, "-p") = Passing(a, "pipeline")
           /\ Values(argv, "--dataset-id") = Passing(a, "dataset_id")
           /\ ~Passed(a, "dataset_id") =>
                Values(argv, "-s") = Starting(a) /\ Values(argv, "-e") = Ending(a)
           /\ SameLake(argv, lake)
  <1>1. CASE Passed(a, "dataset_id")
    <2>1. argv = Join(Join(Join(Option("-p", a, "pipeline"), Pairs("--force", {TRUE})), lake),
                      Option("--dataset-id", a, "dataset_id"))
      BY <1>1 DEF LockReleaseArgv, Join, Pairs
    <2> QED
      BY <1>1, <2>1, ValuesOfJoin, ValuesOfPairs, OptionParts DEF OnlyLake, SameLake, LakeFlags
  <1>2. CASE ~Passed(a, "dataset_id")
    <2>1. argv = Join(Join(Join(Option("-p", a, "pipeline"), Pairs("--force", {TRUE})), lake),
                      IntervalArgv(a))
      BY <1>2 DEF LockReleaseArgv, Join, Pairs
    <2>2. Passing(a, "dataset_id") = {}
      BY <1>2 DEF Passing, Passed
    <2> QED
      BY <1>2, <2>1, <2>2, ValuesOfJoin, ValuesOfPairs, OptionParts, IntervalParts
      DEF OnlyLake, SameLake, LakeFlags
  <1> QED
    BY <1>1, <1>2

LEMMA BackfillSays ==
    ASSUME NEW a, NEW argv, argv = BackfillArgv(a)
    PROVE  /\ Values(argv, "--interval-start") = {Date(a.interval_start)}
           /\ Values(argv, "--interval-end") = {Date(a.interval_end)}
  <1>1. argv = Join(Pairs("--interval-start", {Date(a.interval_start)}),
                    Pairs("--interval-end", {Date(a.interval_end)}))
    BY DEF BackfillArgv, Join, Pairs
  <1> QED
    BY <1>1, ValuesOfJoin, ValuesOfPairs
-----------------------------------------------------------------------------
(* What a command does is what its list means.                             *)

Sound(line) ==
    Plain(line) /\ Listed(line) /\ \A name \in Switches : Passed(line, name) => line[name] = TRUE

LEMMA OptionRead ==
    ASSUME NEW line, NEW a, Spelled(a, line), NEW name, name \notin {"pipeline"} \cup Window,
           NEW argv, NEW flag, Values(argv, flag) = Passing(a, name)
    PROVE  /\ Has(argv, flag) <=> Passed(line, name)
           /\ \A default : Given(argv, flag, default) = ValueOf(line, name, default)
  <1>1. /\ Passed(a, name) <=> Passed(line, name)
        /\ \A default : ValueOf(a, name, default) = ValueOf(line, name, default)
    BY DEF Spelled
  <1> QED
    BY <1>1, ReadOption

LEMMA SwitchRead ==
    ASSUME NEW line, Sound(line), NEW a, Spelled(a, line), NEW name \in Switches,
           NEW argv, NEW flag, Values(argv, flag) = Turned(a, name)
    PROVE  /\ Has(argv, flag) <=> Passed(line, name)
           /\ Given(argv, flag, FALSE) = ValueOf(line, name, FALSE)
  <1>1. name \notin {"pipeline"} \cup Window
    BY DEF Switches, Window
  <1>2. /\ Passed(a, name) <=> Passed(line, name)
        /\ ValueOf(a, name, FALSE) = ValueOf(line, name, FALSE)
    BY <1>1 DEF Spelled
  <1>3. Passed(a, name) => a[name] = TRUE
    BY <1>2 DEF ValueOf, Sound
  <1> QED
    BY <1>2, <1>3, ReadSwitch

LEMMA TransferRead ==
    ASSUME NEW line, Sound(line), Passed(line, "interval_start"), NEW a, Spelled(a, line),
           NEW settings, NEW argv,
           Values(argv, "-p") = Passing(a, "pipeline"), Values(argv, "-s") = Starting(a),
           Values(argv, "-e") = Ending(a), Values(argv, "--set") = Assigning(a),
           SameLake(argv, LakeKwargs(settings))
    PROVE  Bound(Config(line) \cup Interval(line) \cup Lake(settings)) = TransferMeans(argv)
  <1>1. Bound(Config(line)) = ConfigIn(argv)
    BY ConfigRead DEF Sound
  <1>2. Bound(Interval(line)) = {<<"interval", IntervalIn(argv)>>}
    <2>1. IntervalIn(argv) = ResolveInterval(line)
      BY IntervalRead
    <2> QED
      BY <2>1, BoundPair DEF Interval
  <1>3. Bound(Lake(settings)) = {<<"lake", LakeIn(argv)>>}
    BY LakeRead
  <1>4. TransferMeans(argv) =
          ConfigIn(argv) \cup {<<"interval", IntervalIn(argv)>>} \cup {<<"lake", LakeIn(argv)>>}
    BY DEF TransferMeans
  <1>5. Bound(Config(line) \cup Interval(line) \cup Lake(settings)) =
          Bound(Config(line)) \cup Bound(Interval(line)) \cup Bound(Lake(settings))
    BY DEF Bound
  <1> QED
    BY <1>1, <1>2, <1>3, <1>4, <1>5

LEMMA TransferDoes ==
    ASSUME NEW line, Sound(line), Passed(line, "interval_start"), NEW a, Spelled(a, line),
           NEW settings, NEW argv, argv = ExtractArgv(a, LakeKwargs(settings))
    PROVE  Bound(Config(line) \cup Interval(line) \cup Lake(settings)) = TransferMeans(argv)
  BY TransferSays, TransferRead, KwargsOnlyLake

LEMMA BoundAspects ==
    ASSUME NEW line, NEW defaults, DOMAIN defaults \cap {"tree", "project"} = {}
    PROVE  Bound(Aspects(line, defaults)) = Aspects(line, defaults)
  BY DEF Bound, Aspects

LEMMA BoundAspect ==
    \A name, value : name \notin {"tree", "project"} => Bound({<<name, value>>}) = {<<name, value>>}
  BY BoundPair

LEMMA LoadDoes ==
    ASSUME NEW line, Sound(line), Passed(line, "interval_start"), NEW a, Spelled(a, line),
           NEW settings, NEW argv, argv = LoadArgv(a, LakeKwargs(settings))
    PROVE  Bound(Config(line) \cup Interval(line) \cup Lake(settings)
                   \cup Aspects(line, Unset({"extract_run_datetime"}))) = LoadMeans(argv)
  <1> DEFINE T == Config(line) \cup Interval(line) \cup Lake(settings)
             A == Aspects(line, Unset({"extract_run_datetime"}))
  <1>1. Bound(T) = TransferMeans(argv)
    BY LoadSays, TransferRead, KwargsOnlyLake
  <1>2. A = {<<"extract_run_datetime", Given(argv, "--extract-run-datetime", None)>>}
    <2>1. Values(argv, "--extract-run-datetime") = Passing(a, "extract_run_datetime")
      BY LoadSays, KwargsOnlyLake
    <2>2. Given(argv, "--extract-run-datetime", None) = ValueOf(line, "extract_run_datetime", None)
      BY <2>1, OptionRead DEF Window
    <2>3. A = {<<"extract_run_datetime", ValueOf(line, "extract_run_datetime", None)>>}
      BY DEF Aspects, Unset
    <2> QED
      BY <2>2, <2>3
  <1> HIDE DEF T, A
  <1>3. Bound(A) = {<<"extract_run_datetime", Given(argv, "--extract-run-datetime", None)>>}
    BY <1>2, BoundAspect
  <1>4. Bound(T \cup A) = LoadMeans(argv)
    BY <1>1, <1>3, BoundUnion DEF LoadMeans
  <1> QED
    BY <1>4 DEF T, A

LEMMA PruneDoes ==
    ASSUME NEW line, Sound(line), Passed(line, "interval_start"), NEW a, Spelled(a, line),
           NEW settings, NEW argv, argv = PruneArgv(a, LakeKwargs(settings))
    PROVE  Bound(PruneEffect(line, settings)) = PruneMeans(argv)
  <1> DEFINE T == Config(line) \cup Interval(line) \cup Lake(settings)
             A == Aspects(line, [keep |-> 1])
  <1>1. Bound(T) = TransferMeans(argv)
    BY PruneSays, TransferRead, KwargsOnlyLake
  <1>2. A = {<<"keep", Given(argv, "--keep", 1)>>}
    <2>1. Values(argv, "--keep") = {ValueOf(a, "keep", 1)}
      BY PruneSays, KwargsOnlyLake
    <2>2. Given(argv, "--keep", 1) = ValueOf(line, "keep", 1)
      BY <2>1, GivenIs DEF Spelled, Window
    <2>3. A = {<<"keep", ValueOf(line, "keep", 1)>>}
      BY DEF Aspects
    <2> QED
      BY <2>2, <2>3
  <1>3. PruneEffect(line, settings) = T \cup A
    BY DEF PruneEffect
  <1> HIDE DEF T, A
  <1>4. Bound(A) = {<<"keep", Given(argv, "--keep", 1)>>}
    BY <1>2, BoundAspect
  <1> QED
    BY <1>1, <1>3, <1>4, BoundUnion DEF PruneMeans

LEMMA DbtDoes ==
    ASSUME NEW line, Sound(line), NEW a, Spelled(a, line), NEW settings, NEW environment,
           NEW argv, argv = DbtArgv(a, LakeKwargs(settings))
    PROVE  Bound(DbtEffect(line, settings, environment)) = DbtMeans(argv, environment.target)
  <1> DEFINE target == FirstGiven(ValueOf(line, "target", None), environment.target)
             select == IF Passed(line, "select") THEN line.select
                       ELSE IF Passed(line, "pipeline") THEN ResolvedPath(line.pipeline) ELSE "all"
             chosen == {<<"target", target>>, <<"select", select>>}
             project == {<<"project", ValueOf(line, "project_dir", None)>>}
             defaults == [command |-> "build", full_refresh |-> FALSE, catchup_manifest |-> None]
             A == Aspects(line, defaults)
  <1>1. /\ Values(argv, "--command") = {ValueOf(a, "command", "build")}
        /\ Values(argv, "-p") = Passing(a, "pipeline")
        /\ Values(argv, "--select") = Passing(a, "select")
        /\ Values(argv, "--full-refresh") = Turned(a, "full_refresh")
        /\ Values(argv, "--catchup-manifest") = Passing(a, "catchup_manifest")
        /\ Values(argv, "--target") = Passing(a, "target")
        /\ Values(argv, "--set") = Assigning(a)
        /\ SameLake(argv, LakeKwargs(settings))
    BY DbtSays, KwargsOnlyLake
  <1>2. Bound(Config(line)) = ConfigIn(argv)
    BY <1>1, ConfigRead DEF Sound
  <1>3. Bound(Lake(settings)) = {<<"lake", LakeIn(argv)>>}
    BY <1>1, LakeRead
  <1>4. FirstGiven(Given(argv, "--target", None), environment.target) = target
    <2>1. Given(argv, "--target", None) = ValueOf(line, "target", None)
      BY <1>1, OptionRead DEF Window
    <2> QED
      BY <2>1
  <1>5. Given(argv, "--select", PathIn(argv, "-p", "all")) = select
    <2>1. Given(argv, "--select", PathIn(argv, "-p", "all")) =
            IF Passed(line, "select") THEN line.select ELSE PathIn(argv, "-p", "all")
      BY <1>1, OptionRead DEF Window, ValueOf
    <2>2. PathIn(argv, "-p", "all") =
            IF Passed(line, "pipeline") THEN ResolvedPath(line.pipeline) ELSE "all"
      BY <1>1, PathRead DEF Sound
    <2> QED
      BY <2>1, <2>2
  <1>6. A = {<<"command", Given(argv, "--command", "build")>>,
             <<"full_refresh", Given(argv, "--full-refresh", FALSE)>>,
             <<"catchup_manifest", Given(argv, "--catchup-manifest", None)>>}
    <2>1. Given(argv, "--command", "build") = ValueOf(line, "command", "build")
      BY <1>1, GivenIs DEF Spelled, Window
    <2>2. Given(argv, "--full-refresh", FALSE) = ValueOf(line, "full_refresh", FALSE)
      <3>1. "full_refresh" \in Switches
        BY DEF Switches
      <3> QED
        BY <1>1, <3>1, SwitchRead, Zenon
    <2>3. Given(argv, "--catchup-manifest", None) = ValueOf(line, "catchup_manifest", None)
      BY <1>1, OptionRead DEF Window
    <2>4. A = {<<"command", ValueOf(line, "command", defaults["command"])>>,
               <<"full_refresh", ValueOf(line, "full_refresh", defaults["full_refresh"])>>,
               <<"catchup_manifest", ValueOf(line, "catchup_manifest", defaults["catchup_manifest"])>>}
      <3>1. DOMAIN defaults = {"command", "full_refresh", "catchup_manifest"}
        OBVIOUS
      <3> HIDE DEF defaults
      <3> QED
        BY <3>1 DEF Aspects
    <2>5. /\ defaults["command"] = "build" /\ defaults["full_refresh"] = FALSE
          /\ defaults["catchup_manifest"] = None
      OBVIOUS
    <2> HIDE DEF A, defaults
    <2> QED
      BY <2>1, <2>2, <2>3, <2>4, <2>5
  <1>7. DbtEffect(line, settings, environment) =
          Config(line) \cup Lake(settings) \cup chosen \cup project \cup A
    BY DEF DbtEffect
  <1>8. Bound(A) = A
    BY BoundAspects
  <1> HIDE DEF A, target, select
  <1>9. Bound(chosen) = chosen /\ Bound(project) = {}
    BY DEF Bound
  <1> HIDE DEF chosen, project
  <1>10. Bound(DbtEffect(line, settings, environment)) =
           ConfigIn(argv) \cup {<<"lake", LakeIn(argv)>>} \cup chosen \cup A
    <2>1. Bound(Config(line) \cup Lake(settings) \cup chosen \cup project \cup A) =
            Bound(Config(line)) \cup Bound(Lake(settings)) \cup Bound(chosen) \cup Bound(project)
              \cup Bound(A)
      BY DEF Bound
    <2> QED
      BY <1>2, <1>3, <1>7, <1>8, <1>9, <2>1
  <1>11. DbtMeans(argv, environment.target) =
           ConfigIn(argv) \cup {<<"lake", LakeIn(argv)>>} \cup chosen \cup A
    BY <1>4, <1>5, <1>6 DEF DbtMeans, chosen
  <1> QED
    BY <1>10, <1>11

\* The list of migrate is built from a line with two flags changed.
LEMMA MigrateRead ==
    ASSUME NEW line, Sound(line), NEW a, Spelled(a, line), NEW settings,
           Passed(line, "all_raw") \/ Passed(line, "interval_start"), NEW argv,
           Values(argv, "-p") = Passing(a, "pipeline"),
           \A flag \in {"--all-raw", "-s", "-e"} :
             Values(argv, flag) = Values(MigrateScope(a), flag),
           Values(argv, "--to-bronze") = Passing(a, "to_bronze"),
           Values(argv, "--mapper") = Passing(a, "mapper"),
           Values(argv, "--from-raw") = Passing(a, "from_raw"),
           Values(argv, "--wire-version") = Passing(a, "wire_version"),
           Values(argv, "--recreate-iceberg") = Turned(a, "recreate_iceberg"),
           Values(argv, "--all-raw-runs") = Turned(a, "all_raw_runs"),
           Values(argv, "--set") = Assigning(a), SameLake(argv, LakeKwargs(settings)),
           Given(argv, "--schema", None).file = line.schema.file,
           Given(argv, "--ingestion", "thin") = ValueOf(line, "ingestion", "thin")
    PROVE  Bound(MigrateEffect(line, settings)) = MigrateMeans(argv)
  <1> DEFINE scope == IF Passed(line, "all_raw") THEN {<<"interval", "all">>} ELSE Interval(line)
             schema == {<<"schema", line.schema.file>>}
             unset == Unset({"to_bronze", "mapper", "from_raw", "wire_version"})
             defaults == [recreate_iceberg |-> FALSE, all_raw_runs |-> FALSE, ingestion |-> "thin"]
             A == Aspects(line, unset)
             B == Aspects(line, defaults)
  <1>1. Bound(Config(line)) = ConfigIn(argv)
    BY ConfigRead DEF Sound
  <1>2. Bound(Lake(settings)) = {<<"lake", LakeIn(argv)>>}
    BY LakeRead
  <1>3. Bound(scope) =
          {<<"interval", IF Has(argv, "--all-raw") THEN "all" ELSE IntervalIn(argv)>>}
    <2>1. (Passed(a, "all_raw") <=> Passed(line, "all_raw"))
            /\ ValueOf(a, "all_raw", FALSE) = ValueOf(line, "all_raw", FALSE)
      BY DEF Spelled, Window
    <2>2. Passed(a, "all_raw") => a["all_raw"] = TRUE
      BY <2>1 DEF ValueOf, Sound, Switches
    <2>3. CASE Passed(line, "all_raw")
      <3>1. Values(argv, "--all-raw") = {TRUE}
        BY <2>1, <2>2, <2>3, ScopeOfMigrate
      <3>2. Has(argv, "--all-raw")
        BY <3>1 DEF Has
      <3>3. scope = {<<"interval", "all">>}
        BY <2>3
      <3> QED
        BY <3>2, <3>3, BoundPair
    <2>4. CASE ~Passed(line, "all_raw")
      <3>1. /\ Values(argv, "--all-raw") = {}
            /\ Values(argv, "-s") = Starting(a) /\ Values(argv, "-e") = Ending(a)
        BY <2>1, <2>2, <2>4, ScopeOfMigrate
      <3>2. ~Has(argv, "--all-raw")
        BY <3>1 DEF Has
      <3>3. IntervalIn(argv) = ResolveInterval(line)
        BY <2>4, <3>1, IntervalRead
      <3>4. scope = {<<"interval", ResolveInterval(line)>>}
        BY <2>4 DEF Interval
      <3> QED
        BY <3>2, <3>3, <3>4, BoundPair
    <2> QED
      BY <2>3, <2>4
  <1>4. Bound(schema) = {<<"schema", Given(argv, "--schema", None).file>>}
    BY BoundPair
  <1>5. A = {<<"to_bronze", Given(argv, "--to-bronze", None)>>,
             <<"mapper", Given(argv, "--mapper", None)>>,
             <<"from_raw", Given(argv, "--from-raw", None)>>,
             <<"wire_version", Given(argv, "--wire-version", None)>>}
    <2>1. /\ Given(argv, "--to-bronze", None) = ValueOf(line, "to_bronze", None)
          /\ Given(argv, "--mapper", None) = ValueOf(line, "mapper", None)
      BY OptionRead DEF Window
    <2>2. /\ Given(argv, "--from-raw", None) = ValueOf(line, "from_raw", None)
          /\ Given(argv, "--wire-version", None) = ValueOf(line, "wire_version", None)
      BY OptionRead DEF Window
    <2>3. A = {<<"to_bronze", ValueOf(line, "to_bronze", None)>>,
               <<"mapper", ValueOf(line, "mapper", None)>>,
               <<"from_raw", ValueOf(line, "from_raw", None)>>,
               <<"wire_version", ValueOf(line, "wire_version", None)>>}
      BY DEF Aspects, Unset
    <2> HIDE DEF A
    <2> QED
      BY <2>1, <2>2, <2>3
  <1>6. B = {<<"recreate_iceberg", Given(argv, "--recreate-iceberg", FALSE)>>,
             <<"all_raw_runs", Given(argv, "--all-raw-runs", FALSE)>>,
             <<"ingestion", Given(argv, "--ingestion", "thin")>>}
    <2>1. "recreate_iceberg" \in Switches /\ "all_raw_runs" \in Switches
      BY DEF Switches
    <2>2. Given(argv, "--recreate-iceberg", FALSE) = ValueOf(line, "recreate_iceberg", FALSE)
      BY <2>1, SwitchRead, Zenon
    <2>3. Given(argv, "--all-raw-runs", FALSE) = ValueOf(line, "all_raw_runs", FALSE)
      BY <2>1, SwitchRead, Zenon
    <2>4. B = {<<"recreate_iceberg", ValueOf(line, "recreate_iceberg", defaults["recreate_iceberg"])>>,
               <<"all_raw_runs", ValueOf(line, "all_raw_runs", defaults["all_raw_runs"])>>,
               <<"ingestion", ValueOf(line, "ingestion", defaults["ingestion"])>>}
      <3>1. DOMAIN defaults = {"recreate_iceberg", "all_raw_runs", "ingestion"}
        OBVIOUS
      <3> HIDE DEF defaults
      <3> QED
        BY <3>1 DEF Aspects
    <2>5. /\ defaults["recreate_iceberg"] = FALSE /\ defaults["all_raw_runs"] = FALSE
          /\ defaults["ingestion"] = "thin"
      OBVIOUS
    <2> HIDE DEF B, defaults
    <2> QED
      BY <2>2, <2>3, <2>4, <2>5
  <1>7. MigrateEffect(line, settings) =
            Config(line) \cup Lake(settings) \cup scope \cup schema \cup A \cup B
    BY DEF MigrateEffect
  <1>8. Bound(A) = A
    BY BoundAspects DEF Unset
  <1>9. Bound(B) = B
    BY BoundAspects
  <1> HIDE DEF A, B, scope, schema
  <1>10. Bound(Config(line) \cup Lake(settings) \cup scope \cup schema \cup A \cup B) =
           Bound(Config(line)) \cup Bound(Lake(settings)) \cup Bound(scope) \cup Bound(schema)
             \cup Bound(A) \cup Bound(B)
    BY DEF Bound
  <1>11. MigrateMeans(argv) = ConfigIn(argv) \cup {<<"lake", LakeIn(argv)>>}
           \cup {<<"interval", IF Has(argv, "--all-raw") THEN "all" ELSE IntervalIn(argv)>>}
           \cup {<<"schema", Given(argv, "--schema", None).file>>} \cup A \cup B
    BY <1>5, <1>6 DEF MigrateMeans
  <1> QED
    BY <1>1, <1>2, <1>3, <1>4, <1>7, <1>8, <1>9, <1>10, <1>11

LEMMA InitPipelineDoes ==
    ASSUME NEW line, Sound(line), NEW argv, argv = InitPipelineArgv(line)
    PROVE  Bound({<<"tree", ValueOf(line, "project_root", None)>>}
                   \cup Aspects(line, Unset({"name", "source_type", "connection"}))
                   \cup Aspects(line, [destination_type |-> "iceberg", skip_dbt |-> FALSE,
                                       force |-> FALSE])) = InitPipelineMeans(argv)
  <1> DEFINE tree == {<<"tree", ValueOf(line, "project_root", None)>>}
             defaults == [destination_type |-> "iceberg", skip_dbt |-> FALSE, force |-> FALSE]
             A == Aspects(line, Unset({"name", "source_type", "connection"}))
             B == Aspects(line, defaults)
  <1>1. /\ Values(argv, "--name") = Passing(line, "name")
        /\ Values(argv, "--source-type") = Passing(line, "source_type")
        /\ Values(argv, "--destination-type") = {ValueOf(line, "destination_type", "iceberg")}
        /\ Values(argv, "--connection") = Passing(line, "connection")
        /\ Values(argv, "--skip-dbt") = Turned(line, "skip_dbt")
        /\ Values(argv, "--force") = Turned(line, "force")
    BY InitPipelineSays
  <1>2. A = {<<"name", Given(argv, "--name", None)>>,
             <<"source_type", Given(argv, "--source-type", None)>>,
             <<"connection", Given(argv, "--connection", None)>>}
    <2>1. /\ Given(argv, "--name", None) = ValueOf(line, "name", None)
          /\ Given(argv, "--source-type", None) = ValueOf(line, "source_type", None)
          /\ Given(argv, "--connection", None) = ValueOf(line, "connection", None)
      BY <1>1, ReadOption
    <2>2. A = {<<"name", ValueOf(line, "name", None)>>,
               <<"source_type", ValueOf(line, "source_type", None)>>,
               <<"connection", ValueOf(line, "connection", None)>>}
      BY DEF Aspects, Unset
    <2> HIDE DEF A
    <2> QED
      BY <2>1, <2>2
  <1>3. B = {<<"destination_type", Given(argv, "--destination-type", "iceberg")>>,
             <<"skip_dbt", Given(argv, "--skip-dbt", FALSE)>>,
             <<"force", Given(argv, "--force", FALSE)>>}
    <2>1. Given(argv, "--destination-type", "iceberg") =
              ValueOf(line, "destination_type", "iceberg")
      BY <1>1, GivenIs
    <2>2. /\ Passed(line, "skip_dbt") => line["skip_dbt"] = TRUE
          /\ Passed(line, "force") => line["force"] = TRUE
      BY DEF Sound, Switches
    <2>3. Given(argv, "--skip-dbt", FALSE) = ValueOf(line, "skip_dbt", FALSE)
      <3>1. Values(argv, "--skip-dbt") = Turned(line, "skip_dbt")
        BY <1>1
      <3>2. Passed(line, "skip_dbt") => line["skip_dbt"] = TRUE
        BY <2>2
      <3> QED
        BY <3>1, <3>2, ReadSwitch, Zenon
    <2>4. Given(argv, "--force", FALSE) = ValueOf(line, "force", FALSE)
      <3>1. Values(argv, "--force") = Turned(line, "force")
        BY <1>1
      <3>2. Passed(line, "force") => line["force"] = TRUE
        BY <2>2
      <3> QED
        BY <3>1, <3>2, ReadSwitch, Zenon
    <2>5. B = {<<"destination_type", ValueOf(line, "destination_type", defaults["destination_type"])>>,
               <<"skip_dbt", ValueOf(line, "skip_dbt", defaults["skip_dbt"])>>,
               <<"force", ValueOf(line, "force", defaults["force"])>>}
      <3>1. DOMAIN defaults = {"destination_type", "skip_dbt", "force"}
        OBVIOUS
      <3> HIDE DEF defaults
      <3> QED
        BY <3>1 DEF Aspects
    <2>6. /\ defaults["destination_type"] = "iceberg" /\ defaults["skip_dbt"] = FALSE
          /\ defaults["force"] = FALSE
      OBVIOUS
    <2> HIDE DEF B, defaults
    <2> QED
      BY <2>1, <2>3, <2>4, <2>5, <2>6
  <1>4. Bound(A) = A
    BY BoundAspects DEF Unset
  <1>5. Bound(B) = B
    BY BoundAspects
  <1>6. Bound(tree) = {}
    BY BoundPair
  <1> HIDE DEF A, B, tree
  <1>7. Bound(tree \cup A \cup B) = A \cup B
    <2>1. Bound(tree \cup A \cup B) = Bound(tree) \cup Bound(A) \cup Bound(B)
      BY DEF Bound
    <2> QED
      BY <1>4, <1>5, <1>6, <2>1
  <1>8. InitPipelineMeans(argv) = A \cup B
    BY <1>2, <1>3 DEF InitPipelineMeans
  <1> QED
    BY <1>7, <1>8 DEF A, B, tree

LEMMA ForceTurned ==
    ASSUME NEW line, NEW argv, Given(argv, "--force", FALSE) = ValueOf(line, "force", FALSE)
    PROVE  Bound(Aspects(line, [force |-> FALSE])) = {<<"force", Given(argv, "--force", FALSE)>>}
  <1> DEFINE defaults == [force |-> FALSE]
  <1>1. Bound(Aspects(line, defaults)) = Aspects(line, defaults)
    BY BoundAspects
  <1>2. defaults["force"] = FALSE
    OBVIOUS
  <1>3. Aspects(line, defaults) = {<<"force", ValueOf(line, "force", defaults["force"])>>}
    <2>1. DOMAIN defaults = {"force"}
      OBVIOUS
    <2> HIDE DEF defaults
    <2> QED
      BY <2>1 DEF Aspects
  <1> HIDE DEF defaults
  <1>4. Bound(Aspects(line, defaults)) = {<<"force", Given(argv, "--force", FALSE)>>}
    BY <1>1, <1>2, <1>3
  <1> QED
    BY <1>4 DEF defaults

LEMMA ScaffoldDbtDoes ==
    ASSUME NEW line, Sound(line), NEW a, Spelled(a, line), NEW argv, argv = ScaffoldDbtArgv(a)
    PROVE  Bound(Config(line) \cup Aspects(line, [force |-> FALSE])) = ScaffoldDbtMeans(argv)
  <1> DEFINE A == Aspects(line, [force |-> FALSE])
  <1>1. /\ Values(argv, "-p") = Passing(a, "pipeline")
        /\ Values(argv, "--force") = Turned(a, "force")
        /\ Values(argv, "--set") = Assigning(a)
    BY ScaffoldDbtSays
  <1>2. Bound(Config(line)) = ConfigIn(argv)
    BY <1>1, ConfigRead DEF Sound
  <1>3. Bound(A) = {<<"force", Given(argv, "--force", FALSE)>>}
    <2>1. "force" \in Switches
      BY DEF Switches
    <2>2. Given(argv, "--force", FALSE) = ValueOf(line, "force", FALSE)
      BY <1>1, <2>1, SwitchRead, Zenon
    <2> QED
      BY <2>2, ForceTurned
  <1> HIDE DEF A
  <1>4. Bound(Config(line) \cup A) = ScaffoldDbtMeans(argv)
    <2>1. Bound(Config(line) \cup A) = Bound(Config(line)) \cup Bound(A)
      BY BoundUnion
    <2> QED
      BY <1>2, <1>3, <2>1, Zenon DEF ScaffoldDbtMeans
  <1> QED
    BY <1>4 DEF A

LEMMA ScaffoldOpsDoes ==
    ASSUME NEW line, Sound(line)
    PROVE  Bound({<<"tree", ValueOf(line, "project_root", None)>>} \cup Aspects(line, [force |-> FALSE]))
             = ScaffoldOpsMeans(ScaffoldOpsArgv(line))
  <1> DEFINE A == Aspects(line, [force |-> FALSE])
             argv == ScaffoldOpsArgv(line)
             tree == {<<"tree", ValueOf(line, "project_root", None)>>}
  <1>1. Values(argv, "--force") = Turned(line, "force")
    BY ScaffoldOpsSays
  <1>2. Passed(line, "force") => line["force"] = TRUE
    BY DEF Sound, Switches
  <1>3. Bound(A) = {<<"force", Given(argv, "--force", FALSE)>>}
    <2>1. Given(argv, "--force", FALSE) = ValueOf(line, "force", FALSE)
      BY <1>1, <1>2, ReadSwitch, Zenon
    <2> HIDE DEF argv
    <2> QED
      BY <2>1, ForceTurned
  <1>4. Bound(tree) = {}
    BY BoundPair
  <1> HIDE DEF A, argv, tree
  <1>5. Bound(tree \cup A) = Bound(A)
    BY <1>4, BoundUnion
  <1>6. Bound(tree \cup A) = ScaffoldOpsMeans(argv)
    BY <1>3, <1>5, Zenon DEF ScaffoldOpsMeans
  <1> QED
    BY <1>6 DEF A, argv, tree

LEMMA PassingWith ==
    \A a, name, value, n : n # name => Passing(With(a, name, value), n) = Passing(a, n)
  BY DEF Passing, With

LEMMA RegisterRead ==
    ASSUME NEW line, Sound(line), NEW a, Spelled(a, line), NEW settings, NEW argv,
           Values(argv, "--pipeline") =
               Passing(a, "pipeline"), SameLake(argv, LakeKwargs(settings)),
           Has(argv, "--skip-ops") <=> Passed(line, "skip_ops") \/ Passed(line, "pipeline")
    PROVE  RegisterMeans(argv) =
             {<<"config", IF Passed(line, "pipeline") THEN ResolvedPath(line.pipeline) ELSE "all">>,
              <<"ops", ~Passed(line, "skip_ops") /\ ~Passed(line, "pipeline")>>}
               \cup Bound(Lake(settings))
  <1> DEFINE path == IF Passed(line, "pipeline") THEN ResolvedPath(line.pipeline) ELSE "all"
             ops == ~Passed(line, "skip_ops") /\ ~Passed(line, "pipeline")
  <1>1. PathIn(argv, "--pipeline", "all") = path
    BY PathRead DEF Sound
  <1>2. (~Has(argv, "--skip-ops")) = ops
    BY Zenon
  <1>3. Bound(Lake(settings)) = {<<"lake", LakeIn(argv)>>}
    BY LakeRead
  <1> HIDE DEF path, ops
  <1>4. {<<"config", path>>, <<"ops", ops>>, <<"lake", LakeIn(argv)>>} =
          {<<"config", path>>, <<"ops", ops>>} \cup {<<"lake", LakeIn(argv)>>}
    OBVIOUS
  <1>5. RegisterMeans(argv) = {<<"config", path>>, <<"ops", ops>>} \cup Bound(Lake(settings))
    BY <1>1, <1>2, <1>3, <1>4, Zenon DEF RegisterMeans
  <1> QED
    BY <1>5 DEF path, ops

LEMMA BiglakeDoes ==
    ASSUME NEW line, Sound(line), NEW settings, NEW environment,
           NEW argv, argv = BiglakeArgv(BiglakeFlags(line), LakeKwargs(settings))
    PROVE  Bound(BiglakeEffect(line, settings, environment)) = BiglakeMeans(argv, environment.project)
  <1> DEFINE a == BiglakeFlags(line)
             b == WithPipeline(line)
             path == IF Passed(line, "pipeline") THEN ResolvedPath(line.pipeline) ELSE "all"
             ops == ~Passed(line, "skip_ops") /\ ~Passed(line, "pipeline")
             dataset == FirstGiven(ValueOf(line, "project", None), environment.project)
  <1>1. /\ Values(argv, "--pipeline") = Passing(a, "pipeline")
        /\ Values(argv, "--project") = Passing(a, "project")
        /\ Values(argv, "--skip-ops") = Turned(a, "skip_ops")
        /\ SameLake(argv, LakeKwargs(settings))
    BY BiglakeSays, KwargsOnlyLake
  <1>2. Spelled(b, line)
    BY PipelineSpelled
  <1>3. a = IF Passed(line, "pipeline") THEN With(b, "skip_ops", TRUE) ELSE b
    BY DEF BiglakeFlags, WithPipeline
  <1>4. ~Passed(line, "pipeline") => a = line
    BY DEF BiglakeFlags
  <1> HIDE DEF a, b
  <1>5. /\ Values(argv, "--pipeline") = Passing(b, "pipeline")
        /\ Values(argv, "--project") = Passing(b, "project")
    <2>1. CASE Passed(line, "pipeline")
      <3>1. \A n : n # "skip_ops" => Passing(a, n) = Passing(b, n)
        <4> DEFINE on == TRUE
        <4>1. a = With(b, "skip_ops", on)
          BY <1>3, <2>1
        <4> HIDE DEF on
        <4> QED
          BY <4>1, PassingWith
      <3> QED
        BY <1>1, <3>1
    <2>2. CASE ~Passed(line, "pipeline")
      BY <1>1, <1>3, <2>2
    <2> QED
      BY <2>1, <2>2
  <1>6. Has(argv, "--skip-ops") <=> Passed(line, "skip_ops") \/ Passed(line, "pipeline")
    <2>1. CASE Passed(line, "pipeline")
      <3>1. a = With(b, "skip_ops", TRUE)
        BY <1>3, <2>1
      <3>2. ValueOf(a, "skip_ops", FALSE) = TRUE
        BY <3>1, ValueOfWith, Zenon
      <3>3. Values(argv, "--skip-ops") = {TRUE}
        BY <1>1, <3>2 DEF Turned
      <3> QED
        BY <2>1, <3>3 DEF Has
    <2>2. CASE ~Passed(line, "pipeline")
      <3>1. Values(argv, "--skip-ops") = Turned(line, "skip_ops")
        BY <1>1, <1>4, <2>2
      <3>2. Passed(line, "skip_ops") => line["skip_ops"] = TRUE
        BY DEF Sound, Switches
      <3> QED
        BY <2>2, <3>1, <3>2, ReadSwitch
    <2> QED
      BY <2>1, <2>2
  <1>7. RegisterMeans(argv) = {<<"config", path>>, <<"ops", ops>>} \cup Bound(Lake(settings))
    BY <1>1, <1>2, <1>5, <1>6, RegisterRead, Zenon
  <1>8. FirstGiven(Given(argv, "--project", None), environment.project) = dataset
    <2>1. Given(argv, "--project", None) = ValueOf(line, "project", None)
      BY <1>2, <1>5, OptionRead DEF Window
    <2> QED
      BY <2>1
  <1>9. BiglakeEffect(line, settings, environment) =
          {<<"config", path>>, <<"tree", ValueOf(line, "project_root", None)>>, <<"ops", ops>>,
           <<"dataset", dataset>>} \cup Lake(settings)
    BY Zenon DEF BiglakeEffect
  <1> HIDE DEF path, ops, dataset
  <1>10. Bound(BiglakeEffect(line, settings, environment)) =
           {<<"config", path>>, <<"ops", ops>>} \cup Bound(Lake(settings))
               \cup {<<"dataset", dataset>>}
    <2>1. Bound({<<"config", path>>, <<"tree", ValueOf(line, "project_root", None)>>, <<"ops", ops>>,
                 <<"dataset", dataset>>} \cup Lake(settings)) =
            {<<"config", path>>, <<"ops", ops>>} \cup Bound(Lake(settings))
                \cup {<<"dataset", dataset>>}
      BY DEF Bound
    <2> QED
      BY <1>9, <2>1, Zenon
  <1> QED
    BY <1>7, <1>8, <1>10, Zenon DEF BiglakeMeans

LEMMA IcebergDoes ==
    ASSUME NEW line, Sound(line), NEW settings, NEW environment, NEW argv,
           argv = IcebergArgv(WithPipeline(line), LakeKwargs(settings), environment.catalog)
    PROVE  Bound(IcebergEffect(line, settings, environment)) = IcebergMeans(argv)
  <1> DEFINE a == WithPipeline(line)
             catalog == environment.catalog
             path == IF Passed(line, "pipeline") THEN ResolvedPath(line.pipeline) ELSE "all"
             ops == ~Passed(line, "skip_ops") /\ ~Passed(line, "pipeline")
  <1>1. /\ Values(argv, "--pipeline") = Passing(a, "pipeline")
        /\ Values(argv, "--catalog-target") = {catalog}
        /\ Passed(a, "skip_ops") \/ Passed(a, "pipeline") => Values(argv, "--skip-ops") = {TRUE}
        /\ ~(Passed(a, "skip_ops") \/ Passed(a, "pipeline")) => Values(argv, "--skip-ops") = {}
        /\ SameLake(argv, LakeKwargs(settings))
    <2>1. argv = IcebergArgv(a, LakeKwargs(settings), catalog)
      OBVIOUS
    <2> HIDE DEF a, catalog
    <2> QED
      BY <2>1, IcebergSays, KwargsOnlyLake
  <1>2. Spelled(a, line)
    BY PipelineSpelled
  <1> HIDE DEF a, catalog
  <1>3. Has(argv, "--skip-ops") <=> Passed(line, "skip_ops") \/ Passed(line, "pipeline")
    <2>1. Passed(a, "skip_ops") \/ Passed(a, "pipeline")
            <=> Passed(line, "skip_ops") \/ Passed(line, "pipeline")
      BY <1>2 DEF Spelled, Window
    <2> QED
      BY <1>1, <2>1 DEF Has
  <1>4. RegisterMeans(argv) = {<<"config", path>>, <<"ops", ops>>} \cup Bound(Lake(settings))
    <2>1. Values(argv, "--pipeline") = Passing(a, "pipeline")
      BY <1>1
    <2>2. SameLake(argv, LakeKwargs(settings))
      BY <1>1
    <2> QED
      BY <1>2, <1>3, <2>1, <2>2, RegisterRead, Zenon
  <1>5. Given(argv, "--catalog-target", None) = catalog
    BY <1>1, GivenIs
  <1>6. IcebergEffect(line, settings, environment) =
          {<<"config", path>>, <<"tree", ValueOf(line, "project_root", None)>>, <<"ops", ops>>,
           <<"catalog", catalog>>} \cup Lake(settings)
    BY Zenon DEF IcebergEffect, catalog
  <1> HIDE DEF path, ops
  <1>7. Bound(IcebergEffect(line, settings, environment)) =
          {<<"config", path>>, <<"ops", ops>>} \cup Bound(Lake(settings))
              \cup {<<"catalog", catalog>>}
    <2>1. Bound({<<"config", path>>, <<"tree", ValueOf(line, "project_root", None)>>, <<"ops", ops>>,
                 <<"catalog", catalog>>} \cup Lake(settings)) =
            {<<"config", path>>, <<"ops", ops>>} \cup Bound(Lake(settings))
                \cup {<<"catalog", catalog>>}
      BY DEF Bound
    <2> QED
      BY <1>6, <2>1, Zenon
  <1> QED
    BY <1>4, <1>5, <1>7, Zenon DEF IcebergMeans

LEMMA LockReleaseDoes ==
    ASSUME NEW line, Sound(line), Passed(line, "pipeline"),
           Passed(line, "dataset_id") \/ Passed(line, "interval_start"), NEW a, Spelled(a, line),
           NEW settings, NEW argv, argv = LockReleaseArgv(a, LakeKwargs(settings))
    PROVE  Bound(Lake(settings)
                   \cup {<<"lock", IF Passed(line, "dataset_id") THEN line.dataset_id
                                   ELSE <<CanonicalId(line.pipeline), ResolveInterval(line)>> >>})
             = LockReleaseMeans(argv)
  <1> DEFINE lock == IF Passed(line, "dataset_id") THEN line.dataset_id
                     ELSE <<CanonicalId(line.pipeline), ResolveInterval(line)>>
             said == IF Has(argv, "--dataset-id") THEN Given(argv, "--dataset-id", None)
                     ELSE <<Given(argv, "-p", None), IntervalIn(argv)>>
  <1>1. /\ Values(argv, "-p") = Passing(a, "pipeline")
        /\ Values(argv, "--dataset-id") = Passing(a, "dataset_id")
        /\ ~Passed(a, "dataset_id") =>
             Values(argv, "-s") = Starting(a) /\ Values(argv, "-e") = Ending(a)
        /\ SameLake(argv, LakeKwargs(settings))
    BY LockReleaseSays, KwargsOnlyLake
  <1>2. Bound(Lake(settings)) = {<<"lake", LakeIn(argv)>>}
    BY <1>1, LakeRead
  <1>3. said = lock
    <2>1. /\ Has(argv, "--dataset-id") <=> Passed(line, "dataset_id")
          /\ Given(argv, "--dataset-id", None) = ValueOf(line, "dataset_id", None)
      BY <1>1, OptionRead DEF Window
    <2>2. CASE Passed(line, "dataset_id")
      BY <2>1, <2>2 DEF ValueOf
    <2>3. CASE ~Passed(line, "dataset_id")
      <3>1. Given(argv, "-p", None) = CanonicalId(line.pipeline)
        BY <1>1, ReadOption DEF Spelled, CanonicalId
      <3>2. ~Passed(a, "dataset_id")
        BY <2>3 DEF Spelled, Window
      <3>3. IntervalIn(argv) = ResolveInterval(line)
        BY <1>1, <2>3, <3>2, IntervalRead
      <3> QED
        BY <2>1, <2>3, <3>1, <3>3
    <2> QED
      BY <2>2, <2>3
  <1>4. LockReleaseMeans(argv) = {<<"lake", LakeIn(argv)>>} \cup {<<"lock", said>>}
    BY DEF LockReleaseMeans
  <1> HIDE DEF lock, said
  <1>5. Bound(Lake(settings) \cup {<<"lock", lock>>}) =
            Bound(Lake(settings)) \cup {<<"lock", lock>>}
    BY DEF Bound
  <1>6. Bound(Lake(settings) \cup {<<"lock", lock>>}) = LockReleaseMeans(argv)
    BY <1>2, <1>3, <1>4, <1>5
  <1> QED
    BY <1>6 DEF lock

LEMMA CatchupDoes ==
    ASSUME NEW a, Passed(a, "content_digest"), NEW settings, NEW argv,
           argv = CatchupPlanArgv(a, LakeKwargs(settings))
    PROVE  Bound(CatchupEffect(a.content_digest, settings)) = CatchupMeans(argv)
  <1> DEFINE content == a.content_digest
  <1>1. Values(argv, "--content-digest") = Passing(a, "content_digest")
          /\ SameLake(argv, LakeKwargs(settings))
    BY CatchupPlanSays, KwargsOnlyLake
  <1>2. Given(argv, "--content-digest", None) = content
    BY <1>1, ReadOption DEF ValueOf
  <1>3. Bound(Lake(settings)) = {<<"lake", LakeIn(argv)>>}
    BY <1>1, LakeRead
  <1> HIDE DEF content
  <1>4. Bound({<<"manifest", content>>} \cup Lake(settings)) =
            {<<"manifest", content>>} \cup Bound(Lake(settings))
    BY DEF Bound
  <1>5. CatchupMeans(argv) = {<<"manifest", content>>} \cup {<<"lake", LakeIn(argv)>>}
    BY <1>2 DEF CatchupMeans
  <1>6. Bound(CatchupEffect(content, settings)) = CatchupMeans(argv)
    BY <1>3, <1>4, <1>5 DEF CatchupEffect
  <1> QED
    BY <1>6 DEF content

LEMMA CleanupDoes ==
    ASSUME NEW line, CleanupScopeOk(line), NEW argv, argv = CleanupArgv(WithCutoff(line))
    PROVE  Bound(CleanupEffect(line)) = CleanupMeans(argv)
  <1> DEFINE a == WithCutoff(line)
             cut == world.clock - line.older_than
             dropped == IF Passed(line, "manifest_id") THEN line.manifest_id ELSE a.created_before
  <1>1. /\ Values(argv, "--manifest-id") = Passing(a, "manifest_id")
        /\ Values(argv, "--created-before") = Passing(a, "created_before")
    BY CleanupSays
  <1>2. a = IF Passed(line, "older_than") THEN With(line, "created_before", cut) ELSE line
    BY DEF WithCutoff
  <1> HIDE DEF cut
  <1>3. Passed(line, "manifest_id") \/ Passed(line, "created_before") \/ Passed(line, "older_than")
    <2>1. Cardinality({}) = 0
      BY FS_EmptySet
    <2>2. {"manifest_id", "created_before", "older_than"} \cap DOMAIN line # {}
      BY <2>1 DEF CleanupScopeOk
    <2> QED
      BY <2>2 DEF Passed
  <1>4. /\ Passed(a, "manifest_id") <=> Passed(line, "manifest_id")
        /\ Passed(a, "manifest_id") => a["manifest_id"] = line["manifest_id"]
        /\ ~Passed(line, "manifest_id") => Passed(a, "created_before")
    BY <1>2, <1>3, PassedWith
  <1> HIDE DEF a
  <1>5. Given(argv, "--manifest-id", Given(argv, "--created-before", None)) = dropped
    <2>1. CASE Passed(line, "manifest_id")
      <3>1. ValueOf(a, "manifest_id", Given(argv, "--created-before", None)) = line.manifest_id
        BY <1>4, <2>1 DEF ValueOf
      <3> QED
        BY <1>1, <2>1, <3>1, ReadOption
    <2>2. CASE ~Passed(line, "manifest_id")
      <3>1. Given(argv, "--created-before", None) = a.created_before
        BY <1>1, <1>4, <2>2, ReadOption DEF ValueOf
      <3>2. \A default : Given(argv, "--manifest-id", default) = default
        BY <1>1, <1>4, <2>2, ReadOption DEF ValueOf
      <3> QED
        BY <2>2, <3>1, <3>2
    <2> QED
      BY <2>1, <2>2
  <1>6. CleanupEffect(line) = {<<"drop", dropped>>}
    BY DEF CleanupEffect, a
  <1> HIDE DEF dropped
  <1>7. CleanupMeans(argv) = {<<"drop", dropped>>}
    BY <1>5 DEF CleanupMeans
  <1>8. Bound({<<"drop", dropped>>}) = {<<"drop", dropped>>}
    BY BoundPair
  <1> QED
    BY <1>6, <1>7, <1>8

LEMMA BackfillDoes ==
    ASSUME NEW line, NEW argv, argv = BackfillArgv(line)
    PROVE  Bound({<<"days", Date(line.interval_start) .. Date(line.interval_end) - 1>>})
             = BackfillMeans(argv)
  <1> DEFINE first == Date(line.interval_start)
             last == Date(line.interval_end)
  <1>1. Values(argv, "--interval-start") = {first} /\ Values(argv, "--interval-end") = {last}
    BY BackfillSays
  <1> HIDE DEF first, last
  <1>2. Given(argv, "--interval-start", None) = first /\ Given(argv, "--interval-end", None) = last
    BY <1>1, GivenIs
  <1>3. Bound({<<"days", first .. last - 1>>}) = BackfillMeans(argv)
    BY <1>2, BoundPair DEF BackfillMeans
  <1> QED
    BY <1>3 DEF first, last

LEMMA CallHas ==
    ASSUME NEW ok, NEW settings, NEW argv, NEW effect
    PROVE  /\ Call(ok, settings, argv, effect).argv = argv
           /\ Call(ok, settings, argv, effect).effect = effect
           /\ Call(ok, settings, argv, effect).settings = settings
           /\ Call(ok, settings, argv, effect).ok => ok
  BY DEF Call

LEMMA CatchupCallHas ==
    ASSUME NEW line
    PROVE  /\ CatchupCall(line).ok => CatchupScopeOk(line)
           /\ Passed(line, "manifest_id") =>
                CatchupCall(line).argv = CatchupPlanArgv(Resolved(line), LakeKwargs(Settings(line)))
  <1> DEFINE ok == CatchupScopeOk(line)
             settings == Settings(line)
             listed == IF Passed(line, "manifest_id")
                       THEN CatchupPlanArgv(Resolved(line), LakeKwargs(settings))
                       ELSE {<<"--apply", TRUE>>}
             effect == CatchupEffect(ValueOf(line, "content_digest", "whatever is missing"), settings)
  <1>1. CatchupCall(line) = Call(ok, settings, listed, effect)
    BY DEF CatchupCall
  <1>2. Passed(line, "manifest_id") => listed = CatchupPlanArgv(Resolved(line), LakeKwargs(Settings(line)))
    OBVIOUS
  <1> HIDE DEF ok, settings, listed, effect
  <1>3. CatchupCall(line).argv = listed /\ (CatchupCall(line).ok => ok)
    BY <1>1, CallHas
  <1> QED
    BY <1>2, <1>3 DEF ok

LEMMA SoundLine ==
    ASSUME NEW command, NEW line, WellFormed(command, line), Plain(line) PROVE Sound(line)
  BY DEF WellFormed, Sound, Listed, Passed

\* The line that silver-catchup build makes of its own.
LEMMA AsDbtSound == ASSUME NEW line, Sound(line) PROVE Sound(AsDbt(line))
  <1> DEFINE rest == [n \in DOMAIN line \ {"manifest_id"} |-> line[n]]
             a == AsDbt(line)
             on == TRUE
  <1>1. a = With(With(rest, "catchup", on), "catchup_manifest", line.manifest_id)
    BY DEF AsDbt
  <1> HIDE DEF on, a
  <1>2. ASSUME NEW n, n \notin {"manifest_id", "catchup", "catchup_manifest"}
        PROVE  (Passed(a, n) <=> Passed(line, n)) /\ (Passed(line, n) => a[n] = line[n])
    <2>1. (Passed(rest, n) <=> Passed(line, n)) /\ (Passed(line, n) => rest[n] = line[n])
      BY <1>2 DEF Passed
    <2> HIDE DEF rest
    <2> QED
      BY <1>1, <1>2, <2>1, PassedWith
  <1>3. Assignments(a) = Assignments(line)
    BY <1>2 DEF Assignments, ValueOf
  <1>4. Plain(a)
    BY <1>2, <1>3 DEF Plain, Sound
  <1>5. \A name \in Switches : Passed(a, name) => a[name] = TRUE
    BY <1>2 DEF Switches, Sound
  <1> QED
    BY <1>3, <1>4, <1>5 DEF Sound, Listed, a

LEMMA SchemaSaid ==
    ASSUME NEW schema, "file" \in DOMAIN schema
    PROVE  NormRelpath(schema).file = schema.file /\ [schema EXCEPT !.form = "plain"].file = schema.file
  BY DEF NormRelpath

\* What the two lists of migrate have in common.
LEMMA MigrateDoes ==
    ASSUME NEW line, Sound(line), Passed(line, "schema"), "file" \in DOMAIN line.schema,
           Passed(line, "all_raw") \/ Passed(line, "interval_start"), NEW a, Spelled(a, line),
           NEW settings, NEW argv, argv = MigrateArgv(a, LakeKwargs(settings))
    PROVE  Bound(MigrateEffect(line, settings)) = MigrateMeans(argv)
  <1>1. /\ Values(argv, "--schema") = {NormRelpath(a.schema)}
        /\ Values(argv, "--ingestion") = Passing(a, "ingestion")
    BY MigrateSays, KwargsOnlyLake
  <1>2. Given(argv, "--schema", None).file = line.schema.file
    <2>1. a.schema = line.schema
      <3>1. Passed(a, "schema") /\ ValueOf(a, "schema", None) = ValueOf(line, "schema", None)
        BY DEF Spelled, Window
      <3> QED
        BY <3>1 DEF ValueOf
    <2>2. Given(argv, "--schema", None) = NormRelpath(line.schema)
      BY <1>1, <2>1, GivenIs
    <2> QED
      BY <2>2, SchemaSaid
  <1>3. Given(argv, "--ingestion", "thin") = ValueOf(line, "ingestion", "thin")
    BY <1>1, OptionRead DEF Window
  <1>4. /\ Values(argv, "-p") = Passing(a, "pipeline")
        /\ \A flag \in {"--all-raw", "-s", "-e"} :
             Values(argv, flag) = Values(MigrateScope(a), flag)
        /\ Values(argv, "--to-bronze") = Passing(a, "to_bronze")
        /\ Values(argv, "--mapper") = Passing(a, "mapper")
        /\ Values(argv, "--from-raw") = Passing(a, "from_raw")
        /\ Values(argv, "--wire-version") = Passing(a, "wire_version")
        /\ Values(argv, "--recreate-iceberg") = Turned(a, "recreate_iceberg")
        /\ Values(argv, "--all-raw-runs") = Turned(a, "all_raw_runs")
        /\ Values(argv, "--set") = Assigning(a) /\ SameLake(argv, LakeKwargs(settings))
    BY MigrateSays, KwargsOnlyLake
  <1> QED
    BY <1>2, <1>3, <1>4, MigrateRead

\* The command line binds how rows are ingested, and the schema as a path.
LEMMA MigrateCallDoes ==
    ASSUME NEW line, Sound(line), Passed(line, "schema"), "file" \in DOMAIN line.schema,
           Passed(line, "all_raw") \/ Passed(line, "interval_start"), NEW settings, NEW argv,
           argv = MigrateArgv(With(SchemaForDigest(Resolved(line)), "ingestion",
                                   ValueOf(line, "ingestion", "thin")), LakeKwargs(settings))
    PROVE  Bound(MigrateEffect(line, settings)) = MigrateMeans(argv)
  <1> DEFINE a == Resolved(line)
             b == SchemaForDigest(a)
             c == With(b, "ingestion", ValueOf(line, "ingestion", "thin"))
  <1>1. Spelled(a, line)
    BY ResolvedSpelled
  <1>2. a.schema = line.schema
    <2>1. Passed(a, "schema") /\ ValueOf(a, "schema", None) = ValueOf(line, "schema", None)
      BY <1>1 DEF Spelled, Window
    <2> QED
      BY <2>1 DEF ValueOf
  <1>3. b = [a EXCEPT !.schema.form = "plain"]
    BY DEF SchemaForDigest
  <1>4. Passed(a, "schema")
    BY <1>1 DEF Spelled, Window
  <1> HIDE DEF a, b
  <1>5. b.schema.file = line.schema.file /\ "file" \in DOMAIN b.schema
    <2>1. b.schema = [line.schema EXCEPT !.form = "plain"]
      BY <1>2, <1>3, <1>4 DEF Passed
    <2> QED
      BY <2>1
  <1>6. \A n : n # "schema" => (Passed(b, n) <=> Passed(a, n)) /\ (Passed(a, n) => b[n] = a[n])
    BY <1>3 DEF Passed
  <1>7. ASSUME NEW n, n \notin {"schema", "ingestion"}
        PROVE  (Passed(c, n) <=> Passed(a, n)) /\ (Passed(a, n) => c[n] = a[n])
    BY <1>6, <1>7, PassedWith
  <1>8. c.schema = b.schema
    BY <1>3, <1>4, PassedWith DEF Passed
  <1>9. Passed(c, "ingestion") /\ c["ingestion"] = ValueOf(line, "ingestion", "thin")
    BY PassedWith
  <1>10. argv = MigrateArgv(c, LakeKwargs(settings))
    BY DEF a, b
  <1> HIDE DEF c
  <1>11. /\ Values(argv, "--schema") = {NormRelpath(c.schema)}
         /\ Values(argv, "--ingestion") = Passing(c, "ingestion")
    BY <1>10, MigrateSays, KwargsOnlyLake
  <1>12. Given(argv, "--schema", None).file = line.schema.file
    <2>1. Given(argv, "--schema", None) = NormRelpath(b.schema)
      BY <1>8, <1>11, GivenIs
    <2> QED
      BY <1>5, <2>1, SchemaSaid
  <1>13. Given(argv, "--ingestion", "thin") = ValueOf(line, "ingestion", "thin")
    BY <1>9, <1>11, ReadOption DEF ValueOf
  <1>14. \A n : n \notin {"schema", "ingestion"} =>
           Passing(c, n) = Passing(a, n) /\ Turned(c, n) = Turned(a, n)
    BY <1>7 DEF Passing, Turned, ValueOf, Passed
  <1>15. MigrateScope(c) = MigrateScope(a)
    <2>1. ValueOf(c, "all_raw", FALSE) = ValueOf(a, "all_raw", FALSE)
      BY <1>7 DEF ValueOf
    <2>2. CASE Passed(line, "all_raw")
      <3>1. ValueOf(line, "all_raw", FALSE) = TRUE
        BY <2>2 DEF Sound, Switches, ValueOf
      <3>2. ValueOf(a, "all_raw", FALSE) = TRUE
        BY <1>1, <3>1 DEF Spelled, Window
      <3> QED
        BY <2>1, <3>2 DEF MigrateScope
    <2>3. CASE ~Passed(line, "all_raw")
      <3>1. Passed(a, "interval_start")
        BY <1>1, <2>3 DEF Spelled
      <3>2. c["interval_start"] = a["interval_start"]
        BY <1>7, <3>1
      <3>3. IntervalArgv(c) = IntervalArgv(a)
        BY <1>7, <3>2 DEF IntervalArgv, Passed
      <3> QED
        BY <2>1, <3>3 DEF MigrateScope
    <2> QED
      BY <2>2, <2>3
  <1>16. Assigning(c) = Assigning(a)
    <2>1. Assignments(c) = Assignments(a)
      BY <1>7 DEF Assignments, ValueOf
    <2> QED
      BY <2>1 DEF Assigning, Counted
  <1>17. /\ Values(argv, "-p") = Passing(a, "pipeline")
         /\ \A flag \in {"--all-raw", "-s", "-e"} :
              Values(argv, flag) = Values(MigrateScope(a), flag)
         /\ Values(argv, "--to-bronze") = Passing(a, "to_bronze")
         /\ Values(argv, "--mapper") = Passing(a, "mapper")
         /\ Values(argv, "--from-raw") = Passing(a, "from_raw")
         /\ Values(argv, "--wire-version") = Passing(a, "wire_version")
         /\ Values(argv, "--recreate-iceberg") = Turned(a, "recreate_iceberg")
         /\ Values(argv, "--all-raw-runs") = Turned(a, "all_raw_runs")
         /\ Values(argv, "--set") = Assigning(a) /\ SameLake(argv, LakeKwargs(settings))
    BY <1>10, <1>14, <1>15, <1>16, MigrateSays, KwargsOnlyLake
  <1> QED
    BY <1>1, <1>12, <1>13, <1>17, MigrateRead

-----------------------------------------------------------------------------
(* Every call of the command line and every plan of a tool is honest.      *)

LEMMA MeansCases ==
    \A argv, environment :
      /\ Means("extract", argv, environment) = TransferMeans(argv)
      /\ Means("run", argv, environment) = TransferMeans(argv)
      /\ Means("load", argv, environment) = LoadMeans(argv)
      /\ Means("migrate", argv, environment) = MigrateMeans(argv)
      /\ Means("prune", argv, environment) = PruneMeans(argv)
      /\ Means("dbt", argv, environment) = DbtMeans(argv, environment.target)
      /\ Means("init-pipeline", argv, environment) = InitPipelineMeans(argv)
      /\ Means("scaffold-dbt", argv, environment) = ScaffoldDbtMeans(argv)
      /\ Means("scaffold-ops", argv, environment) = ScaffoldOpsMeans(argv)
      /\ Means("biglake-register", argv, environment) = BiglakeMeans(argv, environment.project)
      /\ Means("iceberg-register", argv, environment) = IcebergMeans(argv)
      /\ Means("lock-release", argv, environment) = LockReleaseMeans(argv)
      /\ Means("silver-catchup-plan", argv, environment) = CatchupMeans(argv)
      /\ Means("silver-catchup-cleanup", argv, environment) = CleanupMeans(argv)
      /\ Means("backfill", argv, environment) = BackfillMeans(argv)
  BY DEF Means

LEMMA CallCases ==
    \A line :
      /\ CallOf("extract", line) = ExtractCall(line)
      /\ CallOf("load", line) = LoadCall(line)
      /\ CallOf("run", line) = RunCall(line)
      /\ CallOf("migrate", line) = MigrateCall(line)
      /\ CallOf("prune", line) = PruneCall(line)
      /\ CallOf("dbt", line) = DbtCall(line)
      /\ CallOf("silver-catchup build", line) = BuildCall(line)
      /\ CallOf("init-pipeline", line) = InitPipelineCall(line)
      /\ CallOf("scaffold-dbt", line) = ScaffoldDbtCall(line)
      /\ CallOf("scaffold-ops", line) = ScaffoldOpsCall(line)
      /\ CallOf("biglake-register", line) = BiglakeCall(line)
      /\ CallOf("iceberg-register", line) = IcebergCall(line)
      /\ CallOf("lock-release", line) = LockReleaseCall(line)
      /\ CallOf("silver-catchup-plan", line) = CatchupCall(line)
      /\ CallOf("silver-catchup-cleanup", line) = CleanupCall(line)
  BY DEF CallOf

LEMMA DryRunCases ==
    \A line :
      /\ DryRunOf("migrate", line) = MigrateDryRun(line)
      /\ DryRunOf("prune", line) = PruneDryRun(line)
      /\ DryRunOf("dbt", line) = DbtDryRun(line)
      /\ DryRunOf("scaffold-dbt", line) = ScaffoldDbtDryRun(line)
      /\ DryRunOf("scaffold-ops", line) = ScaffoldOpsDryRun(line)
      /\ DryRunOf("init-pipeline", line) = InitPipelineDryRun(line)
      /\ DryRunOf("biglake-register", line) = BiglakeDryRun(line)
      /\ DryRunOf("iceberg-register", line) = IcebergDryRun(line)
      /\ DryRunOf("silver-catchup-plan", line) = CatchupDryRun(line)
      /\ DryRunOf("silver-catchup-cleanup", line) = CleanupDryRun(line)
  BY DEF DryRunOf

\* A plan whose list means what its effect is.
Honest(gate, plan) == Bound(plan.effect) = Means(gate, plan.argv, env.shell)

LEMMA DbtCallHonest == ASSUME NEW line, Sound(line) PROVE Honest("dbt", DbtCall(line))
  <1>1. /\ DbtCall(line).argv = DbtArgv(Resolved(line), LakeKwargs(Settings(line)))
        /\ DbtCall(line).effect = DbtEffect(line, Settings(line), env.shell)
    BY CallHas DEF DbtCall
  <1> QED
    BY <1>1, ResolvedSpelled, DbtDoes, MeansCases DEF Honest

\* Of the commands that take a pipeline over an interval.
LEMMA WindowCallsHonest ==
    ASSUME NEW line, Sound(line)
    PROVE  /\ Passed(line, "interval_start") =>
                /\ Honest("extract", ExtractCall(line)) /\ Honest("run", RunCall(line))
                /\ Honest("load", LoadCall(line)) /\ Honest("prune", PruneCall(line))
           /\ MigrateCall(line).ok /\ Passed(line, "schema") /\ "file" \in DOMAIN line.schema =>
                Honest("migrate", MigrateCall(line))
           /\ LockReleaseCall(line).ok /\ Passed(line, "pipeline") =>
                Honest("lock-release", LockReleaseCall(line))
  <1> DEFINE settings == Settings(line)
  <1>1. Spelled(Resolved(line), line)
    BY ResolvedSpelled
  <1>2. ASSUME Passed(line, "interval_start") PROVE Honest("extract", ExtractCall(line))
    <2>1. /\ ExtractCall(line).argv = ExtractArgv(Resolved(line), LakeKwargs(settings))
          /\ ExtractCall(line).effect = Config(line) \cup Interval(line) \cup Lake(settings)
      BY CallHas DEF ExtractCall
    <2> HIDE DEF settings
    <2> QED
      BY <1>1, <1>2, <2>1, TransferDoes, MeansCases DEF Honest
  <1>3. ASSUME Passed(line, "interval_start") PROVE Honest("run", RunCall(line))
    <2>1. /\ RunCall(line).argv = ExtractArgv(Resolved(line), LakeKwargs(settings))
          /\ RunCall(line).effect = Config(line) \cup Interval(line) \cup Lake(settings)
      BY CallHas DEF RunCall, RunArgv
    <2> HIDE DEF settings
    <2> QED
      BY <1>1, <1>3, <2>1, TransferDoes, MeansCases DEF Honest
  <1>4. ASSUME Passed(line, "interval_start") PROVE Honest("load", LoadCall(line))
    <2>1. /\ LoadCall(line).argv = LoadArgv(Resolved(line), LakeKwargs(settings))
          /\ LoadCall(line).effect = Config(line) \cup Interval(line) \cup Lake(settings)
                                       \cup Aspects(line, Unset({"extract_run_datetime"}))
      BY CallHas DEF LoadCall
    <2> HIDE DEF settings
    <2> QED
      BY <1>1, <1>4, <2>1, LoadDoes, MeansCases DEF Honest
  <1>5. ASSUME Passed(line, "interval_start") PROVE Honest("prune", PruneCall(line))
    <2>1. /\ PruneCall(line).argv = PruneArgv(Resolved(line), LakeKwargs(settings))
          /\ PruneCall(line).effect = PruneEffect(line, settings)
      BY CallHas DEF PruneCall
    <2> HIDE DEF settings
    <2> QED
      BY <1>1, <1>5, <2>1, PruneDoes, MeansCases DEF Honest
  <1>6. ASSUME MigrateCall(line).ok, Passed(line, "schema"), "file" \in DOMAIN line.schema
        PROVE  Honest("migrate", MigrateCall(line))
    <2>1. /\ MigrateCall(line).argv =
               MigrateArgv(With(SchemaForDigest(Resolved(line)), "ingestion",
                                ValueOf(line, "ingestion", "thin")), LakeKwargs(settings))
          /\ MigrateCall(line).effect = MigrateEffect(line, settings)
          /\ MigrateScopeOk(line)
      BY <1>6, CallHas DEF MigrateCall
    <2>2. Passed(line, "all_raw") \/ Passed(line, "interval_start")
      BY <2>1 DEF MigrateScopeOk
    <2> HIDE DEF settings
    <2> QED
      BY <1>6, <2>1, <2>2, MigrateCallDoes, MeansCases DEF Honest
  <1>7. ASSUME LockReleaseCall(line).ok, Passed(line, "pipeline")
        PROVE  Honest("lock-release", LockReleaseCall(line))
    <2> DEFINE argv == LockReleaseArgv(Resolved(line), LakeKwargs(settings))
               effect == Lake(settings)
                 \cup {<<"lock", IF Passed(line, "dataset_id") THEN line.dataset_id
                                 ELSE <<CanonicalId(line.pipeline), ResolveInterval(line)>> >>}
               ok == /\ Passed(line, "dataset_id") \/ Passed(line, "interval_start")
                     /\ Passed(line, "dataset_id") => Window \cap DOMAIN line = {}
                     /\ Passed(line, "interval_start") => IntervalOk(line)
                     /\ Resolves(settings)
    <2>1. LockReleaseCall(line) = Call(ok, settings, argv, effect)
      BY Zenon DEF LockReleaseCall
    <2>2. ok => Passed(line, "dataset_id") \/ Passed(line, "interval_start")
      OBVIOUS
    <2>3. Passed(line, "dataset_id") \/ Passed(line, "interval_start") =>
            Bound(effect) = LockReleaseMeans(argv)
      BY <1>1, <1>7, LockReleaseDoes
    <2> HIDE DEF settings, argv, effect, ok
    <2>4. LockReleaseCall(line).argv = argv /\ LockReleaseCall(line).effect = effect /\ ok
      <3> DEFINE plan == Call(ok, settings, argv, effect)
      <3>1. plan.ok
        BY <1>7, <2>1
      <3>2. plan.ok => ok
        BY CallHas
      <3>3. ok
        BY <3>1, <3>2
      <3>4. LockReleaseCall(line).argv = argv /\ LockReleaseCall(line).effect = effect
        BY <2>1, CallHas
      <3> QED
        BY <3>3, <3>4
    <2> QED
      BY <2>2, <2>3, <2>4, MeansCases DEF Honest
  <1> QED
    BY <1>2, <1>3, <1>4, <1>5, <1>6, <1>7

LEMMA OtherCallsHonest ==
    ASSUME NEW line, Sound(line)
    PROVE  /\ Honest("dbt", BuildCall(line))
           /\ Honest("init-pipeline", InitPipelineCall(line))
           /\ Honest("scaffold-dbt", ScaffoldDbtCall(line))
           /\ Honest("scaffold-ops", ScaffoldOpsCall(line))
           /\ Honest("biglake-register", BiglakeCall(line))
           /\ Honest("iceberg-register", IcebergCall(line))
           /\ CleanupCall(line).ok => Honest("silver-catchup-cleanup", CleanupCall(line))
           /\ CatchupCall(line).ok /\ Passed(line, "content_digest") =>
                /\ Honest("silver-catchup-plan", CatchupCall(line))
                /\ CatchupCall(line).effect =
                     CatchupEffect(line.content_digest, CatchupCall(line).settings)
  <1> DEFINE settings == Settings(line)
  <1>1. Spelled(Resolved(line), line) /\ Spelled(WithPipeline(line), line)
    BY ResolvedSpelled, PipelineSpelled
  <1>2. Honest("dbt", BuildCall(line))
    BY AsDbtSound, DbtCallHonest DEF BuildCall
  <1>3. Honest("init-pipeline", InitPipelineCall(line))
    <2> DEFINE effect == {<<"tree", ValueOf(line, "project_root", None)>>}
                 \cup Aspects(line, Unset({"name", "source_type", "connection"}))
                 \cup Aspects(line, [destination_type |-> "iceberg", skip_dbt |-> FALSE, force |-> FALSE])
    <2>1. Bound(effect) = InitPipelineMeans(InitPipelineArgv(line))
      BY InitPipelineDoes
    <2>2. InitPipelineCall(line) = Call(~Passed(line, "lake_path"), FromEnv(env.shell), InitPipelineArgv(line), effect)
      BY DEF InitPipelineCall
    <2> HIDE DEF effect
    <2>3. InitPipelineCall(line).argv = InitPipelineArgv(line) /\ InitPipelineCall(line).effect =
              effect
      BY <2>2, CallHas
    <2> QED
      BY <2>1, <2>3, MeansCases DEF Honest
  <1>4. Honest("scaffold-dbt", ScaffoldDbtCall(line))
    <2> DEFINE effect == Config(line) \cup Aspects(line, [force |-> FALSE])
    <2>1. Bound(effect) = ScaffoldDbtMeans(ScaffoldDbtArgv(WithPipeline(line)))
      BY <1>1, ScaffoldDbtDoes
    <2>2. ScaffoldDbtCall(line) = Call(TRUE, FromEnv(env.shell), ScaffoldDbtArgv(WithPipeline(line)), effect)
      BY DEF ScaffoldDbtCall
    <2> HIDE DEF effect
    <2>3. ScaffoldDbtCall(line).argv =
              ScaffoldDbtArgv(WithPipeline(line)) /\ ScaffoldDbtCall(line).effect = effect
      BY <2>2 DEF Call
    <2> QED
      BY <2>1, <2>3, MeansCases DEF Honest
  <1>5. Honest("scaffold-ops", ScaffoldOpsCall(line))
    <2> DEFINE effect == {<<"tree", ValueOf(line, "project_root", None)>>}
        \cup Aspects(line, [force |-> FALSE])
    <2>1. Bound(effect) = ScaffoldOpsMeans(ScaffoldOpsArgv(line))
      BY ScaffoldOpsDoes
    <2>2. ScaffoldOpsCall(line) = Call(TRUE, FromEnv(env.shell), ScaffoldOpsArgv(line), effect)
      BY DEF ScaffoldOpsCall
    <2> HIDE DEF effect
    <2>3. ScaffoldOpsCall(line).argv = ScaffoldOpsArgv(line) /\ ScaffoldOpsCall(line).effect =
              effect
      BY <2>2 DEF Call
    <2> QED
      BY <2>1, <2>3, MeansCases DEF Honest
  <1>6. Honest("biglake-register", BiglakeCall(line))
    <2>1. /\ BiglakeCall(line).argv = BiglakeArgv(BiglakeFlags(line), LakeKwargs(settings))
          /\ BiglakeCall(line).effect = BiglakeEffect(line, settings, env.shell)
      BY CallHas DEF BiglakeCall
    <2> HIDE DEF settings
    <2> QED
      BY <2>1, BiglakeDoes, MeansCases DEF Honest
  <1>7. Honest("iceberg-register", IcebergCall(line))
    <2>1. /\ IcebergCall(line).argv = IcebergArgv(WithPipeline(line), LakeKwargs(settings), env.shell.catalog)
          /\ IcebergCall(line).effect = IcebergEffect(line, settings, env.shell)
      BY CallHas DEF IcebergCall
    <2> HIDE DEF settings
    <2> QED
      BY <2>1, IcebergDoes, MeansCases DEF Honest
  <1>8. ASSUME CleanupCall(line).ok PROVE Honest("silver-catchup-cleanup", CleanupCall(line))
    <2> DEFINE argv == CleanupArgv(WithCutoff(line))
               ok == CleanupScopeOk(line) /\ env.shell.target = "bigquery"
    <2>1. CleanupCall(line) = Call(ok, FromEnv(env.shell), argv, CleanupEffect(line))
      BY Zenon DEF CleanupCall
    <2>2. ok => Bound(CleanupEffect(line)) = CleanupMeans(argv)
      BY CleanupDoes
    <2> HIDE DEF ok, argv
    <2>3. CleanupCall(line).argv = argv /\ CleanupCall(line).effect = CleanupEffect(line) /\ ok
      <3> DEFINE plan == Call(ok, FromEnv(env.shell), argv, CleanupEffect(line))
      <3>1. plan.ok
        BY <1>8, <2>1
      <3>2. plan.ok => ok
        BY CallHas
      <3>3. ok
        BY <3>1, <3>2
      <3>4. CleanupCall(line).argv = argv /\ CleanupCall(line).effect = CleanupEffect(line)
        BY <2>1, CallHas
      <3> QED
        BY <3>3, <3>4
    <2> QED
      BY <2>2, <2>3, MeansCases DEF Honest
  <1>9. ASSUME CatchupCall(line).ok, Passed(line, "content_digest")
        PROVE  /\ Honest("silver-catchup-plan", CatchupCall(line))
               /\ CatchupCall(line).effect =
                    CatchupEffect(line.content_digest, CatchupCall(line).settings)
    <2> DEFINE a == Resolved(line)
               argv == CatchupPlanArgv(a, LakeKwargs(settings))
               listed == IF Passed(line, "manifest_id") THEN argv ELSE {<<"--apply", TRUE>>}
               content == ValueOf(line, "content_digest", "whatever is missing")
               ok == CatchupScopeOk(line)
    <2>1. CatchupCall(line) = Call(ok, settings, listed, CatchupEffect(content, settings))
      BY Zenon DEF CatchupCall
    <2>2. content = line.content_digest
      BY <1>9 DEF ValueOf
    <2>3. Passed(a, "content_digest") /\ a.content_digest = line.content_digest
      <3>1. Passed(a, "content_digest") /\ ValueOf(a, "content_digest", None) =
                ValueOf(line, "content_digest", None)
        BY <1>1, <1>9 DEF Spelled, Window
      <3> QED
        BY <1>9, <3>1 DEF ValueOf
    <2> HIDE DEF content, settings, a
    <2>4. Bound(CatchupEffect(content, settings)) = CatchupMeans(argv)
      BY <2>2, <2>3, CatchupDoes
    <2>5. ok => listed = argv
      BY <1>9 DEF CatchupScopeOk
    <2> HIDE DEF ok, argv, listed
    <2>6. /\ CatchupCall(line).argv = listed /\ CatchupCall(line).effect =
                 CatchupEffect(content, settings)
          /\ CatchupCall(line).settings = settings /\ ok
      <3> DEFINE plan == Call(ok, settings, listed, CatchupEffect(content, settings))
      <3>1. plan.ok
        BY <1>9, <2>1
      <3>2. plan.ok => ok
        BY CallHas
      <3>3. ok
        BY <3>1, <3>2
      <3>4. CatchupCall(line).argv = listed /\ CatchupCall(line).settings = settings
              /\ CatchupCall(line).effect = CatchupEffect(content, settings)
        BY <2>1, CallHas
      <3> QED
        BY <3>3, <3>4
    <2> QED
      BY <2>2, <2>4, <2>5, <2>6, MeansCases DEF Honest
  <1> QED
    BY <1>2, <1>3, <1>4, <1>5, <1>6, <1>7, <1>8, <1>9

\* A call of the command line.
LEMMA CallHonest ==
    ASSUME NEW command \in Names \ {"backfill"}, NEW line, WellFormed(command, line), Plain(line),
           CallOf(command, line).ok,
           command = "silver-catchup-plan" => Passed(line, "content_digest")
    PROVE  Honest(GateName(command), CallOf(command, line))
  <1>1. Sound(line)
    BY SoundLine
  <1>2. CASE command \in {"extract", "load", "run", "prune"}
    <2>1. Passed(line, "interval_start")
      BY <1>2 DEF WellFormed
    <2>2. /\ Honest("extract", ExtractCall(line)) /\ Honest("run", RunCall(line))
          /\ Honest("load", LoadCall(line)) /\ Honest("prune", PruneCall(line))
      BY <1>1, <2>1, WindowCallsHonest
    <2>3. /\ Honest("extract", CallOf("extract", line)) /\ Honest("run", CallOf("run", line))
          /\ Honest("load", CallOf("load", line)) /\ Honest("prune", CallOf("prune", line))
      BY <2>2, CallCases
    <2> QED
      BY <1>2, <2>3 DEF GateName
  <1>3. CASE command = "migrate"
    <2>1. Passed(line, "schema") /\ "file" \in DOMAIN line.schema
      BY <1>3 DEF WellFormed
    <2>2. CallOf(command, line) = MigrateCall(line) /\ GateName(command) = "migrate"
      BY <1>3, CallCases DEF GateName
    <2>3. Honest("migrate", MigrateCall(line))
      BY <1>1, <2>1, <2>2, WindowCallsHonest
    <2> QED
      BY <2>2, <2>3
  <1>4. CASE command = "lock-release"
    <2>1. Passed(line, "pipeline")
      BY <1>4 DEF WellFormed
    <2>2. CallOf(command, line) = LockReleaseCall(line) /\ GateName(command) = "lock-release"
      BY <1>4, CallCases DEF GateName
    <2>3. Honest("lock-release", LockReleaseCall(line))
      BY <1>1, <2>1, <2>2, WindowCallsHonest
    <2> QED
      BY <2>2, <2>3
  <1>5. CASE command \in {"dbt", "silver-catchup build"}
    <2>1. Honest("dbt", DbtCall(line)) /\ Honest("dbt", BuildCall(line))
      BY <1>1, DbtCallHonest, OtherCallsHonest
    <2>2. Honest("dbt", CallOf("dbt", line)) /\ Honest("dbt", CallOf("silver-catchup build", line))
      BY <2>1, CallCases
    <2> QED
      BY <1>5, <2>2 DEF GateName
  <1>6. CASE command \in {"init-pipeline", "scaffold-dbt", "scaffold-ops", "biglake-register",
                          "iceberg-register"}
    <2>1. /\ Honest("init-pipeline", InitPipelineCall(line))
          /\ Honest("scaffold-dbt", ScaffoldDbtCall(line))
          /\ Honest("scaffold-ops", ScaffoldOpsCall(line))
          /\ Honest("biglake-register", BiglakeCall(line))
          /\ Honest("iceberg-register", IcebergCall(line))
      BY <1>1, OtherCallsHonest
    <2>2. /\ Honest("init-pipeline", CallOf("init-pipeline", line))
          /\ Honest("scaffold-dbt", CallOf("scaffold-dbt", line))
          /\ Honest("scaffold-ops", CallOf("scaffold-ops", line))
          /\ Honest("biglake-register", CallOf("biglake-register", line))
          /\ Honest("iceberg-register", CallOf("iceberg-register", line))
      BY <2>1, CallCases
    <2> QED
      BY <1>6, <2>2 DEF GateName
  <1>7. CASE command = "silver-catchup-plan"
    <2>1. CallOf(command, line) = CatchupCall(line) /\ GateName(command) = "silver-catchup-plan"
      BY <1>7, CallCases DEF GateName
    <2>2. Honest("silver-catchup-plan", CatchupCall(line))
      BY <1>1, <1>7, <2>1, OtherCallsHonest
    <2> QED
      BY <2>1, <2>2
  <1>8. CASE command = "silver-catchup-cleanup"
    <2>1. CallOf(command, line) = CleanupCall(line) /\ GateName(command) = "silver-catchup-cleanup"
      BY <1>8, CallCases DEF GateName
    <2>2. Honest("silver-catchup-cleanup", CleanupCall(line))
      BY <1>1, <2>1, OtherCallsHonest
    <2> QED
      BY <2>1, <2>2
  <1> QED
    BY <1>2, <1>3, <1>4, <1>5, <1>6, <1>7, <1>8 DEF Names

LEMMA PlannedHonest ==
    ASSUME NEW line, NEW settings, NEW a,
           a = WithPipeline(Planned(line)) \/ a = Resolved(Planned(line))
    PROVE  Bound(CatchupEffect(CatchupContent(line), settings)) =
             CatchupMeans(CatchupPlanArgv(a, LakeKwargs(settings)))
  <1> DEFINE planned == Planned(line)
             content == CatchupContent(line)
  <1>1. Spelled(a, planned)
    BY PipelineSpelled, ResolvedSpelled
  <1>2. Passed(planned, "content_digest") /\ planned["content_digest"] = content
    BY PassedWith DEF Planned
  <1> HIDE DEF planned, content
  <1>3. Passed(a, "content_digest") /\ a.content_digest = content
    <2>1. Passed(a, "content_digest")
            /\ ValueOf(a, "content_digest", None) = ValueOf(planned, "content_digest", None)
      BY <1>1, <1>2 DEF Spelled, Window
    <2> QED
      BY <1>2, <2>1 DEF ValueOf
  <1>4. Bound(CatchupEffect(content, settings)) =
            CatchupMeans(CatchupPlanArgv(a, LakeKwargs(settings)))
    BY <1>3, CatchupDoes
  <1> QED
    BY <1>4 DEF content

\* A plan that a tool shows, where the server and the shell use the same
\* warehouse.
LEMMA DryRunHonest ==
    ASSUME SameWarehouse, NEW tool \in Tools, NEW line, WellFormed(tool, line), Plain(line),
           DryRunOf(tool, line).ok
    PROVE  Honest(tool, DryRunOf(tool, line))
  <1> DEFINE settings == ServerSettings
             a == WithPipeline(line)
  <1>1. Sound(line) /\ Spelled(a, line)
    BY SoundLine, PipelineSpelled
  <1>2. CASE tool = "migrate"
    <2> DEFINE argv == MigrateArgv(a, LakeKwargs(settings))
               ok == IF Passed(line, "all_raw") THEN MigrateScopeOk(line) ELSE Passed(line, "interval_start")
               plan == Call(ok, settings, argv, MigrateEffect(line, settings))
    <2>1. DryRunOf(tool, line) = plan
      BY <1>2, DryRunCases DEF MigrateDryRun
    <2>2. Passed(line, "schema") /\ "file" \in DOMAIN line.schema
      BY <1>2 DEF WellFormed
    <2>3. ok => Bound(MigrateEffect(line, settings)) = MigrateMeans(argv)
      BY <1>1, <2>2, MigrateDoes
    <2> HIDE DEF ok, argv, settings
    <2>4. ok
      <3>1. plan.ok
        BY <2>1
      <3>2. plan.ok => ok
        BY CallHas
      <3> QED
        BY <3>1, <3>2
    <2>5. plan.argv = argv /\ plan.effect = MigrateEffect(line, settings)
      BY CallHas
    <2> HIDE DEF plan
    <2> QED
      BY <1>2, <2>1, <2>3, <2>4, <2>5, MeansCases DEF Honest
  <1>3. CASE tool = "prune"
    <2>1. /\ DryRunOf(tool, line).argv = PruneArgv(a, LakeKwargs(settings))
          /\ DryRunOf(tool, line).effect = PruneEffect(line, settings)
      BY <1>3, DryRunCases, CallHas DEF PruneDryRun
    <2>2. Passed(line, "interval_start")
      BY <1>3 DEF WellFormed
    <2> HIDE DEF settings, a
    <2> QED
      BY <1>1, <1>3, <2>1, <2>2, PruneDoes, MeansCases DEF Honest
  <1>4. CASE tool = "dbt"
    <2>1. /\ DryRunOf(tool, line).argv = DbtArgv(a, LakeKwargs(settings))
          /\ DryRunOf(tool, line).effect = DbtEffect(line, settings, env.server)
      BY <1>4, DryRunCases, CallHas DEF DbtDryRun
    <2> HIDE DEF settings, a
    <2> QED
      BY <1>1, <1>4, <2>1, DbtDoes, MeansCases DEF Honest, SameWarehouse
  <1>5. CASE tool = "scaffold-dbt"
    <2>1. /\ DryRunOf(tool, line).argv = ScaffoldDbtCall(line).argv
          /\ DryRunOf(tool, line).effect = ScaffoldDbtCall(line).effect
      BY <1>5, DryRunCases DEF ScaffoldDbtDryRun, ScaffoldDbtCall, Call
    <2> QED
      BY <1>1, <1>5, <2>1, OtherCallsHonest DEF Honest
  <1>6. CASE tool = "scaffold-ops"
    <2>1. /\ DryRunOf(tool, line).argv = ScaffoldOpsCall(line).argv
          /\ DryRunOf(tool, line).effect = ScaffoldOpsCall(line).effect
      BY <1>6, DryRunCases DEF ScaffoldOpsDryRun, ScaffoldOpsCall, Call
    <2> QED
      BY <1>1, <1>6, <2>1, OtherCallsHonest DEF Honest
  <1>7. CASE tool = "init-pipeline"
    <2>1. /\ DryRunOf(tool, line).argv = InitPipelineCall(line).argv
          /\ DryRunOf(tool, line).effect = InitPipelineCall(line).effect
      BY <1>7, DryRunCases DEF InitPipelineDryRun, InitPipelineCall, Call
    <2> QED
      BY <1>1, <1>7, <2>1, OtherCallsHonest DEF Honest
  <1>8. CASE tool = "biglake-register"
    <2> DEFINE lake == WithOverrides(ServerSettings, line)
    <2>1. /\ DryRunOf(tool, line).argv = BiglakeArgv(BiglakeFlags(line), LakeKwargs(lake))
          /\ DryRunOf(tool, line).effect = BiglakeEffect(line, lake, env.server)
      BY <1>8, DryRunCases, CallHas DEF BiglakeDryRun
    <2> HIDE DEF lake
    <2> QED
      BY <1>1, <1>8, <2>1, BiglakeDoes, MeansCases DEF Honest, SameWarehouse
  <1>9. CASE tool = "iceberg-register"
    <2> DEFINE lake == WithOverrides(ServerSettings, line)
    <2>1. /\ DryRunOf(tool, line).argv =
                 IcebergArgv(WithPipeline(line), LakeKwargs(lake), env.server.catalog)
          /\ DryRunOf(tool, line).effect = IcebergEffect(line, lake, env.server)
      BY <1>9, DryRunCases, CallHas DEF IcebergDryRun
    <2> HIDE DEF lake
    <2> QED
      BY <1>1, <1>9, <2>1, IcebergDoes, MeansCases DEF Honest
  <1>10. CASE tool = "silver-catchup-plan"
    <2>1. /\ DryRunOf(tool, line).argv =
               CatchupPlanArgv(WithPipeline(Planned(line)), LakeKwargs(settings))
          /\ DryRunOf(tool, line).effect = CatchupEffect(CatchupContent(line), settings)
      BY <1>10, DryRunCases, CallHas DEF CatchupDryRun
    <2> HIDE DEF settings
    <2> QED
      BY <1>10, <2>1, PlannedHonest, MeansCases DEF Honest
  <1>11. CASE tool = "silver-catchup-cleanup"
    <2> DEFINE ok == CleanupScopeOk(line)
               argv == CleanupArgv(WithCutoff(line))
               plan == Call(ok, settings, argv, CleanupEffect(line))
    <2>1. DryRunOf(tool, line) = plan
      BY <1>11, DryRunCases DEF CleanupDryRun
    <2>2. ok => Bound(CleanupEffect(line)) = CleanupMeans(argv)
      BY CleanupDoes
    <2> HIDE DEF ok, argv, settings
    <2>3. ok
      <3>1. plan.ok
        BY <2>1
      <3>2. plan.ok => ok
        BY CallHas
      <3> QED
        BY <3>1, <3>2
    <2>4. plan.argv = argv /\ plan.effect = CleanupEffect(line)
      BY CallHas
    <2> HIDE DEF plan
    <2> QED
      BY <1>11, <2>1, <2>2, <2>3, <2>4, MeansCases DEF Honest
  <1> QED
    BY <1>2, <1>3, <1>4, <1>5, <1>6, <1>7, <1>8, <1>9, <1>10, <1>11 DEF Tools
-----------------------------------------------------------------------------
(* ApprovedCommands: one approval is for one write.                        *)

UnderApproval(done) == {w \in done : w.under}

\* An approval that was consumed has had its one write, any other none.
OneWrite ==
    /\ "status" \in DOMAIN approval
    /\ approval.status \in {"none", "shown", "unused", "expired", "claimed", "consumed"}
    /\ approval.status # "consumed" => UnderApproval(writes) = {}
    /\ approval.status = "consumed" => Cardinality(UnderApproval(writes)) = 1

\* A command at work under the approval has checked it or claimed it, and no
\* other can have used it up since.
AtWork ==
    call.pc = "working" =>
      /\ call.under \in BOOLEAN
      /\ call.under => approval.status \in {"unused", "expired", "claimed"}
      /\ env.require => call.under

OnlyApproved == env.require => \A w \in writes : w.under

WriteInv == OneWrite /\ AtWork /\ OnlyApproved

LEMMA WriteInvInit == CommandsInit => WriteInv
  <1> SUFFICES ASSUME CommandsInit PROVE WriteInv
    OBVIOUS
  <1>1. UnderApproval(writes) = {}
    BY DEF CommandsInit, UnderApproval
  <1>2. QED
    BY <1>1 DEF CommandsInit, WriteInv, OneWrite, AtWork, OnlyApproved, NoApproval, Idle

LEMMA ShowsKeepsWrites ==
    ASSUME WriteInv, NEW surface, NEW command, NEW line, NEW preview,
           Shows(surface, command, line, preview)
    PROVE  WriteInv'
  <1>1. approval'.status = "shown" /\ "status" \in DOMAIN approval'
    BY DEF Shows
  <1>2. approval.status = "none" /\ call.pc = "idle"
    BY DEF Shows, NoApproval, Idle
  <1>3. UNCHANGED <<env, call, writes>>
    BY DEF Shows
  <1>4. QED
    BY <1>1, <1>2, <1>3 DEF WriteInv, OneWrite, AtWork, OnlyApproved, UnderApproval

LEMMA ApproveKeepsWrites ==
    ASSUME WriteInv, NEW flags, Approve(flags) \/ ApprovalExpires
    PROVE  WriteInv'
  <1>1. /\ approval.status \in {"shown", "unused"} /\ approval'.status \in {"unused", "expired"}
        /\ "status" \in DOMAIN approval' /\ UNCHANGED <<env, call, writes>>
    BY DEF WriteInv, OneWrite, Approve, ApprovalExpires
  <1>2. call.pc = "working" /\ call.under => approval.status = "unused"
    BY <1>1 DEF WriteInv, AtWork
  <1>3. QED
    BY <1>1, <1>2 DEF WriteInv, OneWrite, AtWork, OnlyApproved, UnderApproval

\* An approval that a command may go on with is there and unused.
LEMMA NoMismatch ==
    ASSUME WriteInv, Approved, NEW command, NEW argv, NEW store,
           Mismatch(command, argv, store) = "none"
    PROVE  approval.status = "unused" /\ approval.store = store
  BY DEF Mismatch, WriteInv, OneWrite, Approved

LEMMA RunsKeepsWrites ==
    ASSUME WriteInv, NEW command, NEW line, NEW passes \in BOOLEAN, NEW surface,
           passes => Approved, RunsWith(command, line, passes, surface)
    PROVE  WriteInv'
  <1> DEFINE one == CallOf(command, line)
             refusal == Refusal(command, line, passes, one)
  <1>1. UNCHANGED <<env, writes>>
    BY DEF RunsWith
  <1>2. CASE refusal # "none"
    <2> HIDE DEF one
    <2>1. UNCHANGED approval /\ call'.pc = "refused"
      BY <1>2 DEF RunsWith, one
    <2>2. QED
      BY <1>1, <2>1 DEF WriteInv, OneWrite, AtWork, OnlyApproved, UnderApproval
  <1>3. CASE refusal = "none"
    <2>1. /\ call'.under = passes
          /\ approval' = IF passes THEN [approval EXCEPT !.status = "claimed"] ELSE approval
      <3> HIDE DEF one
      <3> QED
        BY <1>3 DEF RunsWith, one
    <2>2. env.require => passes
      BY <1>3 DEF Refusal
    <2>3. passes => approval.status = "unused"
      <3> SUFFICES ASSUME passes PROVE approval.status = "unused"
        OBVIOUS
      <3> HIDE DEF one
      <3>1. Mismatch(command, one.argv, Store(env.shell, one.settings)) = "none"
        BY <1>3 DEF Refusal
      <3>2. QED
        BY <3>1, NoMismatch
    <2>4. QED
      BY <1>1, <2>1, <2>2, <2>3 DEF WriteInv, OneWrite, AtWork, OnlyApproved, UnderApproval
  <1>4. QED
    BY <1>2, <1>3

LEMMA TaskKeepsWrites ==
    ASSUME WriteInv, NEW command, NEW line, NEW argv, NEW effect,
           TaskStarts(command, line, argv, effect)
    PROVE  WriteInv'
  <1> DEFINE refusal == Mismatch(command, argv, Store(env.shell, FromEnv(env.shell)))
  <1>1. UNCHANGED <<env, writes, approval>> /\ Approved
    BY DEF TaskStarts
  <1>2. CASE refusal # "none"
    <2>1. call'.pc = "refused"
      BY <1>2 DEF TaskStarts
    <2>2. QED
      BY <1>1, <2>1 DEF WriteInv, OneWrite, AtWork, OnlyApproved, UnderApproval
  <1>3. CASE refusal = "none"
    <2>1. call'.under = TRUE
      BY <1>3 DEF TaskStarts
    <2>2. approval.status = "unused"
      BY <1>1, <1>3, NoMismatch
    <2>3. QED
      BY <1>1, <2>1, <2>2 DEF WriteInv, OneWrite, AtWork, OnlyApproved, UnderApproval
  <1>4. QED
    BY <1>2, <1>3

LEMMA WorkKeepsWrites == WriteInv /\ Work => WriteInv'
  <1> SUFFICES ASSUME WriteInv, Work PROVE WriteInv'
    OBVIOUS
  <1> DEFINE w == [number |-> calls, command |-> call.command, line |-> call.line,
                   surface |-> call.surface, under |-> call.under, effect |-> Written]
  <1>1. /\ writes' = writes \cup {w} /\ call'.pc = "idle" /\ UNCHANGED env
        /\ approval' = IF call.under THEN [approval EXCEPT !.status = "consumed"] ELSE approval
    BY DEF Work, Idle
  <1>2. w.under = call.under /\ call.under \in BOOLEAN
    BY DEF WriteInv, AtWork, Work
  <1> HIDE DEF w
  <1>3. env.require => call.under
    BY DEF WriteInv, AtWork, Work
  <1>4. OnlyApproved'
    BY <1>1, <1>2, <1>3 DEF WriteInv, OnlyApproved
  <1>5. CASE call.under
    <2>1. approval.status # "consumed"
      BY <1>5 DEF WriteInv, AtWork, Work
    <2>2. UnderApproval(writes') = {w}
      BY <1>1, <1>2, <1>5, <2>1 DEF WriteInv, OneWrite, UnderApproval
    <2>3. Cardinality(UnderApproval(writes')) = 1
      BY <2>2, FS_Singleton
    <2>4. QED
      BY <1>1, <1>4, <1>5, <2>3 DEF WriteInv, OneWrite, AtWork
  <1>6. CASE ~call.under
    <2>1. UnderApproval(writes') = UnderApproval(writes)
      BY <1>1, <1>2, <1>6 DEF UnderApproval
    <2>2. QED
      BY <1>1, <1>4, <1>6, <2>1 DEF WriteInv, OneWrite, AtWork
  <1>7. QED
    BY <1>2, <1>5, <1>6

LEMMA WriteInvKept == WriteInv /\ [CommandsNext]_commandVars => WriteInv'
  <1> SUFFICES ASSUME WriteInv, [CommandsNext]_commandVars PROVE WriteInv'
    OBVIOUS
  <1>1. ASSUME NEW surface, NEW command, NEW line, NEW preview,
               Shows(surface, command, line, preview)
        PROVE  WriteInv'
    BY <1>1, ShowsKeepsWrites
  <1>2. CASE ToolShows
    BY <1>1, <1>2 DEF ToolShows
  <1>3. CASE CatchupPlanShows
    BY <1>1, <1>3 DEF CatchupPlanShows
  <1>4. CASE HealShows
    BY <1>1, <1>4 DEF HealShows
  <1>5. CASE HealContinueShows
    BY <1>1, <1>5 DEF HealContinueShows
  <1>6. CASE OperatorWrites
    BY <1>1, <1>6 DEF OperatorWrites
  <1>7. CASE PreviewBackfill
    BY <1>1, <1>7 DEF PreviewBackfill
  <1>8. CASE (\E flags \in Lines["approve"] : Approve(flags)) \/ ApprovalExpires
    BY <1>8, ApproveKeepsWrites
  <1>9. CASE \E command \in Commands \ {"backfill"} : \E line \in Lines[command] :
               Runs(command, line)
    BY <1>9, RunsKeepsWrites DEF Runs
  <1>10. CASE ClearLockTask
    BY <1>10, RunsKeepsWrites DEF ClearLockTask
  <1>11. CASE PruneTask \/ BackfillTask
    BY <1>11, TaskKeepsWrites DEF PruneTask, BackfillTask
  <1>12. CASE Work
    BY <1>12, WorkKeepsWrites
  <1>13. CASE Fail \/ LoadLands \/ Tick \/ UNCHANGED commandVars
    BY <1>13 DEF Fail, LoadLands, Tick, commandVars, Idle, WriteInv, OneWrite, AtWork,
                 OnlyApproved, UnderApproval
  <1>14. QED
    BY <1>2, <1>3, <1>4, <1>5, <1>6, <1>7, <1>8, <1>9, <1>10, <1>11, <1>12, <1>13
    DEF CommandsNext

\* Where approvals are required nothing is written without one, and an
\* approval is consumed by one write and no more, whatever the calls of the
\* command line and of Airflow tasks are and whichever of them fail.
THEOREM OneWritePerApproval == CommandsSpec => []RequiredMeansApproved
  <1>1. WriteInv => RequiredMeansApproved
    <2> SUFFICES ASSUME WriteInv PROVE RequiredMeansApproved
      OBVIOUS
    <2>1. Cardinality({}) = 0
      BY FS_EmptySet
    <2>2. UnderApproval(writes) = {w \in writes : w.under}
      BY DEF UnderApproval
    <2>3. Cardinality(UnderApproval(writes)) \in {0, 1}
      BY <2>1 DEF WriteInv, OneWrite
    <2>4. approval.status = "consumed" <=> \E w \in writes : w.under
      BY <2>1, <2>2 DEF WriteInv, OneWrite
    <2>5. QED
      BY <2>2, <2>3, <2>4 DEF WriteInv, OnlyApproved, RequiredMeansApproved
  <1>2. QED
    BY <1>1, WriteInvInit, WriteInvKept, PTL DEF CommandsSpec
-----------------------------------------------------------------------------
(* ApprovedCommands: what is written under an approval is what it says.    *)

InScene == Commands \subseteq Names \cap DOMAIN Lines

ApprovalFields == {"status", "surface", "command", "line", "argv", "effect", "store"}

\* What was shown is what its list means, but for the plans of heal, which
\* list another lake than they looked in.
ShownInv ==
    approval.status # "none" =>
      /\ DOMAIN approval = ApprovalFields
      /\ approval.surface # "heal" /\ SameWarehouse /\ Plain(approval.line) =>
           Honest(GateName(approval.command), approval)

\* A command under the approval goes on to do what the approval's list means.
AtWorkInv ==
    call.pc = "working" /\ call.under =>
      /\ (call.surface = "task" => BoundByTask(call)) /\ Plain(call.line) =>
           Bound(call.effect) = Means(GateName(approval.command), approval.argv, env.shell)
      /\ call.command = "silver-catchup-plan" =>
           /\ Passed(call.line, "content_digest")
           /\ Plain(call.line) => call.effect =
                  CatchupEffect(call.line.content_digest, call.settings)

WrittenInv ==
    \A w \in writes : w.under =>
      ((w.surface = "task" => BoundByTask(w)) /\ Plain(w.line) =>
         Bound(w.effect) = Means(GateName(approval.command), approval.argv, env.shell))

EffectInv == InScene /\ ShownInv /\ AtWorkInv /\ WrittenInv

LEMMA WellFormedLines ==
    ASSUME InScene, NEW command \in Commands, NEW line \in Lines[command]
    PROVE  command \in Names /\ WellFormed(command, line)
  <1>1. command \in Names /\ command \in DOMAIN Lines /\ command # "approve"
    BY DEF InScene, Names
  <1> QED
    BY <1>1, LinesAssumption

LEMMA EffectInvInit == CommandsInit => EffectInv
  <1> SUFFICES ASSUME CommandsInit PROVE EffectInv
    OBVIOUS
  <1>1. InScene
    <2>1. PICK scene \in Scenes, required \in BOOLEAN : env = With(scene, "require", required)
      BY DEF CommandsInit
    <2>2. Commands = scene.commands
      BY <2>1, ScenesAssumption, PassedWith DEF Commands, Passed
    <2> QED
      BY <2>2, ScenesAssumption DEF InScene
  <1> QED
    BY <1>1 DEF CommandsInit, EffectInv, ShownInv, AtWorkInv, WrittenInv, NoApproval, Idle

\* The approval goes on saying what it said.
SameApproval ==
    /\ approval'.status # "none" /\ DOMAIN approval' = DOMAIN approval
    /\ \A field \in ApprovalFields \ {"status", "store"} : approval'[field] = approval[field]

LEMMA StatusOnly ==
    ASSUME ShownInv, approval.status # "none", NEW outcome, outcome # "none",
           approval' = [approval EXCEPT !.status = outcome]
             \/ \E store : approval' = [approval EXCEPT !.status = outcome, !.store = store]
    PROVE  SameApproval
  BY DEF SameApproval, ShownInv, ApprovalFields

LEMMA ApprovalKept ==
    ASSUME EffectInv, approval.status # "none", SameApproval, UNCHANGED env
    PROVE  InScene' /\ ShownInv'
  <1>1. InScene'
    BY DEF EffectInv, InScene, Commands
  <1>2. /\ DOMAIN approval' = ApprovalFields
        /\ approval'.surface = approval.surface /\ approval'.command = approval.command
        /\ approval'.line = approval.line /\ approval'.argv = approval.argv
        /\ approval'.effect = approval.effect
    BY DEF EffectInv, ShownInv, SameApproval, ApprovalFields
  <1>3. SameWarehouse' = SameWarehouse
    BY DEF SameWarehouse
  <1>4. Honest(GateName(approval.command), approval) =>
          Honest(GateName(approval.command), approval)'
    BY <1>2 DEF Honest
  <1> QED
    BY <1>1, <1>2, <1>3, <1>4 DEF EffectInv, ShownInv

LEMMA WrittenKept ==
    ASSUME EffectInv, approval.status # "none", SameApproval, UNCHANGED <<env, writes>>
    PROVE  WrittenInv'
  <1>1. approval'.command = approval.command /\ approval'.argv = approval.argv
    BY DEF SameApproval, ApprovalFields
  <1>2. \A w : BoundByTask(w)' = BoundByTask(w)
    BY DEF BoundByTask
  <1> QED
    BY <1>1, <1>2 DEF EffectInv, WrittenInv

LEMMA AtWorkKept ==
    ASSUME EffectInv, approval.status # "none", SameApproval, UNCHANGED <<env, call>>
    PROVE  AtWorkInv'
  <1>1. approval'.command = approval.command /\ approval'.argv = approval.argv
    BY DEF SameApproval, ApprovalFields
  <1>2. BoundByTask(call)' = BoundByTask(call)
    BY DEF BoundByTask
  <1> QED
    BY <1>1, <1>2 DEF EffectInv, AtWorkInv

LEMMA ShowsKeepsEffects ==
    ASSUME WriteInv, EffectInv, NEW surface, NEW command, NEW line, NEW preview,
           Shows(surface, command, line, preview),
           surface # "heal" /\ SameWarehouse /\ Plain(line) => Honest(GateName(command), preview)
    PROVE  EffectInv'
  <1>1. /\ approval' = [status |-> "shown", surface |-> surface, command |-> command, line |-> line,
                        argv |-> preview.argv, effect |-> preview.effect, store |-> None]
        /\ approval.status = "none" /\ call.pc = "idle" /\ UNCHANGED <<env, call, writes>>
    BY DEF Shows, NoApproval, Idle
  <1>2. InScene' /\ SameWarehouse' = SameWarehouse
    BY <1>1 DEF EffectInv, InScene, Commands, SameWarehouse
  <1>3. ShownInv'
    <2>1. /\ DOMAIN approval' = ApprovalFields /\ approval'.surface = surface
          /\ approval'.command = command /\ approval'.line = line
          /\ approval'.argv = preview.argv /\ approval'.effect = preview.effect
      BY <1>1 DEF ApprovalFields
    <2>2. Honest(GateName(command), preview) => Honest(GateName(approval.command), approval)'
      BY <1>1, <2>1 DEF Honest
    <2> QED
      BY <1>2, <2>1, <2>2 DEF ShownInv
  <1>4. AtWorkInv'
    BY <1>1 DEF AtWorkInv
  <1>5. \A w \in writes' : ~w.under
    <2>1. UnderApproval(writes) = {}
      BY <1>1 DEF WriteInv, OneWrite
    <2> QED
      BY <1>1, <2>1 DEF UnderApproval
  <1>6. WrittenInv'
    BY <1>5 DEF WrittenInv
  <1> QED
    BY <1>2, <1>3, <1>4, <1>6 DEF EffectInv

LEMMA ApproveSame ==
    ASSUME EffectInv, NEW flags, Approve(flags) \/ ApprovalExpires
    PROVE  SameApproval
  <1>1. approval.status # "none"
    BY DEF Approve, ApprovalExpires
  <1>2. CASE Approve(flags)
    <2>1. \E store : approval' = [approval EXCEPT !.status = "unused", !.store = store]
      BY <1>2 DEF Approve
    <2> QED
      BY <1>1, <2>1, StatusOnly DEF EffectInv
  <1>3. CASE ApprovalExpires
    BY <1>1, <1>3, StatusOnly DEF ApprovalExpires, EffectInv
  <1> QED
    BY <1>2, <1>3

LEMMA ApproveKeepsEffects ==
    ASSUME EffectInv, NEW flags, Approve(flags) \/ ApprovalExpires
    PROVE  EffectInv'
  <1>1. approval.status # "none" /\ UNCHANGED <<env, call, writes>>
    BY DEF Approve, ApprovalExpires
  <1>2. SameApproval
    BY ApproveSame
  <1> QED
    BY <1>1, <1>2, ApprovalKept, WrittenKept, AtWorkKept DEF EffectInv

LEMMA UntouchedApproval ==
    ASSUME EffectInv, UNCHANGED <<env, approval, writes>>
    PROVE  InScene' /\ ShownInv' /\ WrittenInv'
  <1>1. /\ InScene' = InScene /\ SameWarehouse' = SameWarehouse
        /\ \A w : BoundByTask(w)' = BoundByTask(w)
        /\ Honest(GateName(approval.command), approval)' =
               Honest(GateName(approval.command), approval)
    BY DEF InScene, Commands, SameWarehouse, BoundByTask, Honest
  <1>2. ShownInv'
    BY <1>1 DEF EffectInv, ShownInv
  <1>3. WrittenInv'
    BY <1>1 DEF EffectInv, WrittenInv
  <1> QED
    BY <1>1, <1>2, <1>3 DEF EffectInv

LEMMA RunsKeepsEffects ==
    ASSUME WriteInv, EffectInv, NEW command \in Commands \ {"backfill"},
           NEW line \in Lines[command], NEW passes \in BOOLEAN, NEW surface,
           passes => Approved, RunsWith(command, line, passes, surface)
    PROVE  EffectInv'
  <1> DEFINE one == CallOf(command, line)
             refusal == Refusal(command, line, passes, one)
  <1>1. UNCHANGED <<env, writes>> /\ one.ok /\ (Drifts(command, line) => ~passes)
    BY DEF RunsWith
  <1>2. CASE refusal # "none"
    <2> HIDE DEF one
    <2>1. UNCHANGED approval /\ call'.pc = "refused"
      BY <1>2 DEF RunsWith, one
    <2> QED
      BY <1>1, <2>1, UntouchedApproval DEF EffectInv, AtWorkInv
  <1>3. CASE refusal = "none"
    <2>1. /\ call' = [pc |-> "working", command |-> command, line |-> line, surface |-> surface,
                      under |-> passes, settings |-> one.settings, effect |-> one.effect]
          /\ approval' = IF passes THEN [approval EXCEPT !.status = "claimed"] ELSE approval
      <3> HIDE DEF one
      <3> QED
        BY <1>3 DEF RunsWith, one
    <2>2. CASE ~passes
      <3> HIDE DEF one
      <3>1. UNCHANGED approval /\ ~call'.under
        BY <2>1, <2>2
      <3> QED
        BY <1>1, <3>1, UntouchedApproval DEF EffectInv, AtWorkInv
    <2>3. CASE passes
      <3>1. Mismatch(command, one.argv, Store(env.shell, one.settings)) = "none"
        <4> HIDE DEF one
        <4> QED
          BY <1>3, <2>3 DEF Refusal
      <3>2. WellFormed(command, line) /\ command \in Names \ {"backfill"}
        BY WellFormedLines DEF EffectInv
      <3>3. command = "silver-catchup-plan" => Passed(line, "content_digest")
        BY <1>1, <2>3 DEF Drifts
      <3>4. Plain(line) => Honest(GateName(command), one)
        BY <1>1, <3>2, <3>3, CallHonest
      <3>5. command = "silver-catchup-plan" /\ Plain(line) =>
              one.effect = CatchupEffect(line.content_digest, one.settings)
        BY <1>1, <3>2, <3>3, SoundLine, OtherCallsHonest, CallCases
      <3> HIDE DEF one
      <3>6. approval.status = "unused"
        BY <2>3, <3>1, NoMismatch
      <3>7. GateName(approval.command) = GateName(command) /\ approval.argv = one.argv
        BY <3>1, <3>6 DEF Mismatch
      <3>8. SameApproval
        BY <2>1, <2>3, <3>6, StatusOnly DEF EffectInv
      <3>9. AtWorkInv'
        <4>1. approval'.command = approval.command /\ approval'.argv = approval.argv
          BY <3>8 DEF SameApproval, ApprovalFields
        <4>2. /\ call'.line = line /\ call'.command = command /\ call'.effect = one.effect
              /\ call'.settings = one.settings
          BY <2>1
        <4>3. Plain(line) =>
                Bound(call'.effect) = Means(GateName(approval'.command), approval'.argv, env'.shell)
          BY <1>1, <3>4, <3>7, <4>1, <4>2 DEF Honest
        <4> QED
          BY <3>3, <3>5, <4>2, <4>3 DEF AtWorkInv
      <3> QED
        BY <1>1, <3>6, <3>8, <3>9, ApprovalKept, WrittenKept DEF EffectInv
    <2> QED
      BY <2>2, <2>3
  <1> QED
    BY <1>2, <1>3

LEMMA TaskKeepsEffects ==
    ASSUME WriteInv, EffectInv, NEW command \in {"prune", "backfill"}, NEW line, NEW argv, NEW effect,
           TaskStarts(command, line, argv, effect),
           Plain(line) /\ (\/ command = "backfill"
                           \/ LakeKwargs(FromEnv(env.shell)) = {} /\ env.shell.overrides = <<>>)
             => Bound(effect) = Means(command, argv, env.shell)
    PROVE  EffectInv'
  <1> DEFINE refusal == Mismatch(command, argv, Store(env.shell, FromEnv(env.shell)))
  <1>1. UNCHANGED <<env, writes, approval>> /\ Approved
    BY DEF TaskStarts
  <1>2. InScene' /\ ShownInv' /\ WrittenInv'
    BY <1>1, UntouchedApproval
  <1>3. CASE refusal # "none"
    <2>1. call'.pc = "refused"
      BY <1>3 DEF TaskStarts
    <2> QED
      BY <1>2, <2>1 DEF EffectInv, AtWorkInv
  <1>4. CASE refusal = "none"
    <2>1. /\ call'.command = command /\ call'.line = line /\ call'.surface = "task"
          /\ call'.effect = effect
      BY <1>4 DEF TaskStarts
    <2>2. approval.argv = argv /\ GateName(approval.command) = command
      <3>1. approval.status = "unused"
        BY <1>1, <1>4, NoMismatch
      <3>2. approval.argv = argv /\ GateName(approval.command) = GateName(command)
        BY <1>4, <3>1 DEF Mismatch
      <3> QED
        BY <3>2 DEF GateName
    <2>3. BoundByTask(call)' =>
            \/ command = "backfill"
            \/ LakeKwargs(FromEnv(env.shell)) = {} /\ env.shell.overrides = <<>>
      BY <1>1, <2>1 DEF BoundByTask
    <2>4. AtWorkInv'
      BY <1>1, <2>1, <2>2, <2>3 DEF AtWorkInv
    <2> QED
      BY <1>2, <2>4 DEF EffectInv
  <1> QED
    BY <1>3, <1>4

LEMMA WorkKeepsEffects == WriteInv /\ EffectInv /\ Work => EffectInv'
  <1> SUFFICES ASSUME WriteInv, EffectInv, Work PROVE EffectInv'
    OBVIOUS
  <1> DEFINE w == [number |-> calls, command |-> call.command, line |-> call.line,
                   surface |-> call.surface, under |-> call.under, effect |-> Written]
  <1>1. /\ writes' = writes \cup {w} /\ call'.pc = "idle" /\ UNCHANGED env
        /\ approval' = IF call.under THEN [approval EXCEPT !.status = "consumed"] ELSE approval
        /\ call.pc = "working" /\ DigestMatches
    BY DEF Work, Idle
  <1>2. call.under \in BOOLEAN /\ (call.under => approval.status # "none")
    BY <1>1 DEF WriteInv, AtWork
  <1>3. /\ w.command = call.command /\ w.line = call.line /\ w.surface = call.surface
        /\ w.under = call.under /\ w.effect = Written
    OBVIOUS
  <1>4. call.under /\ Plain(call.line) => Written = call.effect
    <2>1. CASE call.command = "silver-catchup-plan"
      BY <1>1, <2>1 DEF Written, DigestMatches, EffectInv, AtWorkInv
    <2>2. CASE call.command # "silver-catchup-plan"
      BY <2>2 DEF Written
    <2> QED
      BY <2>1, <2>2
  <1> HIDE DEF w
  <1>5. AtWorkInv'
    BY <1>1 DEF AtWorkInv
  <1>6. CASE call.under
    <2>1. SameApproval
      BY <1>1, <1>2, <1>6, StatusOnly DEF EffectInv
    <2>2. InScene' /\ ShownInv'
      BY <1>1, <1>2, <1>6, <2>1, ApprovalKept
    <2>3. approval'.command = approval.command /\ approval'.argv = approval.argv
      BY <2>1 DEF SameApproval, ApprovalFields
    <2>4. \A v : BoundByTask(v)' = BoundByTask(v)
      BY <1>1 DEF BoundByTask
    <2>5. (w.surface = "task" => BoundByTask(w)) /\ Plain(w.line) =>
            Bound(w.effect) = Means(GateName(approval.command), approval.argv, env.shell)
      <3>1. BoundByTask(w) = BoundByTask(call)
        BY <1>3 DEF BoundByTask
      <3> QED
        BY <1>1, <1>3, <1>4, <1>6, <3>1 DEF EffectInv, AtWorkInv
    <2>6. WrittenInv'
      BY <1>1, <2>3, <2>4, <2>5 DEF EffectInv, WrittenInv
    <2> QED
      BY <1>5, <2>2, <2>6 DEF EffectInv
  <1>7. CASE ~call.under
    <2>1. UNCHANGED approval
      BY <1>1, <1>7
    <2>2. /\ InScene' = InScene /\ SameWarehouse' = SameWarehouse
          /\ \A v : BoundByTask(v)' = BoundByTask(v)
          /\ Honest(GateName(approval.command), approval)' =
                 Honest(GateName(approval.command), approval)
      BY <1>1, <2>1 DEF InScene, Commands, SameWarehouse, BoundByTask, Honest
    <2>3. ShownInv'
      BY <2>1, <2>2 DEF EffectInv, ShownInv
    <2>4. WrittenInv'
      BY <1>1, <1>3, <1>7, <2>1, <2>2 DEF EffectInv, WrittenInv
    <2> QED
      BY <1>5, <2>2, <2>3, <2>4 DEF EffectInv
  <1> QED
    BY <1>2, <1>6, <1>7

LEMMA EffectInvKept == WriteInv /\ EffectInv /\ [CommandsNext]_commandVars => EffectInv'
  <1> SUFFICES ASSUME WriteInv, EffectInv, [CommandsNext]_commandVars PROVE EffectInv'
    OBVIOUS
  <1>1. CASE ToolShows
    <2>1. PICK tool \in Tools : \E line \in Lines[tool] : Shows("tool", tool, line, DryRunOf(tool, line))
      BY <1>1 DEF ToolShows
    <2>2. PICK line \in Lines[tool] : Shows("tool", tool, line, DryRunOf(tool, line))
      BY <2>1
    <2>3. WellFormed(tool, line) /\ GateName(tool) = tool
      BY WellFormedLines DEF EffectInv, Tools, GateName
    <2>4. DryRunOf(tool, line).ok
      BY <2>2 DEF Shows
    <2>5. SameWarehouse /\ Plain(line) => Honest(GateName(tool), DryRunOf(tool, line))
      BY <2>3, <2>4, DryRunHonest
    <2> QED
      BY <2>2, <2>5, ShowsKeepsEffects
  <1>2. CASE CatchupPlanShows
    <2> DEFINE preview(line) == Call(TRUE, Settings(line),
                  CatchupPlanArgv(Resolved(Planned(line)), LakeKwargs(Settings(line))),
                  CatchupEffect(CatchupContent(line), Settings(line)))
    <2>1. PICK line \in Lines["silver-catchup-plan"] :
            Shows("shell", "silver-catchup-plan", line, preview(line))
      BY <1>2 DEF CatchupPlanShows
    <2>2. /\ preview(line).argv = CatchupPlanArgv(Resolved(Planned(line)), LakeKwargs(Settings(line)))
          /\ preview(line).effect = CatchupEffect(CatchupContent(line), Settings(line))
      BY DEF Call
    <2> HIDE DEF preview
    <2>3. Honest("silver-catchup-plan", preview(line))
      BY <2>2, PlannedHonest, MeansCases DEF Honest
    <2>4. GateName("silver-catchup-plan") = "silver-catchup-plan"
      BY DEF GateName
    <2> QED
      BY <2>1, <2>3, <2>4, ShowsKeepsEffects
  <1>3. CASE HealShows
    <2>1. PICK line, preview : Shows("heal", "silver-catchup-plan", line, preview)
      BY <1>3 DEF HealShows
    <2> QED
      BY <2>1, ShowsKeepsEffects
  <1>4. CASE HealContinueShows
    <2> DEFINE command == "silver-catchup build"
    <2>1. PICK line \in Lines[command] : Shows("shell", command, line, BuildCall(line))
      BY <1>4 DEF HealContinueShows
    <2>2. WellFormed(command, line) /\ GateName(command) = "dbt"
      BY <1>4, WellFormedLines DEF EffectInv, HealContinueShows, GateName
    <2>3. Plain(line) => Honest("dbt", BuildCall(line))
      BY <2>2, SoundLine, OtherCallsHonest
    <2> QED
      BY <2>1, <2>2, <2>3, ShowsKeepsEffects
  <1>5. CASE OperatorWrites
    <2>1. PICK command \in Commands \ {"backfill"} : \E line \in Lines[command] :
            /\ command = "silver-catchup-plan" => Passed(line, "manifest_id")
            /\ Shows("shell", command, line, CallOf(command, line))
      BY <1>5 DEF OperatorWrites
    <2>2. PICK line \in Lines[command] :
            /\ command = "silver-catchup-plan" => Passed(line, "manifest_id")
            /\ Shows("shell", command, line, CallOf(command, line))
      BY <2>1
    <2>3. WellFormed(command, line) /\ command \in Names \ {"backfill"}
      BY WellFormedLines DEF EffectInv
    <2>4. CallOf(command, line).ok
      BY <2>2 DEF Shows
    <2>5. command = "silver-catchup-plan" => Passed(line, "content_digest")
      <3> SUFFICES ASSUME command = "silver-catchup-plan" PROVE Passed(line, "content_digest")
        OBVIOUS
      <3>1. CatchupCall(line).ok
        BY <2>4, CallCases
      <3>2. CatchupScopeOk(line)
        BY <3>1, CatchupCallHas
      <3> QED
        BY <2>2, <3>2 DEF CatchupScopeOk
    <2>6. Plain(line) => Honest(GateName(command), CallOf(command, line))
      BY <2>3, <2>4, <2>5, CallHonest
    <2> QED
      BY <2>2, <2>6, ShowsKeepsEffects
  <1>6. CASE PreviewBackfill
    <2> DEFINE days(line) == {<<"days", Date(line.interval_start) .. Date(line.interval_end) - 1>>}
               preview(line) == Call(TRUE, ServerSettings, BackfillArgv(line), days(line))
    <2>1. PICK line \in Lines["backfill"] : Shows("tool", "backfill", line, preview(line))
      BY <1>6 DEF PreviewBackfill
    <2>2. Bound(days(line)) = BackfillMeans(BackfillArgv(line))
      BY BackfillDoes
    <2> HIDE DEF days
    <2>3. preview(line).argv = BackfillArgv(line) /\ preview(line).effect = days(line)
      BY DEF Call
    <2> HIDE DEF preview
    <2>4. Honest("backfill", preview(line)) /\ GateName("backfill") = "backfill"
      BY <2>2, <2>3, MeansCases DEF Honest, GateName
    <2> QED
      BY <2>1, <2>4, ShowsKeepsEffects
  <1>7. CASE (\E flags \in Lines["approve"] : Approve(flags)) \/ ApprovalExpires
    BY <1>7, ApproveKeepsEffects
  <1>8. CASE \E command \in Commands \ {"backfill"} : \E line \in Lines[command] :
               Runs(command, line)
    BY <1>8, RunsKeepsEffects DEF Runs
  <1>9. CASE ClearLockTask
    BY <1>9, RunsKeepsEffects DEF ClearLockTask
  <1>10. CASE PruneTask
    <2> DEFINE argv(line) == PruneArgv(WithPipeline(line), {})
               effect(line) == PruneEffect(Overridden(line), FromEnv(env.shell))
    <2>1. PICK line \in Lines["prune"] : TaskStarts("prune", line, argv(line), effect(line))
      BY <1>10 DEF PruneTask
    <2>2. WellFormed("prune", line)
      BY <1>10, WellFormedLines DEF PruneTask, EffectInv
    <2>3. LakeKwargs(FromEnv(env.shell)) = {} /\ env.shell.overrides = <<>> /\ Plain(line) =>
            Bound(effect(line)) = Means("prune", argv(line), env.shell)
      <3> SUFFICES ASSUME LakeKwargs(FromEnv(env.shell)) = {}, env.shell.overrides =
          <<>>, Plain(line)
                   PROVE  Bound(PruneEffect(line, FromEnv(env.shell)))
                            = PruneMeans(PruneArgv(WithPipeline(line), {}))
        BY MeansCases DEF Overridden
      <3>1. Sound(line) /\ Passed(line, "interval_start")
        BY <2>2, SoundLine DEF WellFormed
      <3> QED
        BY <3>1, PipelineSpelled, PruneDoes
    <2> HIDE DEF argv, effect
    <2> QED
      BY <2>1, <2>3, TaskKeepsEffects
  <1>11. CASE BackfillTask
    <2> DEFINE days(line) == {<<"days", Date(line.interval_start) .. Date(line.interval_end) - 1>>}
    <2>1. PICK line \in Lines["backfill"] :
            TaskStarts("backfill", line, BackfillArgv(line), days(line))
      BY <1>11 DEF BackfillTask
    <2>2. Bound(days(line)) = Means("backfill", BackfillArgv(line), env.shell)
      BY BackfillDoes, MeansCases
    <2> HIDE DEF days
    <2> QED
      BY <2>1, <2>2, TaskKeepsEffects
  <1>12. CASE Work
    BY <1>12, WorkKeepsEffects
  <1>13. CASE Fail \/ LoadLands \/ Tick \/ UNCHANGED commandVars
    <2>1. UNCHANGED <<env, approval, writes>> /\ (call' = call \/ call'.pc = "idle")
      BY <1>13 DEF Fail, LoadLands, Tick, commandVars, Idle
    <2>2. AtWorkInv'
      <3>1. BoundByTask(call)' = BoundByTask(call) \/ call'.pc = "idle"
        BY <2>1 DEF BoundByTask
      <3> QED
        BY <2>1, <3>1 DEF EffectInv, AtWorkInv
    <2> QED
      BY <2>1, <2>2, UntouchedApproval DEF EffectInv
  <1> QED
    BY <1>1, <1>2, <1>3, <1>4, <1>5, <1>6, <1>7, <1>8, <1>9, <1>10, <1>11, <1>12, <1>13
    DEF CommandsNext

\* Whatever the flags, the environments and the calls, what is written under
\* an approval is what was shown when it was asked for: both are what the
\* argument list means, and the list of the write is the approved one.
THEOREM WritesAreApproved == CommandsSpec => []EffectIsApproved
  <1>1. WriteInv /\ EffectInv => EffectIsApproved
    <2> SUFFICES ASSUME WriteInv, EffectInv, NEW w \in writes, w.under, approval.surface # "heal",
                        SameWarehouse, w.surface = "task" => BoundByTask(w),
                        Plain(w.line), Plain(approval.line)
                 PROVE  Bound(w.effect) = Bound(approval.effect)
      BY DEF EffectIsApproved
    <2>1. approval.status = "consumed"
      <3>1. UnderApproval(writes) # {}
        BY DEF UnderApproval
      <3> QED
        BY <3>1 DEF WriteInv, OneWrite
    <2>2. Bound(approval.effect) = Means(GateName(approval.command), approval.argv, env.shell)
      BY <2>1 DEF EffectInv, ShownInv, Honest
    <2>3. Bound(w.effect) = Means(GateName(approval.command), approval.argv, env.shell)
      BY DEF EffectInv, WrittenInv
    <2> QED
      BY <2>2, <2>3
  <1>2. CommandsInit => WriteInv /\ EffectInv
    BY WriteInvInit, EffectInvInit
  <1>3. WriteInv /\ EffectInv /\ [CommandsNext]_commandVars => (WriteInv /\ EffectInv)'
    BY WriteInvKept, EffectInvKept
  <1> QED
    BY <1>1, <1>2, <1>3, PTL DEF CommandsSpec
-----------------------------------------------------------------------------
(* ApprovedCommands: the list that a tool shows is the one that the        *)
(* command builds.                                                         *)

PlanFlags == {"manifest_id", "content_digest"}

\* The same flags with the same values, but for a window and a plan's flags.
Alike(a, b) ==
    \A n : n \notin Window \cup PlanFlags =>
      /\ Passed(a, n) <=> Passed(b, n)
      /\ Passed(a, n) => a[n] = b[n]

SameWindow(a, b) == IntervalArgv(a) = IntervalArgv(b)

LEMMA MeantSaid ==
    ASSUME NEW line, NEW shown, Meant(line) = Meant(shown), NEW n, n \notin PlanFlags
    PROVE  /\ Passed(line, n) <=> Passed(shown, n)
           /\ Passed(line, n) => Said(line, n) = Said(shown, n)
  <1> DEFINE added(a) == IF Passed(a, "content_digest") THEN {"manifest_id", "content_digest"} ELSE {}
  <1>1. \A a : /\ DOMAIN Meant(a) = DOMAIN a \ added(a)
               /\ n \in DOMAIN a \ added(a) => Meant(a)[n] = Said(a, n)
    BY DEF Meant
  <1>2. \A a : n \notin added(a)
    BY DEF PlanFlags
  <1> HIDE DEF added
  <1> QED
    BY <1>1, <1>2 DEF Passed

\* What a tool shows leaves the window as it was passed.
LEMMA PipelineSaid ==
    ASSUME NEW line, NEW n
    PROVE  /\ Passed(WithPipeline(line), n) <=> Passed(line, n)
           /\ Passed(line, n) /\ n # "pipeline" => WithPipeline(line)[n] = line[n]
           /\ Passed(line, "pipeline") => WithPipeline(line)["pipeline"] = CanonicalId(line["pipeline"])
  BY PassedWith DEF WithPipeline, Passed

LEMMA ResolvedSaid ==
    ASSUME NEW line, NEW n
    PROVE  /\ n \notin Window => (Passed(Resolved(line), n) <=> Passed(line, n))
           /\ Passed(line, n) /\ n \notin Window \cup {"pipeline"} => Resolved(line)[n] = line[n]
           /\ Passed(line, "pipeline") => Resolved(line)["pipeline"] = CanonicalId(line["pipeline"])
  <1> DEFINE a == WithInterval(line)
  <1>1. \A m : m \notin Window =>
          (Passed(a, m) <=> Passed(line, m)) /\ (Passed(line, m) => a[m] = line[m])
    BY PassedWith DEF WithInterval, Window
  <1>2. "pipeline" \notin Window
    BY DEF Window
  <1> HIDE DEF a
  <1>3. Resolved(line) = WithPipeline(a)
    BY DEF Resolved, a
  <1> QED
    BY <1>1, <1>2, <1>3, PipelineSaid

LEMMA PlansAlike ==
    ASSUME NEW line, NEW shown, Meant(line) = Meant(shown)
    PROVE  /\ Alike(WithPipeline(shown), Resolved(line))
           /\ Alike(WithPipeline(shown), WithPipeline(line))
  <1> SUFFICES ASSUME NEW n, n \notin Window \cup PlanFlags,
                      NEW b \in {Resolved(line), WithPipeline(line)}
               PROVE  /\ Passed(WithPipeline(shown), n) <=> Passed(b, n)
                      /\ Passed(WithPipeline(shown), n) => WithPipeline(shown)[n] = b[n]
    BY DEF Alike
  <1>1. /\ Passed(line, n) <=> Passed(shown, n)
        /\ Passed(line, n) => Said(line, n) = Said(shown, n)
    BY MeantSaid
  <1>2. /\ Passed(b, n) <=> Passed(line, n)
        /\ Passed(line, n) => b[n] = Said(line, n)
    BY PipelineSaid, ResolvedSaid DEF Said
  <1>3. /\ Passed(WithPipeline(shown), n) <=> Passed(shown, n)
        /\ Passed(shown, n) => WithPipeline(shown)[n] = Said(shown, n)
    BY PipelineSaid DEF Said
  <1> QED
    BY <1>1, <1>2, <1>3

\* Where the command line says when the interval ends.
LEMMA PlansWindow ==
    ASSUME NEW line, NEW shown, Meant(line) = Meant(shown),
           Passed(line, "interval_start"), Passed(line, "interval_end")
    PROVE  SameWindow(WithPipeline(shown), Resolved(line))
  <1> DEFINE a == WithPipeline(shown)
             b == Resolved(line)
             w == WithInterval(line)
  <1>1. \A n \in Window : Passed(a, n) /\ a[n] = shown[n] /\ shown[n].instant = line[n].instant
    <2> SUFFICES ASSUME NEW n \in Window
                 PROVE  Passed(a, n) /\ a[n] = shown[n] /\ shown[n].instant = line[n].instant
      OBVIOUS
    <2>1. n # "pipeline" /\ n \notin PlanFlags /\ Passed(line, n)
      BY DEF Window, PlanFlags
    <2>2. Passed(shown, n) /\ Said(line, n) = Said(shown, n)
      BY <2>1, MeantSaid
    <2>3. Said(line, n) = line[n].instant /\ Said(shown, n) = shown[n].instant
      BY <2>1 DEF Said
    <2> QED
      BY <2>1, <2>2, <2>3, PipelineSaid
  <1>2. /\ Passed(w, "interval_start") /\ w["interval_start"] = Iso(line.interval_start.instant)
        /\ Passed(w, "interval_end") /\ w["interval_end"] = Iso(line.interval_end.instant)
    <2>1. ResolveInterval(line) = [interval_start |-> Iso(line.interval_start.instant),
                                   interval_end |-> Iso(line.interval_end.instant)]
      BY DEF ResolveInterval
    <2>2. w = With(With(line, "interval_start", Iso(line.interval_start.instant)),
                   "interval_end", Iso(line.interval_end.instant))
      BY <2>1 DEF WithInterval
    <2> QED
      BY <2>2, PassedWith
  <1> HIDE DEF w
  <1>3. b = WithPipeline(w)
    BY DEF Resolved, w
  <1>4. \A n \in Window : Passed(b, n) /\ b[n].instant = line[n].instant
    <2>1. \A n \in Window : Passed(b, n) /\ b[n] = w[n]
      BY <1>2, <1>3, PipelineSaid DEF Window
    <2> QED
      BY <1>2, <2>1 DEF Window, Iso
  <1> HIDE DEF a, b
  <1>5. \A n \in Window : n \in DOMAIN a /\ n \in DOMAIN b /\ a[n].instant = b[n].instant
    BY <1>1, <1>4 DEF Passed
  <1>6. IntervalArgv(a) = IntervalArgv(b)
    <2>1. /\ a.interval_start.instant = b.interval_start.instant
          /\ a.interval_end.instant = b.interval_end.instant
      BY <1>5 DEF Window
    <2>2. \A c : "interval_end" \in DOMAIN c =>
            IntervalArgv(c) = {<<"-s", c.interval_start.instant>>, <<"-e", c.interval_end.instant>>}
      BY DEF IntervalArgv, NormInterval
    <2> QED
      BY <1>5, <2>1, <2>2 DEF Window
  <1> QED
    BY <1>6 DEF SameWindow, a, b

\* Lists of like lines have like parts.
LEMMA AlikeParts ==
    ASSUME NEW a, NEW b, Alike(a, b)
    PROVE  /\ SetArgv(a) = SetArgv(b)
           /\ \A n : n \notin Window \cup PlanFlags =>
                /\ Passed(a, n) <=> Passed(b, n)
                /\ \A flag : Option(flag, a, n) = Option(flag, b, n) /\ Switch(flag, a, n) = Switch(flag, b, n)
                /\ \A default : ValueOf(a, n, default) = ValueOf(b, n, default)
  <1>1. ASSUME NEW n, n \notin Window \cup PlanFlags, NEW flag
        PROVE  Option(flag, a, n) = Option(flag, b, n)
    <2>1. Passing(a, n) = Passing(b, n)
      BY <1>1 DEF Alike, Passing, Passed
    <2> QED
      BY <2>1, OptionParts
  <1>2. ASSUME NEW n, n \notin Window \cup PlanFlags, NEW default
        PROVE  ValueOf(a, n, default) = ValueOf(b, n, default)
    BY <1>2 DEF Alike, ValueOf
  <1>3. ASSUME NEW n, n \notin Window \cup PlanFlags, NEW flag
        PROVE  Switch(flag, a, n) = Switch(flag, b, n)
    BY <1>2, <1>3 DEF Switch
  <1>4. SetArgv(a) = SetArgv(b)
    <2>1. Assignments(a) = Assignments(b)
      BY <1>2 DEF Assignments, Window, PlanFlags
    <2> QED
      BY <2>1 DEF SetArgv
  <1> QED
    BY <1>1, <1>2, <1>3, <1>4 DEF Alike

LakeNames == {"lake_path", "lake_path_raw", "lake_path_bronze", "lake_path_ops"}

\* Lines that select the lake alike, or not at all.
LEMMA SameSettings ==
    ASSUME NEW settings, NEW a, NEW b,
           \A n \in LakeNames :
             (Passed(a, n) <=> Passed(b, n)) /\ (Passed(a, n) => a[n] = b[n])
    PROVE  WithOverrides(settings, a) = WithOverrides(settings, b)
  <1> DEFINE flag(line, name, other) == IF name \in DOMAIN line THEN line[name] ELSE other
  <1>1. \A n \in LakeNames : \A other : flag(a, n, other) = flag(b, n, other)
    BY DEF Passed
  <1>2. \A l \in Layers : LayerParam[l] \in LakeNames
    BY DEF Layers, LayerParam, LakeNames
  <1>3. \A line : WithOverrides(settings, line) =
                    [settings EXCEPT !.override = flag(line, "lake_path", @),
                                     !.layerOverride = [l \in Layers |-> flag(line, LayerParam[l], @[l])]]
    BY DEF WithOverrides
  <1> HIDE DEF flag
  <1>4. \A other : flag(a, "lake_path", other) = flag(b, "lake_path", other)
    BY <1>1 DEF LakeNames
  <1>5. \A other : [l \in Layers |-> flag(a, LayerParam[l], other[l])] =
                  [l \in Layers |-> flag(b, LayerParam[l], other[l])]
    BY <1>1, <1>2
  <1> QED
    BY <1>3, <1>4, <1>5

LEMMA NoOverrides ==
    ASSUME NEW environment, NEW line, LakeNames \cap DOMAIN line = {}
    PROVE  WithOverrides(FromEnv(environment), line) = FromEnv(environment)
  <1>1. \A l \in Layers : LayerParam[l] \notin DOMAIN line
    BY DEF Layers, LayerParam, LakeNames
  <1>2. "lake_path" \notin DOMAIN line
    BY DEF LakeNames
  <1> DEFINE settings == FromEnv(environment)
             none == [l \in Layers |-> None]
  <1>3. settings.override = None /\ settings.layerOverride = none
    BY DEF FromEnv
  <1>4. [l \in Layers |-> none[l]] = none
    OBVIOUS
  <1>5. settings = [settings EXCEPT !.override = None, !.layerOverride = none]
    <2>1. settings = [path |-> environment.path, layer |-> environment.layer,
                      mode |-> environment.mode, override |-> None, layerOverride |-> none]
      BY DEF FromEnv
    <2> HIDE DEF settings, none
    <2>2. /\ settings = [name \in DOMAIN settings |-> settings[name]]
          /\ settings["override"] = None /\ settings["layerOverride"] = none
      BY <2>1
    <2> QED
      BY <2>2
  <1> HIDE DEF settings, none
  <1>6. [l \in Layers |-> IF LayerParam[l] \in DOMAIN line THEN line[LayerParam[l]] ELSE none[l]] = none
    BY <1>1, <1>4
  <1>7. WithOverrides(settings, line) = [settings EXCEPT !.override = None, !.layerOverride = none]
    BY <1>2, <1>3, <1>6 DEF WithOverrides
  <1> QED
    BY <1>5, <1>7 DEF settings

\* The list that a tool shows, whenever it is asked.
ShownBy(tool, line, argv) ==
    /\ tool = "prune" => argv = PruneArgv(WithPipeline(line), LakeKwargs(ServerSettings))
    /\ tool = "dbt" => argv = DbtArgv(WithPipeline(line), LakeKwargs(ServerSettings))
    /\ tool = "scaffold-dbt" => argv = ScaffoldDbtArgv(WithPipeline(line))
    /\ tool = "scaffold-ops" => argv = ScaffoldOpsArgv(line)
    /\ tool = "init-pipeline" => argv = InitPipelineArgv(line)
    /\ tool = "biglake-register" =>
         argv = BiglakeArgv(BiglakeFlags(line), LakeKwargs(WithOverrides(ServerSettings, line)))
    /\ tool = "iceberg-register" =>
         argv = IcebergArgv(WithPipeline(line), LakeKwargs(WithOverrides(ServerSettings, line)),
                            env.server.catalog)
    /\ tool = "silver-catchup-plan" =>
         \E content :
           argv = CatchupPlanArgv(
                    WithPipeline(With(With(line, "manifest_id", "planned"), "content_digest", content)),
                    LakeKwargs(ServerSettings))
    /\ tool = "silver-catchup-cleanup" =>
         Passed(line, "older_than") \/ (Passed(line, "manifest_id") /\ argv = CleanupArgv(line))

LEMMA ToolShown ==
    ASSUME NEW tool \in Tools, NEW line, DOMAIN line \subseteq ToolParams(tool),
           DryRunOf(tool, line).ok
    PROVE  ShownBy(tool, line, DryRunOf(tool, line).argv)
  <1> DEFINE argv == DryRunOf(tool, line).argv
  <1>1. tool = "prune" => argv = PruneArgv(WithPipeline(line), LakeKwargs(ServerSettings))
    BY DryRunCases, CallHas DEF PruneDryRun
  <1>2. tool = "dbt" => argv = DbtArgv(WithPipeline(line), LakeKwargs(ServerSettings))
    BY DryRunCases, CallHas DEF DbtDryRun
  <1>3. tool = "scaffold-dbt" => argv = ScaffoldDbtArgv(WithPipeline(line))
    BY DryRunCases DEF ScaffoldDbtDryRun, Call
  <1>4. tool = "scaffold-ops" => argv = ScaffoldOpsArgv(line)
    BY DryRunCases DEF ScaffoldOpsDryRun, Call
  <1>5. tool = "init-pipeline" => argv = InitPipelineArgv(line)
    BY DryRunCases, CallHas DEF InitPipelineDryRun
  <1>6. tool = "biglake-register" =>
          argv = BiglakeArgv(BiglakeFlags(line), LakeKwargs(WithOverrides(ServerSettings, line)))
    BY DryRunCases, CallHas DEF BiglakeDryRun
  <1>7. tool = "iceberg-register" =>
          argv = IcebergArgv(WithPipeline(line), LakeKwargs(WithOverrides(ServerSettings, line)),
                             env.server.catalog)
    BY DryRunCases, CallHas DEF IcebergDryRun
  <1>8. tool = "silver-catchup-plan" =>
          argv = CatchupPlanArgv(
                   WithPipeline(With(With(line, "manifest_id", "planned"), "content_digest",
                                     CatchupContent(line))),
                   LakeKwargs(ServerSettings))
    BY DryRunCases, CallHas DEF CatchupDryRun, Planned
  <1>9. tool = "silver-catchup-cleanup" =>
          Passed(line, "older_than") \/ (Passed(line, "manifest_id") /\ argv = CleanupArgv(line))
    <2> SUFFICES ASSUME tool = "silver-catchup-cleanup", ~Passed(line, "older_than")
                 PROVE  Passed(line, "manifest_id") /\ argv = CleanupArgv(line)
      OBVIOUS
    <2> DEFINE ok == CleanupScopeOk(line)
               plan == Call(ok, ServerSettings, CleanupArgv(WithCutoff(line)), CleanupEffect(line))
    <2>1. DryRunOf(tool, line) = plan
      BY DryRunCases DEF CleanupDryRun
    <2>2. ok
      <3> HIDE DEF ok
      <3>1. plan.ok => ok
        BY CallHas
      <3> QED
        BY <2>1, <3>1
    <2>3. Passed(line, "manifest_id") \/ Passed(line, "created_before")
      <3>1. Cardinality({}) = 0
        BY FS_EmptySet
      <3>2. {"manifest_id", "created_before", "older_than"} \cap DOMAIN line # {}
        BY <2>2, <3>1 DEF CleanupScopeOk
      <3> QED
        BY <3>2 DEF Passed
    <2>4. ~Passed(line, "created_before")
      BY DEF ToolParams, Passed
    <2>5. argv = CleanupArgv(line)
      BY <2>1, CallHas DEF WithCutoff
    <2> QED
      BY <2>3, <2>4, <2>5
  <1> QED
    BY <1>1, <1>2, <1>3, <1>4, <1>5, <1>6, <1>7, <1>8, <1>9 DEF ShownBy

\* Where the end of the interval is given, a tool and a command line that mean
\* the same have the same list, that of migrate excepted.
LEMMA ListsAgree ==
    ASSUME env.server = env.shell, NEW tool \in Tools, tool # "migrate",
           NEW shown, DOMAIN shown \subseteq ToolParams(tool),
           NEW argv, ShownBy(tool, shown, argv),
           NEW line, WellFormed(tool, line), Meant(line) = Meant(shown), FromPlan(line, argv),
           ~Drifts(tool, line), CallOf(tool, line).ok,
           Passed(line, "interval_start") => Passed(line, "interval_end")
    PROVE  CallOf(tool, line).argv = argv
  <1> DEFINE a == WithPipeline(shown)
             b == Resolved(line)
             c == WithPipeline(line)
             lake == LakeKwargs(ServerSettings)
             own == LakeKwargs(WithOverrides(ServerSettings, shown))
  <1>1. Alike(a, b) /\ Alike(a, c)
    BY PlansAlike
  <1>2. Passed(line, "interval_start") => SameWindow(a, b)
    BY PlansWindow
  <1>3. ServerSettings = FromEnv(env.shell)
    BY DEF ServerSettings
  <1>4. \A n \in LakeNames :
          (Passed(line, n) <=> Passed(shown, n)) /\ (Passed(line, n) => line[n] = shown[n])
    <2> SUFFICES ASSUME NEW n \in LakeNames
                 PROVE  (Passed(line, n) <=> Passed(shown, n)) /\ (Passed(line, n) => line[n] = shown[n])
      OBVIOUS
    <2>1. n \notin PlanFlags /\ n # "pipeline" /\ n \notin Window
      BY DEF LakeNames, PlanFlags, Window
    <2> QED
      BY <2>1, MeantSaid DEF Said
  <1>5. LakeKwargs(Settings(line)) = own
    BY <1>3, <1>4, SameSettings DEF Settings
  <1>6. LakeNames \cap ToolParams(tool) = {} => LakeKwargs(Settings(line)) = lake
    <2> SUFFICES ASSUME LakeNames \cap ToolParams(tool) = {}
                 PROVE  LakeKwargs(Settings(line)) = lake
      OBVIOUS
    <2>1. LakeNames \cap DOMAIN line = {}
      BY <1>4 DEF Passed
    <2> QED
      BY <1>3, <2>1, NoOverrides DEF Settings
  <1>7. \A n \in {"pipeline", "keep", "command", "select", "full_refresh", "catchup", "catchup_manifest",
                  "target", "force", "all_pipelines", "limit", "census", "extract_lookback"} :
          n \notin Window \cup PlanFlags
    BY DEF Window, PlanFlags
  <1> HIDE DEF a, b, c, lake, own
  <1>8. CASE tool = "prune"
    <2>1. LakeKwargs(Settings(line)) = lake
      BY <1>6, <1>8 DEF ToolParams, LakeNames, Window
    <2>2. CallOf(tool, line).argv = PruneArgv(b, lake)
      <3>1. CallOf(tool, line) = PruneCall(line)
        BY <1>8, CallCases
      <3>2. PruneCall(line).argv = PruneArgv(b, LakeKwargs(Settings(line)))
        BY CallHas DEF PruneCall, b
      <3> QED
        BY <2>1, <3>1, <3>2
    <2>3. argv = PruneArgv(a, lake)
      BY <1>8 DEF ShownBy, a, lake
    <2>4. IntervalArgv(a) = IntervalArgv(b)
      BY <1>2, <1>8 DEF WellFormed, SameWindow
    <2>5. /\ Option("-p", a, "pipeline") = Option("-p", b, "pipeline")
          /\ ValueOf(a, "keep", 1) = ValueOf(b, "keep", 1) /\ SetArgv(a) = SetArgv(b)
      BY <1>1, <1>7, AlikeParts
    <2> QED
      BY <2>2, <2>3, <2>4, <2>5 DEF PruneArgv
  <1>9. CASE tool = "dbt"
    <2>1. LakeKwargs(Settings(line)) = lake
      BY <1>6, <1>9 DEF ToolParams, LakeNames
    <2>2. CallOf(tool, line).argv = DbtArgv(b, lake)
      <3>1. CallOf(tool, line) = DbtCall(line)
        BY <1>9, CallCases
      <3>2. DbtCall(line).argv = DbtArgv(b, LakeKwargs(Settings(line)))
        BY CallHas DEF DbtCall, b
      <3> QED
        BY <2>1, <3>1, <3>2
    <2>3. argv = DbtArgv(a, lake)
      BY <1>9 DEF ShownBy, a, lake
    <2>4. /\ \A n \in {"pipeline", "select", "catchup_manifest", "target"} : \A flag :
               Option(flag, a, n) = Option(flag, b, n)
          /\ \A n \in {"full_refresh", "catchup"} : \A flag : Switch(flag, a, n) = Switch(flag, b, n)
          /\ ValueOf(a, "command", "build") = ValueOf(b, "command", "build")
          /\ SetArgv(a) = SetArgv(b)
      BY <1>1, <1>7, AlikeParts
    <2> QED
      BY <2>2, <2>3, <2>4 DEF DbtArgv
  <1>10. CASE tool = "scaffold-dbt"
    <2>1. CallOf(tool, line).argv = ScaffoldDbtArgv(c)
      <3>1. CallOf(tool, line) = ScaffoldDbtCall(line)
        BY <1>10, CallCases
      <3> QED
        BY <3>1 DEF ScaffoldDbtCall, Call, c
    <2>2. argv = ScaffoldDbtArgv(a)
      BY <1>10 DEF ShownBy, a
    <2>3. /\ Option("-p", a, "pipeline") = Option("-p", c, "pipeline")
          /\ Switch("--force", a, "force") = Switch("--force", c, "force")
          /\ SetArgv(a) = SetArgv(c)
      BY <1>1, <1>7, AlikeParts
    <2> QED
      BY <2>1, <2>2, <2>3 DEF ScaffoldDbtArgv
  <1>11. CASE tool \in {"scaffold-ops", "init-pipeline"}
    <2>1. \A n \in {"name", "source_type", "destination_type", "connection", "lake_path", "skip_dbt",
                    "force"} :
            /\ Passed(line, n) <=> Passed(shown, n)
            /\ Passed(line, n) => line[n] = shown[n]
      <3> SUFFICES ASSUME NEW n \in {"name", "source_type", "destination_type", "connection",
                                     "lake_path", "skip_dbt", "force"}
                   PROVE  /\ Passed(line, n) <=> Passed(shown, n)
                          /\ Passed(line, n) => line[n] = shown[n]
        OBVIOUS
      <3>1. n \notin PlanFlags /\ n # "pipeline" /\ n \notin Window
        BY DEF PlanFlags, Window
      <3> QED
        BY <3>1, MeantSaid DEF Said
    <2>2. \A n \in {"name", "source_type", "destination_type", "connection", "lake_path", "skip_dbt",
                    "force"} :
            /\ \A flag : Option(flag, line, n) = Option(flag, shown, n)
            /\ \A default : ValueOf(line, n, default) = ValueOf(shown, n, default)
            /\ \A flag : Switch(flag, line, n) = Switch(flag, shown, n)
      <3> SUFFICES ASSUME NEW n \in {"name", "source_type", "destination_type", "connection",
                                     "lake_path", "skip_dbt", "force"}
                   PROVE  /\ \A flag : Option(flag, line, n) = Option(flag, shown, n)
                          /\ \A default : ValueOf(line, n, default) = ValueOf(shown, n, default)
                          /\ \A flag : Switch(flag, line, n) = Switch(flag, shown, n)
        OBVIOUS
      <3>1. (Passed(line, n) <=> Passed(shown, n)) /\ (Passed(line, n) => line[n] = shown[n])
        BY <2>1
      <3>2. Passing(line, n) = Passing(shown, n)
        BY <3>1 DEF Passing, Passed
      <3>3. \A default : ValueOf(line, n, default) = ValueOf(shown, n, default)
        BY <3>1 DEF ValueOf
      <3>4. \A flag : Switch(flag, line, n) = Switch(flag, shown, n)
        BY <3>3 DEF Switch
      <3> QED
        BY <3>2, <3>3, <3>4, OptionParts
    <2>3. CASE tool = "scaffold-ops"
      <3>1. CallOf(tool, line).argv = ScaffoldOpsArgv(line)
        <4>1. CallOf(tool, line) = ScaffoldOpsCall(line)
          BY <2>3, CallCases
        <4> QED
          BY <4>1 DEF ScaffoldOpsCall, Call
      <3>2. argv = ScaffoldOpsArgv(shown)
        BY <2>3 DEF ShownBy
      <3> QED
        BY <2>2, <3>1, <3>2 DEF ScaffoldOpsArgv
    <2>4. CASE tool = "init-pipeline"
      <3>1. CallOf(tool, line).argv = InitPipelineArgv(line)
        <4>1. CallOf(tool, line) = InitPipelineCall(line)
          BY <2>4, CallCases
        <4> QED
          BY <4>1, CallHas DEF InitPipelineCall
      <3>2. argv = InitPipelineArgv(shown)
        BY <2>4 DEF ShownBy
      <3> QED
        BY <2>2, <3>1, <3>2 DEF InitPipelineArgv
    <2> QED
      BY <1>11, <2>3, <2>4
  <1>12. CASE tool = "biglake-register"
    <2> DEFINE x == BiglakeFlags(shown)
               y == BiglakeFlags(line)
    <2>1. CallOf(tool, line).argv = BiglakeArgv(y, own)
      <3>1. CallOf(tool, line) = BiglakeCall(line)
        BY <1>12, CallCases
      <3>2. BiglakeCall(line).argv = BiglakeArgv(y, LakeKwargs(Settings(line)))
        BY CallHas DEF BiglakeCall
      <3> QED
        BY <1>5, <3>1, <3>2
    <2>2. argv = BiglakeArgv(x, own)
      BY <1>12 DEF ShownBy, own
    <2>3. Passed(line, "pipeline") <=> Passed(shown, "pipeline")
      BY MeantSaid DEF PlanFlags
    <2>4. Alike(x, y)
      <3>1. CASE Passed(line, "pipeline")
        <4> DEFINE on == TRUE
        <4>1. x = With(a, "skip_ops", on) /\ y = With(c, "skip_ops", on)
          BY <2>3, <3>1 DEF BiglakeFlags, a, c
        <4> HIDE DEF on, x, y
        <4> SUFFICES ASSUME NEW n, n \notin Window \cup PlanFlags
                     PROVE  (Passed(x, n) <=> Passed(y, n)) /\ (Passed(x, n) => x[n] = y[n])
          BY DEF Alike
        <4>2. (Passed(a, n) <=> Passed(c, n)) /\ (Passed(a, n) => a[n] = c[n])
          BY <1>1 DEF Alike
        <4>3. \A l : /\ Passed(With(l, "skip_ops", on), n) <=> n = "skip_ops" \/ Passed(l, n)
                     /\ n = "skip_ops" => With(l, "skip_ops", on)[n] = on
                     /\ n # "skip_ops" /\ Passed(l, n) => With(l, "skip_ops", on)[n] = l[n]
          BY PassedWith
        <4> QED
          BY <4>1, <4>2, <4>3
      <3>2. CASE ~Passed(line, "pipeline")
        <4>1. x = a /\ y = c
          BY <2>3, <3>2 DEF BiglakeFlags, WithPipeline, a, c
        <4> QED
          BY <1>1, <4>1
      <3> QED
        BY <3>1, <3>2
    <2> HIDE DEF x, y
    <2>5. /\ \A n \in {"pipeline", "project", "location", "connection"} : \A flag :
               Option(flag, x, n) = Option(flag, y, n)
          /\ Switch("--skip-ops", x, "skip_ops") = Switch("--skip-ops", y, "skip_ops")
      <3>1. \A n \in {"pipeline", "project", "location", "connection", "skip_ops"} :
              n \notin Window \cup PlanFlags
        BY DEF Window, PlanFlags
      <3> QED
        BY <2>4, <3>1, AlikeParts
    <2> QED
      BY <2>1, <2>2, <2>5 DEF BiglakeArgv
  <1>13. CASE tool = "iceberg-register"
    <2>1. CallOf(tool, line).argv = IcebergArgv(c, own, env.shell.catalog)
      <3>1. CallOf(tool, line) = IcebergCall(line)
        BY <1>13, CallCases
      <3>2. IcebergCall(line).argv = IcebergArgv(c, LakeKwargs(Settings(line)), env.shell.catalog)
        BY CallHas DEF IcebergCall, c
      <3> QED
        BY <1>5, <3>1, <3>2
    <2>2. argv = IcebergArgv(a, own, env.shell.catalog)
      BY <1>13 DEF ShownBy, a, own
    <2>3. /\ Option("--pipeline", a, "pipeline") = Option("--pipeline", c, "pipeline")
          /\ \A n \in {"pipeline", "skip_ops"} : Passed(a, n) <=> Passed(c, n)
      BY <1>1, AlikeParts DEF Window, PlanFlags
    <2> QED
      BY <2>1, <2>2, <2>3 DEF IcebergArgv
  <1>14. CASE tool = "silver-catchup-plan"
    <2> DEFINE said(content) == With(With(shown, "manifest_id", "planned"), "content_digest", content)
    <2>1. PICK content : argv = CatchupPlanArgv(WithPipeline(said(content)), lake)
      BY <1>14 DEF ShownBy, lake
    <2> DEFINE planned == said(content)
               x == WithPipeline(planned)
    <2>2. Meant(line) = Meant(planned)
      <3>1. PlanFlags \cap DOMAIN shown = {}
        BY <1>14 DEF ToolParams, PlanFlags, Window
      <3>2. /\ DOMAIN planned = DOMAIN shown \cup PlanFlags
            /\ \A n \in DOMAIN shown : planned[n] = shown[n]
        BY <3>1 DEF With, PlanFlags
      <3> HIDE DEF planned
      <3>3. DOMAIN planned \ PlanFlags = DOMAIN shown
        BY <3>1, <3>2
      <3>4. \A n \in DOMAIN shown : Said(planned, n) = Said(shown, n)
        BY <3>2 DEF Said
      <3>5. Meant(planned) = [n \in DOMAIN planned \ PlanFlags |-> Said(planned, n)]
        BY <3>2 DEF Meant, Passed, PlanFlags
      <3>6. Meant(shown) = [n \in DOMAIN shown |-> Said(shown, n)]
        BY <3>1 DEF Meant, Passed, PlanFlags
      <3> QED
        BY <3>3, <3>4, <3>5, <3>6
    <2>3. Alike(x, b) /\ (Passed(line, "interval_start") => SameWindow(x, b))
      BY <2>2, PlansAlike, PlansWindow DEF b
    <2>4. Passed(line, "manifest_id") /\ Passed(line, "content_digest")
      <3>1. Passed(line, "content_digest")
        BY <1>14 DEF Drifts
      <3>2. CatchupScopeOk(line)
        <4>1. CallOf(tool, line) = CatchupCall(line)
          BY <1>14, CallCases
        <4> QED
          BY <4>1, CatchupCallHas
      <3>3. Passed(line, "manifest_id") = Passed(line, "content_digest")
        BY <3>2 DEF CatchupScopeOk
      <3> QED
        BY <3>1, <3>3
    <2>5. CallOf(tool, line).argv = CatchupPlanArgv(b, lake)
      <3>1. LakeKwargs(Settings(line)) = lake
        BY <1>6, <1>14 DEF ToolParams, LakeNames, Window
      <3>2. CallOf(tool, line) = CatchupCall(line)
        BY <1>14, CallCases
      <3>3. CatchupCall(line).argv = CatchupPlanArgv(b, LakeKwargs(Settings(line)))
        BY <2>4, CatchupCallHas DEF b
      <3> QED
        BY <3>1, <3>2, <3>3
    <2>6. \A n \in PlanFlags : Passed(x, n) /\ Passed(b, n) /\ b[n] = line[n]
      <3> SUFFICES ASSUME NEW n \in PlanFlags PROVE Passed(x, n) /\ Passed(b, n) /\ b[n] = line[n]
        OBVIOUS
      <3>1. n \notin Window \cup {"pipeline"} /\ Passed(line, n) /\ Passed(planned, n)
        BY <2>4, PassedWith DEF PlanFlags, Window
      <3> QED
        BY <3>1, PipelineSaid, ResolvedSaid DEF b
    <2> HIDE DEF x, planned, said
    <2>7. x["manifest_id"] = b["manifest_id"] /\ x["content_digest"] = b["content_digest"]
      <3>1. /\ Values(argv, "--manifest-id") = Passing(x, "manifest_id")
            /\ Values(argv, "--content-digest") = Passing(x, "content_digest")
        BY <2>1, CatchupPlanSays, KwargsOnlyLake DEF x, planned, lake
      <3>2. /\ <<"--manifest-id", line.manifest_id>> \in argv
            /\ <<"--content-digest", line.content_digest>> \in argv
        BY <2>4 DEF FromPlan, Option, Passed
      <3>3. /\ line.manifest_id \in Values(argv, "--manifest-id")
            /\ line.content_digest \in Values(argv, "--content-digest")
        BY <3>2 DEF Values
      <3>4. \A n : Passing(x, n) \subseteq {x[n]}
        BY DEF Passing
      <3> QED
        BY <2>6, <3>1, <3>3, <3>4 DEF PlanFlags
    <2>8. \A n \in PlanFlags : \A flag : Option(flag, x, n) = Option(flag, b, n)
      <3>1. \A n \in PlanFlags : Passing(x, n) = Passing(b, n)
        BY <2>6, <2>7 DEF Passing, Passed, PlanFlags
      <3> QED
        BY <3>1, OptionParts
    <2>9. /\ Passed(x, "all_pipelines") <=> Passed(b, "all_pipelines")
          /\ Option("-p", x, "pipeline") = Option("-p", b, "pipeline")
          /\ ValueOf(x, "limit", 200) = ValueOf(b, "limit", 200)
          /\ Passed(x, "census") <=> Passed(b, "census")
          /\ Switch("--census", x, "census") = Switch("--census", b, "census")
          /\ ValueOf(x, "extract_lookback", DefaultLookback) =
                ValueOf(b, "extract_lookback", DefaultLookback)
      BY <1>7, <2>3, AlikeParts
    <2>10. /\ Passed(x, "interval_start") <=> Passed(b, "interval_start")
           /\ Passed(x, "interval_start") => IntervalArgv(x) = IntervalArgv(b)
      <3>1. Passed(x, "interval_start") <=> Passed(line, "interval_start")
        <4>1. Passed(line, "interval_start") <=> Passed(planned, "interval_start")
          BY <2>2, MeantSaid DEF PlanFlags
        <4> QED
          BY <4>1, PipelineSaid DEF x
      <3>2. Passed(b, "interval_start") <=> Passed(line, "interval_start")
        <4>1. Passed(WithInterval(line), "interval_start") <=> Passed(line, "interval_start")
          BY PassedWith DEF WithInterval
        <4> QED
          BY <4>1, PipelineSaid DEF Resolved, b
      <3> QED
        BY <2>3, <3>1, <3>2 DEF SameWindow
    <2>11. ScopeArgv(x) = ScopeArgv(b)
      <3>1. EffectiveLookback(x) = EffectiveLookback(b)
        BY <2>9, <2>10 DEF EffectiveLookback, Passed
      <3> QED
        BY <2>9, <2>10, <3>1 DEF ScopeArgv
    <2>12. CatchupPlanArgv(x, lake) = CatchupPlanArgv(b, lake)
      BY <2>8, <2>9, <2>11 DEF CatchupPlanArgv, PlanFlags
    <2> QED
      BY <2>1, <2>5, <2>12 DEF x, planned
  <1>15. CASE tool = "silver-catchup-cleanup"
    <2>1. Passed(line, "older_than") <=> Passed(shown, "older_than")
      BY MeantSaid DEF PlanFlags
    <2>2. ~Passed(line, "older_than")
      BY DEF Drifts
    <2>3. Passed(shown, "manifest_id") /\ argv = CleanupArgv(shown)
      BY <1>15, <2>1, <2>2 DEF ShownBy
    <2>4. ~Passed(shown, "content_digest") /\ ~Passed(shown, "created_before")
      BY <1>15 DEF ToolParams, Passed
    <2>5. Meant(shown)["manifest_id"] = shown["manifest_id"] /\ "manifest_id" \in DOMAIN Meant(shown)
      BY <2>3, <2>4 DEF Meant, Said, Window, Passed
    <2>6. "manifest_id" \in DOMAIN line /\ Meant(line)["manifest_id"] = line["manifest_id"]
      BY <2>5 DEF Meant, Said, Window, Passed
    <2>7. ~Passed(line, "created_before")
      BY <2>4, MeantSaid DEF PlanFlags
    <2>8. CallOf(tool, line).argv = CleanupArgv(line)
      <3>1. CallOf(tool, line) = CleanupCall(line)
        BY <1>15, CallCases
      <3>2. CleanupCall(line).argv = CleanupArgv(WithCutoff(line))
        BY CallHas DEF CleanupCall
      <3> QED
        BY <2>2, <3>1, <3>2 DEF WithCutoff
    <2>9. CleanupArgv(line) = CleanupArgv(shown)
      <3>1. \A n \in {"manifest_id", "created_before"} : Passing(line, n) = Passing(shown, n)
        BY <2>3, <2>4, <2>5, <2>6, <2>7 DEF Passing, Passed
      <3> QED
        BY <3>1, OptionParts DEF CleanupArgv
    <2> QED
      BY <2>3, <2>8, <2>9
  <1> QED
    BY <1>8, <1>9, <1>10, <1>11, <1>12, <1>13, <1>14, <1>15 DEF Tools

\* What a tool showed is what it shows for the flags that it was given.
ToolPlan ==
    approval.status # "none" /\ approval.surface = "tool" /\ approval.command # "backfill" =>
      /\ approval.command \in Tools
      /\ DOMAIN approval.line \subseteq ToolParams(approval.command)
      /\ ShownBy(approval.command, approval.line, approval.argv)

LEMMA SameShown ==
    ASSUME UNCHANGED env
    PROVE  /\ Tools' = Tools
           /\ \A tool, line, argv : ShownBy(tool, line, argv)' = ShownBy(tool, line, argv)
  <1>1. Tools' = Tools
    BY DEF Tools, Commands
  <1>2. ServerSettings' = ServerSettings
    BY DEF ServerSettings
  <1> QED
    BY <1>1, <1>2 DEF ShownBy

LEMMA ToolPlanKept ==
    ASSUME ToolPlan, UNCHANGED env,
           UNCHANGED approval \/ (approval.status # "none" /\ SameApproval)
    PROVE  ToolPlan'
  <1>1. /\ approval'.status # "none" => approval.status # "none"
        /\ approval'.surface = approval.surface /\ approval'.command = approval.command
        /\ approval'.line = approval.line /\ approval'.argv = approval.argv
    BY DEF SameApproval, ApprovalFields
  <1> QED
    BY <1>1, SameShown DEF ToolPlan

LEMMA AgreementKept ==
    ASSUME SpelledOutPlansAgree, UNCHANGED <<env, call>>,
           UNCHANGED approval \/ SameApproval
    PROVE  SpelledOutPlansAgree'
  <1>1. /\ approval'.surface = approval.surface /\ approval'.command = approval.command
        /\ approval'.line = approval.line /\ approval'.argv = approval.argv
    BY DEF SameApproval, ApprovalFields
  <1>2. Misunderstood' => Misunderstood
    BY <1>1 DEF Misunderstood
  <1> QED
    BY <1>2 DEF SpelledOutPlansAgree

LEMMA ShowsKeepsPlans ==
    ASSUME NEW surface, NEW command, NEW line, NEW preview,
           Shows(surface, command, line, preview),
           surface = "tool" /\ command # "backfill" =>
             /\ command \in Tools /\ DOMAIN line \subseteq ToolParams(command)
             /\ ShownBy(command, line, preview.argv)
    PROVE  ToolPlan' /\ SpelledOutPlansAgree'
  <1>1. /\ approval' = [status |-> "shown", surface |-> surface, command |-> command, line |-> line,
                        argv |-> preview.argv, effect |-> preview.effect, store |-> None]
        /\ call'.pc = "idle" /\ UNCHANGED env
    BY DEF Shows, Idle
  <1>2. /\ approval'.surface = surface /\ approval'.command = command
        /\ approval'.line = line /\ approval'.argv = preview.argv
    BY <1>1
  <1>3. ToolPlan'
    BY <1>1, <1>2, SameShown DEF ToolPlan
  <1> QED
    BY <1>1, <1>3 DEF SpelledOutPlansAgree, Misunderstood

\* A command that is refused for its list is one that does not mean what the
\* tool showed, or one whose list is not spelled out.
LEMMA RunsKeepsPlans ==
    ASSUME WriteInv, EffectInv, ToolPlan, NEW command \in Commands \ {"backfill"},
           NEW line \in Lines[command], NEW passes \in BOOLEAN, NEW surface,
           passes => Approved, RunsWith(command, line, passes, surface)
    PROVE  ToolPlan' /\ SpelledOutPlansAgree'
  <1> DEFINE one == CallOf(command, line)
             refusal == Refusal(command, line, passes, one)
  <1>1. UNCHANGED env /\ one.ok /\ (Drifts(command, line) => ~passes)
    BY DEF RunsWith
  <1>2. CASE refusal = "none"
    <2>1. /\ call'.pc = "working"
          /\ approval' = IF passes THEN [approval EXCEPT !.status = "claimed"] ELSE approval
      <3> HIDE DEF one
      <3> QED
        BY <1>2 DEF RunsWith, one
    <2>2. passes => approval.status # "none"
      BY DEF Approved
    <2>3. passes => SameApproval
      <3> HIDE DEF one
      <3> QED
        BY <2>1, <2>2, StatusOnly DEF EffectInv
    <2>4. ToolPlan'
      <3> HIDE DEF one
      <3> QED
        BY <1>1, <2>1, <2>2, <2>3, ToolPlanKept
    <2> QED
      BY <2>1, <2>4 DEF SpelledOutPlansAgree, Misunderstood
  <1>3. CASE refusal # "none"
    <2>1. /\ UNCHANGED approval
          /\ call' = [pc |-> "refused", command |-> command, line |-> line, surface |-> surface,
                      reason |-> refusal]
      <3> HIDE DEF one
      <3> QED
        BY <1>3 DEF RunsWith, one
    <2>2. /\ call'.command = command /\ call'.line = line /\ call'.surface = surface
          /\ call'.reason = refusal
      <3> HIDE DEF refusal
      <3> QED
        BY <2>1
    <2>3. ToolPlan'
      BY <1>1, <2>1, ToolPlanKept
    <2>4. ASSUME Misunderstood', command # "migrate",
                 Passed(line, "interval_start") => Passed(line, "interval_end")
          PROVE  FALSE
      <3>1. /\ refusal = "argv_mismatch" /\ approval.surface = "tool" /\ approval.command = command
            /\ env.server = env.shell /\ Meant(line) = Meant(approval.line)
            /\ FromPlan(line, approval.argv)
        <4> HIDE DEF refusal
        <4> QED
          BY <1>1, <2>1, <2>2, <2>4 DEF Misunderstood
      <3> HIDE DEF one
      <3>2. passes /\ Mismatch(command, one.argv, Store(env.shell, one.settings)) = "argv_mismatch"
        BY <3>1 DEF Refusal
      <3>3. approval.status # "none" /\ approval.argv # one.argv
        BY <3>2 DEF Mismatch, Approved, WriteInv, OneWrite
      <3>4. /\ command \in Tools /\ DOMAIN approval.line \subseteq ToolParams(command)
            /\ ShownBy(command, approval.line, approval.argv)
        BY <3>1, <3>3 DEF ToolPlan
      <3>5. WellFormed(command, line)
        BY WellFormedLines DEF EffectInv
      <3>6. one.argv = approval.argv
        BY <1>1, <2>4, <3>1, <3>2, <3>4, <3>5, ListsAgree DEF one
      <3> QED
        BY <3>3, <3>6
    <2>5. SpelledOutPlansAgree'
      <3> HIDE DEF refusal
      <3> QED
        BY <2>2, <2>4 DEF SpelledOutPlansAgree
    <2> QED
      BY <2>3, <2>5
  <1> QED
    BY <1>2, <1>3

PlansInv == ToolPlan /\ SpelledOutPlansAgree

LEMMA PlansInvKept ==
    WriteInv /\ EffectInv /\ PlansInv /\ [CommandsNext]_commandVars => PlansInv'
  <1> SUFFICES ASSUME WriteInv, EffectInv, ToolPlan, SpelledOutPlansAgree,
                      [CommandsNext]_commandVars
               PROVE  ToolPlan' /\ SpelledOutPlansAgree'
    BY DEF PlansInv
  <1>1. CASE ToolShows
    <2>1. PICK tool \in Tools : \E line :
            DOMAIN line \subseteq ToolParams(tool) /\ Shows("tool", tool, line, DryRunOf(tool, line))
      BY <1>1 DEF ToolShows
    <2>2. PICK line :
            DOMAIN line \subseteq ToolParams(tool) /\ Shows("tool", tool, line, DryRunOf(tool, line))
      BY <2>1
    <2>3. DryRunOf(tool, line).ok
      BY <2>2 DEF Shows
    <2>4. ShownBy(tool, line, DryRunOf(tool, line).argv)
      BY <2>2, <2>3, ToolShown
    <2> QED
      BY <2>2, <2>4, ShowsKeepsPlans
  <1>2. CASE CatchupPlanShows \/ HealShows \/ HealContinueShows \/ OperatorWrites \/ PreviewBackfill
    <2>1. PICK surface, command, line, preview :
            /\ Shows(surface, command, line, preview)
            /\ surface \in {"shell", "heal"} \/ command = "backfill"
      BY <1>2 DEF CatchupPlanShows, HealShows, HealContinueShows, OperatorWrites, PreviewBackfill
    <2> QED
      BY <2>1, ShowsKeepsPlans
  <1>3. CASE (\E flags \in Lines["approve"] : Approve(flags)) \/ ApprovalExpires
    <2>1. PICK flags : Approve(flags) \/ ApprovalExpires
      BY <1>3
    <2>2. approval.status # "none" /\ UNCHANGED <<env, call>>
      BY <2>1 DEF Approve, ApprovalExpires
    <2>3. SameApproval
      BY <2>1, ApproveSame
    <2> QED
      BY <2>2, <2>3, ToolPlanKept, AgreementKept
  <1>4. CASE \E command \in Commands \ {"backfill"} : \E line \in Lines[command] :
               Runs(command, line)
    BY <1>4, RunsKeepsPlans DEF Runs
  <1>5. CASE ClearLockTask
    BY <1>5, RunsKeepsPlans DEF ClearLockTask
  <1>6. CASE PruneTask \/ BackfillTask
    <2>1. PICK command, line, argv, effect : TaskStarts(command, line, argv, effect)
      BY <1>6 DEF PruneTask, BackfillTask
    <2>2. UNCHANGED <<env, approval>> /\ (call'.pc = "working" \/ call'.surface = "task")
      BY <2>1 DEF TaskStarts
    <2> QED
      BY <2>2, ToolPlanKept DEF SpelledOutPlansAgree, Misunderstood
  <1>7. CASE Work
    <2>1. /\ UNCHANGED env /\ call'.pc = "idle" /\ call.pc = "working"
          /\ approval' = IF call.under THEN [approval EXCEPT !.status = "consumed"] ELSE approval
      BY <1>7 DEF Work, Idle
    <2>2. UNCHANGED approval \/ (approval.status # "none" /\ SameApproval)
      BY <2>1, StatusOnly DEF WriteInv, AtWork, EffectInv
    <2> QED
      BY <2>1, <2>2, ToolPlanKept DEF SpelledOutPlansAgree, Misunderstood
  <1>8. CASE Fail
    BY <1>8, ToolPlanKept DEF Fail, Idle, SpelledOutPlansAgree, Misunderstood
  <1>9. CASE LoadLands \/ Tick \/ UNCHANGED commandVars
    BY <1>9, ToolPlanKept, AgreementKept DEF LoadLands, Tick, commandVars
  <1> QED
    BY <1>1, <1>2, <1>3, <1>4, <1>5, <1>6, <1>7, <1>8, <1>9 DEF CommandsNext

\* Whatever the environments and the flags: once its end of the interval is
\* given, a command that means what a tool showed builds the list that the
\* tool showed, so that the approval is not refused for it.  Migrate and the
\* Airflow tasks are the exceptions.
THEOREM ToolsPlansAgree == CommandsSpec => []SpelledOutPlansAgree
  <1>1. CommandsInit => WriteInv /\ EffectInv
    BY WriteInvInit, EffectInvInit
  <1>2. CommandsInit => PlansInv
    BY DEF CommandsInit, PlansInv, ToolPlan, SpelledOutPlansAgree, Misunderstood, NoApproval, Idle
  <1>3. PlansInv => SpelledOutPlansAgree
    BY DEF PlansInv
  <1> QED
    BY <1>1, <1>2, <1>3, WriteInvKept, EffectInvKept, PlansInvKept, PTL DEF CommandsSpec
=============================================================================
