--------------------------- MODULE OpsTableProofs ---------------------------
(***************************************************************************)
(* Proofs about OpsTable, for any materializers, attempts, errors,         *)
(* policies and deployments: what the table ops.run_receipts holds, and    *)
(* what the tests over it may conclude.                                    *)
(***************************************************************************)
EXTENDS OpsTable, FiniteSetTheorems, WellFoundedInduction, TLAPS

-----------------------------------------------------------------------------
(* Facts about numbers and bags.                                           *)

\* A set of integers that has a lower bound has a least element.
LEMMA LeastExists ==
    ASSUME NEW S \in SUBSET Int, NEW low \in Int, S # {}, \A n \in S : low <= n
    PROVE  \E n \in S : \A k \in S : n <= k
  <1> DEFINE T == {n - low : n \in S}
  <1>1. T \in SUBSET Nat /\ T # {}
    <2>1. PICK n \in S : TRUE
      OBVIOUS
    <2>2. n - low \in T
      BY <2>1
    <2>3. T \in SUBSET Nat
      OBVIOUS
    <2> QED
      BY <2>2, <2>3
  <1>2. PICK x \in T : \A y \in T : ~(<<y, x>> \in OpToRel(<, Nat))
    BY <1>1, NatLessThanWellFounded, WFMin
  <1>3. \A y \in T : ~(y < x)
    BY <1>1, <1>2 DEF OpToRel
  <1>4. PICK n \in S : x = n - low
    OBVIOUS
  <1>5. \A k \in S : n <= k
    <2> TAKE k \in S
    <2>1. ~(k - low < x)
      BY <1>3
    <2> QED
      BY <2>1, <1>4
  <1>6. QED
    BY <1>4, <1>5

LEMMA UnionOfDisjoint ==
    ASSUME NEW S, NEW T, S \cap T = {}
    PROVE  SetToBag(S) (+) SetToBag(T) = SetToBag(S \cup T)
  BY DEF SetToBag, (+)

-----------------------------------------------------------------------------
(* The invariant.                                                          *)

Ended == {id \in DOMAIN attempt : attempt[id].body # None}

Outcome(id) == Raised(attempt[id].body, attempt[id].release)

\* The receipt that an attempt has left, if it could be written.
ReceiptOf(id) == Payload(attempt[id], Outcome(id))

Written == {ReceiptOf(id) : id \in Ended}

Ends == {{}} \cup Errors

Releases == {{}, Instances("OSError")}

Attempt == [id : Nat, what : Attempted, started : Nat, body : Ends \cup {None}, release : Releases]

AttemptInv ==
    /\ clock \in Nat
    /\ attempt \in Seq(Attempt)
    /\ \A id \in DOMAIN attempt : attempt[id].id = id
    /\ log \subseteq Written

\* A table has each of its rows once, each is a receipt that was written,
\* and one that was never committed to has none.
Bag(written) == {SetToBag(S) : S \in SUBSET written}

Table(written) ==
    [rows : Bag(written), columns : {"all", "older", "other"}, partitioned : BOOLEAN,
     snapshot : BOOLEAN]

Sound(table, written) ==
    table \in Table(written) /\ (~table.snapshot => DOMAIN table.rows = {})

Pointer == {"hint", "metastore", "external"}

TableInv ==
    /\ tables = [p \in Pointer |-> tables[p]]
    /\ \A p \in Pointer : tables[p] # None => Sound(tables[p], Written)

Place ==
    {"idle", "ensure", "create", "evolve", "evolve hint", "load", "replace", "hint"}

Job(written) ==
    [pc : Place, window : SUBSET Int, days : SUBSET Int, scan : SUBSET written,
     began : Int, logged : SUBSET written, base : Table(written), alone : BOOLEAN]

SoundJob(j, written) ==
    /\ j \in Job(written)
    /\ j.days \subseteq j.window
    /\ j.scan \subseteq j.logged
    /\ \E low \in Int : \A day \in j.window : low <= day
    /\ j.pc = "hint" => j.days # {}
    /\ Sound(j.base, written)

JobInv ==
    /\ job = [m \in Materializer |-> job[m]]
    /\ \A m \in Materializer : SoundJob(job[m], Written)

DataInv == AttemptInv /\ TableInv /\ JobInv

\* The rows of a day in the table that the catalog shows.
RowsOf(day) == {r \in DOMAIN tables[Current].rows : AttemptDate(r) = day}

\* The days that a materialisation covers that begins on a day.
Span(m, day) == IF m = Airflow THEN {day - 1} ELSE day + 1 - WindowDays .. day

\* What a materialisation relies on while no other has moved the pointer:
\* its base is the table; the days that it has left behind are as it has
\* scanned them; and what the table has was in the log at its scan, if
\* the log still has it.
Relies(m) ==
    /\ job[m].window = Span(m, job[m].began)
    /\ job[m].pc \in {"ensure", "create"} => job[m].days = job[m].window
    /\ job[m].pc = "create" => tables[Current] = None
    /\ job[m].pc \in {"evolve", "evolve hint", "replace", "hint"} =>
         job[m].base = tables[Current] /\ tables[Current] # None
    /\ \A day \in job[m].window \ job[m].days : RowsOf(day) = OfDay(m, day)
    /\ tables[Current] # None =>
         \A r \in DOMAIN tables[Current].rows : r \in log => r \in job[m].logged

AloneInv == \A m \in Materializer : Running(m) /\ job[m].alone => Relies(m)

\* Whoever is fresh has the table that the catalog shows in its hands.
FreshInv ==
    \A m \in fresh :
      /\ m \in Materializer /\ job[m].pc \in {"evolve", "evolve hint", "replace", "hint"}
      /\ tables[Current] # None /\ job[m].base = tables[Current]

IInv == DataInv /\ AloneInv /\ FreshInv

-----------------------------------------------------------------------------
(* Attempts and their receipts.                                            *)

LEMMA EndsSaySo == None \notin Ends
  BY OpsConstants DEF Ends

LEMMA AttemptTyped ==
    ASSUME AttemptInv, NEW id \in DOMAIN attempt
    PROVE  attempt[id] \in Attempt /\ attempt[id].id = id
  <1>1. attempt \in Seq(Attempt) /\ attempt[id].id = id
    BY DEF AttemptInv
  <1>2. QED
    BY <1>1

LEMMA BeginKeeps ==
    ASSUME AttemptInv, NEW what \in Attempted, Begin(what)
    PROVE  AttemptInv' /\ Written \subseteq Written' /\ log' = log
  <1> DEFINE new == [id |-> Len(attempt) + 1, what |-> what, started |-> clock,
                     body |-> None, release |-> {}]
  <1>1. attempt' = Append(attempt, new) /\ clock' = clock /\ log' = log
    BY DEF Begin
  <1>2. attempt \in Seq(Attempt) /\ new \in Attempt
    BY DEF AttemptInv, Releases, Attempt
  <1>3. attempt' \in Seq(Attempt)
    BY <1>1, <1>2
  <1>4. /\ DOMAIN attempt = 1 .. Len(attempt) /\ DOMAIN attempt' = 1 .. Len(attempt) + 1
        /\ Len(attempt) \in Nat
        /\ \A id \in DOMAIN attempt : attempt'[id] = attempt[id]
        /\ attempt'[Len(attempt) + 1] = new
    BY <1>1, <1>2
  <1>5. \A id \in DOMAIN attempt' : attempt'[id].id = id
    BY <1>4 DEF AttemptInv
  <1>6. Written \subseteq Written'
    BY <1>4 DEF Written, Ended, ReceiptOf, Outcome
  <1>7. QED
    BY <1>1, <1>3, <1>5, <1>6 DEF AttemptInv

\* What an attempt that ends says is what its receipt says.
LEMMA EndReports ==
    ASSUME AttemptInv, NEW id \in DOMAIN attempt, End(id)
    PROVE  /\ AttemptInv'
           /\ Written \subseteq Written'
           /\ \A r \in log' \ log : r.id \notin Ended
  <1>1. PICK body \in Ends, release \in Releases :
          /\ attempt' = [attempt EXCEPT ![id].body = body, ![id].release = release]
          /\ log' = log \cup {Payload(attempt[id], Raised(body, release))}
    BY DEF End, Ends, Releases
  <1>2. attempt \in Seq(Attempt) /\ attempt[id] \in Attempt /\ attempt[id].body = None
    BY AttemptTyped DEF AttemptInv, End
  <1>3. body # None
    BY EndsSaySo
  <1>5. /\ attempt' \in Seq(Attempt)
        /\ DOMAIN attempt' = DOMAIN attempt
        /\ \A i \in DOMAIN attempt \ {id} : attempt'[i] = attempt[i]
        /\ attempt'[id] = [attempt[id] EXCEPT !.body = body, !.release = release]
    <2>1. [attempt[id] EXCEPT !.body = body, !.release = release] \in Attempt
      BY <1>2 DEF Attempt
    <2>2. attempt' =
            [attempt EXCEPT ![id] = [attempt[id] EXCEPT !.body = body, !.release = release]]
      BY <1>1, <1>2
    <2> DEFINE ended == [attempt[id] EXCEPT !.body = body, !.release = release]
    <2>3. ended \in Attempt /\ attempt' = [attempt EXCEPT ![id] = ended]
      BY <2>1, <2>2
    <2> HIDE DEF ended
    <2>4. /\ attempt' \in Seq(Attempt)
          /\ DOMAIN attempt' = DOMAIN attempt
          /\ \A i \in DOMAIN attempt \ {id} : attempt'[i] = attempt[i]
          /\ attempt'[id] = ended
      BY <1>2, <2>3
    <2> QED
      BY <2>4 DEF ended
  <1>6. \A i \in DOMAIN attempt' : attempt'[i].id = i
    BY <1>2, <1>5, AttemptTyped DEF Attempt
  <1>7. Written \subseteq Written'
    <2>1. ASSUME NEW i \in Ended PROVE i \in Ended' /\ ReceiptOf(i)' = ReceiptOf(i)
      <3>1. i \in DOMAIN attempt \ {id} /\ attempt'[i] = attempt[i]
        BY <2>1, <1>2, <1>5 DEF Ended
      <3> QED
        BY <2>1, <3>1, <1>5 DEF Ended, ReceiptOf, Outcome
    <2> QED
      BY <2>1 DEF Written
  <1>8. Payload(attempt[id], Raised(body, release)) \in Written'
    <2>1. attempt'[id].body = body /\ attempt'[id].release = release /\ id \in Ended'
      BY <1>2, <1>3, <1>5 DEF Ended, Attempt
    <2>2. ReceiptOf(id)' = Payload(attempt[id], Raised(body, release))
      BY <2>1, <1>2, <1>5 DEF ReceiptOf, Outcome, Payload, Attempt
    <2> QED
      BY <2>1, <2>2 DEF Written
  <1>9. \A r \in log' \ log : r.id \notin Ended
    BY <1>1, <1>2, AttemptTyped DEF Payload, Ended
  <1>10. clock' = clock /\ clock' \in Nat /\ log' \subseteq Written'
    BY <1>1, <1>7, <1>8 DEF AttemptInv, End
  <1>11. QED
    BY <1>5, <1>6, <1>7, <1>9, <1>10 DEF AttemptInv

LEMMA AttemptsKept ==
    ASSUME AttemptInv, clock' \in Nat, attempt' = attempt, log' \subseteq log
    PROVE  AttemptInv' /\ Written' = Written
  BY DEF AttemptInv, Written, Ended, ReceiptOf, Outcome

-----------------------------------------------------------------------------
(* Tables.                                                                 *)

LEMMA RowsOnce ==
    ASSUME NEW W, NEW table \in Table(W)
    PROVE  table.rows = SetToBag(DOMAIN table.rows) /\ DOMAIN table.rows \subseteq W
  BY DEF Table, Bag, SetToBag

LEMMA BagsGrow ==
    ASSUME NEW W, NEW V, W \subseteq V PROVE Table(W) \subseteq Table(V)
  <1>1. Bag(W) \subseteq Bag(V)
    BY DEF Bag
  <1>2. QED
    BY <1>1 DEF Table

LEMMA SoundGrows ==
    ASSUME NEW W, NEW V, W \subseteq V, NEW table, Sound(table, W)
    PROVE  Sound(table, V)
  BY BagsGrow DEF Sound

LEMMA NewTableSound == ASSUME NEW W PROVE Sound(NewTable, W) /\ DOMAIN NewTable.rows = {}
  <1>1. EmptyBag \in Bag(W) /\ DOMAIN EmptyBag = {}
    BY DEF Bag, EmptyBag, SetToBag
  <1>2. NewTable \in Table(W)
    BY <1>1 DEF Table, NewTable
  <1>3. NewTable.rows = EmptyBag
    BY DEF NewTable
  <1>4. QED
    BY <1>1, <1>2, <1>3 DEF Sound

\* A replaced day has the rows it was replaced by, the other days theirs.
LEMMA ReplacedRows ==
    ASSUME NEW W, NEW table, Sound(table, W), NEW day, NEW receipts \in SUBSET W,
           \A r \in receipts : AttemptDate(r) = day
    PROVE  /\ Sound(Replaced(table, day, receipts), W)
           /\ DOMAIN Replaced(table, day, receipts).rows =
                {r \in DOMAIN table.rows : AttemptDate(r) # day} \cup receipts
  <1> DEFINE others == {r \in DOMAIN table.rows : AttemptDate(r) # day \/ ~ShouldDelete(table, day)}
             rows == [r \in others |-> table.rows[r]] (+) SetToBag(receipts)
  <1>1. others = {r \in DOMAIN table.rows : AttemptDate(r) # day}
    BY DEF ShouldDelete, Live, Sound, Table
  <1>2. [r \in others |-> table.rows[r]] = SetToBag(others) /\ others \subseteq W
    <2>1. table.rows = SetToBag(DOMAIN table.rows) /\ DOMAIN table.rows \subseteq W
      BY RowsOnce DEF Sound
    <2>2. \A r \in others : table.rows[r] = 1
      BY <2>1 DEF SetToBag
    <2> QED
      BY <2>1, <2>2 DEF SetToBag
  <1>3. rows = SetToBag(others \cup receipts)
    <2>1. others \cap receipts = {}
      BY <1>1
    <2> QED
      BY <1>2, <2>1, UnionOfDisjoint
  <1>4. DOMAIN rows = others \cup receipts
    BY <1>3 DEF SetToBag
  <1>5. rows \in Bag(W)
    BY <1>2, <1>3 DEF Bag
  <1> HIDE DEF rows
  <1>6. Replaced(table, day, receipts) = [table EXCEPT !.rows = rows, !.snapshot = TRUE]
    BY DEF Replaced, rows
  <1> HIDE DEF others
  <1>7. QED
    BY <1>1, <1>4, <1>5, <1>6 DEF Sound, Table

LEMMA EvolvedSound ==
    ASSUME NEW W, NEW table, Sound(table, W)
    PROVE  /\ Sound([table EXCEPT !.columns = "all"], W)
           /\ [table EXCEPT !.columns = "all"].rows = table.rows
  <1>1. [table EXCEPT !.columns = "all"] \in Table(W)
    BY DEF Sound, Table
  <1>2. /\ [table EXCEPT !.columns = "all"].rows = table.rows
        /\ [table EXCEPT !.columns = "all"].snapshot = table.snapshot
    BY DEF Sound, Table
  <1>3. QED
    BY <1>1, <1>2 DEF Sound

-----------------------------------------------------------------------------
(* Materialisations.                                                       *)

LEMMA IdleJobSound == ASSUME NEW W PROVE SoundJob(IdleJob, W)
  <1>1. NewTable \in Table(W) /\ Sound(NewTable, W)
    BY NewTableSound DEF Sound
  <1>2. /\ IdleJob.base = NewTable /\ IdleJob.window = {} /\ IdleJob.days = {}
        /\ IdleJob.pc = "idle" /\ IdleJob.scan = {} /\ IdleJob.logged = {}
    BY DEF IdleJob
  <1>3. \E low \in Int : \A day \in IdleJob.window : low <= day
    BY <1>2
  <1>4. IdleJob \in Job(W)
    BY <1>1 DEF IdleJob, Job, Place
  <1>5. QED
    BY <1>1, <1>2, <1>3, <1>4 DEF SoundJob

LEMMA JobGrows ==
    ASSUME NEW W, NEW V, W \subseteq V, NEW j, SoundJob(j, W)
    PROVE  SoundJob(j, V)
  BY SoundGrows, BagsGrow DEF SoundJob, Job

\* One job goes on, the others stay as they are.
LEMMA OneJob ==
    ASSUME JobInv, Written \subseteq Written', NEW m \in Materializer, NEW j,
           SoundJob(j, Written'), job' = [job EXCEPT ![m] = j]
    PROVE  /\ JobInv'
           /\ job'[m] = j
           /\ \A n \in Materializer \ {m} : job'[n] = job[n]
  <1>1. job' = [n \in Materializer |-> IF n = m THEN j ELSE job[n]]
    BY DEF JobInv
  <1>2. \A n \in Materializer : SoundJob(job'[n], Written')
    BY <1>1, JobGrows DEF JobInv
  <1>3. QED
    BY <1>1, <1>2 DEF JobInv

LEMMA NotAloneSound ==
    ASSUME NEW W, NEW j, SoundJob(j, W)
    PROVE  SoundJob([j EXCEPT !.alone = FALSE], W) /\ ~[j EXCEPT !.alone = FALSE].alone
  BY DEF SoundJob, Job

\* One job goes on and the others are not alone any more.
LEMMA OneJobMoves ==
    ASSUME JobInv, Written \subseteq Written', NEW m \in Materializer, NEW j,
           SoundJob(j, Written'),
           job' = [n \in Materializer |-> IF n = m THEN j ELSE [job[n] EXCEPT !.alone = FALSE]]
    PROVE  /\ JobInv'
           /\ job'[m] = j
           /\ \A n \in Materializer \ {m} : ~job'[n].alone
  <1>1. \A n \in Materializer : SoundJob(job[n], Written')
    BY JobGrows DEF JobInv
  <1>2. /\ job'[m] = j
        /\ \A n \in Materializer \ {m} : job'[n] = [job[n] EXCEPT !.alone = FALSE]
    OBVIOUS
  <1>3. \A n \in Materializer : SoundJob(job'[n], Written')
    BY <1>1, <1>2, NotAloneSound
  <1>4. \A n \in Materializer \ {m} : ~job'[n].alone
    BY <1>1, <1>2, NotAloneSound
  <1>5. QED
    BY <1>2, <1>3, <1>4 DEF JobInv

LEMMA WindowTyped ==
    ASSUME AttemptInv, NEW since \in Int \cup {None}, NEW until \in Int \cup {None}
    PROVE  /\ AttemptWindow(since, until) \subseteq Int
           /\ \E low \in Int : \A day \in AttemptWindow(since, until) : low <= day
  <1>1. Today \in Int
    BY DEF AttemptInv, Today, Day
  <1>2. First(until, Today + 1) \in Int
    BY <1>1 DEF First
  <1>3. First(since, First(until, Today + 1) - WindowDays) \in Int
    BY <1>2, ReceiptConstants DEF First
  <1> DEFINE end == First(until, Today + 1)
             start == First(since, end - WindowDays)
  <1>4. AttemptWindow(since, until) = start .. end - 1
    BY DEF AttemptWindow
  <1> HIDE DEF start, end
  <1>5. start \in Int /\ end \in Int
    BY <1>2, <1>3 DEF start, end
  <1>6. QED
    BY <1>4, <1>5

\* What a step writes of one day, or with the columns that it has added.
LEMMA StagedSound ==
    ASSUME NEW m \in Materializer, SoundJob(job[m], Written)
    PROVE  /\ Sound(Staged(m), Written)
           /\ job[m].pc \in {"evolve", "evolve hint"} => Staged(m).rows = job[m].base.rows
           /\ job[m].pc \notin {"evolve", "evolve hint"} =>
                DOMAIN Staged(m).rows =
                  {r \in DOMAIN job[m].base.rows : AttemptDate(r) # NextDay(m)}
                    \cup OfDay(m, NextDay(m))
  <1>1. Sound(job[m].base, Written)
    BY DEF SoundJob
  <1>2. OfDay(m, NextDay(m)) \in SUBSET Written
    BY DEF SoundJob, Job, OfDay
  <1>3. \A r \in OfDay(m, NextDay(m)) : AttemptDate(r) = NextDay(m)
    BY DEF OfDay
  <1>4. CASE job[m].pc \in {"evolve", "evolve hint"}
    BY <1>1, <1>4, EvolvedSound DEF Staged
  <1>5. CASE job[m].pc \notin {"evolve", "evolve hint"}
    <2>1. Staged(m) = Replaced(job[m].base, NextDay(m), OfDay(m, NextDay(m)))
      BY <1>5 DEF Staged
    <2> DEFINE base == job[m].base
               day == NextDay(m)
               receipts == OfDay(m, day)
    <2> HIDE DEF base, day, receipts
    <2>2. Sound(base, Written) /\ receipts \in SUBSET Written
      BY <1>1, <1>2 DEF base, day, receipts
    <2>3. \A r \in receipts : AttemptDate(r) = day
      BY <1>3 DEF day, receipts
    <2>4. /\ Sound(Replaced(base, day, receipts), Written)
          /\ DOMAIN Replaced(base, day, receipts).rows =
               {r \in DOMAIN base.rows : AttemptDate(r) # day} \cup receipts
      BY <2>2, <2>3, ReplacedRows
    <2> QED
      BY <1>5, <2>1, <2>4 DEF base, day, receipts
  <1>6. QED
    BY <1>4, <1>5

LEMMA NextDayIsLeft ==
    ASSUME NEW m \in Materializer, SoundJob(job[m], Written), job[m].days # {}
    PROVE  NextDay(m) \in job[m].days
  <1>1. job[m].days \in SUBSET Int /\ \E low \in Int : \A day \in job[m].days : low <= day
    BY DEF SoundJob, Job
  <1>2. \E day \in job[m].days : \A d \in job[m].days : day <= d
    BY <1>1, LeastExists
  <1>3. QED
    BY <1>2 DEF NextDay

LEMMA GotoSound ==
    ASSUME NEW W, NEW j, SoundJob(j, W), NEW pc \in Place, pc = "hint" => j.days # {}
    PROVE  SoundJob([j EXCEPT !.pc = pc], W)
  BY DEF SoundJob, Job

LEMMA EvolvingSound ==
    ASSUME NEW W, NEW j, SoundJob(j, W), NEW table, Sound(table, W)
    PROVE  SoundJob([j EXCEPT !.pc = "evolve", !.base = table], W)
  BY DEF SoundJob, Job, Place, Sound

\* Days that have nothing to do have neither rows nor receipts.
LEMMA ReplacingSound ==
    ASSUME NEW W, NEW m \in Materializer, SoundJob(job[m], W), NEW table, Sound(table, W)
    PROVE  /\ SoundJob(Replacing(m, table), W)
           /\ Replacing(m, table).pc = "replace"
           /\ Replacing(m, table).base = table
           /\ Replacing(m, table).window = job[m].window
           /\ Replacing(m, table).scan = job[m].scan
           /\ Replacing(m, table).began = job[m].began
           /\ Replacing(m, table).logged = job[m].logged
           /\ Replacing(m, table).alone = job[m].alone
           /\ \A day \in job[m].days \ Replacing(m, table).days :
                NothingToDo(table, day, OfDay(m, day))
  <1>1. DaysLeft(m, table) \subseteq job[m].days
    BY DEF DaysLeft
  <1>2. \A day \in job[m].days : day <= day
    BY DEF SoundJob, Job
  <1>3. \A day \in job[m].days \ DaysLeft(m, table) : NothingToDo(table, day, OfDay(m, day))
    BY <1>2 DEF DaysLeft
  <1>4. Replacing(m, table) =
          [job[m] EXCEPT !.pc = "replace", !.base = table, !.days = DaysLeft(m, table)]
    BY DEF Replacing
  <1>5. QED
    BY <1>1, <1>3, <1>4 DEF SoundJob, Job, Place, Sound

LEMMA NothingToDoMeans ==
    ASSUME NEW W, NEW table, Sound(table, W), NEW day, NEW receipts,
           NothingToDo(table, day, receipts)
    PROVE  receipts = {} /\ \A r \in DOMAIN table.rows : AttemptDate(r) # day
  BY DEF NothingToDo, ShouldDelete, Live, Sound, Table

LEMMA CommittedSound ==
    ASSUME NEW W, NEW m \in Materializer, SoundJob(job[m], W)
    PROVE  /\ SoundJob(Committed(m), W)
           /\ Committed(m).pc = "load"
           /\ Committed(m).window = job[m].window
           /\ Committed(m).scan = job[m].scan
           /\ Committed(m).began = job[m].began
           /\ Committed(m).logged = job[m].logged
           /\ Committed(m).alone = job[m].alone
           /\ Committed(m).days = IF job[m].pc \in {"evolve", "evolve hint"} THEN job[m].days
                                  ELSE job[m].days \ {NextDay(m)}
  <1> DEFINE days == IF job[m].pc \in {"evolve", "evolve hint"} THEN job[m].days
                     ELSE job[m].days \ {NextDay(m)}
  <1>1. Committed(m) = [job[m] EXCEPT !.pc = "load", !.base = NewTable, !.days = days]
    BY DEF Committed, SoundJob, Job
  <1>2. days \subseteq job[m].days
    OBVIOUS
  <1> HIDE DEF days
  <1>3. Sound(NewTable, W)
    BY NewTableSound
  <1>4. /\ SoundJob(Committed(m), W)
        /\ Committed(m).pc = "load"
        /\ Committed(m).window = job[m].window
        /\ Committed(m).scan = job[m].scan
        /\ Committed(m).began = job[m].began
        /\ Committed(m).logged = job[m].logged
        /\ Committed(m).alone = job[m].alone
        /\ Committed(m).days = days
    BY <1>1, <1>2, <1>3 DEF SoundJob, Job, Place, Sound
  <1>5. QED
    BY <1>4 DEF days

LEMMA PointerMoves ==
    ASSUME TableInv, Written' = Written, NEW p \in Pointer, NEW table, Sound(table, Written),
           tables' = [tables EXCEPT ![p] = table]
    PROVE  TableInv' /\ tables'[p] = table /\ \A q \in Pointer \ {p} : tables'[q] = tables[q]
  BY DEF TableInv

LEMMA CurrentIsPointer == Current \in {"hint", "metastore"} /\ Current \in Pointer
  BY DEF Current, Pointer

-----------------------------------------------------------------------------
(* Every step keeps the data sound.                                        *)

\* A step of one materialisation changes no attempt, and nobody else's job
\* except that it may end its being alone.
Apart == <<clock, attempts, deployment>>

LEMMA RestKeeps ==
    ASSUME AttemptInv, Apart' = Apart
    PROVE  /\ AttemptInv' /\ Written' = Written
           /\ clock' = clock /\ log' = log /\ deployment' = deployment
  <1>1. clock' = clock /\ attempt' = attempt /\ log' = log /\ deployment' = deployment
    BY DEF Apart, attempts
  <1>2. clock' \in Nat /\ log' \subseteq log
    BY <1>1 DEF AttemptInv
  <1>3. QED
    BY <1>1, <1>2, AttemptsKept

LEMMA StopKeeps ==
    ASSUME JobInv, Written' = Written, NEW m \in Materializer, Stop(m)
    PROVE  JobInv' /\ job'[m] = IdleJob /\ \A n \in Materializer \ {m} : job'[n] = job[n]
  <1>1. SoundJob(IdleJob, Written')
    BY IdleJobSound
  <1>2. QED
    BY <1>1, OneJob DEF Stop

LEMMA PointKeeps ==
    ASSUME TableInv, JobInv, Written' = Written, NEW m \in Materializer,
           NEW table, Sound(table, Written), NEW j, SoundJob(j, Written), NEW holders,
           Point(m, table, j, holders)
    PROVE  /\ TableInv' /\ JobInv'
           /\ tables'[Current] = table
           /\ \A q \in Pointer \ {Current} : tables'[q] = tables[q]
           /\ job'[m] = j
           /\ \A n \in Materializer \ {m} : ~job'[n].alone
  BY PointerMoves, CurrentIsPointer, OneJobMoves DEF Point

\* What Scan does to the job.
ScanStarts(m, days, unread) ==
    [pc |-> "ensure", window |-> days, days |-> days, scan |-> IterReceipts(days, unread),
     began |-> Today, logged |-> log,
     base |-> NewTable, alone |-> \A n \in Materializer \ {m} : ~Running(n)]

LEMMA ScanKeeps ==
    ASSUME DataInv, NEW m \in Materializer, NEW since \in Int \cup {None},
           NEW until \in Int \cup {None}, Scan(m, since, until)
    PROVE  /\ DataInv'
           /\ \E unread : job'[m] = ScanStarts(m, AttemptWindow(since, until), unread)
           /\ \A n \in Materializer \ {m} : job'[n] = job[n]
           /\ tables' = tables /\ log' = log /\ Written' = Written /\ deployment' = deployment
  <1> DEFINE days == AttemptWindow(since, until)
  <1>0. PICK unread : job' = [job EXCEPT ![m] = ScanStarts(m, days, unread)]
    BY DEF Scan, ScanStarts
  <1> DEFINE j == ScanStarts(m, days, unread)
  <1>1. job' = [job EXCEPT ![m] = j] /\ tables' = tables /\ Apart' = Apart
    BY <1>0 DEF Scan, Rest, Apart
  <1>2. AttemptInv' /\ Written' = Written /\ log' = log /\ deployment' = deployment
    BY <1>1, RestKeeps DEF DataInv
  <1>3. days \subseteq Int /\ \E low \in Int : \A day \in days : low <= day
    BY WindowTyped DEF DataInv
  <1>4. IterReceipts(days, unread) \subseteq log /\ log \subseteq Written /\ Today \in Int
    BY DEF DataInv, AttemptInv, IterReceipts, Today, Day
  <1>5. (\A n \in Materializer \ {m} : ~Running(n)) \in BOOLEAN
    OBVIOUS
  <1>6. Sound(NewTable, Written) /\ NewTable \in Table(Written)
    BY NewTableSound DEF Sound
  <1> HIDE DEF days
  <1>7. j \in Job(Written)
    BY <1>3, <1>4, <1>5, <1>6 DEF ScanStarts, Job, Place
  <1>8. SoundJob(j, Written)
    BY <1>3, <1>4, <1>6, <1>7 DEF SoundJob, ScanStarts
  <1> HIDE DEF j
  <1>9. /\ JobInv' /\ job'[m] = j
        /\ \A n \in Materializer \ {m} : job'[n] = job[n]
    BY <1>1, <1>2, <1>8, OneJob DEF DataInv
  <1>10. TableInv'
    BY <1>1, <1>2 DEF DataInv, TableInv
  <1>11. QED
    BY <1>1, <1>2, <1>9, <1>10 DEF DataInv, j, days

\* The steps that leave the pointer where it is.
Stays(m) ==
    /\ tables' = tables
    /\ \A n \in Materializer \ {m} : job'[n] = job[n]
    /\ \/ job'[m] = IdleJob
       \/ Running(m) /\ tables[Current] # None /\ job'[m] = Replacing(m, tables[Current])
       \/ /\ job[m].pc = "ensure" /\ tables[Current] # None
          /\ job'[m] = [job[m] EXCEPT !.pc = "evolve", !.base = tables[Current]]
       \/ job[m].pc = "ensure" /\ tables[Current] = None /\ job'[m] = [job[m] EXCEPT !.pc = "create"]
       \/ job[m].pc = "evolve" /\ job'[m] = [job[m] EXCEPT !.pc = "evolve hint"]
       \/ job[m].pc = "replace" /\ job[m].days # {} /\ job'[m] = [job[m] EXCEPT !.pc = "hint"]

\* Where a job can commit what it has staged.
Staging(m) ==
    job[m].pc \in {"evolve", "evolve hint"} \/ (job[m].pc \in {"replace", "hint"} /\ job[m].days # {})

\* The steps that point the catalog at another table.
Swaps(m) ==
    /\ \A q \in Pointer \ {Current} : tables'[q] = tables[q]
    /\ \A n \in Materializer \ {m} : ~job'[n].alone
    /\ \/ /\ job[m].pc = "create" /\ tables'[Current] = NewTable /\ job'[m] = Replacing(m, NewTable)
          /\ tables[Current] = None \/ Overwrites(m)
       \/ /\ Staging(m) /\ tables'[Current] = Staged(m) /\ job'[m] = Committed(m)
          /\ m \in fresh \/ Overwrites(m)

Kept ==
    /\ DataInv' /\ Written' = Written
    /\ clock' = clock /\ log' = log /\ deployment' = deployment

LEMMA StopStays ==
    ASSUME DataInv, Apart' = Apart, tables' = tables, NEW m \in Materializer, Stop(m)
    PROVE  Kept /\ Stays(m)
  <1>1. /\ AttemptInv' /\ Written' = Written
        /\ clock' = clock /\ log' = log /\ deployment' = deployment
    BY RestKeeps DEF DataInv
  <1>2. JobInv' /\ job'[m] = IdleJob /\ \A n \in Materializer \ {m} : job'[n] = job[n]
    BY <1>1, StopKeeps DEF DataInv
  <1>3. TableInv'
    BY <1>1 DEF DataInv, TableInv
  <1>4. QED
    BY <1>1, <1>2, <1>3 DEF Kept, DataInv, Stays

LEMMA JobStays ==
    ASSUME DataInv, Apart' = Apart, tables' = tables, NEW m \in Materializer, NEW j,
           SoundJob(j, Written), job' = [job EXCEPT ![m] = j]
    PROVE  Kept /\ job'[m] = j /\ \A n \in Materializer \ {m} : job'[n] = job[n]
  <1>1. /\ AttemptInv' /\ Written' = Written
        /\ clock' = clock /\ log' = log /\ deployment' = deployment
    BY RestKeeps DEF DataInv
  <1>2. JobInv' /\ job'[m] = j /\ \A n \in Materializer \ {m} : job'[n] = job[n]
    BY <1>1, OneJob DEF DataInv
  <1>3. TableInv'
    BY <1>1 DEF DataInv, TableInv
  <1>4. QED
    BY <1>1, <1>2, <1>3 DEF Kept, DataInv

LEMMA GotoStays ==
    ASSUME DataInv, Apart' = Apart, tables' = tables, NEW m \in Materializer,
           NEW pc \in Place, pc = "hint" => job[m].days # {}, Goto(m, pc)
    PROVE  /\ Kept /\ job'[m] = [job[m] EXCEPT !.pc = pc]
           /\ \A n \in Materializer \ {m} : job'[n] = job[n]
  <1>1. job' = [job EXCEPT ![m] = [job[m] EXCEPT !.pc = pc]]
    BY DEF Goto
  <1>2. SoundJob([job[m] EXCEPT !.pc = pc], Written)
    BY GotoSound DEF DataInv, JobInv
  <1>3. QED
    BY <1>1, <1>2, JobStays

LEMMA PointSwaps ==
    ASSUME DataInv, Apart' = Apart, NEW m \in Materializer, NEW table, Sound(table, Written),
           NEW j, SoundJob(j, Written), NEW holders, Point(m, table, j, holders)
    PROVE  /\ Kept
           /\ \A q \in Pointer \ {Current} : tables'[q] = tables[q]
           /\ \A n \in Materializer \ {m} : ~job'[n].alone
           /\ tables'[Current] = table /\ job'[m] = j
  <1>1. /\ AttemptInv' /\ Written' = Written
        /\ clock' = clock /\ log' = log /\ deployment' = deployment
    BY RestKeeps DEF DataInv
  <1>2. QED
    BY <1>1, PointKeeps DEF DataInv, Kept

LEMMA LoadStays ==
    ASSUME DataInv, NEW m \in Materializer, Load(m) PROVE Kept /\ Stays(m)
  <1> DEFINE table == tables[Current]
             evolving == [job[m] EXCEPT !.pc = "evolve", !.base = table]
  <1>1. Apart' = Apart /\ tables' = tables /\ table # None /\ Running(m)
    BY DEF Load, Rest, Apart, Running
  <1>2. SoundJob(job[m], Written) /\ Sound(table, Written)
    BY <1>1, CurrentIsPointer DEF DataInv, JobInv, TableInv
  <1>3. CASE table.columns = "other"
    BY <1>1, <1>3, StopStays DEF Load
  <1>4. CASE table.columns # "other" /\ job' = [job EXCEPT ![m] = Replacing(m, table)]
    <2>1. SoundJob(Replacing(m, table), Written)
      BY <1>2, ReplacingSound
    <2> QED
      BY <1>1, <1>4, <2>1, JobStays DEF Stays
  <1>5. CASE table.columns # "other" /\ job[m].pc = "ensure" /\ job' = [job EXCEPT ![m] = evolving]
    <2>1. SoundJob(evolving, Written)
      BY <1>2, EvolvingSound
    <2> QED
      BY <1>1, <1>5, <2>1, JobStays DEF Stays
  <1>6. \/ table.columns = "other"
        \/ table.columns # "other" /\ job' = [job EXCEPT ![m] = Replacing(m, table)]
        \/ table.columns # "other" /\ job[m].pc = "ensure" /\ job' = [job EXCEPT ![m] = evolving]
    BY DEF Load
  <1>7. QED
    BY <1>3, <1>4, <1>5, <1>6

LEMMA NoSuchTableStays ==
    ASSUME DataInv, NEW m \in Materializer, NoSuchTable(m) PROVE Kept /\ Stays(m)
  <1>1. /\ Apart' = Apart /\ tables' = tables /\ Goto(m, "create")
        /\ job[m].pc = "ensure" /\ tables[Current] = None
    BY DEF NoSuchTable, Rest, Apart
  <1>2. "create" \in Place
    BY DEF Place
  <1>3. QED
    BY <1>1, <1>2, GotoStays DEF Stays

LEMMA CreateMoves ==
    ASSUME DataInv, NEW m \in Materializer, Create(m) PROVE Kept /\ (Stays(m) \/ Swaps(m))
  <1>1. Apart' = Apart /\ job[m].pc = "create"
    BY DEF Create, Rest, Apart
  <1>2. CASE Stop(m) /\ tables' = tables
    BY <1>1, <1>2, StopStays
  <1>3. CASE /\ Point(m, NewTable, Replacing(m, NewTable), {m})
             /\ ~(deployment.catalog = "rest" /\ tables["metastore"] # None)
    <2>1. Sound(NewTable, Written)
      BY NewTableSound
    <2>2. SoundJob(Replacing(m, NewTable), Written)
      BY <2>1, ReplacingSound DEF DataInv, JobInv
    <2>3. tables[Current] = None \/ Overwrites(m)
      BY <1>1, <1>3 DEF Current, Overwrites
    <2> QED
      BY <1>1, <1>3, <2>1, <2>2, <2>3, PointSwaps DEF Swaps
  <1>4. QED
    BY <1>2, <1>3 DEF Create

LEMMA StagedSwaps ==
    ASSUME DataInv, Apart' = Apart, NEW m \in Materializer, Staging(m),
           m \in fresh \/ Overwrites(m), Point(m, Staged(m), Committed(m), {})
    PROVE  Kept /\ Swaps(m)
  <1>1. SoundJob(job[m], Written)
    BY DEF DataInv, JobInv
  <1>2. Sound(Staged(m), Written) /\ SoundJob(Committed(m), Written)
    BY <1>1, StagedSound, CommittedSound
  <1>3. QED
    BY <1>2, PointSwaps DEF Swaps

LEMMA CommitMoves ==
    ASSUME DataInv, NEW m \in Materializer, Commit(m) PROVE Kept /\ (Stays(m) \/ Swaps(m))
  <1>1. /\ Apart' = Apart
        /\ job[m].pc = "evolve" \/ (job[m].pc = "replace" /\ job[m].days # {})
    BY DEF Commit, Rest, Apart
  <1>2. CASE Stop(m) /\ tables' = tables
    BY <1>1, <1>2, StopStays
  <1>3. CASE m \in fresh /\ Point(m, Staged(m), Committed(m), {})
    BY <1>1, <1>3, StagedSwaps DEF Staging
  <1>4. CASE tables' = tables /\ job[m].pc = "evolve" /\ Goto(m, "evolve hint")
    <2>1. "evolve hint" \in Place
      BY DEF Place
    <2> QED
      BY <1>1, <1>4, <2>1, GotoStays DEF Stays
  <1>5. CASE tables' = tables /\ job[m].pc = "replace" /\ Goto(m, "hint")
    <2>1. "hint" \in Place
      BY DEF Place
    <2> QED
      BY <1>1, <1>5, <2>1, GotoStays DEF Stays
  <1>6. QED
    BY <1>1, <1>2, <1>3, <1>4, <1>5 DEF Commit

LEMMA WriteHintSwaps ==
    ASSUME DataInv, NEW m \in Materializer, WriteHint(m) PROVE Kept /\ Swaps(m)
  <1>1. /\ Apart' = Apart /\ job[m].pc \in {"hint", "evolve hint"}
        /\ Point(m, Staged(m), Committed(m), {})
    BY DEF WriteHint, Rest, Apart
  <1>2. Staging(m)
    BY <1>1 DEF Staging, DataInv, JobInv, SoundJob
  <1>3. m \in fresh \/ Overwrites(m)
    BY <1>1 DEF Overwrites
  <1>4. QED
    BY <1>1, <1>2, <1>3, StagedSwaps

LEMMA MaterializerMoves ==
    ASSUME DataInv, NEW m \in Materializer, Step(m) \/ Kill(m)
    PROVE  Kept /\ (Stays(m) \/ Swaps(m))
  <1>1. CASE Finish(m) \/ Kill(m)
    BY <1>1, StopStays DEF Finish, Kill, Rest, Apart
  <1>2. QED
    BY <1>1, LoadStays, NoSuchTableStays, CreateMoves, CommitMoves, WriteHintSwaps DEF Step

\* An attempt starts or ends, receipts expire, time passes.
LEMMA WorldKeeps ==
    ASSUME DataInv,
           \/ \E what \in Attempted : Begin(what)
           \/ \E id \in DOMAIN attempt : End(id)
           \/ ExpireReceipts \/ Tick
    PROVE  /\ DataInv' /\ Written \subseteq Written'
           /\ pointers' = pointers
           /\ \A r \in log' \ log : r.id \notin Ended
  <1>1. ASSUME NEW what \in Attempted, Begin(what)
        PROVE  /\ AttemptInv' /\ Written \subseteq Written'
               /\ pointers' = pointers /\ \A r \in log' \ log : r.id \notin Ended
    BY <1>1, BeginKeeps DEF Begin, DataInv
  <1>2. ASSUME NEW id \in DOMAIN attempt, End(id)
        PROVE  /\ AttemptInv' /\ Written \subseteq Written'
               /\ pointers' = pointers /\ \A r \in log' \ log : r.id \notin Ended
    BY <1>2, EndReports DEF End, DataInv
  <1>3. ASSUME ExpireReceipts \/ Tick
        PROVE  /\ AttemptInv' /\ Written \subseteq Written'
               /\ pointers' = pointers /\ \A r \in log' \ log : r.id \notin Ended
    <2>1. attempt' = attempt /\ log' \subseteq log /\ pointers' = pointers
      BY <1>3 DEF ExpireReceipts, Tick, attempts
    <2>2. clock' \in Nat
      BY <1>3, OpsConstants DEF ExpireReceipts, Tick, DataInv, AttemptInv
    <2> QED
      BY <2>1, <2>2, AttemptsKept DEF DataInv
  <1>4. /\ AttemptInv' /\ Written \subseteq Written'
        /\ pointers' = pointers /\ \A r \in log' \ log : r.id \notin Ended
    BY <1>1, <1>2, <1>3
  <1>5. tables' = tables /\ job' = job
    BY <1>4 DEF pointers
  <1>6. TableInv'
    BY <1>4, <1>5, SoundGrows DEF DataInv, TableInv
  <1>7. JobInv'
    BY <1>4, <1>5, JobGrows DEF DataInv, JobInv
  <1>8. QED
    BY <1>4, <1>6, <1>7 DEF DataInv

LEMMA MetadataUriSound ==
    ASSUME TableInv, MetadataUri # None PROVE Sound(MetadataUri, Written)
  BY DEF TableInv, MetadataUri, Pointer

LEMMA BigLakeRegisterKeeps ==
    ASSUME DataInv, BigLakeRegister
    PROVE  /\ Kept /\ job' = job
           /\ \A q \in {"hint", "metastore"} : tables'[q] = tables[q]
  <1>1. /\ Apart' = Apart /\ job' = job /\ MetadataUri # None
        /\ tables' = [tables EXCEPT !["external"] = MetadataUri]
    BY DEF BigLakeRegister, Rest, Apart
  <1>2. AttemptInv' /\ Written' = Written /\ clock' = clock /\ log' = log /\ deployment' = deployment
    BY <1>1, RestKeeps DEF DataInv
  <1>3. Sound(MetadataUri, Written) /\ "external" \in Pointer
    BY <1>1, MetadataUriSound DEF DataInv, Pointer
  <1>4. TableInv' /\ \A q \in Pointer \ {"external"} : tables'[q] = tables[q]
    BY <1>1, <1>2, <1>3, PointerMoves DEF DataInv
  <1>5. JobInv'
    BY <1>1, <1>2 DEF DataInv, JobInv
  <1>6. QED
    BY <1>1, <1>2, <1>4, <1>5 DEF DataInv, Kept, Pointer

LEMMA IcebergRegisterKeeps ==
    ASSUME DataInv, IcebergRegister
    PROVE  /\ Kept /\ tables["metastore"] = None
           /\ \A q \in Pointer \ {"metastore"} : tables'[q] = tables[q]
           /\ \A m \in Materializer : ~job'[m].alone
  <1>1. /\ Apart' = Apart /\ MetadataUri # None /\ tables["metastore"] = None
        /\ tables' = [tables EXCEPT !["metastore"] = MetadataUri]
        /\ job' = [m \in Materializer |-> [job[m] EXCEPT !.alone = FALSE]]
    BY DEF IcebergRegister, Rest, Apart
  <1>2. AttemptInv' /\ Written' = Written /\ clock' = clock /\ log' = log /\ deployment' = deployment
    BY <1>1, RestKeeps DEF DataInv
  <1>3. Sound(MetadataUri, Written) /\ "metastore" \in Pointer
    BY <1>1, MetadataUriSound DEF DataInv, Pointer
  <1>4. TableInv' /\ \A q \in Pointer \ {"metastore"} : tables'[q] = tables[q]
    BY <1>1, <1>2, <1>3, PointerMoves DEF DataInv
  <1>5. \A m \in Materializer : SoundJob(job'[m], Written) /\ ~job'[m].alone
    BY <1>1, NotAloneSound DEF DataInv, JobInv
  <1>6. JobInv'
    BY <1>1, <1>2, <1>5 DEF JobInv
  <1>7. QED
    BY <1>1, <1>2, <1>4, <1>5, <1>6 DEF DataInv, Kept

\* The materialisations that a scan begins.
LEMMA ScanStartsJob ==
    ASSUME DataInv,
           \/ \E m \in Materializer : RunsMaterialize(m)
           \/ DailyDag
    PROVE  \E m \in Materializer, since \in Int \cup {None}, until \in Int \cup {None} :
             Scan(m, since, until) /\ AttemptWindow(since, until) = Span(m, Today)
  <1>1. Today - 1 \in Int /\ Today \in Int
    BY DEF DataInv, AttemptInv, Today, Day
  <1>2. ASSUME NEW m \in Materializer, RunsMaterialize(m)
        PROVE  Scan(m, None, None) /\ AttemptWindow(None, None) = Span(m, Today)
    BY <1>1, <1>2, ReceiptConstants DEF RunsMaterialize, AttemptWindow, First, Span
  <1>3. CASE DailyDag
    <2>1. AttemptWindow(Today - 1, Today) = Span(Airflow, Today)
      BY <1>1, ReceiptConstants DEF AttemptWindow, First, Span
    <2> QED
      BY <1>1, <1>3, <2>1, OpsConstants DEF DailyDag
  <1>4. QED
    BY <1>2, <1>3

LEMMA DataKept == DataInv /\ [Next]_vars => DataInv'
  <1> SUFFICES ASSUME DataInv, [Next]_vars PROVE DataInv'
    OBVIOUS
  <1>1. CASE \/ \E what \in Attempted : Begin(what)
             \/ \E id \in DOMAIN attempt : End(id)
             \/ ExpireReceipts \/ Tick
    BY <1>1, WorldKeeps
  <1>2. CASE (\E m \in Materializer : RunsMaterialize(m)) \/ DailyDag
    BY <1>2, ScanStartsJob, ScanKeeps
  <1>3. CASE \E m \in Materializer : Step(m) \/ Kill(m)
    BY <1>3, MaterializerMoves DEF Kept
  <1>4. CASE BigLakeRegister \/ IcebergRegister
    BY <1>4, BigLakeRegisterKeeps, IcebergRegisterKeeps DEF Kept
  <1>5. CASE vars' = vars
    <2>1. /\ clock' = clock /\ log' = log /\ attempt' = attempt /\ tables' = tables /\ job' = job
      BY <1>5 DEF vars
    <2>2. AttemptInv' /\ Written' = Written
      BY <2>1, AttemptsKept DEF DataInv, AttemptInv
    <2>3. TableInv' /\ JobInv'
      BY <2>1, <2>2 DEF DataInv, TableInv, JobInv
    <2> QED
      BY <2>2, <2>3 DEF DataInv
  <1>6. QED
    BY <1>1, <1>2, <1>3, <1>4, <1>5 DEF Next

LEMMA InitData == Init => DataInv
  <1> SUFFICES ASSUME Init PROVE DataInv
    OBVIOUS
  <1>1. /\ clock = 0 /\ log = {} /\ attempt = <<>> /\ deployment \in Deployments
        /\ tables = [hint |-> deployment.table, metastore |-> None, external |-> None]
        /\ job = [m \in Materializer |-> IdleJob]
    BY DEF Init
  <1>2. AttemptInv
    BY <1>1 DEF AttemptInv
  <1>3. TableInv
    <2>1. deployment.table # None =>
            deployment.table \in [rows : {EmptyBag}, columns : {"all", "older", "other"},
                                  partitioned : BOOLEAN, snapshot : {FALSE}]
      BY <1>1, OpsConstants
    <2>2. EmptyBag \in Bag(Written) /\ DOMAIN EmptyBag = {}
      BY DEF Bag, EmptyBag, SetToBag
    <2>3. deployment.table # None => Sound(deployment.table, Written)
      BY <2>1, <2>2 DEF Sound, Table
    <2>4. /\ tables = [p \in Pointer |-> tables[p]]
          /\ tables["hint"] = deployment.table /\ tables["metastore"] = None
          /\ tables["external"] = None
      BY <1>1 DEF Pointer
    <2> QED
      BY <2>3, <2>4 DEF TableInv, Pointer
  <1>4. JobInv
    BY <1>1, IdleJobSound DEF JobInv
  <1>5. QED
    BY <1>2, <1>3, <1>4 DEF DataInv

\* Attempts, tables and jobs are sound: the rows of a table are attempts that
\* were written, none twice, and so are those that a job holds in its hands.
THEOREM DataIsSound == Spec => []DataInv
  BY InitData, DataKept, PTL DEF Spec

\* The table has no attempt twice, and none that left no receipt.
THEOREM AttemptsOnce == Spec => []OneRowPerAttempt
  <1>1. DataInv => OneRowPerAttempt
    <2> SUFFICES ASSUME DataInv, NEW p \in DOMAIN tables, tables[p] # None,
                        NEW r \in DOMAIN tables[p].rows, NEW s \in DOMAIN tables[p].rows
                 PROVE  /\ tables[p].rows[r] = 1 /\ r.id \in DOMAIN attempt
                        /\ r.id = s.id => r = s
      BY DEF OneRowPerAttempt
    <2>1. tables[p] \in Table(Written)
      BY DEF DataInv, TableInv, Sound
    <2>2. tables[p].rows = SetToBag(DOMAIN tables[p].rows) /\ r \in Written /\ s \in Written
      BY <2>1, RowsOnce
    <2>3. \A id \in Ended : ReceiptOf(id).id = id /\ id \in DOMAIN attempt
      BY AttemptTyped DEF DataInv, ReceiptOf, Payload, Ended
    <2> QED
      BY <2>2, <2>3 DEF Written, SetToBag
  <1>2. QED
    BY <1>1, DataIsSound, PTL

-----------------------------------------------------------------------------
(* What a materialisation relies on.                                       *)

\* Nothing happens to a job, or to the table, and no row of the table comes
\* back into the log.
LEMMA RelyKept ==
    ASSUME NEW m \in Materializer, Relies(m), job'[m] = job[m], deployment' = deployment,
           tables'[Current] = tables[Current],
           tables[Current] # None => \A r \in DOMAIN tables[Current].rows : r \in log' => r \in log
    PROVE  Relies(m)'
  <1>1. Current' = Current
    BY DEF Current
  <1>2. \A day : OfDay(m, day)' = OfDay(m, day) /\ RowsOf(day)' = RowsOf(day)
    BY <1>1 DEF OfDay, RowsOf
  <1>3. QED
    BY <1>1, <1>2 DEF Relies

\* What the table has of an attempt that has not ended yet is nothing.
LEMMA NoRowBeforeItsEnd ==
    ASSUME DataInv, \A r \in log' \ log : r.id \notin Ended, NEW p \in Pointer, tables[p] # None
    PROVE  \A r \in DOMAIN tables[p].rows : r \in log' => r \in log
  <1>1. DOMAIN tables[p].rows \subseteq Written
    BY RowsOnce DEF DataInv, TableInv, Sound
  <1>2. \A id \in Ended : ReceiptOf(id).id = id
    BY AttemptTyped DEF DataInv, ReceiptOf, Payload, Ended
  <1>3. QED
    BY <1>1, <1>2 DEF Written

\* The step of a job that leaves the pointer keeps what the job relies on.
LEMMA StayRelies ==
    ASSUME DataInv, NEW m \in Materializer, Kept, Stays(m), Relies(m), Running(m)'
    PROVE  Relies(m)'
  <1>1. /\ Current' = Current /\ tables' = tables /\ log' = log
        /\ SoundJob(job[m], Written)
    BY DEF Kept, Stays, Current, DataInv, JobInv
  <1>2. CASE job'[m] = IdleJob
    BY <1>2 DEF Running, IdleJob
  <1>3. CASE tables[Current] # None /\ job'[m] = Replacing(m, tables[Current])
    <2> DEFINE table == tables[Current]
    <2>1. Sound(table, Written)
      BY <1>3, CurrentIsPointer DEF DataInv, TableInv
    <2>2. /\ job'[m].pc = "replace" /\ job'[m].base = table
          /\ job'[m].window = job[m].window /\ job'[m].scan = job[m].scan
          /\ job'[m].began = job[m].began /\ job'[m].logged = job[m].logged
          /\ \A day \in job[m].days \ job'[m].days : NothingToDo(table, day, OfDay(m, day))
      BY <1>1, <1>3, <2>1, ReplacingSound
    <2>3. \A day : OfDay(m, day)' = OfDay(m, day) /\ RowsOf(day)' = RowsOf(day)
      BY <1>1, <2>2 DEF OfDay, RowsOf
    <2>4. \A day \in job[m].days \ job'[m].days : OfDay(m, day) = {} /\ RowsOf(day) = {}
      BY <2>1, <2>2, NothingToDoMeans DEF RowsOf
    <2>5. \A day \in job[m].window \ job'[m].days : RowsOf(day) = OfDay(m, day)
      BY <2>4 DEF Relies
    <2> QED
      BY <1>1, <1>3, <2>2, <2>3, <2>5 DEF Relies
  <1>4. ASSUME NEW pc, NEW base, job'[m] = [job[m] EXCEPT !.pc = pc, !.base = base],
               pc \in {"create", "evolve", "evolve hint", "hint"},
               pc = "create" => tables[Current] = None /\ job[m].days = job[m].window,
               pc # "create" => base = tables[Current] /\ tables[Current] # None
        PROVE  Relies(m)'
    <2>1. /\ job'[m].pc = pc /\ job'[m].base = base /\ job'[m].days = job[m].days
          /\ job'[m].window = job[m].window /\ job'[m].scan = job[m].scan
          /\ job'[m].began = job[m].began /\ job'[m].logged = job[m].logged
      BY <1>1, <1>4 DEF SoundJob, Job
    <2>2. \A day : OfDay(m, day)' = OfDay(m, day) /\ RowsOf(day)' = RowsOf(day)
      BY <1>1, <2>1 DEF OfDay, RowsOf
    <2>3. /\ job'[m].pc \in {"ensure", "create"} => job'[m].days = job'[m].window
          /\ job'[m].pc = "create" => tables'[Current'] = None
          /\ job'[m].pc \in {"evolve", "evolve hint", "replace", "hint"} =>
               job'[m].base = tables'[Current'] /\ tables'[Current'] # None
      BY <1>1, <1>4, <2>1
    <2>4. \A day \in job'[m].window \ job'[m].days : RowsOf(day)' = OfDay(m, day)'
      BY <2>1, <2>2 DEF Relies
    <2> QED
      BY <1>1, <2>1, <2>3, <2>4 DEF Relies
  <1>5. CASE /\ job[m].pc = "ensure" /\ tables[Current] # None
             /\ job'[m] = [job[m] EXCEPT !.pc = "evolve", !.base = tables[Current]]
    BY <1>4, <1>5
  <1>6. CASE /\ job[m].pc = "ensure" /\ tables[Current] = None
             /\ job'[m] = [job[m] EXCEPT !.pc = "create"]
    <2>1. job'[m] = [job[m] EXCEPT !.pc = "create", !.base = job[m].base]
      BY <1>1, <1>6 DEF SoundJob, Job
    <2> QED
      BY <1>4, <1>6, <2>1 DEF Relies
  <1>7. CASE job[m].pc = "evolve" /\ job'[m] = [job[m] EXCEPT !.pc = "evolve hint"]
    <2>1. job'[m] = [job[m] EXCEPT !.pc = "evolve hint", !.base = job[m].base]
      BY <1>1, <1>7 DEF SoundJob, Job
    <2>2. job[m].base = tables[Current] /\ tables[Current] # None
      BY <1>7 DEF Relies
    <2> QED
      BY <1>4, <2>1, <2>2
  <1>8. CASE job[m].pc = "replace" /\ job'[m] = [job[m] EXCEPT !.pc = "hint"]
    <2>1. job'[m] = [job[m] EXCEPT !.pc = "hint", !.base = job[m].base]
      BY <1>1, <1>8 DEF SoundJob, Job
    <2>2. job[m].base = tables[Current] /\ tables[Current] # None
      BY <1>8 DEF Relies
    <2> QED
      BY <1>4, <2>1, <2>2
  <1>9. QED
    BY <1>2, <1>3, <1>5, <1>6, <1>7, <1>8 DEF Stays

\* And so does the one that moves it.
LEMMA SwapRelies ==
    ASSUME DataInv, NEW m \in Materializer, Kept, Swaps(m), Relies(m)
    PROVE  Relies(m)'
  <1>1. Current' = Current /\ log' = log /\ SoundJob(job[m], Written)
    BY DEF Kept, Current, DataInv, JobInv
  <1>2. CASE /\ job[m].pc = "create" /\ tables'[Current] = NewTable
             /\ job'[m] = Replacing(m, NewTable)
    <2>1. Sound(NewTable, Written) /\ DOMAIN NewTable.rows = {}
      BY NewTableSound
    <2>2. /\ job'[m].pc = "replace" /\ job'[m].base = NewTable
          /\ job'[m].window = job[m].window /\ job'[m].scan = job[m].scan
          /\ job'[m].began = job[m].began /\ job'[m].logged = job[m].logged
          /\ \A day \in job[m].days \ job'[m].days : NothingToDo(NewTable, day, OfDay(m, day))
      BY <1>1, <1>2, <2>1, ReplacingSound
    <2>3. \A day : OfDay(m, day)' = OfDay(m, day) /\ RowsOf(day)' = {}
      BY <1>1, <1>2, <2>1, <2>2 DEF OfDay, RowsOf
    <2>4. \A day \in job[m].days \ job'[m].days : OfDay(m, day) = {}
      BY <2>1, <2>2, NothingToDoMeans
    <2>5. job[m].days = job[m].window
      BY <1>2 DEF Relies
    <2>6. \A day \in job'[m].window \ job'[m].days : RowsOf(day)' = OfDay(m, day)'
      BY <2>2, <2>3, <2>4, <2>5
    <2> QED
      BY <1>1, <1>2, <2>1, <2>2, <2>6, NoTableAssumption DEF Relies
  <1>3. CASE Staging(m) /\ tables'[Current] = Staged(m) /\ job'[m] = Committed(m)
    <2>1. /\ job'[m].pc = "load"
          /\ job'[m].window = job[m].window /\ job'[m].scan = job[m].scan
          /\ job'[m].began = job[m].began /\ job'[m].logged = job[m].logged
          /\ job'[m].days = IF job[m].pc \in {"evolve", "evolve hint"} THEN job[m].days
                            ELSE job[m].days \ {NextDay(m)}
      BY <1>1, <1>3, CommittedSound
    <2>2. job[m].base = tables[Current] /\ tables[Current] # None
      BY <1>3 DEF Staging, Relies
    <2>3. \A day : OfDay(m, day)' = OfDay(m, day)
      BY <2>1 DEF OfDay
    <2>4. CASE job[m].pc \in {"evolve", "evolve hint"}
      <3>1. tables'[Current].rows = tables[Current].rows
        BY <1>1, <1>3, <2>2, <2>4, StagedSound
      <3>2. \A day : RowsOf(day)' = RowsOf(day)
        BY <1>1, <3>1 DEF RowsOf
      <3> QED
        BY <1>1, <2>1, <2>3, <2>4, <3>1, <3>2, <2>2 DEF Relies
    <2>5. CASE job[m].pc \notin {"evolve", "evolve hint"}
      <3> DEFINE day == NextDay(m)
      <3>1. DOMAIN tables'[Current].rows =
              {r \in DOMAIN tables[Current].rows : AttemptDate(r) # day} \cup OfDay(m, day)
        BY <1>1, <1>3, <2>2, <2>5, StagedSound
      <3>2. \A d : RowsOf(d)' = IF d = day THEN OfDay(m, day) ELSE RowsOf(d)
        BY <1>1, <3>1 DEF RowsOf, OfDay
      <3>4. \A d \in job'[m].window \ job'[m].days : RowsOf(d)' = OfDay(m, d)'
        BY <2>1, <2>3, <2>5, <3>2 DEF Relies
      <3>5. \A r \in DOMAIN tables'[Current].rows :
              r \in log => r \in job[m].logged
        BY <1>1, <3>1, <2>2 DEF Relies, OfDay, SoundJob
      <3> QED
        BY <1>1, <2>1, <3>4, <3>5 DEF Relies
    <2> QED
      BY <2>4, <2>5
  <1>4. QED
    BY <1>2, <1>3 DEF Swaps

\* Only who runs goes on, and nobody becomes alone by going on.
LEMMA MovesAreOfRunning ==
    ASSUME DataInv, NEW m \in Materializer, Kept, Stays(m) \/ Swaps(m),
           Running(m)', job'[m].alone
    PROVE  Running(m) /\ job[m].alone
  <1>1. SoundJob(job[m], Written) /\ job'[m].pc # "idle"
    BY DEF DataInv, JobInv, Running
  <1>2. job'[m] # IdleJob
    BY <1>1 DEF IdleJob
  <1>3. \A table : Replacing(m, table).alone = job[m].alone
    BY <1>1 DEF Replacing, SoundJob, Job
  <1>4. Committed(m).alone = job[m].alone
    BY <1>1, CommittedSound
  <1>5. CASE Stays(m)
    <2>1. Running(m)
      BY <1>2, <1>5 DEF Stays, Running
    <2>2. \/ job'[m] = Replacing(m, tables[Current])
          \/ job'[m] = [job[m] EXCEPT !.pc = "evolve", !.base = tables[Current]]
          \/ \E pc : job'[m] = [job[m] EXCEPT !.pc = pc]
      BY <1>2, <1>5 DEF Stays
    <2>3. CASE job'[m] = Replacing(m, tables[Current])
      BY <1>3, <2>1, <2>3
    <2>4. CASE job'[m] = [job[m] EXCEPT !.pc = "evolve", !.base = tables[Current]]
      BY <1>1, <2>1, <2>4 DEF SoundJob, Job
    <2>5. ASSUME NEW pc, job'[m] = [job[m] EXCEPT !.pc = pc]
          PROVE  job[m].alone
      BY <1>1, <2>5 DEF SoundJob, Job
    <2> QED
      BY <2>1, <2>2, <2>3, <2>4, <2>5
  <1>6. CASE Swaps(m)
    BY <1>3, <1>4, <1>6 DEF Swaps, Staging, Running
  <1>7. QED
    BY <1>5, <1>6

LEMMA ScanRelies ==
    ASSUME DataInv, NEW m \in Materializer, NEW since \in Int \cup {None},
           NEW until \in Int \cup {None}, Scan(m, since, until),
           AttemptWindow(since, until) = Span(m, Today)
    PROVE  Relies(m)'
  <1> DEFINE days == AttemptWindow(since, until)
  <1>1. /\ \E unread : job'[m] = ScanStarts(m, days, unread)
        /\ tables' = tables /\ log' = log /\ deployment' = deployment
    BY ScanKeeps
  <1>2. /\ job'[m].pc = "ensure" /\ job'[m].window = days /\ job'[m].days = days
        /\ job'[m].began = Today /\ job'[m].logged = log /\ days = Span(m, Today)
    BY <1>1 DEF ScanStarts
  <1> HIDE DEF days
  <1>3. job'[m].window = Span(m, job'[m].began)
    BY <1>2
  <1>4. QED
    BY <1>1, <1>2, <1>3 DEF Relies, Span

\* Each step keeps what the materialisations rely on that are still alone.
LEMMA AloneKept == IInv /\ [Next]_vars => AloneInv'
  <1> SUFFICES ASSUME IInv, [Next]_vars, NEW n \in Materializer, Running(n)', job'[n].alone
               PROVE  Relies(n)'
    BY DEF AloneInv
  <1>1. DataInv /\ (Running(n) /\ job[n].alone => Relies(n))
    BY DEF IInv, AloneInv
  <1>2. CASE \/ \E what \in Attempted : Begin(what)
             \/ \E id \in DOMAIN attempt : End(id)
             \/ ExpireReceipts \/ Tick
    <2>1. pointers' = pointers /\ \A r \in log' \ log : r.id \notin Ended
      BY <1>1, <1>2, WorldKeeps
    <2>2. job' = job /\ tables' = tables /\ deployment' = deployment
      BY <2>1 DEF pointers
    <2>3. tables[Current] # None => \A r \in DOMAIN tables[Current].rows : r \in log' => r \in log
      BY <1>1, <2>1, NoRowBeforeItsEnd, CurrentIsPointer
    <2> QED
      BY <1>1, <2>2, <2>3, RelyKept DEF Running
  <1>3. ASSUME NEW m \in Materializer, NEW since \in Int \cup {None},
               NEW until \in Int \cup {None}, Scan(m, since, until),
               AttemptWindow(since, until) = Span(m, Today)
        PROVE  Relies(n)'
    <2>1. CASE n = m
      BY <1>1, <1>3, <2>1, ScanRelies
    <2>2. CASE n # m
      <3>1. job'[n] = job[n] /\ tables' = tables /\ log' = log /\ deployment' = deployment
        BY <1>1, <1>3, <2>2, ScanKeeps
      <3> QED
        BY <1>1, <3>1, RelyKept DEF Running
    <2> QED
      BY <2>1, <2>2
  <1>4. ASSUME NEW m \in Materializer, Step(m) \/ Kill(m) PROVE Relies(n)'
    <2>1. Kept /\ (Stays(m) \/ Swaps(m))
      BY <1>1, <1>4, MaterializerMoves
    <2>2. CASE n = m
      <3>1. Running(m) /\ job[m].alone
        BY <1>1, <2>1, <2>2, MovesAreOfRunning
      <3> QED
        BY <1>1, <2>1, <2>2, <3>1, StayRelies, SwapRelies
    <2>3. CASE n # m
      <3>1. Stays(m) /\ job'[n] = job[n] /\ tables' = tables
        BY <2>1, <2>3 DEF Stays, Swaps
      <3>2. log' = log /\ deployment' = deployment
        BY <2>1 DEF Kept
      <3> QED
        BY <1>1, <3>1, <3>2, RelyKept DEF Running
    <2> QED
      BY <2>2, <2>3
  <1>5. CASE BigLakeRegister
    <2>1. /\ job' = job /\ log' = log /\ deployment' = deployment
          /\ tables'[Current] = tables[Current]
      BY <1>1, <1>5, BigLakeRegisterKeeps, CurrentIsPointer DEF Kept
    <2> QED
      BY <1>1, <2>1, RelyKept DEF Running
  <1>6. CASE IcebergRegister
    BY <1>1, <1>6, IcebergRegisterKeeps
  <1>7. CASE vars' = vars
    <2>1. job' = job /\ tables' = tables /\ log' = log /\ deployment' = deployment
      BY <1>7 DEF vars
    <2> QED
      BY <1>1, <2>1, RelyKept DEF Running
  <1>8. QED
    BY <1>1, <1>2, <1>3, <1>4, <1>5, <1>6, <1>7, ScanStartsJob DEF Next

LEMMA InitAlone == Init => AloneInv
  BY DEF Init, AloneInv, Running, IdleJob

-----------------------------------------------------------------------------
(* Who is fresh.                                                           *)

LEMMA StopFresh ==
    ASSUME DataInv, FreshInv, NEW m \in Materializer, Stop(m), tables' = tables,
           deployment' = deployment
    PROVE  FreshInv'
  <1>1. fresh' = fresh \ {m} /\ Current' = Current
    BY DEF Stop, Current
  <1>2. \A n \in fresh' : job'[n] = job[n]
    BY <1>1 DEF Stop, FreshInv, DataInv, JobInv
  <1>3. QED
    BY <1>1, <1>2 DEF FreshInv

LEMMA MaterializerFresh ==
    ASSUME DataInv, FreshInv, NEW m \in Materializer, Step(m) \/ Kill(m)
    PROVE  FreshInv'
  <1>1. deployment' = deployment /\ Current' = Current
    BY DEF Step, Load, NoSuchTable, Create, Commit, WriteHint, Finish, Kill, Rest, Current
  <1>2. CASE Stop(m) /\ tables' = tables
    BY <1>1, <1>2, StopFresh
  <1>3. ASSUME NEW table, NEW after, Point(m, table, after, {}) PROVE FreshInv'
    BY <1>3 DEF Point, FreshInv
  <1>4. CASE Load(m) /\ ~Stop(m)
    <2> DEFINE table == tables[Current]
               evolving == [job[m] EXCEPT !.pc = "evolve", !.base = table]
    <2>1. /\ fresh' = fresh \cup {m} /\ tables' = tables /\ table # None
          /\ \/ job' = [job EXCEPT ![m] = Replacing(m, table)]
             \/ job' = [job EXCEPT ![m] = evolving]
      BY <1>4 DEF Load
    <2>2. SoundJob(job[m], Written) /\ Sound(table, Written)
      BY <2>1, CurrentIsPointer DEF DataInv, JobInv, TableInv
    <2>3. Replacing(m, table).pc = "replace" /\ Replacing(m, table).base = table
      BY <2>2, ReplacingSound
    <2>4. evolving.pc = "evolve" /\ evolving.base = table
      BY <2>2 DEF SoundJob, Job
    <2> HIDE DEF table, evolving
    <2>5. /\ job'[m].pc \in {"evolve", "replace"} /\ job'[m].base = table
          /\ \A n \in Materializer \ {m} : job'[n] = job[n]
      BY <2>1, <2>3, <2>4 DEF DataInv, JobInv
    <2> QED
      BY <1>1, <2>1, <2>5 DEF FreshInv, table
  <1>5. CASE NoSuchTable(m)
    <2>1. m \notin fresh /\ fresh' = fresh /\ tables' = tables
      BY <1>5 DEF NoSuchTable, FreshInv
    <2>2. \A n \in fresh : job'[n] = job[n]
      BY <1>5, <2>1 DEF NoSuchTable, Goto, FreshInv, DataInv, JobInv
    <2> QED
      BY <1>1, <2>1, <2>2 DEF FreshInv
  <1>6. CASE Point(m, NewTable, Replacing(m, NewTable), {m})
    <2>1. SoundJob(job[m], Written) /\ Sound(NewTable, Written)
      BY NewTableSound DEF DataInv, JobInv
    <2>2. Replacing(m, NewTable).pc = "replace" /\ Replacing(m, NewTable).base = NewTable
      BY <2>1, ReplacingSound
    <2>3. fresh' = {m} /\ job'[m] = Replacing(m, NewTable) /\ tables'[Current] = NewTable
      BY <1>6, CurrentIsPointer DEF Point, DataInv, TableInv
    <2> QED
      BY <1>1, <2>2, <2>3, NoTableAssumption DEF FreshInv
  <1>7. ASSUME NEW pc \in {"evolve hint", "hint"}, Goto(m, pc), tables' = tables, fresh' = fresh
        PROVE  FreshInv'
    <2>1. job' = [job EXCEPT ![m] = [job[m] EXCEPT !.pc = pc]]
      BY <1>7 DEF Goto
    <2>2. [job[m] EXCEPT !.pc = pc].pc = pc /\ [job[m] EXCEPT !.pc = pc].base = job[m].base
      BY DEF DataInv, JobInv, SoundJob, Job
    <2>3. \A n \in fresh : job'[n] = job[n] \/ (job'[n].pc = pc /\ job'[n].base = job[n].base)
      BY <2>1, <2>2 DEF FreshInv, DataInv, JobInv
    <2> QED
      BY <1>1, <1>7, <2>3 DEF FreshInv
  <1>8. CASE Create(m)
    BY <1>2, <1>6, <1>8 DEF Create
  <1>9. CASE Commit(m)
    BY <1>2, <1>3, <1>7, <1>9 DEF Commit
  <1>10. CASE WriteHint(m)
    BY <1>3, <1>10 DEF WriteHint
  <1>11. CASE Finish(m) \/ Kill(m)
    BY <1>2, <1>11 DEF Finish, Kill, Rest
  <1>12. CASE Load(m) /\ Stop(m)
    BY <1>2, <1>12 DEF Load
  <1>13. QED
    BY <1>4, <1>5, <1>8, <1>9, <1>10, <1>11, <1>12 DEF Step

LEMMA FreshKept == IInv /\ [Next]_vars => FreshInv'
  <1> SUFFICES ASSUME DataInv, FreshInv, [Next]_vars PROVE FreshInv'
    BY DEF IInv
  <1>1. CASE \/ \E what \in Attempted : Begin(what)
             \/ \E id \in DOMAIN attempt : End(id)
             \/ ExpireReceipts \/ Tick
    <2>1. pointers' = pointers
      BY <1>1, WorldKeeps
    <2> QED
      BY <2>1 DEF pointers, FreshInv, Current
  <1>2. ASSUME NEW m \in Materializer, NEW since \in Int \cup {None},
               NEW until \in Int \cup {None}, Scan(m, since, until)
        PROVE  FreshInv'
    <2>1. /\ tables' = tables /\ deployment' = deployment
          /\ \A n \in Materializer \ {m} : job'[n] = job[n]
      BY <1>2, ScanKeeps
    <2>2. m \notin fresh /\ fresh' = fresh
      BY <1>2 DEF Scan, Running, FreshInv
    <2>3. \A n \in fresh : job'[n] = job[n]
      BY <2>1, <2>2 DEF FreshInv
    <2> QED
      BY <2>1, <2>2, <2>3 DEF FreshInv, Current
  <1>3. CASE \E m \in Materializer : Step(m) \/ Kill(m)
    BY <1>3, MaterializerFresh
  <1>4. CASE BigLakeRegister
    <2>1. job' = job /\ deployment' = deployment /\ tables'[Current] = tables[Current]
      BY <1>4, BigLakeRegisterKeeps, CurrentIsPointer DEF Kept
    <2>2. fresh' = fresh /\ Current' = Current
      BY <1>4, <2>1 DEF BigLakeRegister, Current
    <2> QED
      BY <2>1, <2>2 DEF FreshInv
  <1>5. CASE IcebergRegister
    <2>1. fresh' = fresh /\ tables[Current] = None
      BY <1>5 DEF IcebergRegister, Current
    <2>2. fresh' = {}
      BY <2>1 DEF FreshInv
    <2> QED
      BY <2>2 DEF FreshInv
  <1>6. CASE vars' = vars
    BY <1>6 DEF vars, FreshInv, Current
  <1>7. QED
    BY <1>1, <1>2, <1>3, <1>4, <1>5, <1>6, ScanStartsJob DEF Next

\* The inductive invariant that the theorems about the rows and the ends of
\* materialisations rest on.
THEOREM InvariantHolds == Spec => []IInv
  <1>1. Init => IInv
    BY InitData, InitAlone DEF IInv, FreshInv, Init
  <1>2. IInv /\ [Next]_vars => IInv'
    BY DataKept, AloneKept, FreshKept DEF IInv
  <1>3. QED
    BY <1>1, <1>2, PTL DEF Spec

-----------------------------------------------------------------------------
(* What a step may do to the rows.                                         *)

\* A row leaves with the day that is replaced, or with a table that is
\* overwritten.
LEMMA SwapKeepsRows ==
    ASSUME IInv, NEW m \in Materializer, Swaps(m), tables[Current] # None,
           NEW r \in DOMAIN tables[Current].rows, r \in log, r \notin DOMAIN tables'[Current].rows
    PROVE  Running(m) /\ MayTake(m, r)
  <1>1. Running(m) /\ SoundJob(job[m], Written)
    BY DEF IInv, DataInv, JobInv, Swaps, Staging, Running
  <1>2. job[m].alone => Relies(m)
    BY <1>1 DEF IInv, AloneInv
  <1>3. ASSUME Staging(m), tables'[Current] = Staged(m), job[m].base = tables[Current]
        PROVE  r \notin job[m].scan /\ AttemptDate(r) \in job[m].window
    <2>1. job[m].pc \notin {"evolve", "evolve hint"}
      BY <1>1, <1>3, StagedSound
    <2> DEFINE day == NextDay(m)
    <2>2. day \in job[m].window
      BY <1>1, <1>3, <2>1, NextDayIsLeft DEF Staging, SoundJob
    <2>3. DOMAIN tables'[Current].rows =
            {s \in DOMAIN tables[Current].rows : AttemptDate(s) # day} \cup OfDay(m, day)
      BY <1>1, <1>3, <2>1, StagedSound
    <2>4. AttemptDate(r) = day /\ r \notin OfDay(m, day)
      BY <2>3
    <2> QED
      BY <2>2, <2>4 DEF OfDay
  <1>4. CASE job[m].alone
    <2>1. tables[Current] # None => r \in job[m].logged
      BY <1>2, <1>4 DEF Relies
    <2>2. Staging(m) /\ tables'[Current] = Staged(m) /\ job[m].base = tables[Current]
      BY <1>2, <1>4 DEF Swaps, Staging, Relies
    <2> QED
      BY <1>1, <1>3, <2>1, <2>2 DEF MayTake, Missed
  <1>5. CASE ~job[m].alone /\ Overwrites(m)
    BY <1>1, <1>5 DEF MayTake
  <1>6. CASE ~job[m].alone /\ ~Overwrites(m)
    <2>1. Staging(m) /\ tables'[Current] = Staged(m) /\ m \in fresh
      BY <1>6 DEF Swaps
    <2>2. job[m].base = tables[Current]
      BY <2>1 DEF IInv, FreshInv
    <2> QED
      BY <1>1, <1>3, <1>6, <2>1, <2>2 DEF MayTake, Missed
  <1>7. QED
    BY <1>4, <1>5, <1>6

\* What a materialisation has read it leaves in the table: a row leaves only
\* where a receipt could not be read, was written since the scan of one that
\* is not alone, or where a commit is overwritten.
THEOREM WhatIsReadStays == Spec => RowsStay
  <1> DEFINE RowsKept(p) ==
               tables[p] # None /\ tables'[p] # None =>
                 \A r \in DOMAIN tables[p].rows :
                   r \in log /\ r \notin DOMAIN tables'[p].rows =>
                     \E m \in Materializer : Running(m) /\ MayTake(m, r)
             Stay == \A p \in {"hint", "metastore"} : RowsKept(p)
  <1>1. IInv /\ [Next]_vars => [Stay]_vars
    <2> SUFFICES ASSUME IInv, [Next]_vars, NEW p \in {"hint", "metastore"} PROVE RowsKept(p)
      OBVIOUS
    <2>1. DataInv /\ p \in Pointer
      BY DEF IInv, Pointer
    <2>2. tables' = tables => RowsKept(p)
      OBVIOUS
    <2>3. CASE \/ \E what \in Attempted : Begin(what)
               \/ \E id \in DOMAIN attempt : End(id)
               \/ ExpireReceipts \/ Tick
      BY <2>1, <2>2, <2>3, WorldKeeps DEF pointers
    <2>4. CASE (\E m \in Materializer : RunsMaterialize(m)) \/ DailyDag
      BY <2>1, <2>2, <2>4, ScanStartsJob, ScanKeeps
    <2>5. ASSUME NEW m \in Materializer, Step(m) \/ Kill(m) PROVE RowsKept(p)
      <3>1. Kept /\ (Stays(m) \/ Swaps(m))
        BY <2>1, <2>5, MaterializerMoves
      <3>2. CASE Stays(m)
        BY <2>2, <3>2 DEF Stays
      <3>3. CASE Swaps(m) /\ p # Current
        <4>1. tables'[p] = tables[p]
          BY <2>1, <3>3 DEF Swaps
        <4> QED
          BY <4>1
      <3>4. CASE Swaps(m) /\ p = Current
        BY <3>4, SwapKeepsRows
      <3> QED
        BY <3>1, <3>2, <3>3, <3>4
    <2>6. CASE BigLakeRegister
      <3>1. tables'[p] = tables[p]
        BY <2>1, <2>6, BigLakeRegisterKeeps
      <3> QED
        BY <3>1
    <2>7. CASE IcebergRegister
      <3>1. p = "metastore" \/ tables'[p] = tables[p]
        BY <2>1, <2>7, IcebergRegisterKeeps
      <3>2. tables["metastore"] = None
        BY <2>1, <2>7, IcebergRegisterKeeps
      <3> QED
        BY <3>1, <3>2
    <2>8. CASE vars' = vars
      BY <2>2, <2>8 DEF vars
    <2> QED
      BY <2>3, <2>4, <2>5, <2>6, <2>7, <2>8 DEF Next
  <1>2. QED
    BY <1>1, InvariantHolds, PTL DEF RowsStay, Spec

-----------------------------------------------------------------------------
(* What the tests of the ops build conclude.                               *)

\* An exception that breaks a contract is classified as one that does,
\* because nothing that stands above it in the table is an ancestor of its.
LEMMA ContractCodes ==
    ASSUME NEW end \in Errors, BreaksContract(end)
    PROVE  ClassifyError(end) \in FailClosedCodes
  <1> DEFINE M == Matching(end)
  <1>1. PICK c \in DOMAIN Lineage : end = Instances(c) \/ end = FromPlugin(c)
    BY OpsConstants DEF Lineage
  <1>2. /\ c \in {"HttpIntegrityError", "SecretError", "SecretNotSetError", "DetContractError",
                  "CoerceError", "ValidationError"}
    BY <1>1 DEF BreaksContract, FromPlugin, Instances, Lineage
  <1>3. /\ "LeaseFencedError" \notin end /\ "LeaseHeldError" \notin end
        /\ "HttpError" \in end => "HttpIntegrityError" \in end
    BY <1>1, <1>2 DEF FromPlugin, Instances, Lineage
  <1>4. /\ M \subseteq 1 .. 15
        /\ 2 \in M => 1 \in M
        /\ 3 \notin M /\ 4 \notin M
        /\ 1 \in M \/ 5 \in M \/ 7 \in M \/ 8 \in M
    BY <1>3 DEF Matching, Codes, BreaksContract
  <1>5. Min(M) \in M /\ \A n \in M : Min(M) <= n
    <2>1. \E n \in M : \A k \in M : n <= k
      BY <1>4, LeastExists
    <2> QED
      BY <2>1 DEF Min
  <1> HIDE DEF M
  <1>6. Min(M) \in {1, 5, 6, 7, 8}
    <2> DEFINE first == Min(M)
    <2>1. first \in M /\ first \in 1 .. 15 /\ \A n \in M : first <= n
      BY <1>4, <1>5
    <2> HIDE DEF first
    <2>2. first # 2 /\ first # 3 /\ first # 4
      <3>1. first = 2 => 1 \in M /\ 2 <= 1
        BY <1>4, <2>1
      <3> QED
        BY <1>4, <2>1, <3>1
    <2>3. first <= 8
      BY <1>4, <2>1
    <2>4. first \in {1, 5, 6, 7, 8}
      BY <2>1, <2>2, <2>3
    <2> QED
      BY <2>4 DEF first
  <1>7. Codes[Min(M)][2] \in FailClosedCodes
    BY <1>6 DEF Codes, FailClosedCodes
  <1>8. QED
    BY <1>4, <1>7 DEF ClassifyError, M

\* What a row of a table says of its attempt.
LEMMA RowTells ==
    ASSUME DataInv, NEW p \in Pointer, tables[p] # None, NEW r \in DOMAIN tables[p].rows
    PROVE  /\ r.started \in Nat
           /\ r.status = "ok" => attempt[r.id].body = {} /\ attempt[r.id].release = {}
           /\ BreaksContract(attempt[r.id].body) /\ attempt[r.id].release = {}
                => r.code \in FailClosedCodes
  <1>1. r \in Written
    BY RowsOnce DEF DataInv, TableInv, Sound
  <1>2. PICK id \in Ended : r = ReceiptOf(id)
    BY <1>1 DEF Written
  <1>3. attempt[id] \in Attempt /\ attempt[id].id = id /\ attempt[id].body # None
    BY AttemptTyped DEF DataInv, Ended
  <1> DEFINE body == attempt[id].body
             release == attempt[id].release
             end == IF release = {} THEN body ELSE release
  <1>4. /\ r.id = id /\ r.started = attempt[id].started
        /\ r.status = IF end = {} THEN "ok" ELSE "error"
        /\ r.code = IF end = {} THEN "none" ELSE ClassifyError(end)
    BY <1>2, <1>3 DEF ReceiptOf, Payload, Outcome, Raised
  <1>5. r.status = "ok" => body = {} /\ release = {}
    BY <1>4
  <1>6. ASSUME BreaksContract(body), release = {} PROVE r.code \in FailClosedCodes
    <2>1. end = body /\ body # {}
      BY <1>6 DEF BreaksContract
    <2>2. r.code = ClassifyError(body)
      BY <1>4, <2>1
    <2>3. body \in Errors
      BY <1>3, <2>1 DEF Attempt, Ends
    <2> QED
      BY <1>6, <2>2, <2>3, ContractCodes
  <1> HIDE DEF end
  <1>7. QED
    BY <1>3, <1>4, <1>5, <1>6 DEF Attempt

\* When the SLO tests of the ops build pass, however old the table is that
\* they are served, each pair that has promised it was attempted within its
\* hours of recency and went well; and no attempt that they were shown in
\* the scored hours broke a contract, unless its release failed as well.
THEOREM PassingTestsAreTrue == Spec => []VerdictIsTrue
  <1>1. DataInv => VerdictIsTrue
    <2> SUFFICES ASSUME DataInv, NEW policy \in Policies, NEW row \in FlattenSloRows(policy),
                        Served # None, SloHolds(Served.rows, row)
                 PROVE  /\ \E r \in DOMAIN Served.rows :
                             /\ r.what = row.what /\ clock - r.started <= row.hours.recency
                             /\ attempt[r.id].body = {} /\ attempt[r.id].release = {}
                        /\ \A r \in DOMAIN Served.rows :
                             r.what = row.what /\ clock - r.started <= row.hours.score
                               /\ BreaksContract(attempt[r.id].body)
                                 => attempt[r.id].release # {}
      BY DEF VerdictIsTrue
    <2>1. clock \in Nat /\ row.hours.recency \in Nat /\ row.hours.score \in Nat
      BY OpsConstants DEF DataInv, AttemptInv
    <2>2. \A r \in DOMAIN Served.rows :
            /\ r.started \in Nat
            /\ r.status = "ok" => attempt[r.id].body = {} /\ attempt[r.id].release = {}
            /\ BreaksContract(attempt[r.id].body) /\ attempt[r.id].release = {}
                 => r.code \in FailClosedCodes
      BY RowTells DEF Served, Pointer
    <2>3. PICK r \in Within(Served.rows, row, row.hours.recency) : r.status = "ok"
      BY DEF SloHolds, Recent
    <2>4. /\ r \in DOMAIN Served.rows /\ r.what = row.what
          /\ clock - r.started <= row.hours.recency
          /\ attempt[r.id].body = {} /\ attempt[r.id].release = {}
      BY <2>1, <2>2, <2>3 DEF Within
    <2>5. ASSUME NEW s \in DOMAIN Served.rows, s.what = row.what,
                 clock - s.started <= row.hours.score, BreaksContract(attempt[s.id].body)
          PROVE  attempt[s.id].release # {}
      <3>1. s \in Within(Served.rows, row, row.hours.score)
        BY <2>1, <2>2, <2>5 DEF Within
      <3>2. s.code \notin FailClosedCodes
        BY <3>1 DEF SloHolds, NoContractBroken
      <3> QED
        BY <2>2, <2>5, <3>2
    <2> QED
      BY <2>4, <2>5
  <1>2. QED
    BY <1>1, DataIsSound, PTL

\* There are finitely many receipts.
LEMMA WrittenFinite == ASSUME AttemptInv PROVE IsFiniteSet(Written)
  <1> DEFINE receipt == [id \in Ended |-> ReceiptOf(id)]
  <1>1. IsFiniteSet(Ended)
    <2>1. attempt \in Seq(Attempt) /\ DOMAIN attempt = 1 .. Len(attempt) /\ Len(attempt) \in Nat
      BY DEF AttemptInv
    <2>2. IsFiniteSet(1 .. Len(attempt))
      BY <2>1, FS_Interval
    <2> QED
      BY <2>1, <2>2, FS_Subset DEF Ended
  <1>2. receipt \in Surjection(Ended, Written)
    BY DEF Written, Surjection
  <1>3. QED
    BY <1>1, <1>2, FS_Surjection

\* Rows that a table has once are as many as there are receipts.
LEMMA OnceIsCount ==
    ASSUME NEW S, IsFiniteSet(S), NEW rows, \A r \in S : rows[r] = 1
    PROVE  Cardinality(UNION {{r} \X (1 .. rows[r]) : r \in S}) = Cardinality(S)
  <1>1. UNION {{r} \X (1 .. rows[r]) : r \in S} = S \X {1}
    <2>1. \A r \in S : {r} \X (1 .. rows[r]) = {r} \X {1}
      OBVIOUS
    <2> QED
      BY <2>1
  <1>2. IsFiniteSet({1}) /\ Cardinality({1}) = 1
    BY FS_Singleton
  <1>3. Cardinality(S \X {1}) = Cardinality(S) * 1
    BY <1>2, FS_Product
  <1>4. Cardinality(S) \in Nat
    BY FS_CardinalityType
  <1>5. Cardinality(S \X {1}) = Cardinality(S)
    BY <1>3, <1>4
  <1>6. QED
    BY <1>1, <1>5, Zenon

\* When no other materialisation overlaps, the daily model over the window
\* of one that has done its days says what the summary of the receipts says.
THEOREM DailyIsSummary == Spec => []DailyAgreesWithSummary
  <1>1. IInv => DailyAgreesWithSummary
    <2> SUFFICES ASSUME IInv, NEW m \in Materializer, job[m].pc = "replace",
                        job[m].days = {}, job[m].alone,
                        NEW what \in Attempted, NEW day \in job[m].window
                 PROVE  RunDaily(tables[Current].rows, day, what) = Summary(OfDay(m, day), what)
      BY DEF DailyAgreesWithSummary
    <2> DEFINE rows == tables[Current].rows
               those == {r \in DOMAIN rows : AttemptDate(r) = day /\ r.what = what}
               count(S) == Cardinality(UNION {{r} \X (1 .. rows[r]) : r \in S})
    <2>1. Relies(m) /\ DataInv
      BY DEF IInv, AloneInv, Running
    <2>2. RowsOf(day) = OfDay(m, day) /\ tables[Current] # None
      BY <2>1 DEF Relies
    <2>3. rows = SetToBag(DOMAIN rows) /\ DOMAIN rows \subseteq Written
      BY <2>1, <2>2, CurrentIsPointer, RowsOnce DEF DataInv, TableInv, Sound
    <2>4. \A r \in DOMAIN rows : rows[r] = 1
      BY <2>3 DEF SetToBag
    <2>5. \A S \in SUBSET DOMAIN rows : IsFiniteSet(S)
      BY <2>1, <2>3, WrittenFinite, FS_Subset DEF DataInv
    <2>6. \A S \in SUBSET DOMAIN rows : count(S) = Cardinality(S)
      <3> SUFFICES ASSUME NEW S \in SUBSET DOMAIN rows PROVE count(S) = Cardinality(S)
        OBVIOUS
      <3>1. IsFiniteSet(S) /\ \A r \in S : rows[r] = 1
        BY <2>4, <2>5
      <3> HIDE DEF rows
      <3> QED
        BY <3>1, OnceIsCount
    <2>7. RunDaily(rows, day, what) =
            [attempts |-> count(those),
             ok |-> count({r \in those : r.status = "ok"}),
             error |-> count({r \in those : r.status = "error"})]
      BY DEF RunDaily
    <2>8. those = {r \in OfDay(m, day) : r.what = what}
      BY <2>2 DEF RowsOf
    <2>9. /\ count(those) = Cardinality(those)
          /\ count({r \in those : r.status = "ok"}) = Cardinality({r \in those : r.status = "ok"})
          /\ count({r \in those : r.status = "error"}) = Cardinality({r \in those : r.status = "error"})
      BY <2>6
    <2>10. /\ {r \in those : r.status = "ok"} =
                {r \in OfDay(m, day) : r.what = what /\ r.status = "ok"}
           /\ {r \in those : r.status = "error"} =
                {r \in OfDay(m, day) : r.what = what /\ r.status = "error"}
      BY <2>8
    <2> QED
      BY <2>7, <2>8, <2>9, <2>10 DEF Summary
  <1>2. QED
    BY <1>1, InvariantHolds, PTL

\* At its end a materialisation that was alone has put into the table every
\* receipt of its days that lay in the log when it began and could be read.
THEOREM EndsSettled == Spec => []TableSettles
  <1>1. IInv => TableSettles
    <2> SUFFICES ASSUME IInv, NEW m \in Materializer, job[m].pc = "replace",
                        job[m].days = {}, job[m].alone, NEW r \in Promised(m)
                 PROVE  r \in DOMAIN tables[Current].rows
      BY DEF TableSettles
    <2>1. Relies(m) /\ DataInv
      BY DEF IInv, AloneInv, Running
    <2>2. SoundJob(job[m], Written) /\ r \in job[m].logged /\ r \notin Missed(m)
      BY <2>1 DEF DataInv, JobInv, Promised
    <2>3. r \in Written /\ job[m].began \in Int
      BY <2>2 DEF SoundJob, Job
    <2>4. AttemptDate(r) \in Int
      <3>1. PICK id \in Ended : r = ReceiptOf(id)
        BY <2>3 DEF Written
      <3>2. r.started \in Nat
        BY <2>1, <3>1, AttemptTyped DEF DataInv, Ended, ReceiptOf, Payload, Attempt
      <3> QED
        BY <3>2 DEF AttemptDate, Day
    <2>5. AttemptDate(r) \in Span(m, job[m].began)
      BY <2>3, <2>4, ReceiptConstants DEF Promised, Span
    <2>6. r \in OfDay(m, AttemptDate(r))
      BY <2>1, <2>2, <2>5 DEF Relies, Missed, OfDay
    <2>7. RowsOf(AttemptDate(r)) = OfDay(m, AttemptDate(r))
      BY <2>1, <2>5 DEF Relies
    <2> QED
      BY <2>6, <2>7 DEF RowsOf
  <1>2. QED
    BY <1>1, InvariantHolds, PTL

=============================================================================
