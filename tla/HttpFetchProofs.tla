--------------------------- MODULE HttpFetchProofs ---------------------------
(***************************************************************************)
(* Proofs about HttpFetch, for any plugins, intervals, deployments and     *)
(* bounds: what an extract has fetched, what it leaves in the data         *)
(* directory, and which credentials it uses.                               *)
(***************************************************************************)
EXTENDS HttpFetch, FiniteSetTheorems, WellFoundedInduction, TLAPS

-----------------------------------------------------------------------------
(* Facts about numbers.                                                    *)

LEMMA LeastExists ==
    ASSUME NEW S \in SUBSET Nat, S # {}
    PROVE  \E n \in S : \A k \in S : n <= k
  <1>1. PICK n \in S : \A k \in S : ~(<<k, n>> \in OpToRel(<, Nat))
    BY NatLessThanWellFounded, WFMin
  <1>2. \A k \in S : ~(k < n)
    BY <1>1 DEF OpToRel
  <1>3. QED
    BY <1>2

LEMMA GreatestExists ==
    ASSUME NEW high \in Nat, NEW S \in SUBSET (0 .. high), S # {}
    PROVE  \E n \in S : \A k \in S : k <= n
  <1> DEFINE T == {high - n : n \in S}
  <1>1. T \in SUBSET Nat /\ T # {}
    <2>1. PICK n \in S : TRUE
      OBVIOUS
    <2>2. high - n \in T
      BY <2>1
    <2>3. T \in SUBSET Nat
      OBVIOUS
    <2> QED
      BY <2>2, <2>3
  <1>2. PICK x \in T : \A y \in T : x <= y
    BY <1>1, LeastExists
  <1>3. PICK n \in S : x = high - n
    OBVIOUS
  <1>4. \A k \in S : high - k \in T
    OBVIOUS
  <1>5. \A k \in S : k <= n
    <2> TAKE k \in S
    <2>1. x <= high - k
      BY <1>2, <1>4
    <2> QED
      BY <1>3, <2>1
  <1>6. QED
    BY <1>5

\* What holds of 0 and goes over from a number to the next holds up to N.
LEMMA UpTo ==
    ASSUME NEW N \in Nat, NEW T, 0 \in T, \A n \in 0 .. N - 1 : n \in T => n + 1 \in T
    PROVE  \A n \in 0 .. N : n \in T
  <1> DEFINE S == {n \in 0 .. N : n \notin T}
  <1>1. SUFFICES ASSUME S # {} PROVE FALSE
    OBVIOUS
  <1> S \in SUBSET Nat
    OBVIOUS
  <1>2. PICK n \in S : \A k \in S : n <= k
    BY <1>1, LeastExists
  <1>3. n \in 1 .. N /\ n - 1 \in 0 .. N - 1 /\ n - 1 \notin S
    BY <1>2
  <1>4. QED
    BY <1>3

-----------------------------------------------------------------------------
(* Which files cover an interval.                                          *)

OfYear(listing, y) == {f \in listing : f.year = y /\ f.gzip /\ f.matches}

\* A year that has a file has one that is newest, and no other is.
LEMMA NewestExists ==
    ASSUME NEW plugin \in Plugins, NEW listing, listing \subseteq plugin.listing,
           NEW y, OfYear(listing, y) # {}
    PROVE  /\ Newest(OfYear(listing, y)) \in OfYear(listing, y)
           /\ \A g \in OfYear(listing, y) :
                g.revision <= Newest(OfYear(listing, y)).revision
  <1> DEFINE files == OfYear(listing, y)
             R == {f.revision : f \in files}
             high == Cardinality(plugin.listing)
  <1>1. high \in Nat
    BY FetchConstants, FS_CardinalityType
  <1>2. \A f \in files : f.revision \in 1 .. high
    BY FetchConstants DEF OfYear
  <1> HIDE DEF high, files
  <1>3. R \in SUBSET (0 .. high) /\ R # {}
    <2>1. PICK f \in files : TRUE
      BY DEF files
    <2>2. f.revision \in R
      BY <2>1
    <2> QED
      BY <1>1, <1>2, <2>2
  <1>4. PICK r \in R : \A k \in R : k <= r
    BY <1>1, <1>3, GreatestExists
  <1>5. \E f \in files : \A g \in files : g.revision <= f.revision
    BY <1>4
  <1>6. Newest(files) \in files /\ \A g \in files : g.revision <= Newest(files).revision
    BY <1>5 DEF Newest
  <1>7. QED
    BY <1>6 DEF files

\* The years of an interval are those of the instants in it, although the
\* last one is that of its exclusive end.
LEMMA YearsOfInstants ==
    ASSUME NEW interval \in Intervals, NEW y \in Int
    PROVE  y \in Years(interval) <=> \E t \in interval[1] .. interval[2] - 1 : Year(t) = y
  <1> DEFINE a == interval[1]
             b == interval[2]
  <1>1. a \in Int /\ b \in Int /\ a < b
    BY FetchConstants
  <1> HIDE DEF a, b
  <1>2. ASSUME NEW t \in a .. b - 1, Year(t) = y PROVE y \in Year(a) .. Year(b - 1)
    BY <1>1, <1>2 DEF Year
  <1>3. ASSUME y \in Year(a) .. Year(b - 1) PROVE \E t \in a .. b - 1 : Year(t) = y
    <2>1. CASE y = Year(a)
      BY <1>1, <2>1
    <2>2. CASE y # Year(a)
      <3>1. 2 * y \in a .. b - 1 /\ Year(2 * y) = y
        BY <1>1, <1>3, <2>2 DEF Year
      <3> QED
        BY <3>1
    <2> QED
      BY <2>1, <2>2
  <1>4. y \in Year(a) .. Year(b - 1) <=> \E t \in a .. b - 1 : Year(t) = y
    BY <1>2, <1>3
  <1>5. QED
    BY <1>4 DEF Years, a, b

\* The newest file of each year that has an instant in the interval.
Covering(listing, interval) ==
    {f \in listing :
       /\ f.gzip /\ f.matches
       /\ \E t \in interval[1] .. interval[2] - 1 : Year(t) = f.year
       /\ \A g \in listing :
            g.year = f.year /\ g.matches /\ g.gzip => g.revision <= f.revision}

LEMMA SelectionCovers ==
    ASSUME NEW plugin \in Plugins, NEW listing, listing \subseteq plugin.listing,
           NEW interval \in Intervals
    PROVE  FilenamesInInterval(listing, interval) = Covering(listing, interval)
  <1> DEFINE years == {z \in Years(interval) : OfYear(listing, z) # {}}
  <1>1. FilenamesInInterval(listing, interval) = {Newest(OfYear(listing, y)) : y \in years}
    BY DEF FilenamesInInterval, OfYear
  <1>2. ASSUME NEW y \in years PROVE Newest(OfYear(listing, y)) \in Covering(listing, interval)
    <2> DEFINE f == Newest(OfYear(listing, y))
    <2>1. f \in OfYear(listing, y) /\ \A g \in OfYear(listing, y) : g.revision <= f.revision
      BY NewestExists
    <2> HIDE DEF f
    <2>2. f \in listing /\ f.gzip /\ f.matches /\ f.year = y /\ y \in Int
      BY <2>1, FetchConstants DEF OfYear
    <2>3. \E t \in interval[1] .. interval[2] - 1 : Year(t) = f.year
      BY <2>2, YearsOfInstants
    <2>4. \A g \in listing : g.year = f.year /\ g.matches /\ g.gzip => g.revision <= f.revision
      BY <2>1, <2>2 DEF OfYear
    <2>5. f \in Covering(listing, interval)
      BY <2>2, <2>3, <2>4 DEF Covering
    <2> QED
      BY <2>5 DEF f
  <1>3. ASSUME NEW f \in Covering(listing, interval)
        PROVE  \E y \in years : f = Newest(OfYear(listing, y))
    <2>1. /\ f \in listing /\ f.gzip /\ f.matches
          /\ \E t \in interval[1] .. interval[2] - 1 : Year(t) = f.year
          /\ \A g \in listing : g.year = f.year /\ g.matches /\ g.gzip => g.revision <= f.revision
      BY <1>3 DEF Covering
    <2> DEFINE y == f.year
               n == Newest(OfYear(listing, y))
    <2>2. f \in OfYear(listing, y) /\ y \in Int
      BY <2>1, FetchConstants DEF OfYear
    <2>3. y \in years
      BY <2>1, <2>2, YearsOfInstants
    <2>4. n \in OfYear(listing, y) /\ \A g \in OfYear(listing, y) : g.revision <= n.revision
      BY <2>2, NewestExists
    <2> HIDE DEF n
    <2>5. n \in listing /\ n.gzip /\ n.matches /\ n.year = f.year
      BY <2>4 DEF OfYear
    <2>6. n.revision <= f.revision /\ f.revision <= n.revision
      BY <2>1, <2>2, <2>4, <2>5
    <2>7. n.revision \in Int /\ f.revision \in Int
      BY <2>1, <2>5, FetchConstants
    <2>8. n = f
      BY <2>1, <2>5, <2>6, <2>7, FetchConstants
    <2> QED
      BY <2>3, <2>8 DEF n
  <1>4. Covering(listing, interval) = {Newest(OfYear(listing, y)) : y \in years}
    BY <1>2, <1>3
  <1>5. QED
    BY <1>1, <1>4

-----------------------------------------------------------------------------
(* The extract: what there is to fetch is either to come or an artifact.   *)

Fields ==
    {"pc", "kind", "tried", "refreshes", "listing", "interval", "token", "headers", "attempt",
     "refreshed", "lost", "replaced", "seen", "files", "artifacts", "page", "failure"}

Record(j) == j = [field \in Fields |-> j[field]]

Wanted(j) ==
    IF j.kind = "index" THEN FilenamesInInterval(j.seen, j.interval) ELSE j.listing

JobSound(j) ==
    /\ Record(j)
    /\ \E plugin \in Plugins :
         /\ j.kind = plugin.kind /\ j.listing = plugin.listing /\ j.tried = Names(plugin)
    /\ j.interval \in Intervals /\ j.seen \subseteq j.listing
    /\ j.pc \in {"index", "files", "artifact", "copy", "pages", "done", "failed"}
    /\ j.pc # "failed" => j.failure = "none"
    /\ j.page \in Nat
    /\ j.pc = "index" => j.kind = "index"
    /\ j.pc = "copy" => j.kind \in {"local", "fixture"}
    /\ j.pc \in {"index", "copy"} => j.artifacts = {}
    /\ j.pc = "pages" => j.kind \in {"linked", "offset"}
    /\ j.pc \in {"files", "artifact"} =>
         /\ j.kind \in {"index", "names"}
         /\ j.files \cup j.artifacts = Wanted(j)
         /\ j.files \cap j.artifacts = {}
    /\ j.pc = "artifact" => j.files # {}

\* What an extract that is done has.
Complete(j, pages, there) ==
    /\ j.kind \in {"index", "names"} => j.artifacts = Wanted(j)
    /\ j.kind = "local" => j.artifacts = {f \in j.listing : f.matches}
    /\ j.kind = "fixture" => pages = {1}
    /\ j.kind = "linked" => 1 .. there \subseteq pages
    /\ j.kind = "offset" => {n \in 1 .. there : n <= MaxPages} \subseteq pages

FetchInv ==
    /\ server = [p \in {"accepts", "pages"} |-> server[p]] /\ server.pages \in Nat
    /\ data = [p \in {"files", "pages"} |-> data[p]]
    /\ job = Idle => DOMAIN data.files = {}
    /\ Working =>
         /\ JobSound(job)
         /\ job.pc = "pages" => 1 .. job.page \subseteq data.pages
         /\ job.pc = "done" => Complete(job, data.pages, server.pages)

LEMMA WantedIsListed == ASSUME NEW j, JobSound(j) PROVE Wanted(j) \subseteq j.listing
  <1>1. CASE j.kind = "index"
    <2>1. PICK plugin \in Plugins : j.listing = plugin.listing
      BY DEF JobSound
    <2>2. j.seen \subseteq plugin.listing /\ j.interval \in Intervals
      BY <2>1 DEF JobSound
    <2>3. FilenamesInInterval(j.seen, j.interval) = Covering(j.seen, j.interval)
      BY <2>2, SelectionCovers
    <2> QED
      BY <1>1, <2>1, <2>2, <2>3 DEF Wanted, Covering
  <1>2. CASE j.kind # "index"
    BY <1>2 DEF Wanted
  <1>3. QED
    BY <1>1, <1>2

LEMMA NextIsLeft ==
    ASSUME JobSound(job), job.pc \in {"files", "artifact"}, job.files # {}
    PROVE  NextFile \in job.files
  <1> DEFINE years == {f.year : f \in job.files}
  <1>1. job.files \subseteq job.listing
    BY WantedIsListed DEF JobSound
  <1>2. \A f \in job.listing : f.year \in Nat
    BY FetchConstants DEF JobSound
  <1>3. years \in SUBSET Nat /\ years # {}
    BY <1>1, <1>2
  <1>4. PICK y \in years : \A k \in years : y <= k
    BY <1>3, LeastExists
  <1>5. \E f \in job.files : \A g \in job.files : f.year <= g.year
    BY <1>4
  <1>6. QED
    BY <1>5 DEF NextFile

\* An extract that goes on with the same work.
SameTask(j) ==
    /\ Record(j)
    /\ j.kind = job.kind /\ j.listing = job.listing /\ j.interval = job.interval
    /\ j.seen = job.seen /\ j.files = job.files /\ j.artifacts = job.artifacts /\ j.page = job.page
    /\ j.tried = job.tried

GoesOn(j) == SameTask(j) /\ j.pc = job.pc /\ j.failure = job.failure

Fails(j) == SameTask(j) /\ j.pc = "failed"

LEMMA TaskKept == ASSUME JobSound(job), NEW j, GoesOn(j) \/ Fails(j) PROVE JobSound(j)
  BY DEF JobSound, GoesOn, Fails, SameTask, Wanted

LEMMA FailFails ==
    ASSUME Record(job), NEW reason PROVE Fails(Fail(reason)) /\ Fail(reason).failure = reason
  BY DEF Record, Fields, Fail, Fails, SameTask

\* An attempt either is the last one, or is made again, or goes well.
Outcome(j, raises, done) ==
    \/ raises = "nothing" /\ j = done
    \/ raises \in {"retryable", "integrity", "http"} /\ (GoesOn(j) \/ Fails(j))
    \/ raises \in {"os", "zlib"} /\ Fails(j) /\ j.failure = raises

LEMMA AfterAttempt ==
    ASSUME Record(job), NEW reply, NEW done,
           NEW raises \in {"nothing", "retryable", "integrity", "http", "os", "zlib"}
    PROVE  Outcome(After(reply, raises, done), raises, done)
  <1> DEFINE j == After(reply, raises, done)
  <1>1. CASE raises = "nothing"
    BY <1>1 DEF After, Retries, Outcome
  <1>2. CASE raises \in Retries
    <2>1. j = Again
      BY <1>2 DEF After, Retries
    <2>2. GoesOn([job EXCEPT !.attempt = @ + 1])
      BY DEF Record, Fields, GoesOn, SameTask
    <2> QED
      BY <1>2, <2>1, <2>2, FailFails DEF Again, Retries, Outcome
  <1>3. CASE raises = "http"
    <2>1. j = IF Refreshes(reply) THEN WithNewHeaders ELSE Fail(reply.status)
      BY <1>3 DEF After, Retries
    <2>2. \A headers : GoesOn([job EXCEPT !.attempt = @ + 1, !.headers = headers,
                                          !.refreshed = TRUE, !.replaced = 0])
      BY DEF Record, Fields, GoesOn, SameTask
    <2>3. GoesOn(WithNewHeaders) \/ Fails(WithNewHeaders)
      BY <2>2, FailFails DEF WithNewHeaders
    <2> QED
      BY <1>3, <2>1, <2>3, FailFails DEF Outcome
  <1>4. CASE raises \in {"os", "zlib"}
    BY <1>4, FailFails DEF After, Retries, Outcome
  <1>5. QED
    BY <1>1, <1>2, <1>3, <1>4 DEF Retries

-----------------------------------------------------------------------------
(* Every step keeps the data directory and the extract in order.           *)

DirInv == FetchInv /\ NothingHalfFetched

LEMMA BeginKeeps ==
    ASSUME DirInv, NEW plugin \in Plugins, NEW interval \in Intervals, Begin(plugin, interval)
    PROVE  DirInv'
  <1> DEFINE token == Token(plugin)
             pc == IF token.ok THEN FirstStep(plugin.kind) ELSE "failed"
             failure == IF token.ok THEN "none" ELSE "secret"
             files == IF plugin.kind = "names" THEN plugin.listing ELSE {}
             tried == Names(plugin)
  <1>1. /\ job' = [pc |-> pc, kind |-> plugin.kind, tried |-> tried, refreshes |-> plugin.refreshes,
                   listing |-> plugin.listing, interval |-> interval,
                   token |-> token.credential, headers |-> token.credential,
                   attempt |-> 1, refreshed |-> FALSE, lost |-> 0, replaced |-> 0,
                   seen |-> {}, files |-> files, artifacts |-> {}, page |-> 0, failure |-> failure]
        /\ job = Idle /\ server' = server /\ data' = data
    BY DEF Begin
  <1>2. plugin.kind \in {"index", "names", "local", "fixture", "linked", "offset"}
    BY FetchConstants
  <1>3. /\ pc \in {"index", "files", "copy", "pages", "failed"}
        /\ pc # "failed" => failure = "none"
        /\ pc = "index" => plugin.kind = "index"
        /\ pc = "files" => plugin.kind = "names" /\ files = plugin.listing
        /\ pc = "copy" => plugin.kind \in {"local", "fixture"}
        /\ pc = "pages" => plugin.kind \in {"linked", "offset"}
    BY <1>2 DEF FirstStep
  <1> HIDE DEF pc, failure, files, token, tried
  <1>4. JobSound(job')
    <2>1. Record(job')
      BY <1>1 DEF Record, Fields
    <2>2. /\ job'.pc = pc /\ job'.kind = plugin.kind /\ job'.listing = plugin.listing
          /\ job'.interval = interval /\ job'.tried = tried /\ job'.files = files /\ job'.seen = {}
          /\ job'.artifacts = {} /\ job'.page = 0 /\ job'.failure = failure
      BY <1>1
    <2>3. tried = Names(plugin)
      BY DEF tried
    <2>4. QED
      BY <1>3, <2>1, <2>2, <2>3 DEF JobSound, Wanted
  <1>5. job'.page = 0 /\ job'.pc = pc
    BY <1>1
  <1>6. Working' /\ (job'.pc = "pages" => 1 .. job'.page \subseteq data'.pages)
    BY <1>3, <1>5 DEF Working, Idle
  <1>7. DOMAIN data'.files = {}
    BY <1>1 DEF DirInv, FetchInv
  <1>8. QED
    BY <1>1, <1>3, <1>4, <1>5, <1>6, <1>7 DEF DirInv, FetchInv, NothingHalfFetched, Working

\* A step that leaves the data directory as it is.
LEMMA JobMoves ==
    ASSUME DirInv, Working, JobSound(job'), deployment' = deployment,
           server' = server, data' = data,
           job'.pc = "pages" => 1 .. job'.page \subseteq data.pages,
           job'.pc = "done" => Complete(job', data.pages, server.pages),
           job.pc # "failed",
           \A f \in job'.artifacts \ job.artifacts : data.files[f].content # "empty"
    PROVE  DirInv'
  <1>1. job' # Idle
    BY DEF JobSound, Idle
  <1>2. job.failure = "none"
    BY DEF DirInv, FetchInv, JobSound
  <1>3. NothingHalfFetched'
    BY <1>1, <1>2 DEF DirInv, NothingHalfFetched, Working, Unhandled
  <1>4. FetchInv'
    BY <1>1 DEF DirInv, FetchInv, Working
  <1>5. QED
    BY <1>3, <1>4 DEF DirInv

LEMMA CopyKeeps ==
    ASSUME DirInv, Working, Copy PROVE DirInv'
  <1> DEFINE matching == {f \in job.listing : f.matches}
             copied == [f \in matching |-> [content |-> "whole", mark |-> "checked"]]
  <1>1. /\ JobSound(job) /\ job.pc = "copy" /\ job.kind \in {"local", "fixture"} /\ Record(job)
        /\ server' = server /\ deployment' = deployment
        /\ data = [p \in {"files", "pages"} |-> data[p]]
    BY DEF DirInv, FetchInv, JobSound, Copy, secrets
  <1>2. CASE job.kind = "fixture"
    <2>1. job' = [job EXCEPT !.pc = "done"] /\ data' = [data EXCEPT !.pages = {1}]
      BY <1>2 DEF Copy
    <2>2. /\ JobSound(job') /\ job'.pc = "done" /\ job'.kind = "fixture"
          /\ job'.artifacts = job.artifacts /\ job'.failure = job.failure
      BY <1>1, <1>2, <2>1 DEF JobSound, Record, Fields, Wanted
    <2>3. data'.pages = {1} /\ data'.files = data.files /\ data' = [p \in {"files", "pages"} |-> data'[p]]
      BY <1>1, <2>1
    <2>4. Working' /\ Complete(job', data'.pages, server'.pages)
      BY <2>2, <2>3 DEF Complete, Working, Idle
    <2>5. NothingHalfFetched'
      BY <1>1, <2>2, <2>3, <2>4 DEF DirInv, NothingHalfFetched, Working, Unhandled
    <2> QED
      BY <1>1, <2>2, <2>3, <2>4, <2>5 DEF DirInv, FetchInv, Working
  <1>3. CASE job.kind = "local" /\ CopyAll(matching)
    <2>1. /\ data' = [data EXCEPT !.files = copied]
          /\ job' = IF matching = {} THEN Fail("empty")
                    ELSE [job EXCEPT !.pc = "done", !.artifacts = matching]
      BY <1>3 DEF CopyAll
    <2>2. data'.files = copied /\ data' = [p \in {"files", "pages"} |-> data'[p]]
      BY <1>1, <2>1
    <2>3. NothingHalfFetched'
      BY <2>2 DEF NothingHalfFetched
    <2>4. \/ Fails(job')
          \/ /\ Record(job') /\ job'.pc = "done" /\ job'.artifacts = matching
             /\ job'.kind = job.kind /\ job'.listing = job.listing
             /\ job'.interval = job.interval /\ job'.page = job.page /\ job'.failure = job.failure
             /\ job'.tried = job.tried /\ job'.seen = job.seen
      BY <1>1, <2>1, FailFails DEF Record, Fields
    <2>5. JobSound(job')
      BY <1>1, <2>4, TaskKept DEF JobSound
    <2>6. /\ Working' /\ job'.pc # "pages"
          /\ job'.pc = "done" => Complete(job', data'.pages, server'.pages)
      BY <1>3, <2>4 DEF Complete, Working, Idle, Fails
    <2> QED
      BY <1>1, <2>2, <2>3, <2>5, <2>6 DEF DirInv, FetchInv, Working
  <1>4. CASE CopyBreaksOff(matching)
    <2>1. PICK cut \in matching :
            \E before \in SUBSET (matching \ {cut}) :
               data' = [data EXCEPT !.files =
                          [f \in before \cup {cut} |->
                             IF f = cut THEN [content |-> "short", mark |-> "unhandled"]
                             ELSE [content |-> "whole", mark |-> "checked"]]]
      BY <1>4 DEF CopyBreaksOff
    <2>2. PICK before \in SUBSET (matching \ {cut}) :
             data' = [data EXCEPT !.files =
                        [f \in before \cup {cut} |->
                           IF f = cut THEN [content |-> "short", mark |-> "unhandled"]
                           ELSE [content |-> "whole", mark |-> "checked"]]]
      BY <2>1
    <2>3. /\ data' = [p \in {"files", "pages"} |-> data'[p]]
          /\ data'.files = [f \in before \cup {cut} |->
                              IF f = cut THEN [content |-> "short", mark |-> "unhandled"]
                              ELSE [content |-> "whole", mark |-> "checked"]]
      BY <1>1, <2>2
    <2>4. Fails(job') /\ job'.failure = "os"
      BY <1>1, <1>4, FailFails DEF CopyBreaksOff
    <2>5. JobSound(job') /\ job'.pc = "failed" /\ job'.artifacts = {}
      BY <1>1, <2>4, TaskKept DEF JobSound, Fails, SameTask
    <2>6. \A f \in DOMAIN data'.files :
            \/ data'.files[f].content = "whole"
            \/ data'.files[f].mark = "unhandled"
      BY <2>3
    <2>7. NothingHalfFetched'
      BY <2>4, <2>5, <2>6 DEF NothingHalfFetched, Unhandled
    <2>8. Working'
      BY <2>5 DEF JobSound, Working, Idle
    <2> QED
      BY <1>1, <2>3, <2>5, <2>7, <2>8 DEF DirInv, FetchInv, Working
  <1>5. QED
    BY <1>1, <1>2, <1>3, <1>4 DEF Copy

LEMMA NextCallStarts ==
    ASSUME NEW j, Record(j)
    PROVE  /\ Record(NextCall(j))
           /\ NextCall(j).kind = j.kind /\ NextCall(j).listing = j.listing
           /\ NextCall(j).interval = j.interval /\ NextCall(j).files = j.files
           /\ NextCall(j).artifacts = j.artifacts /\ NextCall(j).page = j.page
           /\ NextCall(j).pc = j.pc /\ NextCall(j).failure = j.failure
           /\ NextCall(j).tried = j.tried /\ NextCall(j).seen = j.seen
  BY DEF Record, Fields, NextCall

LEMMA GetIndexKeeps ==
    ASSUME DirInv, Working, GetIndex PROVE DirInv'
  <1>1. /\ JobSound(job) /\ job.pc = "index" /\ job.kind = "index" /\ Record(job)
        /\ job.artifacts = {}
        /\ server' = server /\ data' = data /\ deployment' = deployment
    BY DEF DirInv, FetchInv, JobSound, GetIndex, secrets
  <1>a. PICK reply \in Replies(job.headers) : \E seen \in Listed(reply) :
          LET selected == FilenamesInInterval(seen, job.interval)
              raises == IF reply.status = "ok" THEN "nothing" ELSE StreamOnce(reply).raises
              done == [job EXCEPT !.pc = "files", !.seen = seen, !.files = selected]
          IN  job' = After(reply, raises, NextCall(done))
    BY DEF GetIndex
  <1>b. PICK seen \in Listed(reply) :
          LET selected == FilenamesInInterval(seen, job.interval)
              raises == IF reply.status = "ok" THEN "nothing" ELSE StreamOnce(reply).raises
              done == [job EXCEPT !.pc = "files", !.seen = seen, !.files = selected]
          IN  job' = After(reply, raises, NextCall(done))
    BY <1>a
  <1>c. seen \subseteq job.listing
    BY DEF Listed, UpToFile
  <1> DEFINE selected == FilenamesInInterval(seen, job.interval)
             found == [job EXCEPT !.pc = "files", !.seen = seen, !.files = selected]
             done == NextCall(found)
  <1> DEFINE raises == IF reply.status = "ok" THEN "nothing" ELSE StreamOnce(reply).raises
  <1>3. raises \in {"nothing", "retryable", "integrity", "http", "os", "zlib"}
    BY DEF Replies, Bodies, Troubles, Denied, StreamOnce
  <1>2. job' = After(reply, raises, done)
    BY <1>b
  <1>4. Outcome(job', raises, done)
    BY <1>1, <1>2, <1>3, AfterAttempt
  <1> HIDE DEF raises
  <1>5. /\ Record(found) /\ found.kind = job.kind /\ found.listing = job.listing
        /\ found.interval = job.interval /\ found.files = selected
        /\ found.artifacts = job.artifacts /\ found.page = job.page
        /\ found.pc = "files" /\ found.failure = job.failure /\ found.tried = job.tried
        /\ found.seen = seen
    BY <1>1 DEF Record, Fields
  <1> HIDE DEF found
  <1>6. JobSound(done) /\ done.pc = "files" /\ done.artifacts = {}
    <2>1. /\ Record(done) /\ done.kind = job.kind /\ done.listing = job.listing
          /\ done.interval = job.interval /\ done.files = selected
          /\ done.artifacts = job.artifacts /\ done.page = job.page
          /\ done.pc = "files" /\ done.failure = job.failure /\ done.tried = job.tried
          /\ done.seen = seen
      BY <1>5, NextCallStarts
    <2> HIDE DEF done
    <2> QED
      BY <1>1, <1>c, <2>1 DEF JobSound, Wanted
  <1> HIDE DEF done
  <1>7. CASE job' = done
    BY <1>1, <1>6, <1>7, JobMoves
  <1>8. CASE GoesOn(job') \/ Fails(job')
    <2>1. JobSound(job') /\ job'.pc \notin {"pages", "done"} /\ job'.artifacts = job.artifacts
      BY <1>1, <1>8, TaskKept DEF GoesOn, Fails, SameTask
    <2> QED
      BY <1>1, <2>1, JobMoves
  <1>9. QED
    BY <1>4, <1>7, <1>8 DEF Outcome

\* What an attempt raises before it is uploaded, and the content that passes.
LEMMA AttemptChecks ==
    ASSUME NEW file, NEW reply \in Bodies \cup Troubles \cup {Denied, Disk}
    PROVE  LET checked == Checked(file, reply) IN
           /\ checked.raises \in {"nothing", "retryable", "integrity", "http", "os", "zlib"}
           /\ checked.raises = "http" =>
                checked.content = "absent" /\ reply.status \in {"denied", "missing"}
           /\ checked.raises = "nothing" =>
                \/ checked.content \in {"whole", "empty"}
                \/ /\ reply.status = "ok" /\ ~file.gzip
                   /\ reply.length = "none" \/ reply.body = "damaged"
  <1> DEFINE stream == StreamOnce(reply)
             checked == Checked(file, reply)
  <1>1. CASE reply \in Troubles \cup {Denied}
    <2>1. /\ stream.raises \in {"retryable", "http"} /\ stream.content \in {"absent", "short"}
          /\ stream.raises = "http" =>
               stream.content = "absent" /\ reply.status \in {"denied", "missing"}
      BY <1>1 DEF StreamOnce, Troubles, Denied
    <2>2. checked = stream
      BY <2>1 DEF Checked
    <2> QED
      BY <2>1, <2>2
  <1>2. CASE reply = Disk
    <2>1. stream.raises = "os" /\ stream.content = "short"
      BY <1>2 DEF StreamOnce, Disk
    <2>2. checked = stream
      BY <2>1 DEF Checked
    <2> QED
      BY <2>1, <2>2
  <1>3. CASE reply \in Bodies
    <2>1. /\ stream = [raises |-> IF LengthHolds(reply) THEN "nothing" ELSE "integrity",
                       content |-> reply.body]
          /\ reply.status = "ok"
          /\ reply.body \in {"whole", "short", "damaged", "empty", "over"}
          /\ reply.length \in {"true", "none", "wrong"}
      BY <1>3 DEF StreamOnce, Bodies
    <2>2. CASE ~LengthHolds(reply)
      <3>1. checked.raises = "integrity"
        BY <2>1, <2>2 DEF Checked
      <3> QED
        BY <3>1
    <2>3. CASE LengthHolds(reply) /\ file.gzip
      <3>1. checked = [raises |-> VerifyGzip(reply.body), content |-> reply.body]
        BY <2>1, <2>3 DEF Checked
      <3>2. reply.body \in {"whole", "short", "damaged", "empty"}
        BY <2>1, <2>3 DEF LengthHolds
      <3> QED
        BY <3>1, <3>2 DEF VerifyGzip
    <2>4. CASE LengthHolds(reply) /\ ~file.gzip
      <3>1. checked = [raises |-> "nothing", content |-> reply.body]
        BY <2>1, <2>4 DEF Checked
      <3>2. \/ reply.body \in {"whole", "empty"}
            \/ reply.length = "none" \/ reply.body = "damaged"
        BY <2>1, <2>4 DEF LengthHolds
      <3> QED
        BY <2>1, <2>4, <3>1, <3>2
    <2> QED
      BY <2>2, <2>3, <2>4
  <1>4. QED
    BY <1>1, <1>2, <1>3

\* What an attempt leaves under the name of its file.
LEMMA AttemptLeaves ==
    ASSUME NEW file, NEW reply \in Bodies \cup Troubles \cup {Denied, Disk},
           NEW upload \in Uploads
    PROVE  LET checked == Checked(file, reply)
               raises == Raised(checked, upload)
           IN  /\ raises \in {"nothing", "retryable", "integrity", "http", "os", "zlib"}
               /\ raises = "http" => reply.status \in {"denied", "missing"}
               /\ \/ Left(checked, upload) \in {"absent", "whole"}
                  \/ Left(checked, upload) = "empty" /\ raises = "nothing"
                  \/ Mark(file, reply, upload) = "unchecked"
                  \/ Mark(file, reply, upload) = "unhandled" /\ raises \in Unhandled
  <1> DEFINE checked == Checked(file, reply)
             raises == Raised(checked, upload)
             mark == Mark(file, reply, upload)
  <1>1. /\ checked.raises \in {"nothing", "retryable", "integrity", "http", "os", "zlib"}
        /\ checked.raises = "http" =>
             checked.content = "absent" /\ reply.status \in {"denied", "missing"}
        /\ checked.raises = "nothing" =>
             \/ checked.content \in {"whole", "empty"}
             \/ /\ reply.status = "ok" /\ ~file.gzip
                /\ reply.length = "none" \/ reply.body = "damaged"
    BY AttemptChecks
  <1>2. /\ raises \in {"os", "zlib"} => mark = "unhandled"
        /\ raises \notin {"os", "zlib"} /\ reply.status = "ok" /\ ~file.gzip
             /\ (reply.length = "none" \/ reply.body = "damaged") => mark = "unchecked"
    BY DEF Mark
  <1> HIDE DEF mark, checked
  <1>3. CASE ~deployment.remote
    <2>1. raises = checked.raises
      BY <1>3 DEF Raised
    <2>2. Left(checked, upload) = IF checked.raises \in Retries THEN "absent" ELSE checked.content
      BY <1>3 DEF Left, LeftLocal
    <2>3. Unhandled = {"os", "zlib"}
      BY <1>3 DEF Unhandled
    <2> QED
      BY <1>1, <1>2, <2>1, <2>2, <2>3 DEF Retries, mark, checked
  <1>4. CASE deployment.remote /\ checked.raises # "nothing"
    <2>1. raises = checked.raises
      BY <1>4 DEF Raised
    <2>2. Left(checked, upload) = "absent"
      BY <1>4 DEF Left, LeftRemote
    <2> QED
      BY <1>1, <2>1, <2>2 DEF mark, checked
  <1>5. CASE deployment.remote /\ checked.raises = "nothing" /\ upload # "stored"
    <2>1. raises = "os"
      BY <1>5 DEF Raised
    <2>2. "os" \in Unhandled
      BY DEF Unhandled
    <2> QED
      BY <1>2, <2>1, <2>2 DEF mark, checked
  <1>6. CASE deployment.remote /\ checked.raises = "nothing" /\ upload = "stored"
    <2>1. raises = "nothing"
      BY <1>6 DEF Raised
    <2>2. Left(checked, upload) = checked.content
      BY <1>6 DEF Left, LeftRemote
    <2> QED
      BY <1>1, <1>2, <1>6, <2>1, <2>2 DEF mark, checked
  <1>7. QED
    BY <1>3, <1>4, <1>5, <1>6

LEMMA GetFileKeeps ==
    ASSUME DirInv, Working, GetFile PROVE DirInv'
  <1> DEFINE file == NextFile
             done == [job EXCEPT !.pc = "artifact"]
  <1>1. /\ JobSound(job) /\ job.pc = "files" /\ Record(job) /\ job.files # {}
        /\ job.files \cap job.artifacts = {} /\ job.failure = "none"
        /\ server' = server /\ deployment' = deployment
        /\ data = [p \in {"files", "pages"} |-> data[p]]
    BY DEF DirInv, FetchInv, JobSound, GetFile, secrets
  <1>2. PICK reply \in Replies(job.headers) \cup {Disk}, upload \in Uploads :
          /\ data' = [data EXCEPT !.files =
                        With(@, file, [content |-> Left(Checked(file, reply), upload),
                                       mark |-> Mark(file, reply, upload)])]
          /\ job' = After(reply, Raised(Checked(file, reply), upload), done)
    BY DEF GetFile
  <1> DEFINE stream == Checked(file, reply)
             left == [content |-> Left(stream, upload), mark |-> Mark(file, reply, upload)]
             raises == Raised(stream, upload)
  <1>3. reply \in Bodies \cup Troubles \cup {Denied, Disk}
    BY DEF Replies
  <1>4. /\ raises \in {"nothing", "retryable", "integrity", "http", "os", "zlib"}
        /\ \/ left.content \in {"absent", "whole"}
           \/ left.content = "empty" /\ raises = "nothing"
           \/ left.mark = "unchecked"
           \/ left.mark = "unhandled" /\ raises \in Unhandled
        /\ Unhandled \subseteq {"os", "zlib"} /\ Unhandled' = Unhandled
    BY <1>1, <1>3, AttemptLeaves DEF Unhandled
  <1>5. Outcome(job', raises, done)
    BY <1>1, <1>2, <1>4, AfterAttempt
  <1>6. file \in job.files /\ file \notin job.artifacts
    BY <1>1, NextIsLeft
  <1>7. /\ JobSound(done) /\ done.artifacts = job.artifacts
        /\ done.pc = "artifact" /\ done.failure = "none"
    BY <1>1 DEF JobSound, Record, Fields, Wanted
  <1>8. data' = [data EXCEPT !.files = With(@, file, left)]
    BY <1>2
  <1> HIDE DEF raises, left, done, file
  <1>9. /\ data' = [p \in {"files", "pages"} |-> data'[p]]
        /\ data'.files = With(data.files, file, left)
    BY <1>1, <1>8
  <1>10. /\ DOMAIN data'.files = DOMAIN data.files \cup {file}
         /\ data'.files[file] = left
         /\ \A f \in DOMAIN data.files \ {file} : data'.files[f] = data.files[f]
    BY <1>9 DEF With
  <1>11. /\ JobSound(job') /\ job'.artifacts = job.artifacts /\ job'.pc \notin {"pages", "done"}
         /\ raises \in {"os", "zlib"} => job'.failure = raises
    BY <1>1, <1>5, <1>7, TaskKept DEF Outcome, GoesOn, Fails, SameTask
  <1>12. Working'
    BY <1>11 DEF JobSound, Working, Idle
  <1>13. NothingHalfFetched'
    <2> SUFFICES ASSUME NEW f \in DOMAIN data'.files
                 PROVE  \/ data'.files[f].content \in {"absent", "whole"}
                        \/ data'.files[f].content = "empty" /\ f \notin job'.artifacts
                        \/ data'.files[f].mark = "unchecked"
                        \/ /\ data'.files[f].mark = "unhandled"
                           /\ job'.failure \in Unhandled' /\ f \notin job'.artifacts
      BY DEF NothingHalfFetched
    <2>1. CASE f = file
      BY <1>1, <1>4, <1>6, <1>10, <1>11, <2>1
    <2>2. CASE f # file
      BY <1>1, <1>4, <1>10, <1>11, <2>2 DEF DirInv, NothingHalfFetched, Unhandled
    <2> QED
      BY <2>1, <2>2
  <1>14. FetchInv'
    BY <1>1, <1>9, <1>11, <1>12 DEF DirInv, FetchInv, Working
  <1>15. QED
    BY <1>13, <1>14 DEF DirInv

LEMMA AddArtifactKeeps ==
    ASSUME DirInv, Working, AddArtifact PROVE DirInv'
  <1> DEFINE file == NextFile
             rest == [job EXCEPT !.pc = "files", !.files = @ \ {file}, !.artifacts = @ \cup {file}]
  <1>1. /\ JobSound(job) /\ job.pc = "artifact" /\ Record(job) /\ job.files # {}
        /\ server' = server /\ data' = data /\ deployment' = deployment
    BY DEF DirInv, FetchInv, JobSound, AddArtifact, secrets
  <1>2. CASE data.files[file].content = "empty"
    <2>1. Fails(job')
      BY <1>1, <1>2, FailFails DEF AddArtifact
    <2>2. JobSound(job') /\ job'.pc \notin {"pages", "done"} /\ job'.artifacts = job.artifacts
      BY <1>1, <2>1, TaskKept DEF Fails, SameTask
    <2> QED
      BY <1>1, <2>2, JobMoves
  <1>3. CASE data.files[file].content # "empty"
    <2>1. job' = NextCall(rest)
      BY <1>3 DEF AddArtifact
    <2>2. file \in job.files
      BY <1>1, NextIsLeft
    <2> HIDE DEF file
    <2>3. /\ Record(rest) /\ rest.kind = job.kind /\ rest.listing = job.listing
          /\ rest.interval = job.interval /\ rest.files = job.files \ {file}
          /\ rest.artifacts = job.artifacts \cup {file} /\ rest.page = job.page
          /\ rest.pc = "files" /\ rest.failure = job.failure /\ rest.tried = job.tried
          /\ rest.seen = job.seen
      BY <1>1 DEF Record, Fields
    <2> HIDE DEF rest
    <2>4. /\ Record(job') /\ job'.kind = job.kind /\ job'.listing = job.listing
          /\ job'.interval = job.interval /\ job'.files = job.files \ {file}
          /\ job'.artifacts = job.artifacts \cup {file} /\ job'.page = job.page
          /\ job'.pc = "files" /\ job'.failure = job.failure /\ job'.tried = job.tried
          /\ job'.seen = job.seen
      BY <2>1, <2>3, NextCallStarts
    <2>5. JobSound(job')
      BY <1>1, <2>2, <2>4 DEF JobSound, Wanted
    <2> QED
      BY <1>1, <1>3, <2>4, <2>5, JobMoves
  <1>4. QED
    BY <1>2, <1>3

LEMMA AllFilesKeeps ==
    ASSUME DirInv, Working, AllFiles PROVE DirInv'
  <1>1. /\ JobSound(job) /\ job.pc = "files" /\ Record(job) /\ job.files = {}
        /\ job' = [job EXCEPT !.pc = "done"]
        /\ server' = server /\ data' = data /\ deployment' = deployment
    BY DEF DirInv, FetchInv, JobSound, AllFiles, secrets
  <1>2. /\ JobSound(job') /\ job'.pc = "done" /\ job'.kind = job.kind
        /\ job'.artifacts = job.artifacts /\ Wanted(job') = Wanted(job)
    BY <1>1 DEF JobSound, Record, Fields, Wanted
  <1>3. Complete(job', data.pages, server.pages)
    BY <1>1, <1>2 DEF JobSound, Complete
  <1>4. QED
    BY <1>1, <1>2, <1>3, JobMoves

\* A step of an extract that fetches pages and no file.
LEMMA PagesMove ==
    ASSUME DirInv, Working, job.pc # "failed", JobSound(job'), job'.artifacts = job.artifacts,
           deployment' = deployment, server' = server,
           NEW pages, data' = [data EXCEPT !.pages = pages],
           job'.pc = "pages" => 1 .. job'.page \subseteq pages,
           job'.pc = "done" => Complete(job', pages, server.pages)
    PROVE  DirInv'
  <1>1. data'.pages = pages /\ data'.files = data.files /\ data' = [p \in {"files", "pages"} |-> data'[p]]
    BY DEF DirInv, FetchInv
  <1>2. job' # Idle /\ job.failure = "none"
    BY DEF DirInv, FetchInv, JobSound, Idle
  <1>3. NothingHalfFetched'
    BY <1>1, <1>2 DEF DirInv, NothingHalfFetched, Unhandled, Working
  <1>4. FetchInv'
    BY <1>1, <1>2 DEF DirInv, FetchInv, Working
  <1>5. QED
    BY <1>3, <1>4 DEF DirInv

LEMMA FailureKeeps ==
    ASSUME DirInv, Working, job.pc # "failed", NEW reason, job' = Fail(reason),
           deployment' = deployment, server' = server, data' = data
    PROVE  DirInv'
  <1>1. JobSound(job) /\ Record(job)
    BY DEF DirInv, FetchInv, JobSound
  <1>2. Fails(job')
    BY <1>1, FailFails
  <1>3. JobSound(job') /\ job'.pc = "failed" /\ job'.artifacts = job.artifacts
    BY <1>1, <1>2, TaskKept DEF Fails, SameTask
  <1>4. QED
    BY <1>3, JobMoves

LEMMA PagesKeep ==
    ASSUME DirInv, Working, WritePage \/ PageFails \/ AllPages PROVE DirInv'
  <1>1. /\ JobSound(job) /\ job.pc = "pages" /\ Record(job) /\ job.kind \in {"linked", "offset"}
        /\ job.page \in Nat /\ 1 .. job.page \subseteq data.pages /\ server.pages \in Nat
        /\ server' = server /\ deployment' = deployment
    BY DEF DirInv, FetchInv, JobSound, WritePage, PageFails, AllPages, secrets
  <1>2. CASE PageFails
    <2>1. PICK reason : job' = Fail(reason)
      BY <1>2 DEF PageFails
    <2> QED
      BY <1>1, <1>2, <2>1, FailureKeeps DEF PageFails
  <1>3. CASE WritePage
    <2>1. CASE job' = Fail("capped") /\ data' = data
      BY <1>1, <2>1, FailureKeeps
    <2>2. CASE /\ job' = [job EXCEPT !.page = @ + 1]
               /\ data' = [data EXCEPT !.pages = @ \cup {job.page + 1}]
      <3> DEFINE pages == data.pages \cup {job.page + 1}
      <3>1. /\ JobSound(job') /\ job'.artifacts = job.artifacts
            /\ job'.pc = "pages" /\ job'.page = job.page + 1
        BY <1>1, <2>2 DEF JobSound, Record, Fields, Wanted
      <3>2. 1 .. job'.page \subseteq pages
        BY <1>1, <3>1
      <3>3. data' = [data EXCEPT !.pages = pages]
        BY <2>2
      <3> HIDE DEF pages
      <3> QED
        BY <1>1, <3>1, <3>2, <3>3, PagesMove
    <2> QED
      BY <1>3, <2>1, <2>2 DEF WritePage
  <1>4. CASE AllPages
    <2> DEFINE pages == data.pages \cup {1}
    <2>1. job' = [job EXCEPT !.pc = "done"] /\ LastPage
      BY <1>4 DEF AllPages
    <2>2. /\ JobSound(job') /\ job'.artifacts = job.artifacts
          /\ job'.pc = "done" /\ job'.kind = job.kind
      BY <1>1, <2>1 DEF JobSound, Record, Fields, Wanted
    <2>3. /\ job.kind = "linked" => job.page >= server.pages
          /\ job.kind = "offset" => job.page >= server.pages \/ job.page >= MaxPages
      BY <2>1 DEF LastPage
    <2>4. Complete(job', pages, server.pages)
      BY <1>1, <2>2, <2>3, FetchConstants DEF Complete
    <2>5. data' = [data EXCEPT !.pages = pages]
      BY <1>4 DEF AllPages
    <2> HIDE DEF pages
    <2> QED
      BY <1>1, <2>2, <2>4, <2>5, PagesMove
  <1>5. QED
    BY <1>2, <1>3, <1>4

\* What the operator, the server, time and other callers do.
LEMMA WorldKeeps ==
    ASSUME DirInv, Inspect \/ Rotate \/ PageAppears \/ Tick \/ Leave
    PROVE  DirInv'
  <1>1. CASE Inspect \/ Tick
    <2>1. job' = job /\ data' = data /\ server' = server /\ deployment' = deployment
      BY <1>1 DEF Inspect, Tick, secrets
    <2> QED
      BY <2>1 DEF DirInv, FetchInv, NothingHalfFetched, Unhandled, Working, JobSound, Complete, Wanted
  <1>2. CASE Rotate
    <2>1. /\ data' = data /\ deployment' = deployment
          /\ \E accepts : server' = [server EXCEPT !.accepts = accepts]
          /\ job' = IF job = Idle THEN job ELSE [job EXCEPT !.lost = @ + 1, !.replaced = @ + 1]
      BY <1>2 DEF Rotate
    <2>2. server' = [p \in {"accepts", "pages"} |-> server'[p]] /\ server'.pages = server.pages
      BY <2>1 DEF DirInv, FetchInv
    <2>3. CASE job = Idle
      BY <2>1, <2>2, <2>3 DEF DirInv, FetchInv, NothingHalfFetched, Unhandled, Working
    <2>4. CASE job # Idle
      <3>1. JobSound(job) /\ job' = [job EXCEPT !.lost = @ + 1, !.replaced = @ + 1]
        BY <2>1, <2>4 DEF DirInv, FetchInv, Working
      <3>2. GoesOn(job')
        BY <3>1 DEF JobSound, Record, Fields, GoesOn, SameTask
      <3>3. JobSound(job') /\ job'.pc = job.pc /\ job'.page = job.page /\ job'.kind = job.kind
        BY <3>1, <3>2, TaskKept DEF GoesOn, SameTask
      <3>4. Working'
        BY <3>3 DEF JobSound, Working, Idle
      <3>5. NothingHalfFetched'
        BY <2>1, <2>4, <3>2 DEF DirInv, NothingHalfFetched, Unhandled, Working, GoesOn, SameTask
      <3>6. Complete(job', data.pages, server'.pages) <=> Complete(job, data.pages, server.pages)
        BY <2>2, <3>2 DEF Complete, GoesOn, SameTask, Wanted
      <3>7. FetchInv'
        BY <2>1, <2>2, <2>4, <3>3, <3>4, <3>6 DEF DirInv, FetchInv, Working
      <3> QED
        BY <3>5, <3>7 DEF DirInv
    <2> QED
      BY <2>3, <2>4
  <1>3. CASE PageAppears
    <2>1. /\ job # Idle /\ job.pc = "pages" /\ server' = [server EXCEPT !.pages = @ + 1]
          /\ job' = job /\ data' = data /\ deployment' = deployment
      BY <1>3 DEF PageAppears, secrets
    <2>2. server' = [p \in {"accepts", "pages"} |-> server'[p]] /\ server'.pages \in Nat
      BY <2>1 DEF DirInv, FetchInv
    <2> QED
      BY <2>1, <2>2 DEF DirInv, FetchInv, NothingHalfFetched, Unhandled, Working
  <1>4. CASE Leave
    <2>1. /\ job' = Idle /\ data' = [files |-> <<>>, pages |-> {}]
          /\ server' = [server EXCEPT !.pages = 0]
      BY <1>4 DEF Leave
    <2>2. /\ server' = [p \in {"accepts", "pages"} |-> server'[p]] /\ server'.pages = 0
          /\ data' = [p \in {"files", "pages"} |-> data'[p]] /\ DOMAIN data'.files = {}
      BY <2>1 DEF DirInv, FetchInv
    <2> QED
      BY <2>1, <2>2 DEF DirInv, FetchInv, NothingHalfFetched, Unhandled, Working
  <1>5. QED
    BY <1>1, <1>2, <1>3, <1>4

LEMMA DirKept == DirInv /\ [Next]_vars => DirInv'
  <1> SUFFICES ASSUME DirInv, [Next]_vars PROVE DirInv'
    OBVIOUS
  <1>1. CASE \E plugin \in Plugins, interval \in Intervals : Begin(plugin, interval)
    BY <1>1, BeginKeeps
  <1>2. CASE job # Idle /\ Extract
    BY <1>2, CopyKeeps, GetIndexKeeps, GetFileKeeps, AddArtifactKeeps, AllFilesKeeps, PagesKeep
       DEF Extract, Working
  <1>3. CASE Inspect \/ Rotate \/ PageAppears \/ Tick \/ Leave
    BY <1>3, WorldKeeps
  <1>4. CASE vars' = vars
    <2>1. job' = job /\ data' = data /\ server' = server /\ deployment' = deployment
      BY <1>4 DEF vars
    <2> QED
      BY <2>1 DEF DirInv, FetchInv, NothingHalfFetched, Unhandled, Working, JobSound, Complete, Wanted
  <1>5. QED
    BY <1>1, <1>2, <1>3, <1>4 DEF Next

LEMMA InitDir == Init => DirInv
  <1> SUFFICES ASSUME Init PROVE DirInv
    OBVIOUS
  <1>1. /\ \E accepts : server = [accepts |-> accepts, pages |-> 0]
        /\ job = Idle /\ data = [files |-> <<>>, pages |-> {}]
    BY DEF Init
  <1>2. /\ server = [p \in {"accepts", "pages"} |-> server[p]] /\ server.pages = 0
        /\ data = [p \in {"files", "pages"} |-> data[p]] /\ DOMAIN data.files = {}
    BY <1>1
  <1>3. QED
    BY <1>1, <1>2 DEF DirInv, FetchInv, NothingHalfFetched, Unhandled, Working

LEMMA DirHolds == Spec => []DirInv
  BY InitDir, DirKept, PTL DEF Spec

\* What lies in the data directory is whole wherever that can be told, and an
\* empty file is no artifact.
THEOREM NoHalfFile == Spec => []NothingHalfFetched
  <1>1. DirInv => NothingHalfFetched
    BY DEF DirInv
  <1>2. QED
    BY <1>1, DirHolds, PTL

\* An extract that ends has everything the interval covers.
THEOREM DoneIsComplete == Spec => []ExtractIsComplete
  <1>1. DirInv => ExtractIsComplete
    <2> SUFFICES ASSUME DirInv, Working, job.pc = "done" PROVE ExtractIsComplete
      BY DEF ExtractIsComplete
    <2>1. JobSound(job) /\ Complete(job, data.pages, server.pages)
      BY DEF DirInv, FetchInv
    <2>2. job.kind \in {"index", "names", "local", "fixture", "linked", "offset"}
      BY <2>1, FetchConstants DEF JobSound
    <2>3. job.kind = "index" => job.artifacts = Covering(job.seen, job.interval)
      BY <2>1, SelectionCovers DEF JobSound, Complete, Wanted
    <2>4. job.kind = "names" => job.artifacts = job.listing
      BY <2>1 DEF Complete, Wanted
    <2> QED
      BY <2>1, <2>2, <2>3, <2>4 DEF ExtractIsComplete, Complete, Covering
  <1>2. QED
    BY <1>1, DirHolds, PTL

-----------------------------------------------------------------------------
(* The stores and the caches.  A credential that was replaced is in no     *)
(* store; what is kept of it is bounded by the age of the caches.          *)

\* Those that an operator has yet to set.
Ahead == {"file", "vault"} \X (Cardinality(DOMAIN replaced) + 1 .. MaxRotations)

\* The stores that are looked into.
Shelf ==
    {"env"} \cup
      {s \in {"file", "vault"} : stores[s] # None \/ (s = "vault" /\ deployment.hook)}

\* A value in a store: no other one has its credentials, and none of them
\* was replaced or is yet to come.
Standing(s, n) ==
    /\ ValuesOf(stores[s][n]) \cap (Ahead \cup {None} \cup DOMAIN replaced) = {}
    /\ IF s = "env" THEN \A c \in ValuesOf(stores[s][n]) : c[1] = "env"
       ELSE Usable(stores[s][n], HttpTokenKeys)

Apart(s, n, t, q) ==
    <<s, n>> # <<t, q>> => ValuesOf(stores[s][n]) \cap ValuesOf(stores[t][q]) = {}

Timed ==
    /\ clock \in Nat
    /\ deployment \in [backend : {"env", "file"}, ttl : Nat, settings : BOOLEAN,
                       hook : BOOLEAN, remote : BOOLEAN]
    /\ \A c \in DOMAIN replaced : replaced[c] \in Nat /\ replaced[c] <= clock

StoresInv ==
    /\ Timed
    /\ stores = [s \in {"env", "file", "vault"} |-> stores[s]]
    /\ IsFiniteSet(DOMAIN replaced) /\ DOMAIN replaced \cap (Ahead \cup {None}) = {}
    /\ \A s \in Shelf : \A n \in DOMAIN stores[s] : Standing(s, n)
    /\ \A s, t \in Shelf : \A n \in DOMAIN stores[s], q \in DOMAIN stores[t] : Apart(s, n, t, q)

Spent(raw) == ValuesOf(raw) \cap DOMAIN replaced

\* What was read from a store, or from the file as it is cached.
Young(raw) ==
    \A c \in Spent(raw) : deployment.ttl > 0 /\ clock - replaced[c] <= deployment.ttl - 1

\* What any of the caches may hand out.
Recent(raw) == \A c \in Spent(raw) : clock - replaced[c] < 2 * deployment.ttl - 1

Life == IF deployment.ttl = 0 THEN 0 ELSE deployment.ttl - 1

Entry(e) ==
    /\ e.at \in Nat /\ e.at <= clock
    /\ e.raw # None => \A c \in Spent(e.raw) : e.at - replaced[c] <= Life

FromEnvironment(raw) == \A c \in ValuesOf(raw) : c[1] = "env"

FileCacheInv(file) ==
    file # None =>
      /\ file.at \in Nat /\ file.at <= clock
      /\ \A n \in DOMAIN file.values : \A c \in Spent(file.values[n]) : file.at <= replaced[c]

CacheInv(m) ==
    /\ m = [p \in {"process", "file", "settings"} |-> m[p]]
    /\ FileCacheInv(m.file)
    /\ \A n \in DOMAIN m.process :
         /\ Entry(m.process[n]) /\ m.process[n].raw # None
         /\ m.process[n].source = "env" => FromEnvironment(m.process[n].raw)
    /\ \A n \in DOMAIN m.settings : Entry(m.settings[n])

CredInv == StoresInv /\ CacheInv(memory)

-----------------------------------------------------------------------------
(* Lookups.                                                                *)

\* A lookup over a list asks for one name after the other, until one is
\* answered.
OneByOne(found, names, pinned, m) ==
    /\ found[0] = Found(None, m)
    /\ \A n \in 1 .. Len(names) :
         found[n] = IF found[n - 1].status = "absent"
                    THEN Lookup(names[n], pinned, found[n - 1].memory)
                    ELSE found[n - 1]
    /\ LookupAll(names, pinned, m) = found[Len(names)]

LEMMA LookupsInOrder ==
    ASSUME NEW names, Len(names) \in Nat, NEW pinned, NEW m
    PROVE  \E found : OneByOne(found, names, pinned, m)
  <1> DEFINE Step(before, n) == IF before.status = "absent"
                                THEN Lookup(names[n], pinned, before.memory) ELSE before
             Follows(f, N) == f = [n \in 0 .. N |-> IF n = 0 THEN Found(None, m) ELSE Step(f[n - 1], n)]
             N == Len(names)
             T == {n \in 0 .. N : \E f : Follows(f, n)}
  <1>1. LookupAll(names, pinned, m) = (CHOOSE f : Follows(f, N))[N]
    BY DEF LookupAll
  <1> HIDE DEF Step
  <1>2. 0 \in T
    <2> DEFINE g == [n \in 0 .. 0 |-> Found(None, m)]
    <2>1. Follows(g, 0)
      OBVIOUS
    <2> HIDE DEF g, Follows
    <2> QED
      BY <2>1
  <1>3. ASSUME NEW n \in 0 .. N - 1, n \in T PROVE n + 1 \in T
    <2>1. PICK f : Follows(f, n)
      BY <1>3
    <2> DEFINE g == [k \in 0 .. n + 1 |-> IF k = n + 1 THEN Step(f[n], n + 1) ELSE f[k]]
    <2>2. \A k \in 0 .. n + 1 : g[k] = IF k = 0 THEN Found(None, m) ELSE Step(g[k - 1], k)
      <3> TAKE k \in 0 .. n + 1
      <3>1. CASE k = n + 1
        BY <3>1
      <3>2. CASE k \in 0 .. n
        BY <2>1, <3>2
      <3> QED
        BY <3>1, <3>2
    <2>3. Follows(g, n + 1)
      BY <2>2
    <2> HIDE DEF g, Follows
    <2> QED
      BY <2>3
  <1>4. N \in T
    BY <1>2, <1>3, UpTo
  <1> DEFINE found == CHOOSE f : Follows(f, N)
  <1>5. Follows(found, N)
    BY <1>4
  <1> HIDE DEF found
  <1>6. /\ found[0] = Found(None, m)
        /\ \A n \in 1 .. N : found[n] = Step(found[n - 1], n)
    BY <1>5
  <1>7. LookupAll(names, pinned, m) = found[N]
    BY <1>1 DEF found
  <1>8. QED
    BY <1>6, <1>7 DEF Step, OneByOne

\* What is picked is what the first of the keys that are there holds.
LEMMA PickIsHeld ==
    ASSUME NEW raw, NEW keys, Len(keys) \in Nat, DOMAIN keys = 1 .. Len(keys), Usable(raw, keys)
    PROVE  Pick(Payload(raw), keys) \in ValuesOf(raw)
  <1> DEFINE payload == Payload(raw)
             S == {n \in DOMAIN keys : keys[n] \in DOMAIN payload}
  <1>1. S \in SUBSET Nat /\ S # {}
    BY DEF Usable, Range
  <1>2. PICK n \in S : \A k \in S : n <= k
    BY <1>1, LeastExists
  <1>3. \A i \in 1 .. n - 1 : keys[i] \notin DOMAIN payload
    BY <1>1, <1>2
  <1>4. \E first : /\ first \in DOMAIN keys /\ keys[first] \in DOMAIN payload
                   /\ \A i \in 1 .. first - 1 : keys[i] \notin DOMAIN payload
    BY <1>2, <1>3
  <1>5. PICK k \in DOMAIN payload : Pick(payload, keys) = payload[k]
    BY <1>4 DEF Pick
  <1>6. QED
    BY <1>5 DEF ValuesOf, Range

LEMMA KeysAreListed ==
    ASSUME NEW keys \in {HttpTokenKeys, DsnKeys}
    PROVE  Len(keys) \in Nat /\ DOMAIN keys = 1 .. Len(keys)
  BY DEF HttpTokenKeys, DsnKeys

LEMMA NamesAreListed ==
    ASSUME NEW plugin
    PROVE  Len(Names(plugin)) \in Nat /\ DOMAIN Names(plugin) = 1 .. Len(Names(plugin))
  <1> DEFINE own == plugin.auth_env
             first == <<"DET", plugin.provider>>
             second == <<plugin.provider>>
             derived == <<first, second>>
             S == {own, first, second}
  <1>1. SecretNameCandidates(plugin.provider) = derived
    BY DEF SecretNameCandidates
  <1> HIDE DEF own, first, second
  <1>2. derived \in Seq(S) /\ <<own>> \in Seq(S) /\ <<own, derived[1]>> \in Seq(S)
    OBVIOUS
  <1>3. <<own>> \o derived \in Seq(S)
    BY <1>2
  <1>4. Names(plugin) \in Seq(S)
    BY <1>1, <1>2, <1>3 DEF Names, SourceSecretNames, own
  <1>5. QED
    BY <1>4

-----------------------------------------------------------------------------
(* Every lookup keeps the caches in order.                                 *)

\* An answer that leaves the caches in order.
Orderly(found) == CacheInv(found.memory) /\ (found.status = "raw" => Recent(found.raw))

LEMMA StandingIsYoung ==
    ASSUME StoresInv, NEW s \in Shelf, NEW name
    PROVE  /\ In(stores[s], name) # None => Young(In(stores[s], name))
           /\ s = "env" /\ In(stores[s], name) # None => FromEnvironment(In(stores[s], name))
  <1>1. CASE name \in DOMAIN stores[s]
    <2>1. Standing(s, name)
      BY <1>1 DEF StoresInv
    <2> QED
      BY <1>1, <2>1 DEF In, Young, Spent, Standing, FromEnvironment
  <1>2. QED
    BY <1>1 DEF In

LEMMA YoungIsRecent == ASSUME StoresInv, NEW raw, Young(raw) PROVE Recent(raw)
  <1> SUFFICES ASSUME NEW c \in Spent(raw) PROVE clock - replaced[c] < 2 * deployment.ttl - 1
    BY DEF Recent
  <1>1. deployment.ttl \in Nat /\ clock \in Nat /\ replaced[c] \in Nat
    BY DEF StoresInv, Timed, Spent
  <1>2. QED
    BY <1>1 DEF Young

\* An entry that is made now, and one that is still fresh.
LEMMA YoungEntry ==
    ASSUME StoresInv, NEW e, e.at = clock, e.raw # None => Young(e.raw) PROVE Entry(e)
  <1>1. clock \in Nat /\ deployment.ttl \in Nat
    BY DEF StoresInv, Timed
  <1> SUFFICES ASSUME e.raw # None, NEW c \in Spent(e.raw) PROVE e.at - replaced[c] <= Life
    BY <1>1 DEF Entry
  <1>2. replaced[c] \in Nat /\ deployment.ttl > 0 /\ clock - replaced[c] <= deployment.ttl - 1
    BY DEF StoresInv, Timed, Spent, Young
  <1>3. QED
    BY <1>1, <1>2 DEF Life

LEMMA FreshIsRecent ==
    ASSUME StoresInv, NEW e, Entry(e), Fresh(e.at), e.raw # None PROVE Recent(e.raw)
  <1> SUFFICES ASSUME NEW c \in Spent(e.raw) PROVE clock - replaced[c] < 2 * deployment.ttl - 1
    BY DEF Recent
  <1>1. /\ clock \in Nat /\ deployment.ttl \in Nat /\ replaced[c] \in Nat
        /\ e.at \in Nat /\ e.at <= clock /\ e.at - replaced[c] <= Life
        /\ clock - e.at < deployment.ttl
    BY DEF StoresInv, Timed, Spent, Entry, Fresh
  <1>2. QED
    BY <1>1 DEF Life

\* What the file says, as it is or as it is cached.
LEMMA ReadIsYoung ==
    ASSUME StoresInv, NEW m, CacheInv(m)
    PROVE  /\ CacheInv(ReadSecretsFile(m).memory)
           /\ ReadSecretsFile(m).values # None =>
                \A name : In(ReadSecretsFile(m).values, name) # None
                            => Young(In(ReadSecretsFile(m).values, name))
  <1>1. CASE m.file # None /\ Fresh(m.file.at)
    <2>1. ReadSecretsFile(m) = [values |-> m.file.values, memory |-> m]
      BY <1>1 DEF ReadSecretsFile
    <2>2. ASSUME NEW n \in DOMAIN m.file.values PROVE Young(m.file.values[n])
      <3> SUFFICES ASSUME NEW c \in Spent(m.file.values[n])
                   PROVE  deployment.ttl > 0 /\ clock - replaced[c] <= deployment.ttl - 1
        BY DEF Young
      <3>1. /\ clock \in Nat /\ deployment.ttl \in Nat /\ replaced[c] \in Nat
            /\ m.file.at \in Nat /\ m.file.at <= clock /\ m.file.at <= replaced[c]
            /\ clock - m.file.at < deployment.ttl
        BY <1>1 DEF StoresInv, Timed, Spent, CacheInv, FileCacheInv, Fresh
      <3> QED
        BY <3>1
    <2> QED
      BY <2>1, <2>2 DEF In
  <1>2. CASE ~(m.file # None /\ Fresh(m.file.at)) /\ stores.file = None
    BY <1>2 DEF ReadSecretsFile
  <1>3. CASE ~(m.file # None /\ Fresh(m.file.at)) /\ stores.file # None
    <2> DEFINE file == [at |-> clock, values |-> stores.file]
               after == [m EXCEPT !.file = file]
    <2>1. ReadSecretsFile(m) = [values |-> stores.file, memory |-> after]
      BY <1>3 DEF ReadSecretsFile
    <2>2. "file" \in Shelf
      BY <1>3 DEF Shelf
    <2>6. \A n \in DOMAIN stores.file : Spent(stores.file[n]) = {}
      BY <2>2 DEF StoresInv, Standing, Spent
    <2>3. FileCacheInv(file)
      BY <2>6 DEF FileCacheInv, StoresInv, Timed
    <2> HIDE DEF file
    <2>4. /\ after = [p \in {"process", "file", "settings"} |-> after[p]]
          /\ after.file = file /\ after.process = m.process /\ after.settings = m.settings
      BY DEF CacheInv
    <2>5. CacheInv(after)
      BY <2>3, <2>4 DEF CacheInv
    <2> QED
      BY <2>1, <2>2, <2>5, StandingIsYoung
  <1>4. QED
    BY <1>1, <1>2, <1>3

LEMMA KeptInOrder ==
    ASSUME StoresInv, NEW m, CacheInv(m), NEW name, NEW raw, NEW source,
           raw # None => Young(raw),
           raw # None /\ source = "env" => FromEnvironment(raw)
    PROVE  Orderly(Kept(name, raw, source, m)) /\ Kept(name, raw, source, m).raw = raw
  <1> DEFINE e == [at |-> clock, raw |-> raw, source |-> source]
             after == [m EXCEPT !.process = With(@, name, e)]
  <1>1. CASE raw = None \/ raw.form = "broken"
    BY <1>1, YoungIsRecent DEF Kept, Found, Orderly
  <1>2. CASE ~(raw = None \/ raw.form = "broken")
    <2>1. Kept(name, raw, source, m) = [status |-> "raw", raw |-> raw, memory |-> after]
      BY <1>2 DEF Kept, Found
    <2>2. Entry(e) /\ e.raw = raw /\ e.source = source
      BY <1>2, YoungEntry
    <2> HIDE DEF e
    <2>3. /\ after = [p \in {"process", "file", "settings"} |-> after[p]]
          /\ after.file = m.file /\ after.process = With(m.process, name, e)
          /\ after.settings = m.settings
      BY DEF CacheInv
    <2> HIDE DEF after
    <2>4. \A n \in DOMAIN after.process :
            /\ Entry(after.process[n]) /\ after.process[n].raw # None
            /\ after.process[n].source = "env" => FromEnvironment(after.process[n].raw)
      BY <1>2, <2>2, <2>3 DEF CacheInv, With
    <2>5. CacheInv(after)
      BY <2>3, <2>4 DEF CacheInv
    <2> QED
      BY <1>2, <2>1, <2>5, YoungIsRecent DEF Orderly
  <1>3. QED
    BY <1>1, <1>2

LEMMA RememberedInOrder ==
    ASSUME StoresInv, NEW m, CacheInv(m), NEW name, NEW raw, raw # None => Young(raw)
    PROVE  CacheInv(Remember(name, raw, m))
  <1> DEFINE e == [at |-> clock, raw |-> raw]
             after == Remember(name, raw, m)
  <1>1. Entry(e)
    BY YoungEntry
  <1>2. /\ after = [p \in {"process", "file", "settings"} |-> after[p]]
        /\ after.file = m.file /\ after.process = m.process
        /\ after.settings = With(m.settings, name, e)
    BY DEF CacheInv, Remember
  <1> HIDE DEF e, after
  <1>3. \A n \in DOMAIN after.settings : Entry(after.settings[n])
    BY <1>1, <1>2 DEF CacheInv, With
  <1>4. CacheInv(after)
    BY <1>2, <1>3 DEF CacheInv
  <1>5. QED
    BY <1>4 DEF after

LEMMA PayloadInOrder ==
    ASSUME StoresInv, NEW m, CacheInv(m), NEW name, NEW backend \in {"env", "file"}
    PROVE  /\ Orderly(PayloadFor(name, backend, m))
           /\ backend = "env" /\ PayloadFor(name, backend, m).status = "raw"
                => FromEnvironment(PayloadFor(name, backend, m).raw)
  <1> DEFINE file == ReadSecretsFile(m)
             found == PayloadFor(name, backend, m)
  <1>1. CASE Cached(name, backend, m)
    <2> DEFINE e == m.process[name]
    <2>1. /\ Entry(e) /\ e.raw # None /\ Fresh(e.at)
          /\ e.source = "env" => FromEnvironment(e.raw)
          /\ backend = "env" => e.source = "env"
      BY <1>1 DEF CacheInv, Cached
    <2>2. found = Found(e.raw, m)
      BY <1>1 DEF PayloadFor
    <2> HIDE DEF e, found
    <2> QED
      BY <2>1, <2>2, FreshIsRecent DEF Orderly, Found, found
  <1>2. CASE ~Cached(name, backend, m) /\ In(stores.env, name) # None
    <2>1. found = Kept(name, stores.env[name], "env", m) /\ stores.env[name] = In(stores.env, name)
      BY <1>2 DEF PayloadFor, In
    <2>2. Young(stores.env[name]) /\ FromEnvironment(stores.env[name])
      BY <1>2, <2>1, StandingIsYoung DEF Shelf
    <2> HIDE DEF found
    <2> QED
      BY <2>1, <2>2, KeptInOrder DEF found
  <1>3. CASE ~Cached(name, backend, m) /\ In(stores.env, name) = None /\ backend = "env"
    BY <1>3 DEF PayloadFor, Found, Orderly
  <1>4. CASE ~Cached(name, backend, m) /\ In(stores.env, name) = None /\ backend = "file"
    <2>1. found = IF file.values = None THEN Failed(file.memory)
                  ELSE Kept(name, In(file.values, name), "file", file.memory)
      BY <1>4 DEF PayloadFor
    <2>2. /\ CacheInv(file.memory)
          /\ file.values # None /\ In(file.values, name) # None => Young(In(file.values, name))
      BY ReadIsYoung
    <2> HIDE DEF found, file
    <2>3. Orderly(found)
      BY <2>1, <2>2, KeptInOrder DEF Failed, Orderly
    <2> QED
      BY <1>4, <2>3 DEF found
  <1>5. QED
    BY <1>1, <1>2, <1>3, <1>4

LEMMA SettingsInOrder ==
    ASSUME StoresInv, NEW m, CacheInv(m), NEW name
    PROVE  Orderly(SettingsLookup(name, m))
  <1> DEFINE file == ReadSecretsFile(m)
             keep(raw, after) == Found(raw, Remember(name, raw, after))
             found == SettingsLookup(name, m)
  <1>1. ASSUME NEW raw, NEW after, CacheInv(after), raw # None => Young(raw)
        PROVE  Orderly(keep(raw, after))
    BY <1>1, RememberedInOrder, YoungIsRecent DEF Found, Orderly
  <1>2. CASE Remembered(name, m)
    <2> DEFINE e == m.settings[name]
    <2>1. Entry(e) /\ Fresh(e.at)
      BY <1>2 DEF CacheInv, Remembered
    <2>2. found = Found(e.raw, m)
      BY <1>2 DEF SettingsLookup
    <2> HIDE DEF e, found
    <2> QED
      BY <2>1, <2>2, FreshIsRecent DEF Orderly, Found, found
  <1>3. CASE ~Remembered(name, m)
    <2>1. found = IF deployment.hook THEN keep(In(stores.vault, name), m)
                  ELSE IF In(stores.env, name) # None THEN keep(stores.env[name], m)
                  ELSE IF deployment.backend # "file" THEN keep(None, m)
                  ELSE IF file.values = None THEN Failed(Remember(name, None, file.memory))
                  ELSE keep(In(file.values, name), file.memory)
      BY <1>3 DEF SettingsLookup
    <2>2. deployment.hook => (In(stores.vault, name) # None => Young(In(stores.vault, name)))
      BY StandingIsYoung DEF Shelf
    <2>3. In(stores.env, name) # None => Young(stores.env[name])
      BY StandingIsYoung DEF Shelf, In
    <2>4. /\ CacheInv(file.memory)
          /\ file.values # None /\ In(file.values, name) # None => Young(In(file.values, name))
      BY ReadIsYoung
    <2>5. CacheInv(Remember(name, None, file.memory))
      BY <2>4, RememberedInOrder
    <2>6. Orderly(Failed(Remember(name, None, file.memory)))
      BY <2>5 DEF Failed, Orderly
    <2> HIDE DEF found, file, keep
    <2>7. CASE deployment.hook
      BY <1>1, <2>1, <2>2, <2>7 DEF found
    <2>8. CASE ~deployment.hook /\ In(stores.env, name) # None
      BY <1>1, <2>1, <2>3, <2>8 DEF found
    <2>9. CASE ~deployment.hook /\ In(stores.env, name) = None
      BY <1>1, <2>1, <2>4, <2>6, <2>9 DEF found
    <2> QED
      BY <2>7, <2>8, <2>9
  <1>4. QED
    BY <1>2, <1>3

LEMMA LookupInOrder ==
    ASSUME StoresInv, NEW m, CacheInv(m), NEW name, NEW pinned \in BOOLEAN
    PROVE  /\ Orderly(Lookup(name, pinned, m))
           /\ pinned /\ Lookup(name, pinned, m).status = "raw"
                => FromEnvironment(Lookup(name, pinned, m).raw)
  <1>1. CASE deployment.settings /\ ~pinned
    BY <1>1, SettingsInOrder DEF Lookup
  <1>2. CASE ~(deployment.settings /\ ~pinned)
    <2> DEFINE backend == IF pinned THEN "env" ELSE deployment.backend
    <2>1. backend \in {"env", "file"} /\ (pinned => backend = "env")
      BY DEF StoresInv, Timed
    <2>2. Lookup(name, pinned, m) = PayloadFor(name, backend, m)
      BY <1>2 DEF Lookup
    <2> HIDE DEF backend
    <2> QED
      BY <2>1, <2>2, PayloadInOrder
  <1>3. QED
    BY <1>1, <1>2

\* The credential that a lookup comes to is not too old; one that is pinned
\* is the environment's.
LEMMA ResolvedInOrder ==
    ASSUME StoresInv, NEW m, CacheInv(m), NEW names, Len(names) \in Nat,
           NEW keys \in {HttpTokenKeys, DsnKeys}, NEW pinned \in BOOLEAN
    PROVE  LET resolved == ResolveSecret(names, keys, pinned, m)
           IN  /\ CacheInv(resolved.memory)
               /\ resolved.credential \in DOMAIN replaced
                    => clock - replaced[resolved.credential] < 2 * deployment.ttl - 1
               /\ pinned /\ resolved.ok => resolved.credential[1] = "env"
  <1> DEFINE N == Len(names)
             all == LookupAll(names, pinned, m)
             resolved == ResolveSecret(names, keys, pinned, m)
             Good(f) == /\ Orderly(f)
                        /\ pinned /\ f.status = "raw" => FromEnvironment(f.raw)
  <1>0. PICK found : OneByOne(found, names, pinned, m)
    BY LookupsInOrder
  <1>1. /\ found[0] = Found(None, m)
        /\ \A n \in 1 .. N : found[n] = IF found[n - 1].status = "absent"
                                        THEN Lookup(names[n], pinned, found[n - 1].memory)
                                        ELSE found[n - 1]
        /\ all = found[N]
    BY <1>0 DEF OneByOne
  <1> DEFINE T == {n \in 0 .. N : Good(found[n])}
  <1>2. 0 \in T
    BY <1>1 DEF Found, Orderly
  <1>3. ASSUME NEW n \in 0 .. N - 1, n \in T PROVE n + 1 \in T
    <2>1. found[n + 1] = IF found[n].status = "absent"
                         THEN Lookup(names[n + 1], pinned, found[n].memory) ELSE found[n]
      BY <1>1
    <2>2. Good(found[n]) /\ CacheInv(found[n].memory)
      BY <1>3 DEF Orderly
    <2>3. Good(Lookup(names[n + 1], pinned, found[n].memory))
      BY <2>2, LookupInOrder
    <2> HIDE DEF Good
    <2>4. Good(found[n + 1])
      BY <2>1, <2>2, <2>3
    <2> QED
      BY <2>4
  <1>4. Good(all)
    <2> HIDE DEF T, Good
    <2>1. N \in Nat
      OBVIOUS
    <2> HIDE DEF N
    <2>2. \A n \in 0 .. N - 1 : n \in T => n + 1 \in T
      BY <1>3
    <2>3. \A n \in 0 .. N : n \in T
      BY <1>2, <2>1, <2>2, UpTo
    <2> QED
      BY <1>1, <2>1, <2>3 DEF T
  <1> DEFINE usable == all.status = "raw" /\ Usable(all.raw, keys)
  <1>5. resolved = [ok |-> usable, memory |-> all.memory,
                    credential |-> IF usable THEN Pick(Payload(all.raw), keys) ELSE None]
    BY DEF ResolveSecret
  <1> HIDE DEF all, resolved
  <1>6. CASE usable
    <2> DEFINE c == Pick(Payload(all.raw), keys)
    <2>1. c \in ValuesOf(all.raw)
      BY <1>6, PickIsHeld, KeysAreListed
    <2>2. resolved.credential = c /\ resolved.memory = all.memory
      BY <1>5, <1>6
    <2> HIDE DEF c
    <2>3. c \in DOMAIN replaced => clock - replaced[c] < 2 * deployment.ttl - 1
      BY <1>4, <1>6, <2>1 DEF Orderly, Recent, Spent
    <2>4. pinned => c[1] = "env"
      BY <1>4, <1>6, <2>1 DEF FromEnvironment
    <2> QED
      BY <1>4, <2>2, <2>3, <2>4 DEF Orderly, resolved
  <1>7. CASE ~usable
    <2>1. resolved.credential = None /\ ~resolved.ok /\ resolved.memory = all.memory
      BY <1>5, <1>7
    <2>2. None \notin DOMAIN replaced
      BY DEF StoresInv
    <2> QED
      BY <1>4, <2>1, <2>2 DEF Orderly, resolved
  <1>8. QED
    BY <1>6, <1>7

LEMMA InvalidatedInOrder ==
    ASSUME NEW m, CacheInv(m), NEW names PROVE CacheInv(Invalidated(names, m))
  <1> DEFINE after == Invalidated(names, m)
             left == DOMAIN m.process \ Range(names)
  <1>1. /\ after = [p \in {"process", "file", "settings"} |-> after[p]]
        /\ after.file = None /\ after.settings = m.settings
        /\ after.process = [n \in left |-> m.process[n]]
    BY DEF CacheInv, Invalidated, Restrict
  <1> HIDE DEF after
  <1>2. \A n \in DOMAIN after.process : n \in DOMAIN m.process /\ after.process[n] = m.process[n]
    BY <1>1
  <1>3. CacheInv(after)
    BY <1>1, <1>2 DEF CacheInv, FileCacheInv
  <1>4. QED
    BY <1>3 DEF after

-----------------------------------------------------------------------------
(* Every step keeps the stores and the caches in order.                    *)

\* A step that is one of lookups only.
LEMMA CachesMove ==
    ASSUME StoresInv, CacheInv(memory'), clock' = clock, deployment' = deployment,
           stores' = stores, replaced' = replaced
    PROVE  CredInv'
  <1>1. StoresInv'
    <2>1. Timed' /\ Shelf' = Shelf /\ Ahead' = Ahead
      BY DEF StoresInv, Timed, Shelf, Ahead
    <2>2. \A s, n : Standing(s, n)' <=> Standing(s, n)
      BY <2>1 DEF Standing
    <2>3. \A s, n, t, q : Apart(s, n, t, q)' <=> Apart(s, n, t, q)
      BY DEF Apart
    <2> QED
      BY <2>1, <2>2, <2>3 DEF StoresInv
  <1>2. CacheInv(memory)'
    BY DEF CacheInv, FileCacheInv, Entry, Spent, Life
  <1>3. QED
    BY <1>1, <1>2 DEF CredInv

LEMMA TokenInOrder ==
    ASSUME CredInv, NEW plugin
    PROVE  /\ CacheInv(Token(plugin).memory)
           /\ Token(plugin).credential \in DOMAIN replaced
                => clock - replaced[Token(plugin).credential] < 2 * deployment.ttl - 1
  <1>1. CASE plugin.public \/ plugin.kind \in {"local", "fixture"}
    <2>1. Token(plugin).memory = memory /\ Token(plugin).credential = None
      BY <1>1 DEF Token
    <2>2. None \notin DOMAIN replaced
      BY DEF CredInv, StoresInv
    <2> QED
      BY <2>1, <2>2 DEF CredInv
  <1>2. CASE ~(plugin.public \/ plugin.kind \in {"local", "fixture"})
    <2>1. Token(plugin) = ResolveSecret(Names(plugin), HttpTokenKeys, FALSE, memory)
      BY <1>2 DEF Token
    <2> QED
      BY <2>1, ResolvedInOrder, NamesAreListed DEF CredInv
  <1>3. QED
    BY <1>1, <1>2

LEMMA RefreshInOrder ==
    ASSUME CredInv, JobSound(job), NEW reply PROVE CacheInv(Remembers(reply))
  <1>1. Len(job.tried) \in Nat
    BY NamesAreListed DEF JobSound
  <1>2. CacheInv(Invalidated(job.tried, memory))
    BY InvalidatedInOrder DEF CredInv
  <1>3. CacheInv(Refreshed.memory)
    BY <1>1, <1>2, ResolvedInOrder DEF CredInv, Refreshed
  <1>4. QED
    BY <1>3 DEF Remembers, CredInv

LEMMA InspectedInOrder ==
    ASSUME CredInv
    PROVE  CacheInv(Inspected.memory) /\ (Inspected.ok => Inspected.credential[1] = "env")
  <1> DEFINE names == <<<<"DET", "p">>>>
  <1>1. Len(names) \in Nat
    OBVIOUS
  <1> HIDE DEF names
  <1>2. /\ CacheInv(ResolveSecret(names, DsnKeys, TRUE, memory).memory)
        /\ ResolveSecret(names, DsnKeys, TRUE, memory).ok
             => ResolveSecret(names, DsnKeys, TRUE, memory).credential[1] = "env"
    BY <1>1, ResolvedInOrder DEF CredInv
  <1>3. QED
    BY <1>2 DEF Inspected, names

LEMMA ExtractInOrder ==
    ASSUME CredInv, DirInv, Working, Extract PROVE CredInv'
  <1>1. clock' = clock /\ deployment' = deployment /\ stores' = stores /\ replaced' = replaced
    BY DEF Extract, Copy, GetIndex, GetFile, AddArtifact, AllFiles, WritePage, PageFails,
           AllPages, secrets
  <1>2. JobSound(job)
    BY DEF DirInv, FetchInv
  <1>3. memory' = memory \/ \E reply : memory' = Remembers(reply)
    BY DEF Extract, Copy, GetIndex, GetFile, AddArtifact, AllFiles, WritePage, PageFails, AllPages
  <1>4. CacheInv(memory') /\ StoresInv
    BY <1>2, <1>3, RefreshInOrder DEF CredInv
  <1>5. QED
    BY <1>1, <1>4, CachesMove

LEMMA TickInOrder == ASSUME CredInv, Tick PROVE CredInv'
  <1>1. /\ clock' = clock + 1 /\ deployment' = deployment /\ stores' = stores
        /\ replaced' = replaced /\ memory' = memory /\ clock \in Nat
    BY DEF Tick, secrets, CredInv, StoresInv, Timed
  <1>2. Timed'
    BY <1>1 DEF CredInv, StoresInv, Timed
  <1>3. StoresInv'
    <2>1. Shelf' = Shelf /\ Ahead' = Ahead
      BY <1>1 DEF Shelf, Ahead
    <2>2. \A s, n : Standing(s, n)' <=> Standing(s, n)
      BY <1>1, <2>1 DEF Standing
    <2>3. \A s, n, t, q : Apart(s, n, t, q)' <=> Apart(s, n, t, q)
      BY <1>1 DEF Apart
    <2> QED
      BY <1>1, <1>2, <2>1, <2>2, <2>3 DEF CredInv, StoresInv
  <1>4. FileCacheInv(memory.file)'
    BY <1>1 DEF CredInv, CacheInv, FileCacheInv, Spent
  <1>5. \A e : Entry(e) => Entry(e)'
    BY <1>1 DEF Entry, Spent, Life
  <1>6. CacheInv(memory)'
    BY <1>1, <1>4, <1>5 DEF CredInv, CacheInv
  <1>7. QED
    BY <1>3, <1>6 DEF CredInv

\* An operator sets a credential that was never there before; the one that it
\* replaces is in no other place.
LEMMA RotateInOrder == ASSUME CredInv, Rotate PROVE CredInv'
  <1> DEFINE N == Cardinality(DOMAIN replaced)
  <1>0. PICK store \in {"file", "vault"} :
          stores[store] # None /\ \E name \in DOMAIN stores[store] : Rotated(store, name)
    BY DEF Rotate
  <1>1. PICK name \in DOMAIN stores[store] : Rotated(store, name)
    BY <1>0
  <1> DEFINE raw == stores[store][name]
             old == Pick(Payload(raw), HttpTokenKeys)
             new == <<store, N + 1>>
  <1>2. /\ stores' = [stores EXCEPT ![store] = With(@, name, Object(new))]
        /\ replaced' = With(replaced, old, clock)
        /\ clock' = clock /\ deployment' = deployment /\ memory' = memory
    BY <1>1 DEF Rotate, Rotated, In
  <1>3. /\ store \in Shelf /\ StoresInv /\ Standing(store, name)
        /\ stores = [s \in {"env", "file", "vault"} |-> stores[s]]
    BY <1>0, <1>1 DEF CredInv, StoresInv, Shelf
  <1>4. old \in ValuesOf(raw) /\ old \notin (Ahead \cup {None} \cup DOMAIN replaced)
    <2>1. Usable(raw, HttpTokenKeys)
      BY <1>3 DEF Standing
    <2>2. old \in ValuesOf(raw)
      BY <2>1, PickIsHeld, KeysAreListed
    <2> QED
      BY <1>3, <2>2 DEF Standing
  <1>5. /\ N \in Nat /\ N + 1 <= MaxRotations /\ MaxRotations \in Nat
        /\ IsFiniteSet(DOMAIN replaced) /\ DOMAIN replaced \cap (Ahead \cup {None}) = {}
    BY <1>3, FS_CardinalityType, DeploymentConstants DEF Rotate, StoresInv
  <1>6. new \in Ahead /\ new # None /\ new # old /\ new \notin DOMAIN replaced
    <2>1. new \in Ahead
      BY <1>5 DEF Ahead
    <2>2. new \in Later
      BY <1>5 DEF Later
    <2> QED
      BY <1>4, <1>5, <2>1, <2>2, DeploymentConstants
  <1> HIDE DEF old
  <1>7. /\ DOMAIN replaced' = DOMAIN replaced \cup {old} /\ replaced'[old] = clock
        /\ \A c \in DOMAIN replaced : replaced'[c] = replaced[c]
    BY <1>2, <1>4 DEF With
  <1>8. IsFiniteSet(DOMAIN replaced') /\ Cardinality(DOMAIN replaced') = N + 1
    BY <1>4, <1>5, <1>7, FS_AddElement
  <1>9. Ahead' \subseteq Ahead /\ new \notin Ahead'
    BY <1>5, <1>8 DEF Ahead
  <1>10. Timed'
    BY <1>2, <1>3, <1>7 DEF StoresInv, Timed
  <1> HIDE DEF new
  <1>11. /\ stores' = [s \in {"env", "file", "vault"} |-> stores'[s]]
         /\ stores'[store] = With(stores[store], name, Object(new))
         /\ \A s \in {"env", "file", "vault"} \ {store} : stores'[s] = stores[s]
    BY <1>2, <1>3
  <1>12. Shelf' \subseteq Shelf /\ Shelf \subseteq {"env", "file", "vault"}
    BY <1>0, <1>2, <1>3, <1>11 DEF Shelf
  <1>13. ASSUME NEW s \in Shelf', NEW n \in DOMAIN stores'[s]
         PROVE  /\ n \in DOMAIN stores[s]
                /\ <<s, n>> = <<store, name>> => stores'[s][n] = Object(new)
                /\ <<s, n>> # <<store, name>> => stores'[s][n] = stores[s][n]
    BY <1>1, <1>11, <1>12, <1>13 DEF With
  <1>14. ValuesOf(Object(new)) = {new} /\ Usable(Object(new), HttpTokenKeys)
    <2> DEFINE fields == [token |-> new, host |-> <<"host", 0>>]
               p == Payload(Object(new))
    <2>1. Object(new).fields = fields /\ Object(new).form = "object"
      BY DEF Object
    <2>2. DOMAIN fields \cap CredentialKeys = {"token"} /\ fields.token = new
      BY DEF CredentialKeys
    <2>3. p = [k \in {"token"} |-> fields[k]]
      BY <2>1, <2>2 DEF Payload, Restrict
    <2> HIDE DEF p, fields
    <2>4. DOMAIN p = {"token"} /\ p["token"] = new
      BY <2>2, <2>3
    <2>5. Range(p) = {new}
      BY <2>4 DEF Range
    <2>6. "token" \in Range(HttpTokenKeys)
      <3>1. 1 \in DOMAIN HttpTokenKeys /\ HttpTokenKeys[1] = "token"
        BY DEF HttpTokenKeys
      <3> QED
        BY <3>1 DEF Range
    <2> QED
      BY <2>1, <2>4, <2>5, <2>6 DEF Usable, ValuesOf, p
  <1>15. ASSUME NEW s \in Shelf', NEW n \in DOMAIN stores'[s] PROVE Standing(s, n)'
    <2>1. s \in Shelf /\ n \in DOMAIN stores[s]
      BY <1>12, <1>13
    <2>2. CASE <<s, n>> = <<store, name>>
      <3>1. ValuesOf(stores'[s][n]) = {new} /\ Usable(stores'[s][n], HttpTokenKeys) /\ s # "env"
        BY <1>1, <1>13, <1>14, <2>2
      <3> QED
        BY <1>6, <1>7, <1>9, <3>1 DEF Standing
    <2>3. CASE <<s, n>> # <<store, name>>
      <3>1. Standing(s, n) /\ Apart(s, n, store, name)
        BY <1>1, <1>3, <2>1 DEF StoresInv
      <3>2. stores'[s][n] = stores[s][n]
        BY <1>13, <2>3
      <3>3. old \notin ValuesOf(stores[s][n])
        BY <1>4, <2>3, <3>1 DEF Apart
      <3> QED
        BY <1>7, <1>9, <3>1, <3>2, <3>3 DEF Standing
    <2> QED
      BY <2>2, <2>3
  <1>16. ASSUME NEW s \in Shelf', NEW n \in DOMAIN stores'[s], <<s, n>> # <<store, name>>
         PROVE  new \notin ValuesOf(stores'[s][n])
    <2>1. s \in Shelf /\ n \in DOMAIN stores[s] /\ stores'[s][n] = stores[s][n]
      BY <1>12, <1>13, <1>16
    <2>2. Standing(s, n)
      BY <1>3, <2>1 DEF StoresInv
    <2> QED
      BY <1>6, <2>1, <2>2 DEF Standing
  <1>17. ASSUME NEW s \in Shelf', NEW t \in Shelf', NEW n \in DOMAIN stores'[s],
                NEW q \in DOMAIN stores'[t], <<s, n>> # <<t, q>>
         PROVE  ValuesOf(stores'[s][n]) \cap ValuesOf(stores'[t][q]) = {}
    <2>1. CASE <<s, n>> = <<store, name>>
      BY <1>13, <1>14, <1>16, <1>17, <2>1
    <2>2. CASE <<t, q>> = <<store, name>>
      BY <1>13, <1>14, <1>16, <1>17, <2>2
    <2>3. CASE <<s, n>> # <<store, name>> /\ <<t, q>> # <<store, name>>
      <3>1. /\ s \in Shelf /\ n \in DOMAIN stores[s] /\ stores'[s][n] = stores[s][n]
            /\ t \in Shelf /\ q \in DOMAIN stores[t] /\ stores'[t][q] = stores[t][q]
        BY <1>12, <1>13, <2>3
      <3>2. Apart(s, n, t, q)
        BY <1>3, <3>1 DEF StoresInv
      <3> QED
        BY <1>17, <3>1, <3>2 DEF Apart
    <2> QED
      BY <2>1, <2>2, <2>3
  <1>18. StoresInv'
    <2>1. DOMAIN replaced' \cap (Ahead' \cup {None}) = {}
      BY <1>4, <1>5, <1>7, <1>9
    <2>2. \A s \in Shelf' : \A n \in DOMAIN stores'[s] : Standing(s, n)'
      BY <1>15
    <2>3. \A s, t \in Shelf' : \A n \in DOMAIN stores'[s], q \in DOMAIN stores'[t] : Apart(s, n, t, q)'
      BY <1>17 DEF Apart
    <2> QED
      BY <1>8, <1>10, <1>11, <2>1, <2>2, <2>3 DEF StoresInv
  <1>19. clock \in Nat /\ deployment.ttl \in Nat
    BY <1>3 DEF StoresInv, Timed
  <1>20. \A e : Entry(e) => Entry(e)'
    BY <1>2, <1>7, <1>19 DEF Entry, Spent, Life
  <1>21. FileCacheInv(memory.file)'
    BY <1>2, <1>7, <1>19 DEF CredInv, CacheInv, FileCacheInv, Spent
  <1>22. CacheInv(memory)'
    BY <1>2, <1>20, <1>21 DEF CredInv, CacheInv
  <1>23. QED
    BY <1>18, <1>22 DEF CredInv

Ordered == DirInv /\ CredInv

LEMMA OrderKept == Ordered /\ [Next]_vars => Ordered'
  <1> SUFFICES ASSUME DirInv, CredInv, [Next]_vars PROVE CredInv'
    BY DirKept DEF Ordered
  <1>1. CASE \E plugin \in Plugins, interval \in Intervals : Begin(plugin, interval)
    <2>1. PICK plugin \in Plugins, interval \in Intervals : Begin(plugin, interval)
      BY <1>1
    <2>2. /\ memory' = Token(plugin).memory
          /\ clock' = clock /\ deployment' = deployment /\ stores' = stores /\ replaced' = replaced
      BY <2>1 DEF Begin, secrets
    <2> QED
      BY <2>2, TokenInOrder, CachesMove DEF CredInv
  <1>2. CASE job # Idle /\ Extract
    BY <1>2, ExtractInOrder DEF Working
  <1>3. CASE Inspect
    <2>1. /\ memory' = Inspected.memory
          /\ clock' = clock /\ deployment' = deployment /\ stores' = stores /\ replaced' = replaced
      BY <1>3 DEF Inspect, secrets
    <2> QED
      BY <2>1, InspectedInOrder, CachesMove DEF CredInv
  <1>4. CASE Rotate
    BY <1>4, RotateInOrder
  <1>5. CASE Tick
    BY <1>5, TickInOrder
  <1>6. CASE PageAppears \/ Leave \/ vars' = vars
    <2>1. /\ memory' = memory
          /\ clock' = clock /\ deployment' = deployment /\ stores' = stores /\ replaced' = replaced
      BY <1>6 DEF PageAppears, Leave, secrets, vars
    <2> QED
      BY <2>1, CachesMove DEF CredInv
  <1>7. QED
    BY <1>1, <1>2, <1>3, <1>4, <1>5, <1>6 DEF Next

LEMMA InitCred == Init => CredInv
  <1> SUFFICES ASSUME Init PROVE CredInv
    OBVIOUS
  <1>1. /\ clock = 0 /\ memory = NoMemory /\ replaced = <<>>
        /\ \E d \in Deployments : deployment = d.deployment /\ stores = d.stores
    BY DEF Init
  <1>2. PICK d \in Deployments : deployment = d.deployment /\ stores = d.stores
    BY <1>1
  <1>3. DOMAIN replaced = {} /\ IsFiniteSet(DOMAIN replaced) /\ Cardinality(DOMAIN replaced) = 0
    BY <1>1, FS_EmptySet
  <1>4. /\ deployment \in [backend : {"env", "file"}, ttl : Nat, settings : BOOLEAN,
                           hook : BOOLEAN, remote : BOOLEAN]
        /\ stores = [s \in {"env", "file", "vault"} |-> stores[s]]
        /\ Shelf = Stocked(d)
    BY <1>2, DeploymentConstants DEF Shelf, Stocked
  <1>5. Timed
    BY <1>1, <1>3, <1>4 DEF Timed
  <1>6. Ahead \subseteq Later
    BY <1>3, DeploymentConstants DEF Ahead, Later
  <1>7. ASSUME NEW s \in Shelf, NEW n \in DOMAIN stores[s]
        PROVE  /\ Standing(s, n)
               /\ \A t \in Shelf : \A q \in DOMAIN stores[t] : Apart(s, n, t, q)
    <2>1. s \in Stocked(d) /\ n \in DOMAIN d.stores[s]
      BY <1>2, <1>4
    <2>2. /\ ValuesOf(d.stores[s][n]) \cap (Later \cup {None}) = {}
          /\ IF s = "env" THEN \A c \in ValuesOf(d.stores[s][n]) : c[1] = "env"
             ELSE Usable(d.stores[s][n], HttpTokenKeys)
      BY <2>1, DeploymentConstants
    <2>3. \A t \in Stocked(d) : \A q \in DOMAIN d.stores[t] :
            <<s, n>> # <<t, q>> => ValuesOf(d.stores[s][n]) \cap ValuesOf(d.stores[t][q]) = {}
      BY <2>1, DeploymentConstants
    <2>4. \A t \in Shelf : \A q \in DOMAIN stores[t] : Apart(s, n, t, q)
      BY <1>2, <1>4, <2>3 DEF Apart
    <2>5. Standing(s, n)
      BY <1>2, <1>3, <1>6, <2>2 DEF Standing
    <2> QED
      BY <2>4, <2>5
  <1>8. StoresInv
    BY <1>3, <1>4, <1>5, <1>7 DEF StoresInv
  <1>9. CacheInv(memory)
    BY <1>1 DEF CacheInv, FileCacheInv, NoMemory
  <1>10. QED
    BY <1>8, <1>9 DEF CredInv

LEMMA OrderHolds == Spec => []Ordered
  <1>1. Init => Ordered
    BY InitDir, InitCred DEF Ordered
  <1>2. QED
    BY <1>1, OrderKept, PTL DEF Spec

\* A lookup that is pinned to the environment finds what the environment
\* holds, whatever other callers have put into the cache they share.
THEOREM PinnedStaysPinned == Spec => []PinnedToEnvironment
  <1>1. Ordered => PinnedToEnvironment
    BY InspectedInOrder DEF Ordered, PinnedToEnvironment
  <1>2. QED
    BY <1>1, OrderHolds, PTL

\* A credential that was replaced is in use for less than the two lives of
\* the caches that lie on each other.
THEOREM ReplacedAgesOut == Spec => CredentialsAge
  <1>1. Ordered =>
          \A plugin \in Plugins, interval \in Intervals :
            Begin(plugin, interval) /\ job'.token \in DOMAIN replaced
              => clock - replaced[job'.token] < 2 * deployment.ttl - 1
    <2> SUFFICES ASSUME CredInv, NEW plugin \in Plugins, NEW interval \in Intervals,
                        Begin(plugin, interval), job'.token \in DOMAIN replaced
                 PROVE  clock - replaced[job'.token] < 2 * deployment.ttl - 1
      BY DEF Ordered
    <2>1. job'.token = Token(plugin).credential
      BY DEF Begin
    <2>2. QED
      BY <2>1, TokenInOrder
  <1>2. QED
    BY <1>1, OrderHolds, PTL DEF CredentialsAge

-----------------------------------------------------------------------------
(* What the stores hold for a list of names, whatever is cached.           *)

\* What they hold under one name, outside a DetSettings.
Answer(name) ==
    IF In(stores.env, name) # None THEN [status |-> "raw", raw |-> In(stores.env, name)]
    ELSE IF deployment.backend # "file" THEN [status |-> "absent", raw |-> None]
    ELSE IF stores.file = None THEN [status |-> "error", raw |-> None]
    ELSE [status |-> IF In(stores.file, name) = None THEN "absent" ELSE "raw",
          raw |-> In(stores.file, name)]

Decides(names, n) ==
    /\ Answer(names[n]).status # "absent"
    /\ \A k \in 1 .. n - 1 : Answer(names[k]).status = "absent"

Answers(names) ==
    IF \E n \in 1 .. Len(names) : Decides(names, n)
    THEN Answer(names[CHOOSE n \in 1 .. Len(names) : Decides(names, n)])
    ELSE [status |-> "absent", raw |-> None]

Held(names) ==
    IF Answers(names).status = "raw" /\ Usable(Answers(names).raw, HttpTokenKeys)
    THEN Pick(Payload(Answers(names).raw), HttpTokenKeys) ELSE None

\* Caches that have nothing to say about the names.
Clean(names, m) ==
    /\ m = [p \in {"process", "file", "settings"} |-> m[p]]
    /\ \A n \in 1 .. Len(names) : names[n] \notin DOMAIN m.process
    /\ m.file # None => m.file.values = stores.file

Agrees(found, answer) ==
    found.status = answer.status /\ (found.status = "raw" => found.raw = answer.raw)

LEMMA CleanLookup ==
    ASSUME Timed, ~deployment.settings, NEW names, Len(names) \in Nat, NEW m, Clean(names, m),
           NEW n \in 1 .. Len(names), NEW pinned \in BOOLEAN, ~pinned
    PROVE  LET found == Lookup(names[n], pinned, m)
           IN  /\ Agrees(found, Answer(names[n]))
               /\ found.status = "absent" => Clean(names, found.memory)
  <1> DEFINE name == names[n]
             backend == deployment.backend
             file == ReadSecretsFile(m)
             found == Lookup(name, pinned, m)
  <1>1. found = PayloadFor(name, backend, m) /\ backend \in {"env", "file"}
    BY DEF Lookup, Timed
  <1>2. ~Cached(name, backend, m)
    BY DEF Cached, Clean
  <1>3. found = IF In(stores.env, name) # None THEN Kept(name, stores.env[name], "env", m)
                ELSE IF backend # "file" THEN Found(None, m)
                ELSE IF file.values = None THEN Failed(file.memory)
                ELSE Kept(name, In(file.values, name), "file", file.memory)
    BY <1>1, <1>2 DEF PayloadFor
  <1>4. ASSUME NEW raw, NEW source, NEW before
        PROVE  /\ Kept(name, raw, source, before).raw = raw
               /\ Kept(name, raw, source, before).status = IF raw = None THEN "absent" ELSE "raw"
               /\ raw = None => Kept(name, raw, source, before).memory = before
    BY DEF Kept, Found
  <1>5. file.values = stores.file /\ Clean(names, file.memory)
    <2> DEFINE after == [m EXCEPT !.file = [at |-> clock, values |-> stores.file]]
    <2>1. Clean(names, after)
      BY DEF Clean
    <2>2. m.file # None => m.file.values = stores.file
      BY DEF Clean
    <2> HIDE DEF after
    <2>3. \/ file = [values |-> stores.file, memory |-> m]
          \/ file = [values |-> stores.file, memory |-> after]
      BY <2>2 DEF ReadSecretsFile, after
    <2> QED
      BY <2>1, <2>3
  <1> HIDE DEF file, found, name
  <1>6. CASE In(stores.env, name) # None
    <2>1. stores.env[name] = In(stores.env, name)
      BY <1>6 DEF In
    <2>2. found = Kept(name, In(stores.env, name), "env", m)
      BY <1>3, <1>6, <2>1
    <2>3. Agrees(found, Answer(name)) /\ found.status # "absent"
      BY <1>4, <1>6, <2>2 DEF Agrees, Answer
    <2> QED
      BY <2>3 DEF found, name
  <1>7. CASE In(stores.env, name) = None /\ backend # "file"
    <2>1. found = Found(None, m)
      BY <1>3, <1>7
    <2>2. Agrees(found, Answer(name)) /\ Clean(names, found.memory)
      BY <1>7, <2>1 DEF Agrees, Answer, Found
    <2> QED
      BY <2>2 DEF found, name
  <1>8. CASE In(stores.env, name) = None /\ backend = "file" /\ stores.file = None
    <2>1. found = Failed(file.memory)
      BY <1>3, <1>5, <1>8
    <2>2. Agrees(found, Answer(name)) /\ found.status # "absent"
      BY <1>8, <2>1 DEF Agrees, Answer, Failed
    <2> QED
      BY <2>2 DEF found, name
  <1>9. CASE In(stores.env, name) = None /\ backend = "file" /\ stores.file # None
    <2>1. found = Kept(name, In(stores.file, name), "file", file.memory)
      BY <1>3, <1>5, <1>9
    <2>2. Agrees(found, Answer(name))
      BY <1>4, <1>9, <2>1 DEF Agrees, Answer
    <2>3. found.status = "absent" => Clean(names, found.memory)
      BY <1>4, <1>5, <2>1
    <2> QED
      BY <2>2, <2>3 DEF found, name
  <1>10. QED
    BY <1>6, <1>7, <1>8, <1>9

LEMMA CleanResolve ==
    ASSUME Timed, ~deployment.settings, NEW names, Len(names) \in Nat, NEW m, Clean(names, m),
           NEW pinned \in BOOLEAN, ~pinned
    PROVE  ResolveSecret(names, HttpTokenKeys, pinned, m).credential = Held(names)
  <1> DEFINE N == Len(names)
             all == LookupAll(names, pinned, m)
  <1>0. PICK found : OneByOne(found, names, pinned, m)
    BY LookupsInOrder
  <1>1. /\ found[0] = Found(None, m)
        /\ \A n \in 1 .. N : found[n] = IF found[n - 1].status = "absent"
                                        THEN Lookup(names[n], pinned, found[n - 1].memory)
                                        ELSE found[n - 1]
        /\ all = found[N]
    BY <1>0 DEF OneByOne
  <1> DEFINE Asking(n) == /\ found[n].status = "absent" /\ Clean(names, found[n].memory)
                          /\ \A k \in 1 .. n : Answer(names[k]).status = "absent"
             Asked(n) == /\ found[n].status # "absent"
                         /\ \E k \in 1 .. N : Decides(names, k) /\ Agrees(found[n], Answer(names[k]))
             T == {n \in 0 .. N : Asking(n) \/ Asked(n)}
  <1>2. 0 \in T
    BY <1>1 DEF Found
  <1>3. ASSUME NEW n \in 0 .. N - 1, n \in T PROVE n + 1 \in T
    <2>1. found[n + 1] = IF found[n].status = "absent"
                         THEN Lookup(names[n + 1], pinned, found[n].memory) ELSE found[n]
      BY <1>1
    <2>2. CASE Asking(n)
      <3> DEFINE next == Lookup(names[n + 1], pinned, found[n].memory)
      <3>1. /\ Agrees(next, Answer(names[n + 1]))
            /\ next.status = "absent" => Clean(names, next.memory)
        BY <2>2, CleanLookup
      <3>2. found[n + 1] = next
        BY <2>1, <2>2
      <3> HIDE DEF next
      <3>3. CASE next.status = "absent"
        <4>1. Answer(names[n + 1]).status = "absent"
          BY <3>1, <3>3 DEF Agrees
        <4>2. Asking(n + 1)
          BY <2>2, <3>1, <3>2, <3>3, <4>1
        <4> QED
          BY <4>2
      <3>4. CASE next.status # "absent"
        <4>1. Decides(names, n + 1)
          BY <2>2, <3>1, <3>4 DEF Agrees, Decides
        <4>2. Asked(n + 1)
          BY <3>1, <3>2, <3>4, <4>1
        <4> QED
          BY <4>2
      <3> QED
        BY <3>3, <3>4
    <2>3. CASE Asked(n)
      <3>1. found[n + 1] = found[n]
        BY <2>1, <2>3
      <3>2. Asked(n + 1)
        BY <2>3, <3>1
      <3> QED
        BY <3>2
    <2> QED
      BY <1>3, <2>2, <2>3
  <1>4. Asking(N) \/ Asked(N)
    <2>1. N \in Nat
      OBVIOUS
    <2> HIDE DEF N, Asking, Asked
    <2>2. \A n \in 0 .. N - 1 : n \in T => n + 1 \in T
      BY <1>3
    <2>3. \A n \in 0 .. N : n \in T
      BY <1>2, <2>1, <2>2, UpTo
    <2> QED
      BY <2>1, <2>3
  <1>5. Agrees(all, Answers(names))
    <2>1. CASE Asking(N)
      <3>1. ~\E n \in 1 .. N : Decides(names, n)
        BY <2>1 DEF Decides
      <3> QED
        BY <1>1, <2>1, <3>1 DEF Answers, Agrees
    <2>2. CASE Asked(N)
      <3>1. PICK k \in 1 .. N : Decides(names, k) /\ Agrees(found[N], Answer(names[k]))
        BY <2>2
      <3>2. \A n \in 1 .. N : Decides(names, n) => n = k
        BY <3>1 DEF Decides
      <3>3. Answers(names) = Answer(names[k])
        BY <3>1, <3>2 DEF Answers
      <3> QED
        BY <1>1, <3>1, <3>3
    <2> QED
      BY <1>4, <2>1, <2>2
  <1> HIDE DEF all
  <1>6. ResolveSecret(names, HttpTokenKeys, pinned, m).credential =
          IF all.status = "raw" /\ Usable(all.raw, HttpTokenKeys)
          THEN Pick(Payload(all.raw), HttpTokenKeys) ELSE None
    BY DEF ResolveSecret, all
  <1>7. QED
    BY <1>5, <1>6 DEF Agrees, Held

-----------------------------------------------------------------------------
(* A credential that is replaced during a call.                            *)

\* After a refresh the call goes on with what the stores hold, until that is
\* replaced again; a call that is denied after that is denied that.
RefreshSound(j) ==
    /\ j.lost \in Nat /\ j.replaced \in Nat
    /\ j.refreshed /\ j.replaced = 0 => j.headers = Held(j.tried)
    /\ /\ j.failure = "denied" /\ j.kind \in {"index", "names"} /\ j.refreshes
       /\ j.attempt < MaxAttempts /\ j.replaced = 0
       => server.accepts # Held(j.tried)

RefreshInv == Working /\ ~deployment.settings => RefreshSound(job)

\* A step that goes on with the same headers, or ends for another reason.
SameHeaders(j) ==
    /\ j.lost = job.lost /\ j.replaced = job.replaced /\ j.refreshed = job.refreshed
    /\ j.headers = job.headers /\ j.tried = job.tried
    /\ j.failure = "denied" => j.kind \notin {"index", "names"}

\* A step that begins another call.
NewCall(j) ==
    /\ j.lost = job.lost /\ j.replaced = job.lost /\ j.refreshed = FALSE /\ j.failure = "none"

LEMMA HeadersKept ==
    ASSUME RefreshSound(job), NEW j, SameHeaders(j) \/ NewCall(j) PROVE RefreshSound(j)
  BY DEF RefreshSound, SameHeaders, NewCall

LEMMA FailKeepsHeaders ==
    ASSUME Record(job), NEW reason, reason # "denied" PROVE SameHeaders(Fail(reason))
  BY DEF Record, Fields, Fail, SameHeaders

\* An attempt of a helper.  One that is denied after the refresh was made
\* with what the stores hold.
LEMMA AttemptRefreshes ==
    ASSUME CredInv, JobSound(job), job.pc # "failed", ~deployment.settings, RefreshSound(job),
           NEW reply \in Replies(job.headers) \cup {Disk},
           NEW raises \in {"nothing", "retryable", "integrity", "http", "os", "zlib"},
           raises = "http" => reply.status \in {"denied", "missing"},
           NEW done, RefreshSound(done)
    PROVE  RefreshSound(After(reply, raises, done))
  <1> DEFINE j == After(reply, raises, done)
  <1>1. Record(job) /\ job.failure = "none"
    BY DEF JobSound
  <1>2. CASE raises = "nothing"
    BY <1>2 DEF After, Retries
  <1>3. CASE raises \in Retries
    <2>1. j = Again
      BY <1>3 DEF After, Retries
    <2>2. SameHeaders([job EXCEPT !.attempt = @ + 1])
      BY <1>1 DEF Record, Fields, SameHeaders
    <2>3. SameHeaders(Again)
      BY <1>1, <2>2, FailKeepsHeaders DEF Again
    <2> QED
      BY <2>1, <2>3, HeadersKept
  <1>4. CASE raises \in {"os", "zlib"}
    <2>1. j = Fail(raises)
      BY <1>4 DEF After, Retries
    <2> QED
      BY <1>1, <1>4, <2>1, FailKeepsHeaders, HeadersKept
  <1>5. CASE raises = "http" /\ Refreshes(reply)
    <2>1. j = WithNewHeaders
      BY <1>5 DEF After, Retries
    <2>2. CASE ~Refreshed.ok
      BY <1>1, <2>1, <2>2, FailKeepsHeaders, HeadersKept DEF WithNewHeaders
    <2>3. CASE Refreshed.ok /\ job.attempt = MaxAttempts
      <3>1. j = Fail("denied")
        BY <2>1, <2>3 DEF WithNewHeaders
      <3>2. /\ j.lost = job.lost /\ j.replaced = job.replaced /\ j.refreshed = job.refreshed
            /\ j.headers = job.headers /\ j.tried = job.tried /\ j.attempt = MaxAttempts
        BY <1>1, <2>3, <3>1 DEF Record, Fields, Fail
      <3> QED
        BY <3>2, FetchConstants DEF RefreshSound
    <2>4. CASE Refreshed.ok /\ job.attempt # MaxAttempts
      <3> DEFINE credential == Refreshed.credential
      <3>1. credential = Held(job.tried)
        <4> DEFINE m == Invalidated(job.tried, memory)
        <4>1. Len(job.tried) \in Nat
          BY NamesAreListed DEF JobSound
        <4>2. \A n \in 1 .. Len(job.tried) : job.tried[n] \in Range(job.tried)
          <5>1. DOMAIN job.tried = 1 .. Len(job.tried)
            BY NamesAreListed DEF JobSound
          <5> QED
            BY <5>1 DEF Range
        <4>3. Clean(job.tried, m)
          BY <4>2 DEF Clean, Invalidated, CredInv, CacheInv, Restrict
        <4> HIDE DEF m
        <4>4. Timed
          BY DEF CredInv, StoresInv
        <4>5. ResolveSecret(job.tried, HttpTokenKeys, FALSE, m).credential = Held(job.tried)
          BY <4>1, <4>3, <4>4, CleanResolve
        <4> QED
          BY <4>5 DEF Refreshed, m
      <3>2. j = [job EXCEPT !.attempt = @ + 1, !.headers = credential, !.refreshed = TRUE,
                            !.replaced = 0]
        BY <2>1, <2>4 DEF WithNewHeaders
      <3> HIDE DEF credential
      <3>3. /\ j.lost = job.lost /\ j.replaced = 0 /\ j.headers = credential
            /\ j.tried = job.tried /\ j.failure = "none"
        BY <1>1, <3>2 DEF Record, Fields
      <3> QED
        BY <3>1, <3>3 DEF RefreshSound
    <2> QED
      BY <2>2, <2>3, <2>4
  <1>6. CASE raises = "http" /\ ~Refreshes(reply)
    <2>1. j = Fail(reply.status)
      BY <1>6 DEF After, Retries
    <2>2. CASE reply.status # "denied"
      BY <1>1, <2>1, <2>2, FailKeepsHeaders, HeadersKept
    <2>3. CASE reply.status = "denied"
      <3>1. /\ j.lost = job.lost /\ j.replaced = job.replaced /\ j.refreshed = job.refreshed
            /\ j.headers = job.headers /\ j.tried = job.tried /\ j.refreshes = job.refreshes
        BY <1>1, <2>1 DEF Record, Fields, Fail
      <3>2. server.accepts # job.headers
        BY <2>3 DEF Replies, Accepted, Bodies, Troubles, Disk
      <3>3. job.refreshes => job.refreshed
        BY <1>6, <2>3 DEF Refreshes
      <3> QED
        BY <3>1, <3>2, <3>3 DEF RefreshSound
    <2> QED
      BY <2>2, <2>3
  <1>7. QED
    BY <1>2, <1>3, <1>4, <1>5, <1>6 DEF Retries

\* Nothing that RefreshSound looks at but the extract itself moves.
LEMMA RefreshMoves ==
    ASSUME stores' = stores, deployment' = deployment, server'.accepts = server.accepts,
           ~deployment.settings => RefreshSound(job')
    PROVE  RefreshInv'
  <1>1. \A names : Held(names)' = Held(names)
    BY DEF Held, Answers, Decides, Answer
  <1>2. RefreshSound(job') => RefreshSound(job)'
    BY <1>1 DEF RefreshSound
  <1>3. QED
    BY <1>2 DEF RefreshInv

LEMMA ExtractRefreshes ==
    ASSUME DirInv, CredInv, RefreshInv, Working, Extract PROVE RefreshInv'
  <1>1. stores' = stores /\ deployment' = deployment /\ server' = server
    BY DEF Extract, Copy, GetIndex, GetFile, AddArtifact, AllFiles, WritePage, PageFails,
           AllPages, secrets
  <1>2. SUFFICES ASSUME ~deployment.settings PROVE RefreshSound(job')
    BY <1>1, RefreshMoves
  <1>3. JobSound(job) /\ Record(job) /\ RefreshSound(job)
    BY <1>2 DEF DirInv, FetchInv, JobSound, RefreshInv
  <1>4. CASE Copy
    <2>1. job.pc = "copy" /\ job.failure = "none"
      BY <1>3, <1>4 DEF Copy, JobSound
    <2>2. \A matching : SameHeaders([job EXCEPT !.pc = "done", !.artifacts = matching])
      BY <1>3, <2>1 DEF Record, Fields, SameHeaders
    <2>3. SameHeaders([job EXCEPT !.pc = "done"])
      BY <1>3, <2>1 DEF Record, Fields, SameHeaders
    <2>4. SameHeaders(job')
      BY <1>3, <1>4, <2>2, <2>3, FailKeepsHeaders DEF Copy, CopyAll, CopyBreaksOff
    <2> QED
      BY <1>3, <2>4, HeadersKept
  <1>5. CASE GetIndex
    <2>1. job.pc = "index" /\ job.failure = "none"
      BY <1>3, <1>5 DEF GetIndex, JobSound
    <2>a. PICK reply \in Replies(job.headers) : \E seen \in Listed(reply) :
            LET selected == FilenamesInInterval(seen, job.interval)
                raises == IF reply.status = "ok" THEN "nothing" ELSE StreamOnce(reply).raises
                done == [job EXCEPT !.pc = "files", !.seen = seen, !.files = selected]
            IN  job' = After(reply, raises, NextCall(done))
      BY <1>5 DEF GetIndex
    <2>b. PICK seen \in Listed(reply) :
            LET selected == FilenamesInInterval(seen, job.interval)
                raises == IF reply.status = "ok" THEN "nothing" ELSE StreamOnce(reply).raises
                done == [job EXCEPT !.pc = "files", !.seen = seen, !.files = selected]
            IN  job' = After(reply, raises, NextCall(done))
      BY <2>a
    <2> DEFINE found == [job EXCEPT !.pc = "files", !.seen = seen,
                                    !.files = FilenamesInInterval(seen, job.interval)]
               done == NextCall(found)
    <2> DEFINE raises == IF reply.status = "ok" THEN "nothing" ELSE StreamOnce(reply).raises
    <2>3. /\ raises \in {"nothing", "retryable", "integrity", "http", "os", "zlib"}
          /\ raises = "http" => reply.status \in {"denied", "missing"}
      BY DEF Replies, Bodies, Troubles, Denied, StreamOnce
    <2>4. NewCall(done)
      BY <1>3, <2>1 DEF Record, Fields, NextCall, NewCall
    <2> HIDE DEF raises, done
    <2>5. RefreshSound(done)
      BY <1>3, <2>4, HeadersKept
    <2>6. job' = After(reply, raises, done)
      BY <2>b DEF raises, done
    <2> QED
      BY <1>2, <1>3, <2>1, <2>3, <2>5, <2>6, AttemptRefreshes
  <1>6. CASE GetFile
    <2> DEFINE done == [job EXCEPT !.pc = "artifact"]
    <2>1. job.pc = "files" /\ job.failure = "none"
      BY <1>3, <1>6 DEF GetFile, JobSound
    <2>2. PICK reply \in Replies(job.headers) \cup {Disk}, upload \in Uploads :
            job' = After(reply, Raised(Checked(NextFile, reply), upload), done)
      BY <1>6 DEF GetFile
    <2> DEFINE raises == Raised(Checked(NextFile, reply), upload)
    <2>3. reply \in Bodies \cup Troubles \cup {Denied, Disk}
      BY DEF Replies
    <2>4. raises \in {"nothing", "retryable", "integrity", "http", "os", "zlib"}
      BY <2>3, AttemptLeaves
    <2>5. raises = "http" => reply.status \in {"denied", "missing"}
      BY <2>3, AttemptLeaves
    <2>6. SameHeaders(done)
      BY <1>3, <2>1 DEF Record, Fields, SameHeaders
    <2> HIDE DEF raises, done
    <2>7. RefreshSound(done)
      BY <1>3, <2>6, HeadersKept
    <2>8. job' = After(reply, raises, done)
      BY <2>2 DEF raises
    <2> QED
      BY <1>2, <1>3, <2>1, <2>4, <2>5, <2>7, <2>8, AttemptRefreshes
  <1>7. CASE AddArtifact
    <2> DEFINE rest == [job EXCEPT !.pc = "files", !.files = @ \ {NextFile},
                                   !.artifacts = @ \cup {NextFile}]
    <2>1. job.pc = "artifact" /\ job.failure = "none"
      BY <1>3, <1>7 DEF AddArtifact, JobSound
    <2>2. job' = Fail("format") \/ job' = NextCall(rest)
      BY <1>7 DEF AddArtifact
    <2>3. NewCall(NextCall(rest))
      BY <1>3, <2>1 DEF Record, Fields, NextCall, NewCall
    <2> HIDE DEF rest
    <2> QED
      BY <1>3, <2>2, <2>3, FailKeepsHeaders, HeadersKept
  <1>8. CASE AllFiles \/ AllPages
    <2>1. job.pc \in {"files", "pages"} /\ job.failure = "none" /\ job' = [job EXCEPT !.pc = "done"]
      BY <1>3, <1>8 DEF AllFiles, AllPages, JobSound
    <2>2. SameHeaders(job')
      BY <1>3, <2>1 DEF Record, Fields, SameHeaders
    <2> QED
      BY <1>3, <2>2, HeadersKept
  <1>9. CASE WritePage
    <2>1. job.failure = "none"
      BY <1>3, <1>9 DEF WritePage, JobSound
    <2>2. SameHeaders([job EXCEPT !.page = @ + 1])
      BY <1>3, <2>1 DEF Record, Fields, SameHeaders
    <2>3. SameHeaders(job')
      BY <1>3, <1>9, <2>2, FailKeepsHeaders DEF WritePage
    <2> QED
      BY <1>3, <2>3, HeadersKept
  <1>10. CASE PageFails
    <2>1. job.kind \in {"linked", "offset"}
      BY <1>3, <1>10 DEF PageFails, JobSound
    <2>2. \A reason : SameHeaders(Fail(reason))
      BY <1>3, <2>1 DEF Record, Fields, Fail, SameHeaders
    <2>3. SameHeaders(job')
      BY <1>10, <2>2 DEF PageFails
    <2> QED
      BY <1>3, <2>3, HeadersKept
  <1>11. QED
    BY <1>4, <1>5, <1>6, <1>7, <1>8, <1>9, <1>10 DEF Extract

LEMMA BeginRefreshes ==
    ASSUME CredInv, NEW plugin \in Plugins, NEW interval \in Intervals, Begin(plugin, interval)
    PROVE  RefreshInv'
  <1>1. stores' = stores /\ deployment' = deployment /\ server' = server
    BY DEF Begin, secrets
  <1>2. /\ job'.lost = 0 /\ job'.replaced = 0 /\ job'.refreshed = FALSE
        /\ job'.failure = IF Token(plugin).ok THEN "none" ELSE "secret"
    BY DEF Begin
  <1>3. RefreshSound(job')
    BY <1>2 DEF RefreshSound
  <1>4. QED
    BY <1>1, <1>3, RefreshMoves

LEMMA RotateRefreshes ==
    ASSUME DirInv, RefreshInv, Rotate PROVE RefreshInv'
  <1>1. /\ deployment' = deployment
        /\ job' = IF job = Idle THEN job ELSE [job EXCEPT !.lost = @ + 1, !.replaced = @ + 1]
    BY DEF Rotate
  <1>2. SUFFICES ASSUME job # Idle, ~deployment.settings PROVE RefreshSound(job)'
    BY <1>1 DEF RefreshInv, Working
  <1>3. Record(job) /\ job.lost \in Nat /\ job.replaced \in Nat
    BY <1>2 DEF DirInv, FetchInv, JobSound, RefreshInv, RefreshSound, Working
  <1>4. job'.lost = job.lost + 1 /\ job'.replaced = job.replaced + 1
    BY <1>1, <1>2, <1>3 DEF Record, Fields
  <1>5. QED
    BY <1>3, <1>4 DEF RefreshSound

Refreshing == Ordered /\ RefreshInv

LEMMA RefreshKept == Refreshing /\ [Next]_vars => Refreshing'
  <1> SUFFICES ASSUME DirInv, CredInv, RefreshInv, [Next]_vars PROVE RefreshInv'
    BY OrderKept DEF Refreshing, Ordered
  <1>1. CASE \E plugin \in Plugins, interval \in Intervals : Begin(plugin, interval)
    BY <1>1, BeginRefreshes
  <1>2. CASE job # Idle /\ Extract
    BY <1>2, ExtractRefreshes DEF Working
  <1>3. CASE Rotate
    BY <1>3, RotateRefreshes
  <1>4. CASE Leave
    BY <1>4 DEF Leave, RefreshInv, Working
  <1>5. CASE Inspect \/ PageAppears \/ Tick \/ vars' = vars
    <2>1. stores' = stores /\ deployment' = deployment /\ job' = job
      BY <1>5 DEF Inspect, PageAppears, Tick, secrets, vars
    <2>2. server'.accepts = server.accepts
      BY <1>5 DEF Inspect, PageAppears, Tick, vars, DirInv, FetchInv
    <2>3. CASE Working
      BY <2>1, <2>2, <2>3, RefreshMoves DEF RefreshInv
    <2>4. CASE ~Working
      BY <2>1, <2>4 DEF RefreshInv, Working
    <2> QED
      BY <2>3, <2>4
  <1>6. QED
    BY <1>1, <1>2, <1>3, <1>4, <1>5 DEF Next

\* A refresh on a 401 survives a rotation: a call that passes it is denied
\* what the stores hold only when that is replaced again after the refresh,
\* or on its last attempt.  This is outside a DetSettings.
THEOREM RefreshSurvives == Spec => []RotationIsSurvived
  <1>1. Init => Refreshing
    BY InitDir, InitCred DEF Refreshing, Ordered, RefreshInv, Working, Init
  <1>2. Refreshing => RotationIsSurvived
    <2> SUFFICES ASSUME DirInv, CredInv, RefreshInv, DeniedInVain, ~deployment.settings PROVE FALSE
      BY DEF Refreshing, Ordered, RotationIsSurvived
    <2>1. JobSound(job) /\ RefreshSound(job)
      BY DEF DirInv, FetchInv, RefreshInv, DeniedInVain
    <2>2. server.accepts # Held(job.tried)
      BY <2>1 DEF RefreshSound, DeniedInVain
    <2>3. Clean(job.tried, NoMemory)
      BY DEF Clean, NoMemory
    <2>4. Len(job.tried) \in Nat /\ Timed
      BY <2>1, NamesAreListed DEF JobSound, CredInv, StoresInv
    <2>5. ResolveSecret(job.tried, HttpTokenKeys, FALSE, NoMemory).credential = Held(job.tried)
      BY <2>3, <2>4, CleanResolve
    <2> QED
      BY <2>2, <2>5 DEF DeniedInVain
  <1>3. QED
    BY <1>1, <1>2, RefreshKept, PTL DEF Spec

=============================================================================
