----------------------------- MODULE HttpFetch -----------------------------
(***************************************************************************)
(* What a source plugin does to land the wire bytes of an interval: it     *)
(* resolves its credential, looks up what there is, and fetches it with    *)
(* the retrying helpers of sources/http.py, or page by page with the       *)
(* client of dlt (sources/http_json.py and the plugins).  Requests fail,   *)
(* break off or are cut short, and the credential is replaced meanwhile.   *)
(*                                                                         *)
(* One step is one attempt of a request; the wait before the next one is   *)
(* time that may pass in between.                                          *)
(***************************************************************************)
EXTENDS Credentials

CONSTANTS
  MaxAttempts,  \* max_attempts of the helpers
  MaxPages,     \* max_pages of a source
  Deployments,  \* how the process may be set up
  Plugins,      \* kind of source, provider, public, auth_env, refreshes (it passes
                \* refresh_headers), and the files there are
  Intervals,    \* pairs of instants
  MaxClock,     \* bounds the clock
  MaxRotations  \* bounds how often the credential is replaced

(* A revision is the rank of a file's name among those of its year; an     *)
(* interval ends after it starts (validated before an extract begins).     *)
ASSUME FetchConstants ==
  /\ MaxAttempts \in Nat /\ MaxPages \in Nat
  /\ \A plugin \in Plugins :
       /\ plugin.kind \in {"index", "names", "local", "fixture", "linked", "offset"}
       /\ IsFiniteSet(plugin.listing)
       /\ \A f \in plugin.listing :
            f.year \in Nat /\ f.revision \in 1 .. Cardinality(plugin.listing)
       /\ \A f, g \in {h \in plugin.listing : h.gzip /\ h.matches} :
            f.year = g.year /\ f.revision = g.revision => f = g
  /\ \A interval \in Intervals : interval \in Int \X Int /\ interval[1] < interval[2]

(* A process starts with stores in which no credential stands twice, so    *)
(* that the one that is replaced is not accepted under another name; none  *)
(* is one of those that will be set later, and those that an operator can  *)
(* replace can be used.  The environment's are marked as such.             *)
ValuesOf(raw) == Range(Payload(raw))

Stocked(d) == {s \in {"env", "file", "vault"} : d.stores[s] # None}

Later == {"file", "vault"} \X (1 .. MaxRotations)

ASSUME DeploymentConstants ==
  /\ None \notin Later /\ MaxRotations \in Nat
  /\ \A d \in Deployments :
       /\ d.deployment \in [backend : {"env", "file"}, ttl : Nat, settings : BOOLEAN,
                            hook : BOOLEAN, remote : BOOLEAN]
       /\ d.stores = [s \in {"env", "file", "vault"} |-> d.stores[s]]
       /\ d.stores.env # None /\ (d.deployment.hook => d.stores.vault # None)
       /\ \A s \in Stocked(d) : \A n \in DOMAIN d.stores[s] :
            /\ ValuesOf(d.stores[s][n]) \cap (Later \cup {None}) = {}
            /\ IF s = "env" THEN \A c \in ValuesOf(d.stores[s][n]) : c[1] = "env"
               ELSE Usable(d.stores[s][n], HttpTokenKeys)
            /\ \A t \in Stocked(d) : \A q \in DOMAIN d.stores[t] :
                 <<s, n>> # <<t, q>> => ValuesOf(d.stores[s][n]) \cap ValuesOf(d.stores[t][q]) = {}

VARIABLES
  server,  \* the credential that is accepted, and how many pages there are
  job,     \* the extract under way
  data     \* what is in the data directory

vars == <<clock, deployment, stores, memory, replaced, server, job, data>>

secrets == <<deployment, stores, replaced>>

Idle == [pc |-> "idle"]

-----------------------------------------------------------------------------
(* Which files cover the interval.  A file holds a year of two instants;   *)
(* a later revision of a year has the greater name.                        *)

Year(instant) == instant \div 2

Years(interval) == Year(interval[1]) .. Year(interval[2] - 1)

Newest(files) == CHOOSE f \in files : \A g \in files : g.revision <= f.revision

FilenamesInInterval(listing, interval) ==
  LET eligible(y) == {f \in listing : f.year = y /\ f.gzip /\ f.matches}
  IN  {Newest(eligible(y)) : y \in {z \in Years(interval) : eligible(z) # {}}}

-----------------------------------------------------------------------------
(* One attempt.  A reply has a status; a body that was sent may be cut     *)
(* short, damaged, empty or over max_bytes, with a length that the server  *)
(* gives right, does not give, or that is not what the client counts.      *)

Bodies ==
  [status : {"ok"}, body : {"whole", "short", "damaged", "empty", "over"},
   length : {"true", "none", "wrong"}]

Troubles == [status : {"busy", "down", "cut", "missing"}]

Disk == [status |-> "disk"]

Denied == [status |-> "denied"]

(* A public source sends no credential and needs none.                     *)
Accepted(headers) == headers \in {None, server.accepts}

Replies(headers) == IF Accepted(headers) THEN Bodies \cup Troubles ELSE {Denied}

(* Mutant: a body that is shorter than announced is taken. *)
LengthIgnored(reply) == reply.body # "over" /\ reply.length # "wrong"

LengthHolds(reply) ==
  /\ reply.body # "over"
  /\ reply.length = "none" \/ (reply.length = "true" /\ reply.body # "short")

(* What _stream_once raises, and what it leaves in its file.               *)
StreamOnce(reply) ==
  CASE reply.status = "ok" ->
         [raises |-> IF LengthHolds(reply) THEN "nothing" ELSE "integrity", content |-> reply.body]
    [] reply.status \in {"busy", "down"} -> [raises |-> "retryable", content |-> "absent"]
    [] reply.status = "cut" -> [raises |-> "retryable", content |-> "short"]
    [] reply.status \in {"denied", "missing"} -> [raises |-> "http", content |-> "absent"]
    [] reply.status = "disk" -> [raises |-> "os", content |-> "short"]

(* A gzip file is read to its end.  That of an empty one is reached at     *)
(* once; one that is cut short or has a wrong sum fails its check; damage  *)
(* that the decoder itself meets is a zlib.error, which is none of the     *)
(* errors that verify_gzip turns into one of integrity.                    *)
VerifyGzip(content) ==
  CASE content \in {"whole", "empty"} -> "nothing"
    [] content = "short" -> "integrity"
    [] content = "damaged" -> "zlib"

Checked(file, reply) ==
  LET stream == StreamOnce(reply)
  IN  IF stream.raises = "nothing" /\ file.gzip
      THEN [stream EXCEPT !.raises = VerifyGzip(stream.content)] ELSE stream

Retries == {"retryable", "integrity"}

(* On disk the bytes are written in place and removed when the attempt is  *)
(* to be made again.                                                       *)
LeftLocal(stream) == IF stream.raises \in Retries THEN "absent" ELSE stream.content

(* To an object store they go through a temporary file, and are copied     *)
(* there once they have passed.  That may break off, with an error that    *)
(* nobody handles: before anything is stored, or amidst, when leaving the  *)
(* "with" closes the object and so stores the part that was written, or    *)
(* although all of it is stored.                                           *)
Uploads == {"stored", "refused", "cut", "unclear"}

LeftRemote(stream, upload) ==
  IF stream.raises # "nothing" \/ upload = "refused" THEN "absent"
  ELSE IF upload = "cut" THEN "short" ELSE stream.content

Left(stream, upload) ==
  IF deployment.remote THEN LeftRemote(stream, upload) ELSE LeftLocal(stream)

Raised(stream, upload) ==
  IF deployment.remote /\ stream.raises = "nothing" /\ upload # "stored" THEN "os"
  ELSE stream.raises

(* Whether the bytes of a reply could be checked, by the length it         *)
(* announces or as a gzip file, and whether the attempt ended in an error  *)
(* that nobody handles.                                                    *)
Mark(file, reply, upload) ==
  IF Raised(Checked(file, reply), upload) \in {"os", "zlib"} THEN "unhandled"
  ELSE IF reply.status = "ok" /\ ~file.gzip /\ (reply.length = "none" \/ reply.body = "damaged")
       THEN "unchecked" ELSE "checked"

Fail(reason) == [job EXCEPT !.pc = "failed", !.failure = reason]

Again == IF job.attempt = MaxAttempts THEN Fail("exhausted")
         ELSE [job EXCEPT !.attempt = @ + 1]

Refreshes(reply) == reply.status = "denied" /\ job.refreshes /\ ~job.refreshed

(* Mutant: what is cached is not invalidated. *)
RefreshedFromCache == ResolveSecret(job.tried, HttpTokenKeys, FALSE, memory)

Refreshed == ResolveSecret(job.tried, HttpTokenKeys, FALSE, Invalidated(job.tried, memory))

(* Mutant: the attempt with a new credential is not counted. *)
WithNewHeadersUncounted ==
  IF ~Refreshed.ok THEN Fail("secret") ELSE [job EXCEPT !.headers = Refreshed.credential]

(* After a rejected credential the next attempt goes out with a new one;   *)
(* it is one of the attempts, and there is no wait.                        *)
WithNewHeaders ==
  IF ~Refreshed.ok THEN Fail("secret")
  ELSE IF job.attempt = MaxAttempts THEN Fail("denied")
  ELSE [job EXCEPT !.attempt = @ + 1, !.headers = Refreshed.credential, !.refreshed = TRUE,
                   !.replaced = 0]

(* What becomes of the extract when an attempt raises, or goes well.       *)
After(reply, raises, done) ==
  CASE raises = "nothing" -> done
    [] raises \in Retries -> Again
    [] raises = "http" -> IF Refreshes(reply) THEN WithNewHeaders ELSE Fail(reply.status)
    [] raises \in {"os", "zlib"} -> Fail(raises)

Remembers(reply) == IF Refreshes(reply) THEN Refreshed.memory ELSE memory

(* The next call of a helper starts with the headers of the plugin.        *)
NextCall(j) ==
  [j EXCEPT !.attempt = 1, !.refreshed = FALSE, !.headers = j.token, !.replaced = j.lost]

-----------------------------------------------------------------------------
(* The extract.                                                            *)

Names(plugin) == SourceSecretNames(plugin.provider, plugin.auth_env)

(* source_bearer_token: a source that does not declare itself public must  *)
(* find its credential.                                                    *)
Token(plugin) ==
  IF plugin.public \/ plugin.kind \in {"local", "fixture"}
  THEN [ok |-> TRUE, credential |-> None, memory |-> memory]
  ELSE ResolveSecret(Names(plugin), HttpTokenKeys, FALSE, memory)

FirstStep(kind) ==
  CASE kind = "index" -> "index"
    [] kind = "names" -> "files"
    [] kind \in {"local", "fixture"} -> "copy"
    [] kind \in {"linked", "offset"} -> "pages"

Begin(plugin, interval) ==
  LET token == Token(plugin)
  IN  /\ job = Idle
      /\ memory' = token.memory
      /\ job' = [pc |-> IF token.ok THEN FirstStep(plugin.kind) ELSE "failed",
                 kind |-> plugin.kind, tried |-> Names(plugin), refreshes |-> plugin.refreshes,
                 listing |-> plugin.listing, interval |-> interval,
                 token |-> token.credential, headers |-> token.credential,
                 attempt |-> 1, refreshed |-> FALSE, lost |-> 0, replaced |-> 0,
                 seen |-> {}, files |-> IF plugin.kind = "names" THEN plugin.listing ELSE {},
                 artifacts |-> {}, page |-> 0, failure |-> IF token.ok THEN "none" ELSE "secret"]
      /\ UNCHANGED <<clock, secrets, server, data>>

(* Files of a local directory, or records of the configuration: nothing is *)
(* fetched.  A copy that breaks off leaves its file, and those before it.  *)
CopyBreaksOff(matching) ==
  \E cut \in matching : \E before \in SUBSET (matching \ {cut}) :
    /\ data' = [data EXCEPT !.files =
                  [f \in before \cup {cut} |->
                     IF f = cut THEN [content |-> "short", mark |-> "unhandled"]
                     ELSE [content |-> "whole", mark |-> "checked"]]]
    /\ job' = Fail("os")

CopyAll(matching) ==
  /\ data' = [data EXCEPT !.files =
                [f \in matching |-> [content |-> "whole", mark |-> "checked"]]]
  /\ job' = IF matching = {} THEN Fail("empty")
            ELSE [job EXCEPT !.pc = "done", !.artifacts = matching]

Copy ==
  /\ job.pc = "copy"
  /\ LET matching == {f \in job.listing : f.matches}
     IN  \/ job.kind = "local" /\ (CopyAll(matching) \/ CopyBreaksOff(matching))
         \/ /\ job.kind = "fixture"
            /\ job' = [job EXCEPT !.pc = "done"] /\ data' = [data EXCEPT !.pages = {1}]
  /\ UNCHANGED <<clock, secrets, memory, server>>

(* http_get of the index, which takes whatever has a good status: a body   *)
(* that is cut short lists the files up to some one, in the order of their *)
(* names, and one without a table is an index of none.                     *)
UpToFile(last) ==
  {f \in job.listing :
     f.year < last.year \/ (f.year = last.year /\ f.revision <= last.revision)}

Listed(reply) ==
  CASE reply.status = "ok" /\ reply.body = "short" -> {UpToFile(last) : last \in job.listing}
    [] reply.status = "ok" /\ reply.body \in {"damaged", "empty"} -> {{}}
    [] OTHER -> {job.listing}

GetIndex ==
  /\ job.pc = "index"
  /\ \E reply \in Replies(job.headers) : \E seen \in Listed(reply) :
       LET selected == FilenamesInInterval(seen, job.interval)
           raises == IF reply.status = "ok" THEN "nothing" ELSE StreamOnce(reply).raises
           done == [job EXCEPT !.pc = "files", !.seen = seen, !.files = selected]
       IN  /\ job' = After(reply, raises, NextCall(done))
           /\ memory' = Remembers(reply)
  /\ UNCHANGED <<clock, secrets, server, data>>

(* The files are fetched year by year.                                     *)
NextFile == CHOOSE f \in job.files : \A g \in job.files : f.year <= g.year

(* One attempt of http_get_file; it removes what is there first.           *)
GetFile ==
  /\ job.pc = "files"
  /\ job.files # {}
  /\ \E reply \in Replies(job.headers) \cup {Disk}, file \in {NextFile}, upload \in Uploads :
       LET stream == Checked(file, reply)
           left == [content |-> Left(stream, upload), mark |-> Mark(file, reply, upload)]
       IN  /\ data' = [data EXCEPT !.files = With(@, file, left)]
           /\ job' = After(reply, Raised(stream, upload), [job EXCEPT !.pc = "artifact"])
           /\ memory' = Remembers(reply)
  /\ UNCHANGED <<clock, secrets, server>>

(* The format check wants a header; what passes is hashed as it is.        *)
AddArtifact ==
  /\ job.pc = "artifact"
  /\ job' = IF data.files[NextFile].content = "empty" THEN Fail("format")
            ELSE NextCall([job EXCEPT !.pc = "files", !.files = @ \ {NextFile},
                                      !.artifacts = @ \cup {NextFile}])
  /\ UNCHANGED <<clock, secrets, memory, server, data>>

AllFiles ==
  /\ job.pc = "files"
  /\ job.files = {}
  /\ job' = [job EXCEPT !.pc = "done"]
  /\ UNCHANGED <<clock, secrets, memory, server, data>>

(* Mutant: a linked source stops at the cap, too. *)
LastPageCapped == job.page >= server.pages \/ job.page >= MaxPages

(* The next page that the client of dlt yields.  An offset paginator stops *)
(* at the source's max_pages; where pages are linked, one too many raises. *)
LastPage == job.page >= server.pages \/ (job.kind = "offset" /\ job.page >= MaxPages)

WritePage ==
  /\ job.pc = "pages"
  /\ ~LastPage
  /\ Accepted(job.headers)
  /\ IF job.page >= MaxPages
     THEN job' = Fail("capped") /\ UNCHANGED data
     ELSE /\ job' = [job EXCEPT !.page = @ + 1]
          /\ data' = [data EXCEPT !.pages = @ \cup {job.page + 1}]
  /\ UNCHANGED <<clock, secrets, memory, server>>

(* A request of the client fails; the first one is made in any case.       *)
PageFails ==
  /\ job.pc = "pages"
  /\ job.page = 0 \/ ~LastPage
  /\ job' = Fail(IF Accepted(job.headers) THEN "client" ELSE "denied")
  /\ UNCHANGED <<clock, secrets, memory, server, data>>

(* A source without any page leaves an empty one.                          *)
AllPages ==
  /\ job.pc = "pages"
  /\ LastPage
  /\ job.page = 0 => Accepted(job.headers)
  /\ job' = [job EXCEPT !.pc = "done"]
  /\ data' = [data EXCEPT !.pages = @ \cup {1}]
  /\ UNCHANGED <<clock, secrets, memory, server>>

(* MCP inspect looks for a DSN under the same names, in the environment    *)
(* only.                                                                   *)
Inspected == ResolveSecret(<<<<"DET", "p">>>>, DsnKeys, TRUE, memory)

Inspect ==
  /\ memory' = Inspected.memory
  /\ UNCHANGED <<clock, secrets, server, job, data>>

-----------------------------------------------------------------------------
(* The world.                                                              *)

Rotate ==
  /\ Cardinality(DOMAIN replaced) < MaxRotations
  /\ \E store \in {"file", "vault"} :
       /\ stores[store] # None
       /\ \E name \in DOMAIN stores[store] :
            /\ Rotated(store, name)
            /\ server' = [server EXCEPT !.accepts = Pick(Payload(stores'[store][name]), HttpTokenKeys)]
  /\ job' = IF job = Idle THEN job ELSE [job EXCEPT !.lost = @ + 1, !.replaced = @ + 1]
  /\ UNCHANGED <<clock, deployment, memory, data>>

PageAppears ==
  /\ job # Idle /\ job.pc = "pages"
  /\ server.pages <= MaxPages
  /\ server' = [server EXCEPT !.pages = @ + 1]
  /\ UNCHANGED <<clock, secrets, memory, job, data>>

Tick ==
  /\ clock < MaxClock
  /\ clock' = clock + 1
  /\ UNCHANGED <<secrets, memory, server, job, data>>

(* The next extract of the process has a data directory of its own.        *)
Leave ==
  /\ job # Idle
  /\ job.pc \in {"done", "failed"}
  /\ job' = Idle
  /\ data' = [files |-> <<>>, pages |-> {}]
  /\ server' = [server EXCEPT !.pages = 0]
  /\ UNCHANGED <<clock, secrets, memory>>

Init ==
  /\ clock = 0
  /\ \E d \in Deployments :
       /\ deployment = d.deployment
       /\ stores = d.stores
       /\ server = [accepts |-> d.accepts, pages |-> 0]
  /\ memory = NoMemory
  /\ replaced = <<>>
  /\ job = Idle
  /\ data = [files |-> <<>>, pages |-> {}]

Extract == Copy \/ GetIndex \/ GetFile \/ AddArtifact \/ AllFiles \/ WritePage \/ PageFails \/ AllPages

Next ==
  \/ \E plugin \in Plugins, interval \in Intervals : Begin(plugin, interval)
  \/ (job # Idle /\ Extract)
  \/ Inspect \/ Rotate \/ PageAppears \/ Tick \/ Leave

Spec == Init /\ [][Next]_vars /\ WF_vars(job # Idle /\ Extract)

-----------------------------------------------------------------------------
(* Properties.                                                             *)

Working == job # Idle

(* "Object-store dests download to a local tempfile, verify, then upload   *)
(* so a truncated gzip is never PUT" (http_get_file), and on disk nothing  *)
(* of an attempt that will not count is left.  This holds of every attempt *)
(* that is made again, and of every artifact: what lies in the data        *)
(* directory is whole wherever that can be told, after a success and       *)
(* between two attempts, and an empty file is no artifact.  It fails only  *)
(* where the extract does, with an error nobody handles: of the disk, of a *)
(* copy, or of an upload that breaks off (a truncated object is PUT then), *)
(* or zlib's, on disk.                                                     *)
Unhandled == {"os"} \cup (IF deployment.remote THEN {} ELSE {"zlib"})

NothingHalfFetched ==
  \A f \in DOMAIN data.files :
    \/ data.files[f].content \in {"absent", "whole"}
    \/ data.files[f].content = "empty" /\ (Working => f \notin job.artifacts)
    \/ data.files[f].mark = "unchecked"
    \/ data.files[f].mark = "unhandled" /\ job.failure \in Unhandled /\ f \notin job.artifacts

(* An extract that ends has everything the interval covers, as far as it   *)
(* can tell: of the files that the index it was served lists, the newest   *)
(* of each year that has an instant in the interval, or every page that    *)
(* the source has, up to the bound of a source that sets one.  A reply     *)
(* that is cut short or no index at all counts as one.                     *)
ExtractIsComplete ==
  Working /\ job.pc = "done" =>
    CASE job.kind = "index" ->
           job.artifacts =
             {f \in job.seen :
                /\ f.gzip /\ f.matches
                /\ \E t \in job.interval[1] .. job.interval[2] - 1 : Year(t) = f.year
                /\ \A g \in job.seen :
                     g.year = f.year /\ g.matches /\ g.gzip => g.revision <= f.revision}
      [] job.kind = "names" -> job.artifacts = job.listing
      [] job.kind = "local" -> job.artifacts = {f \in job.listing : f.matches}
      [] job.kind = "fixture" -> data.pages = {1}
      [] job.kind = "linked" -> 1 .. server.pages \subseteq data.pages
      [] job.kind = "offset" -> {n \in 1 .. server.pages : n <= MaxPages} \subseteq data.pages

(* "refresh_headers re-resolves the credential once on a 401/403 so a      *)
(* rotation mid-backfill does not fail the run" (http_get): a call that    *)
(* passes it fails on a credential that the stores have right only when    *)
(* that is replaced again after the refresh, or on its last attempt.  This *)
(* is outside a DetSettings, whose cache the refresh does not reach.       *)
DeniedInVain ==
  Working /\ job.failure = "denied" /\ job.kind \in {"index", "names"} /\ job.refreshes
    /\ job.attempt < MaxAttempts /\ job.replaced = 0
    /\ server.accepts = ResolveSecret(job.tried, HttpTokenKeys, FALSE, NoMemory).credential

RotationIsSurvived == DeniedInVain => deployment.settings

(* "Pass backend="env" to pin process env (MCP inspect never touches a     *)
(* store)" (resolve_secret): such a caller gets what the environment       *)
(* holds, whatever other callers have put into the cache.                  *)
PinnedToEnvironment == Inspected.ok => Inspected.credential[1] = "env"

(* A credential that was replaced is in use for less than the two lives of *)
(* the caches that lie on each other; with a TTL of 0 not at all.          *)
CredentialsAge ==
  [][\A plugin \in Plugins, interval \in Intervals :
       Begin(plugin, interval) /\ job'.token \in DOMAIN replaced
         => clock - replaced[job'.token] < 2 * deployment.ttl - 1]_vars

(* Whatever the server answers, an extract ends.                           *)
ExtractEnds ==
  (Working /\ job.pc \in {"copy", "index", "files", "artifact", "pages"})
    ~> (Working /\ job.pc \in {"done", "failed"})
=============================================================================
