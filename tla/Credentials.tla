---------------------------- MODULE Credentials ----------------------------
(***************************************************************************)
(* Where a credential comes from (runtime/secrets.py, and the lookups of   *)
(* runtime/settings.py).  A source asks for a list of names and for the    *)
(* keys it can use; the process environment is read first, then a file     *)
(* that an operator may rewrite.  A process that works under a DetSettings *)
(* asks the lookup of the settings, which an embedder may replace, and     *)
(* which has a cache of its own.                                           *)
(*                                                                         *)
(* A stored value is a bare string, a JSON object of credential keys or    *)
(* unusable.  Credentials are pairs of the store and a version.            *)
(***************************************************************************)
EXTENDS Integers, SequencesExt

CONSTANT None

VARIABLES
  clock,
  deployment,  \* backend: DET_SECRETS_BACKEND; ttl: DET_SECRETS_TTL_SEC;
               \* settings: one is active; hook: it has a resolver of its own
  stores,      \* what env, the secrets file and an embedder's vault hold
  memory,      \* the caches: process, file, settings
  replaced     \* when each credential was replaced

CredentialKeys ==
  {"value", "token", "api_key", "dsn", "client_id", "client_secret", "username", "password"}

HttpTokenKeys == <<"token", "api_key", "value">>

DsnKeys == <<"dsn", "value">>

NoMemory == [process |-> <<>>, file |-> None, settings |-> <<>>]

-----------------------------------------------------------------------------
(* Stored values.                                                          *)

Bare(credential) == [form |-> "string", fields |-> [value |-> credential]]

Object(credential) ==
  [form |-> "object", fields |-> [token |-> credential, host |-> <<"host", 0>>]]

Broken == [form |-> "broken", fields |-> <<>>]

(* What the fields of a payload are once those that are no credentials     *)
(* have been dropped.                                                      *)
Payload(raw) == Restrict(raw.fields, DOMAIN raw.fields \cap CredentialKeys)

With(store, name, value) ==
  [n \in DOMAIN store \cup {name} |-> IF n = name THEN value ELSE store[n]]

In(store, name) == IF name \in DOMAIN store THEN store[name] ELSE None

Usable(raw, keys) ==
  raw.form # "broken" /\ \E k \in Range(keys) : k \in DOMAIN Payload(raw)

(* A source's own name for its credential comes before those that its      *)
(* provider gives.                                                         *)
SecretNameCandidates(provider) == <<<<"DET", provider>>, <<provider>>>>

SourceSecretNames(provider, auth_env) ==
  LET derived == SecretNameCandidates(provider)
  IN  IF auth_env \in {None, derived[1]} THEN derived
      ELSE IF auth_env = derived[2] THEN <<auth_env, derived[1]>>
      ELSE <<auth_env>> \o derived

(* The first of the wanted keys that is there.                             *)
Pick(payload, keys) ==
  LET first == CHOOSE n \in DOMAIN keys :
                 /\ keys[n] \in DOMAIN payload
                 /\ \A i \in 1 .. n - 1 : keys[i] \notin DOMAIN payload
  IN  payload[keys[first]]

-----------------------------------------------------------------------------
(* The caches.  A lookup says what it has found and the memory it leaves.  *)

(* Mutant: an entry lives a tick longer.  *)
FreshInclusive(at) == clock - at <= deployment.ttl

Fresh(at) == clock - at < deployment.ttl

Found(raw, after) == [status |-> IF raw = None THEN "absent" ELSE "raw", raw |-> raw, memory |-> after]

Failed(after) == [status |-> "error", raw |-> None, memory |-> after]

(* Without a file, or with one that is refused because git does not ignore *)
(* it or because a line is not NAME=value, the lookup fails.               *)
ReadSecretsFile(m) ==
  IF m.file # None /\ Fresh(m.file.at) THEN [values |-> m.file.values, memory |-> m]
  ELSE IF stores.file = None THEN [values |-> None, memory |-> m]
  ELSE [values |-> stores.file,
        memory |-> [m EXCEPT !.file = [at |-> clock, values |-> stores.file]]]

(* A value that was found and parsed goes into the cache of the process;   *)
(* that there is none does not.                                            *)
Kept(name, raw, source, m) ==
  IF raw = None \/ raw.form = "broken" THEN Found(raw, m)
  ELSE Found(raw, [m EXCEPT !.process =
                     With(@, name, [at |-> clock, raw |-> raw, source |-> source])])

(* Mutant: the cache serves every caller. *)
CachedForAll(name, backend, m) == name \in DOMAIN m.process /\ Fresh(m.process[name].at)

(* A caller that is pinned to the environment is not served what the file  *)
(* put into the cache.                                                     *)
Cached(name, backend, m) ==
  /\ name \in DOMAIN m.process
  /\ Fresh(m.process[name].at)
  /\ backend = "file" \/ m.process[name].source = "env"

PayloadFor(name, backend, m) ==
  LET file == ReadSecretsFile(m)
  IN  IF Cached(name, backend, m) THEN Found(m.process[name].raw, m)
      ELSE IF In(stores.env, name) # None THEN Kept(name, stores.env[name], "env", m)
      ELSE IF backend # "file" THEN Found(None, m)
      ELSE IF file.values = None THEN Failed(file.memory)
      ELSE Kept(name, In(file.values, name), "file", file.memory)

(* The lookup of the settings keeps the raw value, also that there is none. *)
Remembered(name, m) ==
  deployment.ttl > 0 /\ name \in DOMAIN m.settings /\ Fresh(m.settings[name].at)

Remember(name, raw, m) ==
  [m EXCEPT !.settings = With(@, name, [at |-> clock, raw |-> raw])]

SettingsLookup(name, m) ==
  LET file == ReadSecretsFile(m)
      keep(raw, after) == Found(raw, Remember(name, raw, after))
  IN  IF Remembered(name, m) THEN Found(m.settings[name].raw, m)
      ELSE IF deployment.hook THEN keep(In(stores.vault, name), m)
      ELSE IF In(stores.env, name) # None THEN keep(stores.env[name], m)
      ELSE IF deployment.backend # "file" THEN keep(None, m)
      ELSE IF file.values = None THEN Failed(Remember(name, None, file.memory))
      ELSE keep(In(file.values, name), file.memory)

Lookup(name, pinned, m) ==
  IF deployment.settings /\ ~pinned
  THEN SettingsLookup(name, m)
  ELSE PayloadFor(name, IF pinned THEN "env" ELSE deployment.backend, m)

(* The first name that has a value decides, usable or not.                 *)
LookupAll(names, pinned, m) ==
  LET found[n \in 0 .. Len(names)] ==
        IF n = 0 THEN Found(None, m)
        ELSE LET before == found[n - 1]
             IN  IF before.status = "absent" THEN Lookup(names[n], pinned, before.memory) ELSE before
  IN  found[Len(names)]

ResolveSecret(names, keys, pinned, m) ==
  LET found == LookupAll(names, pinned, m)
      usable == found.status = "raw" /\ Usable(found.raw, keys)
  IN  [ok |-> usable, memory |-> found.memory,
       credential |-> IF usable THEN Pick(Payload(found.raw), keys) ELSE None]

(* invalidate_secret, for each of the names; the cache of the settings is  *)
(* not touched.                                                            *)
Invalidated(names, m) ==
  [m EXCEPT !.process = Restrict(@, DOMAIN @ \ Range(names)), !.file = None]

-----------------------------------------------------------------------------
(* An operator replaces a credential in the file or the vault.  A process  *)
(* keeps the environment it was started with.                              *)

Rotated(store, name) ==
  LET version == Cardinality(DOMAIN replaced) + 1
      old == In(stores[store], name)
  IN  /\ stores' = [stores EXCEPT ![store] = With(@, name, Object(<<store, version>>))]
      /\ replaced' = With(replaced, Pick(Payload(old), HttpTokenKeys), clock)
=============================================================================
