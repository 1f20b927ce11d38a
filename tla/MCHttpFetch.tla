---------------------------- MODULE MCHttpFetch ----------------------------
(* Processes with and without a DetSettings, with the credential in the    *)
(* file, in the environment, in both, in an embedder's vault, or nowhere;  *)
(* one plugin of each kind.                                                *)
EXTENDS HttpFetch

Setup(backend, ttl, settings, hook, remote) ==
  [backend |-> backend, ttl |-> ttl, settings |-> settings, hook |-> hook, remote |-> remote]

Holding(env, file, vault) == [env |-> env, file |-> file, vault |-> vault]

First(store) == <<store, 0>>

Named(name, raw) == name :> raw

MCDeployments ==
  {[deployment |-> Setup("file", ttl, settings, FALSE, settings),
    stores |-> Holding(<<>>, Named(<<"DET", "p">>, Bare(First("file"))), None),
    accepts |-> First("file")] : ttl \in {0, 2}, settings \in BOOLEAN}
  \cup
  {[deployment |-> Setup("env", 2, TRUE, TRUE, TRUE),
    stores |-> Holding(<<>>, None, Named(<<"own">>, Object(First("vault")))),
    accepts |-> First("vault")],
   [deployment |-> Setup("file", 1, FALSE, FALSE, FALSE),
    stores |-> Holding(Named(<<"DET", "p">>, Bare(First("env"))), Named(<<"own">>, Bare(First("file"))), None),
    accepts |-> First("file")],
   [deployment |-> Setup("env", 1, FALSE, FALSE, FALSE),
    stores |-> Holding(Named(<<"own">>, Object(First("env"))), None, None),
    accepts |-> First("env")],
   [deployment |-> Setup("file", 1, FALSE, FALSE, FALSE),
    stores |-> Holding(<<>>, None, None), accepts |-> None],
   [deployment |-> Setup("env", 1, TRUE, FALSE, FALSE),
    stores |-> Holding(Named(<<"own">>, Broken), None, None), accepts |-> None]}

File(year, revision, gzip, matches) ==
  [year |-> year, revision |-> revision, gzip |-> gzip, matches |-> matches]

Revised ==
  {File(0, 1, TRUE, TRUE), File(0, 2, TRUE, TRUE), File(1, 1, TRUE, TRUE),
   File(1, 2, TRUE, FALSE), File(2, 1, TRUE, TRUE)}

Plain == {File(0, 1, FALSE, TRUE)}

Plugin(kind, refreshes, listing) ==
  [kind |-> kind, provider |-> "p", auth_env |-> None, public |-> FALSE, refreshes |-> refreshes,
   listing |-> listing]

Public(plugin) == [plugin EXCEPT !.public = TRUE]

MCPlugins ==
  {[Plugin("index", TRUE, Revised) EXCEPT !.auth_env = <<"own">>], Plugin("names", TRUE, Plain),
   Plugin("linked", FALSE, {}), Public(Plugin("offset", FALSE, {})),
   Public(Plugin("local", FALSE, Revised)), Public(Plugin("fixture", FALSE, {}))}

MCIntervals == {<<1, 4>>}
=============================================================================
