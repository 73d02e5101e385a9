--------------------------- MODULE MCProxyManager ---------------------------
(***************************************************************************)
(* Small instances of ProxyManager for TLC.                                *)
(***************************************************************************)
EXTENDS ProxyManager, TLC

CONSTANTS t1, t2, t3             \* tasks
CONSTANTS backend1, backend2     \* target addresses

MCTask1  == {t1}
MCTasks2 == {t1, t2}
MCTasks3 == {t1, t2, t3}

a   == <<"a">>
api == <<"/", "api", "/", "users">>

Uri(scheme, host, port, path) ==
  [scheme |-> scheme, host |-> host, port |-> port, path |-> path]

\* One resource under two URIs; other ports and schemes; the target of a
\* CONNECT, which has no path; an origin-form URI, which is no Address.
http     == Uri("http", a, NONE, api)
ws80     == Uri("ws", a, 80, api)
http8080 == Uri("http", a, 8080, api)
https    == Uri("https", a, 443, api)
connect  == Uri(NONE, a, 443, NONE)
origin   == Uri(NONE, NONE, NONE, api)

Rule(protocol, port, host, path, target) ==
  [pattern |-> [protocol |-> protocol, port |-> port, host |-> host, path |-> path],
   target  |-> target]

exactApi   == Rule("http", NONE, Matcher(a), Matcher(api), backend1)
exactApi80 == Rule("http", 80, Matcher(a), Matcher(api), backend2)
exactHost  == Rule("http", NONE, Matcher(a), NONE, backend2)
secure     == Rule("https", 443, Matcher(a), Matcher(api), backend1)
prefix     == Rule("http", NONE, Matcher(a), Matcher(<<"/", "api", "/", "*">>), backend1)
anyHost    == Rule("http", NONE, Matcher(<<"*">>), NONE, backend2)
regexHost  == Rule("http", 8080, RegexMatcher({a}), NONE, backend1)

MCUri1    == {http}
MCUris2   == {http, origin}
MCUris3   == {http, ws80, origin}
MCUrisAll == {http, http8080, https, connect}

MCRulesOne == {prefix}
MCRules3   == {exactApi80, prefix, anyHost}
MCRules    == {exactApi, exactApi80, prefix, anyHost}
MCRulesAll == {exactApi, exactApi80, exactHost, prefix, anyHost, regexHost, secure}

MCNoPatterns == <<>>
MCInitial    == <<anyHost>>

TaskSymmetry == Permutations(Tasks)
=============================================================================
