---------------------------- MODULE MCRequestFlow ----------------------------
(***************************************************************************)
(* Small instances of RequestFlow for TLC: rules of every kind and, for    *)
(* each, a URI it is about.                                                *)
(***************************************************************************)
EXTENDS RequestFlow

a == <<"a">>

Target(protocol, host, path, transform) ==
  [protocol |-> protocol, host |-> host, port |-> 8080, path |-> path,
   path_transform_mode |-> transform]

Rule(protocol, host, path, target) ==
  [pattern |-> [protocol |-> protocol, port |-> NONE, host |-> host, path |-> path],
   target  |-> target]

api     == Rule("http", Matcher(a), Matcher(<<"/", "api">>),
                Target("https", <<"b">>, <<"/">>, "replace"))
secure  == Rule("https", Matcher(a), Matcher(<<"/", "api", "/", "*">>),
                Target("http", <<"b">>, <<"/", "v2", "/">>, "replace"))
app     == Rule("http", Matcher(a), Matcher(<<"/", "app", "*">>),
                Target("http", <<"b">>, <<"/", "v2">>, "replace"))
doubled == Rule("http", Matcher(a), Matcher(<<"/", "dir", "/", "/", "*">>),
                Target("http", <<"b">>, <<"/", "v2">>, "replace"))
scripts == Rule("http", Matcher(a), Matcher(<<"*", ".js">>),
                Target("http", <<"b">>, <<"/", "v2">>, "replace"))
regex   == Rule("http", RegexMatcher({a}), RegexMatcher({<<"/", "re">>}),
                Target("http", <<"b">>, <<"/", "v2">>, "replace"))
local   == Rule("http", Matcher(<<"l", "*">>), NONE,
                Target("http", <<"b">>, <<"/", "local", "/">>, "prepend"))
bare    == Rule("http", Matcher(<<"m", "*">>), NONE, Target("http", <<"b">>, NONE, "prepend"))
broken  == Rule("http", Matcher(<<"d", "*">>), NONE,
                Target("http", <<"b", " ">>, NONE, "preserve"))
wild    == Rule("http", Matcher(<<"w", "*">>), NONE,
                Target("http", <<"b">>, NONE, "preserve"))

MCRules == <<api, secure, app, doubled, scripts, regex, local, bare, broken, wild>>

Uri(scheme, host, port, path) ==
  [scheme |-> scheme, host |-> host, port |-> port, path |-> path]

\* The last four: no rule is about the first two, the rule of the third has a
\* target that is no URI, the fourth is a request to the proxy itself.
MCRequestUris ==
  { Uri("http", a, NONE, <<"/", "api">>),
    Uri("http", a, 80, <<"/", "app", "/", "x", "?q">>),
    Uri("ws", a, NONE, <<"/", "app", "/", "x">>),
    Uri("http", a, NONE, <<"/", "dir", "/", "/", "x">>),
    Uri("http", a, NONE, <<"/", "x", ".js">>),
    Uri("http", a, NONE, <<"/", "re">>),
    Uri("http", <<"l", "1">>, NONE, <<"/", "x", "?q">>),
    Uri("http", <<"m", "1">>, NONE, <<"/", "x">>),
    Uri("http", <<"w", "1">>, NONE, <<"/", "x">>),
    Uri("http", <<"e">>, NONE, <<"/", "x">>),
    Uri("ws", <<"e">>, NONE, <<"/", "x">>),
    Uri("http", <<"d", "1">>, NONE, <<"/", "x">>),
    Uri(NONE, NONE, NONE, <<"/", "x">>) }

\* The last is no authority.
MCConnectUris == { Uri(NONE, a, 443, NONE), Uri(NONE, <<"w", "1">>, 443, NONE),
                   Uri(NONE, NONE, NONE, <<"/", "x">>) }
MCTunnelPaths == { <<"/", "api", "/", "x">>, <<"/", "api">> }
==============================================================================
