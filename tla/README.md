# A TLA+ verification of proxy-fork

proxy-fork is an HTTP(S) proxy that rewrites requests by rules. A client sends a request or a
CONNECT to a listener; a MITM library (a patched copy of `hudsucker` in `crates/hudsucker`) reads
it, asks the handler of `crates/proxy-fork-core` where it should go, and forwards it, opens a
tunnel, or relays a WebSocket. `crates/proxy-fork-cli` loads configuration and CA, starts the
proxy and may point the operating system's proxy setting at it.

This directory holds TLA+ modules of the program's own logic, the TLC configurations that check
them on small instances, and TLAPS proofs. Every definition names in `PROJECT.json` (`map`) the
source lines it stands for. Operators called `X_something` are plausible slips in the
definition `X` (a dropped guard, a missing reset, a wrong order); no specification uses them. They
are there to show that each property would notice: replace `X` by the slip and TLC finds the
property listed for it in `PROJECT.json` (`mutants`) violated.

1. [Inventory](#1-inventory) - 2. [Modules](#2-modules-and-how-they-correspond-to-the-code) -
3. [Runs](#3-runs) - 4. [Findings](#4-where-code-and-documentation-disagree) -
5. [Proofs](#5-proofs) - 6. [Not modelled](#6-what-is-not-modelled) -
7. [Plan](#7-plan) - 8. [Running it](#8-running-it)

## 1. Inventory

Paths are relative to `src/crates/`.

| Component | State it keeps | Operations | What makes it hard | What makes it correct |
|---|---|---|---|---|
| Rule engine (`proxy-fork-core/src/http_address.rs`, `match_strategy.rs`) | none | `Address::from_uri`, `AddressPattern::new`/`matches`, `PatternMatcher`, `to_uri_with_rewrite` | a missing port or path means "any" in a pattern, but is a value in an address or an index key | index and patterns agree on what a rule is about |
| ProxyManager (`proxy_manage.rs`) | `exact_rules` (hash index), `pattern_rules` (list), LRU `cache` behind a mutex | `find_target`, `find_target_with_match_info`, `add_rule`, `clear`, `clear_cache`, getters | two critical sections in one lookup; the lookup exists twice; the cache must follow the rules | cached and held answers agree with the rules |
| The lock around it (`tokio::sync::RwLock`, used in `proxy_handler.rs`) | guards held, FIFO queue | `read().await`, `write().await`, dropping a guard, dropping a waiting future | requests and rule changes contend; futures are dropped at awaits | no starvation, no leaked guard |
| Request flow (`proxy_handler.rs`, `hudsucker/src/proxy/internal.rs`) | per request | `handle_request`, `rewrite_request_uri`, `InternalProxy::proxy`, `serve_stream` | CONNECT, plain and upgrade requests take one path through the rules | requests reach the target the rules say, headers agree with it |
| CONNECT handling (`internal.rs`, `rewind.rs`) | per connection: bytes read ahead | `process_connect`, `Rewind::poll_read` | TCP delivers any number of bytes; the decision is taken on the first read | no byte lost or doubled; the decision fits the protocol |
| WebSocket relay (`internal.rs`, `hudsucker/src/lib.rs`) | two split sockets, two tasks | `upgrade_websocket`, `handle_websocket`, forwarders | two tasks over two sockets, close and errors on either side | messages in order, both directions end |
| Process life (`commands/start_proxy.rs`, `hudsucker/src/proxy/mod.rs`) | listener, connection tasks, signal task, system proxy setting | start, accept loop, `shutdown_signal`, graceful shutdown | Ctrl-C races accepts and requests; the setting outlives the process | requests in flight are answered, the process ends, the setting is undone |
| Certificate authorities (`rcgen_authority.rs`, `openssl_authority.rs`) | moka cache of server configurations with time to live | `gen_server_config` | nothing is locked between a miss and the insert; entries age by another clock than certificates | whatever is answered is valid; one certificate per host, but for reasons |
| Loading of the CA (`certification.rs`, `commands/start_proxy.rs`) | none | three ways to a certificate and a key, two reads | the files may be being written; nothing compares the two | certificate and key belong together |
| gen-ca (`commands/gen_ca.rs`) | two files | questions, two writes | a crash in between; two runs at once; paths that turn the questions off | certificate and key belong together, nothing overwritten unasked |
| Configuration (`config.rs`, `args.rs`, `dirs.rs`) | none | merge of user file, directory file, `--config`, command line; rules made of texts | precedence, missing values, unreadable files, two sets of checks for a rule | the more important source wins, value by value; accepted rules run |
| Statistics (`proxy_manage_stats.rs`) | five relaxed atomic counters (feature, off by default) | increments, `snapshot`, `reset` | none of it is atomic as a whole | sums agree when nothing runs |
| Body decoder (`decoder.rs`, `body.rs`) | streams | decoding of Content-Encoding | - | not used by `ProxyHandler` |
| Wiring (`builder.rs`, `noop.rs`, `main.rs`, `lib.rs`) | none | construction, dispatch, logging | - | - |

How they interact: gen-ca leaves two files, which a start of the proxy loads if its configuration says so.
The CLI builds one `ProxyManager`, adds the rules of the configuration and
shares it as `Arc<RwLock<ProxyManager>>` with a `ProxyHandler` that is cloned for every
connection. The accept loop spawns one task per connection; each request calls `handle_request`,
which holds a read guard from the lookup until the new URI is built. A CONNECT or a WebSocket
upgrade spawns a task of its own, which no shutdown guard knows of. With the CA on, what comes
through a CONNECT is served by the same `InternalProxy`; the TLS handshake in front of that asks the
certificate authority for a server configuration. Other owners of the `Arc`
(`examples/dynamic_rules_simple.rs`) take the write guard to change rules while requests run.

The hazards this leads to are listed in `PROJECT.json` (`hazards`), each at its line, with
the properties that watch it, or why none does.

## 2. Modules and how they correspond to the code

```
AddressRules  <--  ProxyManager  -- implements -->  RouteTable
                     ^        ^
          MCProxyManager    ProxyManagerProofs
AddressRules, Lists  <--  PathRewrite, RequestFlow  <--  MCRequestFlow, RequestFlowProofs
                          ProxyManager  -- INSTANCE -->  RequestFlow
ConnectTunnel  <--  MCConnectTunnel, ConnectTunnelProofs
WebSocketRelay <--  MCWebSocketRelay, WebSocketRelayProofs
WebSocketRelay  -- implements -->  Conversation
ProxyServer    <--  MCProxyServer, ProxyServerProofs
CertCache      <--  MCCertCache, CertCacheProofs
Lists  <--  Configuration  <--  CaFiles  <--  MCCaFiles, CaFilesProofs
Lists  <--  ListProofs  <--  RequestFlowProofs, CaFilesProofs
```

**AddressRules** is pure: parsing a URI into an `Address` (`FromUri`), matching a pattern
(`Matches`), the decision whether a rule goes to the index (`IsExact`) and the normalised index
keys on both sides (`PatternKey`, `KeyOf`). Hosts and paths are sequences of the pieces patterns
can tell apart; a regular expression is the set of texts it matches.

**ProxyManager** is the manager with its lock, shared by the tasks `Tasks`. `exact_rules`,
`pattern_rules` and `cache` are the fields; `readers`, `writer` and `queue` are the tokio RwLock,
which hands out guards in FIFO order; `pc`, `op` and `result` say where each task is, with what,
and what it found. A task asks for the lock (`Request`), gets it (`Acquire`), runs its operation
and drops the guard (`Release`). `find_target` is three steps, because the cache mutex is
released between looking and storing: `LookInCache`, `LookInRules`, `StoreInCache`. The other
operations hold no await that can really wait and are one step each: `MatchInfo`, `AddExactRule`
and `AddPatternRule` (the two branches of `add_rule`, of which the first returns before the
cache is cleared), `Clear`, `ClearCache`. `Abandon` is a future dropped at an await. `offered` is a history variable: the routes each URI had since the cache was
last cleared.

**RouteTable** is the abstract specification: a table of routes that is replaced from time to
time, and tasks that ask it and use the answer for a while. It has no index, cache or lock. It
promises that the table does not change while an answer is in use, that a lookup with match
info is answered by the table in force (`FreshLookup`), and that a cached lookup is answered by a route its
URI had since the last reset (`CachedLookup`). An answer carries the kind it is of, so that neither step can stand for the
other. `ProxyManager!Table` maps the manager to it.

**Lists** is one pure operator: `Kept`, the loop that goes over a list and keeps the elements at some
positions. The start keeps the rules that can be used (`RuntimeRules`), and of those the manager
keeps in its list the ones that do not go to the index.

**PathRewrite** is pure: `to_uri_with_rewrite` with its three modes (`Prepended`, `Replaced`,
`NewPath`, `ToUri`).

**RequestFlow** is one client connection. `req` is the request being handled and `step` where it is:
`HandleRequest` is `handle_request` (extensions off, URI rewritten, Host renewed), and then one of
`ProcessConnect`, `UpgradeWebsocket` and `ForwardRequest` answers it, as in `InternalProxy::proxy`. `Connect`
stands for what `ConnectTunnel` decides; if the connection is to be served, `ReceiveInTunnel` is `serve_stream`,
which completes the URIs of HTTP/1 with the tunnel's scheme and authority. The lookup is
`FindWithMatchInfo` of an instance of `ProxyManager` whose rules are those of the configuration.
`asked`, in requests and tunnels, is a history field: what the client meant, whatever the
code made of it. `upstream` is the last request sent out, since the tunnel was asked for if there is one.

**WebSocketRelay** is one upgraded connection: `ConnectWebsocket`, `AnswerUpgrade` and `SpawnForwarders` are
`upgrade_websocket` with its early returns, `Forward` is the loop of a forwarder, which reads one message
(`ReadMessage`, `ReadError`, `ReadNone`) and passes it or a Close on (`SendMessage`, `PassClose`,
`PassError`). The peers may send, err, close, leave or stop reading at any time; the sockets between are
tungstenite's, modelled by what they do: a Close is answered at the next read, after a Close nothing is sent, and a Close
to a socket that is closing is refused before anything is written (`SendClose`), so that an answer that is outstanding stays so.

**Conversation** is the abstract specification of the relay: two sides that send, leave and are told that it is over. What
one sends arrives at the other message by message, none where the end has been told, and nobody is told before somebody has left. It has
no sockets, no Close handshake, no forwarders. `WebSocketRelay!Talk` maps the relay to it: a side has left when its peer has
sent a Close, erred or gone.

**ConnectTunnel** is one CONNECT, byte by byte: the client sends its script in pieces of any
size, the task reads up to four bytes once (`ReadFirst`), puts them into the `Rewind`, decides
(`Decide`), and then accepts TLS, serves, or dials and tunnels. `PollReadPre` and `PollReadInner`
are `Rewind::poll_read`, for readers with any amount of room (`Rooms`). Of the way back only the
end is modelled.

**ProxyServer** is the process: `main` is where `start_proxy` is, `signal` where the spawned
task of `shutdown_signal` is, `conn` what each connection is doing, `told` the connections whose
guard has been cancelled, `tunnels` the spawned tasks nobody waits for, and `sysproxy_on` the
operating system's setting, which outlives the process. A connection is `idle`, has sent part of a request (`SendPart`) or all of its head
(`Send`), is `busy` once the request is taken up (`TakeUp`) and `answering` from the beginning of the answer (`Answer`) to its
end (`Respond`, `Upgrade`). `Start`, `SetSysproxy`, `Resolve`, `Bind`
are the start in the order of the code, `StartFails` its early returns; `SignalFires` and
`DisableSysproxy` are `shutdown_signal`; `Accept`, `StopAccepting`, `Drained` the accept loop and the
shutdown after it; `Told` the graceful shutdown of one connection. `Killed` is
whatever ends the process otherwise. `taken`, `again` and `unclean` are history variables. Told to shut down, hyper closes an idle connection and
lets requests in flight be answered; where a request has begun to arrive either may happen (`Told`).

**CertCache** is `gen_server_config`, which both authorities write out in the same way: a handshake
finds the configuration of its authority in the cache (`GetCached`) or does not (`Miss`), and then makes a
certificate (`GenCert`) and stores it (`Insert`), over whatever another has stored in between. There are two clocks:
`now`, the time of day, which certificates are dated by, and `awake`, the monotonic clock by which moka tells the age of
an entry, and which stands while the machine sleeps (`Sleep`). moka is external: no answer after the time to
live (`IsCached`), and an entry may go at any time (`Evict`). The dates are those of `gen_cert`, the time to live
half of the validity, in the code's own terms.

**Configuration** is pure: `LoadStartProxyConfig` merges what up to three files say (`MergeFileCfg`) and puts the
command line on top; `ParseRuleArg` and `IsInvalid` are the two checks a rule of the command line passes
before it is run with as `RuleItemToRuntime` has it. A file is missing, unreadable, or what it says; TOML and clap are external.

**CaFiles** is the files gen-ca writes and a start of the proxy reads. There are two pairs of paths, the defaults and
the ones somebody names. A run of gen-ca asks (`ConfirmCert`, `ConfirmKey`) if no path was given, and then writes the
certificate and the key, each in two steps (`TruncateCert`, `WriteCert`, `TruncateKey`, `WriteKey`), because
`fs::write` empties a file before it fills it. It may end at every step (`GenCaFails`). start-proxy reads its configuration
(`ReadConfiguration`), chooses where certificate and key come from (`StartProxy`, `CertSource`, `KeySource`), and loads
one after the other (`LoadCert`, `LoadKey`); it may be started again. gen-ca begins only after the configuration has
been read: the two are about different files, so nothing is lost by that order. `named`, `together`, `unasked`,
`apart` and `sound` are history variables: the runs given a path, the runs that were not alone, those that
overwrote what nobody agreed to lose, the pairs of files not written as a pair, and whether what a start has loaded
was a pair, untouched while it was loaded.

## 3. Runs

| Run | Instance | What it shows |
|---|---|---|
| `manager_safety` | 2 tasks, 3 URIs (two of them one resource, one without authority), 3 rules (in the index, by prefix, any host), cache of 1, 2 patterns | `TypeOK`; `LockDiscipline`: guards and queue agree with the tasks, also after abandoned awaits; `StaleOnlyBehindExactRule`: the cache is stale at most behind the index; `NothingFromBeforeTheClear`: no lookup stores across a clear what it found before; `HeldResultsAreCurrent`: what a task holds is what the rules say; `LookupsAgree`: the two copies of the lookup give the same answers; `EveryRouteHasARule`: each answer comes from a listed rule that accepts the address; `ImplementsRouteTable`: the manager implements the abstract table, with fresh answers from the table in force and cached ones from what was offered since the last reset; `RequestsEnd`: whoever asks for the lock gets it and ends |
| `manager_stale`, `manager_unrouted` | | two claims of the repository that do not hold, section 4 |
| `tunnel` | 7 clients, reader rooms 1, 3, 8, with and without CA | `NothingLostNothingAdded`: the first bytes come back whole, in order, once; `Classified`: a connection is served only if it really begins like TLS or `GET `, and is tunnelled although it does only after a short read; `FirstBytesArrive`: they reach their reader however few they are; `ClosedClientEndsTask` |
| `tunnel_tls` | the same | a claim that does not hold, section 4 |
| `flow` | 10 rules of all shapes and modes, 13 URIs, 3 CONNECTs, 2 paths in tunnels, HTTP/1 and HTTP/2 | `AskedIsRouted`: a request goes where the rules send the URI its client meant, through a tunnel no rule has moved or not; `HostNamesUpstream`: its Host names that place, for upgrades too; `PathAsDocumented`: the path is what the documentation of the modes says |
| `flow_intercept` | the same | a claim that does not hold, section 4 |
| `relay` | 2 messages, all from one peer or one from each | `NothingLost`, `NothingSkipped`: messages arrive in order, none missing before one that arrived; `EndsAreShared`: when one forwarder has ended, the other side is told, gone, or owed the answer to its own Close by a forwarder that is still there; `RelayEnds`: after one peer has ended both forwarders end; `ImplementsConversation`: the relay implements the abstract conversation |
| `server` | 3 connections, 2 starts of the program | `TakenUpIsAnswered`: a shutdown cuts no request in flight; `SysproxyOffAfterCleanEnd`: the setting is left on only by a failed start, a kill or a failed reset; `ShutdownEnds`: after Ctrl-C the process ends, if begun requests are completed, upstreams answer and answers are read |
| `server_again` | 1 connection | a claim that does not hold, section 4 |
| `certs` | 3 handshakes, 2 authorities, validity of 7, offset of 1, 4 units awake, 2 asleep | `ValidWhenAnswered`: a certificate is valid when it is answered, also for a slow client, although the cache and the certificate go by different clocks; `SecondHasAReason`: a second certificate for a host is made only by a concurrent miss, after expiry or after an eviction |
| `startup` | 2 runs of gen-ca; 6 shapes of each of 4 files with 4 command lines | `ServedPairBelongs`: certificate and key are from one run, if the files were written as a pair and nobody wrote meanwhile; `ApartHasAReason`: files that are no pair are the doing of a run that failed, overlapped another or was given two pairs of paths; `UnaskedHasAReason`: nothing is overwritten unasked but by a run that was given a path; `ConfigFollowsPrecedence`: each setting is that of the most important source that gives it; `AcceptedRulesRun`: no rule the command line accepts, and whose patterns compile, is left out |

**Why the bounds are enough.** The interactions of the manager are between two tasks: one
between its two critical sections, one that changes what it relies on; two are also enough to starve one, since a reader may come back again and again
while a writer waits (letting readers pass the queue violates `RequestsEnd`). A cache of
one entry and two URIs that can be cached evict at every second store; what holds of larger ones is proved. Two patterns show
precedence among patterns, and an exact rule with one of them the precedence of the index.
`MaxPatterns` is a bound of the model only: `Fits` keeps `add_rule` from being called when the list
is full. The tunnel's decision reads four bytes, and the scripts put every boundary inside them:
shorter than the array, shorter than the TLS prefix, longer than both; rooms of 1 and 3 force
the `Rewind` to be read in pieces. The flow handles one request after the other, so one of each kind
is enough, outside a tunnel and inside; its rules have each mode with and without what the mode
needs, and each kind of path. Two messages through a relay are what it takes to lose one and pass
the next; they are numbered, since nothing in the code looks into them. For the server three connections can be in three different
states while the shutdown begins, and two starts are what it takes for one run to find the setting
another left. Three handshakes are two that race and one that comes after; the machine is awake for longer than
one time to live (3), so that entries expire, and asleep for long enough to use up the margin. Two runs of gen-ca are
what it takes to overlap; of the configuration every combination of shapes is read, and the shapes give each
setting in one file and leave it out in another. Symmetry is used by `certs` (handshakes, authorities) and `startup` (runs of gen-ca) only, which check
no liveness.

**Fairness.** Three kinds of things are assumed to happen: a task the tokio runtime can poll
is polled (`WF` of the task's own steps); the lock wakes the head of its queue (`WF` of
`Acquire`), as tokio documents for its fair RwLock; hyper tells each connection that its guard is
cancelled (`WF` of `Told`). The relay's `Forward` is a task, too. Nothing is assumed of clients, servers and users: no fairness for
`ClientSends`, `ClientCloses`, `Send`, `CtrlC`, `Abandon`, none for `Answer` and `Respond`, which take an upstream that
answers and a client that reads, and none for failures. `ShutdownEnds` is
conditional on clients that finish a request they have begun (`RequestsComplete`) and read their answers (`AnswersAreRead`) and on upstreams that
answer (`AnswersCome`): after `graceful_shutdown` the connection is awaited without a limit (`mod.rs:168-173`), and so are the
connections (`mod.rs:185`). Without any one of the three TLC finds a process that never ends.
`RelayEnds` is conditional on peers that read (`PeersRead`) and that leave when sent a Close (`PeersLeave`), for the same reason.
In `ConnectTunnel` the TLS handshake and the HTTP server carry no fairness, since both wait for
the client; so `ClosedClientEndsTask` does not rest on their own time-outs.

**Deadlock** is checked for the manager, whose tasks can always ask again, and off for the tunnel,
the relay and the connection of the flow, which end, for the server, which stays off after its last start, and for
the certificates and the files of the CA, where every handshake and every run may be over.

## 4. Where code and documentation disagree

* **Adding an exact rule leaves the cache as it is** (`manager_stale`). `add_rule` returns after
  inserting into the index (`proxy_manage.rs:231`), before the line that empties the cache. A test is
  named for the contrary (`proxy_manage_test.rs:354`, cache invalidated after adding a rule) but clears
  everything before it adds the second rule. `find_target` serves the old route. `StaleOnlyBehindExactRule` is what
  remains true. The request path uses `find_target_with_match_info`, which has no cache.
* **A rule without port or path, if literal, is not "any port, any path"** (`manager_unrouted`). It
  goes to the hash index only, whose key carries the missing values as values.
* **A short first read defeats interception** (`tunnel_tls`). With the CA on all TLS is said to be
  intercepted (`proxy_handler.rs:138`); a first segment of one byte makes it an unknown protocol and
  a tunnel. `Classified` says that nothing but short reads does this.
* **The second Ctrl-C does nothing** (`server_again`). `start_proxy.rs:53` logs "Ctrl+C received again,
  shutting down immediately." at the first one, and the shutdown waits without limit for requests that are not answered or whose answers
  are not read.
* **A rule for a host rewrites its CONNECTs as well** (`flow_intercept`). `handle_request` treats a CONNECT
  like any request, so a rule whose pattern needs no path moves the whole tunnel to its target. With the CA on,
  HTTP/1 requests inside are then looked up under the target's authority, HTTP/2 requests under
  the client's. `proxy_handler.rs:138` promises that all of them are routed by the rules; `InterceptedIsRouted` says so of requests in
  a tunnel, and the run shows a CONNECT that a rule moves and a request in it that goes where no rule sends what its client
  asked for. `AskedIsRouted` is what remains true: they are routed if the CONNECT was left alone.

Smaller ones, which the model has unless it says otherwise, and no run is spent on:

* The handler looks at the first line of a header and the whole of `Upgrade` (`proxy_handler.rs:30`), `hyper_tungstenite` at
  all lines and lists. What only the latter takes for an upgrade (`upgrade = "listed"`) is dialled with its
  extensions, which `proxy_handler.rs:51` says are removed, and with the client's Host.
* `websocket_request` (`internal.rs:412`) makes wss of every scheme but http, ws included, if a client sends a ws URI
  and no rule is about it (`WebsocketUri`); `http_address.rs:34` has ws for another http.
* Prepending drops the query of a URI without a path (`http_address.rs:215`, `Prepended`); the other modes keep it.
* gen-ca asks before it overwrites only if neither path was given (`gen_ca.rs:51`): one path of its own, or a default
  path written out, is taken for consent to both files. `UnaskedHasAReason` is what remains true.
* A certificate without a key is silently ignored and the defaults are loaded (`start_proxy.rs:148`, `CertSource`); a key
  without a certificate looks in the system for the name `proxy-fork` (`start_proxy.rs:143`), while gen-ca's
  certificates are called `Proxy-Fork CA` (`certification.rs:148`; `CertsAt`, `MCSystemStore` has one of each).
* Nothing compares certificate and key when they are loaded (`LoadCert`, `LoadKey`).
* A file of `--config` that does not exist is passed over (`config.rs:111`), one that does not parse is an error.
* A port of a `--rule` that is none becomes any port (`args.rs:125`, `ParseRuleArg`).
* Rules of the command line come after those of the files (`config.rs:149`), so that among patterns the files win,
  where for every other setting the command line does.
* Not in the model: for a host that is an IP address the certificate names it as a DNS name (`openssl_authority.rs:109`).

## 5. Proofs

For every set of tasks, URIs and rules, every list of initial patterns, every cache size and every
bound on the list, it is proved of `ProxyManager`:

| Theorem of `ProxyManagerProofs` | Property |
|---|---|
| `TypeCorrect` | `TypeOK` |
| `HeldCorrect` | `HeldResultsAreCurrent` |
| `StalenessBounded` | `StaleOnlyBehindExactRule` |
| `ClearsAreFinal` | `NothingFromBeforeTheClear` |
| `RoutesComeFromRules` | `EveryRouteHasARule` |
| `LockIsDisciplined` | `LockDiscipline` |
| `LookupsStayEqual` | `LookupsAgree` |
| `Implements` | `ImplementsRouteTable` |

The only assumptions are those of the module itself: the cache size is positive (`NonZeroUsize`),
the initial patterns are rules, and `NONE` is neither a task, nor a target, nor a match result
(an `Option` is `None` or a value, not both).

*The argument.* `HeldResultsAreCurrent`, `StaleOnlyBehindExactRule` and `NothingFromBeforeTheClear`
are not inductive. That a held result stays
current needs that nobody changes the rules meanwhile, that is, that a task in the middle of a
lookup holds a read guard and that readers exclude the writer: `GuardsMatchTasks`, the part of
`LockDiscipline` about guards. It is inductive together with the part of the type invariant that
concerns the tasks (`GuardsInit`, `GuardsNext`). From it follows `WriterIsAlone`: while a task changes the rules no
other task is inside a lookup; so a held result is current after each step (`HeldNext`).
What goes into the cache is a held result, hence the current route; routes change only when
the writer adds a rule or clears: a pattern rule and `clear` empty the cache, and an exact rule
changes the route only of URIs whose key it puts into the index. That is `CacheInv`, which also ties
`offered` to the current route: every URI's current route is among those offered. It is inductive
relative to the other three (`CacheNext`), and `StalenessBounded` and `ClearsAreFinal` are its
parts. `RoutesComeFromRules` holds of any rules whatever, reachable or not: a pattern rule that
answers accepts the address by definition, and the pattern listed for a key accepts every address
with that key (`KeyPatternMatches`).

`LockDiscipline` adds to `GuardsMatchTasks` that the queue holds exactly the
waiting tasks, once each, which appending, taking the head and removing a task all keep (`AppendQueue`,
`TailQueue`, `WithoutQueue`). `LookupsAgree` needs the types of the rules only (`SameLookup`).

The refinement rests on the types, the guards, the held results and the cache. Each step of the manager is one of
the table or changes nothing of it (`NextRefines`): the last step of `find_target` is a cached answer, of a route that was offered
since the last reset (`FindTargetRefines`); that of `find_target_with_match_info` is a fresh one, of the table in force
(`MatchInfoRefines`), which it would not be if it looked into the cache (`MatchInfo_FromCache` is that slip); the end of a task is `Done`; `add_rule`, `clear` and `clear_cache` are `Extend`, `Replace`
and `Reset` (`RulesRefine`). That the table may be replaced only while no answer is in use is again
`WriterIsAlone` (`NobodyAnswers`).

The list operations of the manager (`Promote`, `CachePut`, `Without`) are written by position, without
recursion, so that the lemmas about them (`PromoteEntries`, `PutEntries`, `WithoutType`) are plain
facts about functions on `1 .. n`.

`ConnectTunnelProofs` proves, for every set of scripts and of rooms, `TypeCorrect` and
`NothingIsLost` (`NothingLostNothingAdded`). The inductive invariant adds `NothingYet`: before
its first read the task holds nothing and has passed nothing on, which is why `ReadFirst` may
set `pre` instead of appending to it. Each step is then an identity about concatenation: taking
a piece from the front of a sequence and appending it to the one before (`TakeDrop`, `Regroup`).
Assumed are that scripts are sequences of bytes and that a reader has room for at least one.
`FirstBytesTell` (`Classified`) builds on it: what the first read took is the beginning of the script
(`Looked`), because nothing was passed on before; so the comparison sees bytes of the client or the zeros
behind them, and neither pattern has a zero in it (`Compared`).

`ProxyServerProofs` proves, for every set of connections and every number of starts, `TypeCorrect`,
`SettingIsUndone` (`SysproxyOffAfterCleanEnd`) and `RequestsAreAnswered` (`TakenUpIsAnswered`).
The first needs `SettingIsOwned`: while the setting is on and nothing went wrong, a run that
announced itself exists and has not finished with Ctrl-C; this is inductive because
`DisableSysproxy` comes between the signal and the end of the accept loop. The second needs
`ConnsNeedListener`: without a listener there is no open connection, so that a start that
fails cannot cut a request.

`WebSocketRelayProofs` proves, for any number of messages, `TypeCorrect`, `NothingIsSkipped`
(`NothingSkipped`), `NothingIsLost` (`NothingLost`) and `NoEndIsKept` (`EndsAreShared`). The invariant has five parts for each direction. `Beginning`: what arrived is a first part of what
was sent. That is not inductive, since the next message to arrive must be the next one sent; `Complete` says so
as long as the receiving socket takes messages: what has arrived, what the forwarder holds and what is on the wire
are numbered without a gap. After a failed send it is false for good, and harmless: a socket that closes or whose
peer is gone never takes a message again. `Ordered` keeps messages before whatever ends the stream, and `Forwarder` ties what is held to
where the forwarder is. `Closing` is about the ends: a socket that is closing was told to by a forwarder, or its
peer's Close has been met and the other side is owed one (`Owed`), told, or closing by its own Close (`Met`); so a forwarder that ends without sending
(`ReadNone`), or whose Close is refused, finds the other side told or about to be. While a socket owes the answer to its peer's Close its forwarder
has not ended and is not about to, which is why the answer is sent. One lemma per action keeps the five (`...Keeps`). Assumed are `MaxSent` a
natural number and marks (`CLOSE`, `BAD`, `NONE`) that are no messages.

`Converses` (`ImplementsConversation`) is the refinement of `Conversation`. A message that arrives is the next one sent by `Complete`
(`MessageTalks`), and a side is told by its forwarder after a Close or an error of the other, or by answering its own peer's Close
(`ForwarderTalks`); either way somebody has left. That nothing arrives where the end has been told needs one more part, `NoneAfter`:
a side that was told has a socket that takes no messages any more. `tungstenite` keeps it so, and `SendMessage`
asks the socket (`SendMessage_AfterClose` is the slip that does not).

`CertCacheProofs` proves, for any number of handshakes and authorities and all times within the margin, `TypeCorrect`,
`AnswersAreValid` (`ValidWhenAnswered`) and `SecondsHaveReasons` (`SecondHasAReason`). `MarginAssumption` is the environment's share:
what is left of a certificate when its entry expires (half of its validity, which is a year in the code) outlasts the sleep of
the machine and the slowest handshake. `ClocksAgree` bounds the difference of the clocks, `JustDated` the age of a certificate on its way
to the cache, and `EntriesAreGood` carries both over to entries, by the monotonic clock. `EntriesAreYoungest` says that
without an eviction the entry of a host is as young as any stored for it, because `Insert` replaces: so who
misses, misses for its age.

`CaFilesProofs` proves, for any number of runs of gen-ca and any files and command lines, `TypeCorrect`, `PairsBelong` (`ServedPairBelongs`),
`TornByRuns` (`ApartHasAReason`), `AskedFirst` (`UnaskedHasAReason`), `PrecedenceHolds` (`ConfigFollowsPrecedence`) and
`AcceptedRun` (`AcceptedRulesRun`).
`Alone`, `Touched` and `FilesBelong` say that files are a pair unless marked: a run marks a pair of paths as apart when it opens
its first file, and removes the mark only if it was alone and wrote both there, whence its certificate is still in place.
`LoadedCert` carries this over the two reads of a start. `Consent` follows a run from question to question: alone, what it is about to
overwrite was there when it asked, or is not there. The precedence is about the merge: a merged file says of each setting what the
upper says, or else the lower (`MergeSays`), three times over; and the most important of three sources is the first that
says anything from above (`LastGiven`, `SaidIs`). Assumed are `SourcesAssumption` and `SectionsAssumption` (files have the
fields of `FileConfig`, rules are lists), `SystemAssumption` and that markers are no contents.
`AcceptedRun` follows a rule of the command line through the two checks: `ParseRuleArg` lets only http and https pass as protocols
(`AcceptedOnly`), which is what `IsInvalid` asks for too, so what is left of the second check are the patterns; and a rule that
is kept is in the list that `Kept` makes (`RulesRun`).

`ListProofs` is about loops over lists: `KeptElements` says that `Kept` holds the elements at the given positions and no others. The
induction this takes is written out as the argument by the least counterexample (`Least`): of the lengths for which the loop
is wrong there would be a smallest, and the step before it was right (`UpTo`, `KeptLoop`). `Least` itself follows from the library's fact
that strict inclusion of finite sets is well founded, applied to the sets `0 .. n`; `Greatest` from `Least`.

`RequestFlowProofs` proves, for every list of rules and all requests, `TypeCorrect` (`TypeOK`), `RoutedAsAsked` (`AskedIsRouted`),
`HostsNamed` (`HostNamesUpstream`) and `PathsDocumented` (`PathAsDocumented`). The properties are about the last request sent upstream, which
says nothing of the requests on their way to it. The inductive invariant therefore adds `RequestAsMeant`: before `handle_request` a
request has the URI and the Host its client meant, afterwards the URI the rules make of that, and an upgrade the
handler saw has the Host that belongs to it; and `SentAsMeant`: what was sent is such a request, perhaps with the scheme of a WebSocket.
Both hold while the tunnel around the requests leads where it was asked to (`TunnelAsAsked`), which is why `ReceiveInTunnel` and `Connect` may
start anew: a CONNECT ends what was said of requests before it. There is one lemma per action (`...Keeps`).

`PathsDocumented` is the arithmetic of the three modes. The code trims first the stars and then the slashes off the rule's
path and cuts off the request's path what is as long as the rest; the documentation speaks of what the pattern matched. They agree because a trimmed
text is the part up to its last other token (`Trimmed`), because the request's path begins with what a literal or a `*`-terminated
pattern matched, while of `*suffix` and regular expressions there is no prefix that could be cut (`FoundIsSeen`), and because what
remains then is either empty or begins where the prefix ended (`Seam`, `NewPathDocumented`). `TypeCorrect` says on the way
that whatever the rules make of a URI is one (`DestinationType`): no path becomes empty, `ToUri` adds the slash.
Assumed are the types of the constants (`UrisAssumption`, `RuleListAssumption`: rules are as the configuration builds them), that `NONE` is
no value, and `LiteralsAssumption`: that the words "/", "http" and so on are texts, which is true of any string but not known to the provers.

*Only model-checked* are the liveness properties (`RequestsEnd`, `FirstBytesArrive`, `ClosedClientEndsTask`, `ShutdownEnds`, `RelayEnds`): liveness
under fairness and `ENABLED` are out of the prover's reach. The claims of section 4 are refuted by runs. Every other property of a
passing run is a theorem.

## 6. What is not modelled

* Statistics: the default build compiles them to nothing, nothing in the program reads them, and no text says how
  the five counters relate while lookups run.
* What certificates say, cryptography, TOML and argument parsing, logging: input and output.
* The body decoder: the handler never calls it. The builder, `main.rs` and `noop.rs`: wiring without behaviour of its own.
* External code is modelled by how it is used: tokio's RwLock and mutex, the `lru` crate,
  hyper's graceful shutdown, `tokio-graceful`, `moka`, tungstenite's sockets, `copy_bidirectional`, the operating system.
* Of the relay: the subprotocol the response to the client names (one assignment, `sync_websocket_subprotocol`), and the Pong with
  which tungstenite answers a Ping by itself, before and beside the Pong of the other peer: in the model a Ping is a message that is passed on.
* Of the request flow: concurrent streams of HTTP/2 and a CONNECT inside one; headers other than Host and
  `Sec-WebSocket-Extensions`; rules that change (that is `ProxyManager`).
* Of gen-ca: which directories it makes, and files that anybody else writes. Of the configuration: `--debug`, and
  `--enable-sysproxy`, which no file can say (`ProxyServer` has what follows from it).
* Protocols in which the server speaks first: the proxy waits for the client's first byte before it dials, and no
  document promises otherwise.
* A future of `add_rule` or `clear` dropped while it waits for the cache mutex, after the rules have changed: the mutex is
  free whenever the write guard is held, so only a forced yield of the runtime could interrupt it there, and no
  caller drops such a future.

## 7. Plan

Done, in the order of importance:

1. `AddressRules`, `ProxyManager`, `RouteTable`, with proofs: which target a request gets
   while rules change.
2. `ConnectTunnel`, with proofs: what happens to a CONNECT.
3. `ProxyServer`, with proofs: life and death of the process.
4. `PathRewrite` (pure): `to_uri_with_rewrite` and its three modes.
5. `RequestFlow`, with proofs: requests of every kind, outside a tunnel and inside one.
6. `WebSocketRelay` and `Conversation`, with proofs: two forwarders over two sockets, with close, error and end on either side.
7. `CertCache`, with proofs: concurrent misses, time to live against validity.
8. `Configuration` and `CaFiles`, with proofs: what a start reads, and who writes it.

Left, should the code grow there: HTTP/2 streams that run beside each other in one tunnel; the statistics, once something
reads them.

## 8. Running it

```
tlc -config ManagerSafety.cfg MCProxyManager     # likewise the other runs of PROJECT.json
tlapm ProxyManagerProofs.tla                     # likewise the other *Proofs modules
```
