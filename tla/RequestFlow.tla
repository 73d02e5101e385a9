---------------------------- MODULE RequestFlow ----------------------------
(***************************************************************************)
(* The requests of one client connection: InternalProxy::proxy and         *)
(* serve_stream (hudsucker, proxy/internal.rs) with handle_request of      *)
(* ProxyHandler (proxy_handler.rs), the lookup of ProxyManager and the     *)
(* rewriting of PathRewrite.  A CONNECT that is intercepted makes the      *)
(* connection serve requests again, now with the scheme and authority of   *)
(* the tunnel.                                                             *)
(*                                                                         *)
(* The rules stay as they are: ProxyManager has what happens when they     *)
(* change.  What a tunnel does with bytes is in ConnectTunnel, what becomes *)
(* of a WebSocket in WebSocketRelay: here they end the story.              *)
(*                                                                         *)
(* Definitions named X_... are slips one could make in X; no specification *)
(* uses them.                                                              *)
(***************************************************************************)
EXTENDS PathRewrite, Lists

CONSTANTS
  RuleList,      \* the rules of the configuration, in order
  RequestUris,   \* URIs of requests the client sends to the proxy itself
  ConnectUris,   \* authorities it asks tunnels to
  TunnelPaths    \* paths it asks for inside a tunnel

Ports     == Nat \cup {NONE}
Paths     == {path \in Texts : path # <<>>}      \* http::Uri has "/" for an empty one
UriRecord == [scheme : STRING \cup {NONE}, host : Texts \cup {NONE}, port : Ports,
              path : Paths \cup {NONE}]
Addresses == [protocol : Protocols, host : Texts, port : Ports, path : Texts \cup {NONE},
              path_transform_mode : {"preserve", "prepend", "replace"}]

\* True of every string, but nothing the provers know.
ASSUME LiteralsAssumption == {"/", "http", "https", "ws", "wss"} \subseteq STRING

ASSUME UrisAssumption ==
  RequestUris \cup ConnectUris \subseteq UriRecord /\ TunnelPaths \subseteq Paths

\* Rules as the configuration builds them.
ASSUME RuleListAssumption ==
  /\ RuleList \in Seq(ToSet(RuleList))
  /\ \A rule \in ToSet(RuleList) :
       /\ IsMatcher(rule.pattern.host)
       /\ rule.pattern.path # NONE => IsMatcher(rule.pattern.path)
       /\ rule.target \in Addresses

VARIABLES
  with_ca,    \* ProxyHandler::with_ca
  mode,       \* what the connection carries now
  tunnel,     \* scheme and authority serve_stream was given, the authority the
              \* client asked for and whether it talks HTTP/2; NONE outside a tunnel
  req,        \* the request being handled, or NONE
  step,       \* where it is
  upstream,   \* the last request sent upstream
  response    \* the status of the last response

vars == <<with_ca, mode, tunnel, req, step, upstream, response>>

\* add_rule for each rule of the list: the last of several with one key stays
\* in the index.
ExactPositions == {i \in DOMAIN RuleList : IsExact(RuleList[i].pattern)}

Index ==
  [key \in {PatternKey(RuleList[i].pattern) : i \in ExactPositions} |->
     LET same == {i \in ExactPositions : PatternKey(RuleList[i].pattern) = key}
     IN  RuleList[CHOOSE i \in same : \A j \in same : j <= i].target]

Manager == INSTANCE ProxyManager
             WITH exact_rules <- Index,
                  pattern_rules <- Kept(RuleList, DOMAIN RuleList \ ExactPositions),
                  Rules <- ToSet(RuleList), InitialPatterns <- <<>>,
                  Tasks <- {}, Uris <- {}, CacheSize <- 1, MaxPatterns <- 0,
                  cache <- <<>>, readers <- {}, writer <- NONE, queue <- <<>>,
                  pc <- <<>>, op <- <<>>, result <- <<>>, offered <- <<>>

Authority(uri) == IF uri.host = NONE THEN NONE ELSE [host |-> uri.host, port |-> uri.port]

\* rewrite_request_uri: NONE if no rule matches or its target is no URI.
Rewritten(uri) ==
  LET found == Manager!FindWithMatchInfo(uri)
  IN  IF found = NONE THEN NONE ELSE ToUri(found.target, uri, found.matched_path_prefix)

\* Where a request for a URI goes.
Destination(uri) == IF Rewritten(uri) = NONE THEN uri ELSE Rewritten(uri)

Init ==
  /\ with_ca \in BOOLEAN
  /\ mode = "http" /\ tunnel = NONE
  /\ req = NONE /\ step = "idle"
  /\ upstream = NONE /\ response = NONE

-----------------------------------------------------------------------------
(* A request comes in                                                      *)

\* How a request asks for a WebSocket: in the one way both is_websocket_upgrade
\* and hyper_tungstenite see, or by a list or a second header line, which only
\* the latter reads.
Upgrades == {"no", "plain", "listed"}

\* asked is the URI the client means, uri the one the code goes by.
Arrives(method, uri, asked) ==
  /\ mode = "http" /\ step = "idle"
  /\ \E upgrade \in IF method = "CONNECT" THEN {"no"} ELSE Upgrades :
     \E extensions \in IF upgrade = "no" THEN {FALSE} ELSE BOOLEAN :
       /\ tunnel # NONE /\ tunnel.h2 => upgrade = "no"   \* HTTP/2 has no Upgrade
       /\ req' = [method |-> method, uri |-> uri, asked |-> asked,
                  upgrade |-> upgrade, extensions |-> extensions, host |-> Authority(asked)]
  /\ step' = "handle"
  /\ UNCHANGED <<with_ca, mode, tunnel, upstream, response>>

Receive ==
  /\ tunnel = NONE
  /\ \/ \E uri \in RequestUris : Arrives("GET", uri, uri)
     \/ \E uri \in ConnectUris : Arrives("CONNECT", uri, uri)

UriOf(scheme, authority, path) ==
  [scheme |-> scheme, host |-> authority.host, port |-> authority.port, path |-> path]

\* Every tunnelled request is taken for plain HTTP.
TunnelUri_Plain(path) == UriOf("http", tunnel.authority, path)

\* serve_stream: a request line of HTTP/1 has a path only and is completed; a
\* request of HTTP/2 has its own authority.
TunnelUri(path) ==
  UriOf(tunnel.scheme, IF tunnel.h2 THEN tunnel.asked ELSE tunnel.authority, path)

ReceiveInTunnel ==
  /\ tunnel # NONE
  /\ \E path \in TunnelPaths :
       Arrives("GET", TunnelUri(path), UriOf(tunnel.scheme, tunnel.asked, path))

\* The URI of a CONNECT inside a tunnel has no path, so that no URI can be
\* built from its parts: the task panics.  (Of HTTP/2, a CONNECT in a tunnel is
\* left out.)
ConnectInTunnel ==
  /\ tunnel # NONE /\ ~ tunnel.h2 /\ mode = "http" /\ step = "idle"
  /\ mode' = "closed"
  /\ UNCHANGED <<with_ca, tunnel, req, step, upstream, response>>

-----------------------------------------------------------------------------
(* InternalProxy::proxy                                                    *)

\* is_websocket_upgrade and hyper_tungstenite::is_upgrade_request (external).
IsWebsocketUpgrade(r) == r.upgrade = "plain"
IsUpgradeRequest(r)   == r.upgrade # "no"

HandleRequest_KeepsHost ==
  /\ step = "handle" /\ step' = "dispatch"
  /\ req' = [req EXCEPT !.uri = Destination(@),
                        !.extensions = @ /\ ~ IsWebsocketUpgrade(req)]
  /\ UNCHANGED <<with_ca, mode, tunnel, upstream, response>>

\* handle_request: extensions are taken off first, the URI rewritten, and the
\* Host header of an upgrade follows a rewritten URI.
HandleRequest ==
  /\ step = "handle" /\ step' = "dispatch"
  /\ req' = [req EXCEPT
       !.uri = Destination(@),
       !.extensions = @ /\ ~ IsWebsocketUpgrade(req),
       !.host = IF IsWebsocketUpgrade(req) /\ Rewritten(req.uri) # NONE
                THEN Authority(Rewritten(req.uri)) ELSE @]
  /\ UNCHANGED <<with_ca, mode, tunnel, upstream, response>>

Respond(status) ==
  /\ response' = status
  /\ step' = "idle" /\ req' = NONE

\* process_connect, the part that answers.  What went upstream before the tunnel
\* is forgotten.
ProcessConnect ==
  /\ step = "dispatch" /\ req.method = "CONNECT"
  /\ \/ /\ Authority(req.uri) = NONE
        /\ Respond(400)
        /\ UNCHANGED <<mode, tunnel, upstream>>
     \/ /\ Authority(req.uri) # NONE
        /\ Respond(200)
        /\ mode' = "connecting" /\ upstream' = NONE
        /\ tunnel' = [scheme |-> NONE, authority |-> Authority(req.uri),
                      asked |-> Authority(req.asked), h2 |-> FALSE]
  /\ UNCHANGED with_ca

\* Served as it comes in, without a CA, too.
Connect_WithoutCa ==
  /\ mode = "connecting" /\ mode' = "http"
  /\ tunnel' = [tunnel EXCEPT !.scheme = "https"]
  /\ UNCHANGED <<with_ca, req, step, upstream, response>>

\* process_connect, the spawned task: what ConnectTunnel decides.  Only TLS lets
\* a client choose HTTP/2.
Connect ==
  /\ mode = "connecting"
  /\ \/ /\ with_ca /\ mode' = "http"
        /\ \E scheme \in {"http", "https"}, h2 \in BOOLEAN :
             /\ h2 => scheme = "https"
             /\ tunnel' = [tunnel EXCEPT !.scheme = scheme, !.h2 = h2]
     \/ mode' \in {"tunnel", "closed"} /\ UNCHANGED tunnel
  /\ UNCHANGED <<with_ca, req, step, upstream, response>>

\* What goes upstream: hyper's client names the host itself, since
\* normalize_request took the Host header off; tungstenite sends the request's.
Sends(uri, host) ==
  upstream' = [uri |-> uri, asked |-> req.asked, host |-> host,
               upgrade |-> req.upgrade, extensions |-> req.extensions]

\* websocket_request: any scheme but http becomes wss.
WebsocketUri(uri) ==
  [uri EXCEPT !.scheme = IF @ \in {NONE, "http"} THEN "ws" ELSE "wss"]

\* upgrade_websocket: without an authority there is no ws URI.
UpgradeWebsocket ==
  /\ step = "dispatch" /\ req.method # "CONNECT" /\ IsUpgradeRequest(req)
  /\ \/ /\ Authority(req.uri) = NONE /\ Respond(400)
        /\ UNCHANGED <<mode, upstream>>
     \/ /\ Authority(req.uri) # NONE /\ Sends(WebsocketUri(req.uri), req.host)
        /\ \/ Respond(101) /\ mode' = "websocket"
           \/ (Respond(400) \/ Respond(502)) /\ UNCHANGED mode
  /\ UNCHANGED <<with_ca, tunnel>>

\* client.request, which knows http and https URIs; handle_error answers 502.
ForwardRequest ==
  /\ step = "dispatch" /\ req.method # "CONNECT" /\ ~ IsUpgradeRequest(req)
  /\ \/ /\ req.uri.scheme \notin Protocols /\ Respond(502)
        /\ UNCHANGED upstream
     \/ /\ req.uri.scheme \in Protocols /\ Sends(req.uri, Authority(req.uri))
        /\ Respond(200) \/ Respond(502)
  /\ UNCHANGED <<with_ca, mode, tunnel>>

-----------------------------------------------------------------------------
Next ==
  \/ Receive \/ ReceiveInTunnel \/ ConnectInTunnel
  \/ HandleRequest \/ ProcessConnect \/ Connect \/ UpgradeWebsocket \/ ForwardRequest

Spec == Init /\ [][Next]_vars

-----------------------------------------------------------------------------
(* Properties                                                              *)

Authorities == [host : Texts, port : Ports]
Tunnels     == [scheme : {NONE, "http", "https"}, authority : Authorities,
                asked : Authorities, h2 : BOOLEAN]
Requests    == [method : {"GET", "CONNECT"}, uri : UriRecord, asked : UriRecord,
                upgrade : Upgrades, extensions : BOOLEAN, host : Authorities \cup {NONE}]
Sent        == [uri : UriRecord, asked : UriRecord, host : Authorities \cup {NONE},
                upgrade : Upgrades, extensions : BOOLEAN]

ASSUME NoneAssumption == NONE \notin Texts \cup Nat \cup STRING \cup Tunnels \cup Requests

TypeOK ==
  /\ with_ca \in BOOLEAN
  /\ mode \in {"http", "connecting", "tunnel", "websocket", "closed"}
  /\ step \in {"idle", "handle", "dispatch"}
  /\ tunnel \in Tunnels \cup {NONE}
  /\ req \in Requests \cup {NONE}
  /\ upstream \in Sent \cup {NONE}
  /\ step = "idle" <=> req = NONE
  /\ mode # "http" => step = "idle"
  /\ tunnel # NONE /\ mode \in {"http", "websocket"} => tunnel.scheme # NONE /\ with_ca
  /\ response \in {NONE, 101, 200, 400, 502}

\* The same place, whether as HTTP or as WebSocket.
Reaches(uri, destination) ==
  /\ ProtocolOf(uri) = ProtocolOf(destination)
  /\ Authority(uri) = Authority(destination)
  /\ uri.path = destination.path

\* No rule changed where the tunnel around the requests leads.
TunnelAsAsked == tunnel # NONE => tunnel.authority = tunnel.asked

\* The schemes websocket_request keeps: a WebSocket for ws goes to wss, and so
\* does one for a scheme nobody knows.
Keeps(scheme) == scheme \in {NONE, "http", "https", "wss"}

\* A request goes where the rules send the URI its client meant, whether it
\* came by itself or through a CONNECT, as long as the CONNECT was left alone.
AskedIsRouted ==
  upstream # NONE /\ TunnelAsAsked =>
    LET destination == Destination(upstream.asked)
    IN  Keeps(destination.scheme) => Reaches(upstream.uri, destination)

\* README.md:76: the Host header names the host the request is sent to, for
\* upgrades as for other requests.
HostNamesUpstream ==
  upstream # NONE /\ TunnelAsAsked /\ upstream.upgrade # "listed" =>
    upstream.host = Authority(upstream.uri)

\* The path after rewriting, as the documentation of PathTransformMode has it:
\* kept; put behind the target's; or with what the rule's path matched
\* replaced by the target's, the slashes at the seam staying.  A rule whose
\* path names no prefix keeps the path.
Documented(target, path, prefix) ==
  LET base == TrimEnd(target.path, "/")
      rest == SubSeq(path, Len(prefix) + 1, Len(path))
  IN  CASE target.path = NONE \/ target.path_transform_mode = "preserve" -> path
        [] target.path # NONE /\ target.path_transform_mode = "prepend"  -> base \o path
        [] target.path # NONE /\ target.path_transform_mode = "replace" ->
             IF prefix = NONE \/ ~ IsPrefix(prefix, path) THEN path
             ELSE base \o Strip(prefix, Len(TrimEnd(prefix, "/"))) \o rest

Rooted(path) == IF path = <<>> THEN <<"/">> ELSE path

\* The asterisk of OPTIONS * is no path.
PathAsDocumented ==
  upstream # NONE /\ TunnelAsAsked =>
    LET found == Manager!FindWithMatchInfo(upstream.asked)
        path  == OriginalPath(upstream.asked)
    IN  found # NONE /\ Rewritten(upstream.asked) # NONE /\ Head(path) = "/" =>
          upstream.uri.path = Rooted(Documented(found.target, path, found.matched_path_prefix))

-----------------------------------------------------------------------------
(* A claim of the repository that the code does not keep                   *)

\* proxy_handler.rs:137-138: with a CA, all later HTTPS and WSS requests of a tunnel
\* come to handle_request to be rewritten by the rules.
InterceptedIsRouted ==
  upstream # NONE /\ tunnel # NONE =>
    LET destination == Destination(upstream.asked)
    IN  Keeps(destination.scheme) => Reaches(upstream.uri, destination)
=============================================================================
