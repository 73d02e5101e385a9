----------------------------- MODULE ProxyServer -----------------------------
(***************************************************************************)
(* The life of the proxy process: start_proxy (proxy-fork-cli), the accept *)
(* loop of Proxy::start (hudsucker, proxy/mod.rs), its connections, Ctrl-C *)
(* and the graceful shutdown, and the system proxy setting, which outlives *)
(* the process.                                                            *)
(*                                                                         *)
(* A request is taken up when the connection's task has read its head.     *)
(* What serves it is not looked at here: its upstream answers sooner or    *)
(* later or never, the client reads the answer or does not, or the request *)
(* turns the connection into a tunnel or WebSocket whose task nobody keeps *)
(* track of.                                                               *)
(*                                                                         *)
(* Definitions named X_... are slips one could make in X; no specification *)
(* uses them.                                                              *)
(***************************************************************************)
EXTENDS Naturals

CONSTANTS
  Conns,      \* connections clients make
  MaxStarts   \* bound of the model: how often the process is started

ASSUME MaxStartsAssumption == MaxStarts \in Nat

VARIABLES
  enable_sysproxy,  \* AppConfig::enable_sysproxy of this start
  main,             \* where start_proxy is
  signal,           \* where the task of shutdown_signal is
  pressed,          \* a Ctrl-C the signal task has not seen yet
  sysproxy_on,      \* the system's setting points at this proxy
  conn,             \* the state of each connection
  told,             \* connections told to shut down gracefully
  tunnels,          \* connections that live on in a task of their own
  starts,           \* how often the process was started
  taken,            \* history: requests taken up and not answered, by connection
  again,            \* history: Ctrl-C was pressed again during the shutdown
  unclean           \* history: why the setting may have been left on

process == <<enable_sysproxy, main, signal, pressed>>
clients == <<conn, told, tunnels, taken>>
vars    == <<process, clients, sysproxy_on, starts, again, unclean>>

Phases  == {"exited", "configured", "announced", "resolved", "serving", "draining"}
Signals == {"none", "spawned", "waiting", "disabling", "done"}
InFlight == {"busy", "answering"}   \* a request is with the handler, or its answer on the way
Serving == {"idle", "partial", "sent"} \cup InFlight   \* a task serves the connection
ConnStates == {"none", "backlog", "closed"} \cup Serving

Alive     == main # "exited"
Listening == main \in {"serving", "draining"}   \* the listener lives to the end of start
Cancelled == signal = "done"                    \* guard.cancelled() is ready

Init ==
  /\ enable_sysproxy = FALSE /\ main = "exited" /\ signal = "none" /\ pressed = FALSE
  /\ sysproxy_on = FALSE
  /\ conn = [c \in Conns |-> "none"] /\ told = {} /\ tunnels = {} /\ taken = {}
  /\ starts = 0 /\ again = FALSE /\ unclean = FALSE

\* The process is gone: its sockets are closed, its tasks dropped.
Exits ==
  /\ main' = "exited" /\ signal' = "none" /\ pressed' = FALSE
  /\ conn' = [c \in Conns |-> IF conn[c] = "none" THEN "none" ELSE "closed"]
  /\ told' = {} /\ tunnels' = {}
  /\ UNCHANGED enable_sysproxy

-----------------------------------------------------------------------------
(* start_proxy                                                             *)

\* The process is started, with its configuration, CA and rules loaded.
Start ==
  /\ ~ Alive /\ starts < MaxStarts
  /\ starts' = starts + 1
  /\ enable_sysproxy' \in BOOLEAN
  /\ main' = "configured"
  /\ conn' = [c \in Conns |-> "none"] /\ taken' = {} /\ again' = FALSE
  /\ UNCHANGED <<signal, pressed, told, tunnels, sysproxy_on, unclean>>

\* set_system_proxy with enable; its failure is logged.
SetSysproxy ==
  /\ main = "configured" /\ main' = "announced"
  /\ sysproxy_on' \in IF enable_sysproxy THEN {TRUE, sysproxy_on} ELSE {sysproxy_on}
  /\ UNCHANGED <<enable_sysproxy, signal, pressed, clients, starts, again, unclean>>

\* resolve_listen_ip
Resolve ==
  /\ main = "announced" /\ main' = "resolved"
  /\ UNCHANGED <<enable_sysproxy, signal, pressed, clients, sysproxy_on, starts, again, unclean>>

\* The listener serves before anybody waits for the signal.
Bind_NoSignal ==
  /\ main = "resolved" /\ main' = "serving"
  /\ UNCHANGED <<enable_sysproxy, signal, pressed, clients, sysproxy_on, starts, again, unclean>>

\* TcpListener::bind and Shutdown::new, which spawns the task of the signal.
Bind ==
  /\ main = "resolved" /\ main' = "serving" /\ signal' = "spawned"
  /\ UNCHANGED <<enable_sysproxy, pressed, clients, sysproxy_on, starts, again, unclean>>

\* resolve_listen_ip or bind fails: start_proxy returns.
StartFails ==
  /\ main \in {"announced", "resolved"}
  /\ Exits
  /\ unclean' = TRUE
  /\ UNCHANGED <<sysproxy_on, starts, again, taken>>

-----------------------------------------------------------------------------
(* Ctrl-C and shutdown_signal                                              *)

\* The task's first poll of ctrl_c() takes Ctrl-C over from the system.
InstallHandler ==
  /\ signal = "spawned" /\ signal' = "waiting"
  /\ UNCHANGED <<enable_sysproxy, main, pressed, clients, sysproxy_on, starts, again, unclean>>

\* Ctrl-C, once taken over: noted, and without effect after the first.
CtrlC ==
  /\ Alive /\ signal \in {"waiting", "disabling", "done"}
  /\ pressed' = (pressed \/ signal = "waiting")
  /\ again' = (again \/ pressed \/ signal # "waiting")
  /\ UNCHANGED <<enable_sysproxy, main, signal, clients, sysproxy_on, starts, unclean>>

\* SIGKILL, SIGTERM, a crash, or Ctrl-C before it is taken over.
Killed ==
  /\ Alive
  /\ Exits
  /\ unclean' = TRUE
  /\ taken' = {}
  /\ UNCHANGED <<sysproxy_on, starts, again>>

\* The setting is forgotten.
SignalFires_LeavesSysproxy ==
  /\ signal = "waiting" /\ pressed /\ signal' = "done"
  /\ UNCHANGED <<enable_sysproxy, main, pressed, clients, sysproxy_on, starts, again, unclean>>

\* The select! of shutdown_signal.
SignalFires ==
  /\ signal = "waiting" /\ pressed
  /\ signal' = IF enable_sysproxy THEN "disabling" ELSE "done"
  /\ UNCHANGED <<enable_sysproxy, main, pressed, clients, sysproxy_on, starts, again, unclean>>

\* set_system_proxy without enable; its failure is logged.
DisableSysproxy ==
  /\ signal = "disabling" /\ signal' = "done"
  /\ \/ sysproxy_on' = FALSE /\ unclean' = FALSE
     \/ UNCHANGED sysproxy_on /\ unclean' = TRUE
  /\ UNCHANGED <<enable_sysproxy, main, pressed, clients, starts, again>>

-----------------------------------------------------------------------------
(* The accept loop of Proxy::start                                         *)

\* A connection is accepted and its task spawned, also when the loop could
\* leave: select! picks either.
Accept(c) ==
  /\ main = "serving" /\ conn[c] = "backlog"
  /\ conn' = [conn EXCEPT ![c] = "idle"]
  /\ UNCHANGED <<process, told, tunnels, taken, sysproxy_on, starts, again, unclean>>

\* guard.cancelled(): the loop ends and shutdown.shutdown() begins.
StopAccepting ==
  /\ main = "serving" /\ Cancelled
  /\ main' = "draining"
  /\ UNCHANGED <<enable_sysproxy, signal, pressed, clients, sysproxy_on, starts, again, unclean>>

\* The end of the loop is the end of start.
Drained_AtOnce ==
  /\ main = "draining"
  /\ Exits
  /\ UNCHANGED <<sysproxy_on, starts, again, unclean, taken>>

\* All guards are dropped; start and start_proxy return, the runtime ends.
Drained ==
  /\ main = "draining" /\ \A c \in Conns : conn[c] \notin Serving
  /\ Exits
  /\ UNCHANGED <<sysproxy_on, starts, again, unclean, taken>>

-----------------------------------------------------------------------------
(* The task of a connection                                                *)

\* A connection has state s from now on; taken becomes ts.
Becomes(c, s, ts) ==
  /\ conn' = [conn EXCEPT ![c] = s] /\ taken' = ts
  /\ UNCHANGED <<process, told, sysproxy_on, starts, again, unclean>>

\* hyper reads a request and calls the service.
TakeUp(c) ==
  /\ conn[c] = "sent"
  /\ Becomes(c, "busy", taken \cup {c}) /\ UNCHANGED tunnels

\* The last of the answer is written, which takes a client that reads it; a
\* connection told to shut down is closed.
Respond(c) ==
  /\ conn[c] = "answering"
  /\ Becomes(c, IF c \in told THEN "closed" ELSE "idle", taken \ {c}) /\ UNCHANGED tunnels

\* A CONNECT or a WebSocket upgrade: the connection's own task ends with its
\* answer, what follows runs in a spawned one.
Upgrade(c) ==
  /\ conn[c] = "answering"
  /\ Becomes(c, "closed", taken \ {c})
  /\ tunnels' = tunnels \cup {c}

TunnelEnds(c) ==
  /\ c \in tunnels /\ tunnels' = tunnels \ {c}
  /\ UNCHANGED <<process, conn, told, taken, sysproxy_on, starts, again, unclean>>

\* The connection does not listen to the guard.
Told_Deaf(c) == FALSE

\* guard.cancelled(): graceful_shutdown closes a connection that serves no
\* request and lets the others answer the one they serve; one that has begun to
\* send a request may be closed or be let finish.
Told(c) ==
  /\ Cancelled /\ conn[c] \in Serving /\ c \notin told
  /\ told' = told \cup {c}
  /\ \/ conn[c] \notin InFlight /\ conn' = [conn EXCEPT ![c] = "closed"]
     \/ conn[c] # "idle" /\ UNCHANGED conn
  /\ UNCHANGED <<process, tunnels, taken, sysproxy_on, starts, again, unclean>>

-----------------------------------------------------------------------------
(* Clients and upstreams (external)                                        *)

Connect(c) ==
  /\ Listening /\ conn[c] = "none"
  /\ Becomes(c, "backlog", taken) /\ UNCHANGED tunnels

\* A request is on its way, with its head not complete yet.
SendPart(c) ==
  /\ conn[c] = "idle"
  /\ Becomes(c, "partial", taken) /\ UNCHANGED tunnels

Send(c) ==
  /\ conn[c] \in {"idle", "partial"}
  /\ Becomes(c, "sent", taken) /\ UNCHANGED tunnels

\* The rest of the request has come and its upstream has begun to answer, or the
\* handler has an answer of its own.
Answer(c) ==
  /\ conn[c] = "busy"
  /\ Becomes(c, "answering", taken) /\ UNCHANGED tunnels

ClientCloses(c) ==
  /\ conn[c] \in {"backlog"} \cup Serving
  /\ Becomes(c, "closed", taken \ {c}) /\ UNCHANGED tunnels

-----------------------------------------------------------------------------
Startup  == SetSysproxy \/ Resolve \/ Bind
Shutdown == SignalFires \/ DisableSysproxy \/ StopAccepting \/ Drained
Serve(c) == Accept(c) \/ TakeUp(c)

Next ==
  \/ Start \/ Startup \/ StartFails \/ InstallHandler \/ CtrlC \/ Killed \/ Shutdown
  \/ \E c \in Conns :
       \/ Serve(c) \/ Told(c) \/ Respond(c) \/ Upgrade(c) \/ TunnelEnds(c)
       \/ Connect(c) \/ SendPart(c) \/ Send(c) \/ Answer(c) \/ ClientCloses(c)

Spec == Init /\ [][Next]_vars

\* The runtime polls every task that can go on.  Clients and upstreams owe
\* nothing, so neither Answer nor Respond need ever come.
Fairness ==
  /\ WF_vars(Startup) /\ WF_vars(InstallHandler) /\ WF_vars(Shutdown)
  /\ \A c \in Conns : WF_vars(Serve(c)) /\ WF_vars(Told(c))

FairSpec == Spec /\ Fairness

-----------------------------------------------------------------------------
(* Properties                                                              *)

\* The types, and that the task of the signal lives exactly while the proxy
\* listens and is the only one to tell connections.
TypeOK ==
  /\ enable_sysproxy \in BOOLEAN /\ main \in Phases /\ signal \in Signals
  /\ pressed \in BOOLEAN /\ sysproxy_on \in BOOLEAN
  /\ conn \in [Conns -> ConnStates]
  /\ told \subseteq Conns /\ tunnels \subseteq Conns /\ taken \subseteq Conns
  /\ starts \in 0 .. MaxStarts /\ again \in BOOLEAN /\ unclean \in BOOLEAN
  /\ signal # "none" <=> Listening
  /\ told # {} => Cancelled

\* A request that was taken up is answered before its connection closes, also
\* through a graceful shutdown, unless its client leaves or the process is
\* killed.
TakenUpIsAnswered == \A c \in taken : conn[c] \in InFlight

\* From the moment the loop stops accepting, and in all later runs of the
\* program, the system proxy points at this proxy only if a start failed, a
\* run was killed or disabling failed.
SysproxyOffAfterCleanEnd ==
  main \in {"draining", "exited"} /\ sysproxy_on => unclean

\* Nothing limits how long a client may take to send a request or to read an answer,
\* nor an upstream to answer: they must come to an end of it.
RequestsComplete == \A c \in Conns : []<>(conn[c] # "partial")
AnswersCome      == \A c \in Conns : []<>(conn[c] # "busy")
AnswersAreRead   == \A c \in Conns : []<>(conn[c] # "answering")

\* Once the signal has fired the process ends, provided that no client leaves a request
\* half sent or an answer half read, and no upstream a request unanswered: neither idle
\* keep-alive connections, nor clients that go on sending requests, nor tunnels hold it
\* up.
ShutdownEnds ==
  RequestsComplete /\ AnswersCome /\ AnswersAreRead => (Cancelled ~> ~ Alive)

-----------------------------------------------------------------------------
(* Claim of the repository that the code does not keep                     *)

\* start_proxy.rs:53, "Ctrl+C received again, shutting down immediately."
AgainStopsIt == again ~> ~ Alive
=============================================================================
