--------------------------- MODULE WebSocketRelay ---------------------------
(***************************************************************************)
(* One WebSocket through the proxy: upgrade_websocket, which dials the     *)
(* upstream before it answers the client, then handle_websocket, which     *)
(* splits both sockets and leaves them to two forwarders, one per          *)
(* direction (hudsucker, proxy/internal.rs and lib.rs; ProxyHandler passes *)
(* every message on as it is).                                             *)
(*                                                                         *)
(* The sockets are tungstenite's (external): per side the state of the     *)
(* closing handshake as the proxy sees it.  Towards the client the proxy   *)
(* is the server of the protocol: once the handshake is over its stream    *)
(* ends.  Towards the upstream it is the client and waits for the other    *)
(* to close the connection.  A Ping is passed on like other messages; the  *)
(* Pong that tungstenite answers it with by itself is left out.            *)
(*                                                                         *)
(* Definitions named X_... are slips one could make in X; no specification *)
(* uses them.                                                              *)
(***************************************************************************)
EXTENDS Naturals, Sequences

CONSTANTS
  CLOSE, BAD,  \* a Close message; a frame that is none (reserved bits set)
  NONE,        \* no message, no answer yet
  MaxSent      \* bound of the model: messages the two peers send

ASSUME MaxSentAssumption == MaxSent \in Nat

\* Of messages that are not Close nothing matters but which one it is: a peer's
\* are numbered.
Messages == 1 .. MaxSent

ASSUME MessagesAssumption ==
  CLOSE # BAD /\ {CLOSE, BAD} \cap Messages = {} /\ NONE \notin Messages \cup {CLOSE, BAD}

Sides == {"client", "server"}
Other(s) == IF s = "client" THEN "server" ELSE "client"

VARIABLES
  phase,     \* where the task of the upgrade is
  answer,    \* the status of the response to the client
  peer,      \* "open", or has ended: "faulty" after a BAD frame, "closed"
             \* after its Close, "gone" with its connection
  reads,     \* a peer that has stopped reading blocks whoever writes to it
  wire,      \* what a peer has sent and its forwarder has not read
  state,     \* the closing handshake towards each side
  told,      \* whether a Close has been sent to it
  fwd,       \* the forwarder that reads from it
  held,      \* the message that forwarder is sending on
  sent,      \* history: how many messages a peer has sent
  got        \* history: the messages that reached it

upgrade == <<phase, answer>>
peers   == <<peer, reads, sent>>
sockets == <<wire, state, told, got>>
vars    == <<upgrade, peers, sockets, fwd, held>>

Init ==
  /\ phase = "request" /\ answer = NONE
  /\ peer = [s \in Sides |-> "open"] /\ reads = [s \in Sides |-> TRUE]
  /\ wire = [s \in Sides |-> <<>>]
  /\ state = [s \in Sides |-> "active"] /\ told = [s \in Sides |-> FALSE]
  /\ fwd = [s \in Sides |-> "none"] /\ held = [s \in Sides |-> NONE]
  /\ sent = [s \in Sides |-> 0] /\ got = [s \in Sides |-> <<>>]

-----------------------------------------------------------------------------
(* The upgrade                                                             *)

\* The task answers without a WebSocket; a dialled upstream is dropped.
Refuse(status) == phase' = "over" /\ answer' = status

\* websocket_request, the upstream request built from it and
\* connect_websocket.
ConnectWebsocket ==
  /\ phase = "request"
  /\ \/ phase' = "dialled" /\ UNCHANGED answer
     \/ Refuse(400) \/ Refuse(502)
  /\ UNCHANGED <<peers, sockets, fwd, held>>

\* hyper_tungstenite::upgrade (external), the last use of the request; which
\* subprotocol sync_websocket_subprotocol has the response name is left out.
AnswerUpgrade ==
  /\ phase = "dialled"
  /\ \/ phase' = "answered" /\ answer' = 101
     \/ Refuse(400)
  /\ UNCHANGED <<peers, sockets, fwd, held>>

\* The spawned task: the upgraded connection, then handle_websocket, which
\* spawns the two forwarders.
SpawnForwarders ==
  /\ phase = "answered"
  /\ \/ phase' = "relay" /\ fwd' = [s \in Sides |-> "next"]
     \/ phase' = "over" /\ UNCHANGED fwd
  /\ UNCHANGED <<answer, peers, sockets, held>>

-----------------------------------------------------------------------------
(* The peers (external)                                                    *)

\* A peer can use its socket once the handshake with it is done.
Connected(s) ==
  IF s = "server" THEN phase \notin {"request", "over"} ELSE phase \in {"answered", "relay"}

PeerSends(s) ==
  /\ Connected(s) /\ peer[s] = "open" /\ sent[s] + sent[Other(s)] < MaxSent
  /\ sent' = [sent EXCEPT ![s] = @ + 1]
  /\ wire' = [wire EXCEPT ![s] = Append(@, sent'[s])]
  /\ UNCHANGED <<upgrade, peer, reads, state, told, got, fwd, held>>

\* Close, of its own accord or in answer to one.
PeerCloses(s) ==
  /\ Connected(s) /\ peer[s] \in {"open", "faulty"}
  /\ wire' = [wire EXCEPT ![s] = Append(@, CLOSE)]
  /\ peer' = [peer EXCEPT ![s] = "closed"]
  /\ UNCHANGED <<upgrade, reads, sent, state, told, got, fwd, held>>

PeerErrs(s) ==
  /\ Connected(s) /\ peer[s] = "open"
  /\ wire' = [wire EXCEPT ![s] = Append(@, BAD)]
  /\ peer' = [peer EXCEPT ![s] = "faulty"]
  /\ UNCHANGED <<upgrade, reads, sent, state, told, got, fwd, held>>

\* The connection ends, in order or by a reset that loses what is on its way.
PeerLeaves(s) ==
  /\ Connected(s) /\ peer[s] # "gone"
  /\ peer' = [peer EXCEPT ![s] = "gone"]
  /\ wire' \in {wire, [wire EXCEPT ![s] = <<>>]}
  /\ UNCHANGED <<upgrade, reads, sent, state, told, got, fwd, held>>

PeerStopsReading(s) ==
  /\ Connected(s) /\ reads[s]
  /\ reads' = [reads EXCEPT ![s] = FALSE]
  /\ UNCHANGED <<upgrade, peer, sent, sockets, fwd, held>>

-----------------------------------------------------------------------------
(* Forwarders: the loop of handle_websocket                                *)

Goto(s, place, msg) ==
  /\ fwd' = [fwd EXCEPT ![s] = place]
  /\ held' = [held EXCEPT ![s] = msg]
  /\ UNCHANGED <<upgrade, peers>>

\* Neither side has sent a Close that this socket has seen.
CanRead(s) == state[s] \in {"active", "closed_by_us"}

\* The next message is read while the last is being sent.
ReadMessage_WithoutWaiting(s) ==
  /\ fwd[s] \in {"next", "send"} /\ wire[s] # <<>> /\ Head(wire[s]) # BAD /\ CanRead(s)
  /\ wire' = [wire EXCEPT ![s] = Tail(@)]
  /\ state' = [state EXCEPT ![s] =
       CASE Head(wire[s]) # CLOSE        -> @
         [] Head(wire[s]) = CLOSE /\ @ = "active" -> "closed_by_peer"
         [] OTHER                        -> "acknowledged"]
  /\ Goto(s, "send", Head(wire[s]))
  /\ UNCHANGED <<told, got>>

\* stream.next() gives a message.  A Close is one of them; the answer to it is
\* left for the next read or write of that socket.
ReadMessage(s) ==
  /\ fwd[s] = "next" /\ wire[s] # <<>> /\ Head(wire[s]) # BAD /\ CanRead(s)
  /\ wire' = [wire EXCEPT ![s] = Tail(@)]
  /\ state' = [state EXCEPT ![s] =
       CASE Head(wire[s]) # CLOSE                 -> @
         [] Head(wire[s]) = CLOSE /\ @ = "active" -> "closed_by_peer"
         [] OTHER                                 -> "acknowledged"]
  /\ Goto(s, "send", Head(wire[s]))
  /\ UNCHANGED <<told, got>>

\* stream.next() gives an error: a frame that cannot be read, a connection
\* that ended without a Close, or before the answer to one could be sent.
ReadError(s) ==
  /\ fwd[s] = "next"
  /\ \/ wire[s] # <<>> /\ Head(wire[s]) = BAD /\ CanRead(s) /\ UNCHANGED state
     \/ /\ peer[s] = "gone"
        /\ (wire[s] = <<>> /\ CanRead(s)) \/ state[s] = "closed_by_peer"
        /\ state' = [state EXCEPT ![s] = "terminated"]
  /\ Goto(s, "fail", CLOSE)
  /\ UNCHANGED <<wire, told, got>>

\* Whether what is written towards d gets anywhere.
Writable(d) == reads[d] \/ peer[d] = "gone"

\* A poll of the stream with the answer to a Close outstanding sends it.
AnswerClose(s) ==
  /\ fwd[s] = "next" /\ state[s] = "closed_by_peer" /\ Writable(s)
  /\ state' = [state EXCEPT ![s] = "acknowledged"]
  /\ told' = [told EXCEPT ![s] = TRUE]
  /\ Goto(s, "next", NONE)
  /\ UNCHANGED <<wire, got>>

\* stream.next() gives None: the handshake is over or, after a Close of the
\* peer's, its connection.
ReadNone(s) ==
  /\ fwd[s] = "next"
  /\ \/ state[s] = "terminated"
     \/ state[s] = "acknowledged" /\ s = "client"
     \/ state[s] \in {"closed_by_peer", "acknowledged"} /\ peer[s] = "gone"
  /\ state' = [state EXCEPT ![s] = "terminated"]
  /\ Goto(s, "done", NONE)
  /\ UNCHANGED <<wire, told, got>>

\* A send towards d ends: a socket that is closing refuses it at once, before it
\* writes anything.
Unblocked(d) == state[d] # "active" \/ Writable(d)

\* A Close towards d starts the handshake; once one was sent or has come from d
\* it is refused, and an answer to d's that is outstanding stays so.
SendClose(d) ==
  /\ IF state[d] = "active"
     THEN /\ state' = [state EXCEPT ![d] = "closed_by_us"]
          /\ told' = [told EXCEPT ![d] = TRUE]
     ELSE UNCHANGED <<state, told>>
  /\ UNCHANGED <<wire, got>>

\* A Close is a message like any other.
SendMessage_CloseToo(s) ==
  /\ fwd[s] = "send" /\ Unblocked(Other(s))
  /\ IF state[Other(s)] = "active" /\ peer[Other(s)] # "gone"
     THEN got' = [got EXCEPT ![Other(s)] = Append(@, held[s])]
     ELSE UNCHANGED got
  /\ Goto(s, "next", NONE)
  /\ UNCHANGED <<wire, state, told>>

\* The answer to a peer's Close does not keep later messages from being sent.
SendMessage_AfterClose(s) ==
  /\ fwd[s] = "send" /\ held[s] # CLOSE /\ Unblocked(Other(s))
  /\ IF state[Other(s)] # "terminated" /\ peer[Other(s)] # "gone"
     THEN got' = [got EXCEPT ![Other(s)] = Append(@, held[s])]
     ELSE UNCHANGED got
  /\ Goto(s, "next", NONE)
  /\ UNCHANGED <<wire, state, told>>

\* A send that fails leaves the socket as it was.
SendMessage_MayFail(s) ==
  /\ fwd[s] = "send" /\ held[s] # CLOSE /\ Unblocked(Other(s))
  /\ \/ /\ state[Other(s)] = "active" /\ peer[Other(s)] # "gone"
        /\ got' = [got EXCEPT ![Other(s)] = Append(@, held[s])]
     \/ UNCHANGED got
  /\ Goto(s, "next", NONE)
  /\ UNCHANGED <<wire, state, told>>

\* sink.send(message): towards a peer that is gone, or after a Close, it is an
\* error, which is logged; the loop goes on.
SendMessage(s) ==
  /\ fwd[s] = "send" /\ held[s] # CLOSE /\ Unblocked(Other(s))
  /\ IF state[Other(s)] = "active" /\ peer[Other(s)] # "gone"
     THEN got' = [got EXCEPT ![Other(s)] = Append(@, held[s])]
     ELSE UNCHANGED got
  /\ Goto(s, "next", NONE)
  /\ UNCHANGED <<wire, state, told>>

\* sink.send(message) with a Close that the peer sent: the loop goes on.
PassClose(s) ==
  /\ fwd[s] = "send" /\ held[s] = CLOSE /\ Unblocked(Other(s))
  /\ SendClose(Other(s))
  /\ Goto(s, "next", NONE)

\* The loop is left without a Close.
PassError_Silently(s) ==
  /\ fwd[s] = "fail"
  /\ Goto(s, "done", NONE)
  /\ UNCHANGED sockets

\* sink.send(Message::Close(None)) after an error, and the break.
PassError(s) ==
  /\ fwd[s] = "fail" /\ Unblocked(Other(s))
  /\ SendClose(Other(s))
  /\ Goto(s, "done", NONE)

Forward(s) ==
  \/ ReadMessage(s) \/ ReadError(s) \/ AnswerClose(s) \/ ReadNone(s)
  \/ SendMessage(s) \/ PassClose(s) \/ PassError(s)

-----------------------------------------------------------------------------
Upgrading == ConnectWebsocket \/ AnswerUpgrade \/ SpawnForwarders

Peer(s) == PeerSends(s) \/ PeerErrs(s) \/ PeerCloses(s) \/ PeerLeaves(s) \/ PeerStopsReading(s)

Next == Upgrading \/ \E s \in Sides : Forward(s) \/ Peer(s)

Spec == Init /\ [][Next]_vars

\* The runtime polls a forwarder that can go on.  Peers need not do anything.
FairSpec == Spec /\ \A s \in Sides : WF_vars(Forward(s))

-----------------------------------------------------------------------------
(* Properties                                                              *)

TypeOK ==
  /\ phase \in {"request", "dialled", "answered", "relay", "over"}
  /\ answer \in {NONE, 101, 400, 502}
  /\ peer \in [Sides -> {"open", "faulty", "closed", "gone"}]
  /\ reads \in [Sides -> BOOLEAN] /\ told \in [Sides -> BOOLEAN]
  /\ wire \in [Sides -> Seq(Messages \cup {CLOSE, BAD})]
  /\ state \in [Sides -> {"active", "closed_by_us", "closed_by_peer",
                          "acknowledged", "terminated"}]
  /\ fwd \in [Sides -> {"none", "next", "send", "fail", "done"}]
  /\ held \in [Sides -> Messages \cup {CLOSE, NONE}]
  /\ sent \in [Sides -> 0 .. MaxSent] /\ got \in [Sides -> Seq(Messages)]

\* What s has sent, in order: at its receiver, with the forwarder, on its way.
Passage(s) == got[Other(s)] \o (IF held[s] \in Messages THEN <<held[s]>> ELSE <<>>) \o wire[s]

\* While both connections stand and no Close has passed, every message is at
\* its receiver, with the forwarder, or on its way to it, behind those sent
\* before it and once: those the upstream sends before the client's upgrade is
\* done are not lost, and none comes after what ends the stream.
NothingLost ==
  \A s \in Sides :
    (state[Other(s)] = "active" /\ peer[Other(s)] # "gone" /\ peer[s] # "gone")
      => /\ sent[s] <= Len(Passage(s))
         /\ \A n \in 1 .. Len(Passage(s)) :
              IF n <= sent[s] THEN Passage(s)[n] = n ELSE Passage(s)[n] \notin Messages

\* The first n messages of a peer.
First(n) == [i \in 1 .. n |-> i]

\* Whatever fails, a peer gets a beginning of what the other one sent: after a
\* failed send a forwarder goes on reading and dropping messages, but no later
\* one gets through.
NothingSkipped == \A s \in Sides : \E n \in 0 .. sent[s] : got[Other(s)] = First(n)

\* The other side's own Close has been read, and the answer, which a forwarder that
\* is still there will send, not yet written.
AnswerDue(d) == state[d] = "closed_by_peer" /\ fwd[d] # "done"

\* No forwarder ends without the other side having been told, or gone, or being about
\* to be told in answer to its own Close; and no side is told of an end while both
\* peers are there and have not closed.
EndsAreShared ==
  \A s \in Sides :
    /\ fwd[s] = "done" =>
         told[Other(s)] \/ peer[Other(s)] = "gone" \/ AnswerDue(Other(s))
    /\ told[s] => \E d \in Sides : peer[d] # "open"

\* The promise of Conversation.
Talk == INSTANCE Conversation WITH left <- {s \in Sides : peer[s] # "open"}

\* The sockets, their closing handshakes and the two forwarders between them make up a
\* conversation: whoever closes, errs or leaves at whatever moment, and however the two
\* ends of it cross.
ImplementsConversation == Talk!Spec

\* Once a peer has closed or left, both forwarders end, provided that a peer
\* that is sent a Close leaves in the end and peers read what they are sent.
PeersLeave == \A s \in Sides : told[s] ~> peer[s] = "gone"
PeersRead  == \A s \in Sides : []reads[s]

RelayEnds ==
  PeersLeave /\ PeersRead =>
    (phase = "relay" /\ (\E s \in Sides : peer[s] # "open"))
      ~> (\A s \in Sides : fwd[s] = "done")
=============================================================================
