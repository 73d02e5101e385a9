---------------------------- MODULE ConnectTunnel ----------------------------
(***************************************************************************)
(* One CONNECT after its 200: the task spawned by process_connect          *)
(* (hudsucker, proxy/internal.rs), which looks at the first bytes the      *)
(* client sends, puts them back (rewind.rs) and then serves the connection *)
(* itself or tunnels it to the authority of the CONNECT.                   *)
(*                                                                         *)
(* Bytes are numbers.  The client writes its script in pieces of any size  *)
(* and may stop before its end.  Of the way back only the end is           *)
(* modelled: no byte from the server is looked at or put back.             *)
(*                                                                         *)
(* Definitions named X_... are slips one could make in X; no specification *)
(* uses them.                                                              *)
(***************************************************************************)
EXTENDS Naturals, Sequences

CONSTANTS
  Scripts,  \* what a client may send after the CONNECT
  Rooms     \* the free space readers of the stream may have in their buffer

ASSUME ScriptsAssumption == Scripts \subseteq Seq(0 .. 255)
ASSUME RoomsAssumption == Rooms \subseteq Nat \ {0}

VARIABLES
  with_ca,      \* ProxyHandler::with_ca
  script,       \* all the client means to send
  sent,         \* how many bytes of it the client has sent
  client_open,  \* the client may still send
  wire,         \* bytes sent and not yet read from the socket
  pc,           \* where the task is
  buffer,       \* the four bytes the first read goes to
  bytes_read,   \* and how many it returned
  pre,          \* Rewind::pre; None and an empty buffer are the same
  delivered,    \* bytes the reader behind the Rewind got
  eof,          \* that reader saw the end of the client's bytes
  server_open   \* the server may still send

client == <<script, sent, client_open>>
stream == <<wire, pre, delivered, eof>>
first  == <<buffer, bytes_read>>
vars   == <<with_ca, client, stream, pc, first, server_open>>

GET == <<71, 69, 84, 32>>   \* b"GET "
TLS == <<22, 3>>            \* b"\x16\x03"

\* Who reads the Rewind: the TLS acceptor, the hyper server behind it or
\* without it, or copy_bidirectional.
Consuming == {"accepting", "serving_tls", "serving_plain", "tunnel"}
Places    == {"upgrading", "reading", "deciding", "dialling", "ended"} \cup Consuming

Smaller(m, n) == IF m < n THEN m ELSE n
Drop(s, n)    == SubSeq(s, n + 1, Len(s))

Init ==
  /\ with_ca \in BOOLEAN /\ script \in Scripts
  /\ sent = 0 /\ client_open = TRUE /\ wire = <<>>
  /\ pc = "upgrading"
  /\ buffer = <<0, 0, 0, 0>> /\ bytes_read = 0
  /\ pre = <<>> /\ delivered = <<>> /\ eof = FALSE
  /\ server_open = TRUE

-----------------------------------------------------------------------------
(* The client and the server (external)                                    *)

\* The client sends some more; it need not wait for the 200.
ClientSends ==
  /\ client_open
  /\ \E n \in sent + 1 .. Len(script) :
       /\ wire' = wire \o SubSeq(script, sent + 1, n)
       /\ sent' = n
  /\ UNCHANGED <<with_ca, script, client_open, pre, delivered, eof, pc, first, server_open>>

ClientCloses ==
  /\ client_open /\ client_open' = FALSE
  /\ UNCHANGED <<with_ca, script, sent, stream, pc, first, server_open>>

ServerCloses ==
  /\ pc = "tunnel" /\ server_open /\ server_open' = FALSE
  /\ UNCHANGED <<with_ca, client, stream, pc, first>>

-----------------------------------------------------------------------------
(* The task                                                                *)

Goto(place) == pc' = place /\ UNCHANGED <<with_ca, client, server_open>>

\* hyper::upgrade::on, which may fail.
Upgrade ==
  /\ pc = "upgrading"
  /\ Goto("reading") \/ Goto("ended")
  /\ UNCHANGED <<stream, first>>

Padded_Truncated(bytes) == bytes

\* The array after a read into its beginning.
Padded(bytes) == [i \in 1 .. 4 |-> IF i \in DOMAIN bytes THEN bytes[i] ELSE 0]

\* read_exact instead of read.
ReadFirst_Exactly ==
  /\ pc = "reading"
  /\ Len(wire) >= 4 \/ ~ client_open
  /\ LET n == Smaller(4, Len(wire)) IN
       /\ buffer' = Padded(SubSeq(wire, 1, n))
       /\ bytes_read' = n
       /\ pre' = SubSeq(wire, 1, n)
       /\ wire' = Drop(wire, n)
  /\ Goto("deciding")
  /\ UNCHANGED <<delivered, eof>>

\* A read of nothing is tried again.
ReadFirst_IgnoresEnd ==
  /\ pc = "reading"
  /\ wire # <<>>
  /\ \E n \in 1 .. Smaller(4, Len(wire)) :
       /\ buffer' = Padded(SubSeq(wire, 1, n))
       /\ bytes_read' = n
       /\ pre' = SubSeq(wire, 1, n)
       /\ wire' = Drop(wire, n)
  /\ Goto("deciding")
  /\ UNCHANGED <<delivered, eof>>

\* One read of up to four bytes, as many as there happen to be, none at the
\* end of the stream; what was read is put back.
ReadFirst ==
  /\ pc = "reading"
  /\ \/ wire # <<>>
     \/ wire = <<>> /\ ~ client_open
  /\ \E n \in (IF wire = <<>> THEN {0} ELSE 1 .. Smaller(4, Len(wire))) :
       /\ buffer' = Padded(SubSeq(wire, 1, n))
       /\ bytes_read' = n
       /\ pre' = SubSeq(wire, 1, n)
       /\ wire' = Drop(wire, n)
  /\ Goto("deciding")
  /\ UNCHANGED <<delivered, eof>>

\* The read fails.
ReadFails ==
  /\ pc = "reading" /\ Goto("ended")
  /\ UNCHANGED <<stream, first>>

\* The record type alone is taken for TLS.
Decide_FirstByte ==
  /\ pc = "deciding"
  /\ Goto(CASE with_ca /\ buffer = GET   -> "serving_plain"
            [] with_ca /\ buffer[1] = 22 -> "accepting"
            [] OTHER                     -> "dialling")
  /\ UNCHANGED <<stream, first>>

\* should_intercept and the comparison of the first bytes.
Decide ==
  /\ pc = "deciding"
  /\ Goto(CASE with_ca /\ buffer = GET               -> "serving_plain"
            [] with_ca /\ SubSeq(buffer, 1, 2) = TLS -> "accepting"
            [] OTHER                                 -> "dialling")
  /\ UNCHANGED <<stream, first>>

\* gen_server_config, which may panic, and the TLS handshake.
Accept ==
  /\ pc = "accepting"
  /\ \/ delivered # <<>> /\ Goto("serving_tls")
     \/ Goto("ended")
  /\ UNCHANGED <<stream, first>>

\* TcpStream::connect
Dial ==
  /\ pc = "dialling"
  /\ Goto("tunnel") \/ Goto("ended")
  /\ UNCHANGED <<stream, first>>

\* What did not fit is lost.
PollReadPre_DropsTheRest ==
  /\ pc \in Consuming /\ pre # <<>>
  /\ \E room \in Rooms :
       delivered' = delivered \o SubSeq(pre, 1, Smaller(Len(pre), room))
  /\ pre' = <<>>
  /\ Goto(pc)
  /\ UNCHANGED <<wire, eof, first>>

\* Rewind::poll_read with something put back: as much as fits.
PollReadPre ==
  /\ pc \in Consuming /\ pre # <<>>
  /\ \E room \in Rooms :
       LET n == Smaller(Len(pre), room) IN
         /\ delivered' = delivered \o SubSeq(pre, 1, n)
         /\ pre' = Drop(pre, n)
  /\ Goto(pc)
  /\ UNCHANGED <<wire, eof, first>>

\* Rewind::poll_read otherwise: the inner stream.
PollReadInner ==
  /\ pc \in Consuming /\ pre = <<>> /\ wire # <<>>
  /\ \E room \in Rooms :
       LET n == Smaller(Len(wire), room) IN
         /\ delivered' = delivered \o SubSeq(wire, 1, n)
         /\ wire' = Drop(wire, n)
  /\ Goto(pc)
  /\ UNCHANGED <<pre, eof, first>>

\* The end of the client's bytes: copy_bidirectional shuts its side of the
\* server down; the TLS acceptor and the hyper server give up.
PollReadEnd ==
  /\ pc \in Consuming /\ pre = <<>> /\ wire = <<>> /\ ~ client_open /\ ~ eof
  /\ eof' = TRUE
  /\ Goto(IF pc = "tunnel" THEN "tunnel" ELSE "ended")
  /\ UNCHANGED <<wire, pre, delivered, first>>

\* serve_stream returns, with an error or because hyper closed the connection.
ServeEnds ==
  /\ pc \in {"serving_plain", "serving_tls"} /\ Goto("ended")
  /\ UNCHANGED <<stream, first>>

\* copy_bidirectional returns once both directions have ended.
TunnelEnds ==
  /\ pc = "tunnel" /\ eof /\ ~ server_open /\ Goto("ended")
  /\ UNCHANGED <<stream, first>>

\* copy_bidirectional returns an error of either side.
TunnelFails ==
  /\ pc = "tunnel" /\ Goto("ended")
  /\ UNCHANGED <<stream, first>>

-----------------------------------------------------------------------------
Task ==
  \/ Upgrade \/ ReadFirst \/ Decide \/ Dial
  \/ PollReadPre \/ PollReadInner \/ PollReadEnd \/ TunnelEnds

Next ==
  \/ ClientSends \/ ClientCloses \/ ServerCloses
  \/ Task \/ Accept \/ ReadFails \/ ServeEnds \/ TunnelFails

Spec == Init /\ [][Next]_vars

\* The runtime polls the task whenever it can go on.  A handshake need not end
\* while its client is silent, and nothing need fail.
FairSpec == Spec /\ WF_vars(Task)

-----------------------------------------------------------------------------
(* Properties                                                              *)

TypeOK ==
  /\ with_ca \in BOOLEAN /\ client_open \in BOOLEAN
  /\ eof \in BOOLEAN /\ server_open \in BOOLEAN
  /\ script \in Scripts /\ sent \in 0 .. Len(script)
  /\ wire \in Seq(0 .. 255) /\ pre \in Seq(0 .. 255) /\ delivered \in Seq(0 .. 255)
  /\ pc \in Places
  /\ buffer \in [1 .. 4 -> 0 .. 255] /\ bytes_read \in 0 .. 4

\* The bytes the client sent are, in order and without loss or addition, those
\* behind the Rewind, those it holds and those still on the wire: looking at
\* the first bytes changes nothing of what the other side gets.
NothingLostNothingAdded ==
  delivered \o pre \o wire = SubSeq(script, 1, sent)

\* What the client sends, or is going to, begins with these bytes.
Begins(bytes) == Len(bytes) <= Len(script) /\ \A i \in 1 .. Len(bytes) : script[i] = bytes[i]

\* A connection is served only if its client really begins as such clients do
\* (the zeros behind a short read mislead nobody), and with a CA one that does
\* is tunnelled only after a first read too short to tell.
Classified ==
  /\ pc \in {"accepting", "serving_tls"} => with_ca /\ Begins(TLS)
  /\ pc = "serving_plain" => with_ca /\ Begins(GET)
  /\ with_ca /\ pc \in {"dialling", "tunnel"} =>
       /\ Begins(TLS) => bytes_read < 2
       /\ Begins(GET) => bytes_read < 4

\* The first bytes of a client, be they fewer than four, reach whoever is to
\* read them, unless the connection ends.
FirstBytesArrive == (sent > 0) ~> (delivered # <<>> \/ pc = "ended")

\* Once the client has closed, the task ends, or it waits for a server that
\* keeps its side of the tunnel open.
ClosedClientEndsTask ==
  (~ client_open) ~> (pc = "ended" \/ (pc = "tunnel" /\ eof /\ server_open))

-----------------------------------------------------------------------------
(* Claim of the repository that the code does not keep                     *)

\* proxy_handler.rs:137-138: with a CA, CONNECTs are intercepted throughout, so
\* that all later HTTPS and WSS requests come to handle_request.
TlsIsIntercepted ==
  with_ca /\ Begins(TLS) => pc # "tunnel"
=============================================================================
