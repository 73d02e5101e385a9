---------------------------- MODULE Conversation ----------------------------
(***************************************************************************)
(* What a WebSocket through the proxy promises its two ends, without       *)
(* sockets, closing handshakes and forwarders:                             *)
(*   - What arrives at a side is what the other one sent, message by       *)
(*     message, in order and each once.                                    *)
(*   - Nothing arrives where the end has been told.                        *)
(*   - Nobody is told of an end before one of them has left.               *)
(* Messages that were sent may stay away once somebody has left.           *)
(***************************************************************************)
EXTENDS Naturals, Sequences

Sides == {"client", "server"}
Other(s) == IF s = "client" THEN "server" ELSE "client"

VARIABLES
  sent,   \* how many messages a side has sent; they are numbered
  got,    \* the messages that have arrived at it
  left,   \* the sides that have ended their half: by a Close, an error or for good
  told    \* whether a side has been told of the end

vars == <<sent, got, left, told>>

Init ==
  /\ sent = [s \in Sides |-> 0]
  /\ got = [s \in Sides |-> <<>>]
  /\ left = {}
  /\ told = [s \in Sides |-> FALSE]

Send(s) ==
  /\ s \notin left
  /\ sent' = [sent EXCEPT ![s] = @ + 1]
  /\ UNCHANGED <<got, left, told>>

\* The next message from s.
Arrive(s) ==
  /\ ~ told[Other(s)] /\ Len(got[Other(s)]) < sent[s]
  /\ got' = [got EXCEPT ![Other(s)] = Append(@, Len(@) + 1)]
  /\ UNCHANGED <<sent, left, told>>

Leave(s) ==
  /\ left' = left \cup {s}
  /\ UNCHANGED <<sent, got, told>>

Tell(s) ==
  /\ left # {}
  /\ told' = [told EXCEPT ![s] = TRUE]
  /\ UNCHANGED <<sent, got, left>>

Next == \E s \in Sides : Send(s) \/ Arrive(s) \/ Leave(s) \/ Tell(s)

Spec == Init /\ [][Next]_vars
=============================================================================
