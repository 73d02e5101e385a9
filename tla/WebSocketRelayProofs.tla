------------------------ MODULE WebSocketRelayProofs ------------------------
(***************************************************************************)
(* Proofs about WebSocketRelay, for any number of messages.                *)
(***************************************************************************)
EXTENDS WebSocketRelay, TLAPS

Frames == Messages \cup {CLOSE, BAD}

-----------------------------------------------------------------------------
(* The inductive invariant                                                 *)

\* How many messages of s have been read, if none was dropped.
Read(s) == Len(got[Other(s)]) + (IF held[s] \in Messages THEN 1 ELSE 0)

\* Messages come before what ends the stream, and were sent.
Ordered(s) ==
  /\ \A i \in 1 .. Len(wire[s]) : wire[s][i] \in Messages =>
       wire[s][i] <= sent[s] /\ \A j \in 1 .. i : wire[s][j] \in Messages
  /\ peer[s] = "open" => \A i \in 1 .. Len(wire[s]) : wire[s][i] \in Messages
  /\ held[s] \in Messages => held[s] <= sent[s]

Beginning(s) == \E n \in 0 .. sent[s] : got[Other(s)] = First(n)

\* While messages can still reach the other side, none is missing between those that
\* have, the one that is held and those on their way, and if s is there, behind them.
Complete(s) ==
  state[Other(s)] = "active" /\ peer[Other(s)] # "gone" =>
    /\ held[s] \in Messages => held[s] = Len(got[Other(s)]) + 1
    /\ \A i \in 1 .. Len(wire[s]) : wire[s][i] \in Messages => wire[s][i] = Read(s) + i
    /\ peer[s] # "gone" =>
         /\ Read(s) <= sent[s] /\ sent[s] - Read(s) <= Len(wire[s])
         /\ \A i \in 1 .. sent[s] - Read(s) : wire[s][i] \in Messages
    /\ peer[s] = "open" => Read(s) + Len(wire[s]) = sent[s]

Forwarder(s) ==
  /\ fwd[s] \in {"none", "next", "done"} => held[s] = NONE
  /\ fwd[s] = "send" => held[s] \in Messages \cup {CLOSE}
  /\ fwd[s] = "fail" => held[s] = CLOSE
  /\ phase \in {"request", "dialled", "answered"} =>
       fwd[s] = "none" /\ state[s] = "active" /\ ~ told[s]

\* A Close, or an error, that s has met and the other side has not been told of.
Owed(s) == held[s] = CLOSE /\ fwd[s] \in {"send", "fail"}

Told(s) == told[s] \/ peer[s] = "gone"

\* Told, or about to be in answer to its own Close.
Met(s) == Told(s) \/ state[s] = "closed_by_peer"

\* A socket that is closing was told so by us, or its peer's Close is on its way to the
\* other side or has been refused there for one that was before it.  While an answer is
\* due the forwarder that sends it is there.
Closing(s) ==
  /\ state[s] \in {"closed_by_us", "acknowledged"} => told[s]
  /\ state[s] = "terminated" => Told(s)
  /\ state[s] \in {"closed_by_peer", "acknowledged", "terminated"} => Owed(s) \/ Met(Other(s))
  /\ state[s] = "closed_by_peer" => peer[s] # "open" /\ fwd[s] \notin {"fail", "done"}
  /\ held[s] = CLOSE => peer[s] # "open"
  /\ fwd[s] = "done" => Met(Other(s))
  /\ told[s] => \E d \in Sides : peer[d] # "open"

Side(s) == Ordered(s) /\ Beginning(s) /\ Complete(s) /\ Forwarder(s) /\ Closing(s)

IInv == TypeOK /\ \A s \in Sides : Side(s)

-----------------------------------------------------------------------------
(* Lemmas                                                                  *)

LEMMA TwoSides ==
  ASSUME NEW s \in Sides
  PROVE  Other(s) \in Sides /\ Other(s) # s /\ Other(Other(s)) = s /\ Sides = {s, Other(s)}
BY DEF Sides, Other

LEMMA Marks ==
  /\ CLOSE \notin Messages /\ BAD \notin Messages /\ NONE \notin Messages
  /\ CLOSE # BAD /\ NONE # CLOSE /\ NONE # BAD
  /\ \A m \in Messages : m \in Nat
BY MessagesAssumption DEF Messages

LEMMA FirstIsSeq ==
  ASSUME NEW n \in Nat, n <= MaxSent
  PROVE  First(n) \in Seq(Messages) /\ Len(First(n)) = n
BY MaxSentAssumption DEF First, Messages

LEMMA FirstGrows ==
  ASSUME NEW n \in Nat, n + 1 <= MaxSent
  PROVE  Append(First(n), n + 1) = First(n + 1)
<1>1. First(n) \in Seq(Messages) /\ Len(First(n)) = n
  BY FirstIsSeq, MaxSentAssumption
<1>2. First(n + 1) \in Seq(Messages) /\ Len(First(n + 1)) = n + 1
  BY FirstIsSeq, MaxSentAssumption
<1>3. n + 1 \in Messages
  BY MaxSentAssumption DEF Messages
<1>4. Append(First(n), n + 1) \in Seq(Messages) /\ Len(Append(First(n), n + 1)) = n + 1
  BY <1>1, <1>3
<1>5. \A i \in 1 .. n + 1 : Append(First(n), n + 1)[i] = First(n + 1)[i]
  BY <1>1, <1>3 DEF First
<1>6. QED
  BY <1>2, <1>4, <1>5

LEMMA OneMore ==
  ASSUME NEW r \in Nat, NEW l \in Nat, NEW q \in Nat, r + l = q
  PROVE  r + (l + 1) = q + 1 /\ r <= q + 1 /\ (q + 1) - r = l + 1
OBVIOUS

LEMMA Regroup ==
  ASSUME NEW r \in Nat, NEW i \in Nat
  PROVE  r + (i + 1) = (r + 1) + i
OBVIOUS

LEMMA OneOver ==
  ASSUME NEW r \in Nat, NEW l \in Nat \ {0}
  PROVE  (r + 1) + (l - 1) = r + l
OBVIOUS

LEMMA ReadIsNat ==
  ASSUME TypeOK, NEW s \in Sides
  PROVE  /\ Read(s) \in Nat /\ Len(got[Other(s)]) \in Nat
         /\ held[s] \in Messages => Read(s) = Len(got[Other(s)]) + 1
         /\ held[s] \notin Messages => Read(s) = Len(got[Other(s)])
<1>1. got[Other(s)] \in Seq(Messages)
  BY TwoSides DEF TypeOK
<1>2. Len(got[Other(s)]) \in Nat
  BY <1>1
<1>3. CASE held[s] \in Messages
  <2>1. Read(s) = Len(got[Other(s)]) + 1
    BY <1>3 DEF Read
  <2>2. QED
    BY <1>2, <1>3, <2>1
<1>4. CASE held[s] \notin Messages
  <2>1. Read(s) = Len(got[Other(s)]) + 0
    BY <1>4 DEF Read
  <2>2. QED
    BY <1>2, <1>4, <2>1
<1>5. QED
  BY <1>3, <1>4

LEMMA Appended ==
  ASSUME NEW q \in Seq(Frames), NEW f \in Frames
  PROVE  /\ Append(q, f) \in Seq(Frames) /\ Len(q) \in Nat /\ Len(Append(q, f)) = Len(q) + 1
         /\ \A i \in 1 .. Len(q) : Append(q, f)[i] = q[i]
         /\ Append(q, f)[Len(q) + 1] = f
OBVIOUS

LEMMA Taken ==
  ASSUME NEW q \in Seq(Frames), q # <<>>
  PROVE  /\ Head(q) \in Frames /\ Head(q) = q[1] /\ Len(q) \in Nat \ {0}
         /\ Tail(q) \in Seq(Frames) /\ Len(Tail(q)) = Len(q) - 1
         /\ \A i \in 1 .. Len(q) - 1 : Tail(q)[i] = q[i + 1]
OBVIOUS

\* What a side's messages go through is as it was, and its end is no farther away.
LEMMA CompleteStays ==
  ASSUME NEW t \in Sides, Complete(t),
         wire'[t] = wire[t], got'[Other(t)] = got[Other(t)], sent'[t] = sent[t],
         held'[t] = held[t] \/ (held[t] \notin Messages /\ held'[t] \notin Messages),
         state'[Other(t)] = "active" => state[Other(t)] = "active",
         peer'[Other(t)] # "gone" => peer[Other(t)] # "gone",
         peer'[t] # "gone" => peer[t] # "gone", peer'[t] = "open" => peer[t] = "open"
  PROVE  Complete(t)'
<1>1. Read(t)' = Read(t)
  BY DEF Read
<1>2. QED
  BY <1>1 DEF Complete

-----------------------------------------------------------------------------
(* The peers                                                               *)

LEMMA PeerSendsKeeps ==
  ASSUME IInv, NEW s \in Sides, PeerSends(s)
  PROVE  IInv'
<1> USE TwoSides, Marks
<1>1. TypeOK'
  <2>1. wire[s] \in Seq(Frames) /\ sent[s] \in Nat
    BY DEF IInv, TypeOK, Frames
  <2>2. sent[s] + 1 \in Messages
    <3>1. sent[s] \in 0 .. MaxSent /\ sent[Other(s)] \in 0 .. MaxSent
      BY DEF IInv, TypeOK
    <3>2. QED
      BY <3>1, MaxSentAssumption DEF Messages, PeerSends
  <2>3. Append(wire[s], sent[s] + 1) \in Seq(Frames)
    BY <2>1, <2>2, Appended DEF Frames
  <2>4. sent' \in [Sides -> 0 .. MaxSent] /\ wire' \in [Sides -> Seq(Frames)]
    BY <2>1, <2>2, <2>3 DEF IInv, TypeOK, PeerSends, Messages, Frames
  <2>5. QED
    BY <2>4 DEF IInv, TypeOK, Frames, PeerSends, upgrade, peers, sockets
<1>3. \A t \in Sides : Ordered(t)'
  <2>0. SUFFICES ASSUME NEW t \in Sides PROVE Ordered(t)'
    OBVIOUS
  <2>1. wire[s] \in Seq(Frames) /\ sent[s] \in Nat
    BY DEF IInv, TypeOK, Frames
  <2>2. sent[s] + 1 \in Messages
    <3>1. sent[s] \in 0 .. MaxSent /\ sent[Other(s)] \in 0 .. MaxSent
      BY DEF IInv, TypeOK
    <3>2. QED
      BY <3>1, MaxSentAssumption DEF Messages, PeerSends
  <2>3. Ordered(t) /\ Ordered(s)
    BY <2>0 DEF IInv, Side
  <2>4. CASE t = s
    <3>1. wire'[s] = Append(wire[s], sent[s] + 1) /\ sent'[s] = sent[s] + 1
      BY <2>1 DEF IInv, TypeOK, PeerSends
    <3>2. Len(wire'[s]) = Len(wire[s]) + 1 /\ Len(wire[s]) \in Nat
      BY <2>1, <2>2, <3>1, Appended DEF Frames
    <3>3. \A i \in 1 .. Len(wire'[s]) : wire'[s][i] \in Messages /\ wire'[s][i] <= sent'[s]
      <4>1. ASSUME NEW i \in 1 .. Len(wire[s]) PROVE wire'[s][i] \in Messages /\ wire'[s][i] <= sent[s]
        BY <2>1, <2>2, <2>3, <3>1, Appended DEF Ordered, PeerSends, Frames
      <4>2. wire'[s][Len(wire[s]) + 1] = sent[s] + 1
        BY <2>1, <2>2, <3>1, Appended DEF Frames
      <4>3. ASSUME NEW i \in 1 .. Len(wire[s]) + 1 PROVE wire'[s][i] \in Messages /\ wire'[s][i] <= sent[s] + 1
        <5>1. CASE i = Len(wire[s]) + 1
          BY <2>1, <2>2, <4>2, <5>1
        <5>2. CASE i # Len(wire[s]) + 1
          <6>1. i \in 1 .. Len(wire[s])
            BY <3>2, <4>3, <5>2
          <6>2. wire'[s][i] \in Messages /\ wire'[s][i] <= sent[s]
            BY <4>1, <6>1
          <6>3. wire'[s][i] \in Nat
            BY <6>2
          <6>4. QED
            BY <2>1, <6>2, <6>3
        <5>3. QED
          BY <5>1, <5>2
      <4>4. QED
        BY <3>1, <3>2, <4>3
    <3>4. held'[s] \in Messages => held'[s] <= sent'[s]
      BY <2>1, <2>3, <3>1 DEF Ordered, PeerSends
    <3>5. QED
      BY <2>4, <3>2, <3>3, <3>4 DEF Ordered
  <2>5. CASE t # s
    BY <2>3, <2>5 DEF IInv, TypeOK, Ordered, PeerSends
  <2>6. QED
    BY <2>4, <2>5
<1>4. \A t \in Sides : Beginning(t)'
  BY DEF IInv, Side, TypeOK, Beginning, PeerSends, upgrade, peers, sockets
<1>5. \A t \in Sides : Complete(t)'
  <2>0. SUFFICES ASSUME NEW t \in Sides PROVE Complete(t)'
    OBVIOUS
  <2>1. wire[s] \in Seq(Frames) /\ sent[s] \in Nat
    BY DEF IInv, TypeOK, Frames
  <2>2. sent[s] + 1 \in Messages
    <3>1. sent[s] \in 0 .. MaxSent /\ sent[Other(s)] \in 0 .. MaxSent
      BY DEF IInv, TypeOK
    <3>2. QED
      BY <3>1, MaxSentAssumption DEF Messages, PeerSends
  <2>3. Complete(t) /\ Complete(s) /\ Ordered(s)
    BY <2>0 DEF IInv, Side
  <2>4. CASE t = s
    <3>0. state' = state /\ peer' = peer
      BY DEF PeerSends
    <3>1. SUFFICES ASSUME state[Other(s)] = "active", peer[Other(s)] # "gone" PROVE Complete(s)'
      BY <2>4, <3>0 DEF Complete
    <3>2. wire'[s] = Append(wire[s], sent[s] + 1) /\ Read(s)' = Read(s) /\ held' = held /\ got' = got
      BY <2>1 DEF IInv, TypeOK, Read, PeerSends, upgrade, peers, sockets
    <3>3. /\ Len(wire'[s]) = Len(wire[s]) + 1 /\ Len(wire[s]) \in Nat
          /\ \A i \in 1 .. Len(wire[s]) : wire'[s][i] = wire[s][i]
          /\ wire'[s][Len(wire[s]) + 1] = sent[s] + 1
      BY <2>1, <2>2, <3>2, Appended DEF Frames
    <3>4. Read(s) \in Nat
      BY ReadIsNat DEF IInv
    <3>5. sent'[s] = sent[s] + 1 /\ Read(s) + Len(wire[s]) = sent[s] /\ peer'[s] = "open"
      BY <2>1, <2>3, <3>1 DEF IInv, TypeOK, Complete, PeerSends
    <3>6. \A i \in 1 .. Len(wire[s]) + 1 : wire'[s][i] \in Messages /\ wire'[s][i] = Read(s) + i
      <4>1. ASSUME NEW i \in 1 .. Len(wire[s]) PROVE wire'[s][i] \in Messages /\ wire'[s][i] = Read(s) + i
        BY <2>3, <3>1, <3>3 DEF Complete, Ordered, PeerSends
      <4>2. wire'[s][Len(wire[s]) + 1] \in Messages /\ wire'[s][Len(wire[s]) + 1] = Read(s) + Len(wire[s]) + 1
        BY <2>2, <3>3, <3>5
      <4>3. ASSUME NEW i \in 1 .. Len(wire[s]) + 1, i # Len(wire[s]) + 1 PROVE i \in 1 .. Len(wire[s])
        BY <3>3, <4>3
      <4>4. QED
        BY <3>3, <3>4, <4>1, <4>2, <4>3
    <3>7. held[s] \in Messages => held[s] = Len(got[Other(s)]) + 1
      BY <2>3, <3>1 DEF Complete
    <3>8. Read(s)' + Len(wire'[s]) = sent'[s] /\ Read(s)' <= sent'[s] /\ sent'[s] - Read(s)' = Len(wire'[s])
      <4>1. /\ Read(s) + (Len(wire[s]) + 1) = sent[s] + 1 /\ Read(s) <= sent[s] + 1
            /\ (sent[s] + 1) - Read(s) = Len(wire[s]) + 1
        <5>1. /\ Read(s) \in Nat /\ Len(wire[s]) \in Nat /\ sent[s] \in Nat
              /\ Read(s) + Len(wire[s]) = sent[s]
          BY <2>1, <3>3, <3>4, <3>5
        <5>2. QED
          BY <5>1, OneMore
      <4>2. Read(s)' = Read(s) /\ Len(wire'[s]) = Len(wire[s]) + 1 /\ sent'[s] = sent[s] + 1
        BY <3>2, <3>3, <3>5
      <4>3. QED
        BY <4>1, <4>2
    <3>9. QED
      BY <3>2, <3>3, <3>6, <3>7, <3>8 DEF Complete
  <2>5. CASE t # s
    BY <2>3, <2>5, CompleteStays DEF IInv, TypeOK, PeerSends, upgrade, peers, sockets
  <2>6. QED
    BY <2>4, <2>5
<1>6. \A t \in Sides : Forwarder(t)'
  BY DEF IInv, Side, TypeOK, Forwarder, PeerSends, upgrade, peers, sockets
<1>7. \A t \in Sides : Closing(t)'
  BY DEF IInv, Side, TypeOK, Ordered, Forwarder, Closing, Owed, Told, Met, PeerSends, upgrade, peers, sockets
<1>8. QED
  BY <1>1, <1>3, <1>4, <1>5, <1>6, <1>7 DEF IInv, Side

LEMMA PeerClosesKeeps ==
  ASSUME IInv, NEW s \in Sides, PeerCloses(s)
  PROVE  IInv'
<1> USE TwoSides, Marks
<1>1. TypeOK'
  BY DEF IInv, TypeOK, PeerCloses, upgrade, peers, sockets
<1>3. \A t \in Sides : Ordered(t)'
  BY DEF IInv, Side, TypeOK, Ordered, PeerCloses, upgrade, peers, sockets
<1>4. \A t \in Sides : Beginning(t)'
  BY DEF IInv, Side, TypeOK, Beginning, PeerCloses, upgrade, peers, sockets
<1>5. \A t \in Sides : Complete(t)'
  <2>0. SUFFICES ASSUME NEW t \in Sides PROVE Complete(t)'
    OBVIOUS
  <2>1. wire[s] \in Seq(Frames) /\ sent[s] \in Nat
    BY DEF IInv, TypeOK, Frames
  <2>3. Complete(t) /\ Complete(s) /\ Ordered(s)
    BY <2>0 DEF IInv, Side
  <2>4. CASE t = s
    <3>0. state' = state /\ peer'[Other(s)] = peer[Other(s)]
      BY DEF IInv, TypeOK, PeerCloses
    <3>1. SUFFICES ASSUME state[Other(s)] = "active", peer[Other(s)] # "gone" PROVE Complete(s)'
      BY <2>4, <3>0 DEF Complete
    <3>2. wire'[s] = Append(wire[s], CLOSE) /\ Read(s)' = Read(s) /\ held' = held /\ got' = got
      <4>1. held' = held /\ got' = got
        BY DEF PeerCloses
      <4>2. wire'[s] = Append(wire[s], CLOSE)
        BY DEF IInv, TypeOK, PeerCloses
      <4>3. QED
        BY <4>1, <4>2 DEF Read
    <3>3. /\ Len(wire'[s]) = Len(wire[s]) + 1 /\ Len(wire[s]) \in Nat
          /\ \A i \in 1 .. Len(wire[s]) : wire'[s][i] = wire[s][i]
          /\ wire'[s][Len(wire[s]) + 1] = CLOSE
      BY <2>1, <3>2, Appended DEF Frames
    <3>4. Read(s) \in Nat
      BY ReadIsNat DEF IInv
    <3>5. sent' = sent /\ peer'[s] # "open" /\ peer[s] # "gone"
      BY DEF IInv, TypeOK, PeerCloses, upgrade, peers, sockets
    <3>6. ASSUME NEW i \in 1 .. Len(wire'[s]), wire'[s][i] \in Messages PROVE wire'[s][i] = Read(s) + i
      <4>1. i \in 1 .. Len(wire[s])
        BY <3>3, <3>6
      <4>2. QED
        BY <2>3, <3>1, <3>3, <3>6, <4>1 DEF Complete
    <3>7. held[s] \in Messages => held[s] = Len(got[Other(s)]) + 1
      BY <2>3, <3>1 DEF Complete
    <3>8. /\ Read(s) <= sent[s] /\ sent[s] - Read(s) <= Len(wire[s])
          /\ \A i \in 1 .. sent[s] - Read(s) : wire[s][i] \in Messages
      BY <2>3, <3>1, <3>5 DEF Complete
    <3>9. \A i \in 1 .. sent[s] - Read(s) : wire'[s][i] \in Messages
      <4>1. ASSUME NEW i \in 1 .. sent[s] - Read(s) PROVE i \in 1 .. Len(wire[s])
        BY <2>1, <3>3, <3>4, <3>8
      <4>2. QED
        BY <3>3, <3>8, <4>1
    <3>10. QED
      BY <2>1, <3>2, <3>3, <3>4, <3>5, <3>6, <3>7, <3>8, <3>9 DEF Complete
  <2>5. CASE t # s
    BY <2>3, <2>5, CompleteStays DEF IInv, TypeOK, PeerCloses, upgrade, peers, sockets
  <2>6. QED
    BY <2>4, <2>5
<1>6. \A t \in Sides : Forwarder(t)'
  BY DEF IInv, Side, TypeOK, Forwarder, PeerCloses, upgrade, peers, sockets
<1>7. \A t \in Sides : Closing(t)'
  BY DEF IInv, Side, TypeOK, Ordered, Forwarder, Closing, Owed, Told, Met, PeerCloses, upgrade, peers, sockets
<1>8. QED
  BY <1>1, <1>3, <1>4, <1>5, <1>6, <1>7 DEF IInv, Side

LEMMA PeerErrsKeeps ==
  ASSUME IInv, NEW s \in Sides, PeerErrs(s)
  PROVE  IInv'
<1> USE TwoSides, Marks
<1>1. TypeOK'
  BY DEF IInv, TypeOK, PeerErrs, upgrade, peers, sockets
<1>3. \A t \in Sides : Ordered(t)'
  BY DEF IInv, Side, TypeOK, Ordered, PeerErrs, upgrade, peers, sockets
<1>4. \A t \in Sides : Beginning(t)'
  BY DEF IInv, Side, TypeOK, Beginning, PeerErrs, upgrade, peers, sockets
<1>5. \A t \in Sides : Complete(t)'
  <2>0. SUFFICES ASSUME NEW t \in Sides PROVE Complete(t)'
    OBVIOUS
  <2>1. wire[s] \in Seq(Frames) /\ sent[s] \in Nat
    BY DEF IInv, TypeOK, Frames
  <2>3. Complete(t) /\ Complete(s) /\ Ordered(s)
    BY <2>0 DEF IInv, Side
  <2>4. CASE t = s
    <3>0. state' = state /\ peer'[Other(s)] = peer[Other(s)]
      BY DEF IInv, TypeOK, PeerErrs
    <3>1. SUFFICES ASSUME state[Other(s)] = "active", peer[Other(s)] # "gone" PROVE Complete(s)'
      BY <2>4, <3>0 DEF Complete
    <3>2. wire'[s] = Append(wire[s], BAD) /\ Read(s)' = Read(s) /\ held' = held /\ got' = got
      <4>1. held' = held /\ got' = got
        BY DEF PeerErrs
      <4>2. wire'[s] = Append(wire[s], BAD)
        BY DEF IInv, TypeOK, PeerErrs
      <4>3. QED
        BY <4>1, <4>2 DEF Read
    <3>3. /\ Len(wire'[s]) = Len(wire[s]) + 1 /\ Len(wire[s]) \in Nat
          /\ \A i \in 1 .. Len(wire[s]) : wire'[s][i] = wire[s][i]
          /\ wire'[s][Len(wire[s]) + 1] = BAD
      BY <2>1, <3>2, Appended DEF Frames
    <3>4. Read(s) \in Nat
      BY ReadIsNat DEF IInv
    <3>5. sent' = sent /\ peer'[s] # "open" /\ peer[s] # "gone"
      BY DEF IInv, TypeOK, PeerErrs, upgrade, peers, sockets
    <3>6. ASSUME NEW i \in 1 .. Len(wire'[s]), wire'[s][i] \in Messages PROVE wire'[s][i] = Read(s) + i
      <4>1. i \in 1 .. Len(wire[s])
        BY <3>3, <3>6
      <4>2. QED
        BY <2>3, <3>1, <3>3, <3>6, <4>1 DEF Complete
    <3>7. held[s] \in Messages => held[s] = Len(got[Other(s)]) + 1
      BY <2>3, <3>1 DEF Complete
    <3>8. /\ Read(s) <= sent[s] /\ sent[s] - Read(s) <= Len(wire[s])
          /\ \A i \in 1 .. sent[s] - Read(s) : wire[s][i] \in Messages
      BY <2>3, <3>1, <3>5 DEF Complete
    <3>9. \A i \in 1 .. sent[s] - Read(s) : wire'[s][i] \in Messages
      <4>1. ASSUME NEW i \in 1 .. sent[s] - Read(s) PROVE i \in 1 .. Len(wire[s])
        BY <2>1, <3>3, <3>4, <3>8
      <4>2. QED
        BY <3>3, <3>8, <4>1
    <3>10. QED
      BY <2>1, <3>2, <3>3, <3>4, <3>5, <3>6, <3>7, <3>8, <3>9 DEF Complete
  <2>5. CASE t # s
    BY <2>3, <2>5, CompleteStays DEF IInv, TypeOK, PeerErrs, upgrade, peers, sockets
  <2>6. QED
    BY <2>4, <2>5
<1>6. \A t \in Sides : Forwarder(t)'
  BY DEF IInv, Side, TypeOK, Forwarder, PeerErrs, upgrade, peers, sockets
<1>7. \A t \in Sides : Closing(t)'
  BY DEF IInv, Side, TypeOK, Ordered, Forwarder, Closing, Owed, Told, Met, PeerErrs, upgrade, peers, sockets
<1>8. QED
  BY <1>1, <1>3, <1>4, <1>5, <1>6, <1>7 DEF IInv, Side

LEMMA PeerLeavesKeeps ==
  ASSUME IInv, NEW s \in Sides, PeerLeaves(s)
  PROVE  IInv'
<1> USE TwoSides, Marks
<1>1. TypeOK'
  <2>1. wire' \in [Sides -> Seq(Frames)]
    <3>1. <<>> \in Seq(Frames)
      OBVIOUS
    <3>2. wire \in [Sides -> Seq(Frames)]
      BY DEF IInv, TypeOK, Frames
    <3>3. [wire EXCEPT ![s] = <<>>] \in [Sides -> Seq(Frames)]
      BY <3>1, <3>2
    <3>4. QED
      BY <3>2, <3>3 DEF PeerLeaves
  <2>2. peer' \in [Sides -> {"open", "faulty", "closed", "gone"}]
    BY DEF IInv, TypeOK, PeerLeaves
  <2>3. QED
    BY <2>1, <2>2 DEF IInv, TypeOK, Frames, PeerLeaves, upgrade, peers, sockets
<1>3. \A t \in Sides : Ordered(t)'
  BY DEF IInv, Side, TypeOK, Ordered, PeerLeaves, upgrade, peers, sockets
<1>4. \A t \in Sides : Beginning(t)'
  BY DEF IInv, Side, TypeOK, Beginning, PeerLeaves, upgrade, peers, sockets
<1>5. \A t \in Sides : Complete(t)'
  <2>0. SUFFICES ASSUME NEW t \in Sides PROVE Complete(t)'
    OBVIOUS
  <2>1. Complete(t) /\ Complete(s)
    BY <2>0 DEF IInv, Side
  <2>2. CASE t # s \/ wire' = wire
    BY <2>1, <2>2, CompleteStays DEF IInv, TypeOK, PeerLeaves, upgrade, peers, sockets
  <2>3. CASE t = s /\ wire' = [wire EXCEPT ![s] = <<>>]
    <3>1. wire'[s] = <<>> /\ peer'[s] = "gone" /\ Read(s)' = Read(s) /\ held' = held /\ got' = got /\ state' = state
      BY <2>3 DEF IInv, TypeOK, Read, PeerLeaves, upgrade, peers, sockets
    <3>2. peer'[Other(s)] = peer[Other(s)]
      BY DEF IInv, TypeOK, PeerLeaves
    <3>3. QED
      BY <2>1, <2>3, <3>1, <3>2 DEF Complete
  <2>4. QED
    BY <2>2, <2>3 DEF PeerLeaves
<1>6. \A t \in Sides : Forwarder(t)'
  BY DEF IInv, Side, TypeOK, Forwarder, PeerLeaves, upgrade, peers, sockets
<1>7. \A t \in Sides : Closing(t)'
  BY DEF IInv, Side, TypeOK, Ordered, Forwarder, Closing, Owed, Told, Met, PeerLeaves, upgrade, peers, sockets
<1>8. QED
  BY <1>1, <1>3, <1>4, <1>5, <1>6, <1>7 DEF IInv, Side

LEMMA PeerStopsReadingKeeps ==
  ASSUME IInv, NEW s \in Sides, PeerStopsReading(s)
  PROVE  IInv'
<1> USE TwoSides, Marks
<1>1. TypeOK'
  BY DEF IInv, TypeOK, PeerStopsReading, upgrade, peers, sockets
<1>3. \A t \in Sides : Ordered(t)'
  BY DEF IInv, Side, TypeOK, Ordered, PeerStopsReading, upgrade, peers, sockets
<1>4. \A t \in Sides : Beginning(t)'
  BY DEF IInv, Side, TypeOK, Beginning, PeerStopsReading, upgrade, peers, sockets
<1>5. \A t \in Sides : Complete(t)'
  BY CompleteStays DEF IInv, Side, TypeOK, Forwarder, PeerStopsReading, upgrade, peers, sockets
<1>6. \A t \in Sides : Forwarder(t)'
  BY DEF IInv, Side, TypeOK, Forwarder, PeerStopsReading, upgrade, peers, sockets
<1>7. \A t \in Sides : Closing(t)'
  BY DEF IInv, Side, TypeOK, Ordered, Forwarder, Closing, Owed, Told, Met, PeerStopsReading, upgrade, peers, sockets
<1>8. QED
  BY <1>1, <1>3, <1>4, <1>5, <1>6, <1>7 DEF IInv, Side

-----------------------------------------------------------------------------
(* The forwarders                                                          *)

LEMMA ReadMessageKeeps ==
  ASSUME IInv, NEW s \in Sides, ReadMessage(s)
  PROVE  IInv'
<1> USE TwoSides, Marks
<1>1. TypeOK'
  BY DEF IInv, TypeOK, ReadMessage, Goto, CanRead, upgrade, peers, sockets
<1>3. \A t \in Sides : Ordered(t)'
  <2>0. SUFFICES ASSUME NEW t \in Sides PROVE Ordered(t)'
    OBVIOUS
  <2>1. wire[s] \in Seq(Frames) /\ wire[s] # <<>> /\ sent[s] \in Nat
    BY DEF IInv, TypeOK, Frames, ReadMessage
  <2>2. wire'[s] = Tail(wire[s]) /\ held'[s] = wire[s][1] /\ sent' = sent /\ peer' = peer /\ got' = got
    BY <2>1, Taken DEF IInv, TypeOK, ReadMessage, Goto, CanRead, upgrade, peers, sockets
  <2>3. /\ Len(wire[s]) \in Nat \ {0} /\ Len(wire'[s]) = Len(wire[s]) - 1
        /\ \A i \in 1 .. Len(wire[s]) - 1 : wire'[s][i] = wire[s][i + 1]
    BY <2>1, <2>2, Taken
  <2>4. Ordered(t) /\ Ordered(s)
    BY <2>0 DEF IInv, Side
  <2>5. CASE t = s
    <3>1. ASSUME NEW i \in 1 .. Len(wire'[s])
          PROVE  /\ wire'[s][i] \in Messages =>
                      wire'[s][i] <= sent[s] /\ \A j \in 1 .. i : wire'[s][j] \in Messages
                 /\ peer[s] = "open" => wire'[s][i] \in Messages
      <4>1. i + 1 \in 1 .. Len(wire[s]) /\ i \in 1 .. Len(wire[s]) - 1
        BY <2>3, <3>1
      <4>2. \A j \in 1 .. i : j + 1 \in 1 .. i + 1 /\ j \in 1 .. Len(wire[s]) - 1
        BY <2>3, <4>1
      <4>3. wire'[s][i] = wire[s][i + 1] /\ \A j \in 1 .. i : wire'[s][j] = wire[s][j + 1]
        BY <2>3, <4>1, <4>2
      <4>4. QED
        BY <2>4, <4>1, <4>2, <4>3 DEF Ordered
    <3>2. held'[s] \in Messages => held'[s] <= sent[s]
      BY <2>2, <2>3, <2>4 DEF Ordered
    <3>3. QED
      BY <2>2, <2>5, <3>1, <3>2 DEF Ordered
  <2>6. CASE t # s
    BY <2>4, <2>6 DEF IInv, TypeOK, Ordered, ReadMessage, Goto, CanRead, upgrade, peers, sockets
  <2>7. QED
    BY <2>5, <2>6
<1>4. \A t \in Sides : Beginning(t)'
  BY DEF IInv, Side, TypeOK, Beginning, ReadMessage, Goto, CanRead, upgrade, peers, sockets
<1>5. \A t \in Sides : Complete(t)'
  <2>0. SUFFICES ASSUME NEW t \in Sides PROVE Complete(t)'
    OBVIOUS
  <2>1. wire[s] \in Seq(Frames) /\ wire[s] # <<>> /\ sent[s] \in Nat
    BY DEF IInv, TypeOK, Frames, ReadMessage
  <2>2. wire'[s] = Tail(wire[s]) /\ held'[s] = wire[s][1] /\ sent' = sent /\ peer' = peer /\ got' = got
    BY <2>1, Taken DEF IInv, TypeOK, ReadMessage, Goto, CanRead, upgrade, peers, sockets
  <2>3. /\ Len(wire[s]) \in Nat \ {0} /\ Len(wire'[s]) = Len(wire[s]) - 1
        /\ \A i \in 1 .. Len(wire[s]) - 1 : wire'[s][i] = wire[s][i + 1]
    BY <2>1, <2>2, Taken
  <2>4. Complete(t) /\ Complete(s) /\ Ordered(s) /\ Forwarder(s)
    BY <2>0 DEF IInv, Side
  <2>5. CASE t = s
    <3>0. peer' = peer /\ (state'[Other(s)] = "active" => state[Other(s)] = "active")
      BY DEF IInv, TypeOK, ReadMessage, Goto, peers
    <3>1. SUFFICES ASSUME state[Other(s)] = "active", peer[Other(s)] # "gone" PROVE Complete(s)'
      BY <2>5, <3>0 DEF Complete
    <3>2. held[s] = NONE /\ Read(s) = Len(got[Other(s)]) /\ Read(s) \in Nat
      BY <2>4, ReadIsNat, Marks DEF IInv, Forwarder, ReadMessage
    <3>3. CASE held'[s] \notin Messages
      <4>1. \A i \in 1 .. Len(wire[s]) : wire[s][i] \notin Messages
        BY <2>2, <2>3, <2>4, <3>3 DEF Ordered
      <4>2. ASSUME NEW i \in 1 .. Len(wire'[s]) PROVE wire'[s][i] \notin Messages
        <5>1. i + 1 \in 1 .. Len(wire[s]) /\ i \in 1 .. Len(wire[s]) - 1
          BY <2>3, <4>2
        <5>2. QED
          BY <2>3, <4>1, <5>1
      <4>3. Read(s)' = Read(s)
        BY <2>2, <3>2, <3>3 DEF Read
      <4>4. peer[s] # "gone" => Read(s) <= sent[s] /\ sent[s] - Read(s) = 0
        <5>1. SUFFICES ASSUME peer[s] # "gone" PROVE Read(s) <= sent[s] /\ sent[s] - Read(s) = 0
          OBVIOUS
        <5>2. Read(s) <= sent[s] /\ \A i \in 1 .. sent[s] - Read(s) : wire[s][i] \in Messages
          BY <2>4, <3>1, <5>1 DEF Complete
        <5>3. ASSUME sent[s] - Read(s) # 0 PROVE FALSE
          <6>1. 1 \in 1 .. sent[s] - Read(s) /\ 1 \in 1 .. Len(wire[s])
            BY <2>1, <2>3, <3>2, <5>2, <5>3
          <6>2. QED
            BY <4>1, <5>2, <6>1
        <5>4. QED
          BY <5>2, <5>3
      <4>5. peer[s] # "open"
        BY <2>3, <2>4, <4>1 DEF Ordered
      <4>6. 0 <= Len(wire'[s]) /\ 1 .. 0 = {}
        BY <2>3
      <4>7. QED
        BY <2>2, <3>3, <4>2, <4>3, <4>4, <4>5, <4>6 DEF Complete
    <3>4. CASE held'[s] \in Messages
      <4>1. held'[s] = Read(s) + 1
        BY <2>2, <2>3, <2>4, <3>1, <3>4 DEF Complete
      <4>2. Read(s)' = Read(s) + 1 /\ Len(got'[Other(s)]) = Read(s)
        BY <2>2, <3>2, <3>4 DEF Read
      <4>3. ASSUME NEW i \in 1 .. Len(wire'[s]), wire'[s][i] \in Messages PROVE wire'[s][i] = Read(s)' + i
        <5>1. i + 1 \in 1 .. Len(wire[s]) /\ i \in 1 .. Len(wire[s]) - 1
          BY <2>3, <4>3
        <5>2. wire[s][i + 1] = Read(s) + (i + 1)
          BY <2>3, <2>4, <3>1, <4>3, <5>1 DEF Complete
        <5>3. Read(s) + (i + 1) = (Read(s) + 1) + i
          <6>1. i \in Nat /\ Read(s) \in Nat
            BY <2>3, <3>2, <5>1
          <6>2. QED
            BY <6>1, Regroup
        <5>4. wire'[s][i] = wire[s][i + 1]
          BY <2>3, <5>1
        <5>5. QED
          BY <4>2, <5>2, <5>3, <5>4
      <4>4. ASSUME peer[s] # "gone"
            PROVE  /\ Read(s)' <= sent[s] /\ sent[s] - Read(s)' <= Len(wire'[s])
                   /\ \A i \in 1 .. sent[s] - Read(s)' : wire'[s][i] \in Messages
        <5>1. /\ Read(s) <= sent[s] /\ sent[s] - Read(s) <= Len(wire[s])
              /\ \A i \in 1 .. sent[s] - Read(s) : wire[s][i] \in Messages
          BY <2>4, <3>1, <4>4 DEF Complete
        <5>2. Read(s) + 1 <= sent[s]
          <6>1. 1 \in 1 .. Len(wire[s])
            BY <2>3
          <6>2. wire[s][1] \in Messages => wire[s][1] <= sent[s]
            BY <2>4, <6>1 DEF Ordered
          <6>3. QED
            BY <2>2, <3>4, <4>1, <6>2
        <5>3. ASSUME NEW i \in 1 .. sent[s] - Read(s)' PROVE wire'[s][i] \in Messages
          <6>1. i + 1 \in 1 .. sent[s] - Read(s) /\ i \in 1 .. Len(wire[s]) - 1
            BY <2>1, <2>3, <3>2, <4>2, <5>1, <5>2, <5>3
          <6>2. QED
            BY <2>3, <5>1, <6>1
        <5>4. Read(s)' <= sent[s]
          BY <4>2, <5>2
        <5>5. sent[s] - Read(s)' <= Len(wire'[s])
          <6>1. sent[s] - (Read(s) + 1) <= Len(wire[s]) - 1
            BY <2>1, <2>3, <3>2, <5>1
          <6>2. QED
            BY <2>3, <4>2, <6>1
        <5>6. QED
          BY <5>3, <5>4, <5>5
      <4>5. peer[s] = "open" => Read(s)' + Len(wire'[s]) = sent[s]
        <5>1. SUFFICES ASSUME peer[s] = "open" PROVE Read(s)' + Len(wire'[s]) = sent[s]
          OBVIOUS
        <5>2. Read(s) + Len(wire[s]) = sent[s]
          BY <2>4, <3>1, <5>1 DEF Complete
        <5>3. Read(s) \in Nat /\ Len(wire[s]) \in Nat \ {0}
          BY <2>3, <3>2
        <5>4. Read(s)' + Len(wire'[s]) = (Read(s) + 1) + (Len(wire[s]) - 1)
          BY <2>3, <4>2
        <5>5. (Read(s) + 1) + (Len(wire[s]) - 1) = Read(s) + Len(wire[s])
          BY <5>3, OneOver
        <5>6. QED
          BY <5>2, <5>4, <5>5
      <4>6. QED
        BY <2>2, <4>1, <4>2, <4>3, <4>4, <4>5 DEF Complete
    <3>5. QED
      BY <3>3, <3>4
  <2>6. CASE t # s
    BY <2>4, <2>6, CompleteStays DEF IInv, TypeOK, ReadMessage, Goto, CanRead, upgrade, peers, sockets
  <2>7. QED
    BY <2>5, <2>6
<1>6. \A t \in Sides : Forwarder(t)'
  BY DEF IInv, Side, TypeOK, Forwarder, ReadMessage, Goto, CanRead, upgrade, peers, sockets
<1>7. \A t \in Sides : Closing(t)'
  <2>0. SUFFICES ASSUME NEW t \in Sides PROVE Closing(t)'
    OBVIOUS
  <2>1. wire[s] \in Seq(Frames) /\ wire[s] # <<>> /\ sent[s] \in Nat
    BY DEF IInv, TypeOK, Frames, ReadMessage
  <2>2. wire'[s] = Tail(wire[s]) /\ held'[s] = wire[s][1] /\ sent' = sent /\ peer' = peer /\ got' = got
    BY <2>1, Taken DEF IInv, TypeOK, ReadMessage, Goto, CanRead, upgrade, peers, sockets
  <2>3. /\ Len(wire[s]) \in Nat \ {0} /\ Len(wire'[s]) = Len(wire[s]) - 1
        /\ \A i \in 1 .. Len(wire[s]) - 1 : wire'[s][i] = wire[s][i + 1]
    BY <2>1, <2>2, Taken
  <2>4. Closing(t) /\ Closing(s) /\ Ordered(s) /\ Forwarder(s)
    BY <2>0 DEF IInv, Side
  <2>5. peer' = peer /\ told' = told
    BY DEF ReadMessage, Goto, CanRead, upgrade, peers, sockets
  <2>6. CASE t # s
    BY <2>4, <2>5, <2>6 DEF IInv, TypeOK, Closing, Owed, Told, Met, ReadMessage, Goto, CanRead, upgrade, peers, sockets
  <2>7. CASE t = s
    <3>1. held'[s] = Head(wire[s]) /\ fwd'[s] = "send"
      BY DEF IInv, TypeOK, ReadMessage, Goto, CanRead, upgrade, peers, sockets
    <3>2. CASE held'[s] # CLOSE
      <4>1. state' = state /\ held[s] # CLOSE
        BY <2>4, <3>1, <3>2 DEF IInv, TypeOK, Forwarder, ReadMessage
      <4>2. state[s] \in {"active", "closed_by_us"} /\ fwd[s] = "next"
        BY DEF ReadMessage, CanRead
      <4>3. QED
        BY <2>4, <2>5, <2>7, <3>1, <3>2, <4>1, <4>2 DEF Closing, Told, Met
    <3>3. CASE held'[s] = CLOSE
      <4>1. peer[s] # "open"
        <5>1. 1 \in 1 .. Len(wire[s]) /\ wire[s][1] \notin Messages
          BY <2>2, <2>3, <3>3
        <5>2. QED
          BY <2>4, <5>1 DEF Ordered
      <4>2. Owed(s)'
        BY <3>1, <3>3 DEF Owed
      <4>3. \/ state[s] = "active" /\ state'[s] = "closed_by_peer"
            \/ state[s] = "closed_by_us" /\ state'[s] = "acknowledged"
        BY <3>1, <3>3 DEF IInv, TypeOK, ReadMessage, CanRead
      <4>4. QED
        BY <2>4, <2>5, <2>7, <3>1, <4>1, <4>2, <4>3 DEF Closing, Told, Met
    <3>4. QED
      BY <3>2, <3>3
  <2>8. QED
    BY <2>6, <2>7
<1>8. QED
  BY <1>1, <1>3, <1>4, <1>5, <1>6, <1>7 DEF IInv, Side

LEMMA ReadErrorKeeps ==
  ASSUME IInv, NEW s \in Sides, ReadError(s)
  PROVE  IInv'
<1> USE TwoSides, Marks
<1>1. TypeOK'
  <2>1. state' \in [Sides -> {"active", "closed_by_us", "closed_by_peer", "acknowledged", "terminated"}]
    <3>1. state' = state \/ state' = [state EXCEPT ![s] = "terminated"]
      BY DEF ReadError
    <3>2. state \in [Sides -> {"active", "closed_by_us", "closed_by_peer", "acknowledged", "terminated"}]
      BY DEF IInv, TypeOK
    <3>3. QED
      BY <3>1, <3>2
  <2>2. fwd' \in [Sides -> {"none", "next", "send", "fail", "done"}] /\ held' \in [Sides -> Messages \cup {CLOSE, NONE}]
    BY DEF IInv, TypeOK, ReadError, Goto
  <2>3. QED
    BY <2>1, <2>2 DEF IInv, TypeOK, ReadError, Goto, CanRead, upgrade, peers, sockets
<1>3. \A t \in Sides : Ordered(t)'
  BY DEF IInv, Side, TypeOK, Ordered, ReadError, Goto, CanRead, upgrade, peers, sockets
<1>4. \A t \in Sides : Beginning(t)'
  BY DEF IInv, Side, TypeOK, Beginning, ReadError, Goto, CanRead, upgrade, peers, sockets
<1>5. \A t \in Sides : Complete(t)'
  BY CompleteStays DEF IInv, Side, TypeOK, Forwarder, ReadError, Goto, CanRead, upgrade, peers, sockets
<1>6. \A t \in Sides : Forwarder(t)'
  BY DEF IInv, Side, TypeOK, Forwarder, ReadError, Goto, CanRead, upgrade, peers, sockets
<1>7. \A t \in Sides : Closing(t)'
  BY DEF IInv, Side, TypeOK, Ordered, Forwarder, Closing, Owed, Told, Met, ReadError, Goto, CanRead, upgrade, peers, sockets
<1>8. QED
  BY <1>1, <1>3, <1>4, <1>5, <1>6, <1>7 DEF IInv, Side

LEMMA AnswerCloseKeeps ==
  ASSUME IInv, NEW s \in Sides, AnswerClose(s)
  PROVE  IInv'
<1> USE TwoSides, Marks
<1>1. TypeOK'
  BY DEF IInv, TypeOK, AnswerClose, Goto, upgrade, peers, sockets
<1>3. \A t \in Sides : Ordered(t)'
  BY DEF IInv, Side, TypeOK, Ordered, AnswerClose, Goto, upgrade, peers, sockets
<1>4. \A t \in Sides : Beginning(t)'
  BY DEF IInv, Side, TypeOK, Beginning, AnswerClose, Goto, upgrade, peers, sockets
<1>5. \A t \in Sides : Complete(t)'
  BY CompleteStays DEF IInv, Side, TypeOK, Forwarder, AnswerClose, Goto, upgrade, peers, sockets
<1>6. \A t \in Sides : Forwarder(t)'
  BY DEF IInv, Side, TypeOK, Forwarder, AnswerClose, Goto, upgrade, peers, sockets
<1>7. \A t \in Sides : Closing(t)'
  BY DEF IInv, Side, TypeOK, Ordered, Forwarder, Closing, Owed, Told, Met, AnswerClose, Goto, upgrade, peers, sockets
<1>8. QED
  BY <1>1, <1>3, <1>4, <1>5, <1>6, <1>7 DEF IInv, Side

LEMMA ReadNoneKeeps ==
  ASSUME IInv, NEW s \in Sides, ReadNone(s)
  PROVE  IInv'
<1> USE TwoSides, Marks
<1>1. TypeOK'
  BY DEF IInv, TypeOK, ReadNone, Goto, upgrade, peers, sockets
<1>3. \A t \in Sides : Ordered(t)'
  BY DEF IInv, Side, TypeOK, Ordered, ReadNone, Goto, upgrade, peers, sockets
<1>4. \A t \in Sides : Beginning(t)'
  BY DEF IInv, Side, TypeOK, Beginning, ReadNone, Goto, upgrade, peers, sockets
<1>5. \A t \in Sides : Complete(t)'
  BY CompleteStays DEF IInv, Side, TypeOK, Forwarder, ReadNone, Goto, upgrade, peers, sockets
<1>6. \A t \in Sides : Forwarder(t)'
  BY DEF IInv, Side, TypeOK, Forwarder, ReadNone, Goto, upgrade, peers, sockets
<1>7. \A t \in Sides : Closing(t)'
  <2>1. Closing(s) /\ Forwarder(s) /\ held[s] = NONE
    BY DEF IInv, Side, Forwarder, ReadNone
  <2>2. UNCHANGED <<peer, told>>
    BY DEF ReadNone, Goto, peers
  <2>3. /\ \/ state[s] \in {"terminated", "acknowledged"}
           \/ state[s] = "closed_by_peer" /\ peer[s] = "gone"
        /\ state'[s] = "terminated" /\ fwd'[s] = "done" /\ held'[s] = NONE
        /\ \A t \in Sides : t # s => state'[t] = state[t]
    BY DEF IInv, TypeOK, ReadNone, Goto
  <2>4. Told(s) /\ Met(Other(s))
    BY <2>1, <2>3 DEF Closing, Told, Owed
  <2>5. Closing(s)'
    BY <2>1, <2>2, <2>3, <2>4 DEF Closing, Told, Met
  <2>6. ASSUME NEW t \in Sides, t # s PROVE Closing(t)'
    <3>1. Closing(t)
      BY DEF IInv, Side
    <3>2. state'[t] = state[t] /\ fwd'[t] = fwd[t] /\ held'[t] = held[t]
      BY <2>6 DEF IInv, TypeOK, ReadNone, Goto
    <3>3. QED
      BY <2>2, <2>4, <2>6, <3>1, <3>2 DEF Closing, Told, Met, Owed
  <2>7. QED
    BY <2>5, <2>6
<1>8. QED
  BY <1>1, <1>3, <1>4, <1>5, <1>6, <1>7 DEF IInv, Side

LEMMA SendMessageKeeps ==
  ASSUME IInv, NEW s \in Sides, SendMessage(s)
  PROVE  IInv'
<1> USE TwoSides, Marks
<1>1. TypeOK'
  <2>1. held[s] \in Messages /\ got[Other(s)] \in Seq(Messages)
    BY DEF IInv, Side, TypeOK, Forwarder, SendMessage
  <2>2. Append(got[Other(s)], held[s]) \in Seq(Messages)
    BY <2>1
  <2>3. got \in [Sides -> Seq(Messages)]
    BY DEF IInv, TypeOK
  <2>4. got' \in [Sides -> Seq(Messages)]
    BY <2>2, <2>3 DEF SendMessage
  <2>5. fwd' \in [Sides -> {"none", "next", "send", "fail", "done"}] /\ held' \in [Sides -> Messages \cup {CLOSE, NONE}]
    BY DEF IInv, TypeOK, SendMessage, Goto
  <2>6. UNCHANGED <<phase, answer, peer, reads, sent, wire, state, told>>
    BY DEF SendMessage, Goto, upgrade, peers
  <2>7. QED
    BY <2>4, <2>5, <2>6 DEF IInv, TypeOK
<1>3. \A t \in Sides : Ordered(t)'
  BY DEF IInv, Side, TypeOK, Ordered, SendMessage, Goto, upgrade, peers, sockets
<1>4. \A t \in Sides : Beginning(t)'
  <2>0. SUFFICES ASSUME NEW t \in Sides PROVE Beginning(t)'
    OBVIOUS
  <2>1. held[s] \in Messages /\ got[Other(s)] \in Seq(Messages)
    BY DEF IInv, Side, TypeOK, Forwarder, SendMessage
  <2>2. Beginning(s) /\ Complete(s) /\ Ordered(s) /\ sent' = sent /\ sent[s] \in 0 .. MaxSent
    BY DEF IInv, Side, TypeOK, SendMessage, Goto, upgrade, peers, sockets
  <2>3. PICK n \in 0 .. sent[s] : got[Other(s)] = First(n)
    BY <2>2 DEF Beginning
  <2>4. Len(got[Other(s)]) = n /\ n \in Nat
    BY <2>2, <2>3, FirstIsSeq, MaxSentAssumption
  <2>5. CASE t # s \/ got' = got
    <3>1. got'[Other(t)] = got[Other(t)]
      BY <2>5 DEF IInv, TypeOK, SendMessage
    <3>2. QED
      BY <2>0, <2>2, <3>1 DEF IInv, Side, Beginning
  <2>6. CASE t = s /\ got' # got
    <3>1. state[Other(s)] = "active" /\ peer[Other(s)] # "gone" /\ got'[Other(s)] = Append(got[Other(s)], held[s])
      BY <2>6 DEF IInv, TypeOK, SendMessage
    <3>2. held[s] = n + 1 /\ held[s] <= sent[s]
      BY <2>1, <2>2, <2>4, <3>1 DEF Complete, Ordered
    <3>3. n + 1 \in 0 .. sent[s] /\ n + 1 <= MaxSent
      BY <2>2, <2>4, <3>2, MaxSentAssumption
    <3>4. got'[Other(s)] = First(n + 1)
      BY <2>3, <2>4, <3>1, <3>2, <3>3, FirstGrows
    <3>5. QED
      BY <2>2, <2>6, <3>3, <3>4 DEF Beginning
  <2>7. QED
    BY <2>5, <2>6
<1>5. \A t \in Sides : Complete(t)'
  <2>0. SUFFICES ASSUME NEW t \in Sides PROVE Complete(t)'
    OBVIOUS
  <2>1. held[s] \in Messages /\ got[Other(s)] \in Seq(Messages)
    BY DEF IInv, Side, TypeOK, Forwarder, SendMessage
  <2>2. Complete(t) /\ Complete(s)
    BY <2>0 DEF IInv, Side
  <2>3. CASE t # s
    BY <2>2, <2>3, CompleteStays DEF IInv, TypeOK, SendMessage, Goto, upgrade, peers, sockets
  <2>4. CASE t = s
    <3>1. SUFFICES ASSUME state[Other(s)] = "active", peer[Other(s)] # "gone" PROVE Complete(s)'
      BY <2>4 DEF IInv, TypeOK, Complete, SendMessage, Goto, upgrade, peers, sockets
    <3>2. got'[Other(s)] = Append(got[Other(s)], held[s]) /\ held'[s] = NONE
      BY <3>1 DEF IInv, TypeOK, SendMessage, Goto
    <3>3. Read(s) = Len(got[Other(s)]) + 1
      BY <2>1, ReadIsNat DEF IInv
    <3>4. Len(got'[Other(s)]) = Len(got[Other(s)]) + 1 /\ Len(got'[Other(s)]) \in Nat
      BY <2>1, <3>2
    <3>5. Read(s)' = Len(got'[Other(s)]) + 0
      BY <3>2 DEF Read
    <3>6. Read(s)' = Read(s) /\ held'[s] \notin Messages
      BY <3>2, <3>3, <3>4, <3>5
    <3>7. QED
      BY <2>2, <3>1, <3>6 DEF Complete, SendMessage, Goto, upgrade, peers, sockets
  <2>5. QED
    BY <2>3, <2>4
<1>6. \A t \in Sides : Forwarder(t)'
  BY DEF IInv, Side, TypeOK, Forwarder, SendMessage, Goto, upgrade, peers, sockets
<1>7. \A t \in Sides : Closing(t)'
  BY DEF IInv, Side, TypeOK, Ordered, Forwarder, Closing, Owed, Told, Met, SendMessage, Goto, upgrade, peers, sockets
<1>8. QED
  BY <1>1, <1>3, <1>4, <1>5, <1>6, <1>7 DEF IInv, Side

\* What sending a Close changes: one socket, if it is active.
LEMMA ClosingChanges ==
  ASSUME TypeOK, NEW d \in Sides, SendClose(d)
  PROVE  /\ wire' = wire /\ got' = got
         /\ state' \in [Sides -> {"active", "closed_by_us", "closed_by_peer", "acknowledged", "terminated"}]
         /\ told' \in [Sides -> BOOLEAN]
         /\ \A t \in Sides : state'[t] = "active" => state[t] = "active"
         /\ \A t \in Sides : told'[t] # told[t] => state'[t] # "active"
<1>1. CASE state[d] = "active"
  <2>1. /\ state' = [state EXCEPT ![d] = "closed_by_us"] /\ told' = [told EXCEPT ![d] = TRUE]
        /\ wire' = wire /\ got' = got
    BY <1>1 DEF SendClose
  <2>2. /\ state' \in [Sides -> {"active", "closed_by_us", "closed_by_peer", "acknowledged", "terminated"}]
        /\ told' \in [Sides -> BOOLEAN]
    BY <2>1 DEF TypeOK
  <2>3. ASSUME NEW t \in Sides
        PROVE  /\ state'[t] = "active" => state[t] = "active"
               /\ told'[t] # told[t] => state'[t] # "active"
    BY <2>1 DEF TypeOK
  <2>4. QED
    BY <2>1, <2>2, <2>3
<1>2. CASE state[d] # "active"
  <2>1. UNCHANGED <<state, told, wire, got>>
    BY <1>2 DEF SendClose
  <2>2. QED
    BY <2>1 DEF TypeOK
<1>3. QED
  BY <1>1, <1>2

\* The other side is told of a Close, or of an error.
LEMMA ClosingSpreads ==
  ASSUME IInv, NEW s \in Sides, held[s] = CLOSE, SendClose(Other(s)), peer' = peer,
         held'[s] = NONE, fwd'[s] = "next" \/ (fwd[s] = "fail" /\ fwd'[s] = "done"),
         held'[Other(s)] = held[Other(s)], fwd'[Other(s)] = fwd[Other(s)]
  PROVE  \A t \in Sides : Closing(t)'
<1> DEFINE d == Other(s)
<1>1. d \in Sides /\ d # s /\ Other(d) = s /\ \A t \in Sides : t \in {s, d}
  BY TwoSides
<1>2. Closing(s) /\ Closing(d)
  BY <1>1 DEF IInv, Side
<1>3. /\ told'[s] = told[s] /\ state'[s] = state[s]
      /\ \/ state[d] = "active" /\ state'[d] = "closed_by_us" /\ told'[d] = TRUE
         \/ state[d] # "active" /\ state'[d] = state[d] /\ told'[d] = told[d]
  BY <1>1 DEF IInv, TypeOK, SendClose
<1>4. state[d] \in {"active", "closed_by_us", "closed_by_peer", "acknowledged", "terminated"}
  BY <1>1 DEF IInv, TypeOK
<1>5. Met(d)' /\ peer[s] # "open"
  BY <1>2, <1>3, <1>4 DEF Closing, Told, Met
<1>6. Closing(s)'
  <2>1. held'[s] # CLOSE
    BY Marks
  <2>2. state[s] = "closed_by_peer" => fwd'[s] # "done"
    BY <1>2 DEF Closing
  <2>3. QED
    BY <1>1, <1>2, <1>3, <1>5, <2>1, <2>2 DEF Closing, Told
<1>7. Closing(d)'
  <2>1. Owed(d)' = Owed(d) /\ Met(s)' = Met(s)
    BY <1>3 DEF Owed, Told, Met
  <2>2. QED
    BY <1>1, <1>2, <1>3, <1>4, <1>5, <2>1 DEF Closing, Told
<1>8. QED
  BY <1>1, <1>6, <1>7

LEMMA PassCloseKeeps ==
  ASSUME IInv, NEW s \in Sides, PassClose(s)
  PROVE  IInv'
<1> USE TwoSides, Marks
<1>0. TypeOK /\ SendClose(Other(s)) /\ UNCHANGED <<upgrade, peers>>
  BY DEF IInv, PassClose, Goto
<1>1. TypeOK'
  <2>1. fwd' \in [Sides -> {"none", "next", "send", "fail", "done"}] /\ held' \in [Sides -> Messages \cup {CLOSE, NONE}]
    BY <1>0 DEF TypeOK, PassClose, Goto
  <2>2. /\ state' \in [Sides -> {"active", "closed_by_us", "closed_by_peer", "acknowledged", "terminated"}]
        /\ told' \in [Sides -> BOOLEAN] /\ UNCHANGED <<wire, got, phase, answer, peer, reads, sent>>
    BY <1>0, ClosingChanges DEF upgrade, peers
  <2>3. QED
    BY <1>0, <2>1, <2>2 DEF TypeOK
<1>3. \A t \in Sides : Ordered(t)'
  <2>1. SUFFICES ASSUME NEW t \in Sides PROVE Ordered(t)'
    OBVIOUS
  <2>2. Ordered(t) /\ UNCHANGED <<wire, sent, peer>>
    BY <1>0, <2>1, ClosingChanges DEF IInv, Side, peers
  <2>3. held'[t] = held[t] \/ held'[t] \notin Messages
    BY <1>0, <2>1 DEF TypeOK, PassClose, Goto
  <2>4. QED
    BY <2>2, <2>3 DEF Ordered
<1>4. \A t \in Sides : Beginning(t)'
  BY <1>0, ClosingChanges DEF IInv, Side, Beginning, peers
<1>5. \A t \in Sides : Complete(t)'
  <2>1. SUFFICES ASSUME NEW t \in Sides PROVE Complete(t)'
    OBVIOUS
  <2>2. Complete(t) /\ Forwarder(s)
    BY <2>1 DEF IInv, Side
  <2>3. held'[t] = held[t] \/ (held[t] \notin Messages /\ held'[t] \notin Messages)
    BY <1>0, <2>2 DEF TypeOK, Forwarder, PassClose, Goto
  <2>4. state'[Other(t)] = "active" => state[Other(t)] = "active"
    BY <1>0, ClosingChanges
  <2>5. QED
    BY <1>0, <2>2, <2>3, <2>4, ClosingChanges, CompleteStays DEF peers
<1>6. \A t \in Sides : Forwarder(t)'
  <2>1. phase' = phase /\ fwd[s] # "none" /\ Forwarder(s)
    BY <1>0 DEF IInv, Side, PassClose, upgrade
  <2>2. phase \notin {"request", "dialled", "answered"}
    BY <2>1 DEF Forwarder
  <2>3. QED
    BY <1>0, <2>1, <2>2 DEF IInv, Side, TypeOK, Forwarder, PassClose, Goto
<1>7. \A t \in Sides : Closing(t)'
  <2>1. held[s] = CLOSE
    BY DEF IInv, Side, Forwarder, PassClose
  <2>2. /\ held'[s] = NONE /\ held'[Other(s)] = held[Other(s)] /\ fwd'[Other(s)] = fwd[Other(s)]
        /\ fwd'[s] = "next" \/ (fwd[s] = "fail" /\ fwd'[s] = "done")
    BY <1>0 DEF TypeOK, PassClose, Goto
  <2>3. QED
    BY <1>0, <2>1, <2>2, ClosingSpreads DEF peers
<1>8. QED
  BY <1>1, <1>3, <1>4, <1>5, <1>6, <1>7 DEF IInv, Side

LEMMA PassErrorKeeps ==
  ASSUME IInv, NEW s \in Sides, PassError(s)
  PROVE  IInv'
<1> USE TwoSides, Marks
<1>0. TypeOK /\ SendClose(Other(s)) /\ UNCHANGED <<upgrade, peers>>
  BY DEF IInv, PassError, Goto
<1>1. TypeOK'
  <2>1. fwd' \in [Sides -> {"none", "next", "send", "fail", "done"}] /\ held' \in [Sides -> Messages \cup {CLOSE, NONE}]
    BY <1>0 DEF TypeOK, PassError, Goto
  <2>2. /\ state' \in [Sides -> {"active", "closed_by_us", "closed_by_peer", "acknowledged", "terminated"}]
        /\ told' \in [Sides -> BOOLEAN] /\ UNCHANGED <<wire, got, phase, answer, peer, reads, sent>>
    BY <1>0, ClosingChanges DEF upgrade, peers
  <2>3. QED
    BY <1>0, <2>1, <2>2 DEF TypeOK
<1>3. \A t \in Sides : Ordered(t)'
  <2>1. SUFFICES ASSUME NEW t \in Sides PROVE Ordered(t)'
    OBVIOUS
  <2>2. Ordered(t) /\ UNCHANGED <<wire, sent, peer>>
    BY <1>0, <2>1, ClosingChanges DEF IInv, Side, peers
  <2>3. held'[t] = held[t] \/ held'[t] \notin Messages
    BY <1>0, <2>1 DEF TypeOK, PassError, Goto
  <2>4. QED
    BY <2>2, <2>3 DEF Ordered
<1>4. \A t \in Sides : Beginning(t)'
  BY <1>0, ClosingChanges DEF IInv, Side, Beginning, peers
<1>5. \A t \in Sides : Complete(t)'
  <2>1. SUFFICES ASSUME NEW t \in Sides PROVE Complete(t)'
    OBVIOUS
  <2>2. Complete(t) /\ Forwarder(s)
    BY <2>1 DEF IInv, Side
  <2>3. held'[t] = held[t] \/ (held[t] \notin Messages /\ held'[t] \notin Messages)
    BY <1>0, <2>2 DEF TypeOK, Forwarder, PassError, Goto
  <2>4. state'[Other(t)] = "active" => state[Other(t)] = "active"
    BY <1>0, ClosingChanges
  <2>5. QED
    BY <1>0, <2>2, <2>3, <2>4, ClosingChanges, CompleteStays DEF peers
<1>6. \A t \in Sides : Forwarder(t)'
  <2>1. phase' = phase /\ fwd[s] # "none" /\ Forwarder(s)
    BY <1>0 DEF IInv, Side, PassError, upgrade
  <2>2. phase \notin {"request", "dialled", "answered"}
    BY <2>1 DEF Forwarder
  <2>3. QED
    BY <1>0, <2>1, <2>2 DEF IInv, Side, TypeOK, Forwarder, PassError, Goto
<1>7. \A t \in Sides : Closing(t)'
  <2>1. held[s] = CLOSE
    BY DEF IInv, Side, Forwarder, PassError
  <2>2. /\ held'[s] = NONE /\ held'[Other(s)] = held[Other(s)] /\ fwd'[Other(s)] = fwd[Other(s)]
        /\ fwd'[s] = "next" \/ (fwd[s] = "fail" /\ fwd'[s] = "done")
    BY <1>0 DEF TypeOK, PassError, Goto
  <2>3. QED
    BY <1>0, <2>1, <2>2, ClosingSpreads DEF peers
<1>8. QED
  BY <1>1, <1>3, <1>4, <1>5, <1>6, <1>7 DEF IInv, Side

-----------------------------------------------------------------------------
(* The upgrade                                                             *)

EarlyPhases == {"request", "dialled", "answered"}

LEMMA SideStays ==
  ASSUME NEW t \in Sides, Side(t), UNCHANGED <<peer, sent, wire, state, told, got, fwd, held>>,
         phase' \in EarlyPhases => phase \in EarlyPhases
  PROVE  Side(t)'
<1>1. Ordered(t)' /\ Beginning(t)'
  BY DEF Side, Ordered, Beginning
<1>2. Complete(t)'
  BY CompleteStays DEF Side
<1>3. Forwarder(t)' /\ Closing(t)'
  BY DEF Side, Forwarder, Closing, Owed, Told, Met, EarlyPhases
<1>4. QED
  BY <1>1, <1>2, <1>3 DEF Side

LEMMA ConnectKeeps ==
  ASSUME IInv, ConnectWebsocket
  PROVE  IInv'
<1>1. TypeOK'
  BY DEF IInv, TypeOK, ConnectWebsocket, Refuse, peers, sockets
<1>2. \A t \in Sides : Side(t)'
  BY SideStays DEF IInv, ConnectWebsocket, Refuse, peers, sockets, EarlyPhases
<1>3. QED
  BY <1>1, <1>2 DEF IInv

LEMMA AnswerKeeps ==
  ASSUME IInv, AnswerUpgrade
  PROVE  IInv'
<1>1. TypeOK'
  BY DEF IInv, TypeOK, AnswerUpgrade, Refuse, peers, sockets
<1>2. \A t \in Sides : Side(t)'
  BY SideStays DEF IInv, AnswerUpgrade, Refuse, peers, sockets, EarlyPhases
<1>3. QED
  BY <1>1, <1>2 DEF IInv

LEMMA SpawnKeeps ==
  ASSUME IInv, SpawnForwarders
  PROVE  IInv'
<1>1. TypeOK'
  BY DEF IInv, TypeOK, SpawnForwarders, peers, sockets
<1>3. \A t \in Sides : Ordered(t)' /\ Beginning(t)' /\ Complete(t)'
  BY CompleteStays DEF IInv, Side, Ordered, Beginning, SpawnForwarders, peers, sockets
<1>4. \A t \in Sides : state[t] = "active" /\ ~ told[t] /\ held[t] = NONE /\ fwd[t] = "none"
  BY DEF IInv, Side, Forwarder, SpawnForwarders
<1>5. \A t \in Sides : Forwarder(t)'
  BY <1>4 DEF Forwarder, SpawnForwarders, sockets
<1>6. \A t \in Sides : Closing(t)'
  BY <1>4, Marks DEF Closing, SpawnForwarders, sockets
<1>7. QED
  BY <1>1, <1>3, <1>5, <1>6 DEF IInv, Side

-----------------------------------------------------------------------------
(* The theorems                                                            *)

LEMMA InitIInv == Init => IInv
<1> SUFFICES ASSUME Init PROVE IInv
  OBVIOUS
<1>1. TypeOK
  <2>1. <<>> \in Seq(Messages \cup {CLOSE, BAD}) /\ <<>> \in Seq(Messages)
    OBVIOUS
  <2>2. wire \in [Sides -> Seq(Messages \cup {CLOSE, BAD})] /\ got \in [Sides -> Seq(Messages)]
    BY <2>1 DEF Init
  <2>3. sent \in [Sides -> 0 .. MaxSent]
    BY MaxSentAssumption DEF Init
  <2>4. QED
    BY <2>2, <2>3 DEF Init, TypeOK
<1>3. ASSUME NEW t \in Sides PROVE Side(t)
  <2>1. Other(t) \in Sides
    BY TwoSides
  <2>2. Len(wire[t]) = 0 /\ Len(got[Other(t)]) = 0 /\ held[t] \notin Messages /\ held[t] # CLOSE /\ sent[t] = 0
    BY <2>1, Marks DEF Init
  <2>3. Ordered(t)
    BY <2>2 DEF Ordered
  <2>4. Beginning(t)
    <3>1. got[Other(t)] = First(0)
      BY <2>1 DEF Init, First
    <3>2. QED
      BY <2>2, <3>1 DEF Beginning
  <2>5. Read(t) = 0
    BY <2>2 DEF Read
  <2>6. Complete(t)
    BY <2>2, <2>5 DEF Complete
  <2>7. Forwarder(t) /\ Closing(t)
    BY <2>2 DEF Init, Forwarder, Closing
  <2>8. QED
    BY <2>3, <2>4, <2>6, <2>7 DEF Side
<1>4. QED
  BY <1>1, <1>3 DEF IInv

LEMMA NextKeeps == IInv /\ [Next]_vars => IInv'
<1> SUFFICES ASSUME IInv, [Next]_vars PROVE IInv'
  OBVIOUS
<1>1. CASE Upgrading
  BY <1>1, ConnectKeeps, AnswerKeeps, SpawnKeeps DEF Upgrading
<1>2. ASSUME NEW s \in Sides, Forward(s) PROVE IInv'
  BY <1>2, ReadMessageKeeps, ReadErrorKeeps, AnswerCloseKeeps, ReadNoneKeeps, SendMessageKeeps,
     PassCloseKeeps, PassErrorKeeps DEF Forward
<1>3. ASSUME NEW s \in Sides, Peer(s) PROVE IInv'
  BY <1>3, PeerSendsKeeps, PeerClosesKeeps, PeerErrsKeeps, PeerLeavesKeeps, PeerStopsReadingKeeps DEF Peer
<1>4. CASE UNCHANGED vars
  <2>1. TypeOK'
    BY <1>4 DEF vars, upgrade, peers, sockets, IInv, TypeOK
  <2>2. \A s \in Sides : Side(s)'
    BY <1>4, SideStays DEF vars, upgrade, peers, sockets, IInv
  <2>3. QED
    BY <2>1, <2>2 DEF IInv
<1>5. QED
  BY <1>1, <1>2, <1>3, <1>4 DEF Next

LEMMA Always == Spec => []IInv
BY InitIInv, NextKeeps, PTL DEF Spec

\* Every variable has its type.
THEOREM TypeCorrect == Spec => []TypeOK
<1>1. IInv => TypeOK
  BY DEF IInv
<1>2. QED
  BY <1>1, Always, PTL

LEMMA OneBehind ==
  ASSUME NEW q \in Seq(Frames), NEW f \in Frames
  PROVE  /\ q \o <<f>> \in Seq(Frames) /\ Len(q \o <<f>>) = Len(q) + 1
         /\ \A n \in 1 .. Len(q) + 1 : (q \o <<f>>)[n] = IF n <= Len(q) THEN q[n] ELSE f
OBVIOUS

LEMMA Behind ==
  ASSUME NEW p \in Seq(Frames), NEW q \in Seq(Frames)
  PROVE  /\ Len(p \o q) = Len(p) + Len(q)
         /\ \A n \in 1 .. Len(p) : (p \o q)[n] = p[n]
         /\ \A n \in Len(p) + 1 .. Len(p) + Len(q) : (p \o q)[n] = q[n - Len(p)]
OBVIOUS

\* What reaches a peer is a beginning of what the other sent, whatever fails
\* (lib.rs:157-191: the loop goes on after a failed send).
THEOREM NothingIsSkipped == Spec => []NothingSkipped
<1>1. IInv => NothingSkipped
  BY DEF IInv, Side, Beginning, NothingSkipped
<1>2. QED
  BY <1>1, Always, PTL

\* While both connections stand nothing a peer sent is missing, doubled or out of order.
THEOREM NothingIsLost == Spec => []NothingLost
<1>1. IInv => NothingLost
  <2>1. SUFFICES ASSUME IInv, NEW s \in Sides, state[Other(s)] = "active",
                        peer[Other(s)] # "gone", peer[s] # "gone"
                 PROVE  /\ sent[s] <= Len(Passage(s))
                        /\ \A n \in 1 .. Len(Passage(s)) :
                             IF n <= sent[s] THEN Passage(s)[n] = n ELSE Passage(s)[n] \notin Messages
    BY DEF NothingLost
  <2> DEFINE front == got[Other(s)]
             hand  == IF held[s] \in Messages THEN <<held[s]>> ELSE <<>>
             k     == Read(s)
             l     == Len(wire[s])
  <2>2. front \in Seq(Messages) /\ wire[s] \in Seq(Frames) /\ sent[s] \in 0 .. MaxSent
    BY <2>1, TwoSides DEF IInv, TypeOK, Frames
  <2>3. Complete(s) /\ Ordered(s) /\ Beginning(s) /\ TypeOK
    BY <2>1 DEF IInv, Side
  <2>4. PICK m \in 0 .. sent[s] : front = First(m)
    BY <2>3 DEF Beginning
  <2>5. Len(front) = m /\ m \in Nat /\ l \in Nat /\ \A n \in 1 .. m : front[n] = n
    <3>1. m \in Nat /\ m <= MaxSent
      BY <2>2, MaxSentAssumption
    <3>2. QED
      BY <2>2, <2>4, <3>1, FirstIsSeq DEF First
  <2>6. /\ front \o hand \in Seq(Frames) /\ Len(front \o hand) = k /\ k \in Nat
        /\ \A n \in 1 .. k : (front \o hand)[n] = n
    <3>1. CASE held[s] \in Messages
      <4>1. hand = <<held[s]>>
        BY <3>1
      <4>2. k = m + 1 /\ held[s] = m + 1
        BY <2>1, <2>3, <2>5, <3>1, ReadIsNat DEF Complete
      <4>3. front \in Seq(Frames) /\ held[s] \in Frames
        BY <2>2, <3>1 DEF Frames
      <4>4. /\ front \o <<held[s]>> \in Seq(Frames) /\ Len(front \o <<held[s]>>) = m + 1
            /\ \A n \in 1 .. m + 1 : (front \o <<held[s]>>)[n] = IF n <= m THEN front[n] ELSE held[s]
        BY <2>5, <4>3, OneBehind
      <4>5. \A n \in 1 .. m + 1 : (front \o <<held[s]>>)[n] = n
        BY <2>5, <4>2, <4>4
      <4> HIDE DEF front, hand, k
      <4>6. front \o hand = front \o <<held[s]>>
        BY <4>1
      <4>7. QED
        BY <2>5, <4>2, <4>4, <4>5, <4>6
    <3>2. CASE held[s] \notin Messages
      <4>1. hand = <<>>
        BY <3>2
      <4>2. k = m
        BY <2>3, <2>5, <3>2, ReadIsNat
      <4>3. front \o <<>> = front /\ front \in Seq(Frames)
        BY <2>2 DEF Frames
      <4>4. QED
        BY <2>5, <4>1, <4>2, <4>3
    <3>3. QED
      BY <3>1, <3>2
  <2>7. /\ Len(Passage(s)) = k + l
        /\ \A n \in 1 .. k : Passage(s)[n] = (front \o hand)[n]
        /\ \A n \in k + 1 .. k + l : Passage(s)[n] = wire[s][n - k]
    <3>1. Passage(s) = (front \o hand) \o wire[s]
      BY DEF Passage
    <3> DEFINE before == front \o hand
    <3>2. before \in Seq(Frames) /\ Len(before) = k /\ Passage(s) = before \o wire[s]
      BY <2>6, <3>1
    <3> HIDE DEF before
    <3>3. /\ Len(before \o wire[s]) = Len(before) + Len(wire[s])
          /\ \A n \in 1 .. Len(before) : (before \o wire[s])[n] = before[n]
          /\ \A n \in Len(before) + 1 .. Len(before) + Len(wire[s]) :
               (before \o wire[s])[n] = wire[s][n - Len(before)]
      BY <2>2, <3>2, Behind
    <3> HIDE DEF k
    <3>4. /\ Len(Passage(s)) = k + l
          /\ \A n \in 1 .. k : Passage(s)[n] = before[n]
          /\ \A n \in k + 1 .. k + l : Passage(s)[n] = wire[s][n - k]
      BY <3>2, <3>3
    <3>5. QED
      BY <3>4 DEF before
  <2>8. /\ k <= sent[s] /\ sent[s] - k <= l
        /\ \A i \in 1 .. sent[s] - k : wire[s][i] \in Messages
        /\ \A i \in 1 .. l : wire[s][i] \in Messages => wire[s][i] = k + i
    BY <2>1, <2>3 DEF Complete
  <2>9. \A i \in 1 .. l : wire[s][i] \in Messages => wire[s][i] <= sent[s]
    BY <2>3 DEF Ordered
  <2> HIDE DEF k, l
  <2>10. ASSUME NEW n \in 1 .. k + l
         PROVE  IF n <= sent[s] THEN Passage(s)[n] = n ELSE Passage(s)[n] \notin Messages
    <3>1. CASE n <= k
      <4>1. n \in 1 .. k
        BY <2>6, <2>10, <3>1
      <4>2. Passage(s)[n] = n
        BY <2>6, <2>7, <4>1
      <4>3. n <= sent[s]
        BY <2>2, <2>6, <2>8, <4>1
      <4>4. QED
        BY <4>2, <4>3
    <3>2. CASE n > k
      <4>1. n - k \in 1 .. l /\ n \in k + 1 .. k + l /\ k + (n - k) = n
        BY <2>5, <2>6, <2>10, <3>2
      <4>2. Passage(s)[n] = wire[s][n - k]
        BY <2>7, <4>1
      <4>3. Passage(s)[n] \in Messages => Passage(s)[n] = n /\ n <= sent[s]
        BY <2>8, <2>9, <4>1, <4>2
      <4>4. ASSUME n <= sent[s] PROVE Passage(s)[n] \in Messages
        <5>1. n - k \in 1 .. sent[s] - k
          BY <2>2, <2>6, <4>1, <4>4
        <5>2. QED
          BY <2>8, <4>2, <5>1
      <4>5. QED
        BY <4>3, <4>4
    <3>3. QED
      BY <2>6, <2>10, <3>1, <3>2
  <2>11. sent[s] <= k + l
    BY <2>2, <2>5, <2>6, <2>8
  <2>12. QED
    BY <2>7, <2>10, <2>11
<1>2. QED
  BY <1>1, Always, PTL

\* No forwarder ends without the other side having been told, or gone, or still to be told
\* by the answer to its own Close, and nobody is told of an end while both are there
\* (lib.rs:177-186).  A Close that is refused, because the socket is closing already, is
\* no reason to count its side as told.
THEOREM NoEndIsKept == Spec => []EndsAreShared
<1>1. IInv => EndsAreShared
  BY TwoSides DEF IInv, Side, Closing, Told, Met, AnswerDue, EndsAreShared
<1>2. QED
  BY <1>1, Always, PTL

-----------------------------------------------------------------------------
(* The relay is a conversation                                             *)

\* Whoever has been told of the end has a socket that takes no more messages.
NoneAfter == \A s \in Sides : told[s] => state[s] # "active"

LEMMA NoneAfterKept == TypeOK /\ NoneAfter /\ [Next]_vars => NoneAfter'
<1>1. SUFFICES ASSUME TypeOK, NoneAfter, [Next]_vars PROVE NoneAfter'
  OBVIOUS
<1>2. CASE UNCHANGED <<state, told>>
  BY <1>1, <1>2 DEF NoneAfter
<1>3. CASE Upgrading \/ (\E s \in Sides : Peer(s)) \/ UNCHANGED vars
  <2>1. UNCHANGED <<state, told>>
    BY <1>3 DEF Upgrading, ConnectWebsocket, AnswerUpgrade, SpawnForwarders, Peer, PeerSends,
                PeerErrs, PeerCloses, PeerLeaves, PeerStopsReading, sockets, vars
  <2>2. QED
    BY <1>2, <2>1
<1>4. ASSUME NEW s \in Sides, Forward(s) PROVE NoneAfter'
  <2>1. CASE ReadMessage(s)
    BY <1>1, <2>1 DEF TypeOK, NoneAfter, ReadMessage
  <2>2. CASE ReadError(s)
    BY <1>1, <2>2 DEF TypeOK, NoneAfter, ReadError
  <2>3. CASE AnswerClose(s)
    BY <1>1, <2>3 DEF TypeOK, NoneAfter, AnswerClose
  <2>4. CASE ReadNone(s)
    BY <1>1, <2>4 DEF TypeOK, NoneAfter, ReadNone
  <2>5. CASE SendMessage(s)
    BY <1>2, <2>5 DEF SendMessage
  <2>6. CASE PassClose(s) \/ PassError(s)
    <3>1. Other(s) \in Sides /\ SendClose(Other(s))
      BY <1>4, <2>6, TwoSides DEF PassClose, PassError
    <3>2. QED
      BY <1>1, <3>1, ClosingChanges DEF TypeOK, NoneAfter
  <2>7. QED
    BY <1>4, <2>1, <2>2, <2>3, <2>4, <2>5, <2>6 DEF Forward
<1>5. QED
  BY <1>1, <1>3, <1>4 DEF Next

Left == {s \in Sides : peer[s] # "open"}

LEMMA TalkInit == Init => Talk!Init
BY DEF Init, Talk!Init, Sides, Talk!Sides

LEMMA TalkSides ==
  Talk!Sides = Sides /\ \A s : Talk!Other(s) = Other(s)
BY DEF Talk!Sides, Sides, Talk!Other, Other

\* A peer that sends is one that is there.
LEMMA PeerTalks ==
  ASSUME IInv, NEW s \in Sides, Peer(s)
  PROVE  [Talk!Next]_Talk!vars
<1>1. TypeOK
  BY DEF IInv
<1>2. CASE PeerSends(s)
  <2>1. Talk!Send(s)
    BY <1>2 DEF PeerSends, Talk!Send
  <2>2. QED
    BY <2>1, TalkSides DEF Talk!Next
<1>3. CASE PeerCloses(s) \/ PeerErrs(s) \/ PeerLeaves(s)
  <2>1. /\ UNCHANGED <<sent, got, told>>
        /\ peer'[s] # "open" /\ \A d \in Sides \ {s} : peer'[d] = peer[d]
    <3>1. CASE PeerCloses(s)
      BY <1>1, <3>1 DEF TypeOK, PeerCloses
    <3>2. CASE PeerErrs(s)
      BY <1>1, <3>2 DEF TypeOK, PeerErrs
    <3>3. CASE PeerLeaves(s)
      BY <1>1, <3>3 DEF TypeOK, PeerLeaves
    <3>4. QED
      BY <1>3, <3>1, <3>2, <3>3
  <2>2. Left' = Left \cup {s}
    BY <2>1 DEF Left
  <2>3. Talk!Leave(s)
    BY <2>1, <2>2 DEF Talk!Leave, Left
  <2>4. QED
    BY <2>3, TalkSides DEF Talk!Next
<1>4. CASE PeerStopsReading(s)
  BY <1>4 DEF PeerStopsReading, sockets, Talk!vars
<1>5. QED
  BY <1>2, <1>3, <1>4 DEF Peer

\* A message is passed on if it is the next one, and its receiver has not been told.
LEMMA MessageTalks ==
  ASSUME IInv, NoneAfter, NEW s \in Sides, SendMessage(s)
  PROVE  [Talk!Next]_Talk!vars
<1>1. UNCHANGED <<sent, peer, told>>
  BY DEF SendMessage, Goto, peers
<1>2. CASE UNCHANGED got
  BY <1>1, <1>2 DEF Talk!vars
<1>3. CASE /\ state[Other(s)] = "active" /\ peer[Other(s)] # "gone"
           /\ got' = [got EXCEPT ![Other(s)] = Append(@, held[s])]
  <2>1. TypeOK /\ Complete(s) /\ Ordered(s) /\ Forwarder(s) /\ Other(s) \in Sides
    BY TwoSides DEF IInv, Side
  <2>2. held[s] \in Messages
    BY <2>1 DEF SendMessage, Forwarder
  <2>3. held[s] = Len(got[Other(s)]) + 1 /\ held[s] <= sent[s]
    BY <1>3, <2>1, <2>2 DEF Complete, Ordered
  <2>4. Len(got[Other(s)]) < sent[s]
    BY <2>1, <2>3, ReadIsNat DEF TypeOK
  <2>5. ~ told[Other(s)]
    BY <1>3, <2>1 DEF NoneAfter
  <2>6. got' = [got EXCEPT ![Other(s)] = Append(got[Other(s)], Len(got[Other(s)]) + 1)]
    BY <1>3, <2>3
  <2>7. Talk!Arrive(s)
    BY <1>1, <2>4, <2>5, <2>6, TalkSides DEF Talk!Arrive
  <2>8. QED
    BY <2>7, TalkSides DEF Talk!Next
<1>4. QED
  BY <1>2, <1>3 DEF SendMessage

\* Whoever is told is told because somebody has left.
LEMMA TellingTalks ==
  ASSUME TypeOK, UNCHANGED <<sent, got, peer>>, NEW d \in Sides,
         told' \in {told, [told EXCEPT ![d] = TRUE]},
         told' # told => \E s \in Sides : peer[s] # "open"
  PROVE  [Talk!Next]_Talk!vars
<1>1. CASE told' = told
  BY <1>1 DEF Talk!vars
<1>2. CASE told' # told
  <2>1. Talk!Tell(d)
    BY <1>2 DEF Talk!Tell
  <2>2. QED
    BY <2>1, TalkSides DEF Talk!Next
<1>3. QED
  BY <1>1, <1>2

LEMMA ClosingTells ==
  ASSUME TypeOK, NEW d \in Sides, SendClose(d)
  PROVE  UNCHANGED got /\ told' \in {told, [told EXCEPT ![d] = TRUE]}
BY DEF SendClose

LEMMA ForwarderTalks ==
  ASSUME IInv, NoneAfter, NEW s \in Sides, Forward(s)
  PROVE  [Talk!Next]_Talk!vars
<1>1. TypeOK /\ Closing(s) /\ Forwarder(s) /\ Other(s) \in Sides
  BY TwoSides DEF IInv, Side
<1>2. CASE ReadMessage(s) \/ ReadError(s) \/ ReadNone(s)
  BY <1>2 DEF ReadMessage, ReadError, ReadNone, Goto, peers, Talk!vars
<1>3. CASE AnswerClose(s)
  <2>1. UNCHANGED <<sent, got, peer>> /\ told' = [told EXCEPT ![s] = TRUE]
    BY <1>3 DEF AnswerClose, Goto, peers
  <2>2. peer[s] # "open"
    BY <1>1, <1>3 DEF Closing, AnswerClose
  <2>3. QED
    BY <1>1, <2>1, <2>2, TellingTalks
<1>4. CASE SendMessage(s)
  BY <1>4, MessageTalks
<1>5. CASE PassClose(s) \/ PassError(s)
  <2>1. SendClose(Other(s)) /\ held[s] = CLOSE /\ UNCHANGED <<sent, peer>>
    BY <1>1, <1>5 DEF PassClose, PassError, Goto, peers, Forwarder
  <2>2. UNCHANGED got /\ told' \in {told, [told EXCEPT ![Other(s)] = TRUE]}
    BY <1>1, <2>1, ClosingTells
  <2>3. peer[s] # "open"
    BY <1>1, <2>1 DEF Closing
  <2>4. QED
    BY <1>1, <2>1, <2>2, <2>3, TellingTalks
<1>6. QED
  BY <1>2, <1>3, <1>4, <1>5 DEF Forward

LEMMA TalkNext == IInv /\ NoneAfter /\ [Next]_vars => [Talk!Next]_Talk!vars
<1>1. SUFFICES ASSUME IInv, NoneAfter, [Next]_vars PROVE [Talk!Next]_Talk!vars
  OBVIOUS
<1>2. CASE Upgrading \/ UNCHANGED vars
  BY <1>2 DEF Upgrading, ConnectWebsocket, AnswerUpgrade, SpawnForwarders, vars, peers, sockets,
              Talk!vars
<1>3. QED
  BY <1>1, <1>2, PeerTalks, ForwarderTalks DEF Next

\* The relay implements the conversation: in both directions messages arrive in order and
\* once, none arrives behind an end, and no end is made up (lib.rs:157-191).
THEOREM Converses == Spec => ImplementsConversation
<1>1. Init => NoneAfter
  BY DEF Init, NoneAfter
<1>2. IInv => TypeOK
  BY DEF IInv
<1>3. Spec => []NoneAfter
  BY <1>1, <1>2, NoneAfterKept, Always, PTL DEF Spec
<1>4. Spec => Talk!Spec
  BY <1>3, TalkInit, TalkNext, Always, PTL DEF Spec, Talk!Spec
<1>5. QED
  BY <1>4 DEF ImplementsConversation
=============================================================================
