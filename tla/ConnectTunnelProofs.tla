------------------------- MODULE ConnectTunnelProofs -------------------------
(***************************************************************************)
(* Theorems about ConnectTunnel, for every script a client may send and    *)
(* every room a reader may have.                                           *)
(***************************************************************************)
EXTENDS ConnectTunnel, SequenceTheorems, TLAPS

Byte == 0 .. 255

-----------------------------------------------------------------------------
(* Sequences of bytes                                                      *)

\* What is taken from the front of a sequence and what is left make it up.
LEMMA TakeDrop ==
  ASSUME NEW s \in Seq(Byte), NEW n \in 0 .. Len(s)
  PROVE  /\ SubSeq(s, 1, n) \in Seq(Byte) /\ Len(SubSeq(s, 1, n)) = n
         /\ Drop(s, n) \in Seq(Byte)
         /\ SubSeq(s, 1, n) \o Drop(s, n) = s
<1>1. Len(s) \in Nat /\ \A i \in 1 .. Len(s) : s[i] \in Byte
  BY LenProperties, ElementOfSeq
<1>2. SubSeq(s, 1, n) \in Seq(Byte) /\ Len(SubSeq(s, 1, n)) = n
  BY <1>1, SubSeqProperties
<1>3. SubSeq(s, n + 1, Len(s)) \in Seq(Byte)
  BY <1>1, SubSeqProperties
<1>4. SubSeq(s, 1, n) \o SubSeq(s, n + 1, Len(s)) = SubSeq(s, 1, Len(s))
  <2>1. 1 \in 1 .. Len(s) + 1 /\ n \in 1 - 1 .. Len(s) /\ Len(s) \in n .. Len(s)
    BY <1>1
  <2> QED BY <2>1, ConcatAdjacentSubSeq, Zenon
<1> QED BY <1>2, <1>3, <1>4, SubSeqFull DEF Drop

\* The client's next piece continues what it has sent.
LEMMA NextPiece ==
  ASSUME NEW s \in Seq(Byte), NEW m \in 0 .. Len(s), NEW n \in m + 1 .. Len(s)
  PROVE  /\ SubSeq(s, m + 1, n) \in Seq(Byte)
         /\ SubSeq(s, 1, m) \o SubSeq(s, m + 1, n) = SubSeq(s, 1, n)
<1>1. Len(s) \in Nat /\ \A i \in 1 .. Len(s) : s[i] \in Byte
  BY LenProperties, ElementOfSeq
<1>2. SubSeq(s, m + 1, n) \in Seq(Byte)
  BY <1>1, SubSeqProperties
<1>3. SubSeq(s, 1, m) \o SubSeq(s, m + 1, n) = SubSeq(s, 1, n)
  <2>1. 1 \in 1 .. Len(s) + 1 /\ m \in 1 - 1 .. Len(s) /\ n \in m .. Len(s)
    BY <1>1
  <2> QED BY <2>1, ConcatAdjacentSubSeq, Zenon
<1> QED BY <1>2, <1>3

\* A reader takes no more than there is.
LEMMA RoomBound ==
  ASSUME NEW s \in Seq(Byte), NEW room \in Rooms
  PROVE  Smaller(Len(s), room) \in 0 .. Len(s)
BY RoomsAssumption, LenProperties DEF Smaller

-----------------------------------------------------------------------------
(* Type correctness                                                        *)

LEMMA TypeInit == Init => TypeOK
<1> SUFFICES ASSUME Init PROVE TypeOK
  OBVIOUS
<1>1. <<>> \in Seq(0 .. 255)
  BY EmptySeq
<1>2. sent \in 0 .. Len(script)
  BY ScriptsAssumption, LenProperties DEF Init
<1>3. buffer \in [1 .. 4 -> 0 .. 255]
  BY DEF Init
<1>4. wire \in Seq(0 .. 255) /\ pre \in Seq(0 .. 255) /\ delivered \in Seq(0 .. 255)
  BY <1>1 DEF Init
<1>5. bytes_read \in 0 .. 4 /\ script \in Scripts /\ pc \in Places
  BY DEF Init, Places
<1>6. with_ca \in BOOLEAN /\ client_open \in BOOLEAN /\ eof \in BOOLEAN /\ server_open \in BOOLEAN
  BY DEF Init
<1> QED BY <1>2, <1>3, <1>4, <1>5, <1>6 DEF TypeOK

\* The script is bytes, so the array a read fills is.
LEMMA PaddedType ==
  ASSUME NEW s \in Seq(Byte)
  PROVE  Padded(s) \in [1 .. 4 -> 0 .. 255]
<1>1. DOMAIN s = 1 .. Len(s) /\ \A i \in 1 .. Len(s) : s[i] \in Byte
  BY LenProperties, ElementOfSeq
<1>2. ASSUME NEW i \in 1 .. 4 PROVE (IF i \in DOMAIN s THEN s[i] ELSE 0) \in 0 .. 255
  BY <1>1 DEF Byte
<1> QED BY <1>2 DEF Padded

LEMMA TypeNext == TypeOK /\ [Next]_vars => TypeOK'
<1> SUFFICES ASSUME TypeOK, [Next]_vars PROVE TypeOK'
  OBVIOUS
<1> USE DEF client, stream, first
<1>a. /\ script \in Seq(Byte) /\ Len(script) \in Nat
      /\ wire \in Seq(Byte) /\ Len(wire) \in Nat /\ pre \in Seq(Byte) /\ delivered \in Seq(Byte)
  BY ScriptsAssumption, LenProperties DEF TypeOK, Byte
<1>1. ASSUME ClientSends PROVE TypeOK'
  <2>1. PICK n \in sent + 1 .. Len(script) :
          wire' = wire \o SubSeq(script, sent + 1, n) /\ sent' = n
    BY <1>1 DEF ClientSends
  <2>2. n \in 0 .. Len(script) /\ wire' \in Seq(Byte)
    BY <1>a, <2>1, NextPiece, ConcatProperties DEF TypeOK
  <2> QED BY <1>1, <2>1, <2>2 DEF ClientSends, TypeOK, Byte
<1>2. ASSUME ClientCloses \/ ServerCloses PROVE TypeOK'
  <2>1. /\ UNCHANGED <<with_ca, script, sent, wire, pre, delivered, eof, pc, buffer, bytes_read>>
        /\ client_open' \in {client_open, FALSE} /\ server_open' \in {server_open, FALSE}
    BY <1>2 DEF ClientCloses, ServerCloses
  <2> QED BY <2>1 DEF TypeOK
<1>3. ASSUME ReadFirst PROVE TypeOK'
  <2>1. PICK n \in (IF wire = <<>> THEN {0} ELSE 1 .. Smaller(4, Len(wire))) :
          /\ buffer' = Padded(SubSeq(wire, 1, n)) /\ bytes_read' = n
          /\ pre' = SubSeq(wire, 1, n) /\ wire' = Drop(wire, n)
    BY <1>3 DEF ReadFirst
  <2>2. n \in 0 .. Len(wire) /\ n \in 0 .. 4
    BY <1>a, <2>1 DEF Smaller
  <2>3. pre' \in Seq(Byte) /\ wire' \in Seq(Byte) /\ buffer' \in [1 .. 4 -> 0 .. 255]
    BY <1>a, <2>1, <2>2, TakeDrop, PaddedType
  <2> QED BY <1>3, <2>1, <2>2, <2>3 DEF ReadFirst, Goto, TypeOK, Places, Byte
<1>4. ASSUME PollReadPre PROVE TypeOK'
  <2>1. PICK room \in Rooms :
          /\ delivered' = delivered \o SubSeq(pre, 1, Smaller(Len(pre), room))
          /\ pre' = Drop(pre, Smaller(Len(pre), room))
    BY <1>4 DEF PollReadPre
  <2>2. delivered' \in Seq(Byte) /\ pre' \in Seq(Byte)
    BY <1>a, <2>1, RoomBound, TakeDrop, ConcatProperties
  <2> QED BY <1>4, <2>2 DEF PollReadPre, Goto, TypeOK, Byte
<1>5. ASSUME PollReadInner PROVE TypeOK'
  <2>1. PICK room \in Rooms :
          /\ delivered' = delivered \o SubSeq(wire, 1, Smaller(Len(wire), room))
          /\ wire' = Drop(wire, Smaller(Len(wire), room))
    BY <1>5 DEF PollReadInner
  <2>2. delivered' \in Seq(Byte) /\ wire' \in Seq(Byte)
    BY <1>a, <2>1, RoomBound, TakeDrop, ConcatProperties
  <2> QED BY <1>5, <2>2 DEF PollReadInner, Goto, TypeOK, Byte
<1>6. ASSUME PollReadEnd PROVE TypeOK'
  BY <1>6 DEF PollReadEnd, Goto, TypeOK, Places, Consuming
<1>7. ASSUME \/ Upgrade \/ Decide \/ Dial \/ TunnelEnds
             \/ Accept \/ ReadFails \/ ServeEnds \/ TunnelFails
      PROVE  TypeOK'
  <2>1. pc' \in Places
    BY <1>7 DEF Upgrade, Decide, Dial, TunnelEnds, Accept, ReadFails, ServeEnds, TunnelFails,
                Goto, Places, Consuming
  <2>2. UNCHANGED <<with_ca, client, server_open, stream, first>>
    BY <1>7 DEF Upgrade, Decide, Dial, TunnelEnds, Accept, ReadFails, ServeEnds, TunnelFails, Goto
  <2> QED BY <2>1, <2>2 DEF TypeOK
<1>8. CASE UNCHANGED vars
  BY <1>8 DEF vars, TypeOK
<1> QED BY <1>1, <1>2, <1>3, <1>4, <1>5, <1>6, <1>7, <1>8 DEF Next, Task

\* The variables keep their types; in particular what is put back and what is
\* delivered stays bytes.
THEOREM TypeCorrect == Spec => []TypeOK
<1>1. Init => TypeOK
  BY TypeInit
<1>2. TypeOK /\ [Next]_vars => TypeOK'
  BY TypeNext
<1> QED BY <1>1, <1>2, PTL DEF Spec

-----------------------------------------------------------------------------
(* No byte is lost, added or moved                                         *)

\* Before its first read the task holds nothing and has passed nothing on.
NothingYet == pc \in {"upgrading", "reading"} => pre = <<>> /\ delivered = <<>>

LEMMA FlowInit == Init => NothingYet /\ NothingLostNothingAdded
<1> SUFFICES ASSUME Init PROVE NothingLostNothingAdded
  BY DEF Init, NothingYet
<1>1. SubSeq(script, 1, 0) = <<>>
  BY SubSeqEmpty
<1>2. <<>> \o <<>> \o <<>> = <<>>
  BY EmptySeq, ConcatEmptySeq
<1> QED BY <1>1, <1>2 DEF Init, NothingLostNothingAdded

\* Concatenation of bytes is associative.
LEMMA ConcatBytes ==
  \A a, b, c \in Seq(Byte) : (a \o b) \o c = a \o (b \o c)
BY ConcatAssociative

\* Three sequences whose middle gives its front to the first.
LEMMA Regroup ==
  ASSUME NEW d \in Seq(Byte), NEW s \in Seq(Byte), NEW w \in Seq(Byte),
         NEW n \in 0 .. Len(s)
  PROVE  d \o SubSeq(s, 1, n) \o Drop(s, n) \o w = d \o s \o w
<1>1. SubSeq(s, 1, n) \in Seq(Byte) /\ Drop(s, n) \in Seq(Byte)
  BY TakeDrop
<1>2. d \o SubSeq(s, 1, n) \o Drop(s, n) = d \o (SubSeq(s, 1, n) \o Drop(s, n))
  BY <1>1, ConcatBytes, ZenonT(60)
<1> QED BY <1>2, TakeDrop

LEMMA FlowNext ==
  TypeOK /\ NothingYet /\ NothingLostNothingAdded /\ [Next]_vars
    => NothingYet' /\ NothingLostNothingAdded'
<1> SUFFICES ASSUME TypeOK, NothingYet, NothingLostNothingAdded, [Next]_vars
             PROVE  NothingYet' /\ NothingLostNothingAdded'
  OBVIOUS
<1> USE DEF client, stream, first
<1>a. /\ script \in Seq(Byte) /\ Len(script) \in Nat /\ sent \in 0 .. Len(script)
      /\ wire \in Seq(Byte) /\ Len(wire) \in Nat /\ pre \in Seq(Byte) /\ delivered \in Seq(Byte)
  BY ScriptsAssumption, LenProperties DEF TypeOK, Byte
<1>1. ASSUME ClientSends PROVE NothingYet' /\ NothingLostNothingAdded'
  <2>1. PICK n \in sent + 1 .. Len(script) :
          wire' = wire \o SubSeq(script, sent + 1, n) /\ sent' = n
    BY <1>1 DEF ClientSends
  <2>2. UNCHANGED <<script, pre, delivered, pc>>
    BY <1>1 DEF ClientSends
  <2>3. delivered \o pre \in Seq(Byte)
    BY <1>a, ConcatProperties
  <2>4. SubSeq(script, sent + 1, n) \in Seq(Byte)
    BY <1>a, <2>1, NextPiece
  <2>5. (delivered \o pre) \o (wire \o SubSeq(script, sent + 1, n))
          = (delivered \o pre \o wire) \o SubSeq(script, sent + 1, n)
    BY <1>a, <2>3, <2>4, ConcatBytes, ZenonT(60)
  <2>6. SubSeq(script, 1, sent) \o SubSeq(script, sent + 1, n) = SubSeq(script, 1, n)
    BY <1>a, <2>1, NextPiece
  <2>7. NothingLostNothingAdded'
    BY <2>1, <2>2, <2>5, <2>6 DEF NothingLostNothingAdded
  <2> QED BY <2>2, <2>7 DEF NothingYet
<1>2. ASSUME ReadFirst PROVE NothingYet' /\ NothingLostNothingAdded'
  <2>1. PICK n \in (IF wire = <<>> THEN {0} ELSE 1 .. Smaller(4, Len(wire))) :
          pre' = SubSeq(wire, 1, n) /\ wire' = Drop(wire, n)
    BY <1>2 DEF ReadFirst
  <2>2. n \in 0 .. Len(wire)
    BY <1>a, <2>1 DEF Smaller
  <2>3. pre = <<>> /\ delivered = <<>> /\ UNCHANGED <<script, sent, delivered>> /\ pc' = "deciding"
    BY <1>2 DEF ReadFirst, Goto, NothingYet
  <2>4. delivered \o pre' \o wire' = pre' \o wire'
    BY <1>a, <2>1, <2>2, <2>3, TakeDrop, ConcatEmptySeq
  <2>5. pre' \o wire' = wire
    BY <1>a, <2>1, <2>2, TakeDrop
  <2>6. delivered \o pre \o wire = wire
    BY <1>a, <2>3, ConcatEmptySeq
  <2> QED BY <2>3, <2>4, <2>5, <2>6 DEF NothingYet, NothingLostNothingAdded
<1>3. ASSUME PollReadPre PROVE NothingYet' /\ NothingLostNothingAdded'
  <2>1. PICK room \in Rooms :
          /\ delivered' = delivered \o SubSeq(pre, 1, Smaller(Len(pre), room))
          /\ pre' = Drop(pre, Smaller(Len(pre), room))
    BY <1>3 DEF PollReadPre
  <2>2. UNCHANGED <<script, sent, wire, pc>> /\ pc \in Consuming
    BY <1>3 DEF PollReadPre, Goto
  <2>3. delivered' \o pre' \o wire = delivered \o pre \o wire
    <3> DEFINE n == Smaller(Len(pre), room)
    <3>1. n \in 0 .. Len(pre)
      BY <1>a, RoomBound
    <3> HIDE DEF n
    <3>2. delivered \o SubSeq(pre, 1, n) \o Drop(pre, n) \o wire = delivered \o pre \o wire
      BY <1>a, <3>1, Regroup, ZenonT(60)
    <3>3. QED
      BY <2>1, <3>2 DEF n
  <2> QED BY <2>2, <2>3 DEF NothingYet, NothingLostNothingAdded, Consuming
<1>4. ASSUME PollReadInner PROVE NothingYet' /\ NothingLostNothingAdded'
  <2>1. PICK room \in Rooms :
          /\ delivered' = delivered \o SubSeq(wire, 1, Smaller(Len(wire), room))
          /\ wire' = Drop(wire, Smaller(Len(wire), room))
    BY <1>4 DEF PollReadInner
  <2> DEFINE n == Smaller(Len(wire), room)
  <2>2. UNCHANGED <<script, sent, pre, pc>> /\ pc \in Consuming /\ pre = <<>>
    BY <1>4 DEF PollReadInner, Goto
  <2>3. n \in 0 .. Len(wire)
    BY <1>a, RoomBound
  <2> HIDE DEF n
  <2>4. SubSeq(wire, 1, n) \in Seq(Byte) /\ Drop(wire, n) \in Seq(Byte)
        /\ SubSeq(wire, 1, n) \o Drop(wire, n) = wire
    BY <1>a, <2>3, TakeDrop
  <2>5. delivered' \in Seq(Byte) /\ delivered' \o pre' = delivered' /\ delivered \o pre = delivered
    BY <1>a, <2>1, <2>2, <2>4, ConcatProperties, ConcatEmptySeq DEF n
  <2>6. (delivered \o SubSeq(wire, 1, n)) \o Drop(wire, n) = delivered \o wire
    <3>1. (delivered \o SubSeq(wire, 1, n)) \o Drop(wire, n)
            = delivered \o (SubSeq(wire, 1, n) \o Drop(wire, n))
      BY <1>a, <2>4, ConcatBytes, ZenonT(60)
    <3> QED BY <2>4, <3>1
  <2>7. delivered' \o pre' \o wire' = delivered \o pre \o wire
    BY <2>1, <2>5, <2>6 DEF n
  <2> QED BY <2>2, <2>7 DEF NothingYet, NothingLostNothingAdded, Consuming
<1>5. ASSUME \/ ClientCloses \/ ServerCloses \/ PollReadEnd
             \/ Upgrade \/ Decide \/ Dial \/ TunnelEnds
             \/ Accept \/ ReadFails \/ ServeEnds \/ TunnelFails
             \/ UNCHANGED vars
      PROVE  NothingYet' /\ NothingLostNothingAdded'
  <2>1. UNCHANGED <<script, sent, wire, pre, delivered>>
    BY <1>5 DEF ClientCloses, ServerCloses, PollReadEnd, Upgrade, Decide, Dial, TunnelEnds,
                Accept, ReadFails, ServeEnds, TunnelFails, Goto, vars
  <2>2. pc' \in {"upgrading", "reading"} => pc \in {"upgrading", "reading"}
    BY <1>5 DEF ClientCloses, ServerCloses, PollReadEnd, Upgrade, Decide, Dial, TunnelEnds,
                Accept, ReadFails, ServeEnds, TunnelFails, Goto, Consuming, vars
  <2> QED BY <2>1, <2>2 DEF NothingYet, NothingLostNothingAdded
<1> QED BY <1>1, <1>2, <1>3, <1>4, <1>5 DEF Next, Task

\* For every script, every way it is cut into reads and every size of buffer,
\* the bytes a client sent are those delivered, those put back and those on the
\* wire, in order: reading ahead of the decision changes nothing.
THEOREM NothingIsLost == Spec => []NothingLostNothingAdded
<1> DEFINE IInv == TypeOK /\ NothingYet /\ NothingLostNothingAdded
<1>1. Init => IInv
  BY TypeInit, FlowInit
<1>2. IInv /\ [Next]_vars => IInv'
  BY TypeNext, FlowNext
<1> QED BY <1>1, <1>2, PTL DEF Spec

-----------------------------------------------------------------------------
(* The first bytes tell what they seem to                                  *)

\* After its first read the task has the beginning of what the client sends, and zeros.
Looked ==
  pc \in {"deciding", "dialling"} \cup Consuming =>
    /\ bytes_read <= Len(script)
    /\ \A i \in 1 .. 4 : buffer[i] = IF i <= bytes_read THEN script[i] ELSE 0

LEMMA LookedNext ==
  TypeOK /\ NothingYet /\ NothingLostNothingAdded /\ Looked /\ [Next]_vars => Looked'
<1> SUFFICES ASSUME TypeOK, NothingYet, NothingLostNothingAdded, Looked, [Next]_vars PROVE Looked'
  OBVIOUS
<1> USE DEF client, stream, first
<1>1. CASE ReadFirst
  <2>1. /\ script \in Seq(Byte) /\ Len(script) \in Nat /\ sent \in 0 .. Len(script)
        /\ wire \in Seq(Byte) /\ Len(wire) \in Nat
    BY ScriptsAssumption, LenProperties DEF TypeOK, Byte
  <2>2. PICK n \in (IF wire = <<>> THEN {0} ELSE 1 .. Smaller(4, Len(wire))) :
          /\ buffer' = Padded(SubSeq(wire, 1, n)) /\ bytes_read' = n
    BY <1>1 DEF ReadFirst
  <2>3. n \in 0 .. Len(wire) /\ n \in 0 .. 4
    BY <2>1, <2>2 DEF Smaller
  <2>4. pre = <<>> /\ delivered = <<>> /\ script' = script
    BY <1>1 DEF ReadFirst, Goto, NothingYet
  <2>5. wire = SubSeq(script, 1, sent)
    <3>1. delivered \o pre \o wire = wire
      BY <2>1, <2>4, ConcatEmptySeq
    <3>2. QED
      BY <3>1 DEF NothingLostNothingAdded
  <2>6. Len(wire) = sent /\ \A i \in 1 .. sent : wire[i] = script[i]
    BY <2>1, <2>5, SubSeqProperties
  <2>7. /\ DOMAIN SubSeq(wire, 1, n) = 1 .. n
        /\ \A i \in 1 .. n : SubSeq(wire, 1, n)[i] = wire[i]
    BY <2>1, <2>3, SubSeqProperties
  <2>8. ASSUME NEW i \in 1 .. 4 PROVE buffer'[i] = IF i <= n THEN script[i] ELSE 0
    <3>1. buffer'[i] = IF i \in 1 .. n THEN SubSeq(wire, 1, n)[i] ELSE 0
      BY <2>2, <2>7 DEF Padded
    <3>2. CASE i <= n
      BY <2>1, <2>3, <2>6, <2>7, <3>1, <3>2
    <3>3. CASE ~ (i <= n)
      BY <2>3, <3>1, <3>3
    <3>4. QED
      BY <3>2, <3>3
  <2>9. n <= Len(script)
    BY <2>1, <2>3, <2>6
  <2>10. QED
    BY <2>2, <2>4, <2>8, <2>9 DEF Looked
<1>2. ASSUME \/ ClientSends \/ ClientCloses \/ ServerCloses \/ Upgrade \/ ReadFails \/ Decide \/ Accept \/ Dial
             \/ PollReadPre \/ PollReadInner \/ PollReadEnd \/ ServeEnds \/ TunnelEnds \/ TunnelFails
             \/ UNCHANGED vars
      PROVE  Looked'
  <2>1. UNCHANGED <<script, buffer, bytes_read>>
    BY <1>2 DEF ClientSends, ClientCloses, ServerCloses, Upgrade, ReadFails, Decide, Accept, Dial,
                PollReadPre, PollReadInner, PollReadEnd, ServeEnds, TunnelEnds, TunnelFails, Goto, vars
  <2>2. pc' \in {"deciding", "dialling"} \cup Consuming => pc \in {"deciding", "dialling"} \cup Consuming
    BY <1>2 DEF ClientSends, ClientCloses, ServerCloses, Upgrade, ReadFails, Decide, Accept, Dial,
                PollReadPre, PollReadInner, PollReadEnd, ServeEnds, TunnelEnds, TunnelFails, Goto, vars,
                Consuming
  <2>3. QED
    BY <2>1, <2>2 DEF Looked
<1>3. QED
  BY <1>1, <1>2 DEF Next, Task

\* The comparison sees the bytes the client sends, or too few of them.
LEMMA Compared ==
  ASSUME TypeOK, Looked, pc = "deciding"
  PROVE  /\ buffer = GET => Begins(GET)
         /\ SubSeq(buffer, 1, 2) = TLS => Begins(TLS)
         /\ Begins(TLS) /\ SubSeq(buffer, 1, 2) # TLS => bytes_read < 2
         /\ Begins(GET) /\ buffer # GET => bytes_read < 4
<1>1. /\ bytes_read \in 0 .. 4 /\ Len(script) \in Nat /\ bytes_read <= Len(script)
      /\ \A i \in 1 .. 4 : buffer[i] = IF i <= bytes_read THEN script[i] ELSE 0
  BY ScriptsAssumption, LenProperties DEF TypeOK, Looked
<1>2. /\ Len(GET) = 4 /\ GET[1] = 71 /\ GET[2] = 69 /\ GET[3] = 84 /\ GET[4] = 32
      /\ Len(TLS) = 2 /\ TLS[1] = 22 /\ TLS[2] = 3
  BY DEF GET, TLS
<1>3. buffer = GET <=> \A i \in 1 .. 4 : buffer[i] = GET[i]
  BY DEF TypeOK, GET
<1>4. SubSeq(buffer, 1, 2) = TLS <=> buffer[1] = 22 /\ buffer[2] = 3
  <2>1. SubSeq(buffer, 1, 2) = [i \in 1 .. 2 |-> buffer[i]]
    BY DEF TypeOK
  <2>2. TLS = [i \in 1 .. 2 |-> IF i = 1 THEN 22 ELSE 3]
    BY DEF TLS
  <2>3. ASSUME buffer[1] = 22, buffer[2] = 3 PROVE SubSeq(buffer, 1, 2) = TLS
    <3>1. \A i \in 1 .. 2 : buffer[i] = IF i = 1 THEN 22 ELSE 3
      BY <2>3
    <3>2. QED
      BY <2>1, <2>2, <3>1
  <2>4. ASSUME SubSeq(buffer, 1, 2) = TLS PROVE buffer[1] = 22 /\ buffer[2] = 3
    BY <2>1, <2>2, <2>4
  <2>5. QED
    BY <2>3, <2>4
<1>5. buffer = GET => bytes_read = 4
  BY <1>1, <1>2, <1>3
<1>6. SubSeq(buffer, 1, 2) = TLS => bytes_read >= 2
  BY <1>1, <1>4
<1>7. QED
  BY <1>1, <1>2, <1>3, <1>4, <1>5, <1>6 DEF Begins

LEMMA ClassifiedNext ==
  TypeOK /\ Looked /\ Classified /\ [Next]_vars => Classified'
<1> SUFFICES ASSUME TypeOK, Looked, Classified, [Next]_vars PROVE Classified'
  OBVIOUS
<1> USE DEF client, stream, first
<1>1. CASE Decide
  <2>1. UNCHANGED <<with_ca, script, bytes_read>> /\ pc = "deciding"
    BY <1>1 DEF Decide, Goto
  <2>2. /\ pc' = "serving_plain" => with_ca /\ buffer = GET
        /\ pc' = "accepting" => with_ca /\ SubSeq(buffer, 1, 2) = TLS
        /\ pc' = "dialling" /\ with_ca => buffer # GET /\ SubSeq(buffer, 1, 2) # TLS
        /\ pc' \in {"serving_plain", "accepting", "dialling"}
    BY <1>1 DEF Decide, Goto
  <2>3. QED
    BY <2>1, <2>2, Compared DEF Classified, Begins
<1>2. ASSUME \/ ClientSends \/ ClientCloses \/ ServerCloses \/ Upgrade \/ ReadFails \/ Accept \/ Dial
             \/ PollReadPre \/ PollReadInner \/ PollReadEnd \/ ServeEnds \/ TunnelEnds \/ TunnelFails
             \/ UNCHANGED vars
      PROVE  Classified'
  <2>1. UNCHANGED <<with_ca, script, bytes_read>>
    BY <1>2 DEF ClientSends, ClientCloses, ServerCloses, Upgrade, ReadFails, Accept, Dial,
                PollReadPre, PollReadInner, PollReadEnd, ServeEnds, TunnelEnds, TunnelFails, Goto, vars
  <2>2. \/ pc' = pc \/ pc' = "ended" \/ pc' = "reading"
        \/ pc = "accepting" /\ pc' = "serving_tls"
        \/ pc = "dialling" /\ pc' = "tunnel"
    BY <1>2 DEF ClientSends, ClientCloses, ServerCloses, Upgrade, ReadFails, Accept, Dial,
                PollReadPre, PollReadInner, PollReadEnd, ServeEnds, TunnelEnds, TunnelFails, Goto, vars
  <2>3. QED
    BY <2>1, <2>2 DEF Classified, Begins
<1>3. CASE ReadFirst
  BY <1>3 DEF ReadFirst, Goto, Classified
<1>4. QED
  BY <1>1, <1>2, <1>3 DEF Next, Task

\* Whatever a client sends and however it is cut into reads, the zeros behind a short first
\* read are never taken for its bytes, and a client that begins like one to be served
\* is tunnelled only if that read was too short to tell (internal.rs:149-213).
THEOREM FirstBytesTell == Spec => []Classified
<1> DEFINE IInv == TypeOK /\ NothingYet /\ NothingLostNothingAdded /\ Looked /\ Classified
<1>1. Init => IInv
  <2>1. Init => Looked /\ Classified
    BY DEF Init, Looked, Classified, Consuming
  <2>2. QED
    BY <2>1, TypeInit, FlowInit
<1>2. IInv /\ [Next]_vars => IInv'
  BY TypeNext, FlowNext, LookedNext, ClassifiedNext
<1>3. QED
  BY <1>1, <1>2, PTL DEF Spec
=============================================================================
