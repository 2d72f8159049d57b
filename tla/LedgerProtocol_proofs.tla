------------------------- MODULE LedgerProtocol_proofs -------------------------
(***************************************************************************)
(* Proofs about LedgerProtocol for every packet size, buffer size, set of  *)
(* packets and set of replies.                                             *)
(***************************************************************************)
EXTENDS LedgerProtocol, SequenceTheorems, TLAPS

\* The invariant of the whole structure: its two halves and the packet they share.
IInv == TypeOK /\ RxBounds /\ TxExact /\ TxNumbered

\* The two facts about Word that arithmetic needs, without its numeral.
LEMMA WordRange == Word \in Nat /\ Word > 1
  BY DEF Word

\* What the header leaves of a packet of Mtu bytes.
LEMMA Room ==
    ASSUME NEW s \in Nat
    PROVE  /\ Header(s) \in 5..7 /\ Mtu - Header(s) \in Nat \ {0}
           /\ Header(0) = 7 /\ (s # 0 => Header(s) = 5)
  BY LengthsAssumption DEF Header

\* Of n bytes copied at offset from, what passes the limit is left out.
LEMMA CopyEnd ==
    ASSUME NEW n \in Nat, NEW from \in Nat, NEW limit \in Nat, from <= limit
    PROVE  /\ Smaller(n, limit - from) \in Nat
           /\ Smaller(n, limit - from) <= n
           /\ from + Smaller(n, limit - from) <= limit
           /\ limit - from >= n => Smaller(n, limit - from) = n
           /\ ~(limit - from >= n) => from + Smaller(n, limit - from) = limit
  BY DEF Smaller

\* One full packet further.
LEMMA NextPosition ==
    ASSUME NEW s \in Nat
    PROVE  Position(1) = Mtu - 7 /\ Position(s + 1) = Position(s) + (Mtu - 5)
  <1>1. Mtu \in Nat
    BY LengthsAssumption
  <1>2. ((s + 1) - 1) * (Mtu - 5) = (s - 1) * (Mtu - 5) + (Mtu - 5)
    BY <1>1
  <1>3. (1 - 1) * (Mtu - 5) = 0
    BY <1>1
  <1>4. (s - 1) * (Mtu - 5) \in Int
    BY <1>1
  <1> QED BY <1>1, <1>2, <1>3, <1>4 DEF Position

\* A packet takes what it has room for, or the rest of the n bytes of a reply.
LEMMA Taken ==
    ASSUME NEW s \in Nat, NEW n \in Nat, NEW from \in 0..n
    PROVE  \E room \in Nat \ {0}, l \in Nat :
             /\ room = Mtu - Header(s) /\ l = Smaller(room, n - from)
             /\ Header(s) + l \in 0..ChunkSize
             /\ from + l <= n
             /\ n - from >= room => l = room
             /\ ~(n - from >= room) => from + l = n
  <1>1. Mtu \in Nat /\ ChunkSize \in Nat /\ Mtu <= ChunkSize /\ from \in Nat /\ from <= n
    BY LengthsAssumption
  <1>2. Header(s) \in 5..7
    BY Room
  <1>3. PICK room \in Nat \ {0} : room = Mtu - Header(s)
    BY Room
  <1>4. PICK l \in Nat : l = Smaller(room, n - from)
    BY <1>1, <1>3, CopyEnd
  <1>5. /\ l <= room /\ from + l <= n
        /\ n - from >= room => l = room
        /\ ~(n - from >= room) => from + l = n
    BY <1>1, <1>4, CopyEnd
  <1>6. Header(s) + l \in 0..ChunkSize
    BY <1>1, <1>2, <1>3, <1>5
  <1> QED BY <1>3, <1>4, <1>5, <1>6

\* Adjacent parts of a sequence make one part.
LEMMA Joined ==
    ASSUME NEW a \in Seq(Byte), NEW from \in 0..Len(a), NEW l \in Nat, from + l <= Len(a)
    PROVE  /\ SubSeq(a, 1, from) \o SubSeq(a, from + 1, from + l) = SubSeq(a, 1, from + l)
           /\ SubSeq(a, from + 1, from + l) \in Seq(Byte) /\ SubSeq(a, 1, from + l) \in Seq(Byte)
  <1>1. Len(a) \in Nat /\ from \in Nat /\ from <= Len(a)
    OBVIOUS
  <1>2. 1 \in 1..(Len(a) + 1) /\ from \in (1 - 1)..Len(a) /\ from + l \in from..Len(a)
    BY <1>1
  <1>3. SubSeq(a, 1, from) \o SubSeq(a, from + 1, from + l) = SubSeq(a, 1, from + l)
    BY <1>2, ConcatAdjacentSubSeq
  <1>4. /\ SubSeq(a, from + 1, from + l) \in Seq(Byte)
        /\ SubSeq(a, 1, from + l) \in Seq(Byte)
    BY <1>1, SubSeqProperties
  <1> QED BY <1>3, <1>4

\* LEDGER_PROTOCOL_init establishes the invariant.
LEMMA InitIInv == Init => IInv
  <1> SUFFICES ASSUME Init PROVE IInv
    OBVIOUS
  <1>1. <<>> \in Seq(Byte) /\ Len(<<>>) = 0
    BY EmptySeq
  <1>2. chunk \in [tag : Tags \cup {NoTag}, channel : Channels, seq : Nat, total : Nat,
                   data : Seq(Byte)]
    BY <1>1 DEF Init
  <1>3. PacketsTypeOK
    BY <1>1, <1>2, WordRange, BytesAssumption, LengthsAssumption DEF Init, PacketsTypeOK
  <1>4. txOpen \in BOOLEAN
    BY DEF Init
  <1>5. sent = SubSeq(reply, 1, txOffset)
    <2>1. SubSeq(<<>>, 1, 0) = <<>>
      BY <1>1, SubSeqEmpty
    <2> QED BY <2>1 DEF Init
  <1> QED
    BY <1>1, <1>3, <1>4, <1>5 DEF IInv, TypeOK, RxBounds, TxExact, TxNumbered, Init

\* A packet in sequence is copied inside the buffer and inside the APDU.
LEMMA AppendPacketRx ==
    ASSUME PacketsTypeOK, RxBounds, NEW p \in Packets, p.tag = "APDU", AppendPacket(p)
    PROVE  /\ rxStatus' \in {"WAITING", "NEED_MORE_DATA", "COMPLETE"}
           /\ rxSeq' \in 0..(Word - 1) /\ rxLength' \in 0..(Word - 1) /\ rxOffset' \in 0..(Word - 1)
           /\ rxBuf' \in [0..(MaxLength - 1) -> Byte]
           /\ RxBounds'
  <1> DEFINE from == IF rxSeq = 0 THEN 0 ELSE rxOffset
             l    == Smaller(p.size - Header(rxSeq), rxLength' - from)
  <1>1. /\ p.size \in 0..(Word - 1) /\ p.seq \in 0..(Word - 1) /\ p.total \in 0..(Word - 1)
        /\ p.data \in Seq(Byte) /\ Len(p.data) >= p.size - Header(rxSeq) /\ p.size >= Header(rxSeq)
    BY PacketsAssumption DEF Packet, AppendPacket
  <1>2. Header(rxSeq) \in 5..7
    BY DEF Header
  <1>3. rxLength' \in 0..(Word - 1) /\ rxLength' <= MaxLength
    BY <1>1 DEF AppendPacket, Fits, PacketsTypeOK, RxBounds
  <1>4. from \in Nat /\ from <= rxLength'
    BY <1>3, WordRange DEF AppendPacket, PacketsTypeOK, RxBounds
  <1>5. /\ l \in Nat /\ from + l <= rxLength' /\ l <= p.size - Header(rxSeq)
    <2>1. p.size - Header(rxSeq) \in Nat
      BY <1>1, <1>2
    <2>2. rxLength' \in Nat
      BY <1>3, WordRange
    <2> QED BY <1>4, <2>1, <2>2, CopyEnd
  <1>6. rxBuf' = [k \in DOMAIN rxBuf |->
                     IF k \in from..(from + l - 1) THEN p.data[k - from + 1] ELSE rxBuf[k]]
        /\ rxOffset' = from + l
        /\ IF from + l = rxLength'
             THEN rxSeq' = 0 /\ rxStatus' = "COMPLETE"
             ELSE rxSeq' = (rxSeq + 1) % Word /\ rxStatus' = "NEED_MORE_DATA"
    BY DEF AppendPacket
  <1> HIDE DEF from, l
  <1>7. rxBuf' \in [0..(MaxLength - 1) -> Byte]
    <2>1. ASSUME NEW k \in 0..(MaxLength - 1), k \in from..(from + l - 1)
          PROVE  p.data[k - from + 1] \in Byte
      <3>1. k - from + 1 \in 1..Len(p.data)
        BY <1>1, <1>2, <1>4, <1>5, <2>1, WordRange, LengthsAssumption, SMTT(60)
      <3> QED BY <1>1, <3>1, ElementOfSeq
    <2> QED BY <1>6, <2>1 DEF PacketsTypeOK
  <1>8. rxSeq' \in 0..(Word - 1)
    BY <1>6, WordRange, SMTT(60) DEF PacketsTypeOK
  <1>9. rxOffset' \in 0..(Word - 1)
    BY <1>3, <1>4, <1>5, <1>6, WordRange
  <1> QED
    BY <1>3, <1>4, <1>5, <1>6, <1>7, <1>8, <1>9, WordRange, LengthsAssumption DEF RxBounds

\* A packet received keeps the invariant, whatever the reply it falls in.
LEMMA RxIInv ==
    ASSUME IInv, NEW p \in Packets, Rx(p)
    PROVE  IInv'
  <1>1. p \in Packet /\ p.size \in 0..(Word - 1) /\ p.total \in 0..(Word - 1)
    BY PacketsAssumption DEF Packet
  <1>2. UNCHANGED tx
    BY DEF Rx
  <1>3. chunk' \in [tag : Tags \cup {NoTag}, channel : Channels, seq : Nat, total : Nat,
                    data : Seq(Byte)]
    BY <1>1, EmptySeq DEF Rx, Packet
  <1>4. /\ rxStatus' \in {"WAITING", "NEED_MORE_DATA", "COMPLETE"}
        /\ rxSeq' \in 0..(Word - 1) /\ rxLength' \in 0..(Word - 1) /\ rxOffset' \in 0..(Word - 1)
        /\ rxBuf' \in [0..(MaxLength - 1) -> Byte]
        /\ RxBounds'
    <2>1. CASE p.tag = "APDU" /\ AppendPacket(p)
      BY <2>1, AppendPacketRx DEF IInv, TypeOK
    <2>2. CASE p.tag = "APDU" /\ RejectPacket(p)
      BY <1>1, <2>2 DEF RejectPacket, IInv, TypeOK, PacketsTypeOK, RxBounds
    <2>3. CASE UNCHANGED rx
      BY <2>3 DEF rx, IInv, TypeOK, PacketsTypeOK, RxBounds
    <2> QED BY <2>1, <2>2, <2>3 DEF Rx
  <1>5. chunkLength' \in 0..ChunkSize
    <2>1. CASE chunkLength' = chunkLength
      BY <2>1 DEF IInv, TypeOK, PacketsTypeOK
    <2>2. CASE p.tag \notin {"APDU", "OTHER"} /\ chunkLength' = Control(p)
      <3>1. p.tag \in {"VERSION", "CHANNEL", "PING", "MTU"}
        BY <1>1, <2>2 DEF Packet, Tags
      <3>2. Smaller(ChunkSize, p.size) \in 0..ChunkSize
        BY <1>1, WordRange, LengthsAssumption DEF Smaller
      <3>3. 3 \in 0..ChunkSize /\ 7 \in 0..ChunkSize /\ 8 \in 0..ChunkSize
        BY LengthsAssumption
      <3> QED BY <2>2, <3>1, <3>2, <3>3 DEF Control
    <2> QED BY <2>1, <2>2 DEF Rx
  <1>6. TypeOK'
    BY <1>2, <1>3, <1>4, <1>5 DEF tx, IInv, TypeOK, PacketsTypeOK
  <1>7. TxExact' /\ TxNumbered'
    BY <1>2 DEF tx, IInv, TxExact, TxNumbered
  <1> QED BY <1>4, <1>6, <1>7 DEF IInv

\* A packet of the reply goes on exactly where the previous one ended.
LEMMA TxPacketIInv ==
    ASSUME IInv, NEW a \in Seq(Byte), Len(a) \in 0..(Word - 1), NEW s \in Nat, NEW from \in 0..Len(a),
           s = 0 => from = 0, s > 0 => from = Position(s),
           NEW before \in Seq(Byte), before = SubSeq(a, 1, from),
           TxPacket(a, s, from), sent' = before \o chunk'.data
    PROVE  IInv'
  <1>a. from \in Nat /\ Len(a) \in Nat
    BY WordRange
  <1>1. PICK room \in Nat \ {0}, l \in Nat :
          /\ room = Mtu - Header(s) /\ l = Smaller(room, Len(a) - from)
          /\ Header(s) + l \in 0..ChunkSize
          /\ from + l <= Len(a)
          /\ Len(a) - from >= room => l = room
          /\ ~(Len(a) - from >= room) => from + l = Len(a)
    BY <1>a, Taken
  <1> DEFINE d == SubSeq(a, from + 1, from + l)
  <1>2. /\ reply' = a /\ txOffset' = from + l /\ chunkLength' = Header(s) + l
        /\ chunk' = [tag |-> "APDU", channel |-> chunk.channel, seq |-> s,
                     total |-> IF s = 0 THEN Len(a) ELSE 0, data |-> d]
        /\ IF Len(a) - from >= room THEN txSeq' = s + 1 /\ txOpen' = TRUE ELSE txSeq' = s /\ txOpen' = FALSE
        /\ UNCHANGED rx
    BY <1>1 DEF TxPacket, Fills
  <1>3. d \in Seq(Byte)
    BY <1>1, Joined
  <1>4. chunk' \in [tag : Tags \cup {NoTag}, channel : Channels, seq : Nat, total : Nat,
                    data : Seq(Byte)]
    <2>1. chunk.channel \in Channels
      BY DEF IInv, TypeOK, PacketsTypeOK
    <2>2. (IF s = 0 THEN Len(a) ELSE 0) \in Nat
      BY <1>a
    <2> HIDE DEF d
    <2> QED BY <1>2, <1>3, <2>1, <2>2 DEF Tags
  <1>5. sent' = SubSeq(a, 1, from + l) /\ sent' \in Seq(Byte)
    <2>1. chunk'.data = SubSeq(a, from + 1, from + l)
      BY <1>2
    <2>2. sent' = SubSeq(a, 1, from) \o SubSeq(a, from + 1, from + l)
      BY <2>1
    <2>3. /\ SubSeq(a, 1, from) \o SubSeq(a, from + 1, from + l) = SubSeq(a, 1, from + l)
          /\ SubSeq(a, 1, from + l) \in Seq(Byte)
      BY <1>1, Joined
    <2> HIDE DEF d
    <2> QED BY <2>2, <2>3
  <1>7. chunkLength' \in 0..ChunkSize
    BY <1>1, <1>2
  <1>8. txSeq' \in Nat /\ txOffset' \in Nat /\ txOpen' \in BOOLEAN
    <2>1. (txSeq' = s + 1 /\ txOpen' = TRUE) \/ (txSeq' = s /\ txOpen' = FALSE)
      BY <1>2
    <2>2. txSeq' \in Nat
      BY <2>1
    <2>3. txOffset' \in Nat
      <3>1. txOffset' = from + l
        BY <1>2
      <3>2. from + l \in Nat
        BY <1>a
      <3> QED BY <3>1, <3>2
    <2>4. txOpen' \in BOOLEAN
      BY <2>1, Zenon
    <2> QED BY <2>2, <2>3, <2>4
  <1>9. TypeOK'
    BY <1>2, <1>4, <1>5, <1>7, <1>8 DEF rx, IInv, TypeOK, PacketsTypeOK
  <1>10. RxBounds'
    BY <1>2 DEF rx, IInv, RxBounds
  <1>11. TxExact'
    <2>1. txOffset' <= Len(reply')
      BY <1>1, <1>2
    <2>2. ~txOpen' => txOffset' = Len(reply')
      BY <1>1, <1>2
    <2> QED BY <1>2, <1>5, <2>1, <2>2 DEF TxExact
  <1>12. TxNumbered'
    <2> SUFFICES ASSUME txOpen' PROVE txSeq' > 0 /\ txOffset' = Position(txSeq')
      BY DEF TxNumbered
    <2>1. txSeq' = s + 1 /\ txOffset' = from + room
      BY <1>1, <1>2
    <2>2. CASE s = 0
      BY <1>1, <2>1, <2>2, Room, NextPosition
    <2>3. CASE s > 0
      BY <1>1, <2>1, <2>3, Room, NextPosition
    <2> QED BY <2>2, <2>3
  <1> QED BY <1>9, <1>10, <1>11, <1>12 DEF IInv

\* Every call keeps the invariant.
LEMMA NextIInv ==
    ASSUME IInv, [Next]_vars
    PROVE  IInv'
  <1>1. ASSUME NEW p \in Packets, Rx(p) PROVE IInv'
    BY <1>1, RxIInv
  <1>2. ASSUME NEW a \in Replies, TxFirst(a) PROVE IInv'
    <2>1. a \in Seq(Byte) /\ Len(a) \in 0..(Word - 1)
      BY RepliesAssumption
    <2>2. <<>> \in Seq(Byte) /\ <<>> = SubSeq(a, 1, 0)
      BY <2>1, EmptySeq, SubSeqEmpty
    <2>3. TxPacket(a, 0, 0) /\ sent' = chunk'.data
      BY <1>2 DEF TxFirst
    <2>4. chunk'.data \in Seq(Byte)
      <3>1. chunk'.data = SubSeq(a, 0 + 1, 0 + Smaller(Mtu - Header(0), Len(a) - 0))
        BY <2>3 DEF TxPacket
      <3>2. Smaller(Mtu - Header(0), Len(a) - 0) \in 0..Len(a)
        BY <2>1, Room DEF Smaller
      <3> HIDE DEF Smaller
      <3> QED BY <2>1, <3>1, <3>2, SubSeqProperties
    <2>5. sent' = <<>> \o chunk'.data
      BY <2>3, <2>4, ConcatEmptySeq
    <2>6. 0 \in 0..Len(a) /\ 0 \in Nat
      BY <2>1
    <2>7. 0 = 0 => 0 = 0
      OBVIOUS
    <2>8. 0 > 0 => 0 = Position(0)
      OBVIOUS
    <2> QED BY <2>1, <2>2, <2>3, <2>5, <2>6, <2>7, <2>8, TxPacketIInv
  <1>3. ASSUME TxNext PROVE IInv'
    <2>1. txOpen /\ TxPacket(reply, txSeq, txOffset) /\ sent' = sent \o chunk'.data
      BY <1>3 DEF TxNext
    <2>2. /\ reply \in Seq(Byte) /\ Len(reply) \in 0..(Word - 1) /\ sent \in Seq(Byte)
          /\ txSeq \in Nat /\ txOffset \in Nat
      BY DEF IInv, TypeOK, PacketsTypeOK
    <2>3. txOffset <= Len(reply) /\ sent = SubSeq(reply, 1, txOffset)
      BY DEF IInv, TxExact
    <2>4. txOffset \in 0..Len(reply)
      BY <2>2, <2>3
    <2>5. txSeq > 0 /\ txOffset = Position(txSeq)
      BY <2>1 DEF IInv, TxNumbered
    <2>6. ~(txSeq = 0)
      BY <2>2, <2>5
    <2> QED BY <2>1, <2>2, <2>3, <2>4, <2>5, <2>6, TxPacketIInv
  <1>4. CASE UNCHANGED vars
    BY <1>4 DEF vars, rx, tx, IInv, TypeOK, PacketsTypeOK, RxBounds, TxExact, TxNumbered
  <1> QED BY <1>1, <1>2, <1>3, <1>4 DEF Next

\* The structure keeps its types, whatever packets come and whatever is replied.
THEOREM TypeCorrect == Spec => []TypeOK
  <1>1. IInv => TypeOK
    BY DEF IInv
  <1> QED BY InitIInv, NextIInv, <1>1, PTL DEF Spec

\* process_apdu_chunk copies inside the buffer of the caller, whatever the host sends,
\* and reports an APDU complete only when it has all its bytes.
THEOREM ReceptionBounds == Spec => []RxBounds
  <1>1. IInv => RxBounds
    BY DEF IInv
  <1> QED BY InitIInv, NextIInv, <1>1, PTL DEF Spec

\* LEDGER_PROTOCOL_tx cuts every reply into packets that carry it exactly.
THEOREM ReplyExact == Spec => []TxExact
  <1>1. IInv => TxExact
    BY DEF IInv
  <1> QED BY InitIInv, NextIInv, <1>1, PTL DEF Spec

\* The number of packets sent gives the position in the reply.
THEOREM ReplyNumbered == Spec => []TxNumbered
  <1>1. IInv => TxNumbered
    BY DEF IInv
  <1> QED BY InitIInv, NextIInv, <1>1, PTL DEF Spec
=============================================================================
