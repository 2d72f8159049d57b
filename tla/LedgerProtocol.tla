----------------------------- MODULE LedgerProtocol -----------------------------
(***************************************************************************)
(* The packet protocol of src/ledger_protocol.c: one structure holds the   *)
(* reassembly of the incoming APDU, the segmentation of the outgoing one   *)
(* and the packet both sides prepare.  Nothing in the repository calls it: *)
(* the caller here is any program that passes it packets received from the *)
(* host, and replies with calls of LEDGER_PROTOCOL_tx until the reply has  *)
(* left.                                                                   *)
(***************************************************************************)
EXTENDS Integers, Sequences

CONSTANTS
    MaxLength,  \* rx_apdu_buffer_max_length
    Mtu,        \* mtu
    ChunkSize,  \* sizeof(chunk)
    Byte,       \* contents of a byte of an APDU
    Zero,       \* the byte the caller's buffer holds at first
    Channels,   \* channel identifiers
    Packets,    \* the packets the host may send
    Replies     \* the replies, sequences of bytes

Word == 65536   \* values of a uint16_t

Tags == {"VERSION", "CHANNEL", "PING", "APDU", "MTU", "OTHER"}
Packet == [tag : Tags, channel : Channels, size : 0..(Word - 1), seq : 0..(Word - 1),
           total : 0..(Word - 1), data : Seq(Byte)]

\* Bytes of a packet before the bytes of an APDU: channel, tag, sequence number
\* and, in the first packet, total length.
Header(s) == IF s = 0 THEN 7 ELSE 5

ASSUME LengthsAssumption ==
    /\ MaxLength \in 1..(Word - 1) /\ ChunkSize \in 8..255 /\ Mtu \in 8..ChunkSize
ASSUME BytesAssumption == Zero \in Byte
ASSUME PacketsAssumption ==
    /\ Packets \subseteq Packet
    /\ \A p \in Packets : p.tag = "APDU" => Len(p.data) >= p.size - Header(p.seq)
ASSUME RepliesAssumption == \A a \in Replies : a \in Seq(Byte) /\ Len(a) \in 0..(Word - 1)

VARIABLES
    rxStatus,     \* rx_apdu_status
    rxSeq,        \* rx_apdu_sequence_number
    rxLength,     \* rx_apdu_length
    rxOffset,     \* rx_apdu_offset
    rxBuf,        \* rx_apdu_buffer
    txOpen,       \* tx_apdu_buffer is not NULL
    reply,        \* what tx_apdu_buffer points to, tx_apdu_length bytes
    txSeq,        \* tx_apdu_sequence_number
    txOffset,     \* tx_apdu_offset
    chunk,        \* chunk: the packet prepared for the host
    chunkLength,  \* chunk_length
    sent          \* history: bytes of the reply put in packets

rx == <<rxStatus, rxSeq, rxLength, rxOffset, rxBuf>>
tx == <<txOpen, reply, txSeq, txOffset, sent>>
vars == <<rx, tx, chunk, chunkLength>>

NoTag == "NONE"

PacketsTypeOK ==
    /\ rxStatus \in {"WAITING", "NEED_MORE_DATA", "COMPLETE"}
    /\ rxSeq \in 0..(Word - 1) /\ rxLength \in 0..(Word - 1) /\ rxOffset \in 0..(Word - 1)
    /\ rxBuf \in [0..(MaxLength - 1) -> Byte]
    /\ reply \in Seq(Byte) /\ Len(reply) \in 0..(Word - 1)
    /\ txSeq \in Nat /\ txOffset \in Nat
    /\ sent \in Seq(Byte)
    /\ chunk \in [tag : Tags \cup {NoTag}, channel : Channels, seq : Nat, total : Nat, data : Seq(Byte)]
    /\ chunkLength \in 0..ChunkSize

TypeOK ==
    /\ PacketsTypeOK
    /\ txOpen \in BOOLEAN

\* LEDGER_PROTOCOL_init, on a structure of zeros.
Init ==
    /\ rxStatus = "WAITING" /\ rxSeq = 0
    /\ rxLength = 0 /\ rxOffset = 0 /\ rxBuf = [k \in 0..(MaxLength - 1) |-> Zero]
    /\ txOpen = FALSE /\ reply = <<>> /\ txSeq = 0 /\ txOffset = 0 /\ sent = <<>>
    /\ \E c \in Channels :
         chunk = [tag |-> NoTag, channel |-> c, seq |-> 0, total |-> 0, data |-> <<>>]
    /\ chunkLength = 0

Smaller(a, b) == IF a < b THEN a ELSE b

-----------------------------------------------------------------------------
(* LEDGER_PROTOCOL_rx. *)

\* An APDU announced longer than the buffer is refused.
FitsOneMore(p) == p.total <= MaxLength + 1   \* mutant
Fits(p) == p.total <= MaxLength

\* Out of sequence, cut in its header, or announcing more than the buffer holds:
\* the sequence number stays where it is.
RejectPacket(p) ==
    /\ rxStatus' = "WAITING"
    /\ \/ /\ p.size < 5 \/ p.seq # rxSeq \/ (p.size < 7 /\ rxSeq = 0)
          /\ UNCHANGED rxLength
       \/ /\ p.size >= 7 /\ p.seq = 0 /\ rxSeq = 0 /\ ~Fits(p)
          /\ rxLength' = p.total
    /\ UNCHANGED <<rxSeq, rxOffset, rxBuf>>

\* In sequence: the bytes of the packet that the APDU still lacks are copied.
AppendPacket(p) ==
    /\ p.size >= Header(rxSeq) /\ p.seq = rxSeq
    /\ IF rxSeq = 0 THEN Fits(p) /\ rxLength' = p.total ELSE UNCHANGED rxLength
    /\ LET from == IF rxSeq = 0 THEN 0 ELSE rxOffset
           l    == Smaller(p.size - Header(rxSeq), rxLength' - from)
       IN /\ rxBuf' = [k \in DOMAIN rxBuf |->
                          IF k \in from..(from + l - 1) THEN p.data[k - from + 1] ELSE rxBuf[k]]
          /\ rxOffset' = from + l
          /\ IF from + l = rxLength'
               THEN rxSeq' = 0 /\ rxStatus' = "COMPLETE"
               ELSE rxSeq' = (rxSeq + 1) % Word /\ rxStatus' = "NEED_MORE_DATA"

\* The packet prepared in answer to a control request.
Control(p) ==
    CASE p.tag = "VERSION" -> 7
      [] p.tag = "CHANNEL" -> 3
      [] p.tag = "PING"    -> Smaller(ChunkSize, p.size)
      [] p.tag = "MTU"     -> 8

\* Every packet of 3 bytes or more wipes the one prepared, and leaves its channel there.
Rx(p) ==
    /\ p.size >= 3
    /\ chunk' = [tag |-> IF p.tag \in {"APDU", "OTHER"} THEN NoTag ELSE p.tag,
                 channel |-> p.channel, seq |-> 0, total |-> 0, data |-> <<>>]
    /\ \/ /\ p.tag = "APDU" /\ (RejectPacket(p) \/ AppendPacket(p))
          /\ UNCHANGED chunkLength
       \/ /\ p.tag = "OTHER" /\ UNCHANGED <<rx, chunkLength>>
       \/ /\ p.tag \notin {"APDU", "OTHER"} /\ UNCHANGED rx
          /\ chunkLength' = Control(p)
    /\ UNCHANGED tx

-----------------------------------------------------------------------------
(* LEDGER_PROTOCOL_tx. *)

\* What is left of a reply fills a packet, or does not fit in it.
FillsTooLate(left, room) == left >= room + 2   \* mutant
Fills(left, room) == left >= room

\* The packet numbered s of reply a, from offset from on.  When the rest of the
\* reply fills the packet or does not fit in it, the reply stays open.
TxPacket(a, s, from) ==
    LET room == Mtu - Header(s)
        left == Len(a) - from
        l    == Smaller(room, left)
    IN /\ reply' = a
       /\ chunk' = [tag |-> "APDU", channel |-> chunk.channel, seq |-> s,
                    total |-> IF s = 0 THEN Len(a) ELSE 0, data |-> SubSeq(a, from + 1, from + l)]
       /\ chunkLength' = Header(s) + l
       /\ txOffset' = from + l
       /\ IF Fills(left, room)
            THEN txSeq' = s + 1 /\ txOpen' = TRUE
            ELSE txSeq' = s /\ txOpen' = FALSE
       /\ UNCHANGED rx

\* The caller starts a reply, and drops the one that is open: buffer is not NULL.
TxFirst(a) == TxPacket(a, 0, 0) /\ sent' = chunk'.data

\* Mutant: a call without a buffer is refused.
TxNextRefused == FALSE /\ UNCHANGED vars

\* The caller asks for the next packet: buffer is NULL.
TxNext == txOpen /\ TxPacket(reply, txSeq, txOffset) /\ sent' = sent \o chunk'.data

Next ==
    \/ \E p \in Packets : Rx(p)
    \/ \E a \in Replies : TxFirst(a)
    \/ TxNext

Spec == Init /\ [][Next]_vars

\* The caller that has been told that a packet has left asks for the next one.
FairSpec == Spec /\ WF_vars(TxNext)

-----------------------------------------------------------------------------
\* Whatever packets come, in whatever order and after whatever errors, the next
\* copy of process_apdu_chunk ends inside the buffer of the caller, and an APDU is
\* complete only when its announced length was received.
RxBounds ==
    /\ rxSeq # 0 => rxOffset <= rxLength /\ rxLength <= MaxLength
    /\ rxStatus = "COMPLETE" => rxOffset = rxLength /\ rxLength <= MaxLength /\ rxSeq = 0

\* The packets of LEDGER_PROTOCOL_tx carry the reply, each byte once and in order,
\* through the packets received in between; a closed reply has left whole.
TxExact ==
    /\ txOffset <= Len(reply)
    /\ sent = SubSeq(reply, 1, txOffset)
    /\ ~txOpen => txOffset = Len(reply)

\* The bytes that the first s packets of a reply carry when they are full.
Position(s) == (Mtu - 7) + (s - 1) * (Mtu - 5)

\* The position in an open reply is the one its packet number gives: a packet
\* received or a reply started in between never skips or repeats a part of it.
TxNumbered == txOpen => txSeq > 0 /\ txOffset = Position(txSeq)

\* A caller that starts no other reply comes to the end of the one that is open,
\* whatever packets it receives meanwhile: LEDGER_PROTOCOL_tx closes a reply, also
\* one that exactly fills its last packet.
ReplyLeaves == <>[][\A a \in Replies : ~TxFirst(a)]_vars => []<>~txOpen
=============================================================================
