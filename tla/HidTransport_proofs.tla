-------------------------- MODULE HidTransport_proofs --------------------------
(***************************************************************************)
(* Proofs about HidTransport for every report size, buffer size and set of *)
(* reports.                                                                *)
(***************************************************************************)
EXTENDS HidTransport, SequenceTheorems, TLAPS

\* A state that is not idle names the interface the media names, so that the
\* reply of io_exchange leaves on the interface of the command.
Gate == apduState # IDLE => apduMedia = apduState

\* io_exchange waits only for a command it has a media for: the gate of the
\* data-out handlers is closed all along a reply.
ReplyGate == replying => apduMedia # NONE

\* A position in the buffer comes with a chunk already numbered.
Started == current # NULL => seq >= 1

\* While the chunks of a reply leave, their position follows from their number.
ChunkPosition ==
    replying /\ apduState # IDLE /\ current # NULL
        => current = Smaller(total, (EpLen - 7) + (seq - 1) * (EpLen - 5))

\* What the transport keeps whatever is above it: the modules that compose it with
\* io_exchange or with a host cite its lemmas.
Transport == TransportTypeOK /\ InBounds /\ ChunkPosition /\ Gate /\ ReplyGate /\ Started

\* With this transport alone, chunks are left only as long as the state is not idle.
Sending == replying /\ current # NULL => apduState # IDLE

IInv == TypeOK /\ Transport /\ Sending

\* All that the proofs need of the width of a short.
LEMMA WordRange == Word \in Nat /\ Word > 0
  BY DEF Word

\* The bytes of a report, and the zeros after them, are bytes.
LEMMA ContentType ==
    ASSUME NEW r \in Report, NEW k \in Nat
    PROVE  Content(r, k) \in Byte
  BY ByteAssumption DEF Content, Report

\* What is copied is never more than what is left, nor negative, even for a report
\* shorter than its header.
LEMMA CopiedBound ==
    ASSUME NEW r \in Report, NEW left \in Nat
    PROVE  /\ Copied(r, left) \in Nat
           /\ Copied(r, left) <= left
  <1> DEFINE w == (r.size - Header(r.seq)) % Word
  <1>0. r.size \in 0..255
    BY DEF Report
  <1>1. r.size \in Int /\ Header(r.seq) \in Int
    BY <1>0 DEF Header
  <1>2. w \in Nat
    BY <1>1, WordRange
  <1>3. EpLen - Header(r.seq) \in Nat
    BY LengthAssumption DEF Header
  <1> QED
    BY <1>2, <1>3 DEF Copied, Smaller

\* Preparing a chunk advances the position by what it takes from what is left,
\* and extends the endpoint by a report.
LEMMA SendChunkStep ==
    ASSUME NEW i \in Interfaces, NEW q \in Seq(InReport), NEW s \in Nat, NEW from \in Nat,
           NEW left \in Nat, NEW buf \in [0..(BufLen - 1) -> Byte],
           TransportTypeOK, from + left <= BufLen, SendChunk(i, q, s, from, left, buf)
    PROVE  /\ seq' = s + 1 /\ current' \in Nat /\ remaining' \in Nat
           /\ current' = from + Smaller(left, EpLen - Header(s))
           /\ current' + remaining' = from + left
           /\ inEp' \in [Interfaces -> Seq(InReport)]
  <1> DEFINE l == ChunkLength(s, left)
             d == [k \in 1..l |-> buf[from + k - 1]]
             rep == [tag |-> "APDU", channel |-> channel, seq |-> s,
                     total |-> IF s = 0 THEN left ELSE 0, data |-> d]
  <1>1. l \in Nat /\ l <= left
    BY LengthAssumption DEF ChunkLength, Smaller, Header
  <1>2. seq' = s + 1 /\ current' = from + l /\ remaining' = left - l
        /\ inEp' = [inEp EXCEPT ![i] = Append(q, rep)]
    BY DEF SendChunk
  <1>3. \A k \in 1..l : buf[from + k - 1] \in Byte
    <2> TAKE k \in 1..l
    <2>1. from + k - 1 \in 0..(BufLen - 1)
      BY <1>1, LengthAssumption
    <2> QED BY <2>1
  <1>4. d \in [1..l -> Byte]
    BY <1>3
  <1>5. d \in Seq(Byte)
    <2> HIDE DEF d
    <2> QED BY <1>1, <1>4, SeqDef
  <1>6. rep \in InReport
    <2>1. channel \in Channels
      BY DEF TransportTypeOK
    <2>2. (IF s = 0 THEN left ELSE 0) \in Nat
      OBVIOUS
    <2> HIDE DEF d
    <2> QED BY <1>5, <2>1, <2>2 DEF InReport, Tags
  <1>7. Append(q, rep) \in Seq(InReport)
    <2> HIDE DEF rep
    <2> QED BY <1>6, AppendProperties
  <1>8. inEp' \in [Interfaces -> Seq(InReport)]
    <2> HIDE DEF rep
    <2> QED BY <1>2, <1>7 DEF TransportTypeOK
  <1>9. current' = from + Smaller(left, EpLen - Header(s))
    BY <1>2 DEF ChunkLength
  <1> QED
    BY <1>1, <1>2, <1>8, <1>9

\* A closed endpoint holds nothing.
LEMMA EmptyEndpoints == [i \in Interfaces |-> <<>>] \in [Interfaces -> Seq(InReport)]
  <1>1. <<>> \in Seq(InReport)
    BY EmptySeq
  <1> QED BY <1>1

\* The device starts with nothing in progress.
LEMMA InitTransport == Init => Transport
  <1> SUFFICES ASSUME Init PROVE Transport
    OBVIOUS
  <1>1. inEp \in [Interfaces -> Seq(InReport)]
    BY EmptyEndpoints DEF Init
  <1>2. TransportTypeOK
    BY <1>1, ByteAssumption, WordRange DEF Init, TransportTypeOK
  <1>3. InBounds /\ ChunkPosition /\ Gate /\ ReplyGate /\ Started
    BY DEF Init, InBounds, ChunkPosition, Gate, ReplyGate, Started
  <1> QED BY <1>2, <1>3 DEF Transport

\* A report in sequence keeps the invariant: the position never passes the total.
LEMMA AppendChunkTransport ==
    ASSUME Transport, NEW i \in Interfaces, NEW r \in Report, apduMedia = NONE, AppendChunk(i, r)
    PROVE  Transport'
  <1> DEFINE left == IF seq = 0 THEN r.total ELSE remaining
             from == IF seq = 0 THEN 0 ELSE current
             l    == Copied(r, left)
  <1>1. r.total \in 0..(Word - 1) /\ r.channel \in Channels
    BY DEF Report
  <1>2. left \in Nat
    BY <1>1 DEF Transport, TransportTypeOK
  <1>3. l \in Nat /\ l <= left
    BY <1>2, CopiedBound
  <1>4. ~replying
    BY DEF Transport, ReplyGate
  <1>5. total' \in 0..(Word - 1) /\ channel' \in Channels
    BY <1>1 DEF AppendChunk, Fits, Transport, TransportTypeOK
  <1>6. apduBuf' \in [0..(BufLen - 1) -> Byte]
    <2>1. apduBuf' = Fill(from, r, l)
      BY DEF AppendChunk
    <2>2. from \in Int
      BY DEF Transport, TransportTypeOK, NULL
    <2>3. ASSUME NEW k \in 0..(BufLen - 1), k \in from..(from + l - 1)
          PROVE  Content(r, k - from) \in Byte
      <3> HIDE DEF l, from
      <3>1. k - from \in Nat
        BY <2>2, <2>3, <1>3
      <3> QED BY <3>1, ContentType
    <2> HIDE DEF l, from
    <2> QED BY <2>1, <2>3 DEF Fill, Transport, TransportTypeOK
  <1>7. inEp' = inEp /\ replying' = replying
    BY DEF AppendChunk
  <1>8. CASE left - l > 0
    <2>1. /\ remaining' = left - l /\ current' = from + l /\ seq' = seq + 1
          /\ UNCHANGED app
      BY <1>8 DEF AppendChunk
    <2>2. seq # 0 => current # NULL
      BY DEF Transport, TransportTypeOK, InBounds, NULL
    <2>3. from \in Nat /\ from + left = total' /\ total' <= BufLen
      <3>1. CASE seq = 0
        BY <1>1, <3>1 DEF AppendChunk, Fits
      <3>2. CASE seq # 0
        BY <2>2, <3>2 DEF AppendChunk, Fits, Transport, TransportTypeOK, InBounds
      <3> QED BY <3>1, <3>2
    <2>4. current' + remaining' = total' /\ current' \in Nat /\ remaining' \in Nat
      <3> HIDE DEF l, left, from
      <3> QED BY <1>2, <1>3, <1>8, <2>1, <2>3
    <2>5. TransportTypeOK'
      BY <1>5, <1>6, <1>7, <2>1, <2>4 DEF Transport, TransportTypeOK, app
    <2> QED
      BY <1>4, <1>7, <2>1, <2>3, <2>4, <2>5
      DEF Transport, TransportTypeOK, InBounds, ChunkPosition, Gate, ReplyGate, Started, app, NULL
  <1>9. CASE ~(left - l > 0)
    <2>1. HidInit /\ Received(i)
      BY <1>9 DEF AppendChunk
    <2>2. TransportTypeOK'
      BY <1>5, <1>6, <1>7, <2>1 DEF Transport, TransportTypeOK, HidInit, Received
    <2> QED
      BY <1>4, <1>7, <2>1, <2>2
      DEF Transport, InBounds, ChunkPosition, Gate, ReplyGate, Started, HidInit, Received
  <1> QED BY <1>8, <1>9

\* The other outcomes of a report reset the reception or leave it.
LEMMA OtherReportTransport ==
    ASSUME Transport, NEW i \in Interfaces, NEW r \in Report, apduMedia = NONE,
           RejectChunk(r) \/ AnswerControl(i, r) \/ UnknownTag(i, r)
    PROVE  Transport'
  <1>0. ~replying
    BY DEF Transport, ReplyGate
  <1>1. CASE RejectChunk(r)
    <2>1. total' \in 0..(Word - 1)
      BY <1>1 DEF RejectChunk, Report, Transport, TransportTypeOK
    <2> QED
      BY <1>0, <1>1, <2>1 DEF RejectChunk, HidInit, app, Transport, TransportTypeOK, InBounds, ChunkPosition,
         Gate, ReplyGate, Started
  <1>2. CASE AnswerControl(i, r)
    <2> DEFINE rep == [tag |-> r.tag, channel |-> r.channel, seq |-> 0, total |-> 0, data |-> <<>>]
    <2>1. r.tag \in Tags /\ r.channel \in Channels
      BY DEF Report
    <2>2. rep \in InReport
      BY <2>1 DEF InReport
    <2>3. Append(inEp[i], rep) \in Seq(InReport)
      <3> HIDE DEF rep
      <3> QED BY <2>2, AppendProperties DEF Transport, TransportTypeOK
    <2>4. inEp' \in [Interfaces -> Seq(InReport)]
      <3>1. inEp' = [inEp EXCEPT ![i] = Append(@, rep)]
        BY <1>2 DEF AnswerControl
      <3> HIDE DEF rep
      <3> QED BY <3>1, <2>3 DEF Transport, TransportTypeOK
    <2> QED
      BY <1>0, <1>2, <2>4 DEF AnswerControl, HidInit, app, Transport, TransportTypeOK, InBounds, ChunkPosition,
         Gate, ReplyGate, Started
  <1>3. CASE UnknownTag(i, r)
    <2>1. TransportTypeOK'
      BY <1>3 DEF UnknownTag, HidInit, Received, app, Transport, TransportTypeOK
    <2>2. InBounds' /\ Started'
      BY <1>3 DEF UnknownTag, HidInit, Transport, InBounds, Started
    <2>3. ChunkPosition' /\ ReplyGate'
      BY <1>0, <1>3 DEF UnknownTag, ChunkPosition, ReplyGate
    <2>4. Gate'
      BY <1>3 DEF UnknownTag, Received, app, Transport, Gate
    <2> QED BY <2>1, <2>2, <2>3, <2>4 DEF Transport
  <1> QED BY <1>1, <1>2, <1>3

\* An acknowledgement sends a chunk of what is left, whichever direction it belongs to.
LEMMA DataInTransport ==
    ASSUME Transport, NEW i \in Interfaces, DataIn(i)
    PROVE  Transport'
  <1>1. Tail(inEp[i]) \in Seq(InReport)
    BY DEF DataIn, Transport, TransportTypeOK
  <1>2. CASE remaining # 0 /\ current # NULL
    <2>1. /\ SendChunk(i, Tail(inEp[i]), seq, current, remaining, apduBuf)
          /\ UNCHANGED <<apduState, total, channel, apduMedia, apduLength, apduBuf, replying>>
      BY <1>2 DEF DataIn
    <2>2. current \in Nat /\ seq \in Nat /\ remaining \in Nat /\ current + remaining = total
          /\ total <= BufLen /\ apduBuf \in [0..(BufLen - 1) -> Byte] /\ seq >= 1
      BY <1>2 DEF Transport, TransportTypeOK, InBounds, Started
    <2>3. /\ seq' = seq + 1 /\ current' \in Nat /\ remaining' \in Nat
          /\ current' = current + Smaller(remaining, EpLen - Header(seq))
          /\ current' + remaining' = current + remaining
          /\ inEp' \in [Interfaces -> Seq(InReport)]
      BY <1>1, <2>1, <2>2, SendChunkStep DEF Transport
    <2>4. TransportTypeOK'
      BY <2>1, <2>3 DEF Transport, TransportTypeOK
    <2>5. InBounds'
      BY <2>1, <2>2, <2>3 DEF InBounds, NULL
    <2>6. ASSUME replying, apduState # IDLE
          PROVE  current' = Smaller(total, (EpLen - 7) + (seq' - 1) * (EpLen - 5))
      <3> DEFINE c == EpLen - 5
                 p == (seq - 1) * c
      <3>1. c \in Nat /\ EpLen \in Nat /\ p \in Int
        BY LengthAssumption, <2>2
      <3>2. current = Smaller(total, (EpLen - 7) + p)
        BY <1>2, <2>6 DEF Transport, ChunkPosition
      <3>3. (seq' - 1) * c = p + c
        BY <2>2, <2>3, <3>1
      <3>4. Header(seq) = 5
        BY <2>2 DEF Header
      <3>5. current' = current + Smaller(remaining, c)
        BY <2>3, <3>4
      <3> HIDE DEF c, p
      <3>6. current' = Smaller(total, (EpLen - 7) + p + c)
        BY <1>2, <2>2, <3>1, <3>2, <3>5 DEF Smaller, Transport, TransportTypeOK
      <3>7. (EpLen - 7) + (seq' - 1) * c = (EpLen - 7) + p + c
        BY <3>1, <3>3
      <3> QED BY <3>6, <3>7 DEF c
    <2> QED
      BY <2>1, <2>2, <2>3, <2>4, <2>5, <2>6 DEF Transport, ChunkPosition, Gate, ReplyGate, Started
  <1>3. CASE ~(remaining # 0 /\ current # NULL)
    <2>1. /\ HidInit /\ apduState' = IDLE
          /\ inEp' = [inEp EXCEPT ![i] = Tail(@)]
          /\ UNCHANGED <<total, channel, apduMedia, apduLength, apduBuf, replying>>
      BY <1>3 DEF DataIn
    <2>2. inEp' \in [Interfaces -> Seq(InReport)]
      BY <1>1, <2>1 DEF Transport, TransportTypeOK
    <2> QED
      BY <2>1, <2>2
      DEF HidInit, Transport, TransportTypeOK, InBounds, ChunkPosition, Gate, ReplyGate, Started
  <1> QED BY <1>2, <1>3

\* Bytes sent from the start of the buffer open with their first chunk.
LEMMA SentTransport ==
    ASSUME Transport, NEW a \in Seq(Byte), Len(a) \in 1..BufLen, apduState \in Interfaces, SendReply(a)
    PROVE  Transport'
  <1> DEFINE n == Len(a)
             buf == [k \in DOMAIN apduBuf |-> IF k < n THEN a[k + 1] ELSE apduBuf[k]]
  <1>0. a \in Seq(Byte) /\ n \in 1..BufLen
    OBVIOUS
  <1>1. buf \in [0..(BufLen - 1) -> Byte]
    <2>1. \A k \in 0..(BufLen - 1) : k < n => a[k + 1] \in Byte
      BY <1>0, ElementOfSeq
    <2> HIDE DEF n
    <2> QED BY <2>1 DEF Transport, TransportTypeOK
  <1>2. apduState \in Interfaces
    OBVIOUS
  <1>3. /\ apduBuf' = buf /\ SendChunk(apduState, inEp[apduState], 0, 0, n, buf)
        /\ total' = n /\ replying' = TRUE /\ UNCHANGED <<channel, app>>
    BY DEF SendReply
  <1> HIDE DEF n
  <1>4. inEp[apduState] \in Seq(InReport)
    BY <1>2 DEF Transport, TransportTypeOK
  <1> HIDE DEF buf
  <1>5. n \in Nat /\ n <= BufLen /\ 0 + n <= BufLen
    BY <1>0, LengthAssumption
  <1>6. /\ seq' = 1 /\ current' \in Nat /\ remaining' \in Nat
        /\ current' = Smaller(n, EpLen - Header(0))
        /\ current' + remaining' = n
        /\ inEp' \in [Interfaces -> Seq(InReport)]
    <2>1. /\ seq' = 0 + 1 /\ current' \in Nat /\ remaining' \in Nat
          /\ current' = 0 + Smaller(n, EpLen - Header(0))
          /\ current' + remaining' = 0 + n
          /\ inEp' \in [Interfaces -> Seq(InReport)]
      BY <1>1, <1>2, <1>3, <1>4, <1>5, SendChunkStep DEF Transport
    <2>2. Smaller(n, EpLen - Header(0)) \in Int
      BY <1>5, LengthAssumption DEF Smaller, Header
    <2> QED BY <2>1, <2>2, <1>5
  <1>7. TransportTypeOK'
    BY <1>1, <1>3, <1>5, <1>6, LengthAssumption, WordRange DEF Transport, TransportTypeOK, app
  <1>8. InBounds'
    BY <1>3, <1>5, <1>6 DEF InBounds, NULL
  <1>9. ChunkPosition'
    <2>1. (EpLen - 7) + (seq' - 1) * (EpLen - 5) = EpLen - 7
      BY <1>6, LengthAssumption
    <2> QED BY <1>3, <1>6, <2>1 DEF ChunkPosition, Header
  <1>10. Gate' /\ ReplyGate' /\ Started'
    BY <1>2, <1>3, <1>6, InterfacesAssumption
    DEF Transport, Gate, ReplyGate, Started, app
  <1> QED BY <1>7, <1>8, <1>9, <1>10 DEF Transport

\* A reply opens with its first chunk, at the start of the buffer.
LEMMA ReplyTransport ==
    ASSUME Transport, NEW a \in Replies, apduState \in Interfaces, SendReply(a)
    PROVE  Transport'
  <1>1. a \in Seq(Byte) /\ Len(a) \in 1..BufLen
    BY RepliesAssumption
  <1> QED BY <1>1, SentTransport

\* A restart leaves nothing in progress.
LEMMA RestartTransport == ASSUME Transport, Restart PROVE Transport'
  <1>1. inEp' \in [Interfaces -> Seq(InReport)]
    BY EmptyEndpoints DEF Restart
  <1>2. TransportTypeOK'
    BY <1>1, WordRange DEF Restart, HidInit, Transport, TransportTypeOK
  <1> QED
    BY <1>2 DEF Restart, HidInit, Transport, InBounds, ChunkPosition, Gate, ReplyGate, Started

\* The end of a reply opens the gate again and leaves the transport where it is.
LEMMA EndReplyTransport == ASSUME Transport, EndReply PROVE Transport'
  BY WordRange DEF EndReply, hid, Transport, TransportTypeOK, InBounds, ChunkPosition, Gate, ReplyGate,
     Started

\* A reset of the bus while nothing is in progress closes the endpoints only.
LEMMA UsbResetTransport == ASSUME Transport, UsbReset PROVE Transport'
  <1>1. CASE apduMedia # NONE
    BY <1>1, RestartTransport DEF UsbReset
  <1>2. CASE apduMedia = NONE
    <2>1. inEp' \in [Interfaces -> Seq(InReport)]
      BY <1>2, EmptyEndpoints DEF UsbReset
    <2> QED
      BY <1>2, <2>1 DEF UsbReset, hid, app, Transport, TransportTypeOK, InBounds, ChunkPosition, Gate,
         ReplyGate, Started
  <1> QED BY <1>1, <1>2

\* A step of something else.
LEMMA StutterTransport == ASSUME Transport, UNCHANGED vars PROVE Transport'
  BY DEF vars, hid, app, Transport, TransportTypeOK, InBounds, ChunkPosition, Gate, ReplyGate, Started

\* A report that passes the gate, whatever it is.
LEMMA ReceiveTransport ==
    ASSUME Transport, NEW i \in Interfaces, NEW r \in Report, apduMedia = NONE, HidReceive(i, r)
    PROVE  Transport'
  BY AppendChunkTransport, OtherReportTransport DEF HidReceive

\* Every event of the host and every call of the application keeps the transport.
LEMMA NextTransport == ASSUME TypeOK, Transport, [Next]_vars PROVE Transport'
  <1>1. CASE \E i \in Interfaces, r \in Reports : DataOut(i, r)
    BY <1>1, ReportsAssumption, ReceiveTransport DEF DataOut
  <1>2. CASE \E i \in Interfaces : DataIn(i)
    BY <1>2, DataInTransport
  <1>3. CASE \E a \in Replies : Reply(a)
    BY <1>3, ReplyTransport DEF Reply, TypeOK
  <1>4. CASE EndReply
    BY <1>4, EndReplyTransport
  <1>5. CASE ReplyRefused
    BY <1>5, RestartTransport DEF ReplyRefused
  <1>6. CASE UsbReset
    BY <1>6, UsbResetTransport
  <1>7. CASE UNCHANGED vars
    BY <1>7, StutterTransport
  <1> QED
    BY <1>1, <1>2, <1>3, <1>4, <1>5, <1>6, <1>7 DEF Next

\* The media and the state name an interface of the transport, or none.
LEMMA NextTypeOK == ASSUME TypeOK, Transport, [Next]_vars PROVE TypeOK'
  <1>0. TransportTypeOK'
    BY NextTransport DEF Transport
  <1> DEFINE MediaOK == /\ apduState \in Interfaces \cup {IDLE}
                        /\ apduMedia \in Interfaces \cup {NONE}
                        /\ replying \in BOOLEAN
  <1>1. CASE \E i \in Interfaces, r \in Reports : DataOut(i, r)
    <2>1. PICK i \in Interfaces, r \in Reports : HidReceive(i, r)
      BY <1>1 DEF DataOut
    <2>2. MediaOK'
      BY <2>1 DEF HidReceive, AppendChunk, RejectChunk, AnswerControl, UnknownTag, Received, app, TypeOK
    <2> QED BY <1>0, <2>2 DEF TypeOK
  <1>2. CASE \E i \in Interfaces : DataIn(i)
    <2>1. MediaOK'
      BY <1>2 DEF DataIn, TypeOK
    <2> QED BY <1>0, <2>1 DEF TypeOK
  <1>3. CASE \E a \in Replies : Reply(a)
    <2>1. UNCHANGED app /\ replying' = TRUE
      BY <1>3 DEF Reply, SendReply
    <2> QED BY <1>0, <2>1 DEF TypeOK, app
  <1>4. CASE EndReply
    <2>1. MediaOK'
      BY <1>4 DEF EndReply, TypeOK
    <2> QED BY <1>0, <2>1 DEF TypeOK
  <1>5. CASE ReplyRefused \/ UsbReset
    <2>1. MediaOK'
      BY <1>5 DEF ReplyRefused, UsbReset, Restart, app, TypeOK
    <2> QED BY <1>0, <2>1 DEF TypeOK
  <1>6. CASE UNCHANGED vars
    BY <1>0, <1>6 DEF vars, app, TypeOK
  <1> QED
    BY <1>1, <1>2, <1>3, <1>4, <1>5, <1>6 DEF Next

\* The two together are the inductive invariant.
LEMMA InitIInv == Init => IInv
  BY InitTransport DEF IInv, Init, TypeOK, Transport, Sending

\* Every step keeps the invariant.
LEMMA NextIInv == ASSUME IInv, [Next]_vars PROVE IInv'
  <1>1. Sending'
    <2>1. CASE \E i \in Interfaces, r \in Reports : DataOut(i, r)
      <3>1. ~replying /\ UNCHANGED replying
        BY <2>1 DEF DataOut, HidReceive, AppendChunk, RejectChunk, AnswerControl, UnknownTag, IInv,
           Transport, ReplyGate
      <3> QED BY <3>1 DEF Sending
    <2>2. CASE \E i \in Interfaces : DataIn(i)
      BY <2>2 DEF DataIn, SendChunk, HidInit, IInv, Sending
    <2>3. CASE \E a \in Replies : Reply(a)
      BY <2>3 DEF Reply, SendReply, app, Sending
    <2>4. CASE EndReply \/ ReplyRefused \/ UsbReset \/ UNCHANGED vars
      BY <2>4 DEF EndReply, ReplyRefused, UsbReset, Restart, HidInit, vars, hid, app, IInv, Sending
    <2> QED BY <2>1, <2>2, <2>3, <2>4 DEF Next
  <1> QED BY <1>1, NextTransport, NextTypeOK DEF IInv

\* Every variable keeps its type.
THEOREM TypeCorrect == Spec => []TypeOK
  <1>1. IInv => TypeOK
    BY DEF IInv, Transport
  <1> QED BY <1>1, InitIInv, NextIInv, PTL DEF Spec

\* Whatever reports the host sends and whenever it acknowledges them, what is left
\* to copy to, or to send from, G_io_apdu_buffer lies inside it.
THEOREM BufferBounds == Spec => []InBounds
  <1>1. IInv => InBounds
    BY DEF IInv, Transport
  <1> QED BY <1>1, InitIInv, NextIInv, PTL DEF Spec

\* The chunks of a reply cover it without hole or overlap, whatever stale
\* acknowledgements trigger them.
THEOREM ReplySegmentation == Spec => []Segmentation
  <1>1. IInv => Segmentation
    BY DEF IInv, Transport, ChunkPosition, Sending, Segmentation
  <1> QED BY <1>1, InitIInv, NextIInv, PTL DEF Spec

\* No event of the host changes a command in the hands of the application.
THEOREM CommandProtected == Spec => CommandStable
  <1>1. ASSUME [Next]_vars
        PROVE  [apduMedia # NONE /\ apduMedia' # NONE /\ replying' = replying
                  => UNCHANGED <<apduBuf, apduMedia, apduLength>>]_vars
    <2> SUFFICES ASSUME Next, apduMedia # NONE, apduMedia' # NONE, replying' = replying
                 PROVE  UNCHANGED <<apduBuf, apduMedia, apduLength>>
      BY <1>1
    <2>1. CASE \E i \in Interfaces, r \in Reports : DataOut(i, r)
      BY <2>1 DEF DataOut
    <2>2. CASE \E i \in Interfaces : DataIn(i)
      BY <2>2 DEF DataIn
    <2>3. CASE \E a \in Replies : Reply(a)
      BY <2>3 DEF Reply, SendReply
    <2>4. CASE EndReply \/ ReplyRefused \/ UsbReset
      BY <2>4 DEF EndReply, ReplyRefused, UsbReset, Restart
    <2> QED BY <2>1, <2>2, <2>3, <2>4 DEF Next
  <1> QED BY <1>1, PTL DEF Spec, CommandStable
=============================================================================
