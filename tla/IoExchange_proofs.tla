-------------------------- MODULE IoExchange_proofs --------------------------
(***************************************************************************)
(* Proofs about IoExchange: for any interface, buffer, reports, raw APDUs, *)
(* replies and timeout, and any application; then about StandardAppIo, the *)
(* application of the SDK, which runs on top of it.                        *)
(***************************************************************************)
EXTENDS StandardAppIo, HidTransport_proofs

\* Where the thread of io_exchange may be with respect to a reply: it is given one
\* to the part that sends, it replies only in its wait, and the wait is never left
\* idle with an event still to come.
Turns ==
    /\ pc \in {"turn", "drained", "wait"} => tx \in Replies
    /\ pc = "wait" <=> (replying /\ pc # "ended")
    /\ replying => apduState # RAW
    /\ pc = "wait" /\ apduState = IDLE => ~statusSent

IoInv == IoTypeOK /\ Transport /\ Turns

\* Anything the event loop may do with one event.
Event ==
    \/ OutEvent \/ AckEvent \/ CapduEvent \/ QuietReset \/ LoudReset
    \/ TickEvent \/ ExpiryEvent
    \/ UNCHANGED <<vars, epTimeout>>

MediaTypeOK ==
    /\ apduState \in Interfaces \cup {IDLE, RAW}
    /\ apduMedia \in Interfaces \cup {NONE, RAW}

\* The one interface is the one the events come from.
LEMMA OneIface == Interfaces = {Iface} /\ RAW \notin Interfaces /\ RAW # IDLE /\ RAW # NONE
  <1>1. PICK i \in {"USB_HID", "USB_WEBUSB"} : Interfaces = {i}
    BY OneInterface
  <1>2. Iface \in Interfaces
    BY <1>1 DEF Iface
  <1> QED BY <1>1, <1>2 DEF RAW, IDLE, NONE

\* Bytes are written inside the buffer.
LEMMA WrittenType ==
    ASSUME TransportTypeOK, NEW a \in Seq(Byte)
    PROVE  Written(a) \in [0..(BufLen - 1) -> Byte]
  <1>1. \A k \in 0..(BufLen - 1) : k < Len(a) => a[k + 1] \in Byte
    BY ElementOfSeq
  <1> QED BY <1>1 DEF Written, TransportTypeOK

\* The transport does not depend on what its buffer holds.
LEMMA BufferTransport ==
    ASSUME Transport, apduBuf' \in [0..(BufLen - 1) -> Byte], UNCHANGED <<hid, app, inEp, replying>>
    PROVE  Transport'
  BY DEF hid, app, Transport, TransportTypeOK, InBounds, ChunkPosition, Gate, ReplyGate, Started

\* What is read from the buffer are bytes, as many as are asked for.
LEMMA OutputType ==
    ASSUME TransportTypeOK, NEW n \in 0..BufLen
    PROVE  Output(n) \in Seq(Byte) /\ Len(Output(n)) = n
  <1>1. n \in Nat /\ \A k \in 1..n : apduBuf[k - 1] \in Byte
    BY LengthAssumption, WordRange DEF TransportTypeOK
  <1> QED BY <1>1 DEF Output

\* Bytes written at the start of the buffer are what their length reads back.
LEMMA WrittenIsRead ==
    ASSUME TransportTypeOK, NEW a \in Seq(Byte), Len(a) \in 1..BufLen, apduBuf' = Written(a)
    PROVE  Output(Len(a))' = a
  <1> DEFINE n == Len(a)
  <1>1. n \in Nat /\ n \in 1..BufLen /\ BufLen \in Nat
    BY LengthAssumption, WordRange
  <1>2. apduBuf' = [k \in 0..(BufLen - 1) |-> IF k < n THEN a[k + 1] ELSE apduBuf[k]]
    BY DEF Written, TransportTypeOK
  <1>3. \A k \in 1..n : apduBuf'[k - 1] = a[k]
    <2> HIDE DEF n
    <2> TAKE k \in 1..n
    <2>1. k - 1 \in 0..(BufLen - 1) /\ k - 1 < n /\ (k - 1) + 1 = k
      BY <1>1
    <2> QED BY <1>2, <2>1
  <1>4. a = [k \in 1..n |-> a[k]]
    OBVIOUS
  <1>5. Output(n)' = [k \in 1..n |-> apduBuf'[k - 1]]
    BY DEF Output
  <1> QED BY <1>3, <1>4, <1>5

\* Writing back what the buffer holds changes nothing.
LEMMA RewriteIsNone ==
    ASSUME TransportTypeOK, NEW n \in 0..BufLen
    PROVE  Written(Output(n)) = apduBuf
  <1>1. Len(Output(n)) = n /\ n \in Nat
    BY OutputType, LengthAssumption, WordRange
  <1>2. \A k \in 0..(BufLen - 1) : k < n => Output(n)[k + 1] = apduBuf[k]
    <2> TAKE k \in 0..(BufLen - 1)
    <2> SUFFICES ASSUME k < n PROVE Output(n)[k + 1] = apduBuf[k]
      OBVIOUS
    <2>1. k + 1 \in 1..n /\ (k + 1) - 1 = k
      BY <1>1, LengthAssumption, WordRange
    <2> QED BY <2>1 DEF Output
  <1>3. DOMAIN apduBuf = 0..(BufLen - 1) /\ apduBuf = [k \in 0..(BufLen - 1) |-> apduBuf[k]]
    BY DEF TransportTypeOK
  <1>4. Written(Output(n)) = [k \in 0..(BufLen - 1) |-> IF k < n THEN Output(n)[k + 1] ELSE apduBuf[k]]
    BY <1>1, <1>3 DEF Written
  <1> QED BY <1>2, <1>3, <1>4

\* A raw APDU stays inside the buffer, and the transport of the reports keeps what it
\* holds.
LEMMA TakeRawStep ==
    ASSUME Transport, NEW c \in RawCommands, apduState = IDLE, ~replying, TakeRaw(c), apduMedia' = RAW
    PROVE  Transport' /\ MediaTypeOK'
  <1> DEFINE l == Smaller(Len(c), BufLen - 3)
  <1>1. c \in Seq(Byte) /\ BufLen \in 4..(Word - 1)
    BY RawAssumption, LengthAssumption, WordRange
  <1>2. Len(c) \in Nat
    BY <1>1
  <1>3. l \in Nat /\ l <= Len(c) /\ l \in 0..(Word - 1)
    BY <1>1, <1>2, WordRange DEF Smaller
  <1>4. SubSeq(c, 1, l) \in Seq(Byte)
    <2> HIDE DEF l
    <2>1. \A k \in 1..l : c[k] \in Byte
      BY <1>1, <1>3, ElementOfSeq
    <2> QED BY <1>3, <2>1
  <1>5. apduBuf' \in [0..(BufLen - 1) -> Byte]
    BY <1>4, WrittenType DEF TakeRaw, Transport
  <1>6. apduLength' = l /\ apduState' = RAW /\ UNCHANGED <<hid, inEp, replying>>
    BY DEF TakeRaw
  <1> HIDE DEF l
  <1>7. TransportTypeOK'
    BY <1>3, <1>5, <1>6 DEF hid, Transport, TransportTypeOK
  <1> QED
    BY <1>6, <1>7, OneIface DEF hid, MediaTypeOK, Transport, InBounds, ChunkPosition, Gate, ReplyGate,
       Started

\* Whatever event comes, and whatever it finds in progress, the transport keeps its
\* bounds, and a reply goes on.
LEMMA EventStep ==
    ASSUME IoTypeOK, Transport, replying => apduState # RAW,
           apduState = IDLE => ~replying \/ ~CapduEvent, Event
    PROVE  /\ Transport' /\ MediaTypeOK' /\ replying' = replying
           /\ epTimeout' \in 0..TimeoutTicks
           /\ replying => apduState' # RAW
  <1>0. TimeoutTicks \in Nat \ {0}
    BY TimeoutAssumption
  <1>1. CASE OutEvent
    <2>1. CASE apduMedia # NONE /\ UNCHANGED <<vars, epTimeout>>
      BY <2>1, StutterTransport DEF vars, app, IoTypeOK, MediaTypeOK
    <2>2. ASSUME NEW r \in Reports, DataOut(Iface, r),
                 epTimeout' = IF inEp' = inEp THEN epTimeout ELSE TimeoutTicks
          PROVE  /\ Transport' /\ MediaTypeOK' /\ replying' = replying
                 /\ epTimeout' \in 0..TimeoutTicks /\ ~replying
      <3>1. r \in Report /\ Iface \in Interfaces /\ apduMedia = NONE /\ HidReceive(Iface, r)
        BY <2>2, ReportsAssumption, OneIface DEF DataOut
      <3>2. Transport'
        BY <3>1, ReceiveTransport
      <3>3. MediaTypeOK' /\ replying' = replying
        BY <3>1 DEF HidReceive, AppendChunk, RejectChunk, AnswerControl, UnknownTag, Received, app,
           IoTypeOK, MediaTypeOK
      <3>4. epTimeout' \in 0..TimeoutTicks
        BY <1>0, <2>2 DEF IoTypeOK
      <3>5. ~replying
        BY <3>1 DEF Transport, ReplyGate
      <3> QED BY <3>2, <3>3, <3>4, <3>5
    <2> QED BY <1>1, <2>1, <2>2 DEF OutEvent
  <1>2. CASE AckEvent
    <2>1. Iface \in Interfaces /\ DataIn(Iface)
      BY <1>2, OneIface DEF AckEvent
    <2>2. Transport'
      BY <2>1, DataInTransport
    <2>3. /\ apduState' \in {apduState, IDLE} /\ UNCHANGED <<apduMedia, replying>>
          /\ epTimeout' \in {0, TimeoutTicks}
      BY <1>2 DEF AckEvent, DataIn
    <2> QED BY <1>0, <2>2, <2>3, OneIface DEF IoTypeOK, MediaTypeOK
  <1>3. CASE CapduEvent
    <2>1. PICK c \in RawCommands :
            IF apduState = IDLE THEN TakeRaw(c) /\ apduMedia' = RAW ELSE UNCHANGED <<vars, epTimeout>>
      BY <1>3 DEF CapduEvent
    <2>2. CASE apduState = IDLE
      <3>1. ~replying
        BY <1>3, <2>2
      <3> QED BY <2>1, <2>2, <3>1, TakeRawStep DEF TakeRaw, IoTypeOK
    <2>3. CASE apduState # IDLE
      BY <2>1, <2>3, StutterTransport DEF vars, app, IoTypeOK, MediaTypeOK
    <2> QED BY <2>2, <2>3
  <1>4. CASE QuietReset
    BY <1>0, <1>4, UsbResetTransport DEF QuietReset, UsbReset, app, IoTypeOK, MediaTypeOK
  <1>5. CASE LoudReset
    <2>1. inEp' \in [Interfaces -> Seq(InReport)]
      BY <1>5, EmptyEndpoints DEF LoudReset
    <2>2. UNCHANGED <<hid, app, apduBuf, replying, epTimeout>>
      BY <1>5 DEF LoudReset
    <2>3. Transport'
      BY <2>1, <2>2 DEF hid, app, Transport, TransportTypeOK, InBounds, ChunkPosition, Gate, ReplyGate,
         Started
    <2> QED BY <2>2, <2>3 DEF app, IoTypeOK, MediaTypeOK
  <1>6. CASE TickEvent
    BY <1>0, <1>6, StutterTransport DEF TickEvent, vars, app, IoTypeOK, MediaTypeOK
  <1>7. CASE ExpiryEvent
    <2>1. /\ epTimeout' = 0 /\ apduState' = IDLE
          /\ UNCHANGED <<hid, apduMedia, apduLength, apduBuf, inEp, replying>>
      BY <1>7 DEF ExpiryEvent
    <2>2. Transport'
      BY <2>1 DEF hid, Transport, TransportTypeOK, InBounds, ChunkPosition, Gate, ReplyGate, Started
    <2> QED BY <1>0, <2>1, <2>2, OneIface DEF IoTypeOK, MediaTypeOK
  <1>8. CASE UNCHANGED <<vars, epTimeout>>
    BY <1>8, StutterTransport DEF vars, app, IoTypeOK, MediaTypeOK
  <1> QED
    BY <1>1, <1>2, <1>3, <1>4, <1>5, <1>6, <1>7, <1>8 DEF Event

\* An event thrown away takes at most an acknowledgement with it.
LEMMA DropStep ==
    ASSUME Transport, Drop
    PROVE  Transport' /\ UNCHANGED <<app, replying, epTimeout, waited>>
  <1>1. Iface \in Interfaces
    BY OneIface
  <1>2. UNCHANGED <<hid, app, apduBuf, replying, epTimeout, waited>>
    BY DEF Drop, vars
  <1>3. inEp' \in [Interfaces -> Seq(InReport)]
    <2>1. CASE UNCHANGED vars
      BY <2>1 DEF vars, Transport, TransportTypeOK
    <2>2. CASE inEp[Iface] # <<>> /\ inEp' = [inEp EXCEPT ![Iface] = Tail(@)]
      <3>1. Tail(inEp[Iface]) \in Seq(InReport)
        BY <1>1, <2>2 DEF Transport, TransportTypeOK
      <3> QED BY <2>2, <3>1 DEF Transport, TransportTypeOK
    <2> QED BY <2>1, <2>2 DEF Drop
  <1> QED
    BY <1>2, <1>3 DEF hid, app, Transport, TransportTypeOK, InBounds, ChunkPosition, Gate, ReplyGate,
       Started

\* The end of a reply, or a call without one, leaves the transport to the next command.
LEMMA EnterReceiveStep ==
    ASSUME Transport, ~replying, EnterReceive, UNCHANGED <<hid, inEp, replying>>,
           apduBuf' \in [0..(BufLen - 1) -> Byte]
    PROVE  Transport'
  BY WordRange DEF EnterReceive, hid, Transport, TransportTypeOK, InBounds, ChunkPosition, Gate, ReplyGate,
     Started

\* What the event loop does with an event it handles.
LEMMA HandleStep ==
    ASSUME IoInv, NEW next \in {"wait", "receive", "app"}, pc = next, Handle(next),
           next = "wait" => apduState # IDLE \/ statusSent
    PROVE  /\ Event /\ pc' \in {next, "ended"} /\ statusSent' \in BOOLEAN
           /\ waited' \in 0..TimeoutTicks
           /\ pc' = "wait" /\ apduState' = IDLE => ~statusSent'
  <1>0. TimeoutTicks \in Nat \ {0} /\ waited \in 0..TimeoutTicks
    BY TimeoutAssumption DEF IoInv, IoTypeOK
  <1>1. CASE /\ OutEvent \/ AckEvent \/ CapduEvent \/ QuietReset
             /\ pc' = next /\ statusSent' = FALSE /\ UNCHANGED waited
    BY <1>0, <1>1 DEF Event
  <1>2. CASE TickEvent /\ Later /\ pc' = next /\ statusSent' = TRUE
    BY <1>0, <1>2 DEF Event, Later, TickEvent, vars, app, IoInv, Turns
  <1>3. CASE ExpiryEvent /\ Later /\ Throw /\ statusSent' = FALSE
    <2>1. waited' \in 0..TimeoutTicks
      BY <1>0, <1>3 DEF Later
    <2>2. Event /\ pc' = "ended" /\ statusSent' = FALSE
      BY <1>3 DEF Event, Throw
    <2> QED BY <2>1, <2>2
  <1>4. CASE LoudReset /\ Throw /\ statusSent' = FALSE /\ UNCHANGED waited
    BY <1>0, <1>4 DEF Event, Throw
  <1>5. CASE UNCHANGED <<vars, epTimeout, waited>> /\ pc' = next /\ statusSent' = TRUE
    BY <1>0, <1>5 DEF Event, vars, app, IoInv, Turns
  <1> QED BY <1>1, <1>2, <1>3, <1>4, <1>5 DEF Handle

\* Handling an event keeps the invariant, wherever the thread waits for it.
LEMMA HandleIoInv ==
    ASSUME IoInv, NEW next \in {"wait", "receive", "app"}, pc = next, Handle(next),
           next = "wait" => apduState # IDLE \/ statusSent,
           UNCHANGED <<flags, tx, nested, locked, owed>>
    PROVE  IoInv'
  <1>1. /\ Event /\ pc' \in {next, "ended"} /\ statusSent' \in BOOLEAN
        /\ waited' \in 0..TimeoutTicks
        /\ pc' = "wait" /\ apduState' = IDLE => ~statusSent'
    BY HandleStep
  <1>2. /\ Transport' /\ MediaTypeOK' /\ replying' = replying
        /\ epTimeout' \in 0..TimeoutTicks
        /\ replying => apduState' # RAW
    <2>1. apduState = IDLE => ~replying
      BY DEF IoInv, Turns
    <2> QED BY <1>1, <2>1, EventStep DEF IoInv, Turns
  <1>3. IoTypeOK'
    BY <1>1, <1>2 DEF IoInv, IoTypeOK, MediaTypeOK, Transport
  <1>4. Turns'
    BY <1>1, <1>2 DEF IoInv, Turns
  <1> QED BY <1>2, <1>3, <1>4 DEF IoInv

\* The device starts idle.
LEMMA InitIoInv == IoInit => IoInv
  <1> SUFFICES ASSUME IoInit PROVE IoInv
    OBVIOUS
  <1>1. Transport
    BY InitTransport DEF IoInit
  <1>2. Turns
    BY DEF IoInit, Init, Turns
  <1>3. IoTypeOK
    <2>1. epTimeout \in 0..TimeoutTicks /\ waited \in 0..TimeoutTicks
      BY TimeoutAssumption DEF IoInit
    <2>2. replying = FALSE /\ apduState = IDLE /\ apduMedia = NONE
      BY DEF IoInit, Init
    <2>3. tx \in Seq(Byte) /\ flags \subseteq Flags
      BY EmptySeq DEF IoInit
    <2> QED BY <1>1, <2>1, <2>2, <2>3 DEF IoInit, IoTypeOK, Transport
  <1> QED BY <1>1, <1>2, <1>3 DEF IoInv

\* A call of io_exchange either carries a reply, for the media of the command, or
\* waits for a command.
LEMMA ExchangeIoInv ==
    ASSUME IoInv, NEW f \in SUBSET Flags, NEW a \in Seq(Byte), Exchange(f, a),
           pc \in {"app", "receive"}, nested' \in BOOLEAN, statusSent' \in BOOLEAN,
           a # <<>> /\ "ASYNCH_REPLY" \notin f => a \in Replies
    PROVE  IoInv'
  <1>0. /\ flags' = f /\ tx' = a /\ UNCHANGED <<epTimeout, waited, locked, owed>>
        /\ ~replying
    BY DEF Exchange, IoInv, Turns
  <1>1. /\ apduBuf' \in [0..(BufLen - 1) -> Byte]
        /\ UNCHANGED <<hid, inEp, replying>>
    BY WrittenType DEF Exchange, IoInv, Transport
  <1>2. CASE a # <<>> /\ "ASYNCH_REPLY" \notin f
    <2>1. pc' = "turn" /\ UNCHANGED <<hid, app, inEp, replying>>
      BY <1>1, <1>2 DEF Exchange
    <2>2. Transport'
      BY <1>1, <2>1, BufferTransport DEF IoInv
    <2>3. IoTypeOK'
      BY <1>0, <1>2, <2>1, <2>2 DEF app, IoInv, IoTypeOK, Transport
    <2>4. Turns'
      BY <1>0, <1>2, <2>1 DEF app, IoInv, Turns
    <2> QED BY <2>2, <2>3, <2>4 DEF IoInv
  <1>3. CASE ~(a # <<>> /\ "ASYNCH_REPLY" \notin f)
    <2>1. EnterReceive
      BY <1>3 DEF Exchange
    <2>2. Transport'
      BY <1>0, <1>1, <2>1, EnterReceiveStep DEF IoInv
    <2>3. /\ pc' = "receive" /\ replying' = replying
          /\ apduState' \in {apduState, IDLE} /\ apduMedia' \in {apduMedia, NONE}
      BY <1>1, <2>1 DEF EnterReceive
    <2>4. IoTypeOK'
      BY <1>0, <2>2, <2>3 DEF IoInv, IoTypeOK, Transport
    <2>5. Turns'
      BY <1>0, <2>3 DEF IoInv, Turns
    <2> QED BY <2>2, <2>4, <2>5 DEF IoInv
  <1> QED BY <1>2, <1>3

\* The reply leaves by HID, in chunks of the buffer, or as a raw answer to the event;
\* it is refused when the state is idle.
LEMMA SendIoInv == ASSUME IoInv, Send PROVE IoInv'
  <1>0. /\ tx \in Replies /\ ~replying
        /\ waited' = 0 /\ UNCHANGED <<flags, tx, nested, statusSent, locked, owed>>
        /\ ~statusSent
    BY DEF Send, IoInv, Turns
  <1>1. TimeoutTicks \in Nat \ {0}
    BY TimeoutAssumption
  <1>2. CASE /\ apduState \in Interfaces /\ SendReply(Output(Len(tx)))
             /\ epTimeout' = TimeoutTicks /\ pc' = "wait"
    <2>0. Len(tx) \in 1..BufLen /\ Len(tx) \in 0..BufLen
      BY <1>0, RepliesAssumption, LengthAssumption, WordRange
    <2>00. Output(Len(tx)) \in Seq(Byte) /\ Len(Output(Len(tx))) \in 1..BufLen
      BY <2>0, OutputType DEF IoInv, Transport
    <2>1. Transport'
      BY <1>2, <2>00, SentTransport DEF IoInv
    <2>2. UNCHANGED app /\ replying' = TRUE
      BY <1>2 DEF SendReply
    <2>3. IoTypeOK'
      BY <1>0, <1>1, <1>2, <2>1, <2>2 DEF app, IoInv, IoTypeOK, Transport
    <2>4. Turns'
      BY <1>0, <1>2, <2>2, OneIface DEF app, Turns
    <2> QED BY <2>1, <2>3, <2>4 DEF IoInv
  <1>3. CASE /\ apduState = RAW /\ apduState' = IDLE /\ replying' = TRUE /\ pc' = "wait"
             /\ UNCHANGED <<hid, apduMedia, apduLength, apduBuf, inEp, epTimeout>>
    <2>2. Transport'
      BY <1>3, OneIface DEF hid, IoInv, Transport, TransportTypeOK, InBounds, ChunkPosition, Gate,
         ReplyGate, Started
    <2>3. IoTypeOK'
      BY <1>0, <1>1, <1>3, <2>2 DEF IoInv, IoTypeOK, Transport
    <2>4. Turns'
      BY <1>0, <1>3, OneIface DEF Turns
    <2> QED BY <2>2, <2>3, <2>4 DEF IoInv
  <1>4. CASE apduState = IDLE /\ Throw /\ UNCHANGED <<vars, epTimeout>>
    <2>1. Transport'
      BY <1>4, StutterTransport DEF IoInv
    <2>2. IoTypeOK'
      BY <1>0, <1>1, <1>4, <2>1 DEF Throw, vars, app, IoInv, IoTypeOK, Transport
    <2>3. Turns'
      BY <1>0, <1>4 DEF Throw, vars, app, IoInv, Turns
    <2> QED BY <2>1, <2>2, <2>3 DEF IoInv
  <1> QED BY <1>2, <1>3, <1>4 DEF Send

\* The turns that end with an event: thrown away, or handled with some left out.
LEMMA TurnIoInv == ASSUME IoInv, TakeTurn \/ Drained PROVE IoInv'
  <1>1. CASE TakeTurn
    <2>1. /\ Transport' /\ UNCHANGED <<app, replying, epTimeout, waited>>
          /\ pc = "turn" /\ pc' = "drained" /\ statusSent' = FALSE
          /\ UNCHANGED <<flags, tx, nested, locked, owed>>
      BY <1>1, DropStep DEF TakeTurn, IoInv
    <2>2. IoTypeOK'
      BY <2>1 DEF app, IoInv, IoTypeOK, Transport
    <2>3. Turns'
      BY <2>1 DEF app, IoInv, Turns
    <2> QED BY <2>1, <2>2, <2>3 DEF IoInv
  <1>2. CASE Drained
    <2>1. /\ Event /\ pc = "drained" /\ pc' \in {"turn", "ended"} /\ statusSent' = FALSE
          /\ UNCHANGED <<flags, tx, nested, waited, locked, owed>>
      BY <1>2 DEF Drained, Event, Throw
    <2>2. /\ Transport' /\ MediaTypeOK' /\ replying' = replying /\ ~replying
          /\ epTimeout' \in 0..TimeoutTicks
      <3>1. ~replying
        BY <2>1 DEF IoInv, Turns
      <3> QED BY <2>1, <3>1, EventStep DEF IoInv
    <2>3. IoTypeOK'
      BY <2>1, <2>2 DEF IoInv, IoTypeOK, MediaTypeOK, Transport
    <2>4. Turns'
      BY <2>1, <2>2 DEF IoInv, Turns
    <2> QED BY <2>2, <2>3, <2>4 DEF IoInv
  <1> QED BY <1>1, <1>2

\* The end of the reply gives the buffer back and closes the exchange.
LEMMA EndSendIoInv == ASSUME IoInv, EndSend PROVE IoInv'
  <1>1. /\ apduState' = IDLE /\ apduMedia' = NONE /\ apduLength' = 0
        /\ replying' = FALSE /\ owed' = NONE
        /\ pc' \in {"app", "receive", "ended"} /\ nested' \in {FALSE, nested}
        /\ flags' = {} /\ tx' = <<>> /\ statusSent' = nested
        /\ UNCHANGED <<hid, apduBuf, inEp, epTimeout, waited, locked>>
    BY DEF EndSend
  <1>2. Transport'
    BY <1>1, WordRange DEF hid, IoInv, Transport, TransportTypeOK, InBounds, ChunkPosition, Gate, ReplyGate,
       Started
  <1>3. tx' \in Seq(Byte) /\ flags' \subseteq Flags
    BY <1>1, EmptySeq
  <1>4. IoTypeOK'
    BY <1>1, <1>2, <1>3 DEF IoInv, IoTypeOK, Transport
  <1>5. Turns'
    BY <1>1 DEF Turns
  <1> QED BY <1>2, <1>4, <1>5 DEF IoInv

\* A malformed event makes the device forget the command it waits for.
LEMMA ReceiveIoInv == ASSUME IoInv, Receive PROVE IoInv'
  <1>1. pc = "receive" /\ UNCHANGED <<flags, tx, nested, locked, owed>>
    BY DEF Receive
  <1>2. CASE Handle("receive")
    BY <1>1, <1>2, HandleIoInv
  <1>3. CASE /\ apduState' = IDLE /\ apduLength' = 0
             /\ pc' = pc /\ statusSent' = FALSE
             /\ UNCHANGED <<hid, apduMedia, apduBuf, inEp, replying, epTimeout, waited>>
    <2>1. Transport'
      BY <1>3, WordRange DEF hid, IoInv, Transport, TransportTypeOK, InBounds, ChunkPosition, Gate,
         ReplyGate, Started
    <2>2. IoTypeOK'
      BY <1>1, <1>3, <2>1 DEF IoInv, IoTypeOK, Transport
    <2>3. Turns'
      BY <1>1, <1>3, OneIface DEF IoInv, Turns
    <2> QED BY <2>1, <2>2, <2>3 DEF IoInv
  <1> QED BY <1>2, <1>3 DEF Receive

\* The wait of a reply ends by a throw when it lasts.
LEMMA WaitIoInv == ASSUME IoInv, Wait PROVE IoInv'
  <1>1. /\ pc = "wait" /\ (apduState # IDLE \/ statusSent)
        /\ UNCHANGED <<flags, tx, nested, locked, owed>>
    BY DEF Wait
  <1>2. CASE waited >= TimeoutTicks
    <2>1. /\ Transport' /\ UNCHANGED <<app, replying, epTimeout, waited>>
          /\ pc' = "ended" /\ statusSent' = FALSE
      BY <1>2, DropStep DEF Wait, Throw, IoInv
    <2>2. IoTypeOK'
      BY <1>1, <2>1 DEF app, IoInv, IoTypeOK, Transport
    <2>3. Turns'
      BY <1>1, <2>1 DEF app, IoInv, Turns
    <2> QED BY <2>1, <2>2, <2>3 DEF IoInv
  <1>3. CASE ~(waited >= TimeoutTicks)
    BY <1>1, <1>3, HandleIoInv DEF Wait
  <1> QED BY <1>2, <1>3

\* A command goes to the application, or has its reply at once.
LEMMA DispatchIoInv == ASSUME IoInv, Dispatch PROVE IoInv'
  <1>1. /\ owed' = apduMedia /\ pc = "receive"
        /\ UNCHANGED <<hid, app, inEp, replying, nested, statusSent, epTimeout, waited, locked>>
    BY DEF Dispatch
  <1>2. /\ flags' \subseteq Flags
        /\ \/ pc' = "turn" /\ tx' \in Replies /\ apduBuf' = Written(tx')
           \/ pc' = "app" /\ tx' = <<>> /\ apduBuf' = apduBuf
    BY IoRepliesAssumption DEF Dispatch, AnswerItself, Flags
  <1>3. tx' \in Seq(Byte)
    BY <1>2, RepliesAssumption, EmptySeq
  <1>4. Transport'
    <2>1. apduBuf' \in [0..(BufLen - 1) -> Byte]
      BY <1>2, <1>3, WrittenType DEF IoInv, Transport, TransportTypeOK
    <2> QED BY <1>1, <2>1, BufferTransport DEF IoInv
  <1>5. IoTypeOK'
    BY <1>1, <1>2, <1>4, <1>3 DEF app, IoInv, IoTypeOK, Transport
  <1>6. Turns'
    BY <1>1, <1>2 DEF app, IoInv, Turns
  <1> QED BY <1>4, <1>5, <1>6 DEF IoInv

\* The application replies, waits, replies from an event, or pumps events.
LEMMA ApplicationIoInv == ASSUME IoInv, Application PROVE IoInv'
  <1>1. /\ \A a \in AppReplies : a \in Replies /\ a # <<>> /\ a \in Seq(Byte)
        /\ <<>> \in Seq(Byte)
    BY IoRepliesAssumption, RepliesAssumption, EmptySeq
  <1>2. /\ {} \in SUBSET Flags /\ {"RETURN_AFTER_TX"} \in SUBSET Flags
        /\ {"ASYNCH_REPLY"} \in SUBSET Flags
    BY DEF Flags
  <1>3. CASE AppAnswers
    <2>1. PICK a \in AppReplies, f \in {{}, {"RETURN_AFTER_TX"}} : Exchange(f, a)
      BY <1>3 DEF AppAnswers
    <2> QED BY <1>1, <1>2, <1>3, <2>1, ExchangeIoInv DEF AppAnswers, IoInv, IoTypeOK
  <1>4. CASE AppWaits
    <2>1. PICK f \in SUBSET Flags : Exchange(f, <<>>)
      BY <1>2, <1>4 DEF AppWaits
    <2>2. <<>> \in Seq(Byte)
      BY <1>1
    <2>3. /\ pc \in {"app", "receive"} /\ nested' \in BOOLEAN /\ statusSent' \in BOOLEAN
      BY <1>4 DEF AppWaits, IoInv, IoTypeOK
    <2> QED BY <2>1, <2>2, <2>3, ExchangeIoInv
  <1>5. CASE AppAnswersInEvent
    <2>1. PICK a \in AppReplies : Exchange({"RETURN_AFTER_TX"}, a)
      BY <1>5 DEF AppAnswersInEvent
    <2>2. pc = "receive" /\ nested' \in BOOLEAN /\ statusSent' \in BOOLEAN
      BY <1>5 DEF AppAnswersInEvent
    <2> QED BY <1>1, <1>2, <2>1, <2>2, ExchangeIoInv
  <1>6. CASE AppPumps
    <2>1. pc = "app" /\ UNCHANGED <<flags, tx, nested, locked, owed>>
      BY <1>6 DEF AppPumps
    <2>2. CASE Handle("app")
      BY <2>1, <2>2, HandleIoInv
    <2>3. CASE UNCHANGED <<vars, epTimeout, waited>> /\ pc' = "app" /\ statusSent' = FALSE
      <3>1. Transport'
        BY <2>3, StutterTransport DEF IoInv
      <3>2. IoTypeOK'
        BY <2>1, <2>3, <3>1 DEF vars, app, IoInv, IoTypeOK, Transport
      <3>3. Turns'
        BY <2>1, <2>3 DEF vars, app, IoInv, Turns
      <3> QED BY <3>1, <3>2, <3>3 DEF IoInv
    <2> QED BY <1>6, <2>2, <2>3 DEF AppPumps
  <1> QED BY <1>3, <1>4, <1>5, <1>6 DEF Application

\* Every step of the thread, of the application and of what is around them keeps the
\* invariant.
LEMMA NextIoInv == ASSUME IoInv, [IoNext]_ioAll PROVE IoInv'
  <1>1. CASE TakeTurn \/ Drained
    BY <1>1, TurnIoInv
  <1>2. CASE Send
    BY <1>2, SendIoInv
  <1>3. CASE Wait
    BY <1>3, WaitIoInv
  <1>4. CASE EndSend
    BY <1>4, EndSendIoInv
  <1>5. CASE Receive
    BY <1>5, ReceiveIoInv
  <1>6. CASE Dispatch
    BY <1>6, DispatchIoInv
  <1>7. CASE Application
    BY <1>7, ApplicationIoInv
  <1>8. CASE Lock
    <2>1. /\ UNCHANGED <<vars, pc, flags, tx, nested, statusSent, epTimeout, waited, owed>>
          /\ locked' \in BOOLEAN
      BY <1>8 DEF Lock
    <2>2. Transport'
      BY <2>1, StutterTransport DEF IoInv
    <2>3. IoTypeOK'
      BY <2>1, <2>2 DEF vars, app, IoInv, IoTypeOK, Transport
    <2>4. Turns'
      BY <2>1 DEF vars, app, IoInv, Turns
    <2> QED BY <2>2, <2>3, <2>4 DEF IoInv
  <1>9. CASE Relaunch
    <2>1. /\ Restart /\ pc' = "app" /\ flags' = {} /\ tx' = <<>> /\ nested' = FALSE
          /\ statusSent' = FALSE /\ epTimeout' = 0 /\ waited' = 0 /\ owed' = NONE
          /\ UNCHANGED locked
      BY <1>9 DEF Relaunch
    <2>2. Transport'
      BY <2>1, RestartTransport DEF IoInv
    <2>3. apduState' = IDLE /\ apduMedia' = NONE /\ replying' = FALSE
      BY <2>1 DEF Restart
    <2>4. epTimeout' \in 0..TimeoutTicks /\ waited' \in 0..TimeoutTicks
      BY <2>1, TimeoutAssumption
    <2>5. tx' \in Seq(Byte) /\ flags' \subseteq Flags
      BY <2>1, EmptySeq
    <2>6. IoTypeOK'
      BY <2>1, <2>2, <2>3, <2>4, <2>5 DEF IoInv, IoTypeOK, Transport
    <2>7. Turns'
      BY <2>1, <2>3 DEF Turns
    <2> QED BY <2>2, <2>6, <2>7 DEF IoInv
  <1>10. CASE UNCHANGED ioAll
    <2>1. Transport'
      BY <1>10, StutterTransport DEF ioAll, IoInv
    <2>2. IoTypeOK'
      BY <1>10, <2>1 DEF ioAll, ioVars, vars, app, IoInv, IoTypeOK, Transport
    <2>3. Turns'
      BY <1>10 DEF ioAll, ioVars, vars, app, IoInv, Turns
    <2> QED BY <2>1, <2>2, <2>3 DEF IoInv
  <1> QED
    BY <1>1, <1>2, <1>3, <1>4, <1>5, <1>6, <1>7, <1>8, <1>9, <1>10 DEF IoNext, Progress

\* Every variable of io_exchange, of its event loop and of the transport below keeps
\* its type.
THEOREM IoTypeCorrect == IoSpec => []IoTypeOK
  <1>1. IoInv => IoTypeOK
    BY DEF IoInv
  <1> QED BY <1>1, InitIoInv, NextIoInv, PTL DEF IoSpec

\* The bounds of G_io_apdu_buffer hold under io_exchange too, whose raw APDUs, expired
\* endpoints, dropped events and asynchronous waits the transport alone does not have.
THEOREM IoBufferBounds == IoSpec => []InBounds
  <1>1. IoInv => InBounds
    BY DEF IoInv, Transport
  <1> QED BY <1>1, InitIoInv, NextIoInv, PTL DEF IoSpec

\* No event writes over a command in the hands of the device as long as it has a state,
\* nor without a state when there are no raw APDUs.
LEMMA EventKeepsCommand ==
    ASSUME IoInv, apduMedia # NONE, apduState # IDLE \/ RawCommands = {}, Event
    PROVE  /\ UNCHANGED <<apduBuf, apduMedia>> /\ apduState' \in {apduState, IDLE}
           /\ apduLength' = apduLength
  BY DEF Event, OutEvent, DataOut, AckEvent, DataIn, CapduEvent, QuietReset, LoudReset, TickEvent,
     ExpiryEvent, vars, app

-----------------------------------------------------------------------------
(* What io_exchange promises when nothing is left to read but its replies. *)

\* The host sends no version, channel or ping report, which are answered at once by
\* a report of their own, and no event is cut.
Undisturbed ==
    /\ \A r \in Reports : r.tag \notin {"VERSION", "CHANNEL", "PING"}
    /\ ~Malformed

\* A report waits to be read during a reply only, and then there is one.
Unread ==
    pc # "ended" /\ inEp[Iface] # <<>>
        => pc = "wait" /\ apduState # IDLE /\ Len(inEp[Iface]) = 1

\* A command that is owed an answer, and whose answer has not left, has a state.
Answerable == pc \notin {"wait", "ended"} /\ owed # NONE => apduState # IDLE

\* Only a command is answered.
Asked == pc \in {"turn", "drained"} => owed # NONE

Quiet == Unread /\ Answerable /\ Asked /\ ArmedMeansOutstanding

\* The events after which the thread goes on.
MildEvent ==
    \/ OutEvent \/ AckEvent \/ CapduEvent \/ QuietReset \/ TickEvent
    \/ UNCHANGED <<vars, epTimeout>>

\* An event leaves at most one report unread, the next one of the reply it acknowledges,
\* and only the last acknowledgement of a reply idles the state.
LEMMA MildEventQuiet ==
    ASSUME IoInv, Quiet, Undisturbed, pc # "ended", MildEvent
    PROVE  /\ inEp'[Iface] # <<>>
                => inEp[Iface] # <<>> /\ Len(inEp'[Iface]) = 1 /\ apduState' # IDLE
           /\ inEp[Iface] = <<>> /\ apduState # IDLE => apduState' # IDLE
           /\ epTimeout' > 0 => inEp'[Iface] # <<>>
  <1>0. /\ Iface \in Interfaces /\ inEp \in [Interfaces -> Seq(InReport)]
        /\ epTimeout \in Nat /\ RAW # IDLE /\ IDLE \notin Interfaces
        /\ epTimeout > 0 => inEp[Iface] # <<>>
        /\ inEp[Iface] # <<>> => Len(inEp[Iface]) = 1 /\ apduState # IDLE
    BY OneIface, InterfacesAssumption
    DEF IoInv, IoTypeOK, TransportTypeOK, Quiet, Unread, ArmedMeansOutstanding
  <1>1. CASE OutEvent
    <2>1. CASE UNCHANGED <<vars, epTimeout>>
      BY <1>0, <2>1 DEF vars, app
    <2>2. ASSUME NEW r \in Reports, DataOut(Iface, r),
                 epTimeout' = IF inEp' = inEp THEN epTimeout ELSE TimeoutTicks
          PROVE  /\ inEp' = inEp /\ epTimeout' = epTimeout
                 /\ apduState' = apduState \/ apduState' = Iface
      <3>1. ~AnswerControl(Iface, r)
        BY DEF AnswerControl, Undisturbed
      <3> QED
        BY <2>2, <3>1 DEF DataOut, HidReceive, AppendChunk, RejectChunk, UnknownTag, Received, app
    <2> QED BY <1>0, <1>1, <2>1, <2>2 DEF OutEvent
  <1>2. CASE AckEvent
    <2>1. /\ inEp[Iface] # <<>>
          /\ epTimeout' = IF Len(inEp'[Iface]) = Len(inEp[Iface]) THEN TimeoutTicks ELSE 0
      BY <1>2 DEF AckEvent, DataIn
    <2>2. Len(inEp[Iface]) = 1 /\ apduState # IDLE /\ Len(Tail(inEp[Iface])) = 0
          /\ Tail(inEp[Iface]) \in Seq(InReport)
      BY <1>0, <2>1
    <2>3. ASSUME NEW rep, inEp' = [inEp EXCEPT ![Iface] = Append(Tail(inEp[Iface]), rep)],
                 apduState' = apduState
          PROVE  Len(inEp'[Iface]) = 1 /\ inEp'[Iface] # <<>> /\ apduState' # IDLE
      BY <1>0, <2>2, <2>3
    <2>4. ASSUME inEp' = [inEp EXCEPT ![Iface] = Tail(@)]
          PROVE  inEp'[Iface] = <<>> /\ epTimeout' = 0
      <3>1. inEp'[Iface] = Tail(inEp[Iface])
        BY <1>0, <2>4
      <3>2. \A t \in Seq(InReport) : Len(t) = 0 => t = <<>>
        <4>1. \A t \in Seq(InReport) : t # <<>> => Len(t) \in Nat \ {0}
          BY EmptySeq, Zenon
        <4> QED BY <4>1
      <3>3. Len(inEp'[Iface]) = 0 /\ Len(inEp[Iface]) = 1
        BY <2>2, <3>1
      <3>4. epTimeout' = 0
        BY <2>1, <3>3
      <3>5. inEp'[Iface] = <<>>
        BY <2>2, <3>1, <3>2
      <3> QED BY <3>4, <3>5
    <2>5. CASE remaining # 0 /\ current # NULL
      <3>1. SendChunk(Iface, Tail(inEp[Iface]), seq, current, remaining, apduBuf) /\ UNCHANGED apduState
        BY <1>2, <2>5 DEF AckEvent, DataIn
      <3>2. \E rep : inEp' = [inEp EXCEPT ![Iface] = Append(Tail(inEp[Iface]), rep)]
        BY <3>1 DEF SendChunk
      <3> QED BY <2>1, <2>3, <3>1, <3>2
    <2>6. CASE ~(remaining # 0 /\ current # NULL)
      <3>1. inEp' = [inEp EXCEPT ![Iface] = Tail(@)]
        BY <1>2, <2>6 DEF AckEvent, DataIn
      <3> QED BY <2>1, <2>4, <3>1
    <2> QED BY <2>5, <2>6
  <1>3. CASE CapduEvent
    BY <1>0, <1>3 DEF CapduEvent, TakeRaw, vars, app
  <1>4. CASE QuietReset
    <2>1. inEp' = [i \in Interfaces |-> <<>>] /\ UNCHANGED app /\ epTimeout' = 0
      BY <1>4 DEF QuietReset, UsbReset
    <2> QED BY <1>0, <2>1 DEF app
  <1>5. CASE TickEvent
    BY <1>0, <1>5 DEF TickEvent, vars, app
  <1>6. CASE UNCHANGED <<vars, epTimeout>>
    BY <1>0, <1>6 DEF vars, app
  <1> QED
    BY <1>1, <1>2, <1>3, <1>4, <1>5, <1>6 DEF MildEvent

\* A thread that handles an event goes on after a mild one, or ends.
LEMMA HandleMild ==
    ASSUME NEW next, Handle(next)
    PROVE  pc' = "ended" \/ (pc' = next /\ MildEvent)
  BY DEF Handle, MildEvent, Throw, vars, app

\* Outside a reply nothing waits to be read, so that no event can idle the state of a
\* command.
LEMMA MildOutsideReply ==
    ASSUME IoInv, Quiet, Undisturbed, pc \notin {"wait", "ended"}, owed' = owed,
           pc' = "ended" \/ MildEvent, pc' # "wait",
           pc' \in {"turn", "drained"} => pc \in {"turn", "drained"}
    PROVE  Quiet'
  <1>1. CASE pc' = "ended"
    BY <1>1 DEF Quiet, Unread, Answerable, Asked, ArmedMeansOutstanding
  <1>2. CASE pc' # "ended" /\ MildEvent
    <2>1. inEp[Iface] = <<>> /\ (owed # NONE => apduState # IDLE) /\ Asked
      BY DEF Quiet, Unread, Answerable
    <2>2. /\ inEp'[Iface] = <<>>
          /\ apduState # IDLE => apduState' # IDLE
          /\ ~(epTimeout' > 0)
      BY <1>2, <2>1, MildEventQuiet
    <2> QED BY <2>1, <2>2 DEF Quiet, Unread, Answerable, Asked, ArmedMeansOutstanding
  <1> QED BY <1>1, <1>2

\* A step that leaves the transport where it is.
LEMMA StillQuiet ==
    ASSUME Quiet, pc # "ended", UNCHANGED <<app, inEp, epTimeout>>, pc' = "wait" <=> pc = "wait",
           owed' # NONE => owed # NONE \/ apduState # IDLE,
           pc' \in {"turn", "drained"} => owed' # NONE
    PROVE  Quiet'
  BY DEF app, Quiet, Unread, Answerable, Asked, ArmedMeansOutstanding

\* A call of io_exchange made with a command in hand has a state to reply to.
LEMMA ExchangeQuiet ==
    ASSUME IoInv, Quiet, pc \in {"app", "receive"}, NEW f, NEW a, Exchange(f, a),
           owed # NONE => a # <<>> \/ "ASYNCH_REPLY" \in f,
           a # <<>> => owed # NONE
    PROVE  Quiet'
  <1>1. CASE a # <<>> /\ "ASYNCH_REPLY" \notin f
    BY <1>1, StillQuiet DEF Exchange
  <1>2. CASE ~(a # <<>> /\ "ASYNCH_REPLY" \notin f)
    <2>1. /\ UNCHANGED <<inEp, epTimeout, owed>> /\ pc' = "receive"
          /\ owed # NONE => apduState' = apduState
      BY <1>2 DEF Exchange, EnterReceive
    <2> QED BY <2>1 DEF Quiet, Unread, Answerable, Asked, ArmedMeansOutstanding
  <1> QED BY <1>1, <1>2

\* The first chunk of a reply is alone in its endpoint.
LEMMA SendQuiet == ASSUME IoInv, Quiet, Send PROVE Quiet'
  <1>0. /\ pc = "turn" /\ inEp[Iface] = <<>> /\ Iface \in Interfaces /\ IDLE \notin Interfaces
        /\ inEp \in [Interfaces -> Seq(InReport)] /\ epTimeout \in Nat /\ ~(epTimeout > 0)
        /\ owed' = owed
    BY OneIface, InterfacesAssumption
    DEF Send, Quiet, Unread, ArmedMeansOutstanding, IoInv, IoTypeOK, TransportTypeOK
  <1>1. CASE apduState \in Interfaces /\ SendReply(Output(Len(tx))) /\ pc' = "wait"
    <2>1. apduState = Iface /\ UNCHANGED app
      BY <1>1, OneIface DEF SendReply
    <2>2. \E n, buf : SendChunk(Iface, inEp[Iface], 0, 0, n, buf)
      BY <1>1, <2>1 DEF SendReply
    <2>3. PICK rep : inEp' = [inEp EXCEPT ![Iface] = Append(inEp[Iface], rep)]
      BY <2>2 DEF SendChunk
    <2>4. Len(inEp'[Iface]) = 1 /\ inEp'[Iface] # <<>>
      BY <1>0, <2>3
    <2> QED BY <1>0, <1>1, <2>1, <2>4 DEF app, Quiet, Unread, Answerable, Asked, ArmedMeansOutstanding
  <1>2. CASE UNCHANGED <<inEp, epTimeout>> /\ pc' \in {"wait", "ended"}
    BY <1>0, <1>2 DEF Quiet, Unread, Answerable, Asked, ArmedMeansOutstanding
  <1> QED BY <1>1, <1>2 DEF Send, Throw, vars

\* Between them, the steps keep what is left to read with the reply it belongs to.
LEMMA NextQuiet == ASSUME IoInv, Quiet, Undisturbed, [IoNext]_ioAll PROVE Quiet'
  <1>1. CASE TakeTurn
    <2>1. inEp[Iface] = <<>> /\ pc = "turn"
      BY <1>1 DEF TakeTurn, Quiet, Unread
    <2>2. UNCHANGED <<app, inEp, epTimeout>> /\ owed' = owed /\ pc' = "drained" /\ owed # NONE
      BY <1>1, <2>1 DEF TakeTurn, Drop, Quiet, Asked, vars
    <2> QED BY <2>1, <2>2, StillQuiet
  <1>2. CASE Drained
    <2>1. /\ pc = "drained" /\ owed' = owed
          /\ (pc' = "turn" /\ MildEvent) \/ pc' = "ended"
      BY <1>2 DEF Drained, Throw, MildEvent
    <2> QED BY <2>1, MildOutsideReply
  <1>3. CASE Send
    BY <1>3, SendQuiet
  <1>4. CASE Wait
    <2>1. pc = "wait" /\ owed' = owed
      BY <1>4 DEF Wait
    <2>2. CASE pc' = "ended"
      BY <2>2 DEF Quiet, Unread, Answerable, Asked, ArmedMeansOutstanding
    <2>3. CASE pc' # "ended"
      <3>1. pc' = "wait" /\ MildEvent
        BY <1>4, <2>3, HandleMild DEF Wait, Throw
      <3>2. /\ inEp'[Iface] # <<>> => Len(inEp'[Iface]) = 1 /\ apduState' # IDLE
            /\ epTimeout' > 0 => inEp'[Iface] # <<>>
        BY <2>1, <3>1, MildEventQuiet
      <3> QED BY <2>1, <3>1, <3>2 DEF Quiet, Unread, Answerable, Asked, ArmedMeansOutstanding
    <2> QED BY <2>2, <2>3
  <1>5. CASE EndSend
    BY <1>5 DEF EndSend, Quiet, Unread, Answerable, Asked, ArmedMeansOutstanding
  <1>6. CASE Receive
    <2>1. pc = "receive" /\ owed' = owed /\ Handle("receive")
      BY <1>6 DEF Receive, Undisturbed
    <2> QED BY <2>1, HandleMild, MildOutsideReply
  <1>7. CASE Dispatch
    <2>1. /\ UNCHANGED <<app, inEp, epTimeout>> /\ pc = "receive" /\ pc' \in {"turn", "app"}
          /\ apduState # IDLE /\ owed' # NONE
      BY <1>7, InterfacesAssumption, OneIface
      DEF Dispatch, AnswerItself, CommandReady, IoInv, IoTypeOK, Transport, Gate
    <2> QED BY <2>1, StillQuiet
  <1>8. CASE AppAnswers
    <2>1. PICK a \in AppReplies, f \in {{}, {"RETURN_AFTER_TX"}} : Exchange(f, a)
      BY <1>8 DEF AppAnswers
    <2>2. a # <<>> /\ pc = "app" /\ owed # NONE
      BY <1>8, IoRepliesAssumption, RepliesAssumption DEF AppAnswers
    <2> QED BY <2>1, <2>2, ExchangeQuiet
  <1>9. CASE AppWaits
    BY <1>9, ExchangeQuiet DEF AppWaits
  <1>10. CASE AppAnswersInEvent
    <2>1. PICK a \in AppReplies : Exchange({"RETURN_AFTER_TX"}, a)
      BY <1>10 DEF AppAnswersInEvent
    <2>2. a # <<>> /\ pc = "receive" /\ owed # NONE
      BY <1>10, IoRepliesAssumption, RepliesAssumption DEF AppAnswersInEvent
    <2> QED BY <2>1, <2>2, ExchangeQuiet
  <1>11. CASE AppPumps
    <2>1. pc = "app" /\ owed' = owed
      BY <1>11 DEF AppPumps
    <2>2. CASE Handle("app")
      BY <2>1, <2>2, HandleMild, MildOutsideReply
    <2>3. CASE UNCHANGED <<vars, epTimeout>> /\ pc' = "app"
      BY <2>1, <2>3, StillQuiet DEF vars
    <2> QED BY <1>11, <2>2, <2>3 DEF AppPumps, vars
  <1>12. CASE Lock \/ UNCHANGED ioAll
    BY <1>12 DEF Lock, ioAll, ioVars, vars, app, Quiet, Unread, Answerable, Asked, ArmedMeansOutstanding
  <1>13. CASE Relaunch
    BY <1>13, OneIface DEF Relaunch, Restart, Quiet, Unread, Answerable, Asked, ArmedMeansOutstanding
  <1> QED
    BY <1>1, <1>2, <1>3, <1>4, <1>5, <1>6, <1>7, <1>8, <1>9, <1>10, <1>11, <1>12, <1>13
    DEF IoNext, Progress, Application

\* Nothing is asked and nothing is under way initially.
LEMMA InitQuiet == IoInit => Quiet
  BY OneIface DEF IoInit, Init, Quiet, Unread, Answerable, Asked, ArmedMeansOutstanding

\* With an undisturbed host io_exchange never meets an idle state when it has a reply
\* to send: the reply of an application is never turned into INVALID_STATE.
THEOREM ReplyAlwaysPossible == Undisturbed => (IoSpec => []ReplyPossible)
  <1>1. ASSUME Undisturbed PROVE IoSpec => []ReplyPossible
    <2>1. IoInv /\ Quiet => ReplyPossible
      BY DEF Quiet, Answerable, Asked, ReplyPossible
    <2>2. IoInv /\ Quiet /\ [IoNext]_ioAll => (IoInv /\ Quiet)'
      BY <1>1, NextIoInv, NextQuiet
    <2> QED BY <2>1, <2>2, InitIoInv, InitQuiet, PTL DEF IoSpec
  <1> QED BY <1>1

\* With an undisturbed host an endpoint counts down only for a report that has not been
\* read: no EXCEPTION_IO_RESET for a reply that was acknowledged.
THEOREM ExpiryIsDue == Undisturbed => (IoSpec => []ArmedMeansOutstanding)
  <1>1. ASSUME Undisturbed PROVE IoSpec => []ArmedMeansOutstanding
    <2>1. IoInv /\ Quiet => ArmedMeansOutstanding
      BY DEF Quiet
    <2>2. IoInv /\ Quiet /\ [IoNext]_ioAll => (IoInv /\ Quiet)'
      BY <1>1, NextIoInv, NextQuiet
    <2> QED BY <2>1, <2>2, InitIoInv, InitQuiet, PTL DEF IoSpec
  <1> QED BY <1>1

-----------------------------------------------------------------------------
(* The command that is owed an answer, and where that answer goes. *)

\* An event that finds a command owed, with a state or without raw APDUs, leaves it.
LEMMA HeldEvent ==
    ASSUME IoInv, AnsweredWhereAsked, pc # "ended", owed' = owed, Event,
           owed # NONE => apduState # IDLE \/ RawCommands = {}
    PROVE  AnsweredWhereAsked' /\ (owed # NONE => UNCHANGED <<apduBuf, apduMedia>>)
  <1>1. CASE owed = NONE
    BY <1>1 DEF AnsweredWhereAsked
  <1>2. CASE owed # NONE
    BY <1>2, EventKeepsCommand DEF AnsweredWhereAsked
  <1> QED BY <1>1, <1>2

\* No byte written leaves the buffer as it was.
LEMMA NothingWritten == ASSUME TransportTypeOK PROVE Written(<<>>) = apduBuf
  <1>1. apduBuf = [k \in DOMAIN apduBuf |-> apduBuf[k]]
    BY DEF TransportTypeOK
  <1>2. \A k \in DOMAIN apduBuf : ~(k < Len(<<>>))
    BY DEF TransportTypeOK
  <1> QED BY <1>1, <1>2 DEF Written

\* A call of io_exchange made with a command in hand keeps its media, and writes nothing
\* but a reply.
LEMMA HeldExchange ==
    ASSUME IoInv, AnsweredWhereAsked, pc \in {"app", "receive"}, NEW f, NEW a, Exchange(f, a),
           owed # NONE => a # <<>> \/ "ASYNCH_REPLY" \in f,
           "ASYNCH_REPLY" \in f => Written(a) = apduBuf
    PROVE  AnsweredWhereAsked' /\ KeepsCommand
  <1>1. owed' = owed /\ pc' \in {"turn", "receive"} /\ apduBuf' = Written(a)
    BY DEF Exchange, EnterReceive
  <1>2. CASE owed = NONE
    BY <1>1, <1>2 DEF AnsweredWhereAsked, KeepsCommand
  <1>3. CASE owed # NONE
    <2>1. UNCHANGED <<apduState, apduMedia>>
      BY <1>3 DEF Exchange, EnterReceive, app
    <2>2. CASE a # <<>> /\ "ASYNCH_REPLY" \notin f
      <3>1. pc' = "turn"
        BY <2>2 DEF Exchange
      <3> QED BY <1>1, <2>1, <3>1 DEF AnsweredWhereAsked, KeepsCommand
    <2>3. CASE "ASYNCH_REPLY" \in f
      BY <1>1, <2>1, <2>3 DEF AnsweredWhereAsked, KeepsCommand
    <2> QED BY <1>3, <2>2, <2>3
  <1> QED BY <1>2, <1>3

\* Every step keeps a command that is owed, when it has a state until its answer leaves
\* or no raw APDU can take its place.
LEMMA NextKept ==
    ASSUME IoInv, AnsweredWhereAsked, Answerable \/ RawCommands = {}, [IoNext]_ioAll
    PROVE  AnsweredWhereAsked' /\ [KeepsCommand]_ioAll
  <1>0. pc \notin {"wait", "ended"} /\ owed # NONE => apduState # IDLE \/ RawCommands = {}
    BY DEF Answerable
  <1>1. ASSUME NEW next \in {"wait", "receive", "app"}, pc = next, Handle(next), owed' = owed,
               next = "wait" => apduState # IDLE
        PROVE  AnsweredWhereAsked' /\ KeepsCommand
    <2>1. Event
      BY <1>1 DEF Handle, Event, vars, app
    <2> QED BY <1>0, <1>1, <2>1, HeldEvent DEF KeepsCommand
  <1>2. CASE TakeTurn
    <2>1. UNCHANGED <<app, apduBuf>> /\ owed' = owed /\ pc = "turn"
      BY <1>2 DEF TakeTurn, Drop, vars
    <2> QED BY <2>1 DEF app, AnsweredWhereAsked, KeepsCommand
  <1>3. CASE Drained
    <2>1. Event /\ pc = "drained" /\ owed' = owed
      BY <1>3 DEF Drained, Event
    <2> QED BY <1>0, <2>1, HeldEvent DEF KeepsCommand
  <1>4. CASE Send
    <2>1. pc = "turn" /\ owed' = owed /\ apduMedia' = apduMedia /\ apduState' \in {apduState, IDLE}
      BY <1>4 DEF Send, SendReply, vars, app
    <2>2. apduBuf' = apduBuf
      <3>1. CASE SendReply(Output(Len(tx)))
        <4>1. Len(tx) \in 0..BufLen
          BY <2>1, RepliesAssumption, LengthAssumption, WordRange DEF IoInv, Turns
        <4>2. apduBuf' = Written(Output(Len(tx)))
          BY <3>1 DEF SendReply, Written
        <4> QED BY <4>1, <4>2, RewriteIsNone DEF IoInv, Transport
      <3> QED BY <1>4, <3>1 DEF Send, vars
    <2> QED BY <2>1, <2>2 DEF AnsweredWhereAsked, KeepsCommand
  <1>5. CASE Wait
    <2>1. pc = "wait" /\ apduState # IDLE /\ owed' = owed
      BY <1>5 DEF Wait, IoInv, Turns
    <2>2. CASE Throw /\ Drop
      BY <2>1, <2>2 DEF Throw, AnsweredWhereAsked, KeepsCommand
    <2> QED BY <1>1, <1>5, <2>1, <2>2 DEF Wait
  <1>6. CASE EndSend
    <2>1. owed' = NONE
      BY <1>6 DEF EndSend
    <2> QED BY <2>1 DEF AnsweredWhereAsked, KeepsCommand
  <1>7. CASE Receive
    <2>1. pc = "receive" /\ owed' = owed
      BY <1>7 DEF Receive
    <2>2. CASE pc' = pc /\ apduState' = IDLE /\ UNCHANGED <<apduMedia, apduBuf>>
      BY <2>1, <2>2 DEF AnsweredWhereAsked, KeepsCommand
    <2> QED BY <1>1, <1>7, <2>1, <2>2 DEF Receive
  <1>8. CASE Dispatch
    <2>1. pc = "receive" /\ apduState # IDLE /\ apduMedia = apduState
      BY <1>8 DEF Dispatch, CommandReady, IoInv, Transport, Gate
    <2>2. owed' = apduMedia /\ UNCHANGED app
      BY <1>8 DEF Dispatch
    <2>3. AnsweredWhereAsked'
      BY <2>1, <2>2 DEF app, AnsweredWhereAsked
    <2>4. KeepsCommand
      BY <1>8, <2>1, <2>2 DEF app, KeepsCommand, Dispatch, AnswerItself
    <2> QED BY <2>3, <2>4
  <1>9. CASE AppAnswers \/ AppAnswersInEvent
    <2>1. /\ pc \in {"app", "receive"}
          /\ \E a \in AppReplies, f \in {{}, {"RETURN_AFTER_TX"}} : Exchange(f, a)
      BY <1>9 DEF AppAnswers, AppAnswersInEvent
    <2>2. \A a \in AppReplies : a # <<>>
      BY IoRepliesAssumption, RepliesAssumption
    <2> QED BY <2>1, <2>2, HeldExchange
  <1>10. CASE AppWaits
    <2>1. Written(<<>>) = apduBuf
      BY NothingWritten DEF IoInv, Transport
    <2> QED BY <1>10, <2>1, HeldExchange DEF AppWaits
  <1>11. CASE AppPumps
    <2>1. pc = "app" /\ owed' = owed
      BY <1>11 DEF AppPumps
    <2>2. CASE UNCHANGED vars /\ pc' = "app"
      BY <2>1, <2>2 DEF vars, app, AnsweredWhereAsked, KeepsCommand
    <2> QED BY <1>1, <1>11, <2>1, <2>2 DEF AppPumps, vars
  <1>12. CASE Lock \/ UNCHANGED ioAll
    BY <1>12 DEF Lock, ioAll, ioVars, vars, app, AnsweredWhereAsked, KeepsCommand
  <1>13. CASE Relaunch
    BY <1>13 DEF Relaunch, AnsweredWhereAsked, KeepsCommand
  <1> QED
    BY <1>2, <1>3, <1>4, <1>5, <1>6, <1>7, <1>8, <1>9, <1>10, <1>11, <1>12, <1>13
    DEF IoNext, Progress, Application

\* What keeps an owed command: the host sends nothing but commands and no event is cut, so
\* that its state is not idled, or no raw APDU comes, so that an idle state is not taken.
Kept == Undisturbed \/ RawCommands = {}

\* A command keeps its media from its dispatch to the end of its answer, and no answer
\* leaves by another one.
THEOREM AnswerGoesBack == Kept => (IoSpec => []AnsweredWhereAsked)
  <1>0. IoInit => AnsweredWhereAsked
    BY DEF IoInit, AnsweredWhereAsked
  <1>1. CASE Undisturbed
    <2>1. IoInv /\ Quiet /\ AnsweredWhereAsked /\ [IoNext]_ioAll
             => (IoInv /\ Quiet /\ AnsweredWhereAsked)'
      BY <1>1, NextIoInv, NextQuiet, NextKept DEF Quiet
    <2> QED BY <1>0, <2>1, InitIoInv, InitQuiet, PTL DEF IoSpec
  <1>2. CASE RawCommands = {}
    <2>1. IoInv /\ AnsweredWhereAsked /\ [IoNext]_ioAll => (IoInv /\ AnsweredWhereAsked)'
      BY <1>2, NextIoInv, NextKept
    <2> QED BY <1>0, <2>1, InitIoInv, PTL DEF IoSpec
  <1> QED BY <1>1, <1>2 DEF Kept

\* From its dispatch to the end of its answer nothing is written over a command but the
\* answer, and nothing over the answer.
THEOREM CommandKeptWhole == Kept => (IoSpec => CommandKept)
  <1>0. IoInit => AnsweredWhereAsked
    BY DEF IoInit, AnsweredWhereAsked
  <1>1. CASE Undisturbed
    <2>1. IoInv /\ Quiet /\ AnsweredWhereAsked /\ [IoNext]_ioAll
             => (IoInv /\ Quiet /\ AnsweredWhereAsked)' /\ [KeepsCommand]_ioAll
      BY <1>1, NextIoInv, NextQuiet, NextKept DEF Quiet
    <2> QED BY <1>0, <2>1, InitIoInv, InitQuiet, PTL DEF IoSpec, CommandKept
  <1>2. CASE RawCommands = {}
    <2>1. IoInv /\ AnsweredWhereAsked /\ [IoNext]_ioAll
             => (IoInv /\ AnsweredWhereAsked)' /\ [KeepsCommand]_ioAll
      BY <1>2, NextIoInv, NextKept
    <2> QED BY <1>0, <2>1, InitIoInv, PTL DEF IoSpec, CommandKept
  <1> QED BY <1>1, <1>2 DEF Kept

-----------------------------------------------------------------------------
(* io_exchange implements CommandResponse. *)

\* The thread throws, in whatever phase: the exchange fails.
LEMMA ThrowFails == ASSUME pc # "ended", pc' = "ended" PROVE Exchanged!Fail
  BY DEF Phase, Exchanged!Fail

\* Nothing changes for the host as long as the phase does not and a command that is
\* owed keeps its media.
LEMMA PhaseStutters ==
    ASSUME pc # "ended", pc' # "ended", UNCHANGED <<replying, owed>>,
           replying \/ owed # NONE => apduMedia' = apduMedia
    PROVE  UNCHANGED Exchanged!vars
  BY DEF Phase, Exchanged!vars

\* An event changes nothing for the host, or ends the application.
LEMMA EventRefines ==
    ASSUME IoInv, pc # "ended", Event, pc' # "ended" => UNCHANGED <<replying, owed>>,
           replying \/ owed # NONE => apduState # IDLE
    PROVE  Exchanged!Fail \/ UNCHANGED Exchanged!vars
  <1>1. CASE pc' = "ended"
    BY <1>1, ThrowFails
  <1>2. CASE pc' # "ended"
    <2>1. replying \/ owed # NONE => apduMedia' = apduMedia
      <3>1. apduState # IDLE => apduMedia # NONE
        BY OneIface, InterfacesAssumption DEF IoInv, IoTypeOK, Transport, Gate
      <3> QED BY <3>1, EventKeepsCommand
    <2> QED BY <1>2, <2>1, PhaseStutters
  <1> QED BY <1>1, <1>2

\* What an event that is handled, or one that ends the thread, leaves alone.
LEMMA EventPreserves ==
    ASSUME IoInv, Event
    PROVE  replying' = replying
  BY DEF Event, OutEvent, DataOut, HidReceive, AppendChunk, RejectChunk, AnswerControl, UnknownTag,
     AckEvent, DataIn, CapduEvent, TakeRaw, QuietReset, UsbReset, LoudReset, TickEvent, ExpiryEvent, vars

\* A call of io_exchange moves a reply, or waits: the command that is owed stays.
LEMMA ExchangeRefines ==
    ASSUME IoInv, pc \in {"app", "receive"}, NEW f, NEW a, Exchange(f, a),
           owed # NONE => a # <<>> \/ "ASYNCH_REPLY" \in f
    PROVE  UNCHANGED Exchanged!vars
  <1>1. /\ pc' \in {"turn", "receive"} /\ UNCHANGED <<replying, owed>> /\ ~replying
        /\ owed # NONE => apduMedia' = apduMedia
    BY DEF Exchange, EnterReceive, IoInv, Turns, vars, app
  <1> QED BY <1>1, PhaseStutters

\* Every step of io_exchange is a step of the exchange, or none.
LEMMA NextRefines ==
    ASSUME IoInv, Quiet, Undisturbed, [IoNext]_ioAll
    PROVE  Exchanged!Next \/ UNCHANGED Exchanged!vars
  <1>0. pc \notin {"wait", "ended"} => ~replying /\ (owed # NONE => apduState # IDLE)
    BY DEF IoInv, Turns, Quiet, Answerable
  <1>1. CASE TakeTurn
    <2>1. /\ pc = "turn" /\ pc' = "drained" /\ UNCHANGED <<replying, owed, apduMedia>>
      BY <1>1, DropStep DEF TakeTurn, IoInv, app
    <2> QED BY <2>1, PhaseStutters
  <1>2. CASE Drained
    <2>1. /\ pc = "drained" /\ Event /\ owed' = owed
      BY <1>2 DEF Drained, Event, Throw
    <2>2. replying' = replying
      BY <2>1, EventPreserves
    <2> QED BY <1>0, <2>1, <2>2, EventRefines DEF Exchanged!Next
  <1>3. CASE Send
    <2>1. pc = "turn" /\ ~replying /\ owed # NONE /\ owed' = owed /\ apduMedia' = apduMedia
      BY <1>3 DEF Send, SendReply, vars, app, IoInv, Turns, Quiet, Asked
    <2>2. CASE pc' = "wait" /\ replying'
      BY <2>1, <2>2 DEF Phase, Exchanged!Next, Exchanged!Answer
    <2>3. CASE pc' = "ended"
      BY <2>1, <2>3, ThrowFails DEF Exchanged!Next
    <2> QED BY <1>3, <2>2, <2>3 DEF Send, SendReply, Throw
  <1>4. CASE Wait
    <2>1. /\ pc = "wait" /\ replying /\ apduState # IDLE /\ owed' = owed
      BY <1>4 DEF Wait, IoInv, Turns
    <2>2. CASE waited >= TimeoutTicks
      BY <1>4, <2>1, <2>2, ThrowFails DEF Wait, Throw, Exchanged!Next
    <2>3. CASE Handle("wait")
      <3>1. Event
        BY <2>3 DEF Handle, Event, vars, app
      <3>2. replying' = replying
        BY <3>1, EventPreserves
      <3> QED BY <2>1, <3>1, <3>2, EventRefines DEF Exchanged!Next
    <2> QED BY <1>4, <2>2, <2>3 DEF Wait
  <1>5. CASE EndSend
    <2>1. /\ pc = "wait" /\ replying /\ ~replying' /\ owed' = NONE
          /\ pc' \in {"app", "receive", "ended"}
      BY <1>5 DEF EndSend, IoInv, Turns
    <2>2. CASE pc' = "ended"
      BY <2>1, <2>2, ThrowFails DEF Exchanged!Next
    <2>3. CASE pc' # "ended"
      BY <2>1, <2>3 DEF Phase, Exchanged!Next, Exchanged!Close
    <2> QED BY <2>2, <2>3
  <1>6. CASE Receive
    <2>1. pc = "receive" /\ owed' = owed /\ Handle("receive")
      BY <1>6 DEF Receive, Undisturbed
    <2>2. Event
      BY <2>1 DEF Handle, Event, vars, app
    <2>3. replying' = replying
      BY <2>2, EventPreserves
    <2> QED BY <1>0, <2>1, <2>2, <2>3, EventRefines DEF Exchanged!Next
  <1>7. CASE Dispatch
    <2>1. /\ pc = "receive" /\ pc' \in {"turn", "app"} /\ ~replying /\ owed' # NONE
          /\ UNCHANGED <<replying, apduMedia>> /\ apduState # IDLE
      BY <1>0, <1>7, InterfacesAssumption, OneIface
      DEF Dispatch, AnswerItself, CommandReady, app, IoInv, IoTypeOK, Transport, Gate
    <2>2. CASE owed # NONE
      BY <2>1, <2>2 DEF Phase, Exchanged!vars
    <2>3. CASE owed = NONE
      <3>1. apduMedia \in Interfaces \cup {RAW}
        BY <2>1 DEF IoInv, IoTypeOK, Transport, Gate
      <3> QED BY <2>1, <2>3, <3>1 DEF Phase, Exchanged!Next, Exchanged!Take
    <2> QED BY <2>2, <2>3
  <1>8. CASE AppAnswers
    <2>1. PICK a \in AppReplies, f \in {{}, {"RETURN_AFTER_TX"}} : Exchange(f, a)
      BY <1>8 DEF AppAnswers
    <2>2. a # <<>> /\ pc = "app"
      BY <1>8, IoRepliesAssumption, RepliesAssumption DEF AppAnswers
    <2> QED BY <2>1, <2>2, ExchangeRefines
  <1>9. CASE AppWaits
    BY <1>9, ExchangeRefines DEF AppWaits
  <1>10. CASE AppAnswersInEvent
    <2>1. PICK a \in AppReplies : Exchange({"RETURN_AFTER_TX"}, a)
      BY <1>10 DEF AppAnswersInEvent
    <2>2. a # <<>> /\ pc = "receive"
      BY <1>10, IoRepliesAssumption, RepliesAssumption DEF AppAnswersInEvent
    <2> QED BY <2>1, <2>2, ExchangeRefines
  <1>11. CASE AppPumps
    <2>1. pc = "app" /\ owed' = owed
      BY <1>11 DEF AppPumps
    <2>2. Event
      BY <1>11 DEF AppPumps, Handle, Event, vars, app
    <2>3. replying' = replying
      BY <2>2, EventPreserves
    <2> QED BY <1>0, <2>1, <2>2, <2>3, EventRefines DEF Exchanged!Next
  <1>12. CASE Lock \/ UNCHANGED ioAll
    BY <1>12 DEF Lock, ioAll, ioVars, vars, app, Phase, Exchanged!vars
  <1>13. CASE Relaunch
    BY <1>13 DEF Relaunch, Restart, Phase, Exchanged!Next, Exchanged!Recover
  <1> QED
    BY <1>1, <1>2, <1>3, <1>4, <1>5, <1>6, <1>7, <1>8, <1>9, <1>10, <1>11, <1>12, <1>13
    DEF IoNext, Progress, Application

\* With an undisturbed host, io_exchange takes one command at a time, answers it once by
\* the media it came from, and takes no other before, unless it fails and starts again.
THEOREM ImplementsExchange == Undisturbed => (IoSpec => CommandResponseSpec)
  <1>1. ASSUME Undisturbed PROVE IoSpec => Exchanged!Spec
    <2>1. IoInit => Exchanged!Init
      BY DEF IoInit, Init, Phase, Exchanged!Init
    <2>2. IoInv /\ Quiet /\ [IoNext]_ioAll => (IoInv /\ Quiet)'
      BY <1>1, NextIoInv, NextQuiet
    <2>3. IoInv /\ Quiet /\ [IoNext]_ioAll => [Exchanged!Next]_(Exchanged!vars)
      BY <1>1, NextRefines
    <2> QED BY <2>1, <2>2, <2>3, InitIoInv, InitQuiet, PTL DEF IoSpec, Exchanged!Spec
  <1> QED BY <1>1 DEF CommandResponseSpec

-----------------------------------------------------------------------------
(* StandardAppIo: what a standard application sends. *)

StdTypeOK ==
    /\ ioState \in {"READY", "RECEIVED", "WAITING"}
    /\ outputLen \in 0..BufLen /\ asynch \in BOOLEAN
    /\ handler \in {"idle", "handling", "screen"}
    /\ response \in Replies \cup {<<>>}

\* While the application runs, it has a command it has not answered, or nothing to
\* answer, or what the handler has just written.
InApplication ==
    pc = "app" =>
        \/ handler \in {"handling", "screen"} /\ ioState = "RECEIVED" /\ owed # NONE
        \/ handler = "idle" /\ ioState = "READY" /\ outputLen = 0 /\ owed = NONE
        \/ /\ handler = "idle" /\ ioState = "READY" /\ owed # NONE
           /\ outputLen > 0 /\ response # <<>> /\ Output(outputLen) = response

\* Only the callback of the user interface replies from inside an exchange, and that
\* exchange is the asynchronous one of io_recv_command.
Callback ==
    /\ nested => pc \in {"turn", "drained", "wait", "ended"}
    /\ pc # "ended" => ("RETURN_AFTER_TX" \in flags <=> nested)
    /\ pc \notin {"app", "ended"} /\ ~asynch => ioState = "RECEIVED" /\ ~nested
    /\ pc # "ended" /\ ioState = "WAITING" => asynch

\* While a command is owed its answer, no other is received, and the user is asked for
\* that one.
OneCommand ==
    /\ pc = "receive" /\ owed # NONE => apduLength = 0
    /\ pc \notin {"app", "ended"} /\ handler = "screen" => pc = "receive" /\ owed # NONE

\* What is below keeps the command, its media and its place.
Carried == AnsweredWhereAsked /\ Asked /\ (Undisturbed => Quiet)

StdInv ==
    /\ IoInv /\ StdTypeOK /\ InApplication /\ Callback
    /\ OneCommand /\ Carried /\ SendsItsResponse

\* A response that fits is a reply, and so is the error that replaces another.
LEMMA AcceptedReply ==
    ASSUME NEW a \in Responses
    PROVE  /\ Accepted(a) \in Replies /\ Accepted(a) # <<>>
           /\ Accepted(a) \in Seq(Byte) /\ Len(Accepted(a)) \in 1..BufLen
  <1>1. Accepted(a) \in Replies
    BY WrongLengthAssumption, ResponsesAssumption DEF Accepted
  <1>2. Accepted(a) \in Seq(Byte) /\ Len(Accepted(a)) \in 1..BufLen
    BY <1>1, RepliesAssumption
  <1> QED BY <1>1, <1>2

\* The steps of io_exchange keep what is below, and the bytes of an owed command.
LEMMA NextCarried ==
    ASSUME Kept, IoInv, Carried, [IoNext]_ioAll, pc' \in {"turn", "drained"} => owed' # NONE
    PROVE  Carried' /\ [KeepsCommand]_ioAll
  <1>1. Answerable \/ RawCommands = {}
    BY DEF Kept, Carried, Quiet
  <1>2. AnsweredWhereAsked' /\ [KeepsCommand]_ioAll
    BY <1>1, NextKept DEF Carried
  <1>3. Undisturbed => Quiet'
    BY NextQuiet DEF Carried
  <1>4. Asked'
    BY DEF Asked
  <1>5. Undisturbed' <=> Undisturbed
    BY DEF Undisturbed
  <1> QED BY <1>2, <1>3, <1>4, <1>5 DEF Carried

\* A call of io_exchange that answers an owed command, or waits with what the buffer
\* holds, keeps what is below.
LEMMA ExchangeCarried ==
    ASSUME IoInv, Carried, pc \in {"app", "receive"}, NEW f, NEW a, Exchange(f, a),
           owed # NONE => a # <<>> \/ "ASYNCH_REPLY" \in f,
           a # <<>> => owed # NONE,
           "ASYNCH_REPLY" \in f => Written(a) = apduBuf
    PROVE  Carried'
  <1>1. AnsweredWhereAsked'
    BY HeldExchange DEF Carried
  <1>2. Undisturbed => Quiet'
    BY ExchangeQuiet DEF Carried
  <1>3. Asked'
    BY DEF Exchange, EnterReceive, Asked
  <1>4. Undisturbed' <=> Undisturbed
    BY DEF Undisturbed
  <1> QED BY <1>1, <1>2, <1>3, <1>4 DEF Carried

\* The application starts with nothing to send.
LEMMA InitStdInv == StdInit => StdInv
  <1> SUFFICES ASSUME StdInit PROVE StdInv
    OBVIOUS
  <1>1. IoInv /\ Quiet
    BY InitIoInv, InitQuiet DEF StdInit
  <1>2. pc = "app" /\ nested = FALSE /\ flags = {} /\ owed = NONE
    BY DEF StdInit, IoInit
  <1>3. StdTypeOK
    <2>1. 0 \in 0..BufLen
      BY LengthAssumption, WordRange
    <2> QED BY <2>1 DEF StdInit, StdTypeOK
  <1>4. Carried
    BY <1>1, <1>2 DEF Carried, AnsweredWhereAsked, Asked
  <1> QED
    BY <1>1, <1>2, <1>3, <1>4
    DEF StdInit, StdInv, InApplication, Callback, OneCommand, SendsItsResponse, OwnAnswer

\* io_recv_command sends the response of the handler, or waits.
LEMMA RecvCommandStdInv == ASSUME StdInv, RecvCommand PROVE StdInv'
  <1>0. /\ pc = "app" /\ ~nested /\ UNCHANGED <<nested, statusSent, outputLen, handler, response>>
        /\ IoTypeOK /\ TransportTypeOK /\ nested' \in BOOLEAN /\ statusSent' \in BOOLEAN
        /\ outputLen \in 0..BufLen /\ outputLen \in Nat
    BY LengthAssumption, WordRange
    DEF RecvCommand, StdInv, StdTypeOK, Callback, IoInv, IoTypeOK, Transport
  <1>a. /\ Output(outputLen) \in Seq(Byte) /\ Len(Output(outputLen)) = outputLen
        /\ Written(Output(outputLen)) = apduBuf
    BY <1>0, OutputType, RewriteIsNone
  <1>b. outputLen = 0 <=> Output(outputLen) = <<>>
    BY <1>0, <1>a
  <1>1. CASE /\ ioState = "READY" /\ ioState' = "RECEIVED"
             /\ Exchange({}, Output(outputLen)) /\ asynch' = FALSE
    <2>1. /\ handler = "idle"
          /\ \/ outputLen = 0 /\ owed = NONE
             \/ outputLen > 0 /\ owed # NONE /\ response # <<>> /\ Output(outputLen) = response
      BY <1>0, <1>1 DEF StdInv, InApplication
    <2>2. Output(outputLen) # <<>> => Output(outputLen) \in Replies
      BY <1>b, <2>1 DEF StdInv, StdTypeOK
    <2>3. IoInv'
      BY <1>0, <1>1, <1>a, <2>2, ExchangeIoInv DEF StdInv, Flags
    <2>4. Carried'
      BY <1>0, <1>1, <1>b, <2>1, ExchangeCarried DEF StdInv
    <2>5. /\ flags' = {} /\ tx' = Output(outputLen) /\ pc' \in {"turn", "receive"}
          /\ apduBuf' = apduBuf /\ (pc' = "turn" <=> Output(outputLen) # <<>>) /\ owed' = owed
      BY <1>1, <1>a DEF Exchange, EnterReceive
    <2>6. pc' = "turn" => Output(Len(tx))' = response /\ response # <<>>
      <3>1. Output(Len(tx))' = Output(outputLen)
        BY <1>a, <2>5 DEF Output
      <3> QED BY <1>b, <2>1, <2>5, <3>1
    <2>7. pc' = "receive" => owed' = NONE
      BY <1>b, <2>1, <2>5
    <2> QED
      BY <1>0, <1>1, <2>1, <2>3, <2>4, <2>5, <2>6, <2>7
      DEF StdInv, StdTypeOK, InApplication, Callback, OneCommand, SendsItsResponse, OwnAnswer
  <1>2. CASE /\ ioState = "RECEIVED" /\ ioState' = "WAITING"
             /\ Exchange({"ASYNCH_REPLY"}, Output(outputLen)) /\ asynch' = TRUE
    <2>1. /\ flags' = {"ASYNCH_REPLY"} /\ pc' = "receive" /\ owed' = owed /\ apduLength' = 0
      BY <1>2 DEF Exchange, EnterReceive
    <2>2. owed # NONE
      BY <1>0, <1>2 DEF StdInv, InApplication
    <2>3. IoInv'
      BY <1>0, <1>2, <1>a, ExchangeIoInv DEF StdInv, Flags
    <2>4. Carried'
      BY <1>0, <1>2, <1>a, <2>2, ExchangeCarried DEF StdInv
    <2> QED
      BY <1>0, <1>2, <2>1, <2>2, <2>3, <2>4
      DEF StdInv, StdTypeOK, InApplication, Callback, OneCommand, SendsItsResponse, OwnAnswer
  <1> QED BY <1>1, <1>2 DEF RecvCommand

\* A command is handed out by a media, while none is owed.
LEMMA DispatchFree ==
    ASSUME StdInv, Dispatch
    PROVE  owed = NONE /\ owed' # NONE /\ handler # "screen" /\ pc = "receive" /\ nested' = nested
  <1>1. pc = "receive" /\ apduState # IDLE /\ apduLength > 0 /\ owed' = apduMedia /\ nested' = nested
    BY DEF Dispatch, CommandReady
  <1>2. ~(0 > 0)
    OBVIOUS
  <1>3. owed = NONE
    BY <1>1, <1>2 DEF StdInv, OneCommand
  <1>4. apduMedia = apduState /\ apduState \in Interfaces \cup {IDLE, RAW}
    BY <1>1 DEF StdInv, IoInv, IoTypeOK, Transport, Gate
  <1>5. owed' # NONE
    BY <1>1, <1>4, OneIface, InterfacesAssumption
  <1> QED BY <1>1, <1>3, <1>5 DEF StdInv, OneCommand

\* The command goes to the handler.
LEMMA HandledStdInv == ASSUME Kept, StdInv, Handled PROVE StdInv'
  <1>1. /\ pc = "receive" /\ pc' = "app" /\ flags' = {} /\ nested' = nested
        /\ ioState' = IF asynch THEN "RECEIVED" ELSE ioState
        /\ handler' = "handling" /\ response' = <<>>
        /\ UNCHANGED <<outputLen, asynch>>
    BY DEF Handled, Dispatch, AnswerItself
  <1>2. IoInv' /\ owed' # NONE
    BY DispatchIoInv, DispatchFree DEF Handled, StdInv
  <1>3. ioState' = "RECEIVED" /\ ~nested
    BY <1>1 DEF StdInv, Callback
  <1>4. Carried'
    BY <1>1, NextCarried DEF Handled, StdInv, IoNext, Progress
  <1> QED
    BY <1>1, <1>2, <1>3, <1>4
    DEF StdInv, StdTypeOK, InApplication, Callback, OneCommand, SendsItsResponse, OwnAnswer

\* The handler writes its response, and keeps its length for the next call.
LEMMA RespondStdInv == ASSUME StdInv, Respond PROVE StdInv'
  <1>1. PICK a \in Responses :
          /\ apduBuf' = Written(Accepted(a)) /\ outputLen' = Len(Accepted(a))
          /\ response' = IF ioState = "READY" THEN response ELSE Accepted(a)
    BY DEF Respond, WriteResponse
  <1>2. /\ pc = "app" /\ handler = "handling" /\ ioState' = "READY" /\ handler' = "idle"
        /\ UNCHANGED <<hid, app, inEp, replying, ioVars, asynch>>
    BY DEF Respond
  <1>3. ioState = "RECEIVED" /\ owed # NONE
    BY <1>2 DEF StdInv, InApplication
  <1>4. /\ Accepted(a) \in Replies /\ Accepted(a) # <<>>
        /\ Accepted(a) \in Seq(Byte) /\ Len(Accepted(a)) \in 1..BufLen
    BY AcceptedReply
  <1>5. /\ apduBuf' \in [0..(BufLen - 1) -> Byte]
        /\ Output(Len(Accepted(a)))' = Accepted(a)
    BY <1>1, <1>4, WrittenIsRead, WrittenType DEF StdInv, IoInv, Transport
  <1>6. Transport'
    BY <1>2, <1>5, BufferTransport DEF StdInv, IoInv
  <1>7. IoInv'
    <2>1. IoTypeOK'
      BY <1>2, <1>6 DEF app, ioVars, StdInv, IoInv, IoTypeOK, Transport
    <2>2. Turns'
      BY <1>2 DEF app, ioVars, StdInv, IoInv, Turns
    <2> QED BY <1>6, <2>1, <2>2 DEF IoInv
  <1>8. outputLen' > 0 /\ outputLen' \in 0..BufLen /\ response' = Accepted(a) /\ Output(outputLen)' = response'
    <2>1. Output(outputLen)' = Output(Len(Accepted(a)))'
      BY <1>1 DEF Output
    <2> QED BY <1>1, <1>3, <1>4, <1>5, <2>1
  <1>9. Carried'
    <2>1. UNCHANGED <<apduState, apduMedia, inEp, pc, owed, epTimeout>>
      BY <1>2 DEF app, ioVars
    <2> QED BY <2>1
      DEF StdInv, Carried, AnsweredWhereAsked, Asked, Quiet, Unread, Answerable, ArmedMeansOutstanding
  <1> QED
    BY <1>2, <1>3, <1>4, <1>7, <1>8, <1>9
    DEF ioVars, StdInv, StdTypeOK, InApplication, Callback, OneCommand, SendsItsResponse, OwnAnswer

\* The user decides: the callback replies inside the asynchronous exchange.
LEMMA DecideStdInv == ASSUME StdInv, Decide PROVE StdInv'
  <1>1. PICK a \in Responses :
          /\ Exchange({"RETURN_AFTER_TX"}, Accepted(a))
          /\ outputLen' = Len(Accepted(a)) /\ response' = Accepted(a)
    BY DEF Decide
  <1>2. /\ pc = "receive" /\ nested' = TRUE /\ statusSent' \in BOOLEAN
        /\ handler = "screen" /\ handler' = "idle"
        /\ ioState = "WAITING" /\ UNCHANGED <<ioState, asynch>>
    BY DEF Decide
  <1>3. /\ Accepted(a) \in Replies /\ Accepted(a) # <<>>
        /\ Accepted(a) \in Seq(Byte) /\ Len(Accepted(a)) \in 1..BufLen
    BY AcceptedReply
  <1>4. /\ pc' = "turn" /\ flags' = {"RETURN_AFTER_TX"} /\ tx' = Accepted(a)
        /\ apduBuf' = Written(Accepted(a)) /\ owed' = owed
    BY <1>1, <1>3 DEF Exchange
  <1>5. asynch /\ owed # NONE
    BY <1>2 DEF StdInv, Callback, OneCommand
  <1>6. IoInv'
    BY <1>1, <1>2, <1>3, ExchangeIoInv DEF StdInv, Flags
  <1>7. Carried'
    BY <1>1, <1>2, <1>3, <1>5, ExchangeCarried DEF StdInv
  <1>8. Output(Len(tx))' = response' /\ response' # <<>>
    <2>1. Output(Len(Accepted(a)))' = Accepted(a)
      BY <1>3, <1>4, WrittenIsRead DEF StdInv, IoInv, Transport
    <2>2. Output(Len(tx))' = Output(Len(Accepted(a)))'
      BY <1>4 DEF Output
    <2> QED BY <1>1, <1>3, <2>1, <2>2
  <1> QED
    BY <1>1, <1>2, <1>3, <1>4, <1>5, <1>6, <1>7, <1>8
    DEF StdInv, StdTypeOK, InApplication, Callback, OneCommand, SendsItsResponse, OwnAnswer

\* The end of a reply: the callback's exchange gives the hand back to the wait around it.
LEMMA EndSendStdInv ==
    ASSUME Kept, StdInv, Decided \/ (EndSend /\ ~nested /\ UNCHANGED appVars) PROVE StdInv'
  <1>1. /\ EndSend /\ pc = "wait" /\ flags' = {} /\ ~nested' /\ owed' = NONE
        /\ UNCHANGED <<asynch, handler, response>>
    BY DEF Decided, EndSend, appVars, StdInv, Callback
  <1>2. IoInv' /\ handler # "screen"
    BY <1>1, EndSendIoInv DEF StdInv, OneCommand
  <1>3. pc' \in {"receive", "ended"}
    BY <1>1 DEF EndSend, StdInv, Callback
  <1>a. Carried'
    BY <1>1, <1>3, NextCarried DEF StdInv, IoNext, Progress
  <1>4. CASE Decided
    <2>1. outputLen' = 0 /\ outputLen' \in 0..BufLen /\ ioState' = "READY" /\ asynch
      BY <1>1, <1>4, LengthAssumption, WordRange DEF Decided, StdInv, Callback
    <2> QED
      BY <1>1, <1>2, <1>3, <1>a, <2>1
      DEF StdInv, StdTypeOK, InApplication, Callback, OneCommand, SendsItsResponse, OwnAnswer
  <1>5. CASE EndSend /\ ~nested /\ UNCHANGED appVars
    BY <1>1, <1>2, <1>3, <1>5, <1>a
    DEF appVars, StdInv, StdTypeOK, InApplication, Callback, OneCommand, SendsItsResponse, OwnAnswer
  <1> QED BY <1>4, <1>5

\* What io_exchange does on its own neither runs the application nor changes the reply
\* it was given.
LEMMA BelowStdInv == ASSUME Kept, StdInv, Below PROVE StdInv'
  <1>0. UNCHANGED appVars
    BY DEF Below
  <1>1. CASE TakeTurn \/ Drained \/ Send \/ Wait \/ Receive
    <2>1. IoInv' /\ [IoNext]_ioAll
      BY <1>1, NextIoInv DEF StdInv, IoNext, Progress
    <2>2. /\ UNCHANGED <<flags, tx, nested, owed>> /\ pc \in {"turn", "drained", "wait", "receive"}
          /\ pc' \in {"turn", "drained", "wait", "receive", "ended"}
          /\ pc' \in {"turn", "drained"} => pc \in {"turn", "drained"}
          /\ pc' = "receive" <=> Receive /\ pc' # "ended"
          /\ pc = "receive" <=> Receive
      BY <1>1 DEF TakeTurn, Drained, Send, Wait, Receive, Handle, Throw
    <2>3. Carried' /\ [KeepsCommand]_ioAll
      BY <2>1, <2>2, NextCarried DEF StdInv, Carried, Asked
    <2>4. pc' \in {"turn", "drained"} => apduBuf' = apduBuf
      <3> SUFFICES ASSUME pc' \in {"turn", "drained"} PROVE apduBuf' = apduBuf
        OBVIOUS
      <3>1. owed # NONE /\ owed' = owed /\ pc \in {"turn", "drained"}
        BY <2>2 DEF StdInv, Carried, Asked
      <3> QED BY <2>3, <3>1 DEF KeepsCommand, ioAll, vars
    <2>5. pc' \in {"turn", "drained"} => Output(Len(tx))' = Output(Len(tx))
      BY <2>2, <2>4 DEF Output
    <2>6. pc' = "receive" /\ owed' # NONE => apduLength' = 0
      <3> SUFFICES ASSUME Receive, pc' # "ended", owed # NONE PROVE apduLength' = 0
        BY <2>2
      <3>1. apduLength = 0 /\ pc = "receive"
        BY <2>2 DEF StdInv, OneCommand
      <3>2. apduMedia # NONE /\ (apduState # IDLE \/ RawCommands = {})
        BY <3>1 DEF StdInv, Carried, AnsweredWhereAsked, Kept, Quiet, Answerable
      <3>3. CASE Handle("receive")
        <4>1. Event
          BY <3>3 DEF Handle, Event, vars, app
        <4> QED BY <3>1, <3>2, <4>1, EventKeepsCommand DEF StdInv
      <3> QED BY <3>3 DEF Receive
    <2>7. OneCommand'
      BY <1>0, <2>2, <2>6 DEF appVars, StdInv, OneCommand
    <2>8. SendsItsResponse'
      BY <1>0, <2>2, <2>5 DEF appVars, StdInv, SendsItsResponse, OwnAnswer
    <2> QED
      BY <1>0, <2>1, <2>2, <2>3, <2>7, <2>8
      DEF appVars, StdInv, StdTypeOK, InApplication, Callback
  <1>2. CASE Lock
    <2>1. IoInv' /\ [IoNext]_ioAll
      BY <1>2, NextIoInv DEF StdInv, IoNext
    <2>2. UNCHANGED <<vars, pc, flags, tx, nested, owed>>
      BY <1>2 DEF Lock
    <2>3. Carried'
      BY <2>1, <2>2, NextCarried DEF StdInv, Carried, Asked
    <2> QED
      BY <1>0, <2>1, <2>2, <2>3
      DEF appVars, vars, app, StdInv, StdTypeOK, InApplication, Callback, OneCommand, SendsItsResponse,
          OwnAnswer, Output
  <1>3. CASE EndSend /\ ~nested
    BY <1>0, <1>3, EndSendStdInv
  <1>4. CASE Dispatch /\ pc' # "app"
    <2>1. IoInv' /\ owed' # NONE /\ handler # "screen"
      BY <1>4, DispatchIoInv, DispatchFree DEF StdInv
    <2>2. /\ pc = "receive" /\ pc' = "turn" /\ nested' = nested
          /\ "RETURN_AFTER_TX" \notin flags'
          /\ tx' \in {LockedReply, VersionReply, ExitReply}
      BY <1>4 DEF Dispatch, AnswerItself
    <2>3. Carried'
      BY <1>4, <2>1, NextCarried DEF StdInv, IoNext, Progress
    <2> QED
      BY <1>0, <2>1, <2>2, <2>3
      DEF appVars, StdInv, StdTypeOK, InApplication, Callback, OneCommand, SendsItsResponse, OwnAnswer
  <1> QED BY <1>1, <1>2, <1>3, <1>4 DEF Below

\* Every step of the application and of what is below keeps the invariant.
LEMMA NextStdInv == ASSUME Kept, StdInv, [StdNext]_stdAll PROVE StdInv'
  <1>1. CASE Ask
    <2>1. IoInv'
      BY <1>1, NextIoInv DEF Ask, StdInv
    <2>2. /\ pc = "app" /\ handler = "handling" /\ handler' = "screen"
          /\ UNCHANGED <<ioAll, ioState, outputLen, asynch, response>>
      BY <1>1 DEF Ask
    <2>3. Carried'
      BY <2>2, NextCarried DEF ioAll, ioVars, StdInv
    <2> QED
      BY <2>1, <2>2, <2>3
      DEF ioAll, ioVars, StdInv, StdTypeOK, InApplication, Callback, OneCommand, SendsItsResponse, OwnAnswer
  <1>2. CASE Start
    <2>1. IoInv' /\ [IoNext]_ioAll
      BY <1>2, NextIoInv DEF Start, StdInv, IoNext
    <2>2. pc' = "app" /\ flags' = {} /\ nested' = FALSE /\ owed' = NONE
      BY <1>2 DEF Start, Relaunch
    <2>3. /\ ioState' = "READY" /\ outputLen' = 0 /\ asynch' = FALSE
          /\ handler' = "idle" /\ response' = <<>>
      BY <1>2 DEF Start
    <2>4. 0 \in 0..BufLen
      BY LengthAssumption, WordRange
    <2>5. Carried'
      BY <2>1, <2>2, NextCarried DEF StdInv
    <2> QED
      BY <2>1, <2>2, <2>3, <2>4, <2>5
      DEF StdInv, StdTypeOK, InApplication, Callback, OneCommand, SendsItsResponse, OwnAnswer
  <1>3. CASE UNCHANGED stdAll
    <2>1. IoInv'
      BY <1>3, NextIoInv DEF stdAll, StdInv
    <2>2. UNCHANGED <<pc, owed>> /\ [IoNext]_ioAll
      BY <1>3 DEF stdAll, ioAll, ioVars
    <2>3. Carried'
      BY <2>2, NextCarried DEF StdInv, Carried, Asked
    <2> QED
      BY <1>3, <2>1, <2>3
      DEF stdAll, appVars, ioAll, ioVars, vars, app, StdInv, StdTypeOK, InApplication, Callback, OneCommand,
          SendsItsResponse, OwnAnswer, Output
  <1> QED
    BY <1>1, <1>2, <1>3, RecvCommandStdInv, HandledStdInv, RespondStdInv, DecideStdInv, EndSendStdInv,
       BelowStdInv
    DEF StdNext

\* Whether the handler or the user answers, what the buffer holds when the answer of the
\* application may leave is the response given for that command, and it leaves by the
\* media that command came from.
THEOREM ResponseLeaves == Kept => (StdSpec => [](SendsItsResponse /\ AnsweredWhereAsked))
  <1>1. StdInv => SendsItsResponse /\ AnsweredWhereAsked
    BY DEF StdInv, Carried
  <1>2. CASE Kept
    <2>1. StdInv /\ [StdNext]_stdAll => StdInv'
      BY <1>2, NextStdInv
    <2> QED BY <1>1, <2>1, InitStdInv, PTL DEF StdSpec
  <1> QED BY <1>2

\* An application that answers through io_send_response_buffers keeps the bounds of the
\* buffer below it.
THEOREM StdKeepsBounds == Kept => (StdSpec => [](IoTypeOK /\ InBounds))
  <1>1. StdInv => IoTypeOK /\ InBounds
    BY DEF StdInv, IoInv, Transport
  <1>2. CASE Kept
    <2>1. StdInv /\ [StdNext]_stdAll => StdInv'
      BY <1>2, NextStdInv
    <2> QED BY <1>1, <2>1, InitStdInv, PTL DEF StdSpec
  <1> QED BY <1>2
=============================================================================
