------------------------------ MODULE HidHost_proofs ------------------------------
(***************************************************************************)
(* Proofs about HidHost: for any report and buffer size, commands, replies *)
(* and number of programs that follow one another.  The part of the        *)
(* transport is proved in HidTransport_proofs.                             *)
(***************************************************************************)
EXTENDS HidHost, HidTransport_proofs

-----------------------------------------------------------------------------
(* Reports and their place in a command. *)

\* The interface the programs use.
LEMMA TheInterface == I \in Interfaces /\ I # NONE /\ I # IDLE
  BY InterfaceAssumption, InterfacesAssumption DEF I

\* A command fits the buffer.
LEMMA CommandBounds ==
    ASSUME NEW c \in Commands
    PROVE  /\ c \in Seq(Byte) /\ Len(c) \in Nat /\ Len(c) >= 1
           /\ Len(c) <= BufLen /\ BufLen <= Word - 1
  BY CommandsAssumption, LengthAssumption

\* The content of a report follows that of the one before.
LEMMA OffsetNext ==
    ASSUME NEW n \in Nat
    PROVE  /\ Offset(n) \in Nat /\ Offset(n + 1) = Offset(n) + (EpLen - Header(n))
           /\ EpLen - Header(n) \in Nat /\ EpLen - Header(n) >= 1
  <1>1. EpLen \in Nat /\ EpLen >= 8 /\ EpLen <= 255
    BY LengthAssumption
  <1>2. CASE n = 0
    BY <1>1, <1>2 DEF Offset, Header
  <1>3. CASE n # 0
    <2> DEFINE c == EpLen - 5
               before == (n - 1) * c
    <2>1. c \in Nat /\ n - 1 \in Nat /\ before \in Nat
      BY <1>1, <1>3
    <2>2. n * c = before + c
      BY <2>1
    <2>3. Offset(n) = (EpLen - 7) + before /\ Offset(n + 1) = (EpLen - 7) + n * c
      BY <1>3 DEF Offset
    <2>4. Header(n) = 5
      BY <1>3 DEF Header
    <2> HIDE DEF before
    <2> QED
      BY <1>1, <2>1, <2>2, <2>3, <2>4
  <1> QED
    BY <1>2, <1>3

\* A report holds something.
LEMMA OffsetGrows == ASSUME NEW n \in Nat PROVE n <= Offset(n)
  <1>1. EpLen \in Nat /\ EpLen >= 8
    BY LengthAssumption
  <1>2. CASE n = 0
    BY <1>2 DEF Offset
  <1>3. CASE n # 0
    <2>1. (n - 1) * 1 <= (n - 1) * (EpLen - 5) /\ (n - 1) * (EpLen - 5) \in Nat
      BY <1>1, <1>3
    <2> QED
      BY <1>1, <1>3, <2>1 DEF Offset
  <1> QED
    BY <1>2, <1>3

\* Later reports are further.
LEMMA OffsetOrder == ASSUME NEW m \in Nat, NEW n \in Nat, m <= n PROVE Offset(m) <= Offset(n)
  <1>1. EpLen \in Nat /\ EpLen >= 8
    BY LengthAssumption
  <1>2. CASE m = 0
    <2>1. Offset(m) = 0
      BY <1>2 DEF Offset
    <2>2. Offset(n) \in Nat
      BY OffsetNext
    <2> QED
      BY <2>1, <2>2
  <1>3. CASE m # 0
    <2>1. (m - 1) * (EpLen - 5) <= (n - 1) * (EpLen - 5)
          /\ (m - 1) * (EpLen - 5) \in Nat /\ (n - 1) * (EpLen - 5) \in Nat
      BY <1>1, <1>3
    <2> QED
      BY <1>1, <1>3, <2>1 DEF Offset
  <1> QED
    BY <1>2, <1>3

\* A report of a command, its bytes those of the command from its place on.
LEMMA ChunkReportIs ==
    ASSUME NEW c \in Commands, NEW n \in Nat, Offset(n) < Len(c), session \in Channels
    PROVE  LET r == ChunkReport(c, n) IN
           /\ r \in Report /\ r.tag = "APDU" /\ r.seq = n /\ r.channel = session /\ r.size = EpLen
           /\ n = 0 => r.total = Len(c)
           /\ Len(r.data) = Smaller(Len(c), Offset(n + 1)) - Offset(n)
           /\ \A k \in 1 .. Len(r.data) : r.data[k] = c[Offset(n) + k]
  <1> DEFINE a == Offset(n)
             b == Smaller(Len(c), Offset(n + 1))
             data == SubSeq(c, a + 1, b)
             r == ChunkReport(c, n)
  <1>1. c \in Seq(Byte) /\ Len(c) \in Nat /\ Len(c) <= BufLen /\ BufLen <= Word - 1 /\ Len(c) >= 1
    BY CommandBounds
  <1>2. a \in Nat /\ b \in Nat /\ a < b /\ b <= Len(c)
    <2>1. a \in Nat /\ Offset(n + 1) \in Nat /\ a < Offset(n + 1)
      <3>1. /\ Offset(n) \in Nat /\ Offset(n + 1) = Offset(n) + (EpLen - Header(n))
            /\ EpLen - Header(n) \in Nat /\ EpLen - Header(n) >= 1
        BY OffsetNext
      <3> DEFINE w == EpLen - Header(n)
      <3>2. w \in Nat /\ w >= 1 /\ Offset(n + 1) = a + w /\ a \in Nat
        BY <3>1
      <3> HIDE DEF w, a
      <3> QED
        BY <3>2
    <2>2. a < Len(c)
      OBVIOUS
    <2> HIDE DEF a
    <2> QED
      BY <1>1, <2>1, <2>2 DEF Smaller
  <1> HIDE DEF a, b
  <1>3. /\ data \in Seq(Byte) /\ Len(data) = b - a
        /\ \A k \in 1 .. (b - a) : data[k] = c[a + k]
    <2>1. \A k \in (a + 1) .. b : c[k] \in Byte
      BY <1>1, <1>2
    <2>2. a + 1 \in Int /\ b \in Int
      BY <1>2
    <2>3. /\ data \in Seq(Byte)
          /\ Len(data) = IF a + 1 <= b THEN b - (a + 1) + 1 ELSE 0
          /\ \A k \in 1 .. (b - (a + 1) + 1) : data[k] = c[(a + 1) + k - 1]
      BY <2>1, <2>2, SubSeqProperties
    <2> QED
      BY <1>2, <2>3
  <1>4. n <= Word - 1 /\ n \in 0 .. (Word - 1)
    <2>1. n <= a
      BY OffsetGrows DEF a
    <2> DEFINE len == Len(c)
    <2>2. a < len /\ len \in Nat /\ len <= BufLen /\ BufLen <= Word - 1
      BY <1>1 DEF a
    <2>3. BufLen \in Nat
      BY LengthAssumption, WordRange
    <2>4. a \in Nat
      BY <1>2
    <2> HIDE DEF a, len
    <2> QED
      BY <2>1, <2>2, <2>3, <2>4, WordRange
  <1>5. r = [tag |-> "APDU", channel |-> session, seq |-> n, total |-> IF n = 0 THEN Len(c) ELSE 0,
             size |-> EpLen, data |-> data]
    BY DEF ChunkReport, a, b
  <1>6. (IF n = 0 THEN Len(c) ELSE 0) \in 0 .. (Word - 1) /\ EpLen \in 0 .. 255
    BY <1>1, WordRange, LengthAssumption
  <1> HIDE DEF data
  <1>7. r \in Report
    BY <1>3, <1>4, <1>5, <1>6 DEF Report, Tags
  <1> QED
    BY <1>3, <1>5, <1>7 DEF a, b

-----------------------------------------------------------------------------
(* The command the application gets. *)

\* Only one interface is used.
Media == apduState \in {I, IDLE} /\ apduMedia \in {I, NONE} /\ replying \in BOOLEAN

\* The values of the program's variables.
HostTypeOK ==
    /\ host \in {"idle", "sending", "waiting", "pinging"}
    /\ session \in 1..Sessions
    /\ command \in Commands /\ chunk \in Nat

\* A program that sends has something left to send.
Progress == host = "sending" => Offset(chunk) < Len(command)

\* The first n bytes of command c are in the buffer.
Holds(c, n) == \A k \in 0 .. (n - 1) : apduBuf[k] = c[k + 1]

\* A reception in progress while a program sends is the one of its command, as far
\* as it has sent it, or it expects a report the program has already passed.
Reception ==
    apduMedia = NONE /\ current # NULL /\ host = "sending"
        => \/ chunk < seq
           \/ /\ chunk = seq /\ channel = session
              /\ current = Offset(seq) /\ total = Len(command)
              /\ Holds(command, current)

\* The application holds a command.
Delivery ==
    apduMedia # NONE /\ ~replying
        => \E c \in Commands : apduLength = Len(c) /\ Holds(c, Len(c))

DeliveryInv == Transport /\ Sending /\ Media /\ HostTypeOK /\ Progress /\ Reception /\ Delivery

\* A program's channel is one the device knows.
LEMMA SessionChannel == HostTypeOK => session \in Channels
  BY SessionsAssumption DEF HostTypeOK

\* The report of a command that the device expects: the bytes follow those already
\* in the buffer, and the last one hands the whole command to the application.
LEMMA ReportAppended ==
    ASSUME NEW c \in Commands, NEW n \in Nat, Offset(n) < Len(c), session \in Channels,
           Transport, n = seq, n # 0 => current = Offset(n) /\ total = Len(c),
           Holds(c, Offset(n)), AppendChunk(I, ChunkReport(c, n))
    PROVE  LET e == Smaller(Len(c), Offset(n + 1)) IN
           /\ Holds(c, e)' /\ total' = Len(c) /\ channel' = (IF n = 0 THEN session ELSE channel)
           /\ IF Offset(n + 1) < Len(c)
                THEN current' = Offset(n + 1) /\ seq' = n + 1 /\ UNCHANGED app
                ELSE HidInit /\ Received(I)
           /\ UNCHANGED <<inEp, replying>>
  <1> DEFINE r == ChunkReport(c, n)
             len == Len(c)
             a == Offset(n)
             b == Offset(n + 1)
             w == EpLen - Header(n)
             e == Smaller(len, b)
             left == IF seq = 0 THEN r.total ELSE remaining
             from == IF seq = 0 THEN 0 ELSE current
             l == Copied(r, left)
  <1>1. /\ r.seq = n /\ r.channel = session /\ r.size = EpLen /\ (n = 0 => r.total = len)
        /\ Len(r.data) = e - a
        /\ \A k \in 1 .. Len(r.data) : r.data[k] = c[a + k]
    BY ChunkReportIs
  <1>2. a \in Nat /\ w \in Nat /\ w >= 1 /\ b = a + w
    BY OffsetNext
  <1>3. len \in Nat /\ a < len /\ len <= BufLen /\ BufLen \in Nat
    BY CommandBounds, LengthAssumption
  <1>4. w <= 255 /\ w % Word = w
    <2>1. w \in 0 .. 255
      BY <1>2, LengthAssumption DEF Header
    <2> HIDE DEF w
    <2> QED
      BY <2>1 DEF Word
  <1>5. from = a /\ left = len - a
    <2>1. CASE n = 0
      <3>1. a = 0
        BY <2>1 DEF Offset
      <3> QED
        BY <1>1, <1>3, <2>1, <3>1
    <2>2. CASE n # 0
      <3>1. current = a /\ total = len /\ current # NULL
        BY <1>2, <2>2 DEF NULL
      <3>2. current + remaining = total /\ remaining \in Nat
        BY <3>1 DEF Transport, TransportTypeOK, InBounds
      <3> QED
        BY <1>2, <1>3, <2>2, <3>1, <3>2
    <2> QED
      BY <2>1, <2>2
  <1>6. l = Smaller(len - a, w) /\ e = a + l /\ l \in Nat /\ l >= 1
    <2>1. l = Smaller(Smaller(w % Word, left), w)
      BY <1>1 DEF Copied
    <2> HIDE DEF a, b, w, len, left, l
    <2> QED
      BY <1>2, <1>3, <1>4, <1>5, <2>1 DEF Smaller
  <1>7. /\ apduBuf' = Fill(from, r, l)
        /\ IF left - l > 0
             THEN /\ remaining' = left - l /\ current' = from + l /\ seq' = seq + 1
                  /\ UNCHANGED app
             ELSE HidInit /\ Received(I)
        /\ UNCHANGED <<inEp, replying>>
        /\ IF seq = 0 THEN total' = r.total /\ channel' = r.channel ELSE UNCHANGED <<total, channel>>
    BY DEF AppendChunk
  <1>8. total' = len /\ channel' = (IF n = 0 THEN session ELSE channel)
    BY <1>1, <1>7
  <1>9. Holds(c, e)'
    <2>1. e \in Nat /\ e <= len
      BY <1>2, <1>3 DEF Smaller
    <2>2. SUFFICES ASSUME NEW k \in 0 .. (e - 1) PROVE apduBuf'[k] = c[k + 1]
      BY <2>1 DEF Holds
    <2>3. DOMAIN apduBuf = 0 .. (BufLen - 1)
      BY DEF Transport, TransportTypeOK
    <2>4. k \in DOMAIN apduBuf /\ k \in Nat
      BY <1>3, <2>1, <2>3
    <2>5. apduBuf'[k] = IF k \in a .. (a + l - 1) THEN Content(r, k - a) ELSE apduBuf[k]
      BY <1>5, <1>7, <2>4 DEF Fill
    <2> HIDE DEF a, b, w, len, left, l, r, e
    <2>6. CASE k < a
      <3>1. apduBuf[k] = c[k + 1]
        BY <1>2, <2>4, <2>6 DEF Holds, a
      <3> QED
        BY <1>2, <1>6, <2>4, <2>5, <2>6, <3>1
    <2>7. CASE k >= a
      <3> DEFINE j == k - a
      <3>1. j \in Nat /\ j < e - a /\ k \in a .. (a + l - 1) /\ a + (j + 1) = k + 1
        BY <1>2, <1>6, <2>1, <2>4, <2>7, SMTT(60)
      <3>2. Content(r, j) = r.data[j + 1]
        <4> HIDE DEF j
        <4> QED
          BY <1>1, <3>1 DEF Content
      <3>3. r.data[j + 1] = c[a + (j + 1)]
        <4> HIDE DEF j
        <4>1. j + 1 \in 1 .. (e - a)
          BY <1>2, <2>1, <3>1
        <4> QED
          BY <1>1, <4>1
      <3> QED
        BY <2>5, <3>1, <3>2, <3>3
    <2> QED
      BY <1>2, <2>4, <2>6, <2>7
  <1>10. IF b < len THEN current' = b /\ seq' = n + 1 /\ UNCHANGED app ELSE HidInit /\ Received(I)
    <2>1. left - l > 0 <=> b < len
      <3> HIDE DEF a, b, w, len, left, l
      <3> QED
        BY <1>2, <1>3, <1>5, <1>6 DEF Smaller
    <2>2. b < len => from + l = b
      <3> HIDE DEF a, b, w, len, left, l, from
      <3> QED
        BY <1>2, <1>3, <1>5, <1>6 DEF Smaller
    <2> QED
      BY <1>7, <2>1, <2>2
  <1> QED
    BY <1>7, <1>8, <1>9, <1>10

\* What the application is handed is the command itself.
LEMMA CommandInBuffer ==
    ASSUME NEW c \in Commands, apduLength = Len(c), Holds(c, Len(c))
    PROVE  [k \in 1..apduLength |-> apduBuf[k - 1]] = c
  <1> DEFINE f == [k \in 1..apduLength |-> apduBuf[k - 1]]
  <1>1. c \in Seq(Byte) /\ Len(c) \in Nat
    BY CommandBounds
  <1>2. c = [k \in 1..Len(c) |-> c[k]]
    BY <1>1
  <1>3. \A k \in 1..Len(c) : apduBuf[k - 1] = c[k]
    <2>1. SUFFICES ASSUME NEW k \in 1..Len(c) PROVE apduBuf[k - 1] = c[k]
      OBVIOUS
    <2>2. k - 1 \in 0 .. (Len(c) - 1) /\ (k - 1) + 1 = k
      BY <1>1
    <2> QED
      BY <2>2 DEF Holds
  <1> QED
    BY <1>2, <1>3

\* A command in the buffer stays there as long as nothing writes it.
LEMMA DeliveryKept ==
    ASSUME Delivery, UNCHANGED <<apduBuf, apduMedia, apduLength, replying>>
    PROVE  Delivery'
  BY DEF Delivery, Holds

\* At the start nothing is received.
LEMMA InitDelivery == ASSUME HostInit PROVE DeliveryInv
  <1>1. Transport
    BY InitTransport DEF HostInit
  <1>2. HostTypeOK
    BY SessionsAssumption DEF HostInit, HostTypeOK
  <1> QED
    BY <1>1, <1>2 DEF HostInit, Init, DeliveryInv, Sending, Media, Progress, Reception, Delivery

\* A report the device expects goes on with the command or completes it; any other
\* drops the reception; behind the gate nothing changes.
LEMMA SendReportStep ==
    ASSUME DeliveryInv, SendReport
    PROVE  /\ host = "sending" /\ chunk' = chunk + 1
           /\ UNCHANGED <<session, command, expected, answer, inEp, replying>>
           /\ Transport' /\ HostTypeOK' /\ Progress'
           /\ \/ apduMedia # NONE /\ UNCHANGED vars
              \/ /\ apduMedia = NONE /\ replying = FALSE
                 /\ \/ current' = NULL /\ UNCHANGED <<channel, app, apduBuf>>
                    \/ /\ host' = "sending" /\ UNCHANGED app /\ channel' = session
                       /\ current' = Offset(chunk') /\ seq' = chunk' /\ total' = Len(command)
                       /\ \A k \in 0 .. (current' - 1) : apduBuf'[k] = command[k + 1]
                    \/ /\ host' = "waiting" /\ current' = NULL /\ channel' = session
                       /\ apduState' = I /\ apduMedia' = I /\ apduLength' = Len(command)
                       /\ \A k \in 0 .. (Len(command) - 1) : apduBuf'[k] = command[k + 1]
  <1> DEFINE r == ChunkReport(command, chunk)
  <1>1. /\ command \in Commands /\ chunk \in Nat /\ Offset(chunk) < Len(command)
        /\ session \in Channels
    BY SessionChannel DEF DeliveryInv, HostTypeOK, Progress, SendReport
  <1>2. r \in Report /\ r.tag = "APDU" /\ r.seq = chunk
    BY <1>1, ChunkReportIs
  <1>3. /\ host = "sending" /\ chunk' = chunk + 1 /\ UNCHANGED <<session, command, expected, answer>>
        /\ host' = IF Offset(chunk + 1) >= Len(command) THEN "waiting" ELSE "sending"
    BY DEF SendReport
  <1>4. HostTypeOK' /\ Progress'
    <2>1. HostTypeOK'
      BY <1>3 DEF DeliveryInv, HostTypeOK
    <2>2. Offset(chunk + 1) \in Nat /\ Len(command) \in Nat
      BY <1>1, OffsetNext, CommandBounds
    <2> QED
      BY <1>3, <2>1, <2>2 DEF Progress
  <1>5. CASE apduMedia = NONE
    <2>1. HidReceive(I, r)
      BY <1>5 DEF SendReport, Device
    <2>2. Transport'
      BY <1>2, <1>5, <2>1, TheInterface, ReceiveTransport DEF DeliveryInv
    <2>3. replying = FALSE
      BY <1>5 DEF DeliveryInv, Transport, ReplyGate, Media
    <2>4. RejectChunk(r) \/ AppendChunk(I, r)
      BY <1>2, <2>1 DEF HidReceive, AnswerControl, UnknownTag
    <2>5. CASE RejectChunk(r)
      <3>1. current' = NULL /\ UNCHANGED <<channel, app, apduBuf, inEp, replying>>
        BY <2>5 DEF RejectChunk, HidInit
      <3> QED
        BY <1>3, <1>4, <1>5, <2>2, <2>3, <3>1
    <2>6. CASE AppendChunk(I, r)
      <3> DEFINE e == Smaller(Len(command), Offset(chunk + 1))
      <3>1. chunk = seq
        BY <1>2, <2>6 DEF AppendChunk
      <3>2. chunk # 0 => /\ current # NULL /\ current = Offset(chunk) /\ total = Len(command)
                         /\ channel = session /\ Holds(command, Offset(chunk))
        <4>1. chunk # 0 => current # NULL
          BY <3>1 DEF DeliveryInv, Transport, InBounds
        <4> QED
          BY <1>1, <1>3, <1>5, <3>1, <4>1 DEF DeliveryInv, Reception
      <3>3. Holds(command, Offset(chunk))
        BY <3>2 DEF Offset, Holds
      <3>4. /\ \A k \in 0 .. (e - 1) : apduBuf'[k] = command[k + 1]
            /\ total' = Len(command)
            /\ channel' = (IF chunk = 0 THEN session ELSE channel)
            /\ IF Offset(chunk + 1) < Len(command)
                 THEN current' = Offset(chunk + 1) /\ seq' = chunk + 1 /\ UNCHANGED app
                 ELSE HidInit /\ Received(I)
            /\ UNCHANGED <<inEp, replying>>
        <4> DEFINE c == command
                   n == chunk
        <4>1. /\ c \in Commands /\ n \in Nat /\ Offset(n) < Len(c) /\ Transport /\ n = seq
              /\ n # 0 => current = Offset(n) /\ total = Len(c)
              /\ Holds(c, Offset(n)) /\ AppendChunk(I, ChunkReport(c, n))
          BY <1>1, <2>6, <3>1, <3>2, <3>3 DEF DeliveryInv
        <4> HIDE DEF c, n
        <4>2. LET e1 == Smaller(Len(c), Offset(n + 1)) IN
              /\ \A k \in 0 .. (e1 - 1) : apduBuf'[k] = c[k + 1]
              /\ total' = Len(c) /\ channel' = (IF n = 0 THEN session ELSE channel)
              /\ IF Offset(n + 1) < Len(c)
                   THEN current' = Offset(n + 1) /\ seq' = n + 1 /\ UNCHANGED app
                   ELSE HidInit /\ Received(I)
              /\ UNCHANGED <<inEp, replying>>
          BY <1>1, <4>1, ReportAppended DEF Holds
        <4> QED
          BY <4>2 DEF c, n
      <3>5. Len(command) \in Nat /\ Offset(chunk + 1) \in Nat
        BY <1>1, OffsetNext, CommandBounds
      <3>6. CASE Offset(chunk + 1) < Len(command)
        <4>1. /\ current' = Offset(chunk + 1) /\ seq' = chunk' /\ total' = Len(command) /\ UNCHANGED app
              /\ channel' = session /\ host' = "sending"
          BY <1>3, <3>2, <3>4, <3>5, <3>6
        <4>2. e = current'
          BY <3>6, <4>1, <3>5 DEF Smaller
        <4>3. \A k \in 0 .. (current' - 1) : apduBuf'[k] = command[k + 1]
          BY <3>4, <4>2
        <4> QED
          BY <1>3, <1>4, <1>5, <2>2, <2>3, <3>4, <4>1, <4>3
      <3>7. CASE ~(Offset(chunk + 1) < Len(command))
        <4>1. /\ host' = "waiting" /\ current' = NULL /\ channel' = session
              /\ apduState' = I /\ apduMedia' = I /\ apduLength' = Len(command)
          BY <1>3, <3>2, <3>4, <3>5, <3>7 DEF HidInit, Received
        <4>2. e = Len(command)
          BY <3>5, <3>7 DEF Smaller
        <4>3. \A k \in 0 .. (Len(command) - 1) : apduBuf'[k] = command[k + 1]
          BY <3>4, <4>2
        <4> QED
          BY <1>3, <1>4, <1>5, <2>2, <2>3, <3>4, <4>1, <4>3
      <3> QED
        BY <3>6, <3>7
    <2> QED
      BY <2>4, <2>5, <2>6
  <1>6. CASE apduMedia # NONE
    <2>1. UNCHANGED vars
      BY <1>6 DEF SendReport, Device
    <2>2. Transport'
      BY <2>1, StutterTransport DEF DeliveryInv
    <2>3. UNCHANGED <<inEp, replying>>
      BY <2>1 DEF vars
    <2> QED
      BY <1>3, <1>4, <1>6, <2>1, <2>2, <2>3
  <1> QED
    BY <1>5, <1>6

\* A report sent keeps the invariant.
LEMMA SendReportDelivery == ASSUME DeliveryInv, SendReport PROVE DeliveryInv'
  <1>1. Transport' /\ HostTypeOK' /\ Progress' /\ UNCHANGED <<session, command, replying>>
        /\ replying \in BOOLEAN /\ command \in Commands
    BY SendReportStep DEF DeliveryInv, HostTypeOK, Media
  <1>2. CASE apduMedia # NONE /\ UNCHANGED vars
    <2>1. UNCHANGED <<current, apduBuf, apduState, apduMedia, apduLength>>
      BY <1>2 DEF vars, hid, app
    <2>2. Delivery'
      BY <1>1, <2>1, DeliveryKept DEF DeliveryInv
    <2> QED
      BY <1>1, <1>2, <2>1, <2>2 DEF DeliveryInv, Sending, Media, Reception
  <1>3. CASE apduMedia = NONE /\ replying = FALSE /\ current' = NULL /\ UNCHANGED <<channel, app, apduBuf>>
    BY <1>1, <1>3 DEF DeliveryInv, Sending, Media, Reception, Delivery, app
  <1>4. CASE /\ apduMedia = NONE /\ replying = FALSE /\ host' = "sending" /\ UNCHANGED app
             /\ channel' = session /\ current' = Offset(chunk') /\ seq' = chunk' /\ total' = Len(command)
             /\ \A k \in 0 .. (current' - 1) : apduBuf'[k] = command[k + 1]
    <2>1. \A k \in 0 .. (current' - 1) : apduBuf'[k] = command'[k + 1]
      BY <1>1, <1>4
    <2>2. /\ channel' = session' /\ total' = Len(command') /\ current' = Offset(seq') /\ chunk' = seq'
      BY <1>1, <1>4
    <2>3. Reception'
      BY <2>1, <2>2 DEF Reception, Holds
    <2> QED
      BY <1>1, <1>4, <2>3 DEF DeliveryInv, Sending, Media, Delivery, app
  <1>5. CASE /\ apduMedia = NONE /\ replying = FALSE /\ host' = "waiting" /\ current' = NULL
             /\ channel' = session /\ apduState' = I /\ apduMedia' = I /\ apduLength' = Len(command)
             /\ \A k \in 0 .. (Len(command) - 1) : apduBuf'[k] = command[k + 1]
    <2> DEFINE c == command
    <2>1. c \in Commands /\ apduLength' = Len(c) /\ \A k \in 0 .. (Len(c) - 1) : apduBuf'[k] = c[k + 1]
      BY <1>1, <1>5
    <2> HIDE DEF c
    <2>2. Delivery'
      BY <2>1 DEF Delivery, Holds
    <2> QED
      BY <1>1, <1>5, <2>2 DEF DeliveryInv, Sending, Media, Reception
  <1> QED
    BY <1>2, <1>3, <1>4, <1>5, SendReportStep

\* A report read makes the device send what it has left, be it a command not yet
\* whole: its program is left behind.
LEMMA ReadDelivery == ASSUME DeliveryInv, Read PROVE DeliveryInv'
  <1>1. DataIn(I) /\ UNCHANGED <<session, command, chunk>>
    BY DEF Read
  <1>2. Transport'
    BY <1>1, TheInterface, DataInTransport DEF DeliveryInv
  <1>3. UNCHANGED <<apduBuf, apduMedia, apduLength, replying>>
    BY <1>1 DEF DataIn
  <1>4. host' \in {host, "idle"}
    BY DEF Read
  <1>5. HostTypeOK' /\ Progress'
    BY <1>1, <1>4 DEF DeliveryInv, HostTypeOK, Progress
  <1>6. Delivery'
    BY <1>3, DeliveryKept DEF DeliveryInv
  <1>7. \/ current # NULL /\ seq' = seq + 1 /\ apduState' = apduState
        \/ current' = NULL /\ apduState' = IDLE
    BY <1>1 DEF DataIn, SendChunk, HidInit
  <1>8. Sending' /\ Media'
    BY <1>3, <1>7 DEF DeliveryInv, Sending, Media
  <1>9. Reception'
    <2>1. seq \in Nat /\ chunk \in Nat
      BY DEF DeliveryInv, Transport, TransportTypeOK, HostTypeOK
    <2> QED
      BY <1>1, <1>3, <1>4, <1>7, <2>1 DEF DeliveryInv, Reception
  <1> QED
    BY <1>2, <1>5, <1>6, <1>8, <1>9 DEF DeliveryInv

\* A ping drops the reception in progress.
LEMMA PingDelivery == ASSUME DeliveryInv, Ping PROVE DeliveryInv'
  <1>1. PingReport \in Report /\ PingReport.tag = "PING"
    <2>1. session \in Channels /\ 0 \in 0..(Word - 1) /\ EpLen \in 0..255 /\ <<>> \in Seq(Byte)
      BY SessionChannel, LengthAssumption, WordRange, EmptySeq DEF DeliveryInv
    <2> QED
      BY <2>1 DEF PingReport, Report, Tags
  <1>2. UNCHANGED <<app, apduBuf, replying>> /\ Transport'
        /\ (current' = NULL \/ current' = current)
    <2>1. CASE apduMedia = NONE
      <3>1. HidReceive(I, PingReport)
        BY <2>1 DEF Ping, Device
      <3>2. AnswerControl(I, PingReport)
        BY <1>1, <3>1 DEF HidReceive, AppendChunk, RejectChunk, UnknownTag
      <3> QED
        BY <1>1, <2>1, <3>1, <3>2, TheInterface, ReceiveTransport DEF AnswerControl, HidInit, DeliveryInv
    <2>2. CASE apduMedia # NONE
      BY <2>2, StutterTransport DEF Ping, Device, vars, hid, DeliveryInv
    <2> QED
      BY <2>1, <2>2
  <1>3. host' = "pinging" /\ UNCHANGED <<session, command, chunk>>
    BY DEF Ping
  <1>4. Delivery'
    BY <1>2, DeliveryKept DEF DeliveryInv, app
  <1> QED
    BY <1>2, <1>3, <1>4 DEF DeliveryInv, Sending, Media, HostTypeOK, Progress, Reception, app

\* A command begun, or begun again, finds a reception of another one at a later
\* report than the first.
LEMMA BeginDelivery == ASSUME DeliveryInv, Begin \/ Resend PROVE DeliveryInv'
  <1>1. /\ chunk' = 0 /\ host' \in {"sending", "idle"} /\ command' \in Commands
        /\ UNCHANGED vars /\ UNCHANGED session
    BY DEF Begin, Resend, DeliveryInv, HostTypeOK
  <1>2. UNCHANGED <<total, channel, remaining, seq, current, apduBuf, apduState, apduMedia, apduLength,
                    replying>>
    BY <1>1 DEF vars, hid, app
  <1>3. Transport' /\ Delivery'
    BY <1>1, <1>2, StutterTransport, DeliveryKept DEF DeliveryInv
  <1>4. Offset(chunk') = 0 /\ Len(command') >= 1 /\ Len(command') \in Nat
    <2> DEFINE c == command'
    <2>1. c \in Commands
      BY <1>1
    <2> HIDE DEF c
    <2>2. Len(c) >= 1 /\ Len(c) \in Nat
      BY <2>1, CommandBounds
    <2> QED
      BY <1>1, <2>2 DEF Offset, c
  <1>5. HostTypeOK' /\ Progress'
    BY <1>1, <1>4 DEF DeliveryInv, HostTypeOK, Progress
  <1>6. current # NULL => chunk' < seq
    BY <1>1 DEF DeliveryInv, Transport, TransportTypeOK, Started
  <1>7. Reception'
    BY <1>2, <1>6 DEF Reception
  <1> QED
    BY <1>2, <1>3, <1>5, <1>7 DEF DeliveryInv, Sending, Media

\* The program that follows has sent nothing.
LEMMA KilledDelivery == ASSUME DeliveryInv, Killed PROVE DeliveryInv'
  <1>1. /\ session < Sessions /\ session' = session + 1 /\ host' = "idle" /\ UNCHANGED <<command, chunk>>
        /\ UsbReset \/ UNCHANGED vars
    BY DEF Killed
  <1>2. HostTypeOK' /\ Progress' /\ Reception'
    BY <1>1, SessionsAssumption DEF DeliveryInv, HostTypeOK, Progress, Reception
  <1>3. Transport'
    BY <1>1, UsbResetTransport, StutterTransport DEF DeliveryInv
  <1>4. \/ current' = NULL /\ apduState' = IDLE /\ apduMedia' = NONE /\ replying' = FALSE
        \/ UNCHANGED <<current, apduState, apduBuf, apduMedia, apduLength, replying>>
    BY <1>1 DEF UsbReset, Restart, HidInit, vars, hid, app
  <1>5. Sending' /\ Media'
    <2>1. CASE current' = NULL /\ apduState' = IDLE /\ apduMedia' = NONE /\ replying' = FALSE
      BY <2>1 DEF Sending, Media
    <2>2. CASE UNCHANGED <<current, apduState, apduBuf, apduMedia, apduLength, replying>>
      BY <2>2 DEF DeliveryInv, Sending, Media
    <2> QED
      BY <1>4, <2>1, <2>2
  <1>6. Delivery'
    <2>1. CASE apduMedia' = NONE
      BY <2>1 DEF Delivery
    <2>2. CASE apduMedia' # NONE
      BY <1>4, <2>2, DeliveryKept DEF DeliveryInv
    <2> QED
      BY <2>1, <2>2
  <1> QED
    BY <1>2, <1>3, <1>5, <1>6 DEF DeliveryInv

\* The command the application replies to is the one in the buffer, so that its
\* reply is one it has for it.
LEMMA ReplyIsAnswer ==
    ASSUME DeliveryInv, apduState # IDLE, ~replying
    PROVE  \E c \in Commands : /\ [k \in 1..apduLength |-> apduBuf[k - 1]] = c
                               /\ Answer([k \in 1..apduLength |-> apduBuf[k - 1]]) \in Replies
  <1>1. apduMedia # NONE
    BY TheInterface DEF DeliveryInv, Transport, Gate, Media
  <1>2. PICK c \in Commands : apduLength = Len(c) /\ Holds(c, Len(c))
    BY <1>1 DEF DeliveryInv, Delivery
  <1>3. [k \in 1..apduLength |-> apduBuf[k - 1]] = c
    BY <1>2, CommandInBuffer
  <1> HIDE DEF Holds
  <1> QED
    BY <1>3, AnswerAssumption

\* The application's calls neither receive nor leave a reception behind.
LEMMA ApplicationDelivery == ASSUME DeliveryInv, Application PROVE DeliveryInv'
  <1>1. UNCHANGED <<host, session, command, chunk>>
    BY DEF Application, hostVars
  <1>2. HostTypeOK' /\ Progress'
    BY <1>1 DEF DeliveryInv, HostTypeOK, Progress
  <1> DEFINE a == Answer([k \in 1..apduLength |-> apduBuf[k - 1]])
  <1>3. CASE Reply(a)
    <2>1. ~replying /\ apduState # IDLE /\ SendReply(a)
      BY <1>3 DEF Reply
    <2>2. a \in Replies /\ apduState \in Interfaces
      BY <2>1, ReplyIsAnswer, TheInterface DEF DeliveryInv, Media
    <2> HIDE DEF a
    <2>3. Transport'
      BY <2>1, <2>2, ReplyTransport DEF DeliveryInv
    <2>4. replying' = TRUE /\ UNCHANGED app
      BY <2>1 DEF SendReply
    <2>5. apduMedia' # NONE
      BY <2>1, <2>4, TheInterface DEF app, DeliveryInv, Transport, Gate, Media
    <2> QED
      BY <1>2, <2>1, <2>3, <2>4, <2>5 DEF DeliveryInv, Sending, Media, Reception, Delivery, app
  <1>4. CASE EndReply
    <2>1. Transport'
      BY <1>4, EndReplyTransport DEF DeliveryInv
    <2>2. current' = NULL /\ apduMedia' = NONE /\ replying' = FALSE /\ apduState' = apduState
      BY <1>4 DEF EndReply, hid, DeliveryInv, Sending
    <2> QED
      BY <1>2, <2>1, <2>2 DEF DeliveryInv, Sending, Media, Reception, Delivery
  <1>5. CASE ReplyRefused
    <2>1. Transport'
      BY <1>5, RestartTransport DEF ReplyRefused, DeliveryInv
    <2>2. current' = NULL /\ apduMedia' = NONE /\ replying' = FALSE /\ apduState' = IDLE
      BY <1>5 DEF ReplyRefused, Restart, HidInit
    <2> QED
      BY <1>2, <2>1, <2>2 DEF DeliveryInv, Sending, Media, Reception, Delivery
  <1> QED
    BY <1>3, <1>4, <1>5 DEF Application

\* Nothing happens.
LEMMA StutterDelivery == ASSUME DeliveryInv, UNCHANGED allVars PROVE DeliveryInv'
  <1>1. UNCHANGED vars
    BY DEF allVars
  <1>2. Transport'
    BY <1>1, StutterTransport DEF DeliveryInv
  <1>3. UNCHANGED <<total, channel, seq, current, apduBuf, apduState, apduMedia, apduLength, replying>>
    BY <1>1 DEF vars, hid, app
  <1>4. Delivery'
    BY <1>3, DeliveryKept DEF DeliveryInv
  <1>5. UNCHANGED <<host, session, command, chunk>>
    BY DEF allVars, hostVars
  <1>6. HostTypeOK' /\ Progress'
    BY <1>5 DEF DeliveryInv, HostTypeOK, Progress
  <1>7. Reception'
    BY <1>3, <1>5 DEF DeliveryInv, Reception, Holds
  <1> QED
    BY <1>2, <1>3, <1>4, <1>6, <1>7 DEF DeliveryInv, Sending, Media

\* Every step keeps the invariant.
LEMMA NextDelivery == ASSUME DeliveryInv, [HostNext]_allVars PROVE DeliveryInv'
  BY BeginDelivery, SendReportDelivery, PingDelivery, ReadDelivery, KilledDelivery, ApplicationDelivery,
     StutterDelivery DEF HostNext

\* The invariant holds in every behaviour.
LEMMA AlwaysDelivery == HostSpec => []DeliveryInv
  <1>1. HostInit => DeliveryInv
    BY InitDelivery
  <1>2. DeliveryInv /\ [HostNext]_allVars => DeliveryInv'
    BY NextDelivery
  <1> QED
    BY <1>1, <1>2, PTL DEF HostSpec

\* What the application gets is a command that a program sent, whole and in order,
\* wherever programs are killed and whatever late acknowledgements make the device
\* send out of the reception buffer (io_usb_hid_receive, io_usb_hid_sent).
THEOREM CommandsDelivered == HostSpec => []DeliveredIntact
  <1>1. DeliveryInv => DeliveredIntact
    <2>1. SUFFICES ASSUME DeliveryInv, apduMedia # NONE, ~replying
                   PROVE  [k \in 1..apduLength |-> apduBuf[k - 1]] \in Commands
      BY DEF DeliveredIntact
    <2>2. PICK c \in Commands : apduLength = Len(c) /\ Holds(c, Len(c))
      BY <2>1 DEF DeliveryInv, Delivery
    <2> HIDE DEF Holds
    <2> QED
      BY <2>2, CommandInBuffer
  <1> QED
    BY <1>1, AlwaysDelivery, PTL

-----------------------------------------------------------------------------
(* The reply the program gets. *)

\* A report that begins no reply to program s.
Noise(r, s) == ~(r.tag = "APDU" /\ r.channel = s /\ r.seq = 0)

\* Everything the device says is for this program or an earlier one.
Young ==
    /\ channel <= session
    /\ \A k \in 1 .. Len(inEp[I]) : inEp[I][k].channel <= session

\* Bytes i + 1 to j of a.
Part(a, i, j) == [k \in 1 .. (j - i) |-> a[i + k]]

\* Where report n of a ends.
End(a, n) == Smaller(Len(a), Offset(n + 1))

\* Report n of the reply a to program s.
IsPiece(r, s, a, n) ==
    /\ Offset(n) < Len(a)
    /\ r.tag = "APDU" /\ r.channel = s /\ r.seq = n
    /\ n = 0 => r.total = Len(a)
    /\ r.data = Part(a, Offset(n), End(a, n))

\* The application holds the command of this program.
Held ==
    ~replying /\ apduMedia # NONE /\ channel = session
        => host = "waiting" /\ apduLength = Len(command) /\ Holds(command, Len(command))

\* No reply to this program is on its way.
Quiet ==
    /\ host \in {"sending", "waiting"} => expected = 0
    /\ host \in {"idle", "pinging"} /\ expected # 0 => answer = Answer(command)
    /\ \A k \in 1 .. Len(inEp[I]) : Noise(inEp[I][k], session)
    /\ replying /\ channel = session => current = NULL
    /\ Held

\* The reports before e of the reply a have left: the others follow, or there is none.
Left(a, e) ==
    \/ /\ replying /\ apduState # IDLE /\ channel = session
       /\ seq = e /\ current # NULL /\ total = Len(a) /\ Holds(a, Len(a))
    \/ current = NULL /\ Offset(e) >= Len(a)

\* The program has read b reports of the reply a, and m reports of others are in
\* front of the next one.
Reading(a, m, b) ==
    /\ m <= Len(inEp[I])
    /\ \A k \in 1 .. m : Noise(inEp[I][k], session)
    /\ \A k \in (m + 1) .. Len(inEp[I]) : IsPiece(inEp[I][k], session, a, b + (k - m - 1))
    /\ IF b = 0 THEN expected = 0 /\ m < Len(inEp[I])
                ELSE /\ m = 0 /\ expected = Len(a)
                     /\ Offset(b) < Len(a) /\ answer = Part(a, 0, Offset(b))
    /\ Left(a, b + (Len(inEp[I]) - m))

\* A reply to this program is on its way.
Underway ==
    /\ host = "waiting"
    /\ apduMedia = NONE \/ replying
    /\ \E m \in Nat, b \in Nat : Reading(Answer(command), m, b)

AnswerInv == DeliveryInv /\ Young /\ (Quiet \/ Underway)

\* A reply is a sequence of bytes that fits the buffer.
LEMMA ReplyBounds ==
    ASSUME NEW a \in Replies
    PROVE  a \in Seq(Byte) /\ Len(a) \in Nat /\ Len(a) >= 1 /\ Len(a) <= BufLen
  BY RepliesAssumption, LengthAssumption

\* A part of a sequence is a sequence.
LEMMA PartIs ==
    ASSUME NEW a \in Seq(Byte), NEW i \in Nat, NEW j \in Nat, i <= j, j <= Len(a)
    PROVE  Part(a, i, j) \in Seq(Byte) /\ Len(Part(a, i, j)) = j - i
  <1> DEFINE n == Len(a)
             d == j - i
  <1>1. d \in Nat /\ n \in Nat
    OBVIOUS
  <1>2. \A k \in 1 .. d : a[i + k] \in Byte
    <2>1. SUFFICES ASSUME NEW k \in 1 .. d PROVE a[i + k] \in Byte
      OBVIOUS
    <2>2. i + k \in 1 .. n
      <3>1. j <= n
        OBVIOUS
      <3> HIDE DEF n
      <3> QED
        BY <1>1, <3>1
    <2> QED
      BY <2>2, ElementOfSeq
  <1>3. Part(a, i, j) = [k \in 1 .. d |-> a[i + k]]
    BY DEF Part
  <1> HIDE DEF d
  <1>4. [k \in 1 .. d |-> a[i + k]] \in Seq(Byte)
    BY <1>1, <1>2
  <1>5. Len([k \in 1 .. d |-> a[i + k]]) = d
    BY <1>1
  <1> QED
    BY <1>3, <1>4, <1>5 DEF d

\* The whole is a part.
LEMMA PartWhole == ASSUME NEW a \in Seq(Byte) PROVE Part(a, 0, Len(a)) = a
  <1>1. a = [k \in 1 .. Len(a) |-> a[k]] /\ Len(a) \in Nat
    OBVIOUS
  <1>2. Part(a, 0, Len(a)) = [k \in 1 .. Len(a) |-> a[k]]
    BY <1>1 DEF Part
  <1> QED
    BY <1>1, <1>2

\* Two parts that meet.
LEMMA PartsMeet ==
    ASSUME NEW a \in Seq(Byte), NEW i \in Nat, NEW j \in Nat, i <= j, j <= Len(a)
    PROVE  Part(a, 0, i) \o Part(a, i, j) = Part(a, 0, j)
  <1> DEFINE p == Part(a, 0, i)
             s == Part(a, i, j)
             w == Part(a, 0, j)
  <1>1. i <= Len(a) /\ 0 <= i /\ 0 <= j
    <2> DEFINE n == Len(a)
    <2>1. n \in Nat /\ j <= n
      OBVIOUS
    <2> HIDE DEF n
    <2>2. i <= n
      BY <2>1
    <2> QED
      BY <2>2 DEF n
  <1>2. p \in Seq(Byte) /\ Len(p) = i - 0
    BY <1>1, PartIs
  <1>3. s \in Seq(Byte) /\ Len(s) = j - i
    BY PartIs
  <1>4. w \in Seq(Byte) /\ Len(w) = j - 0
    BY <1>1, PartIs
  <1>5. /\ p \o s \in Seq(Byte) /\ Len(p \o s) = Len(p) + Len(s)
        /\ \A k \in 1 .. (Len(p) + Len(s)) :
              (p \o s)[k] = IF k <= Len(p) THEN p[k] ELSE s[k - Len(p)]
    <2> HIDE DEF p, s, w
    <2> QED
      BY <1>2, <1>3, ConcatProperties
  <1>6. Len(p \o s) = Len(w)
    <2> HIDE DEF p, s, w
    <2> QED
      BY <1>2, <1>3, <1>4, <1>5
  <1>7. \A k \in 1 .. Len(w) : (p \o s)[k] = w[k]
    <2>0. Len(w) = j
      <3> HIDE DEF w
      <3> QED
        BY <1>4
    <2>1. SUFFICES ASSUME NEW k \in 1 .. j PROVE (p \o s)[k] = w[k]
      <3> HIDE DEF p, s, w
      <3> QED
        BY <2>0
    <2>2. w[k] = a[k]
      BY DEF Part
    <2>3. CASE k <= i
      <3>1. p[k] = a[k]
        BY <2>3 DEF Part
      <3>2. k \in 1 .. (Len(p) + Len(s)) /\ k <= Len(p)
        <4> HIDE DEF p, s
        <4> QED
          BY <1>2, <1>3, <2>3
      <3> HIDE DEF p, s, w
      <3> QED
        BY <1>5, <2>2, <3>1, <3>2
    <2>4. CASE k > i
      <3>1. k - i \in 1 .. (j - i) /\ i + (k - i) = k
        BY <2>4
      <3>2. s[k - i] = a[k]
        BY <3>1 DEF Part
      <3>3. k \in 1 .. (Len(p) + Len(s)) /\ ~(k <= Len(p)) /\ k - Len(p) = k - i
        <4> HIDE DEF p, s
        <4> QED
          BY <1>2, <1>3, <2>4
      <3> HIDE DEF p, s, w
      <3> QED
        BY <1>5, <2>2, <3>2, <3>3
    <2>5. k <= i \/ k > i
      OBVIOUS
    <2> HIDE DEF p, s, w
    <2> QED
      BY <2>3, <2>4, <2>5, Zenon
  <1> HIDE DEF p, s, w
  <1>8. p \o s = w
    BY <1>4, <1>5, <1>6, <1>7, SeqEqual
  <1> QED
    BY <1>8 DEF p, s, w

\* What an acknowledgement does to the reports on their way: the first one leaves,
\* and one more of what the device has left, if any, comes after the others.
LEMMA Acknowledged ==
    ASSUME DeliveryInv, DataIn(I)
    PROVE  LET q == inEp[I]
               n == Len(q)
           IN /\ n \in Nat /\ n >= 1 /\ q[1] = Head(q)
              /\ UNCHANGED <<total, channel, apduMedia, apduLength, apduBuf, replying>>
              /\ \A k \in 1 .. (n - 1) : inEp'[I][k] = q[k + 1]
              /\ \/ /\ current # NULL /\ remaining # 0 /\ current' # NULL
                    /\ seq \in Nat /\ seq >= 1 /\ seq' = seq + 1 /\ apduState' = apduState
                    /\ Len(inEp'[I]) = n
                    /\ inEp'[I][n].tag = "APDU" /\ inEp'[I][n].channel = channel
                    /\ inEp'[I][n].seq = seq
                    /\ inEp'[I][n].data = [k \in 1 .. Smaller(remaining, EpLen - 5) |->
                                              apduBuf[current + k - 1]]
                 \/ /\ remaining = 0 \/ current = NULL
                    /\ current' = NULL /\ apduState' = IDLE /\ Len(inEp'[I]) = n - 1
  <1> DEFINE q == inEp[I]
             n == Len(q)
             t == Tail(q)
  <1>1. inEp \in [Interfaces -> Seq(InReport)] /\ I \in Interfaces /\ q # <<>>
    BY TheInterface DEF DeliveryInv, Transport, TransportTypeOK, DataIn
  <1>2. q \in Seq(InReport)
    BY <1>1
  <1>3. /\ n \in Nat /\ n >= 1 /\ q[1] = Head(q)
        /\ t \in Seq(InReport) /\ Len(t) = n - 1
        /\ \A k \in 1 .. (n - 1) : t[k] = q[k + 1]
    <2> HIDE DEF q
    <2>1. n \in Nat /\ n >= 1 /\ q[1] = Head(q)
      BY <1>1, <1>2
    <2>2. /\ t \in Seq(InReport) /\ Len(t) = Len(q) - 1
          /\ \A k \in 1 .. Len(t) : t[k] = q[k + 1]
      BY <1>1, <1>2, HeadTailProperties
    <2> QED
      BY <2>1, <2>2
  <1>4. UNCHANGED <<total, channel, apduMedia, apduLength, apduBuf, replying>>
    BY DEF DataIn
  <1>5. CASE remaining # 0 /\ current # NULL
    <2> DEFINE l == ChunkLength(seq, remaining)
               rep == [tag |-> "APDU", channel |-> channel, seq |-> seq,
                       total |-> IF seq = 0 THEN remaining ELSE 0,
                       data |-> [k \in 1..l |-> apduBuf[current + k - 1]]]
    <2>1. SendChunk(I, t, seq, current, remaining, apduBuf) /\ apduState' = apduState
      BY <1>5 DEF DataIn
    <2>2. /\ seq' = seq + 1 /\ current' = current + l
          /\ inEp' = [inEp EXCEPT ![I] = Append(t, rep)]
      <3> HIDE DEF q, t
      <3> QED
        BY <2>1 DEF SendChunk
    <2>3. seq \in Nat /\ seq >= 1 /\ current \in Nat /\ remaining \in Nat
      BY <1>5 DEF DeliveryInv, Transport, TransportTypeOK, Started
    <2>4. l = Smaller(remaining, EpLen - 5)
      BY <2>3 DEF ChunkLength, Header
    <2>5. l \in Nat
      BY <2>3, <2>4, LengthAssumption DEF Smaller
    <2>6. current' # NULL
      <3> HIDE DEF l
      <3> QED
        BY <2>2, <2>3, <2>5 DEF NULL
    <2>7. rep.tag = "APDU" /\ rep.channel = channel /\ rep.seq = seq
          /\ rep.data = [k \in 1..Smaller(remaining, EpLen - 5) |-> apduBuf[current + k - 1]]
      BY <2>4
    <2> HIDE DEF rep, t, l
    <2>8. inEp'[I] = Append(t, rep)
      BY <1>1, <2>2
    <2>9. /\ Len(Append(t, rep)) = n /\ Append(t, rep)[n] = rep
          /\ \A k \in 1 .. (n - 1) : Append(t, rep)[k] = q[k + 1]
      <3> HIDE DEF q, n
      <3>1. /\ Len(Append(t, rep)) = Len(t) + 1
            /\ Append(t, rep)[Len(t) + 1] = rep
            /\ \A k \in 1 .. Len(t) : Append(t, rep)[k] = t[k]
        BY <1>3
      <3> QED
        BY <1>3, <3>1
    <2> HIDE DEF q, n
    <2>10. /\ Len(inEp'[I]) = n /\ inEp'[I][n] = rep
           /\ \A k \in 1 .. (n - 1) : inEp'[I][k] = q[k + 1]
      BY <2>8, <2>9
    <2> QED
      BY <1>3, <1>4, <1>5, <2>1, <2>2, <2>3, <2>6, <2>7, <2>10 DEF q, n
  <1>6. CASE ~(remaining # 0 /\ current # NULL)
    <2>1. current' = NULL /\ apduState' = IDLE /\ inEp' = [inEp EXCEPT ![I] = t]
      BY <1>6 DEF DataIn, HidInit
    <2> HIDE DEF t
    <2>2. inEp'[I] = t
      BY <1>1, <2>1
    <2> QED
      BY <1>3, <1>4, <1>6, <2>1, <2>2
  <1> QED
    BY <1>5, <1>6

\* Where a reply on its way is: its position follows from the reports sent.
LEMMA LeftPosition ==
    ASSUME DeliveryInv, NEW a \in Replies, NEW e \in Nat, Left(a, e), current # NULL
    PROVE  /\ replying /\ channel = session /\ seq = e /\ e >= 1
           /\ total = Len(a) /\ Holds(a, Len(a))
           /\ current = Smaller(Len(a), Offset(e))
           /\ remaining = Len(a) - current /\ remaining \in Nat
  <1>1. /\ replying /\ apduState # IDLE /\ channel = session
        /\ seq = e /\ total = Len(a) /\ Holds(a, Len(a))
    BY DEF Left
  <1>2. e >= 1 /\ remaining \in Nat /\ current \in Nat /\ current + remaining = total
    BY <1>1 DEF DeliveryInv, Transport, TransportTypeOK, Started, InBounds
  <1>3. current = Smaller(total, (EpLen - 7) + (e - 1) * (EpLen - 5))
    BY <1>1 DEF DeliveryInv, Transport, ChunkPosition
  <1>4. Offset(e) = (EpLen - 7) + (e - 1) * (EpLen - 5)
    BY <1>2 DEF Offset
  <1>5. current = Smaller(Len(a), Offset(e))
    BY <1>1, <1>3, <1>4
  <1> DEFINE n == Len(a)
  <1>6. n \in Nat /\ total = n
    BY <1>1, ReplyBounds
  <1>7. remaining = n - current
    <2> HIDE DEF n
    <2> QED
      BY <1>2, <1>6
  <1> QED
    BY <1>1, <1>2, <1>5, <1>7

\* Nothing more is sent once the reports sent hold the whole reply.
LEMMA LeftOver ==
    ASSUME DeliveryInv, NEW a \in Replies, NEW e \in Nat, Left(a, e)
    PROVE  /\ (remaining = 0 \/ current = NULL) => Offset(e) >= Len(a)
           /\ Offset(e) >= Len(a) => remaining = 0 \/ current = NULL
  <1> DEFINE n == Len(a)
             o == Offset(e)
  <1>1. n \in Nat /\ o \in Nat
    BY ReplyBounds, OffsetNext
  <1>2. CASE current = NULL
    BY <1>2 DEF Left
  <1>3. CASE current # NULL
    <2>1. current = Smaller(n, o) /\ remaining = n - current
      BY <1>3, LeftPosition
    <2> HIDE DEF n, o
    <2>2. (remaining = 0 => o >= n) /\ (o >= n => remaining = 0)
      BY <1>1, <2>1 DEF Smaller
    <2> QED
      BY <1>3, <2>2 DEF n, o
  <1> QED
    BY <1>2, <1>3

\* The report of a reply on its way that the device sends is its next one.
LEMMA PieceSent ==
    ASSUME DeliveryInv, NEW a \in Replies, NEW e \in Nat, Left(a, e), current # NULL, remaining # 0,
           NEW r, r.tag = "APDU", r.channel = channel, r.seq = seq,
           r.data = [k \in 1 .. Smaller(remaining, EpLen - 5) |-> apduBuf[current + k - 1]]
    PROVE  IsPiece(r, session, a, e)
  <1> DEFINE n == Len(a)
             o == Offset(e)
             w == EpLen - Header(e)
             l == Smaller(remaining, EpLen - 5)
  <1>1. /\ channel = session /\ seq = e /\ e >= 1 /\ Holds(a, n)
        /\ current = Smaller(n, o) /\ remaining = n - current /\ remaining \in Nat
    BY LeftPosition
  <1>2. /\ n \in Nat /\ o \in Nat /\ Offset(e + 1) = o + w /\ w = EpLen - 5 /\ w \in Nat
    BY <1>1, ReplyBounds, OffsetNext DEF Header
  <1>3. current = o /\ o < n /\ l = End(a, e) - o /\ l \in Nat /\ o + l <= n
    <2> DEFINE b == Offset(e + 1)
    <2>1. End(a, e) = Smaller(n, b) /\ b = o + w
      BY <1>2 DEF End
    <2>2. l = Smaller(remaining, w)
      BY <1>2
    <2> HIDE DEF n, o, w, l, b
    <2> QED
      BY <1>1, <1>2, <2>1, <2>2 DEF Smaller
  <1>4. \A k \in 1 .. l : apduBuf[current + k - 1] = a[o + k]
    <2>1. SUFFICES ASSUME NEW k \in 1 .. l PROVE apduBuf[current + k - 1] = a[o + k]
      OBVIOUS
    <2>2. current + k - 1 \in 0 .. (n - 1) /\ (current + k - 1) + 1 = o + k
      <3> HIDE DEF n, o, l
      <3> QED
        BY <1>2, <1>3
    <2> QED
      BY <1>1, <2>2 DEF Holds
  <1>5. r.data = Part(a, o, End(a, e))
    <2>1. r.data = [k \in 1 .. l |-> apduBuf[current + k - 1]]
      OBVIOUS
    <2> HIDE DEF l, o
    <2>2. [k \in 1 .. l |-> apduBuf[current + k - 1]] = [k \in 1 .. l |-> a[o + k]]
      BY <1>4
    <2> QED
      BY <1>3, <2>1, <2>2 DEF Part
  <1> QED
    BY <1>1, <1>3, <1>5 DEF IsPiece

\* The device goes on with a reply as its reports are read: the reports behind the
\* first one follow each other, and the next one is sent or there is none.
LEMMA ReplyGoesOn ==
    ASSUME DeliveryInv, NEW a \in Replies, NEW e \in Nat, Left(a, e),
           DataIn(I), UNCHANGED session
    PROVE  LET n == Len(inEp[I]) IN
           \/ /\ Len(inEp'[I]) = n /\ IsPiece(inEp'[I][n], session, a, e)
              /\ Left(a, e + 1)' /\ Offset(e) < Len(a)
           \/ Len(inEp'[I]) = n - 1 /\ Left(a, e)' /\ current' = NULL /\ Offset(e) >= Len(a)
  <1> DEFINE n == Len(inEp[I])
             r == inEp'[I][n]
  <1>1. /\ UNCHANGED <<total, channel, apduBuf, replying>>
        /\ \/ /\ current # NULL /\ remaining # 0 /\ current' # NULL
              /\ seq' = seq + 1 /\ apduState' = apduState
              /\ Len(inEp'[I]) = n
              /\ r.tag = "APDU" /\ r.channel = channel /\ r.seq = seq
              /\ r.data = [k \in 1 .. Smaller(remaining, EpLen - 5) |-> apduBuf[current + k - 1]]
           \/ /\ remaining = 0 \/ current = NULL
              /\ current' = NULL /\ Len(inEp'[I]) = n - 1
    BY Acknowledged
  <1> HIDE DEF n
  <1>2. CASE /\ current # NULL /\ remaining # 0 /\ current' # NULL
             /\ seq' = seq + 1 /\ apduState' = apduState
             /\ Len(inEp'[I]) = n
             /\ r.tag = "APDU" /\ r.channel = channel /\ r.seq = seq
             /\ r.data = [k \in 1 .. Smaller(remaining, EpLen - 5) |-> apduBuf[current + k - 1]]
    <2> HIDE DEF r
    <2>1. IsPiece(r, session, a, e)
      BY <1>2, PieceSent
    <2>2. /\ replying /\ apduState # IDLE /\ channel = session /\ seq = e /\ total = Len(a)
          /\ Holds(a, Len(a))
      BY <1>2 DEF Left
    <2>3. Left(a, e + 1)'
      BY <1>1, <1>2, <2>2 DEF Left, Holds
    <2>4. Offset(e) < Len(a)
      BY <2>1 DEF IsPiece
    <2> QED
      BY <1>2, <2>1, <2>3, <2>4 DEF n, r
  <1>3. CASE (remaining = 0 \/ current = NULL) /\ current' = NULL /\ Len(inEp'[I]) = n - 1
    <2>1. Offset(e) >= Len(a)
      BY <1>3, LeftOver
    <2>2. Left(a, e)'
      BY <1>3, <2>1 DEF Left
    <2> QED
      BY <1>3, <2>1, <2>2 DEF n
  <1> QED
    BY <1>1, <1>2, <1>3

\* A report of another program is read and dropped: the reply is one report nearer.
LEMMA ReadingMoves ==
    ASSUME DeliveryInv, NEW a \in Replies, NEW m \in Nat, NEW b \in Nat, Reading(a, m, b), m >= 1,
           host = "waiting", Read
    PROVE  Reading(a, m - 1, b)' /\ host' = "waiting"
  <1> DEFINE q == inEp[I]
             n == Len(q)
             q1 == inEp'[I]
             n1 == Len(q1)
  <1>1. DataIn(I) /\ UNCHANGED <<session, command, chunk>>
    BY DEF Read
  <1>2. n \in Nat /\ n >= 1 /\ q[1] = Head(q) /\ \A k \in 1 .. (n - 1) : q1[k] = q[k + 1]
    BY <1>1, Acknowledged
  <1>3. /\ m < n /\ b = 0 /\ expected = 0 /\ Left(a, b + (n - m))
        /\ \A k \in 1 .. m : Noise(q[k], session)
        /\ \A k \in (m + 1) .. n : IsPiece(q[k], session, a, b + (k - m - 1))
    BY DEF Reading
  <1>4. PICK e \in Nat : e = n - m /\ b + (n - m) = e
    <2> HIDE DEF n
    <2> QED
      BY <1>2, <1>3
  <1>5. Noise(q[1], session)
    BY <1>3
  <1>6. host' = host /\ UNCHANGED <<expected, answer>>
    BY <1>2, <1>3, <1>5 DEF Read, Noise
  <1>7. Left(a, e)
    BY <1>3, <1>4
  <1>8. \/ n1 = n /\ IsPiece(q1[n], session, a, e) /\ Left(a, e + 1)'
        \/ n1 = n - 1 /\ Left(a, e)'
    BY <1>1, <1>7, ReplyGoesOn
  <1> HIDE DEF q, n, q1, n1
  <1>9. m - 1 < n1 /\ n1 \in Nat
    BY <1>2, <1>3, <1>8
  <1>10. \A k \in 1 .. (m - 1) : Noise(q1[k], session)
    <2>1. SUFFICES ASSUME NEW k \in 1 .. (m - 1) PROVE Noise(q1[k], session)
      OBVIOUS
    <2>2. k \in 1 .. (n - 1) /\ k + 1 \in 1 .. m
      BY <1>2, <1>3
    <2> QED
      BY <1>2, <1>3, <2>2
  <1>11. \A k \in m .. n1 : IsPiece(q1[k], session, a, k - m)
    <2>1. SUFFICES ASSUME NEW k \in m .. n1 PROVE IsPiece(q1[k], session, a, k - m)
      OBVIOUS
    <2>2. CASE k <= n - 1
      <3>1. k \in 1 .. (n - 1) /\ k + 1 \in (m + 1) .. n /\ b + ((k + 1) - m - 1) = k - m
        BY <1>2, <1>3, <2>2
      <3>2. IsPiece(q[k + 1], session, a, b + ((k + 1) - m - 1))
        BY <1>3, <3>1
      <3> QED
        BY <1>2, <3>1, <3>2
    <2>3. CASE ~(k <= n - 1)
      <3>1. k = n /\ n1 = n /\ k - m = e
        BY <1>2, <1>4, <1>3, <1>8, <1>9, <2>3
      <3> QED
        BY <1>2, <1>8, <3>1
    <2> QED
      BY <2>2, <2>3
  <1>12. Left(a, b + (Len(inEp[I]) - (m - 1)))'
    <2>1. CASE n1 = n /\ Left(a, e + 1)'
      <3>1. b + (n1 - (m - 1)) = e + 1
        BY <1>2, <1>3, <1>4, <2>1
      <3> QED
        BY <2>1, <3>1 DEF n1, q1, Left
    <2>2. CASE n1 = n - 1 /\ Left(a, e)'
      <3>1. b + (n1 - (m - 1)) = e
        BY <1>2, <1>3, <1>4, <2>2
      <3> QED
        BY <2>2, <3>1 DEF n1, q1, Left
    <2> QED
      BY <1>8, <2>1, <2>2
  <1>13. \A k \in ((m - 1) + 1) .. n1 : IsPiece(q1[k], session, a, b + (k - (m - 1) - 1))
    <2>1. SUFFICES ASSUME NEW k \in m .. n1 PROVE IsPiece(q1[k], session, a, b + (k - (m - 1) - 1))
      OBVIOUS
    <2>2. b + (k - (m - 1) - 1) = k - m
      BY <1>3
    <2> QED
      BY <1>11, <2>2
  <1>14. session' = session /\ host' = "waiting" /\ expected' = 0
    BY <1>1, <1>3, <1>6
  <1> QED
    BY <1>3, <1>9, <1>10, <1>12, <1>13, <1>14 DEF Reading, n1, q1, Noise, IsPiece

\* The next report of the reply is read: the program has one more, or has them all.
LEMMA ReadingReads ==
    ASSUME DeliveryInv, NEW a \in Replies, NEW b \in Nat, Reading(a, 0, b),
           host = "waiting", Read
    PROVE  \/ Reading(a, 0, b + 1)' /\ host' = "waiting"
           \/ /\ host' = "idle" /\ answer' = a
              /\ Len(inEp'[I]) = 0 /\ current' = NULL
  <1> DEFINE q == inEp[I]
             n == Len(q)
             q1 == inEp'[I]
             n1 == Len(q1)
             len == Len(a)
             r == q[1]
             o == Offset(b)
             o1 == Offset(b + 1)
             x == End(a, b)
  <1>1. DataIn(I) /\ UNCHANGED <<session, command, chunk>>
    BY DEF Read
  <1>2. n \in Nat /\ n >= 1 /\ r = Head(q) /\ \A k \in 1 .. (n - 1) : q1[k] = q[k + 1]
    BY <1>1, Acknowledged
  <1>3. /\ Left(a, b + (n - 0))
        /\ \A k \in 1 .. n : IsPiece(q[k], session, a, b + (k - 0 - 1))
        /\ IF b = 0 THEN expected = 0 ELSE expected = len /\ answer = Part(a, 0, o)
    BY DEF Reading
  <1>4. PICK e \in Nat : e = b + n /\ b + (n - 0) = e
    <2> HIDE DEF n
    <2> QED
      BY <1>2
  <1>5. Left(a, e)
    BY <1>3, <1>4
  <1>6. \/ n1 = n /\ IsPiece(q1[n], session, a, e) /\ Left(a, e + 1)' /\ Offset(e) < len
        \/ n1 = n - 1 /\ Left(a, e)' /\ current' = NULL /\ Offset(e) >= len
    BY <1>1, <1>5, ReplyGoesOn
  <1>7. /\ a \in Seq(Byte) /\ len \in Nat /\ len >= 1
        /\ o \in Nat /\ o1 \in Nat /\ o < o1
    <2>1. /\ Offset(b) \in Nat /\ Offset(b + 1) = Offset(b) + (EpLen - Header(b))
          /\ EpLen - Header(b) \in Nat /\ EpLen - Header(b) >= 1
      BY OffsetNext
    <2> DEFINE w == EpLen - Header(b)
    <2>2. o \in Nat /\ o1 = o + w /\ w \in Nat /\ w >= 1
      BY <2>1
    <2> HIDE DEF o, o1, w
    <2>3. o1 \in Nat /\ o < o1
      BY <2>2
    <2> QED
      BY <2>2, <2>3, ReplyBounds
  <1>8. IsPiece(r, session, a, b)
    <2>1. 1 \in 1 .. n /\ b + (1 - 0 - 1) = b
      <3> HIDE DEF n
      <3> QED
        BY <1>2
    <2>2. IsPiece(q[1], session, a, b + (1 - 0 - 1))
      BY <1>3, <2>1
    <2> QED
      BY <2>1, <2>2
  <1>9. /\ o < len /\ r.tag = "APDU" /\ r.channel = session /\ r.seq = b
        /\ b = 0 => r.total = len
        /\ r.data = Part(a, o, x)
    BY <1>8 DEF IsPiece
  <1>10. x = Smaller(len, o1) /\ x \in Nat /\ o <= x /\ x <= len
    <2>1. x = Smaller(len, o1)
      BY DEF End
    <2> HIDE DEF len, o, o1, x
    <2> QED
      BY <1>7, <1>9, <2>1 DEF Smaller
  <1>11. expected' = len /\ answer' = Part(a, 0, x)
         /\ host' = IF Len(answer') >= expected' THEN "idle" ELSE host
    <2>1. CASE b = 0
      <3>1. expected' = len /\ answer' = Part(a, o, x)
            /\ host' = IF Len(answer') >= expected' THEN "idle" ELSE host
        <4> HIDE DEF x, o, len
        <4> QED
          BY <1>2, <1>9, <2>1 DEF Read
      <3>2. o = 0
        BY <2>1 DEF Offset
      <3> QED
        BY <3>1, <3>2
    <2>2. CASE b # 0
      <3>1. expected = len /\ expected # 0 /\ answer = Part(a, 0, o)
        <4> HIDE DEF len, o
        <4> QED
          BY <1>3, <1>7, <2>2
      <3>2. expected' = len /\ answer' = answer \o Part(a, o, x)
            /\ host' = IF Len(answer') >= expected' THEN "idle" ELSE host
        <4> HIDE DEF x, o, len
        <4> QED
          BY <1>2, <1>9, <2>2, <3>1 DEF Read
      <3>3. Part(a, 0, o) \o Part(a, o, x) = Part(a, 0, x)
        <4> HIDE DEF x, o
        <4> QED
          BY <1>7, <1>10, PartsMeet
      <3> QED
        BY <3>1, <3>2, <3>3
    <2> QED
      BY <2>1, <2>2
  <1>12. Len(answer') = x
    <2>1. Len(Part(a, 0, x)) = x - 0
      <3>1. 0 \in Nat /\ x \in Nat /\ 0 <= x /\ x <= Len(a)
        <4> HIDE DEF x
        <4> QED
          BY <1>10
      <3> HIDE DEF x
      <3> QED
        BY <1>7, <3>1, PartIs
    <2> HIDE DEF x
    <2> QED
      BY <1>10, <1>11, <2>1
  <1> HIDE DEF q, n, q1, n1, r
  <1>13. CASE o1 >= len
    <2>1. x = len
      <3> HIDE DEF len, o1, x
      <3> QED
        BY <1>7, <1>10, <1>13 DEF Smaller
    <2>2. host' = "idle"
      <3> HIDE DEF len, x
      <3> QED
        BY <1>7, <1>11, <1>12, <2>1
    <2>3. answer' = a
      BY <1>7, <1>11, <2>1, PartWhole
    <2>4. \A k \in Nat : k >= b + 1 => Offset(k) >= len
      <3>1. SUFFICES ASSUME NEW k \in Nat, k >= b + 1 PROVE Offset(k) >= len
        OBVIOUS
      <3>2. o1 <= Offset(k) /\ Offset(k) \in Nat
        <4>1. b + 1 \in Nat /\ b + 1 <= k
          BY <3>1
        <4>2. Offset(b + 1) <= Offset(k)
          BY <4>1, OffsetOrder
        <4> QED
          BY <4>2, OffsetNext
      <3> DEFINE ok == Offset(k)
      <3> HIDE DEF len, o1, ok
      <3>3. ok >= len
        BY <1>7, <1>13, <3>2 DEF ok
      <3> QED
        BY <3>3 DEF ok
    <2>5. Offset(e) >= len /\ Offset(e) \in Nat
      <3>1. e >= b + 1
        BY <1>2, <1>4
      <3> QED
        BY <2>4, <3>1, OffsetNext
    <2>6. n1 = n - 1 /\ current' = NULL
      <3> DEFINE oe == Offset(e)
      <3>1. ~(oe < len)
        <4> HIDE DEF oe, len
        <4>1. oe >= len /\ oe \in Nat
          BY <2>5 DEF oe, len
        <4> QED
          BY <1>7, <4>1
      <3> QED
        BY <1>6, <3>1
    <2>7. n = 1
      <3>1. SUFFICES ASSUME n # 1 PROVE FALSE
        OBVIOUS
      <3>2. 2 \in 1 .. n /\ b + (2 - 0 - 1) = b + 1
        BY <1>2, <3>1
      <3>3. IsPiece(q[2], session, a, b + 1)
        BY <1>3, <3>2 DEF n, q
      <3>4. o1 < len
        BY <3>3 DEF IsPiece
      <3> HIDE DEF o1, len
      <3> QED
        BY <1>7, <1>13, <3>4
    <2>8. Len(inEp'[I]) = 0
      <3>1. n1 = 0
        BY <2>6, <2>7
      <3> QED
        BY <3>1 DEF n1, q1
    <2> QED
      BY <2>2, <2>3, <2>6, <2>8
  <1>14. CASE o1 < len
    <2>1. x = o1
      <3> HIDE DEF len, o1, x
      <3> QED
        BY <1>7, <1>10, <1>14 DEF Smaller
    <2>2. host' = "waiting" /\ expected' = len /\ answer' = Part(a, 0, o1)
      <3>1. ~(x >= len)
        <4> HIDE DEF len, x, o1
        <4> QED
          BY <1>7, <1>14, <2>1
      <3> HIDE DEF len, x, o1
      <3> QED
        BY <1>11, <1>12, <2>1, <3>1
    <2>3. n1 \in Nat
      BY <1>2, <1>6
    <2>4. \A k \in (0 + 1) .. n1 : IsPiece(q1[k], session, a, (b + 1) + (k - 0 - 1))
      <3>1. SUFFICES ASSUME NEW k \in 1 .. n1
                     PROVE  IsPiece(q1[k], session, a, (b + 1) + (k - 0 - 1))
        OBVIOUS
      <3>2. (b + 1) + (k - 0 - 1) = b + k
        OBVIOUS
      <3>3. CASE k <= n - 1
        <4>1. k \in 1 .. (n - 1) /\ k + 1 \in 1 .. n /\ b + ((k + 1) - 0 - 1) = b + k
          BY <1>2, <3>3
        <4>2. IsPiece(q[k + 1], session, a, b + ((k + 1) - 0 - 1))
          BY <1>3, <4>1 DEF n, q
        <4> QED
          BY <1>2, <3>2, <4>1, <4>2
      <3>4. CASE ~(k <= n - 1)
        <4>1. k = n /\ n1 = n /\ b + k = e
          BY <1>2, <1>4, <1>6, <2>3, <3>4
        <4> QED
          BY <1>2, <1>6, <3>2, <4>1
      <3> QED
        BY <3>3, <3>4
    <2>5. Left(a, (b + 1) + (Len(inEp[I]) - 0))'
      <3>1. CASE n1 = n /\ Left(a, e + 1)'
        <4>1. (b + 1) + (n1 - 0) = e + 1
          BY <1>2, <1>4, <3>1
        <4> QED
          BY <3>1, <4>1 DEF n1, q1, Left
      <3>2. CASE n1 = n - 1 /\ Left(a, e)'
        <4>1. (b + 1) + (n1 - 0) = e
          BY <1>2, <1>4, <3>2
        <4> QED
          BY <3>2, <4>1 DEF n1, q1, Left
      <3> QED
        BY <1>6, <3>1, <3>2
    <2>6. b + 1 # 0 /\ 0 <= n1 /\ \A k \in 1 .. 0 : Noise(q1[k], session)
      BY <2>3
    <2>7. session' = session
      BY <1>1
    <2>8. Reading(a, 0, b + 1)'
      BY <1>14, <2>2, <2>4, <2>5, <2>6, <2>7 DEF Reading, n1, q1, Noise, IsPiece
    <2> QED
      BY <2>2, <2>8
  <1>15. o1 >= len \/ o1 < len
    <2> HIDE DEF o1, len
    <2> QED
      BY <1>7
  <1> QED
    BY <1>13, <1>14, <1>15

\* A reply begins behind the reports not read yet.
LEMMA ReplyOpens ==
    ASSUME DeliveryInv, NEW a \in Replies, apduState # IDLE, SendReply(a)
    PROVE  LET q == inEp[I]
               n == Len(q)
               r == inEp'[I][n + 1]
           IN /\ n \in Nat /\ Len(inEp'[I]) = n + 1 /\ \A k \in 1 .. n : inEp'[I][k] = q[k]
              /\ r.tag = "APDU" /\ r.channel = channel /\ r.seq = 0 /\ r.total = Len(a)
              /\ r.data = Part(a, Offset(0), End(a, 0))
              /\ seq' = 1 /\ current' # NULL /\ total' = Len(a) /\ replying' = TRUE
              /\ \A k \in 0 .. (Len(a) - 1) : apduBuf'[k] = a[k + 1]
              /\ UNCHANGED <<channel, app>>
  <1> DEFINE q == inEp[I]
             n == Len(q)
             len == Len(a)
             buf == [k \in DOMAIN apduBuf |-> IF k < Len(a) THEN a[k + 1] ELSE apduBuf[k]]
             l == ChunkLength(0, Len(a))
             data == [k \in 1..l |-> buf[0 + k - 1]]
             rep == [tag |-> "APDU", channel |-> channel, seq |-> 0, total |-> Len(a), data |-> data]
  <1>1. apduState = I /\ I \in Interfaces /\ inEp \in [Interfaces -> Seq(InReport)]
    BY TheInterface DEF DeliveryInv, Media, Transport, TransportTypeOK
  <1>2. q \in Seq(InReport)
    BY <1>1
  <1>3. n \in Nat
    <2> HIDE DEF q
    <2> QED
      BY <1>2
  <1>4. len \in Nat /\ len >= 1 /\ len <= BufLen /\ BufLen \in Nat
    BY ReplyBounds, LengthAssumption
  <1>5. apduBuf' = buf /\ SendChunk(I, q, 0, 0, Len(a), buf)
        /\ total' = Len(a) /\ replying' = TRUE /\ UNCHANGED <<channel, app>>
    BY <1>1 DEF SendReply
  <1>6. l = Smaller(len, EpLen - 7) /\ l \in Nat /\ l <= len
    <2>1. l = Smaller(len, EpLen - 7)
      BY DEF ChunkLength, Header
    <2> HIDE DEF l, len
    <2> QED
      BY <1>4, <2>1, LengthAssumption DEF Smaller
  <1>7. Offset(0) = 0 /\ End(a, 0) = l
    <2>1. Offset(0) = 0
      BY DEF Offset
    <2>2. Offset(0 + 1) = EpLen - 7
      BY LengthAssumption DEF Offset
    <2> QED
      BY <1>6, <2>1, <2>2 DEF End
  <1>8. \A k \in 0 .. (len - 1) : buf[k] = a[k + 1]
    <2>1. DOMAIN apduBuf = 0 .. (BufLen - 1)
      BY DEF DeliveryInv, Transport, TransportTypeOK
    <2>2. SUFFICES ASSUME NEW k \in 0 .. (len - 1) PROVE buf[k] = a[k + 1]
      OBVIOUS
    <2>3. k \in DOMAIN apduBuf /\ k < len
      <3> HIDE DEF len
      <3> QED
        BY <1>4, <2>1
    <2> QED
      BY <2>3
  <1>9. data = Part(a, 0, l)
    <2>1. \A k \in 1 .. l : buf[0 + k - 1] = a[0 + k]
      <3>1. SUFFICES ASSUME NEW k \in 1 .. l PROVE buf[0 + k - 1] = a[0 + k]
        OBVIOUS
      <3>2. 0 + k - 1 \in 0 .. (len - 1) /\ (0 + k - 1) + 1 = 0 + k
        <4> HIDE DEF len, l
        <4> QED
          BY <1>4, <1>6
      <3> HIDE DEF buf, len
      <3> QED
        BY <1>8, <3>2
    <2>2. l - 0 = l
      <3> HIDE DEF l
      <3> QED
        BY <1>6
    <2> HIDE DEF l, buf
    <2> QED
      BY <2>1, <2>2 DEF Part
  <1>10. seq' = 0 + 1 /\ current' = 0 + l /\ inEp' = [inEp EXCEPT ![I] = Append(q, rep)]
    <2> HIDE DEF q, buf
    <2> QED
      BY <1>5 DEF SendChunk
  <1>11. current' # NULL
    <2> HIDE DEF l
    <2> QED
      BY <1>6, <1>10 DEF NULL
  <1>12. rep.tag = "APDU" /\ rep.channel = channel /\ rep.seq = 0 /\ rep.total = Len(a)
         /\ rep.data = data
    OBVIOUS
  <1> HIDE DEF rep
  <1>13. inEp'[I] = Append(q, rep)
    BY <1>1, <1>10
  <1>14. /\ Len(Append(q, rep)) = n + 1 /\ Append(q, rep)[n + 1] = rep
         /\ \A k \in 1 .. n : Append(q, rep)[k] = q[k]
    <2> HIDE DEF q
    <2> QED
      BY <1>2
  <1> HIDE DEF q, n, data, buf
  <1>15. /\ Len(inEp'[I]) = n + 1 /\ inEp'[I][n + 1] = rep
         /\ \A k \in 1 .. n : inEp'[I][k] = q[k]
    BY <1>13, <1>14
  <1>16. seq' = 1
    BY <1>10
  <1> QED
    BY <1>3, <1>5, <1>7, <1>8, <1>9, <1>11, <1>12, <1>15, <1>16 DEF q, n

\* The reply to a command of this program begins.
LEMMA ReplyUnderway ==
    ASSUME DeliveryInv, Quiet, Young, apduState # IDLE, ~replying, channel = session,
           NEW a \in Replies, a = Answer(command), SendReply(a), UNCHANGED hostVars
    PROVE  Underway'
  <1> DEFINE q == inEp[I]
             q1 == inEp'[I]
  <1>1. PICK n \in Nat : n = Len(q)
    BY ReplyOpens
  <1> DEFINE r == q1[n + 1]
  <1>2. /\ Len(q1) = n + 1 /\ \A k \in 1 .. n : q1[k] = q[k]
        /\ r.tag = "APDU" /\ r.channel = channel /\ r.seq = 0 /\ r.total = Len(a)
        /\ r.data = Part(a, Offset(0), End(a, 0))
        /\ seq' = 1 /\ current' # NULL /\ total' = Len(a) /\ replying' = TRUE
        /\ \A k \in 0 .. (Len(a) - 1) : apduBuf'[k] = a[k + 1]
        /\ UNCHANGED <<channel, app>>
    BY <1>1, ReplyOpens
  <1>3. UNCHANGED <<host, session, command, expected, answer>>
    BY DEF hostVars
  <1>4. apduMedia # NONE
    BY TheInterface DEF DeliveryInv, Transport, Gate, Media
  <1>5. host = "waiting" /\ expected = 0 /\ \A k \in 1 .. n : Noise(q[k], session)
    BY <1>1, <1>4 DEF Quiet, Held
  <1>6. Offset(0) = 0 /\ 0 < Len(a)
    BY ReplyBounds DEF Offset
  <1> HIDE DEF q, q1, r
  <1>7. IsPiece(r, session, a, 0)
    BY <1>2, <1>6 DEF IsPiece
  <1>8. Left(a, 1)'
    BY <1>2, <1>3 DEF Left, Holds, app
  <1>9. n < Len(q1) /\ n <= Len(q1) /\ 0 + (Len(q1) - n) = 1
    BY <1>2
  <1>10. \A k \in 1 .. n : Noise(q1[k], session)
    BY <1>2, <1>5
  <1>11. \A k \in (n + 1) .. Len(q1) : IsPiece(q1[k], session, a, 0 + (k - n - 1))
    <2>1. SUFFICES ASSUME NEW k \in (n + 1) .. Len(q1)
                   PROVE  IsPiece(q1[k], session, a, 0 + (k - n - 1))
      OBVIOUS
    <2>2. k = n + 1 /\ 0 + (k - n - 1) = 0
      BY <1>2
    <2> QED
      BY <1>7, <2>2 DEF r
  <1>12. Left(a, 0 + (Len(inEp[I]) - n))'
    BY <1>8, <1>9 DEF Left, q1
  <1>13. session' = session /\ expected' = 0
    BY <1>3, <1>5
  <1>14. Reading(a, n, 0)'
    BY <1>9, <1>10, <1>11, <1>12, <1>13 DEF Reading, q1, Noise, IsPiece
  <1>15. Answer(command') = a /\ host' = "waiting"
    BY <1>3, <1>5
  <1>16. 0 \in Nat /\ replying'
    BY <1>2
  <1> QED
    BY <1>14, <1>15, <1>16 DEF Underway

\* At the start nothing is on its way.
LEMMA InitAnswer == ASSUME HostInit PROVE AnswerInv
  <1>1. DeliveryInv
    BY InitDelivery
  <1>2. inEp[I] = <<>>
    BY TheInterface DEF HostInit, Init
  <1>3. Len(inEp[I]) = 0
    BY <1>2
  <1>4. Young
    BY <1>3 DEF HostInit, Young
  <1>5. Quiet
    BY <1>3 DEF HostInit, Init, Quiet, Held
  <1> QED
    BY <1>1, <1>4, <1>5 DEF AnswerInv

\* Where the host and the endpoint do not move, nothing changes for a program to
\* which no reply is on its way.
LEMMA QuietKept ==
    ASSUME Quiet, Young, UNCHANGED <<host, session, command, expected, answer, inEp>>,
           UNCHANGED <<channel, current, apduBuf, apduMedia, apduLength, replying>>
    PROVE  Quiet' /\ Young'
  BY DEF Quiet, Young, Held, Noise, Holds

\* A command sent: the application holds it once its last report is there.
LEMMA SendReportAnswer == ASSUME AnswerInv, SendReport PROVE AnswerInv'
  <1>1. DeliveryInv'
    BY SendReportDelivery DEF AnswerInv
  <1>2. /\ host = "sending" /\ UNCHANGED <<session, command, expected, answer, inEp, replying>>
        /\ host' \in {"sending", "waiting"}
    BY SendReportStep DEF AnswerInv, SendReport
  <1>3. Quiet /\ Young /\ expected = 0 /\ session \in Nat
    BY <1>2, SessionsAssumption DEF AnswerInv, Underway, Quiet, DeliveryInv, HostTypeOK
  <1>4. host' \in {"sending", "waiting"} => expected' = 0
    BY <1>2, <1>3
  <1>5. \A k \in 1 .. Len(inEp'[I]) : Noise(inEp'[I][k], session')
    BY <1>2, <1>3 DEF Quiet
  <1>6. channel' \in {channel, session} => Young'
    <2>1. channel <= session /\ session <= session
      BY <1>3 DEF Young
    <2> QED
      BY <1>2, <1>3, <2>1 DEF Young
  <1>7. CASE apduMedia # NONE /\ UNCHANGED vars
    <2>1. UNCHANGED <<channel, current, apduBuf, apduMedia, apduLength>>
      BY <1>7 DEF vars, hid, app
    <2>2. ~(~replying /\ channel = session)
      BY <1>2, <1>3, <1>7 DEF Quiet, Held
    <2>3. Held'
      BY <1>2, <2>1, <2>2 DEF Held
    <2>4. replying' /\ channel' = session' => current' = NULL
      BY <1>2, <1>3, <2>1 DEF Quiet
    <2>5. Quiet'
      BY <1>2, <1>4, <1>5, <2>3, <2>4 DEF Quiet, Noise
    <2> QED
      BY <1>1, <1>6, <2>1, <2>5 DEF AnswerInv
  <1>8. CASE apduMedia = NONE /\ replying = FALSE /\ current' = NULL /\ UNCHANGED <<channel, app, apduBuf>>
    <2>1. Held'
      BY <1>8 DEF Held, app
    <2>2. Quiet'
      BY <1>2, <1>4, <1>5, <1>8, <2>1 DEF Quiet, Noise
    <2> QED
      BY <1>1, <1>6, <1>8, <2>2 DEF AnswerInv
  <1>9. CASE apduMedia = NONE /\ replying = FALSE /\ host' = "sending" /\ UNCHANGED app /\ channel' = session
    <2>1. Held'
      BY <1>9 DEF Held, app
    <2>2. Quiet'
      BY <1>2, <1>4, <1>5, <1>9, <2>1 DEF Quiet, Noise
    <2> QED
      BY <1>1, <1>6, <1>9, <2>2 DEF AnswerInv
  <1>10. CASE /\ apduMedia = NONE /\ replying = FALSE /\ host' = "waiting" /\ current' = NULL
              /\ channel' = session /\ apduState' = I /\ apduMedia' = I /\ apduLength' = Len(command)
              /\ \A k \in 0 .. (Len(command) - 1) : apduBuf'[k] = command[k + 1]
    <2>1. apduLength' = Len(command') /\ \A k \in 0 .. (Len(command') - 1) : apduBuf'[k] = command'[k + 1]
      BY <1>2, <1>10
    <2>2. Held'
      BY <1>10, <2>1 DEF Held, Holds
    <2>3. Quiet'
      BY <1>2, <1>4, <1>5, <1>10, <2>2 DEF Quiet, Noise
    <2> QED
      BY <1>1, <1>6, <1>10, <2>3 DEF AnswerInv
  <1> QED
    BY <1>7, <1>8, <1>9, <1>10, SendReportStep DEF AnswerInv

\* What the device says of itself goes to the channel it serves.
LEMMA YoungRead == ASSUME DeliveryInv, Young, DataIn(I), UNCHANGED session PROVE Young'
  <1> DEFINE n == Len(inEp[I])
             q1 == inEp'[I]
  <1>1. /\ n \in Nat /\ channel' = channel /\ \A k \in 1 .. (n - 1) : q1[k] = inEp[I][k + 1]
        /\ \/ Len(q1) = n /\ q1[n].channel = channel
           \/ Len(q1) = n - 1
    BY Acknowledged
  <1>2. channel <= session /\ \A k \in 1 .. n : inEp[I][k].channel <= session
    BY DEF Young
  <1> HIDE DEF n, q1
  <1>3. \A k \in 1 .. Len(q1) : q1[k].channel <= session
    <2>1. SUFFICES ASSUME NEW k \in 1 .. Len(q1) PROVE q1[k].channel <= session
      OBVIOUS
    <2>2. CASE k <= n - 1
      <3>1. k \in 1 .. (n - 1) /\ k + 1 \in 1 .. n
        BY <1>1, <2>2
      <3> QED
        BY <1>1, <1>2, <3>1
    <2>3. CASE ~(k <= n - 1)
      <3>1. k = n /\ Len(q1) = n
        BY <1>1, <2>3
      <3>2. q1[n].channel = channel
        BY <1>1, <3>1
      <3> QED
        BY <1>2, <3>1, <3>2
    <2> QED
      BY <2>2, <2>3
  <1> QED
    BY <1>1, <1>2, <1>3 DEF Young, q1

\* A report that is for nobody is read.
LEMMA QuietRead == ASSUME DeliveryInv, Quiet, Read PROVE Quiet'
  <1> DEFINE q == inEp[I]
             n == Len(q)
             q1 == inEp'[I]
  <1>1. DataIn(I) /\ UNCHANGED <<session, command, chunk>>
    BY DEF Read
  <1>2. /\ n \in Nat /\ n >= 1 /\ q[1] = Head(q)
        /\ UNCHANGED <<channel, apduMedia, apduLength, apduBuf, replying>>
        /\ \A k \in 1 .. (n - 1) : q1[k] = q[k + 1]
        /\ \/ /\ current # NULL /\ seq \in Nat /\ seq >= 1
              /\ Len(q1) = n /\ q1[n].seq = seq
           \/ current' = NULL /\ Len(q1) = n - 1
    BY <1>1, Acknowledged
  <1>3. \A k \in 1 .. n : Noise(q[k], session)
    BY DEF Quiet
  <1>4. Noise(Head(q), session)
    BY <1>2, <1>3
  <1>5. host = "waiting" => expected = 0
    BY DEF Quiet
  <1>6. /\ UNCHANGED <<expected, answer>>
        /\ host' = host \/ (host = "pinging" /\ host' = "idle")
    BY <1>4, <1>5 DEF Read, Noise
  <1> HIDE DEF q, n, q1
  <1>7. \A k \in 1 .. Len(q1) : Noise(q1[k], session)
    <2>1. SUFFICES ASSUME NEW k \in 1 .. Len(q1) PROVE Noise(q1[k], session)
      OBVIOUS
    <2>2. CASE k <= n - 1
      <3>1. k \in 1 .. (n - 1) /\ k + 1 \in 1 .. n
        BY <1>2, <2>2
      <3> QED
        BY <1>2, <1>3, <3>1
    <2>3. CASE ~(k <= n - 1)
      <3>1. k = n /\ Len(q1) = n
        BY <1>2, <2>3
      <3>2. q1[n].seq = seq /\ seq \in Nat /\ seq >= 1
        BY <1>2, <3>1
      <3> QED
        BY <3>1, <3>2 DEF Noise
    <2> QED
      BY <2>2, <2>3
  <1>8. host' \in {"sending", "waiting"} => expected' = 0
    BY <1>6 DEF Quiet
  <1>9. host' \in {"idle", "pinging"} /\ expected' # 0 => answer' = Answer(command')
    BY <1>1, <1>6 DEF Quiet
  <1>10. replying' /\ channel' = session' => current' = NULL
    BY <1>1, <1>2 DEF Quiet
  <1>11. Held'
    BY <1>1, <1>2, <1>6 DEF Quiet, Held, Holds
  <1> QED
    BY <1>1, <1>7, <1>8, <1>9, <1>10, <1>11 DEF Quiet, Noise, q1

\* A report is read.
LEMMA ReadAnswer == ASSUME AnswerInv, Read PROVE AnswerInv'
  <1>1. DeliveryInv' /\ DeliveryInv /\ Young
    BY ReadDelivery DEF AnswerInv
  <1>2. DataIn(I) /\ UNCHANGED <<session, command>>
    BY DEF Read
  <1>3. Young'
    BY <1>1, <1>2, YoungRead
  <1>4. CASE Quiet
    BY <1>1, <1>3, <1>4, QuietRead DEF AnswerInv
  <1>5. CASE Underway
    <2>1. UNCHANGED <<apduMedia, replying>>
      BY <1>2 DEF DataIn
    <2>2. command \in Commands
      BY <1>1 DEF DeliveryInv, HostTypeOK
    <2>3. PICK a \in Replies : a = Answer(command)
      BY <2>2, AnswerAssumption
    <2>4. host = "waiting" /\ (apduMedia = NONE \/ replying)
      BY <1>5 DEF Underway
    <2>5. PICK m \in Nat, b \in Nat : Reading(a, m, b)
      BY <1>5, <2>3 DEF Underway
    <2>6. a = Answer(command')
      BY <1>2, <2>3
    <2>7. \A m1 \in Nat, b1 \in Nat : Reading(a, m1, b1)' /\ host' = "waiting" => Underway'
      BY <2>1, <2>4, <2>6 DEF Underway
    <2>8. CASE m >= 1
      <3>1. Reading(a, m - 1, b)' /\ host' = "waiting" /\ m - 1 \in Nat
        BY <1>1, <2>4, <2>5, <2>8, ReadingMoves
      <3>2. Underway'
        BY <2>7, <3>1
      <3> QED
        BY <1>1, <1>3, <3>2 DEF AnswerInv
    <2>9. CASE m = 0
      <3>1. Reading(a, 0, b)
        BY <2>5, <2>9
      <3>2. CASE Reading(a, 0, b + 1)' /\ host' = "waiting"
        <4>1. 0 \in Nat /\ b + 1 \in Nat
          OBVIOUS
        <4>2. Underway'
          BY <2>7, <3>2, <4>1
        <4> QED
          BY <1>1, <1>3, <4>2 DEF AnswerInv
      <3>3. CASE host' = "idle" /\ answer' = a /\ Len(inEp'[I]) = 0 /\ current' = NULL
        <4>1. Held'
          BY <2>1, <2>4 DEF Held
        <4>2. \A k \in 1 .. Len(inEp'[I]) : Noise(inEp'[I][k], session')
          BY <3>3
        <4>3. Quiet'
          BY <2>6, <3>3, <4>1, <4>2 DEF Quiet, Noise
        <4> QED
          BY <1>1, <1>3, <4>3 DEF AnswerInv
      <3> QED
        BY <1>1, <2>4, <3>1, <3>2, <3>3, ReadingReads
    <2> QED
      BY <2>8, <2>9
  <1> QED
    BY <1>4, <1>5 DEF AnswerInv

\* A ping comes with nothing on its way for the program, and its echo is noise.
LEMMA PingAnswer == ASSUME AnswerInv, Ping PROVE AnswerInv'
  <1>1. DeliveryInv' /\ DeliveryInv
    BY PingDelivery DEF AnswerInv
  <1>2. /\ host = "idle" /\ host' = "pinging" /\ UNCHANGED <<session, command, chunk, expected, answer>>
    BY DEF Ping
  <1>3. Quiet /\ Young
    BY <1>2 DEF AnswerInv, Underway
  <1>4. PingReport.tag = "PING" /\ PingReport.channel = session /\ session \in Nat
    BY <1>1, SessionsAssumption DEF PingReport, DeliveryInv, HostTypeOK
  <1>5. CASE apduMedia # NONE
    <2>1. UNCHANGED <<channel, current, apduBuf, apduMedia, apduLength, replying, inEp>>
      BY <1>5 DEF Ping, Device, vars, hid, app
    <2>2. Quiet' /\ Young'
      BY <1>2, <1>3, <2>1 DEF Quiet, Young, Held, Noise, Holds
    <2> QED
      BY <1>1, <2>2 DEF AnswerInv
  <1>6. CASE apduMedia = NONE
    <2> DEFINE q == inEp[I]
               rep == [tag |-> PingReport.tag, channel |-> PingReport.channel, seq |-> 0, total |-> 0,
                       data |-> <<>>]
    <2>1. HidReceive(I, PingReport)
      BY <1>6 DEF Ping, Device
    <2>2. AnswerControl(I, PingReport)
      BY <1>4, <2>1 DEF HidReceive, AppendChunk, RejectChunk, UnknownTag
    <2>3. /\ inEp' = [inEp EXCEPT ![I] = Append(@, rep)]
          /\ current' = NULL /\ UNCHANGED <<channel, app, apduBuf, replying>>
      BY <2>2 DEF AnswerControl, HidInit
    <2>4. inEp \in [Interfaces -> Seq(InReport)] /\ I \in Interfaces /\ q \in Seq(InReport)
      BY <1>1, TheInterface DEF DeliveryInv, Transport, TransportTypeOK
    <2>5. rep.tag = "PING" /\ rep.channel = session
      BY <1>4
    <2> HIDE DEF rep
    <2>6. inEp'[I] = Append(q, rep)
      BY <2>3, <2>4
    <2>7. \A k \in 1 .. Len(Append(q, rep)) : Append(q, rep)[k] = rep \/ (k \in 1 .. Len(q)
                                                              /\ Append(q, rep)[k] = q[k])
      <3> HIDE DEF q
      <3> QED
        BY <2>4
    <2>8. \A k \in 1 .. Len(inEp'[I]) : Noise(inEp'[I][k], session')
                                     /\ inEp'[I][k].channel <= session'
      <3>1. SUFFICES ASSUME NEW k \in 1 .. Len(inEp'[I])
                     PROVE  Noise(inEp'[I][k], session) /\ inEp'[I][k].channel <= session
        BY <1>2
      <3>2. CASE inEp'[I][k] = rep
        BY <1>4, <2>5, <3>2 DEF Noise
      <3>3. CASE k \in 1 .. Len(q) /\ inEp'[I][k] = q[k]
        BY <1>3, <3>3 DEF Quiet, Young
      <3> QED
        BY <2>6, <2>7, <3>2, <3>3
    <2>9. Young'
      BY <1>2, <1>3, <2>3, <2>8 DEF Young
    <2>10. Held'
      BY <1>6, <2>3 DEF Held, app
    <2>11. Quiet'
      BY <1>2, <1>3, <2>3, <2>8, <2>10 DEF Quiet, Noise
    <2> QED
      BY <1>1, <2>9, <2>11 DEF AnswerInv
  <1> QED
    BY <1>5, <1>6

\* The program sends another command, or the same one again: it has read all that
\* was on its way.
LEMMA BeginAnswer == ASSUME AnswerInv, Begin \/ Resend PROVE AnswerInv'
  <1>1. DeliveryInv' /\ DeliveryInv
    BY BeginDelivery DEF AnswerInv
  <1>2. UNCHANGED vars /\ UNCHANGED session /\ expected' = 0
    BY DEF Begin, Resend
  <1>3. UNCHANGED <<channel, current, apduBuf, apduMedia, apduLength, replying, inEp>>
    BY <1>2 DEF vars, hid, app
  <1>4. Quiet
    <2>1. SUFFICES ASSUME Underway PROVE FALSE
      BY DEF AnswerInv
    <2>2. host = "waiting" /\ apduMedia = NONE /\ inEp[I] = <<>>
      BY <2>1 DEF Begin, Resend, Underway
    <2>3. PICK a \in Replies : a = Answer(command)
      BY <1>1, AnswerAssumption DEF DeliveryInv, HostTypeOK
    <2>4. PICK m \in Nat, b \in Nat : Reading(a, m, b)
      BY <2>1, <2>3 DEF Underway
    <2>5. Len(inEp[I]) = 0
      BY <2>2
    <2>6. m = 0 /\ b # 0 /\ b + (0 - 0) = b
      BY <2>4, <2>5 DEF Reading
    <2>7. Offset(b) < Len(a) /\ Left(a, b)
      BY <2>4, <2>5, <2>6 DEF Reading
    <2>8. replying = FALSE
      BY <1>1, <2>2 DEF DeliveryInv, Transport, ReplyGate, Media
    <2>9. Offset(b) >= Len(a)
      BY <2>7, <2>8 DEF Left
    <2> DEFINE o == Offset(b)
               n == Len(a)
    <2>10. o < n /\ o >= n /\ o \in Nat /\ n \in Nat
      BY <2>7, <2>9, ReplyBounds, OffsetNext
    <2> HIDE DEF o, n
    <2> QED
      BY <2>10
  <1>5. Young
    BY DEF AnswerInv
  <1>6. Young'
    BY <1>2, <1>3, <1>5 DEF Young
  <1>7. Held'
    <2>1. SUFFICES ASSUME ~replying, apduMedia # NONE, channel = session PROVE FALSE
      BY <1>2, <1>3 DEF Held
    <2>2. host = "waiting"
      BY <1>4, <2>1 DEF Quiet, Held
    <2> QED
      BY <2>1, <2>2 DEF Begin, Resend
  <1>8. Quiet'
    BY <1>2, <1>3, <1>4, <1>7 DEF Quiet, Noise
  <1> QED
    BY <1>1, <1>6, <1>8 DEF AnswerInv

\* Nothing on its way is for the program that follows.
LEMMA KilledAnswer == ASSUME AnswerInv, Killed PROVE AnswerInv'
  <1>1. DeliveryInv' /\ DeliveryInv
    BY KilledDelivery DEF AnswerInv
  <1>2. /\ session' = session + 1 /\ host' = "idle" /\ expected' = 0
        /\ UsbReset \/ UNCHANGED vars
    BY DEF Killed
  <1>3. channel \in Nat /\ session \in Nat /\ inEp[I] \in Seq(InReport)
    <2>1. channel \in Channels /\ inEp \in [Interfaces -> Seq(InReport)]
      BY <1>1 DEF DeliveryInv, Transport, TransportTypeOK
    <2> QED
      BY <1>1, <2>1, SessionsAssumption, TheInterface DEF DeliveryInv, HostTypeOK
  <1>4. channel <= session /\ \A k \in 1 .. Len(inEp[I]) : inEp[I][k].channel <= session
    BY DEF AnswerInv, Young
  <1>5. channel' = channel /\ (inEp'[I] = inEp[I] \/ inEp'[I] = <<>>)
    BY <1>2, TheInterface DEF UsbReset, Restart, vars, hid
  <1>6. \A k \in 1 .. Len(inEp[I]) : inEp[I][k].channel \in Nat
    <2>1. SUFFICES ASSUME NEW k \in 1 .. Len(inEp[I]) PROVE inEp[I][k].channel \in Nat
      OBVIOUS
    <2>2. inEp[I][k] \in InReport
      BY <1>3, ElementOfSeq
    <2> QED
      BY <2>2, SessionsAssumption DEF InReport
  <1>7. \A k \in 1 .. Len(inEp'[I]) : inEp'[I][k].channel <= session' /\ inEp'[I][k].channel # session'
    <2>1. CASE inEp'[I] = inEp[I]
      BY <1>2, <1>3, <1>4, <1>6, <2>1
    <2>2. CASE inEp'[I] = <<>>
      <3>1. Len(inEp'[I]) = 0
        BY <2>2
      <3> QED
        BY <3>1
    <2> QED
      BY <1>5, <2>1, <2>2
  <1>8. channel' <= session' /\ channel' # session'
    BY <1>2, <1>3, <1>4, <1>5
  <1>9. Young'
    BY <1>7, <1>8 DEF Young
  <1>10. Held'
    BY <1>8 DEF Held
  <1>11. Quiet'
    BY <1>2, <1>7, <1>8, <1>10 DEF Quiet, Noise
  <1> QED
    BY <1>1, <1>9, <1>11 DEF AnswerInv

\* The application replies to the program it holds a command of, or to one that is
\* gone; the end of a reply leaves its reports on their way.
LEMMA ApplicationAnswer == ASSUME AnswerInv, Application PROVE AnswerInv'
  <1>1. DeliveryInv' /\ DeliveryInv /\ Young
    BY ApplicationDelivery DEF AnswerInv
  <1>2. UNCHANGED hostVars
    BY DEF Application
  <1>3. UNCHANGED <<host, session, command, expected, answer>>
    BY <1>2 DEF hostVars
  <1> DEFINE arg == [k \in 1..apduLength |-> apduBuf[k - 1]]
  <1>4. CASE Reply(Answer(arg))
    <2>1. ~replying /\ apduState # IDLE /\ SendReply(Answer(arg))
      BY <1>4 DEF Reply
    <2>2. PICK c \in Commands : arg = c /\ Answer(arg) \in Replies
      BY <1>1, <2>1, ReplyIsAnswer
    <2>3. PICK a \in Replies : a = Answer(arg)
      BY <2>2
    <2>4. SendReply(a)
      BY <2>1, <2>3
    <2>5. apduMedia # NONE
      BY <1>1, <2>1, TheInterface DEF DeliveryInv, Transport, Gate, Media
    <2>6. Quiet
      BY <2>1, <2>5 DEF AnswerInv, Underway
    <2> DEFINE q == inEp[I]
               n == Len(q)
               q1 == inEp'[I]
    <2>7. /\ n \in Nat /\ Len(q1) = n + 1 /\ \A k \in 1 .. n : q1[k] = q[k]
          /\ q1[n + 1].channel = channel /\ channel' = channel /\ replying' = TRUE
      BY <1>1, <2>1, <2>4, ReplyOpens
    <2>8. Young'
      <3>1. SUFFICES ASSUME NEW k \in 1 .. Len(q1) PROVE q1[k].channel <= session
        BY <1>1, <1>3, <2>7 DEF Young
      <3>2. k \in 1 .. n \/ k = n + 1
        <4> HIDE DEF n, q1
        <4> QED
          BY <2>7
      <3> QED
        BY <1>1, <2>7, <3>2 DEF Young
    <2>9. CASE channel = session
      <3>1. apduLength = Len(command) /\ Holds(command, Len(command)) /\ command \in Commands
        BY <1>1, <2>1, <2>5, <2>6, <2>9 DEF Quiet, Held, DeliveryInv, HostTypeOK
      <3>2. arg = command
        BY <3>1, CommandInBuffer
      <3>3. a = Answer(command)
        BY <2>3, <3>2
      <3>4. Underway'
        BY <1>1, <1>2, <2>1, <2>4, <2>6, <2>9, <3>3, ReplyUnderway
      <3> QED
        BY <1>1, <2>8, <3>4 DEF AnswerInv
    <2>10. CASE channel # session
      <3>1. \A k \in 1 .. Len(q1) : Noise(q1[k], session')
        <4>1. SUFFICES ASSUME NEW k \in 1 .. Len(q1) PROVE Noise(q1[k], session)
          BY <1>3
        <4>2. k \in 1 .. n \/ k = n + 1
          <5> HIDE DEF n, q1
          <5> QED
            BY <2>7
        <4>3. CASE k \in 1 .. n
          BY <2>6, <2>7, <4>3 DEF Quiet
        <4>4. CASE k = n + 1
          BY <2>7, <2>10, <4>4 DEF Noise
        <4> QED
          BY <4>2, <4>3, <4>4
      <3>2. Held'
        BY <2>7 DEF Held
      <3>3. Quiet'
        BY <1>3, <2>6, <2>7, <2>10, <3>1, <3>2 DEF Quiet, Noise
      <3> QED
        BY <1>1, <2>8, <3>3 DEF AnswerInv
    <2> QED
      BY <2>9, <2>10
  <1>5. CASE EndReply
    <2>1. /\ replying /\ apduState = IDLE /\ replying' = FALSE /\ apduMedia' = NONE
          /\ UNCHANGED <<channel, seq, current, total, inEp>>
      BY <1>5 DEF EndReply, hid
    <2>2. Young'
      BY <1>1, <1>3, <2>1 DEF Young
    <2>3. Held'
      BY <2>1 DEF Held
    <2>4. CASE Quiet
      <3>1. Quiet'
        BY <1>3, <2>1, <2>3, <2>4 DEF Quiet, Noise
      <3> QED
        BY <1>1, <2>2, <3>1 DEF AnswerInv
    <2>5. CASE Underway
      <3>1. PICK a \in Replies : a = Answer(command)
        BY <1>1, AnswerAssumption DEF DeliveryInv, HostTypeOK
      <3>2. PICK m \in Nat, b \in Nat : Reading(a, m, b)
        BY <2>5, <3>1 DEF Underway
      <3>3. current = NULL /\ Offset(b + (Len(inEp[I]) - m)) >= Len(a)
        BY <2>1, <3>2 DEF Reading, Left
      <3>4. Left(a, b + (Len(inEp[I]) - m))'
        BY <2>1, <3>3 DEF Left
      <3>5. Reading(a, m, b)'
        BY <1>3, <2>1, <3>2, <3>4 DEF Reading, Noise, IsPiece
      <3>6. a = Answer(command') /\ host' = "waiting"
        BY <1>3, <2>5, <3>1 DEF Underway
      <3>7. Underway'
        BY <2>1, <3>5, <3>6 DEF Underway
      <3> QED
        BY <1>1, <2>2, <3>7 DEF AnswerInv
    <2> QED
      BY <2>4, <2>5 DEF AnswerInv
  <1>6. CASE ReplyRefused
    <2>1. ~replying /\ apduMedia # NONE /\ Restart
      BY <1>6 DEF ReplyRefused
    <2>2. Quiet
      BY <2>1 DEF AnswerInv, Underway
    <2>3. current' = NULL /\ apduMedia' = NONE /\ channel' = channel /\ inEp'[I] = <<>>
      BY <2>1, TheInterface DEF Restart, HidInit
    <2>4. Len(inEp'[I]) = 0
      BY <2>3
    <2>5. Young'
      BY <1>1, <1>3, <2>3, <2>4 DEF Young
    <2>6. Held'
      BY <2>3 DEF Held
    <2>7. Quiet'
      BY <1>3, <2>2, <2>3, <2>4, <2>6 DEF Quiet, Noise
    <2> QED
      BY <1>1, <2>5, <2>7 DEF AnswerInv
  <1> QED
    BY <1>4, <1>5, <1>6 DEF Application

\* Nothing happens.
LEMMA StutterAnswer == ASSUME AnswerInv, UNCHANGED allVars PROVE AnswerInv'
  <1>1. DeliveryInv'
    BY StutterDelivery DEF AnswerInv
  <1>2. /\ UNCHANGED <<host, session, command, expected, answer>>
        /\ UNCHANGED <<total, channel, seq, current, apduBuf, apduState, apduMedia, apduLength, replying,
                       inEp>>
    BY DEF allVars, hostVars, vars, hid, app
  <1>3. Young'
    BY <1>2 DEF AnswerInv, Young
  <1>4. CASE Quiet
    <2>1. Quiet'
      BY <1>2, <1>4, QuietKept DEF AnswerInv
    <2> QED
      BY <1>1, <1>3, <2>1 DEF AnswerInv
  <1>5. CASE Underway
    <2>1. Underway'
      <3>1. PICK a \in Replies : a = Answer(command)
        BY AnswerAssumption DEF AnswerInv, DeliveryInv, HostTypeOK
      <3>2. PICK m \in Nat, b \in Nat : Reading(a, m, b)
        BY <1>5, <3>1 DEF Underway
      <3>3. Left(a, b + (Len(inEp[I]) - m))'
        BY <1>2, <3>2 DEF Reading, Left, Holds
      <3>4. Reading(a, m, b)'
        BY <1>2, <3>2, <3>3 DEF Reading, Noise, IsPiece
      <3>5. a = Answer(command')
        BY <1>2, <3>1
      <3> QED
        BY <1>2, <1>5, <3>4, <3>5 DEF Underway
    <2> QED
      BY <1>1, <1>3, <2>1 DEF AnswerInv
  <1> QED
    BY <1>4, <1>5 DEF AnswerInv

\* Every step keeps the invariant.
LEMMA NextAnswer == ASSUME AnswerInv, [HostNext]_allVars PROVE AnswerInv'
  BY BeginAnswer, SendReportAnswer, PingAnswer, ReadAnswer, KilledAnswer, ApplicationAnswer,
     StutterAnswer DEF HostNext

\* A program that has read a whole reply has read the reply to its own command,
\* whatever earlier programs left on the endpoint and however late their reports
\* were acknowledged (io_usb_hid_sent, USBD_HID_DataOut_impl).
THEOREM AnswersMatch == HostSpec => []AnswerMatches
  <1>1. HostInit => AnswerInv
    BY InitAnswer
  <1>2. AnswerInv /\ [HostNext]_allVars => AnswerInv'
    BY NextAnswer
  <1>3. AnswerInv => AnswerMatches
    BY DEF AnswerInv, AnswerMatches, Quiet, Underway
  <1> QED
    BY <1>1, <1>2, <1>3, PTL DEF HostSpec
=============================================================================
