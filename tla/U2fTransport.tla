------------------------------ MODULE U2fTransport ------------------------------
(***************************************************************************)
(* The U2F transport (lib_u2f/src/u2f_transport.c), the messages it        *)
(* carries (lib_stusb_impl/u2f_impl.c) and the part of io_exchange that    *)
(* replies through it, over USB.                                           *)
(*                                                                         *)
(* The host is arbitrary: any program on any channel sends any packet at   *)
(* any time.  A call of the transport is an operator from the state of the *)
(* device before it to the state after it, as u2f_service_t is passed      *)
(* along in the code, and an action is a whole event.                      *)
(*                                                                         *)
(* Both builds of the message layer are here: with U2F_PROXY_MAGIC an      *)
(* ordinary APDU travels inside a U2F authentication, and the host polls   *)
(* by sending it again; without, the APDU is the message.                  *)
(***************************************************************************)
EXTENDS Integers, Sequences

CONSTANTS
    Builds,      \* the builds of the message layer, of {"proxy", "plain"}
    Segment,     \* USB_SEGMENT_SIZE and BLE_SEGMENT_SIZE, which are equal
    BufLen,      \* IO_APDU_BUFFER_SIZE
    SignHeader,  \* U2F_HANDLE_SIGN_HEADER_SIZE
    Channels,    \* channels of the programs; Broadcast and Forbidden are added
    Packets,     \* the packets the host may send
    ReplyLengths, \* lengths of the replies of the application
    Allocations, \* bound: channels allocated by INIT messages on Broadcast
    MaxIn        \* bound: packets the host leaves unread while it sends, with and without proxy

Broadcast == "ffffffff"   \* BROADCAST_CHANNEL
Forbidden == "00000000"   \* FORBIDDEN_CHANNEL
AllChannels == Channels \cup {Broadcast, Forbidden}
Commands == {"PING", "MSG", "INIT", "WINK", "OTHER"}   \* first bytes with U2F_MASK_COMMAND
Word == 65536

\* What the device finds in a MSG: what u2f_apdu_* would make of its header, if it
\* has an extended length field, and the value of that field.
SignInstructions == {"CHECK", "HANDLE", "MAGIC", "MASK", "SIGN"}
Apdu == [ins : SignInstructions \cup {"ENROLL", "VERSION", "INFO", "CLASS", "INSTRUCTION"},
         long : BOOLEAN, lc : Nat]
Packet == [ch : AllChannels, cmd : Commands \cup {"CONT"}, seq : 0..127, len : 0..(Word - 1),
           size : 0..Segment, apdu : Apdu]
Sending == {"SENDING_RESPONSE", "SENDING_ERROR"}
States == {"IDLE", "HANDLE_SEGMENTED", "PROCESSING_COMMAND"} \cup Sending
\* A byte and the place it comes from: offset k of a message of a channel, of the
\* reply of the application, of the answer to INIT, of a constant.
Origins == AllChannels \cup {"zero", "app", "init", "magic", "const"}
Byte == Origins \X Nat

ASSUME BuildsAssumption == Builds \subseteq {"proxy", "plain"}
ASSUME SizesAssumption == Segment \in 8..64 /\ BufLen \in 20..(Word - 1) /\ SignHeader \in Nat
ASSUME PacketsAssumption == Packets \subseteq Packet
ASSUME BoundsAssumption == Allocations \in Nat /\ MaxIn \in [BOOLEAN -> Nat]
ASSUME RepliesAssumption == ReplyLengths \subseteq 1..(BufLen - 7)

\* The host frames its messages as CTAPHID has it: a packet is full, holds the rest of
\* its message, or is too short to be taken.
Framed(p) ==
    \/ p.size = Segment \/ p.size < 6
    \/ p.cmd # "CONT" /\ (p.size < 7 \/ p.size - 4 >= p.len + 3)
FullPackets == \A p \in Packets : Framed(p)

VARIABLES
    proxy,   \* the build has U2F_PROXY_MAGIC
    u,       \* G_io_u2f, G_io_app, G_io_apdu_buffer and the packets in the IN endpoint
    pc,      \* the thread: receiving, in the application, waiting to reply, replying, unwound
    txLen    \* tx_len of the reply under way

vars == <<proxy, u, pc, txLen>>

NoApdu == [ins |-> "CLASS", long |-> FALSE, lc |-> 0]
NoCrc == [of |-> NoApdu, n |-> 0]

\* cmd, len and apdu are the first bytes of transportReceiveBuffer, decoded; crc and
\* fcrc are the bytes the two running CRC cover, as if no two contents had the same
\* CRC; client is a history variable, the channel whose command the application holds.
ServiceInit ==
    [state |-> "IDLE", offset |-> 0, length |-> 0, index |-> 0, from |-> "receive",
     media |-> "NONE", ch |-> Forbidden, tch |-> Forbidden, next |-> 1, sendCmd |-> "MSG",
     wait |-> "IDLE", fstate |-> "IDLE", foffset |-> 0, findex |-> 0,
     crc |-> NoCrc, fcrc |-> NoCrc, cmd |-> "OTHER", len |-> 0, apdu |-> NoApdu,
     sending |-> FALSE, thrown |-> FALSE,
     apduState |-> "IDLE", apduMedia |-> "NONE", apduLen |-> 0, client |-> Forbidden,
     mem |-> [k \in 0..(BufLen - 1) |-> <<"zero", 0>>], out |-> <<>>]

Init ==
    /\ proxy \in {b = "proxy" : b \in Builds}
    /\ u = ServiceInit
    /\ pc = "receive" /\ txLen = 0

-----------------------------------------------------------------------------
(* u2f_transport.c: emission. *)

Smaller(a, b) == IF a < b THEN a ELSE b

\* u2f_transport_reset: all but the channels and the reply that was sent.
ResetKeepsBuffer(s) ==   \* mutant
    [s EXCEPT !.state = "IDLE", !.offset = 0, !.media = "NONE", !.index = 0,
              !.fstate = "IDLE", !.foffset = 0, !.findex = 0, !.sending = FALSE, !.wait = "IDLE"]
Reset(s) ==
    [s EXCEPT !.state = "IDLE", !.offset = 0, !.media = "NONE", !.index = 0,
              !.fstate = "IDLE", !.foffset = 0, !.findex = 0,
              !.sending = FALSE, !.wait = "IDLE", !.from = "receive"]

Repliable(s) ==
    \/ s.wait = "IDLE"
    \/ s.wait # "ON" /\ s.fstate = "FAKE_RECEIVED" /\ ~s.sending

\* The byte at offset k of transportBuffer, wherever it points.
Source(s, k) ==
    CASE s.from = "ping"  -> s.mem[k + 3]
      [] s.from = "apdu"  -> s.mem[k]
      [] s.from = "const" -> <<"const", k>>

\* A packet of the reply under way; u2f_io_send knows no other media than USB.
SendPacket(s, media) ==
    LET first == s.index = 0
        header == (IF media = "USB" THEN 4 ELSE 0) + (IF first THEN 3 ELSE 1)
        block == Smaller(s.length - s.offset, Segment - header)
        packet == [ch |-> s.ch, cmd |-> IF first THEN s.sendCmd ELSE "CONT", kind |-> s.sendCmd,
                   seq |-> s.index - 1, to |-> s.client,
                   data |-> [k \in 1..block |-> Source(s, s.offset + k - 1)]]
    IN [s EXCEPT !.offset = @ + block, !.index = @ + 1,
                 !.out = IF media = "USB" THEN Append(@, packet) ELSE @]

\* u2f_transport_sent: the next packet, or the end of the reply.
SentNotIdle(s, media) ==   \* mutant
    LET t == [s EXCEPT !.sending = FALSE]
    IN IF ~Repliable(s) \/ t.state \notin Sending THEN t
       ELSE IF t.offset < t.length THEN SendPacket(t, media)
       ELSE Reset(t)
Sent(s, media) ==
    LET t == [s EXCEPT !.sending = FALSE]
    IN IF ~Repliable(s) \/ t.state \notin Sending THEN t
       ELSE IF t.offset < t.length THEN SendPacket(t, media)
       ELSE IF t.offset = t.length THEN [Reset(t) EXCEPT !.apduState = "IDLE"]
       ELSE t

\* u2f_transport_error.
Error(s) ==
    Sent([s EXCEPT !.state = "SENDING_ERROR", !.index = 0, !.from = "const", !.offset = 0,
                   !.length = 1, !.sendCmd = "ERROR"], "USB")

\* u2f_message_reply.
MessageReplyIndexed(s, cmd, from, length) ==   \* mutant
    IF Repliable(s)
      THEN Sent([s EXCEPT !.state = "SENDING_RESPONSE", !.from = from, !.offset = 0,
                          !.length = length, !.sendCmd = cmd], s.media)
      ELSE s
MessageReply(s, cmd, from, length) ==
    IF Repliable(s)
      THEN Sent([s EXCEPT !.state = "SENDING_RESPONSE", !.index = 0, !.from = from, !.offset = 0,
                          !.length = length, !.sendCmd = cmd], s.media)
      ELSE s

\* A packet of its own, beside the reply under way: BUSY, WINK, user presence.
SendAlone(s, cmd) ==
    [s EXCEPT !.out = Append(@, [ch |-> s.ch, cmd |-> cmd, kind |-> "alone", seq |-> -1,
                                 to |-> s.client, data |-> <<>>])]
SendNotice(s, cmd) == SendAlone([s EXCEPT !.sending = TRUE], cmd)

\* u2f_message_set_autoreply_wait_user_presence.
AutoReply(s, enabled) ==
    CASE enabled /\ s.wait = "IDLE" -> SendNotice([s EXCEPT !.wait = "ON"], "PRESENCE")
      [] ~enabled /\ s.wait = "ON" -> [s EXCEPT !.wait = "REPLY_READY"]
      [] OTHER -> s

-----------------------------------------------------------------------------
(* u2f_impl.c: the messages. *)

\* The content of buffer offsets from..to-1 becomes that of origin o.
Written(mem, o, to) == [k \in DOMAIN mem |-> IF k < to THEN <<o, k>> ELSE mem[k]]
Moved(mem, by, n) == [k \in DOMAIN mem |-> IF k < n THEN mem[k + by] ELSE mem[k]]

\* u2f_get_cmd_msg_data_length: only the extended encoding, and the lengths that
\* leave no doubt.
DataLength(a, length) ==
    CASE length \in {4, 5} -> 0
      [] length = 7 /\ a.long -> 0
      [] length > 7 /\ a.long /\ length \in {7 + a.lc, 9 + a.lc} -> a.lc
      [] OTHER -> -1

\* The APDU of a message at offset by of the receive buffer goes to the upper layer.
GiveToApp(s, by, n) ==
    [s EXCEPT !.mem = Moved(@, by, n), !.apduLen = n, !.apduMedia = "U2F", !.apduState = "U2F"]

\* u2f_apdu_sign: an ordinary APDU under the mask of the proxy.
Sign(s, dataLength) ==
    IF \/ s.apduState # "IDLE"
       \/ dataLength < SignHeader + 5
       \/ s.apdu.ins \in {"CHECK", "HANDLE", "MASK"}
      THEN MessageReply(s, "MSG", "const", 2)
    ELSE IF s.apdu.ins = "MAGIC"
      THEN MessageReply([s EXCEPT !.mem = Written(@, "magic", 8)], "MSG", "apdu", 8)
    ELSE AutoReply(GiveToApp(s, 10 + SignHeader, dataLength - SignHeader), TRUE)

\* u2f_handle_cmd_msg.
CmdMsg(s) ==
    LET n == DataLength(s.apdu, s.len)
        reply(length) == MessageReply(s, "MSG", "const", length)
    IN IF n < 0 THEN reply(2)
       ELSE IF ~proxy THEN GiveToApp(s, 3, s.len)
       ELSE CASE s.apdu.ins \in SignInstructions -> Sign(s, n)
              [] s.apdu.ins = "VERSION" -> reply(8)
              [] s.apdu.ins = "INFO" -> reply(4)
              [] s.apdu.ins \in {"ENROLL", "CLASS", "INSTRUCTION"} -> reply(2)

\* u2f_handle_cmd_init: a new channel on Broadcast, the same one elsewhere; the
\* answer echoes the 8 bytes that were sent and is built in the APDU buffer.
CmdInit(s) ==
    MessageReply([s EXCEPT !.next = IF s.ch = Broadcast THEN @ + 1 ELSE @,
                           !.mem = Written(@, "init", 17)], "INIT", "apdu", 17)

\* u2f_message_complete.
MessageComplete(s) ==
    CASE s.cmd = "INIT" -> CmdInit(s)
      [] s.cmd = "PING" -> MessageReply(s, "PING", "ping", s.len)
      [] s.cmd = "MSG"  -> CmdMsg(s)

-----------------------------------------------------------------------------
(* u2f_transport.c: reception. *)

\* u2f_transport_receive_fakeChannel: while the application works on a command of
\* the proxy, the host may only poll, by sending the same message again.
FakeMismatch(s, p) ==
    \/ p.ch # s.ch
    \/ s.foffset = 0 /\ p.cmd # "WINK" /\ (p.len + 3 # s.length \/ p.cmd # "MSG")
    \/ s.foffset # 0 /\ (p.cmd # "CONT" \/ p.seq # s.findex)

FakeCopied(s, p) ==
    IF s.foffset = 0
      THEN LET n == Smaller(p.size - 4, s.length) % Word
           IN [s EXCEPT !.foffset = n, !.findex = 0, !.fcrc = [of |-> p.apdu, n |-> n]]
      ELSE LET n == Smaller(p.size - 5, s.length - s.foffset) % Word
           IN [s EXCEPT !.foffset = (@ + n) % Word, !.findex = @ + 1, !.fcrc.n = @ + n]

FakeComplete(s) ==
    LET t == [s EXCEPT !.fstate = "FAKE_RECEIVED", !.foffset = 0]
    IN IF s.foffset < s.length THEN s
       ELSE IF s.fcrc # s.crc THEN [s EXCEPT !.fstate = "INTERNAL_ERROR", !.thrown = TRUE]
       ELSE IF s.wait = "ON" THEN [SendNotice(t, "PRESENCE") EXCEPT !.fstate = "IDLE"]
       ELSE t

ReceiveFake(s, p) ==
    IF s.fstate = "INTERNAL_ERROR" THEN Error(s)
    ELSE IF FakeMismatch(s, p) THEN [s EXCEPT !.fstate = "INTERNAL_ERROR", !.thrown = TRUE]
    ELSE IF s.foffset = 0 /\ p.cmd = "WINK" THEN SendNotice(s, "WINK")
    ELSE FakeComplete(FakeCopied(s, p))

\* n bytes of a packet at the current offset: the place of a byte in its message is
\* told by the packet, the place it goes to by the transport.
InMessage(p) == IF p.cmd = "CONT" THEN Segment - 4 + p.seq * (Segment - 5) ELSE 0
Copied(s, p, n) ==
    [s EXCEPT !.offset = @ + n,
              !.mem = [k \in DOMAIN @ |-> IF k \in s.offset..(s.offset + n - 1)
                                            THEN <<p.ch, InMessage(p) + k - s.offset>> ELSE @[k]]]

\* See if the message is whole.
Advance(s) ==
    IF s.offset >= s.length
      THEN MessageComplete([s EXCEPT !.state = "PROCESSING_COMMAND"])
      ELSE [s EXCEPT !.state = "HANDLE_SEGMENTED"]

Unsupported(p) ==
    \/ p.cmd \in {"WINK", "OTHER"}
    \/ p.cmd \in {"PING", "MSG"} /\ p.ch \in {Broadcast, Forbidden}
    \/ p.cmd = "INIT" /\ p.ch = Forbidden

\* An error other than BUSY: a command in the middle of a message, or one refused.
Refused(s, p) ==
    \/ s.state = "HANDLE_SEGMENTED" /\ p.cmd # "INIT"
    \/ p.len > BufLen - 3
    \/ Unsupported(p)

\* The first packet of a message.
FirstPacket(s, p) ==
    LET n == Smaller(p.size - 4, p.len + 3)
        t == [s EXCEPT !.offset = 0, !.length = p.len + 3, !.media = "USB", !.index = 0,
                       !.tch = s.ch, !.crc = [of |-> p.apdu, n |-> n],
                       !.cmd = p.cmd, !.len = p.len, !.apdu = p.apdu]
    IN IF p.size < 7 THEN Error(s)
       ELSE IF p.cmd = "CONT" THEN s
       ELSE IF s.state = "HANDLE_SEGMENTED" /\ s.ch # s.tch /\ p.cmd # "INIT"
         THEN SendAlone(s, "BUSY")
       ELSE IF Refused(s, p) THEN Error(s)
       ELSE Advance(Copied(t, p, n))

\* The packets that follow; one that no message awaits resets the transport.
NextPacket(s, p) ==
    LET n == Smaller(p.size - 5, s.length - s.offset)
    IN IF p.size < 6 THEN Error(s)
       ELSE IF s.state # "HANDLE_SEGMENTED" THEN Reset(s)
       ELSE IF p.cmd # "CONT" \/ p.seq # s.index THEN Error(s)
       ELSE Advance([Copied(s, p, n) EXCEPT !.index = @ + 1, !.crc.n = @ + n])

\* A packet opens a message when none is open, on another channel, and with INIT.
OpensWhenNone(s, p) == s.offset = 0 \/ p.cmd = "INIT"   \* mutant
Opens(s, p) == s.offset = 0 \/ s.ch # s.tch \/ p.cmd = "INIT"

\* The host may only poll, until the reply has left.
GatedUntilReady(s) == s.wait = "ON"   \* mutant
Gated(s) == s.wait # "IDLE"

\* u2f_transport_received.
Received(s, p) ==
    LET t == IF s.state = "SENDING_ERROR" THEN Reset(s) ELSE s
        r == [t EXCEPT !.ch = p.ch]
    IN IF s.state = "SENDING_RESPONSE" THEN Error(s)
       ELSE IF Gated(s) THEN ReceiveFake(s, p)
       ELSE IF p.size < 5 THEN Error(t)
       ELSE IF Opens(r, p) THEN FirstPacket(r, p)
       ELSE NextPacket(r, p)

-----------------------------------------------------------------------------
(* The events of USB, and the thread in io_exchange and in the application. *)

\* io_exchange returns when a command has come; an exception unwinds the thread.
Thread(s) ==
    IF s.thrown THEN "ended"
    ELSE IF pc = "receive" /\ s.apduState # "IDLE" /\ s.apduLen > 0 THEN "app"
    ELSE pc

\* The thread receives events until what it waits for is there.
Listening ==
    \/ pc \in {"receive", "app"}
    \/ pc = "poll" /\ ~Repliable(u)
    \/ pc = "wait" /\ u.apduState # "IDLE"

\* USBD_U2F_DataOut_impl.  The application pumps events too, while it works.
DataOut(p) ==
    LET s == Received(u, p)
    IN /\ Listening /\ Len(u.out) < MaxIn[proxy]
       /\ p.cmd = "INIT" /\ p.ch = Broadcast => u.next <= Allocations
       /\ pc' = Thread(s)
       /\ u' = IF pc' = "app" /\ pc # "app" THEN [s EXCEPT !.client = s.tch] ELSE s
       /\ UNCHANGED <<proxy, txLen>>

\* USBD_U2F_DataIn_impl: the host has read a packet.
DataIn ==
    /\ Listening /\ u.out # <<>>
    /\ u' = Sent([u EXCEPT !.out = Tail(@)], "USB")
    /\ UNCHANGED <<proxy, pc, txLen>>

\* The bus is reset: nothing of the transport is, but a command under way is given up.
BusReset ==
    /\ Listening
    /\ u' = [u EXCEPT !.out = <<>>]
    /\ pc' = IF u.apduMedia # "NONE" THEN "ended" ELSE pc
    /\ UNCHANGED <<proxy, txLen>>

\* The application replies.  The event that came with the status it must wait for is
\* thrown away, and can be an acknowledgement.
AppReplies(n) ==
    /\ pc = "app"
    /\ \E lost \in {u.out, IF u.out = <<>> THEN u.out ELSE Tail(u.out)} :
         IF u.apduState = "IDLE"
           THEN pc' = "ended" /\ u' = [u EXCEPT !.out = lost] /\ UNCHANGED txLen
           ELSE /\ pc' = "poll" /\ txLen' = n
                /\ u' = AutoReply([u EXCEPT !.mem = Written(@, "app", n), !.out = lost], FALSE)
    /\ UNCHANGED proxy

\* The proxy wraps the reply as an authentication: presence, counter, status word.
Wrapped(s, n) ==
    [s EXCEPT !.mem = [k \in DOMAIN @ |-> IF k < 5 THEN <<"zero", 0>>
                                          ELSE IF k < n + 7 THEN <<"app", k - 5>> ELSE @[k]]]

\* As soon as the transport can, the reply starts.
SendReply ==
    /\ pc = "poll" /\ Repliable(u)
    /\ u' = IF proxy THEN MessageReply(Wrapped(u, txLen), "MSG", "apdu", txLen + 7)
                     ELSE MessageReply(u, "MSG", "apdu", txLen)
    /\ pc' = "wait" /\ UNCHANGED <<proxy, txLen>>

\* The reply has left: io_exchange goes on to the next command.
EndReply ==
    /\ pc = "wait" /\ u.apduState = "IDLE"
    /\ u' = [u EXCEPT !.apduMedia = "NONE", !.apduLen = 0]
    /\ pc' = "receive" /\ UNCHANGED <<proxy, txLen>>

\* IO_RAPDU_TRANSMIT_TIMEOUT_MS have passed.
Expire ==
    /\ pc \in {"poll", "wait"} /\ Listening
    /\ pc' = "ended" /\ UNCHANGED <<proxy, u, txLen>>

\* The application starts again, and the device on the bus with it.
Restart ==
    /\ pc = "ended"
    /\ pc' = "receive" /\ txLen' = 0
    /\ u' = [ServiceInit EXCEPT !.ch = u.ch, !.tch = u.tch, !.mem = u.mem]
    /\ UNCHANGED proxy

Next ==
    \/ \E p \in Packets : DataOut(p)
    \/ DataIn
    \/ BusReset
    \/ \E n \in ReplyLengths : AppReplies(n)
    \/ SendReply \/ EndReply \/ Expire \/ Restart

Spec == Init /\ [][Next]_vars

-----------------------------------------------------------------------------
(* Properties. *)

\* The type invariant of the transport.
TypeOK ==
    /\ proxy \in BOOLEAN /\ pc \in {"receive", "app", "poll", "wait", "ended"}
    /\ txLen \in ReplyLengths \cup {0}
    /\ u.state \in States /\ u.from \in {"receive", "ping", "apdu", "const"}
    /\ u.media \in {"NONE", "USB"} /\ {u.ch, u.tch, u.client} \subseteq AllChannels
    /\ u.wait \in {"IDLE", "ON", "REPLY_READY"} /\ u.next \in 1..(Allocations + 1)
    /\ u.fstate \in {"IDLE", "FAKE_RECEIVED", "INTERNAL_ERROR"}
    /\ {u.offset, u.length, u.index, u.foffset, u.findex} \subseteq 0..(Word - 1)
    /\ u.cmd \in Commands /\ u.len \in 0..(BufLen - 3)
    /\ u.sending \in BOOLEAN /\ u.thrown \in BOOLEAN
    /\ u.apduState \in {"IDLE", "U2F"} /\ u.apduMedia \in {"NONE", "U2F"} /\ u.apduLen \in 0..BufLen
    /\ DOMAIN u.mem = 0..(BufLen - 1) /\ \A k \in DOMAIN u.mem : u.mem[k] \in Byte

\* Every copy of a packet and every packet of a reply stays inside the APDU buffer:
\* a message that is open is assembled in the receive buffer, fits it and has not
\* been overrun, and a reply is never read past its end, however errors, resets and
\* messages of other channels came in between.
InBounds ==
    /\ TypeOK
    /\ u.state \notin Sending => u.from = "receive" /\ u.length <= BufLen
    /\ u.state = "HANDLE_SEGMENTED" => u.offset < u.length
    /\ u.offset <= u.length
    /\ u.from = "apdu" => u.length <= BufLen
    /\ u.from = "ping" => u.length + 3 <= BufLen

\* Where the APDU of a message begins in it.
ApduAt == IF proxy THEN 10 + SignHeader ELSE 3
Intact(s) == \A k \in 0..(s.apduLen - 1) : s.mem[k] = <<s.client, ApduAt + k>>

\* A command that reaches the application is one whole message of one channel, each
\* byte in its place, whatever packets of this and other channels were mixed with it.
\* With the proxy it stays so as long as the application works on it: polls, packets
\* of other programs and acknowledgements do not touch it.
CommandIntact == [][pc' = "app" /\ (pc = "receive" \/ proxy) => Intact(u')]_vars

\* The offset in its reply that a packet tells the host.
InReply(p) == IF p.cmd = "CONT" THEN Segment - 7 + p.seq * (Segment - 5) ELSE 0
FromApp(p) == p.kind = "MSG" /\ \E k \in DOMAIN p.data : p.data[k][1] = "app"

\* With the proxy, each byte of a reply is where its packet says.  What the
\* application answers reaches the channel that asked, behind the five bytes the proxy
\* adds; the echo of a ping, sent from the buffer that the next message shares, gives
\* each channel its own bytes.
ReplyIntact ==
    proxy => \A i \in DOMAIN u.out :
        LET p == u.out[i]
        IN \A k \in DOMAIN p.data :
             /\ FromApp(p) =>
                  p.ch = p.to /\ (InReply(p) + k > 5 => p.data[k] = <<"app", InReply(p) + k - 6>>)
             /\ p.kind = "PING" => p.data[k] = <<p.ch, InReply(p) + k + 2>>

\* With the proxy, the transport gives each channel the exchange of CommandResponse:
\* the channel whose command was taken stays the one replied to until the answer has
\* left or the application has ended, and no other command is taken in between.
Phase == CASE ~proxy -> "free"
           [] proxy /\ pc = "receive" -> "free"
           [] proxy /\ pc \in {"app", "poll"} -> "taken"
           [] proxy /\ pc = "wait" -> "answering"
           [] proxy /\ pc = "ended" -> "down"

Exchanged == INSTANCE CommandResponse
    WITH Media <- AllChannels, NoMedia <- "none", phase <- Phase,
         media <- IF Phase \in {"taken", "answering"} THEN u.ch ELSE "none"

ChannelExchange == Exchanged!Spec

\* The thread runs, and the USB stack of the host reads what the device sends.
\* Nothing is assumed of the clock, nor of the programs of the host.
Fairness == WF_vars(DataIn) /\ WF_vars(SendReply) /\ WF_vars(EndReply)
FairSpec == Spec /\ Fairness

\* The host says WINK.
Winks == \E p \in Packets : p.cmd = "WINK" /\ DataOut(p)

\* With the proxy, a reply that has begun ends, without the help of the timeout: the
\* host reads it, or a packet that came while it left has it replaced by an error
\* (u2f_transport.c:278), or ends the application; unless the host says WINK again and
\* again, which each time has the acknowledgement of the error absorbed (213, 100).
ReplyEnds == []<><<Winks>>_vars \/ ((proxy /\ pc = "wait") ~> pc # "wait")
=============================================================================
