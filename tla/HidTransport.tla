------------------------------ MODULE HidTransport ------------------------------
(***************************************************************************)
(* The HID/WebUSB transport of the SDK (src/os_io_usb.c) together with the *)
(* media gate of its two USB classes (lib_stusb_impl/usbd_impl.c) and the  *)
(* part of io_exchange that replies through it.                            *)
(*                                                                         *)
(* The host is arbitrary: at any time it may send any report of Reports on *)
(* any interface, and acknowledge the report at the head of an IN          *)
(* endpoint.  One set of globals holds the reassembly of the incoming APDU *)
(* and the segmentation of the outgoing one.                               *)
(***************************************************************************)
EXTENDS Integers, Sequences

CONSTANTS
    Interfaces,  \* the USB interfaces that carry the transport: HID, WebUSB
    EpLen,       \* IO_HID_EP_LENGTH = sizeof(G_io_usb_ep_buffer), bytes per report
    BufLen,      \* sizeof(G_io_apdu_buffer)
    Channels,    \* channel identifiers
    Byte,        \* contents of a byte of an APDU
    Zero,        \* the byte the endpoint buffer is padded with
    Replies,     \* the replies of the application, sequences of bytes
    Reports,     \* the reports the host may send
    MaxIn        \* bound: reports a host leaves unread on an IN endpoint while it sends

NULL == -1       \* G_io_usb_hid_current_buffer is an offset in the APDU buffer, or NULL
NONE == "NONE"   \* IO_APDU_MEDIA_NONE
IDLE == "IDLE"   \* APDU_IDLE
Word == 65536    \* values of an unsigned short

Tags == {"VERSION", "CHANNEL", "PING", "APDU", "OTHER"}
Report == [tag : Tags, channel : Channels, seq : 0..(Word - 1), total : 0..(Word - 1),
           size : 0..255, data : Seq(Byte)]
InReport == [tag : Tags, channel : Channels, seq : Nat, total : Nat, data : Seq(Byte)]

ASSUME InterfacesAssumption == NONE \notin Interfaces /\ IDLE \notin Interfaces
ASSUME LengthAssumption == EpLen \in 8..255 /\ BufLen \in 1..(Word - 1)
ASSUME ByteAssumption == Zero \in Byte
ASSUME RepliesAssumption ==
    \A a \in Replies : a \in Seq(Byte) /\ Len(a) \in 1..BufLen
ASSUME ReportsAssumption == Reports \subseteq Report
ASSUME MaxInAssumption == MaxIn \in Nat

VARIABLES
    total,       \* G_io_usb_hid_total_length
    channel,     \* G_io_usb_hid_channel
    remaining,   \* G_io_usb_hid_remaining_length
    seq,         \* G_io_usb_hid_sequence_number
    current,     \* G_io_usb_hid_current_buffer
    apduBuf,     \* G_io_apdu_buffer
    apduState,   \* G_io_app.apdu_state
    apduMedia,   \* G_io_app.apdu_media
    apduLength,  \* G_io_app.apdu_length
    inEp,        \* the reports prepared on each IN endpoint, oldest first
    replying     \* io_exchange is between its io_usb_hid_send and the end of its wait

hid == <<total, channel, remaining, seq, current>>
app == <<apduState, apduMedia, apduLength>>
vars == <<hid, app, apduBuf, inEp, replying>>

TransportTypeOK ==
    /\ total \in 0..(Word - 1) /\ remaining \in Nat /\ seq \in Nat
    /\ current \in Nat \cup {NULL}
    /\ channel \in Channels
    /\ apduBuf \in [0..(BufLen - 1) -> Byte]
    /\ apduLength \in 0..(Word - 1)
    /\ inEp \in [Interfaces -> Seq(InReport)]

TypeOK ==
    /\ TransportTypeOK
    /\ apduState \in Interfaces \cup {IDLE}
    /\ apduMedia \in Interfaces \cup {NONE}
    /\ replying \in BOOLEAN

Init ==
    /\ total = 0 /\ channel \in Channels
    /\ remaining = 0 /\ seq = 0 /\ current = NULL
    /\ apduBuf = [k \in 0..(BufLen - 1) |-> Zero]
    /\ apduState = IDLE /\ apduMedia = NONE /\ apduLength = 0
    /\ inEp = [i \in Interfaces |-> <<>>]
    /\ replying = FALSE

-----------------------------------------------------------------------------
(* The transport functions. *)

\* Bytes of a report taken by channel, tag, sequence number and, in the first
\* report of an APDU, total length.
Header(s) == IF s = 0 THEN 7 ELSE 5

Smaller(a, b) == IF a < b THEN a ELSE b

HidInit == seq' = 0 /\ remaining' = 0 /\ current' = NULL

\* How many bytes of a report are copied.  l is an unsigned short: a report
\* shorter than its header wraps, and the two comparisons bring it back.
Copied(r, left) == Smaller(Smaller((r.size - Header(r.seq)) % Word, left), EpLen - Header(r.seq))

\* The k-th byte after the header, zero beyond the bytes received.
Content(r, k) == IF k < Len(r.data) THEN r.data[k + 1] ELSE Zero

\* An APDU announced longer than the buffer is refused.
FitsOneMore(r) == r.total <= BufLen + 1   \* mutant
Fits(r) == r.total <= BufLen

\* The buffer after l bytes of report r are copied at offset from.
Fill(from, r, l) ==
    [k \in DOMAIN apduBuf |-> IF k \in from..(from + l - 1) THEN Content(r, k - from) ELSE apduBuf[k]]

\* The whole APDU, or what an unknown tag makes the transport take for one, is
\* handed to the application.
Received(i) == apduMedia' = i /\ apduState' = i /\ apduLength' = total'

\* A report in sequence: the first one opens the reception, the others go on.
AppendChunk(i, r) ==
    /\ r.tag = "APDU" /\ r.seq = seq
    /\ IF seq = 0
         THEN Fits(r) /\ total' = r.total /\ channel' = r.channel
         ELSE UNCHANGED <<total, channel>>
    /\ LET left == IF seq = 0 THEN r.total ELSE remaining
           from == IF seq = 0 THEN 0 ELSE current
           l    == Copied(r, left)
       IN /\ apduBuf' = Fill(from, r, l)
          /\ IF left - l > 0
               THEN /\ remaining' = left - l /\ current' = from + l /\ seq' = seq + 1
                    /\ UNCHANGED app
               ELSE HidInit /\ Received(i)
    /\ UNCHANGED <<inEp, replying>>

\* Mutant: the reception stays where it was.
RejectChunkKeeps(r) ==
    /\ r.tag = "APDU"
    /\ r.seq # seq \/ (seq = 0 /\ ~Fits(r))
    /\ UNCHANGED <<hid, app, apduBuf, inEp, replying>>

\* Out of sequence, or a first report that announces more than the buffer holds.
RejectChunk(r) ==
    /\ r.tag = "APDU"
    /\ \/ r.seq # seq /\ UNCHANGED total
       \/ r.seq = seq /\ seq = 0 /\ ~Fits(r) /\ total' = r.total
    /\ HidInit
    /\ UNCHANGED <<channel, app, apduBuf, inEp, replying>>

\* Version, channel allocation and ping are answered at once and drop the
\* reception in progress.
AnswerControl(i, r) ==
    /\ r.tag \in {"VERSION", "CHANNEL", "PING"}
    /\ inEp' = [inEp EXCEPT ![i] = Append(@,
                   [tag |-> r.tag, channel |-> r.channel, seq |-> 0, total |-> 0, data |-> <<>>])]
    /\ HidInit
    /\ UNCHANGED <<total, channel, app, apduBuf, replying>>

\* Any other tag leaves the switch and meets the test of the end of reception.
UnknownTag(i, r) ==
    /\ r.tag = "OTHER"
    /\ UNCHANGED <<total, channel, apduBuf, inEp, replying>>
    /\ IF remaining > 0
         THEN UNCHANGED <<remaining, seq, current, app>>
         ELSE HidInit /\ Received(i)

\* io_usb_hid_receive and the switch on its result.
HidReceive(i, r) ==
    \/ AppendChunk(i, r)
    \/ RejectChunk(r)
    \/ AnswerControl(i, r)
    \/ UnknownTag(i, r)

\* What a report takes of the left bytes of a reply.
ChunkLength(s, left) == Smaller(left, EpLen - Header(s))

\* io_usb_hid_sent prepares the chunk numbered s, from offset from on, of the
\* left bytes of buf that remain, behind the reports of queue.
SendChunk(i, queue, s, from, left, buf) ==
    LET l == ChunkLength(s, left)
    IN /\ seq' = s + 1 /\ current' = from + l /\ remaining' = left - l
       /\ inEp' = [inEp EXCEPT ![i] = Append(queue,
              [tag |-> "APDU", channel |-> channel, seq |-> s, total |-> IF s = 0 THEN left ELSE 0,
               data |-> [k \in 1..l |-> buf[from + k - 1]]])]

-----------------------------------------------------------------------------
(* Events from the host. *)

\* Mutant: the media is not looked at.
DataOutUngated(i, r) == Len(inEp[i]) < MaxIn /\ HidReceive(i, r)

\* A report arrives.  While an APDU awaits its reply the media is set and the
\* report is dropped.
DataOut(i, r) ==
    /\ Len(inEp[i]) < MaxIn
    /\ apduMedia = NONE /\ HidReceive(i, r)

\* Mutant: the next chunk starts where the previous one did.
DataInRepeats(i) ==
    /\ inEp[i] # <<>>
    /\ IF remaining # 0 /\ current # NULL
         THEN SendChunk(i, Tail(inEp[i]), seq, 0, remaining, apduBuf) /\ UNCHANGED apduState
         ELSE /\ HidInit /\ apduState' = IDLE
              /\ inEp' = [inEp EXCEPT ![i] = Tail(@)]
    /\ UNCHANGED <<total, channel, apduMedia, apduLength, apduBuf, replying>>

\* The host has read the oldest report of an IN endpoint: the next chunk is
\* prepared, or the transport becomes idle.
DataIn(i) ==
    /\ inEp[i] # <<>>
    /\ IF remaining # 0 /\ current # NULL
         THEN SendChunk(i, Tail(inEp[i]), seq, current, remaining, apduBuf) /\ UNCHANGED apduState
         ELSE /\ HidInit /\ apduState' = IDLE
              /\ inEp' = [inEp EXCEPT ![i] = Tail(@)]
    /\ UNCHANGED <<total, channel, apduMedia, apduLength, apduBuf, replying>>

-----------------------------------------------------------------------------
(* The application above, through io_exchange. *)

\* io_usb_hid_send of a reply written in the APDU buffer, where the state points.
SendReply(a) ==
    /\ LET buf == [k \in DOMAIN apduBuf |-> IF k < Len(a) THEN a[k + 1] ELSE apduBuf[k]]
       IN apduBuf' = buf /\ SendChunk(apduState, inEp[apduState], 0, 0, Len(a), buf)
    /\ total' = Len(a) /\ replying' = TRUE
    /\ UNCHANGED <<channel, app>>

\* The application, which holds a command, replies to it.
Reply(a) ==
    /\ ~replying /\ apduLength > 0 /\ apduState # IDLE
    /\ SendReply(a)

\* The wait of io_exchange ends when the state has become idle.
EndReply ==
    /\ replying /\ apduState = IDLE
    /\ replying' = FALSE /\ apduMedia' = NONE /\ apduLength' = 0
    /\ UNCHANGED <<hid, apduState, apduBuf, inEp>>

\* The application ends on an exception and the next one starts from
\* io_seproxyhal_init, with the USB stack powered off and on.
Restart ==
    /\ HidInit
    /\ apduState' = IDLE /\ apduMedia' = NONE /\ apduLength' = 0
    /\ inEp' = [i \in Interfaces |-> <<>>]
    /\ replying' = FALSE
    /\ UNCHANGED <<total, channel, apduBuf>>

\* io_exchange finds the state idle and throws INVALID_STATE.
ReplyRefused ==
    /\ ~replying /\ apduLength > 0 /\ apduMedia # NONE /\ apduState = IDLE
    /\ Restart

\* The host resets the bus: EXCEPTION_IO_RESET if an APDU is in progress,
\* otherwise the endpoints are closed and the reassembly stays as it is.
UsbReset ==
    IF apduMedia # NONE
      THEN Restart
      ELSE /\ inEp' = [i \in Interfaces |-> <<>>]
           /\ UNCHANGED <<hid, app, apduBuf, replying>>

Next ==
    \/ \E i \in Interfaces, r \in Reports : DataOut(i, r)
    \/ \E i \in Interfaces : DataIn(i)
    \/ \E a \in Replies : Reply(a)
    \/ EndReply
    \/ ReplyRefused
    \/ UsbReset

Spec == Init /\ [][Next]_vars

-----------------------------------------------------------------------------
(* Safety. *)

\* What is left to copy or to send always fits the APDU buffer from the current
\* position: whatever the host sends, io_usb_hid_receive writes and
\* io_usb_hid_sent reads inside G_io_apdu_buffer, although reception and
\* emission share their globals.
InBounds ==
    /\ current # NULL => current + remaining = total /\ total <= BufLen
    /\ current = NULL => remaining = 0 /\ seq = 0

\* A command in the hands of the application stays as it was received until the
\* application itself replies: no report and no acknowledgement touches the
\* buffer, its length or its media (the gate of USBD_HID_DataOut_impl).
CommandStable ==
    [][apduMedia # NONE /\ apduMedia' # NONE /\ replying' = replying
         => UNCHANGED <<apduBuf, apduMedia, apduLength>>]_vars

\* While a reply is sent, the position in it is the one its number of chunks
\* gives: late acknowledgements of other reports may hurry the chunks, they
\* never skip or repeat a part of the reply (io_usb_hid_sent).
Segmentation ==
    replying /\ current # NULL
        => current = Smaller(total, (EpLen - 7) + (seq - 1) * (EpLen - 5))
=============================================================================
