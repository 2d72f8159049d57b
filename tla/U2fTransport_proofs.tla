--------------------------- MODULE U2fTransport_proofs ---------------------------
(***************************************************************************)
(* Proofs about U2fTransport: for any build, sizes, channels, packets,     *)
(* replies and bounds within the assumptions, and any programs of the host.*)
(*                                                                         *)
(* Each operator of the transport has a lemma about the bounds it keeps    *)
(* (...Bounded) and one about whose turn it leaves (...Turn).              *)
(***************************************************************************)
EXTENDS U2fTransport, TLAPS

\* The values the fields of the transport and the packets in the IN endpoint take.
Tags == {"PING", "MSG", "INIT", "WINK", "ERROR", "CONT", "BUSY", "PRESENCE", "alone"}
OutPacket == [ch : AllChannels, cmd : Tags, kind : Tags, seq : Int, to : AllChannels,
              data : Seq(Byte)]
Outs == Seq(OutPacket)
Crc == [of : Apdu, n : Int]
Memory == [0..(BufLen - 1) -> Byte]
Words == 0..(Word - 1)
Indices == 0..128
Lengths == 0..BufLen
Froms == {"receive", "ping", "apdu", "const"}
Medias == {"NONE", "USB"}
Waits == {"IDLE", "ON", "REPLY_READY"}
FakeStates == {"IDLE", "FAKE_RECEIVED", "INTERNAL_ERROR"}
AppStates == {"IDLE", "U2F"}
AppMedias == {"NONE", "U2F"}
\* The whole of the device: G_io_u2f, G_io_app, the APDU buffer and the IN endpoint.
Service ==
    [state : States, offset : Nat, length : Nat, index : Nat,
     from : Froms, media : Medias, ch : AllChannels, tch : AllChannels, next : Nat, sendCmd : Tags,
     wait : Waits, fstate : FakeStates, foffset : Words, findex : Indices, crc : Crc, fcrc : Crc,
     cmd : Commands, len : Nat, apdu : Apdu, sending : BOOLEAN, thrown : BOOLEAN,
     apduState : AppStates, apduMedia : AppMedias, apduLen : Lengths, client : AllChannels,
     mem : Memory, out : Outs]

\* The commands of a message that can be complete.
Complete == {"INIT", "PING", "MSG"}

\* What an open message and a reply under way are to the buffer: the index of a packet
\* never outruns the bytes copied, since a packet that is not the first brings at least one;
\* an open message has a command that u2f_message_complete knows.
Extents(s) ==
    /\ s.offset <= s.length /\ s.length <= BufLen /\ s.index <= s.offset
    /\ s.len <= BufLen - 3
    /\ s.from = "ping" => s.length + 3 <= BufLen
    /\ s.state \in Sending <=> s.from # "receive"
    /\ s.state = "HANDLE_SEGMENTED" => s.offset < s.length /\ s.cmd \in Complete

\* The channels that INIT has given out; a message that is going to be a Broadcast INIT
\* has kept its place under the bound.
Allocated(s) ==
    /\ s.next >= 1 /\ s.next <= Allocations + 1
    /\ s.state = "HANDLE_SEGMENTED" /\ s.cmd = "INIT" /\ s.tch = Broadcast => s.next <= Allocations

\* The inductive invariant of the device.
Bounded(s) == s \in Service /\ Extents(s) /\ Allocated(s)

\* What tells whose turn it is.
SameTurn(s, t) ==
    /\ t.apduState = s.apduState /\ t.wait = s.wait /\ t.thrown = s.thrown /\ t.fstate = s.fstate
    /\ t.apduLen = s.apduLen /\ t.ch = s.ch

\* The sizes, as the provers need them.
LEMMA Sizes == Segment \in Nat /\ Segment >= 8 /\ BufLen \in Nat /\ BufLen >= 20 /\ BufLen < 65536
               /\ SignHeader \in Nat /\ Allocations \in Nat
  BY SizesAssumption, BoundsAssumption, SMTT(60) DEF Word

\* What is left of a length stored in 16 bits.
LEMMA ModWord == ASSUME NEW a \in Int PROVE a % Word \in 0..(Word - 1)
  BY SMTT(60) DEF Word

\* The values that resets and initial states are made of.
LEMMA Choices ==
    /\ "IDLE" \in States /\ 0 \in Words /\ "NONE" \in Medias /\ "IDLE" \in FakeStates /\ 0 \in Indices
    /\ "IDLE" \in Waits /\ "receive" \in Froms
  BY DEF States, Words, Word, Medias, FakeStates, Indices, Waits, Froms

\* The fields of a state of the device, each in its range.
LEMMA ServiceFields ==
    ASSUME NEW s \in Service
    PROVE  /\ s.state \in States /\ s.offset \in Nat /\ s.length \in Nat /\ s.index \in Nat
           /\ s.from \in Froms /\ s.media \in Medias /\ s.ch \in AllChannels /\ s.tch \in AllChannels
           /\ s.next \in Nat /\ s.sendCmd \in Tags /\ s.wait \in Waits /\ s.fstate \in FakeStates
           /\ s.foffset \in Words /\ s.findex \in Indices /\ s.crc \in Crc /\ s.fcrc \in Crc
           /\ s.cmd \in Commands /\ s.len \in Nat /\ s.apdu \in Apdu /\ s.sending \in BOOLEAN
           /\ s.thrown \in BOOLEAN /\ s.apduState \in AppStates /\ s.apduMedia \in AppMedias
           /\ s.apduLen \in Lengths /\ s.client \in AllChannels /\ s.mem \in Memory
           /\ s.out \in Outs
  BY DEF Service

\* u2f_transport_reset closes what is open.
LEMMA ResetBounded ==
    ASSUME NEW s, Bounded(s)
    PROVE  /\ Bounded(Reset(s))
           /\ Reset(s).state = "IDLE" /\ Reset(s).next = s.next
  <1> s \in Service
    BY DEF Bounded
  <1> DEFINE t == Reset(s)
  <1>1. t \in Service
    BY Choices DEF Reset, Service
  <1>2. /\ t.state = "IDLE" /\ t.from = "receive" /\ t.offset = 0 /\ t.index = 0
        /\ t.length = s.length /\ t.len = s.len /\ t.next = s.next /\ t.ch = s.ch
    BY DEF Reset, Service
  <1>3. Extents(t) /\ Allocated(t)
    BY <1>2, ServiceFields DEF Bounded, Extents, Allocated, Sending
  <1> QED
    BY <1>1, <1>2, <1>3 DEF Bounded

\* The bytes of a packet of a reply are bytes of the buffer, or of a constant.
LEMMA Packed ==
    ASSUME NEW s, Bounded(s), s.from # "receive", NEW n \in Nat, s.offset + n <= s.length
    PROVE  [k \in 1..n |-> Source(s, s.offset + k - 1)] \in Seq(Byte)
  <1> s \in Service /\ Extents(s)
    BY DEF Bounded
  <1>1. ASSUME NEW k \in 1..n PROVE Source(s, s.offset + k - 1) \in Byte
    <2> DEFINE j == s.offset + k - 1
    <2>1. j \in Nat /\ j < s.length /\ s.length \in Nat /\ s.length <= BufLen
      BY ServiceFields DEF Extents
    <2>2. s.mem \in Memory /\ s.from \in Froms
      BY ServiceFields
    <2>3. CASE s.from = "ping"
      <3>1. j + 3 \in 0..(BufLen - 1)
        BY <2>1, <2>3, Sizes DEF Extents
      <3> QED
        BY <2>2, <2>3, <3>1 DEF Source, Memory
    <2>4. CASE s.from = "apdu"
      <3>1. j \in 0..(BufLen - 1)
        BY <2>1, Sizes
      <3> QED
        BY <2>2, <2>4, <3>1 DEF Source, Memory
    <2>5. CASE s.from = "const"
      BY <2>1, <2>5 DEF Source, Byte, Origins
    <2> QED
      BY <2>2, <2>3, <2>4, <2>5 DEF Froms
  <1> QED
    BY <1>1

\* A packet, put together from its parts.
LEMMA PacketType ==
    ASSUME NEW ch \in AllChannels, NEW cmd \in Tags, NEW kind \in Tags, NEW seq \in Int,
           NEW to \in AllChannels, NEW data \in Seq(Byte)
    PROVE  [ch |-> ch, cmd |-> cmd, kind |-> kind, seq |-> seq, to |-> to, data |-> data] \in OutPacket
  BY DEF OutPacket

\* One packet more in the IN endpoint.
LEMMA OutAppend == ASSUME NEW out \in Outs, NEW packet \in OutPacket PROVE Append(out, packet) \in Outs
  BY DEF Outs

\* A packet that is sent while bytes are left takes no more than those.
LEMMA SendPacketBounded ==
    ASSUME NEW s, Bounded(s), s.from # "receive", s.offset < s.length, NEW media
    PROVE  Bounded(SendPacket(s, media))
  <1> s \in Service /\ Extents(s) /\ Allocated(s)
    BY DEF Bounded
  <1> DEFINE first == s.index = 0
             header == (IF media = "USB" THEN 4 ELSE 0) + (IF first THEN 3 ELSE 1)
             block == Smaller(s.length - s.offset, Segment - header)
             packet == [ch |-> s.ch, cmd |-> IF first THEN s.sendCmd ELSE "CONT", kind |-> s.sendCmd,
                        seq |-> s.index - 1, to |-> s.client,
                        data |-> [k \in 1..block |-> Source(s, s.offset + k - 1)]]
             out == IF media = "USB" THEN Append(s.out, packet) ELSE s.out
             t == [s EXCEPT !.offset = @ + block, !.index = @ + 1, !.out = out]
  <1>1. s.offset \in Nat /\ s.length \in Nat /\ s.index \in Nat
    BY ServiceFields
  <1>2. block \in Nat /\ block >= 1 /\ s.offset + block <= s.length
    BY <1>1, Sizes DEF Smaller
  <1>3. packet.data \in Seq(Byte)
    BY <1>2, Packed
  <1>4. packet \in OutPacket
    <2>1. s.ch \in AllChannels /\ s.sendCmd \in Tags /\ s.client \in AllChannels
      BY ServiceFields
    <2>2. s.index - 1 \in Int
      BY <1>1
    <2>3. "CONT" \in Tags
      BY DEF Tags
    <2>4. (IF first THEN s.sendCmd ELSE "CONT") \in Tags
      BY <2>1, <2>3
    <2> QED
      BY <2>1, <2>2, <2>4, <1>3, PacketType
  <1>5. SendPacket(s, media)
          = [s EXCEPT !.offset = @ + block, !.index = @ + 1,
                      !.out = IF media = "USB" THEN Append(@, packet) ELSE @]
    BY DEF SendPacket
  <1> HIDE DEF packet
  <1>6. out \in Outs
    BY <1>4, OutAppend, ServiceFields
  <1>7. SendPacket(s, media) = t
    BY <1>5
  <1> HIDE DEF block, out
  <1>8. t \in Service
    <2>1. s.offset + block \in Nat /\ s.index + 1 \in Nat
      BY <1>1, <1>2
    <2> QED
      BY <2>1, <1>6 DEF Service
  <1>9. /\ t.offset = s.offset + block /\ t.index = s.index + 1 /\ t.state = s.state /\ t.from = s.from
        /\ t.length = s.length /\ t.len = s.len /\ t.next = s.next /\ t.cmd = s.cmd /\ t.tch = s.tch
    BY DEF Service
  <1>10. Extents(t) /\ Allocated(t)
    BY <1>1, <1>2, <1>9, ServiceFields DEF Extents, Allocated, Sending
  <1> QED
    BY <1>7, <1>8, <1>10 DEF Bounded

\* A change of fields the bounds do not mention.
Alike(s, t) ==
    /\ t.offset = s.offset /\ t.index = s.index /\ t.state = s.state /\ t.from = s.from
    /\ t.length = s.length /\ t.len = s.len /\ t.next = s.next /\ t.cmd = s.cmd /\ t.tch = s.tch

\* A change of fields that no bound depends on.
LEMMA Elsewhere == ASSUME NEW s, Bounded(s), NEW t \in Service, Alike(s, t) PROVE Bounded(t)
  BY DEF Alike, Bounded, Extents, Allocated

\* u2f_transport_sent.
LEMMA SentBounded ==
    ASSUME NEW s, Bounded(s), NEW media
    PROVE  Bounded(Sent(s, media))
  <1> s \in Service /\ Extents(s)
    BY DEF Bounded
  <1> DEFINE t == [s EXCEPT !.sending = FALSE]
             r == [Reset(t) EXCEPT !.apduState = "IDLE"]
  <1>1. t \in Service
    BY DEF Service
  <1>2. /\ t.offset = s.offset /\ t.index = s.index /\ t.state = s.state /\ t.from = s.from
        /\ t.length = s.length /\ t.len = s.len /\ t.next = s.next /\ t.cmd = s.cmd /\ t.tch = s.tch
    BY DEF Service
  <1> HIDE DEF t
  <1>3. Bounded(t)
    BY <1>1, <1>2, Elsewhere DEF Alike
  <1>4. t.state \in Sending => t.from # "receive"
    BY <1>2 DEF Extents
  <1>5. Bounded(r)
    <2>1. Bounded(Reset(t)) /\ Reset(t) \in Service
      BY <1>3, ResetBounded DEF Bounded
    <2> DEFINE q == Reset(t)
    <2> HIDE DEF q
    <2> DEFINE e == [q EXCEPT !.apduState = "IDLE"]
    <2>2. e \in Service /\ Alike(q, e)
      BY <2>1 DEF Service, AppStates, q, Alike
    <2>3. Bounded(e)
      BY <2>1, <2>2, Elsewhere DEF q
    <2> QED
      BY <2>3 DEF q
  <1>6. t.offset < t.length /\ t.state \in Sending => Bounded(SendPacket(t, media))
    BY <1>3, <1>4, SendPacketBounded
  <1> QED
    BY <1>3, <1>5, <1>6 DEF Sent, t

\* A reply that fits the buffer starts at its first byte.
LEMMA StartReply ==
    ASSUME NEW s, Bounded(s), NEW state \in Sending, NEW from \in Froms, from # "receive",
           NEW n \in Nat, n <= BufLen, from = "ping" => n + 3 <= BufLen, NEW cmd \in Tags
    PROVE  Bounded([s EXCEPT !.state = state, !.index = 0, !.from = from, !.offset = 0,
                             !.length = n, !.sendCmd = cmd])
  <1> s \in Service /\ Extents(s) /\ Allocated(s)
    BY DEF Bounded
  <1> DEFINE t == [s EXCEPT !.state = state, !.index = 0, !.from = from, !.offset = 0,
                            !.length = n, !.sendCmd = cmd]
  <1>1. state \in States
    BY DEF States
  <1>2. t \in Service
    BY <1>1 DEF Service
  <1>3. /\ t.offset = 0 /\ t.index = 0 /\ t.state = state /\ t.from = from
        /\ t.length = n /\ t.len = s.len /\ t.next = s.next
    BY DEF Service
  <1> HIDE DEF t
  <1>4. Extents(t) /\ Allocated(t)
    BY <1>3 DEF Extents, Allocated, Sending
  <1> QED
    BY <1>2, <1>4 DEF Bounded, t

\* u2f_transport_error.
LEMMA ErrorBounded == ASSUME NEW s, Bounded(s) PROVE Bounded(Error(s))
  <1> DEFINE t == [s EXCEPT !.state = "SENDING_ERROR", !.index = 0, !.from = "const", !.offset = 0,
                            !.length = 1, !.sendCmd = "ERROR"]
  <1>1. Bounded(t)
    <2>1. /\ "SENDING_ERROR" \in Sending /\ "const" \in Froms /\ "const" # "receive" /\ "const" # "ping"
          /\ 1 \in Nat /\ 1 <= BufLen
      BY Sizes DEF Sending, Froms
    <2>2. "ERROR" \in Tags
      BY DEF Tags
    <2> QED
      BY <2>1, <2>2, StartReply
  <1> HIDE DEF t
  <1>2. Bounded(Sent(t, "USB"))
    BY <1>1, SentBounded
  <1> QED
    BY <1>2 DEF Error, t

\* u2f_message_reply.
LEMMA MessageReplyBounded ==
    ASSUME NEW s, Bounded(s), NEW cmd \in Tags, NEW from \in Froms, from # "receive",
           NEW n \in Nat, n <= BufLen, from = "ping" => n + 3 <= BufLen
    PROVE  Bounded(MessageReply(s, cmd, from, n))
  <1> DEFINE t == [s EXCEPT !.state = "SENDING_RESPONSE", !.index = 0, !.from = from, !.offset = 0,
                            !.length = n, !.sendCmd = cmd]
  <1>1. Bounded(t)
    BY StartReply DEF Sending
  <1> HIDE DEF t
  <1>2. Bounded(Sent(t, s.media))
    BY <1>1, SentBounded
  <1> QED
    BY <1>2 DEF MessageReply, t

\* A packet of its own.
LEMMA SendAloneBounded ==
    ASSUME NEW s, Bounded(s), NEW cmd \in Tags, NEW sending \in BOOLEAN
    PROVE  /\ Bounded(SendAlone([s EXCEPT !.sending = sending], cmd))
           /\ Bounded(SendAlone(s, cmd))
  <1> s \in Service
    BY DEF Bounded
  <1>1. ASSUME NEW r, Bounded(r) PROVE Bounded(SendAlone(r, cmd))
    <2> r \in Service
      BY <1>1 DEF Bounded
    <2> DEFINE none == <<>>
               packet == [ch |-> r.ch, cmd |-> cmd, kind |-> "alone", seq |-> -1, to |-> r.client,
                          data |-> none]
               out == Append(r.out, packet)
               t == [r EXCEPT !.out = out]
    <2>1. none \in Seq(Byte)
      OBVIOUS
    <2>2. r.ch \in AllChannels /\ r.client \in AllChannels /\ r.out \in Outs /\ -1 \in Int
      BY ServiceFields
    <2>3. "alone" \in Tags
      BY DEF Tags
    <2>4. t = SendAlone(r, cmd)
      BY DEF SendAlone
    <2> HIDE DEF none
    <2>5. packet \in OutPacket
      BY <2>1, <2>2, <2>3, PacketType
    <2> HIDE DEF packet
    <2>6. out \in Outs
      BY <2>2, <2>5, OutAppend
    <2> HIDE DEF out
    <2>7. t \in Service /\ Alike(r, t)
      BY <2>6 DEF Service, Alike
    <2> QED
      BY <1>1, <2>4, <2>7, Elsewhere
  <1> DEFINE t == [s EXCEPT !.sending = sending]
  <1>2. t \in Service /\ Alike(s, t)
    BY DEF Service, Alike
  <1> HIDE DEF t
  <1>3. Bounded(t)
    BY <1>2, Elsewhere
  <1> QED
    BY <1>1, <1>3 DEF t

\* A packet of its own that an acknowledgement will follow.
LEMMA SendNoticeBounded ==
    ASSUME NEW s, Bounded(s), NEW cmd \in Tags
    PROVE  Bounded(SendNotice(s, cmd))
  BY SendAloneBounded DEF SendNotice

\* u2f_message_set_autoreply_wait_user_presence.
LEMMA AutoReplyBounded ==
    ASSUME NEW s, Bounded(s), NEW enabled \in BOOLEAN
    PROVE  Bounded(AutoReply(s, enabled))
  <1> s \in Service
    BY DEF Bounded
  <1>1. ASSUME NEW wait \in Waits PROVE Bounded([s EXCEPT !.wait = wait])
    <2> DEFINE t == [s EXCEPT !.wait = wait]
    <2>1. t \in Service /\ Alike(s, t)
      BY DEF Service, Alike
    <2> HIDE DEF t
    <2>2. Bounded(t)
      BY <2>1, Elsewhere
    <2> QED
      BY <2>2 DEF t
  <1>2. Bounded([s EXCEPT !.wait = "ON"]) /\ Bounded([s EXCEPT !.wait = "REPLY_READY"])
    BY <1>1 DEF Waits
  <1>3. Bounded(SendNotice([s EXCEPT !.wait = "ON"], "PRESENCE"))
    BY <1>2, SendNoticeBounded DEF Tags
  <1> QED
    BY <1>2, <1>3 DEF AutoReply

\* Content written over the start of the buffer.
LEMMA WrittenType ==
    ASSUME NEW mem \in Memory, NEW o \in Origins, NEW to
    PROVE  Written(mem, o, to) \in Memory
  BY DEF Written, Memory, Byte

\* Content moved to the start of the buffer, from inside it.
LEMMA MovedType ==
    ASSUME NEW mem \in Memory, NEW by \in Nat, NEW n \in Nat, by + n <= BufLen
    PROVE  Moved(mem, by, n) \in Memory
  <1>1. ASSUME NEW k \in 0..(BufLen - 1), k < n PROVE k + by \in 0..(BufLen - 1)
    BY <1>1, Sizes
  <1>2. ASSUME NEW k \in 0..(BufLen - 1) PROVE (IF k < n THEN mem[k + by] ELSE mem[k]) \in Byte
    BY <1>1 DEF Memory
  <1>3. DOMAIN mem = 0..(BufLen - 1)
    BY DEF Memory
  <1>4. Moved(mem, by, n) = [k \in 0..(BufLen - 1) |-> IF k < n THEN mem[k + by] ELSE mem[k]]
    BY <1>3 DEF Moved
  <1> QED
    BY <1>2, <1>4 DEF Memory

\* A message handed to the upper layer comes whole out of the receive buffer.
LEMMA GiveToAppBounded ==
    ASSUME NEW s, Bounded(s), NEW by \in Nat, NEW n \in Nat, by + n <= BufLen
    PROVE  Bounded(GiveToApp(s, by, n))
  <1> s \in Service
    BY DEF Bounded
  <1> DEFINE mem == Moved(s.mem, by, n)
             t == [s EXCEPT !.mem = mem, !.apduLen = n, !.apduMedia = "U2F", !.apduState = "U2F"]
  <1>1. mem \in Memory
    BY MovedType, ServiceFields
  <1>2. n \in Lengths
    BY Sizes DEF Lengths
  <1>3. GiveToApp(s, by, n) = t
    BY DEF GiveToApp
  <1> HIDE DEF mem
  <1>4. t \in Service /\ Alike(s, t)
    BY <1>1, <1>2 DEF Service, Alike, AppStates, AppMedias
  <1> QED
    BY <1>3, <1>4, Elsewhere

\* No bound depends on the content of the buffer.
LEMMA MemoryBounded ==
    ASSUME NEW s, Bounded(s), NEW mem \in Memory
    PROVE  Bounded([s EXCEPT !.mem = mem])
  <1> s \in Service
    BY DEF Bounded
  <1> DEFINE t == [s EXCEPT !.mem = mem]
  <1>1. t \in Service /\ Alike(s, t)
    BY DEF Service, Alike
  <1> HIDE DEF t
  <1>2. Bounded(t)
    BY <1>1, Elsewhere
  <1> QED
    BY <1>2 DEF t

\* The length of the data of a message: none, or what a message of that length holds.
LEMMA DataLengthBound ==
    ASSUME NEW a \in Apdu, NEW length \in Nat
    PROVE  DataLength(a, length) = -1 \/ (DataLength(a, length) \in Nat /\ DataLength(a, length) <= length)
  BY DEF DataLength, Apdu

\* The data of a message leave room for the seven bytes of its header.
LEMMA DataLengthRoom ==
    ASSUME NEW a \in Apdu, NEW length \in Nat, DataLength(a, length) > 0
    PROVE  DataLength(a, length) + 7 <= length
  BY DEF DataLength, Apdu

\* u2f_apdu_sign.
LEMMA SignBounded ==
    ASSUME NEW s, Bounded(s), NEW n \in Nat, n > 0 => n + 7 <= s.len
    PROVE  Bounded(Sign(s, n))
  <1> s \in Service /\ Extents(s)
    BY DEF Bounded
  <1>0. /\ "MSG" \in Tags /\ "const" \in Froms /\ "apdu" \in Froms /\ "const" # "receive"
        /\ "apdu" # "receive" /\ "const" # "ping" /\ "apdu" # "ping"
    BY DEF Tags, Froms
  <1>1. Bounded(MessageReply(s, "MSG", "const", 2))
    BY <1>0, MessageReplyBounded, Sizes
  <1>2. Bounded(MessageReply([s EXCEPT !.mem = Written(@, "magic", 8)], "MSG", "apdu", 8))
    <2> DEFINE mem == Written(s.mem, "magic", 8)
               t == [s EXCEPT !.mem = mem]
    <2>1. mem \in Memory
      BY WrittenType, ServiceFields DEF Origins
    <2> HIDE DEF mem
    <2>2. Bounded(t)
      BY <2>1, MemoryBounded
    <2> HIDE DEF t
    <2>3. Bounded(MessageReply(t, "MSG", "apdu", 8))
      BY <1>0, <2>2, MessageReplyBounded, Sizes
    <2> QED
      BY <2>3 DEF t, mem
  <1>3. n >= SignHeader + 5 => Bounded(AutoReply(GiveToApp(s, 10 + SignHeader, n - SignHeader), TRUE))
    <2> SUFFICES ASSUME n >= SignHeader + 5
                 PROVE  Bounded(AutoReply(GiveToApp(s, 10 + SignHeader, n - SignHeader), TRUE))
      OBVIOUS
    <2>1. /\ 10 + SignHeader \in Nat /\ n - SignHeader \in Nat
          /\ (10 + SignHeader) + (n - SignHeader) <= BufLen
      BY Sizes, ServiceFields DEF Extents
    <2>2. Bounded(GiveToApp(s, 10 + SignHeader, n - SignHeader))
      BY <2>1, GiveToAppBounded
    <2> QED
      BY <2>2, AutoReplyBounded
  <1>4. n < SignHeader + 5 \/ n >= SignHeader + 5
    BY Sizes
  <1> QED
    BY <1>1, <1>2, <1>3, <1>4 DEF Sign

\* u2f_handle_cmd_msg.
LEMMA CmdMsgBounded ==
    ASSUME NEW s, Bounded(s)
    PROVE  Bounded(CmdMsg(s))
  <1> s \in Service /\ Extents(s)
    BY DEF Bounded
  <1> DEFINE n == DataLength(s.apdu, s.len)
  <1>0. s.apdu \in Apdu /\ s.len \in Nat /\ s.len <= BufLen - 3
    BY ServiceFields DEF Extents
  <1>1. n = -1 \/ n \in Nat
    BY <1>0, DataLengthBound
  <1>2. n > 0 => n + 7 <= s.len
    BY <1>0, DataLengthRoom
  <1> HIDE DEF n
  <1>3. ASSUME NEW m \in Nat, m <= BufLen PROVE Bounded(MessageReply(s, "MSG", "const", m))
    <2>1. "MSG" \in Tags /\ "const" \in Froms /\ "const" # "receive" /\ "const" # "ping"
      BY DEF Tags, Froms
    <2> QED
      BY <1>3, <2>1, MessageReplyBounded
  <1>4. Bounded(MessageReply(s, "MSG", "const", 2)) /\ Bounded(MessageReply(s, "MSG", "const", 8))
        /\ Bounded(MessageReply(s, "MSG", "const", 4))
    BY <1>3, Sizes
  <1>5. Bounded(GiveToApp(s, 3, s.len))
    BY <1>0, GiveToAppBounded, Sizes
  <1>6. ~(n < 0) => Bounded(Sign(s, n))
    BY <1>1, <1>2, SignBounded
  <1>7. s.apdu.ins \in SignInstructions \cup {"ENROLL", "VERSION", "INFO", "CLASS", "INSTRUCTION"}
    BY <1>0 DEF Apdu
  <1> QED
    BY <1>4, <1>5, <1>6, <1>7 DEF CmdMsg, n, SignInstructions

\* u2f_handle_cmd_init, which may give out one channel more.
LEMMA CmdInitBounded ==
    ASSUME NEW s, Bounded(s), s.state # "HANDLE_SEGMENTED",
           s.ch = Broadcast => s.next <= Allocations
    PROVE  Bounded(CmdInit(s))
  <1> s \in Service /\ Extents(s) /\ Allocated(s)
    BY DEF Bounded
  <1> DEFINE mem == Written(s.mem, "init", 17)
             next == IF s.ch = Broadcast THEN s.next + 1 ELSE s.next
             t == [s EXCEPT !.next = next, !.mem = mem]
  <1>1. mem \in Memory
    BY WrittenType, ServiceFields DEF Origins
  <1>2. next \in Nat /\ next >= 1 /\ next <= Allocations + 1
    BY ServiceFields, Sizes DEF Allocated
  <1>3. CmdInit(s) = MessageReply(t, "INIT", "apdu", 17)
    BY DEF CmdInit
  <1> HIDE DEF mem, next
  <1>4. /\ t \in Service /\ t.next = next
        /\ t.offset = s.offset /\ t.index = s.index /\ t.state = s.state /\ t.from = s.from
        /\ t.length = s.length /\ t.len = s.len /\ t.cmd = s.cmd /\ t.tch = s.tch
    BY <1>1, <1>2 DEF Service
  <1> HIDE DEF t
  <1>5. Bounded(t)
    BY <1>2, <1>4 DEF Bounded, Extents, Allocated
  <1>6. "INIT" \in Tags /\ "apdu" \in Froms /\ "apdu" # "receive" /\ "apdu" # "ping"
    BY DEF Tags, Froms
  <1> QED
    BY <1>3, <1>5, <1>6, MessageReplyBounded, Sizes

\* u2f_message_complete.
LEMMA MessageCompleteBounded ==
    ASSUME NEW s, Bounded(s), s.state # "HANDLE_SEGMENTED", s.cmd \in Complete,
           s.cmd = "INIT" /\ s.ch = Broadcast => s.next <= Allocations
    PROVE  Bounded(MessageComplete(s))
  <1> s \in Service /\ Extents(s)
    BY DEF Bounded
  <1>1. CASE s.cmd = "INIT"
    BY <1>1, CmdInitBounded DEF MessageComplete
  <1>2. CASE s.cmd = "PING"
    <2>1. "PING" \in Tags /\ "ping" \in Froms /\ "ping" # "receive"
      BY DEF Tags, Froms
    <2>2. s.len \in Nat /\ s.len <= BufLen /\ s.len + 3 <= BufLen
      BY ServiceFields, Sizes DEF Extents
    <2>3. Bounded(MessageReply(s, "PING", "ping", s.len))
      BY <2>1, <2>2, MessageReplyBounded
    <2> QED
      BY <1>2, <2>3 DEF MessageComplete
  <1>3. CASE s.cmd = "MSG"
    BY <1>3, CmdMsgBounded DEF MessageComplete
  <1> QED
    BY <1>1, <1>2, <1>3 DEF Complete

\* The fields of a packet of the host, each in its range.
LEMMA PacketFields ==
    ASSUME NEW p \in Packet
    PROVE  /\ p.ch \in AllChannels /\ p.cmd \in Commands \cup {"CONT"} /\ p.seq \in 0..127
           /\ p.len \in Words /\ p.size \in Nat /\ p.size <= Segment /\ p.apdu \in Apdu
  BY Sizes DEF Packet, Words

\* The running CRC over one packet more.
LEMMA CrcType ==
    ASSUME NEW a \in Apdu, NEW n \in Int, NEW crc \in Crc
    PROVE  /\ [of |-> a, n |-> n] \in Crc
           /\ [crc EXCEPT !.n = n] \in Crc
           /\ crc.n \in Int
  BY DEF Crc

\* A packet of a poll is counted, in 16 bits, and not copied.
LEMMA FakeCopiedBounded ==
    ASSUME NEW s, Bounded(s), NEW p \in Packet, ~FakeMismatch(s, p)
    PROVE  Bounded(FakeCopied(s, p))
  <1> s \in Service
    BY DEF Bounded
  <1>0. /\ s.foffset \in Words /\ s.foffset \in Int /\ s.length \in Nat /\ s.fcrc \in Crc /\ p.apdu \in Apdu
        /\ p.size \in Nat
    BY ServiceFields, PacketFields, Sizes DEF Words
  <1>1. CASE s.foffset = 0
    <2> DEFINE n == Smaller(p.size - 4, s.length) % Word
               crc == [of |-> p.apdu, n |-> n]
               t == [s EXCEPT !.foffset = n, !.findex = 0, !.fcrc = crc]
    <2>1. Smaller(p.size - 4, s.length) \in Int
      BY <1>0 DEF Smaller
    <2>2. n \in Words /\ n \in Int
      BY <2>1, ModWord DEF Words
    <2>3. FakeCopied(s, p) = t
      BY <1>1 DEF FakeCopied
    <2> HIDE DEF n
    <2>4. crc \in Crc
      BY <1>0, <2>2, CrcType
    <2> HIDE DEF crc
    <2>5. t \in Service /\ Alike(s, t)
      BY <2>2, <2>4, Choices DEF Service, Alike
    <2> QED
      BY <2>3, <2>5, Elsewhere
  <1>2. CASE s.foffset # 0
    <2> DEFINE n == Smaller(p.size - 5, s.length - s.foffset) % Word
               at == (s.foffset + n) % Word
               crc == [s.fcrc EXCEPT !.n = s.fcrc.n + n]
               t == [s EXCEPT !.foffset = at, !.findex = s.findex + 1, !.fcrc = crc]
    <2>1. Smaller(p.size - 5, s.length - s.foffset) \in Int
      BY <1>0 DEF Smaller
    <2>2. n \in Int
      BY <2>1, ModWord
    <2>3. s.foffset + n \in Int
      BY <1>0, <2>2
    <2>4. FakeCopied(s, p) = [s EXCEPT !.foffset = (@ + n) % Word, !.findex = @ + 1, !.fcrc.n = @ + n]
      BY <1>2 DEF FakeCopied
    <2> HIDE DEF n
    <2>5. at \in Words
      BY <2>3, ModWord DEF Words
    <2>6. s.fcrc.n \in Int
      BY <1>0, CrcType
    <2>7. s.fcrc.n + n \in Int
      BY <2>2, <2>6
    <2>8. crc \in Crc
      BY <1>0, <2>7, CrcType
    <2>9. s.findex + 1 \in Indices
      BY <1>2, PacketFields DEF FakeMismatch, Indices
    <2>10. FakeCopied(s, p) = t
      BY <2>4
    <2> HIDE DEF crc, at
    <2>11. t \in Service /\ Alike(s, t)
      BY <2>5, <2>8, <2>9 DEF Service, Alike
    <2> QED
      BY <2>10, <2>11, Elsewhere
  <1> QED
    BY <1>1, <1>2

\* No bound depends on the state of the poll.
LEMMA FakeStateBounded ==
    ASSUME NEW s, Bounded(s), NEW fstate \in FakeStates, NEW thrown \in BOOLEAN
    PROVE  /\ Bounded([s EXCEPT !.fstate = fstate, !.thrown = thrown])
           /\ Bounded([s EXCEPT !.fstate = fstate, !.foffset = 0])
           /\ Bounded([s EXCEPT !.fstate = fstate])
  <1> s \in Service
    BY DEF Bounded
  <1>1. Bounded([s EXCEPT !.fstate = fstate, !.thrown = thrown])
    <2> DEFINE t == [s EXCEPT !.fstate = fstate, !.thrown = thrown]
    <2>1. t \in Service /\ Alike(s, t)
      BY DEF Service, Alike
    <2> HIDE DEF t
    <2>2. Bounded(t)
      BY <2>1, Elsewhere
    <2> QED
      BY <2>2 DEF t
  <1>2. Bounded([s EXCEPT !.fstate = fstate, !.foffset = 0])
    <2> DEFINE t == [s EXCEPT !.fstate = fstate, !.foffset = 0]
    <2>1. t \in Service /\ Alike(s, t)
      BY Choices DEF Service, Alike
    <2> HIDE DEF t
    <2>2. Bounded(t)
      BY <2>1, Elsewhere
    <2> QED
      BY <2>2 DEF t
  <1>3. Bounded([s EXCEPT !.fstate = fstate])
    <2> DEFINE t == [s EXCEPT !.fstate = fstate]
    <2>1. t \in Service /\ Alike(s, t)
      BY DEF Service, Alike
    <2> HIDE DEF t
    <2>2. Bounded(t)
      BY <2>1, Elsewhere
    <2> QED
      BY <2>2 DEF t
  <1> QED
    BY <1>1, <1>2, <1>3

\* The end of a poll.
LEMMA FakeCompleteBounded == ASSUME NEW s, Bounded(s) PROVE Bounded(FakeComplete(s))
  <1> DEFINE t == [s EXCEPT !.fstate = "FAKE_RECEIVED", !.foffset = 0]
             notice == SendNotice(t, "PRESENCE")
  <1>0. "FAKE_RECEIVED" \in FakeStates /\ "INTERNAL_ERROR" \in FakeStates /\ "IDLE" \in FakeStates
        /\ "PRESENCE" \in Tags
    BY DEF FakeStates, Tags
  <1>1. Bounded(t) /\ Bounded([s EXCEPT !.fstate = "INTERNAL_ERROR", !.thrown = TRUE])
    BY <1>0, FakeStateBounded
  <1>2. FakeComplete(s) \in {s, [s EXCEPT !.fstate = "INTERNAL_ERROR", !.thrown = TRUE],
                             [notice EXCEPT !.fstate = "IDLE"], t}
    BY DEF FakeComplete
  <1> HIDE DEF t
  <1>3. Bounded(notice)
    BY <1>0, <1>1, SendNoticeBounded
  <1> HIDE DEF notice
  <1>4. Bounded([notice EXCEPT !.fstate = "IDLE"])
    BY <1>0, <1>3, FakeStateBounded
  <1> QED
    BY <1>1, <1>2, <1>4

\* u2f_transport_receive_fakeChannel.
LEMMA ReceiveFakeBounded ==
    ASSUME NEW s, Bounded(s), NEW p \in Packet
    PROVE  Bounded(ReceiveFake(s, p))
  <1>1. Bounded(Error(s))
    BY ErrorBounded
  <1>2. Bounded([s EXCEPT !.fstate = "INTERNAL_ERROR", !.thrown = TRUE])
    BY FakeStateBounded DEF FakeStates
  <1>3. Bounded(SendNotice(s, "WINK"))
    BY SendNoticeBounded DEF Tags
  <1>4. ~FakeMismatch(s, p) => Bounded(FakeComplete(FakeCopied(s, p)))
    BY FakeCopiedBounded, FakeCompleteBounded
  <1> QED
    BY <1>1, <1>2, <1>3, <1>4 DEF ReceiveFake

\* The place of a packet in its message.
LEMMA InMessageType == ASSUME NEW p \in Packet PROVE InMessage(p) \in Nat
  <1>1. p.seq \in Nat /\ Segment - 5 \in Nat /\ Segment - 4 \in Nat
    BY PacketFields, Sizes
  <1>2. p.seq * (Segment - 5) \in Nat
    BY <1>1
  <1> QED
    BY <1>1, <1>2 DEF InMessage

\* The bytes of a packet fall inside the receive buffer.
LEMMA CopiedService ==
    ASSUME NEW s \in Service, NEW p \in Packet, NEW n \in Nat
    PROVE  /\ Copied(s, p, n) \in Service
           /\ Copied(s, p, n).offset = s.offset + n
           /\ LET t == Copied(s, p, n) IN
              /\ t.index = s.index /\ t.state = s.state /\ t.from = s.from /\ t.length = s.length
              /\ t.len = s.len /\ t.next = s.next /\ t.cmd = s.cmd /\ t.tch = s.tch /\ t.ch = s.ch
              /\ t.crc = s.crc /\ SameTurn(s, t)
  <1> DEFINE mem == [k \in DOMAIN s.mem |-> IF k \in s.offset..(s.offset + n - 1)
                                            THEN <<p.ch, InMessage(p) + k - s.offset>> ELSE s.mem[k]]
             at == s.offset + n
             t == [s EXCEPT !.offset = at, !.mem = mem]
  <1>0. s.mem \in Memory /\ s.offset \in Nat /\ p.ch \in Origins /\ InMessage(p) \in Nat
    BY ServiceFields, PacketFields, InMessageType DEF Origins
  <1>1. ASSUME NEW k \in 0..(BufLen - 1)
        PROVE  (IF k \in s.offset..(s.offset + n - 1)
                  THEN <<p.ch, InMessage(p) + k - s.offset>> ELSE s.mem[k]) \in Byte
    <2>1. CASE k \in s.offset..(s.offset + n - 1)
      <3>1. InMessage(p) + k - s.offset \in Nat
        BY <1>0, <2>1, Sizes
      <3> QED
        BY <1>0, <2>1, <3>1 DEF Byte
    <2>2. CASE k \notin s.offset..(s.offset + n - 1)
      BY <1>0, <2>2 DEF Memory
    <2> QED
      BY <2>1, <2>2
  <1>2. mem \in Memory
    BY <1>0, <1>1 DEF Memory
  <1>3. at \in Nat
    BY <1>0
  <1>4. Copied(s, p, n) = t
    BY DEF Copied
  <1> HIDE DEF mem, at
  <1>5. t \in Service
    BY <1>2, <1>3 DEF Service
  <1>6. /\ t.offset = at /\ t.index = s.index /\ t.state = s.state /\ t.from = s.from
        /\ t.length = s.length /\ t.len = s.len /\ t.next = s.next /\ t.cmd = s.cmd /\ t.tch = s.tch
        /\ t.ch = s.ch /\ t.crc = s.crc
    BY DEF Service
  <1>7. SameTurn(s, t)
    BY DEF Service, SameTurn
  <1> QED
    BY <1>4, <1>5, <1>6, <1>7 DEF at

\* A message that has just been opened or continued.
Underway(s) ==
    /\ s \in Service /\ s.from = "receive"
    /\ s.offset <= s.length /\ s.length <= BufLen /\ s.index <= s.offset
    /\ s.len <= BufLen - 3 /\ s.cmd \in Complete /\ s.ch = s.tch
    /\ s.next >= 1 /\ s.next <= Allocations + 1
    /\ s.cmd = "INIT" /\ s.tch = Broadcast => s.next <= Allocations

\* A message that is not whole stays open, one that is whole is handled.
LEMMA AdvanceBounded == ASSUME NEW s, Underway(s) PROVE Bounded(Advance(s))
  <1> s \in Service
    BY DEF Underway
  <1>1. ASSUME NEW state \in States \ Sending, state = "HANDLE_SEGMENTED" => s.offset < s.length
        PROVE  LET t == [s EXCEPT !.state = state] IN
               /\ Bounded(t) /\ t.state = state /\ t.cmd = s.cmd /\ t.ch = s.ch /\ t.next = s.next
    <2> DEFINE t == [s EXCEPT !.state = state]
    <2>1. /\ t \in Service /\ t.state = state
          /\ t.offset = s.offset /\ t.index = s.index /\ t.from = s.from /\ t.ch = s.ch
          /\ t.length = s.length /\ t.len = s.len /\ t.next = s.next /\ t.cmd = s.cmd /\ t.tch = s.tch
      BY DEF Service
    <2> HIDE DEF t
    <2>2. Bounded(t)
      BY <1>1, <2>1 DEF Bounded, Extents, Allocated, Underway
    <2> QED
      BY <2>1, <2>2 DEF t
  <1>2. s.offset < s.length => Bounded([s EXCEPT !.state = "HANDLE_SEGMENTED"])
    BY <1>1 DEF States, Sending
  <1>3. Bounded(MessageComplete([s EXCEPT !.state = "PROCESSING_COMMAND"]))
    <2> DEFINE t == [s EXCEPT !.state = "PROCESSING_COMMAND"]
    <2>1. Bounded(t) /\ t.state # "HANDLE_SEGMENTED" /\ t.cmd = s.cmd /\ t.ch = s.ch /\ t.next = s.next
      BY <1>1 DEF States, Sending
    <2> HIDE DEF t
    <2>2. Bounded(MessageComplete(t))
      BY <2>1, MessageCompleteBounded DEF Underway
    <2> QED
      BY <2>2 DEF t
  <1>4. s.offset >= s.length \/ s.offset < s.length
    BY ServiceFields
  <1> QED
    BY <1>2, <1>3, <1>4 DEF Advance

\* The message that a first packet opens.
Opening(s, p) ==
    LET n == Smaller(p.size - 4, p.len + 3)
        t == [s EXCEPT !.offset = 0, !.length = p.len + 3, !.media = "USB", !.index = 0,
                       !.tch = s.ch, !.crc = [of |-> p.apdu, n |-> n],
                       !.cmd = p.cmd, !.len = p.len, !.apdu = p.apdu]
    IN Copied(t, p, n)

\* The first packet of a message that is not refused fits the receive buffer.
LEMMA Opened ==
    ASSUME NEW s, Bounded(s), s.state \notin Sending, NEW p \in Packet, s.ch = p.ch,
           p.cmd = "INIT" /\ p.ch = Broadcast => s.next <= Allocations,
           p.size >= 7, p.cmd # "CONT", ~Refused(s, p)
    PROVE  Underway(Opening(s, p)) /\ SameTurn(s, Opening(s, p))
  <1> s \in Service /\ Extents(s) /\ Allocated(s)
    BY DEF Bounded
  <1> DEFINE n == Smaller(p.size - 4, p.len + 3)
             crc == [of |-> p.apdu, n |-> n]
             t == [s EXCEPT !.offset = 0, !.length = p.len + 3, !.media = "USB", !.index = 0,
                            !.tch = s.ch, !.crc = crc, !.cmd = p.cmd, !.len = p.len, !.apdu = p.apdu]
             r == Copied(t, p, n)
  <1>0. Opening(s, p) = r
    BY DEF Opening
  <1>1. p.len \in Nat /\ p.len <= BufLen - 3
    BY PacketFields, Sizes DEF Refused, Words
  <1>2. p.cmd \in Complete /\ p.cmd \in Commands
    BY PacketFields DEF Refused, Unsupported, Commands, Complete
  <1>3. n \in Nat /\ n <= p.len + 3
    BY <1>1, PacketFields DEF Smaller
  <1>4. p.apdu \in Apdu /\ s.ch \in AllChannels /\ s.next \in Nat
    BY PacketFields, ServiceFields
  <1>5. s.from = "receive" /\ s.next >= 1 /\ s.next <= Allocations + 1
    BY DEF Extents, Allocated
  <1> HIDE DEF n
  <1>6. crc \in Crc
    BY <1>3, <1>4 DEF Crc
  <1>7. p.len + 3 \in Nat /\ "USB" \in Medias
    BY <1>1 DEF Medias
  <1> HIDE DEF crc
  <1>8. t \in Service
    BY <1>1, <1>2, <1>4, <1>6, <1>7 DEF Service
  <1>9. /\ t.offset = 0 /\ t.index = 0 /\ t.from = s.from /\ t.ch = s.ch /\ t.tch = s.ch
        /\ t.length = p.len + 3 /\ t.len = p.len /\ t.next = s.next /\ t.cmd = p.cmd
    BY DEF Service
  <1>10. SameTurn(s, t)
    BY DEF Service, SameTurn
  <1> HIDE DEF t
  <1>11. /\ r \in Service /\ r.offset = t.offset + n /\ SameTurn(t, r)
         /\ r.index = t.index /\ r.from = t.from /\ r.length = t.length
         /\ r.len = t.len /\ r.next = t.next /\ r.cmd = t.cmd /\ r.tch = t.tch /\ r.ch = t.ch
    BY <1>3, <1>8, CopiedService
  <1> HIDE DEF r
  <1>12. Underway(r)
    BY <1>1, <1>2, <1>3, <1>5, <1>9, <1>11, Sizes DEF Underway
  <1> QED
    BY <1>0, <1>10, <1>11, <1>12 DEF SameTurn

\* The first packet of a message, in any state that is not sending.
LEMMA FirstPacketBounded ==
    ASSUME NEW s, Bounded(s), s.state \notin Sending, NEW p \in Packet, s.ch = p.ch,
           p.cmd = "INIT" /\ p.ch = Broadcast => s.next <= Allocations
    PROVE  Bounded(FirstPacket(s, p))
  <1>1. Bounded(Error(s)) /\ Bounded(SendAlone(s, "BUSY"))
    BY ErrorBounded, SendAloneBounded DEF Tags
  <1>2. ASSUME p.size >= 7, p.cmd # "CONT", ~Refused(s, p)
        PROVE  Bounded(Advance(Opening(s, p)))
    BY <1>2, Opened, AdvanceBounded
  <1>3. p.size < 7 \/ p.size >= 7
    BY PacketFields
  <1> QED
    BY <1>1, <1>2, <1>3 DEF FirstPacket, Opening

\* The message that a packet continues.
Continuing(s, p) ==
    LET n == Smaller(p.size - 5, s.length - s.offset)
    IN [Copied(s, p, n) EXCEPT !.index = @ + 1, !.crc.n = @ + n]

\* A packet that follows fits what its message has left.
LEMMA Continued ==
    ASSUME NEW s, Bounded(s), NEW p \in Packet, ~Opens(s, p),
           p.size >= 6, s.state = "HANDLE_SEGMENTED"
    PROVE  Underway(Continuing(s, p)) /\ SameTurn(s, Continuing(s, p))
  <1> s \in Service /\ Extents(s) /\ Allocated(s)
    BY DEF Bounded
  <1> DEFINE n == Smaller(p.size - 5, s.length - s.offset)
             c == Copied(s, p, n)
             crc == [c.crc EXCEPT !.n = c.crc.n + n]
             i == c.index + 1
             r == [c EXCEPT !.index = i, !.crc = crc]
  <1>0. Continuing(s, p) = r
    BY DEF Continuing
  <1>1. s.offset \in Nat /\ s.length \in Nat /\ s.index \in Nat /\ p.size \in Nat /\ s.offset < s.length
    BY PacketFields, ServiceFields DEF Extents
  <1>2. n \in Nat /\ n >= 1 /\ s.offset + n <= s.length
    BY <1>1 DEF Smaller
  <1> HIDE DEF n
  <1>3. /\ c \in Service /\ c.offset = s.offset + n /\ SameTurn(s, c)
        /\ c.index = s.index /\ c.from = s.from /\ c.length = s.length
        /\ c.len = s.len /\ c.next = s.next /\ c.cmd = s.cmd /\ c.tch = s.tch /\ c.ch = s.ch
    BY <1>2, CopiedService
  <1> HIDE DEF c
  <1>4. c.crc \in Crc /\ c.crc.n \in Int
    <2>1. c.crc \in Crc
      BY <1>3, ServiceFields
    <2> QED
      BY <2>1 DEF Crc
  <1>5. crc \in Crc
    <2>1. c.crc.n + n \in Int
      BY <1>2, <1>4
    <2> QED
      BY <1>4, <2>1 DEF Crc
  <1>6. i \in Nat /\ i = s.index + 1
    BY <1>1, <1>3
  <1> HIDE DEF crc, i
  <1>7. /\ r \in Service /\ r.offset = c.offset /\ r.index = i /\ r.from = c.from /\ r.length = c.length
        /\ r.len = c.len /\ r.next = c.next /\ r.cmd = c.cmd /\ r.tch = c.tch /\ r.ch = c.ch
    BY <1>3, <1>5, <1>6, ZenonT(60) DEF Service
  <1>8. SameTurn(c, r)
    BY <1>3 DEF Service, SameTurn
  <1> HIDE DEF r
  <1>9. s.from = "receive" /\ s.ch = s.tch /\ s.cmd \in Complete
    BY DEF Opens, Extents, Sending
  <1>10. Underway(r)
    BY <1>1, <1>2, <1>3, <1>6, <1>7, <1>9 DEF Underway, Extents, Allocated
  <1> QED
    BY <1>0, <1>3, <1>8, <1>10 DEF SameTurn

\* A packet that follows, in any state.
LEMMA NextPacketBounded ==
    ASSUME NEW s, Bounded(s), NEW p \in Packet, ~Opens(s, p)
    PROVE  Bounded(NextPacket(s, p))
  <1>1. Bounded(Error(s)) /\ Bounded(Reset(s))
    BY ErrorBounded, ResetBounded
  <1>2. ASSUME p.size >= 6, s.state = "HANDLE_SEGMENTED"
        PROVE  Bounded(Advance(Continuing(s, p)))
    BY <1>2, Continued, AdvanceBounded
  <1>3. p.size < 6 \/ p.size >= 6
    BY PacketFields
  <1> QED
    BY <1>1, <1>2, <1>3 DEF NextPacket, Continuing

\* Any packet, in any state of the transport.
LEMMA ReceivedBounded ==
    ASSUME NEW s, Bounded(s), NEW p \in Packet,
           p.cmd = "INIT" /\ p.ch = Broadcast => s.next <= Allocations
    PROVE  Bounded(Received(s, p))
  <1> DEFINE t == IF s.state = "SENDING_ERROR" THEN Reset(s) ELSE s
             r == [t EXCEPT !.ch = p.ch]
  <1>1. Bounded(t) /\ (s.state # "SENDING_RESPONSE" => t.state \notin Sending) /\ t.next = s.next
    BY ResetBounded DEF Sending
  <1> t \in Service
    BY <1>1 DEF Bounded
  <1> HIDE DEF t
  <1>2. /\ r \in Service /\ r.ch = p.ch
        /\ r.offset = t.offset /\ r.index = t.index /\ r.state = t.state /\ r.from = t.from
        /\ r.length = t.length /\ r.len = t.len /\ r.next = t.next /\ r.cmd = t.cmd /\ r.tch = t.tch
    <2>1. p.ch \in AllChannels
      BY PacketFields
    <2> QED
      BY <2>1 DEF Service
  <1>3. Bounded(r)
    BY <1>1, <1>2, Elsewhere DEF Alike
  <1> HIDE DEF r
  <1>4. Bounded(Error(s)) /\ Bounded(ReceiveFake(s, p)) /\ Bounded(Error(t))
    BY <1>1, ErrorBounded, ReceiveFakeBounded
  <1>5. s.state # "SENDING_RESPONSE" => Bounded(FirstPacket(r, p))
    BY <1>1, <1>2, <1>3, FirstPacketBounded
  <1>6. s.state # "SENDING_RESPONSE" /\ ~Opens(r, p) => Bounded(NextPacket(r, p))
    BY <1>1, <1>2, <1>3, NextPacketBounded
  <1> QED
    BY <1>4, <1>5, <1>6 DEF Received, r, t

-----------------------------------------------------------------------------

\* The inductive invariant of the transport and the thread.
UInv ==
    /\ proxy \in BOOLEAN
    /\ pc \in {"receive", "app", "poll", "wait", "ended"}
    /\ txLen \in ReplyLengths \cup {0}
    /\ pc = "poll" => txLen \in ReplyLengths
    /\ Bounded(u)

\* The invariant is as strong as the property of the runs.
LEMMA UInvInBounds == UInv => InBounds
  <1> SUFFICES ASSUME UInv PROVE InBounds
    OBVIOUS
  <1> u \in Service /\ Extents(u) /\ Allocated(u)
    BY DEF UInv, Bounded
  <1>1. /\ u.offset \in Nat /\ u.length \in Nat /\ u.index \in Nat /\ u.foffset \in 0..(Word - 1)
        /\ u.findex \in 0..128 /\ u.len \in Nat /\ u.next \in Nat /\ u.apduLen \in 0..BufLen
    BY ServiceFields DEF Words, Indices, Lengths
  <1>2. {u.offset, u.length, u.index, u.foffset, u.findex} \subseteq 0..(Word - 1)
    <2>1. Word \in Nat /\ Word > 128 /\ BufLen \in Nat /\ BufLen < Word
      BY Sizes DEF Word
    <2>2. u.offset \in 0..(Word - 1) /\ u.length \in 0..(Word - 1) /\ u.index \in 0..(Word - 1)
      BY <1>1, <2>1 DEF Extents
    <2>3. u.findex \in 0..(Word - 1)
      BY <1>1, <2>1
    <2> QED
      BY <1>1, <2>2, <2>3
  <1>3. u.len \in 0..(BufLen - 3) /\ u.next \in 1..(Allocations + 1)
    BY <1>1, Sizes DEF Extents, Allocated
  <1>4. /\ u.state \in States /\ u.from \in {"receive", "ping", "apdu", "const"}
        /\ u.media \in {"NONE", "USB"} /\ {u.ch, u.tch, u.client} \subseteq AllChannels
        /\ u.wait \in {"IDLE", "ON", "REPLY_READY"}
        /\ u.fstate \in {"IDLE", "FAKE_RECEIVED", "INTERNAL_ERROR"}
    BY ServiceFields DEF Froms, Medias, Waits, FakeStates
  <1>5. /\ u.cmd \in Commands /\ u.sending \in BOOLEAN /\ u.thrown \in BOOLEAN
        /\ u.apduState \in {"IDLE", "U2F"} /\ u.apduMedia \in {"NONE", "U2F"}
    BY ServiceFields DEF AppStates, AppMedias
  <1>6. DOMAIN u.mem = 0..(BufLen - 1) /\ \A k \in DOMAIN u.mem : u.mem[k] \in Byte
    BY ServiceFields DEF Memory
  <1>7. TypeOK
    BY <1>1, <1>2, <1>3, <1>4, <1>5, <1>6 DEF TypeOK, UInv
  <1>8. /\ u.state \notin Sending => u.from = "receive" /\ u.length <= BufLen
        /\ u.state = "HANDLE_SEGMENTED" => u.offset < u.length
        /\ u.offset <= u.length
        /\ u.from = "apdu" => u.length <= BufLen
        /\ u.from = "ping" => u.length + 3 <= BufLen
    BY DEF Extents
  <1> QED
    BY <1>7, <1>8 DEF InBounds

\* A change of fields that no bound depends on, applied to the device as a whole.
LEMMA ClientBounded == ASSUME NEW s, Bounded(s), NEW c \in AllChannels PROVE Bounded([s EXCEPT !.client = c])
  <1> s \in Service
    BY DEF Bounded
  <1> DEFINE t == [s EXCEPT !.client = c]
  <1>1. t \in Service /\ Alike(s, t)
    BY DEF Service, Alike
  <1> HIDE DEF t
  <1>2. Bounded(t)
    BY <1>1, Elsewhere
  <1> QED
    BY <1>2 DEF t

\* No bound depends on what the host has left unread.
LEMMA OutBounded ==
    ASSUME NEW s, Bounded(s), NEW out \in Outs
    PROVE  Bounded([s EXCEPT !.out = out])
  <1> s \in Service
    BY DEF Bounded
  <1> DEFINE t == [s EXCEPT !.out = out]
  <1>1. t \in Service /\ Alike(s, t)
    BY DEF Service, Alike
  <1> HIDE DEF t
  <1>2. Bounded(t)
    BY <1>1, Elsewhere
  <1> QED
    BY <1>2 DEF t

\* One packet less in the IN endpoint.
LEMMA OutTail ==
    /\ <<>> \in Outs
    /\ \A out \in Outs : out # <<>> => Tail(out) \in Outs
  <1>1. <<>> \in Outs
    BY DEF Outs
  <1>2. \A out \in Outs : out # <<>> => Tail(out) \in Outs
    BY DEF Outs
  <1> QED
    BY <1>1, <1>2

\* The initial state of the device.
LEMMA InitBounded == Bounded(ServiceInit)
  <1> DEFINE mem == [k \in 0..(BufLen - 1) |-> <<"zero", 0>>]
             out == <<>>
             s == [state |-> "IDLE", offset |-> 0, length |-> 0, index |-> 0, from |-> "receive",
                   media |-> "NONE", ch |-> Forbidden, tch |-> Forbidden, next |-> 1, sendCmd |-> "MSG",
                   wait |-> "IDLE", fstate |-> "IDLE", foffset |-> 0, findex |-> 0,
                   crc |-> NoCrc, fcrc |-> NoCrc, cmd |-> "OTHER", len |-> 0, apdu |-> NoApdu,
                   sending |-> FALSE, thrown |-> FALSE,
                   apduState |-> "IDLE", apduMedia |-> "NONE", apduLen |-> 0, client |-> Forbidden,
                   mem |-> mem, out |-> out]
  <1>1. mem \in Memory
    <2>1. <<"zero", 0>> \in Byte
      BY DEF Byte, Origins
    <2> QED
      BY <2>1 DEF Memory
  <1>2. NoApdu \in Apdu
    BY DEF NoApdu, Apdu
  <1>3. NoCrc \in Crc
    BY <1>2 DEF NoCrc, Crc
  <1>4. out \in Outs
    BY OutTail
  <1>5. /\ "MSG" \in Tags /\ "OTHER" \in Commands /\ "IDLE" \in AppStates /\ "NONE" \in AppMedias
        /\ Forbidden \in AllChannels
    BY DEF Tags, Commands, AppStates, AppMedias, AllChannels
  <1>6. 0 \in Lengths
    BY Sizes DEF Lengths
  <1>7. ServiceInit = s
    BY DEF ServiceInit
  <1> HIDE DEF out, mem
  <1>8. s \in Service
    BY <1>1, <1>2, <1>3, <1>4, <1>5, <1>6, Choices DEF Service
  <1>9. Extents(s) /\ Allocated(s)
    BY Sizes DEF Extents, Allocated, Sending
  <1> QED
    BY <1>7, <1>8, <1>9 DEF Bounded

\* The state of the device after a restart, whose buffer and channels stay.
LEMMA StartBounded ==
    ASSUME NEW ch \in AllChannels, NEW tch \in AllChannels, NEW mem \in Memory
    PROVE  Bounded([ServiceInit EXCEPT !.ch = ch, !.tch = tch, !.mem = mem])
  <1> DEFINE s == ServiceInit
             t == [s EXCEPT !.ch = ch, !.tch = tch, !.mem = mem]
  <1>1. s \in Service /\ Bounded(s)
    BY InitBounded DEF Bounded
  <1>2. s.state = "IDLE"
    BY DEF ServiceInit
  <1> HIDE DEF s
  <1>3. /\ t \in Service
        /\ t.offset = s.offset /\ t.index = s.index /\ t.state = s.state /\ t.from = s.from
        /\ t.length = s.length /\ t.len = s.len /\ t.next = s.next
    BY <1>1 DEF Service
  <1> HIDE DEF t
  <1>4. Bounded(t)
    BY <1>1, <1>2, <1>3 DEF Bounded, Extents, Allocated
  <1> QED
    BY <1>4 DEF t, s

\* The invariant holds initially.
LEMMA InitUInv == Init => UInv
  BY InitBounded DEF Init, UInv

\* Every step keeps the invariant.
LEMMA NextUInv == UInv /\ [Next]_vars => UInv'
  <1> SUFFICES ASSUME UInv, [Next]_vars PROVE UInv'
    OBVIOUS
  <1>0. Bounded(u) /\ u \in Service /\ proxy \in BOOLEAN
    BY DEF UInv, Bounded
  <1>1. ASSUME NEW p \in Packets, DataOut(p) PROVE UInv'
    <2> DEFINE s == Received(u, p)
    <2>1. p \in Packet
      BY PacketsAssumption
    <2>2. Bounded(s)
      BY <1>0, <1>1, <2>1, ReceivedBounded DEF DataOut
    <2>3. s.tch \in AllChannels
      BY <2>2, ServiceFields DEF Bounded
    <2>4. u' \in {s, [s EXCEPT !.client = s.tch]}
      BY <1>1 DEF DataOut
    <2>5. pc' \in {"ended", "app", pc} /\ UNCHANGED <<proxy, txLen>>
      BY <1>1 DEF DataOut, Thread
    <2> HIDE DEF s
    <2>6. Bounded(u')
      BY <2>2, <2>3, <2>4, ClientBounded
    <2> QED
      BY <2>5, <2>6 DEF UInv
  <1>2. CASE DataIn
    <2>1. Tail(u.out) \in Outs
      BY <1>0, <1>2, OutTail, ServiceFields DEF DataIn
    <2> DEFINE t == [u EXCEPT !.out = Tail(u.out)]
    <2>2. Bounded(t)
      BY <1>0, <2>1, OutBounded
    <2>3. u' = Sent(t, "USB")
      BY <1>2 DEF DataIn
    <2> HIDE DEF t
    <2>4. Bounded(u')
      BY <2>2, <2>3, SentBounded
    <2> QED
      BY <1>2, <2>4 DEF UInv, DataIn
  <1>3. CASE BusReset
    <2>1. Bounded(u')
      BY <1>0, <1>3, OutBounded, OutTail DEF BusReset
    <2> QED
      BY <1>3, <2>1 DEF UInv, BusReset
  <1>4. ASSUME NEW n \in ReplyLengths, AppReplies(n) PROVE UInv'
    <2>1. PICK lost \in {u.out, IF u.out = <<>> THEN u.out ELSE Tail(u.out)} :
             IF u.apduState = "IDLE"
               THEN pc' = "ended" /\ u' = [u EXCEPT !.out = lost] /\ UNCHANGED txLen
               ELSE /\ pc' = "poll" /\ txLen' = n
                    /\ u' = AutoReply([u EXCEPT !.mem = Written(@, "app", n), !.out = lost], FALSE)
      BY <1>4 DEF AppReplies
    <2>2. lost \in Outs
      BY <1>0, OutTail, ServiceFields
    <2> DEFINE mem == Written(u.mem, "app", n)
               s == [u EXCEPT !.mem = mem]
               t == [s EXCEPT !.out = lost]
    <2>3. mem \in Memory
      BY <1>0, WrittenType, ServiceFields DEF Origins
    <2>4. t = [u EXCEPT !.mem = Written(@, "app", n), !.out = lost]
      OBVIOUS
    <2> HIDE DEF mem
    <2>5. Bounded(s)
      BY <1>0, <2>3, MemoryBounded
    <2> HIDE DEF s
    <2>6. Bounded(t)
      BY <2>2, <2>5, OutBounded
    <2> HIDE DEF t
    <2>7. Bounded(AutoReply(t, FALSE)) /\ Bounded([u EXCEPT !.out = lost])
      BY <1>0, <2>2, <2>6, AutoReplyBounded, OutBounded
    <2>8. Bounded(u')
      BY <2>1, <2>4, <2>7
    <2>9. txLen' \in ReplyLengths \cup {0} /\ (pc' = "poll" => txLen' \in ReplyLengths)
          /\ pc' \in {"ended", "poll"}
      BY <2>1 DEF UInv
    <2> QED
      BY <1>4, <2>8, <2>9 DEF UInv, AppReplies
  <1>5. CASE SendReply
    <2>1. txLen \in Nat /\ txLen + 7 \in Nat /\ txLen <= BufLen /\ txLen + 7 <= BufLen
      BY <1>5, RepliesAssumption, Sizes DEF SendReply, UInv
    <2>2. "MSG" \in Tags /\ "apdu" \in Froms /\ "apdu" # "receive" /\ "apdu" # "ping"
      BY DEF Tags, Froms
    <2>3. Bounded(MessageReply(u, "MSG", "apdu", txLen))
      BY <1>0, <2>1, <2>2, MessageReplyBounded
    <2>4. Bounded(MessageReply(Wrapped(u, txLen), "MSG", "apdu", txLen + 7))
      <3> DEFINE mem == [k \in DOMAIN u.mem |-> IF k < 5 THEN <<"zero", 0>>
                                               ELSE IF k < txLen + 7 THEN <<"app", k - 5>> ELSE u.mem[k]]
                 t == [u EXCEPT !.mem = mem]
      <3>1. DOMAIN u.mem = 0..(BufLen - 1) /\ \A k \in 0..(BufLen - 1) : u.mem[k] \in Byte
        BY <1>0, ServiceFields DEF Memory
      <3>2. mem \in Memory
        BY <3>1, Sizes DEF Memory, Byte, Origins
      <3>3. Wrapped(u, txLen) = t
        BY DEF Wrapped
      <3> HIDE DEF mem
      <3>4. Bounded(t)
        BY <1>0, <3>2, MemoryBounded
      <3> HIDE DEF t
      <3> QED
        BY <2>1, <2>2, <3>3, <3>4, MessageReplyBounded
    <2>5. Bounded(u')
      BY <1>5, <2>3, <2>4 DEF SendReply
    <2> QED
      BY <1>5, <2>5 DEF UInv, SendReply
  <1>6. CASE EndReply
    <2> DEFINE t == [u EXCEPT !.apduMedia = "NONE", !.apduLen = 0]
    <2>1. "NONE" \in AppMedias
      BY DEF AppMedias
    <2>2. 0 \in Lengths
      BY Sizes DEF Lengths
    <2>3. t \in Service /\ Alike(u, t)
      BY <1>0, <2>1, <2>2 DEF Service, Alike
    <2> HIDE DEF t
    <2>4. Bounded(t)
      BY <1>0, <2>3, Elsewhere
    <2>5. u' = t
      BY <1>6 DEF EndReply, t
    <2> QED
      BY <1>6, <2>4, <2>5 DEF UInv, EndReply
  <1>7. CASE Expire
    BY <1>7 DEF Expire, UInv
  <1>8. CASE Restart
    <2>1. u.ch \in AllChannels /\ u.tch \in AllChannels /\ u.mem \in Memory
      BY <1>0, ServiceFields
    <2>2. Bounded(u')
      BY <1>8, <2>1, StartBounded DEF Restart
    <2> QED
      BY <1>8, <2>2 DEF UInv, Restart
  <1>9. CASE UNCHANGED vars
    BY <1>9 DEF vars, UInv
  <1> QED
    BY <1>1, <1>2, <1>3, <1>4, <1>5, <1>6, <1>7, <1>8, <1>9 DEF Next

\* Whatever packets the host sends on whatever channels, every packet is copied inside the
\* APDU buffer and every packet of a reply is read inside it.
THEOREM MessageBounds == Spec => []InBounds
  <1>1. Init => UInv
    BY InitUInv
  <1>2. UInv /\ [Next]_vars => UInv'
    BY NextUInv
  <1>3. UInv => InBounds
    BY UInvInBounds
  <1> QED
    BY <1>1, <1>2, <1>3, PTL DEF Spec

-----------------------------------------------------------------------------
(* With the proxy, every channel has the exchange of CommandResponse. *)

\* Nothing is under way: the next message may be given to the application.
Free(s) ==
    /\ s.apduState = "IDLE" /\ s.wait = "IDLE" /\ s.thrown = FALSE /\ s.fstate # "INTERNAL_ERROR"

\* The application has a command; the host is made to poll until `wait' is over.
Held(s, wait) ==
    /\ s.apduState = "U2F" /\ s.wait = wait /\ s.state = "PROCESSING_COMMAND"
    /\ s.thrown = FALSE /\ s.fstate # "INTERNAL_ERROR"

\* The reply is leaving, or has left, or was replaced by an error that is.
Leaving(s) ==
    \/ s.apduState = "IDLE" /\ s.wait = "IDLE"
    \/ s.apduState = "U2F" /\ s.wait = "REPLY_READY" /\ s.state \in Sending

\* A reply goes on, or it is over.
Goes(s, t) ==
    /\ t.ch = s.ch /\ t.thrown = s.thrown
    /\ \/ t.state \in Sending /\ t.apduState = s.apduState /\ t.wait = s.wait /\ t.fstate = s.fstate
       \/ t.apduState = "IDLE" /\ t.wait = "IDLE" /\ t.fstate = "IDLE"

\* Sending a packet changes nobody's turn.
LEMMA SendPacketTurn ==
    ASSUME NEW s \in Service, NEW media
    PROVE  SameTurn(s, SendPacket(s, media)) /\ SendPacket(s, media).state = s.state
  <1> DEFINE first == s.index = 0
             header == (IF media = "USB" THEN 4 ELSE 0) + (IF first THEN 3 ELSE 1)
             block == Smaller(s.length - s.offset, Segment - header)
             packet == [ch |-> s.ch, cmd |-> IF first THEN s.sendCmd ELSE "CONT", kind |-> s.sendCmd,
                        seq |-> s.index - 1, to |-> s.client,
                        data |-> [k \in 1..block |-> Source(s, s.offset + k - 1)]]
             o == s.offset + block
             i == s.index + 1
             out == IF media = "USB" THEN Append(s.out, packet) ELSE s.out
             t == [s EXCEPT !.offset = o, !.index = i, !.out = out]
  <1>1. SendPacket(s, media) = t
    BY DEF SendPacket
  <1> HIDE DEF o, i, out
  <1>2. SameTurn(s, t) /\ t.state = s.state
    BY DEF Service, SameTurn
  <1> QED
    BY <1>1, <1>2

\* An acknowledgement lets a reply go on or ends it, and does nothing else.
LEMMA SentTurn ==
    ASSUME NEW s \in Service, NEW media
    PROVE  IF s.state \in Sending THEN Goes(s, Sent(s, media))
           ELSE SameTurn(s, Sent(s, media)) /\ Sent(s, media).state = s.state
  <1> DEFINE t == [s EXCEPT !.sending = FALSE]
             r == [Reset(t) EXCEPT !.apduState = "IDLE"]
  <1>1. t \in Service /\ SameTurn(s, t) /\ t.state = s.state
    BY DEF Service, SameTurn
  <1> HIDE DEF t
  <1>2. SameTurn(s, SendPacket(t, media)) /\ SendPacket(t, media).state = s.state
    BY <1>1, SendPacketTurn DEF SameTurn
  <1>3. /\ r.ch = s.ch /\ r.thrown = s.thrown /\ r.apduState = "IDLE" /\ r.wait = "IDLE" /\ r.fstate = "IDLE"
    <2>1. Reset(t) \in Service /\ Reset(t).ch = t.ch /\ Reset(t).thrown = t.thrown
          /\ Reset(t).wait = "IDLE" /\ Reset(t).fstate = "IDLE"
      BY <1>1, Choices DEF Reset, Service
    <2>2. /\ r.ch = Reset(t).ch /\ r.thrown = Reset(t).thrown /\ r.apduState = "IDLE"
          /\ r.wait = Reset(t).wait /\ r.fstate = Reset(t).fstate
      BY <2>1 DEF Service
    <2> QED
      BY <1>1, <2>1, <2>2 DEF SameTurn
  <1> HIDE DEF r
  <1>4. s.state \notin Sending => Sent(s, media) = t
    BY <1>1 DEF Sent, t
  <1>5. Sent(s, media) \in {t, SendPacket(t, media), r}
    BY DEF Sent, t, r
  <1> QED
    BY <1>1, <1>2, <1>3, <1>4, <1>5 DEF Goes, SameTurn

\* An error takes the place of a reply under way.
LEMMA ErrorTurn == ASSUME NEW s \in Service PROVE Goes(s, Error(s))
  <1> DEFINE t == [s EXCEPT !.state = "SENDING_ERROR", !.index = 0, !.from = "const", !.offset = 0,
                            !.length = 1, !.sendCmd = "ERROR"]
  <1>1. t.state = "SENDING_ERROR" /\ SameTurn(s, t)
    BY DEF Service, SameTurn
  <1>2. t \in Service
    <2>1. "SENDING_ERROR" \in States /\ "const" \in Froms /\ "ERROR" \in Tags
      BY DEF States, Sending, Froms, Tags
    <2> QED
      BY <2>1 DEF Service
  <1>3. Error(s) = Sent(t, "USB")
    BY DEF Error
  <1> HIDE DEF t
  <1>4. Goes(t, Error(s))
    BY <1>1, <1>2, <1>3, SentTurn DEF Sending
  <1> QED
    BY <1>1, <1>4 DEF Goes, SameTurn

\* A reply that can start goes on, or is over at once.
LEMMA MessageReplyTurn ==
    ASSUME NEW s \in Service, NEW cmd \in Tags, NEW from \in Froms, NEW n \in Nat, Repliable(s)
    PROVE  Goes(s, MessageReply(s, cmd, from, n))
  <1> DEFINE t == [s EXCEPT !.state = "SENDING_RESPONSE", !.index = 0, !.from = from, !.offset = 0,
                            !.length = n, !.sendCmd = cmd]
  <1>1. t.state = "SENDING_RESPONSE" /\ SameTurn(s, t)
    BY DEF Service, SameTurn
  <1>2. t \in Service
    <2>1. "SENDING_RESPONSE" \in States
      BY DEF States, Sending
    <2> QED
      BY <2>1 DEF Service
  <1>3. MessageReply(s, cmd, from, n) = Sent(t, s.media)
    BY DEF MessageReply
  <1> HIDE DEF t
  <1>4. Goes(t, Sent(t, s.media))
    BY <1>1, <1>2, SentTurn DEF Sending
  <1> QED
    BY <1>1, <1>3, <1>4 DEF Goes, SameTurn

\* A packet of its own changes nobody's turn.
LEMMA SendAloneTurn ==
    ASSUME NEW s \in Service, NEW cmd
    PROVE  SameTurn(s, SendAlone(s, cmd)) /\ SendAlone(s, cmd).state = s.state
  <1> DEFINE out == Append(s.out, [ch |-> s.ch, cmd |-> cmd, kind |-> "alone", seq |-> -1,
                                  to |-> s.client, data |-> <<>>])
             t == [s EXCEPT !.out = out]
  <1>1. SendAlone(s, cmd) = t
    BY DEF SendAlone
  <1> HIDE DEF out
  <1>2. SameTurn(s, t) /\ t.state = s.state
    BY DEF Service, SameTurn
  <1> QED
    BY <1>1, <1>2

\* A packet of its own changes nobody's turn, even one that is awaited.
LEMMA SendNoticeTurn ==
    ASSUME NEW s \in Service, NEW cmd
    PROVE  SameTurn(s, SendNotice(s, cmd)) /\ SendNotice(s, cmd).state = s.state
  <1> DEFINE t == [s EXCEPT !.sending = TRUE]
  <1>1. t \in Service /\ SameTurn(s, t) /\ t.state = s.state
    BY DEF Service, SameTurn
  <1> HIDE DEF t
  <1>2. SameTurn(t, SendAlone(t, cmd)) /\ SendAlone(t, cmd).state = t.state
    BY <1>1, SendAloneTurn
  <1>3. SendNotice(s, cmd) = SendAlone(t, cmd)
    BY DEF SendNotice, t
  <1> QED
    BY <1>1, <1>2, <1>3 DEF SameTurn

\* The wait for the user begins, and ends when the reply is ready.
LEMMA AutoReplyTurn ==
    ASSUME NEW s \in Service
    PROVE  /\ s.wait = "IDLE" =>
                LET t == AutoReply(s, TRUE)
                IN /\ t.wait = "ON" /\ t.state = s.state /\ t.apduState = s.apduState
                   /\ t.thrown = s.thrown /\ t.fstate = s.fstate /\ t.apduLen = s.apduLen
                   /\ t.ch = s.ch
           /\ s.wait = "ON" =>
                LET t == AutoReply(s, FALSE)
                IN /\ t.wait = "REPLY_READY" /\ t.state = s.state /\ t.apduState = s.apduState
                   /\ t.thrown = s.thrown /\ t.fstate = s.fstate /\ t.ch = s.ch
  <1> DEFINE on == [s EXCEPT !.wait = "ON"]
             ready == [s EXCEPT !.wait = "REPLY_READY"]
  <1>1. /\ on \in Service /\ on.wait = "ON" /\ on.state = s.state /\ on.apduState = s.apduState
        /\ on.thrown = s.thrown /\ on.fstate = s.fstate /\ on.apduLen = s.apduLen
        /\ on.ch = s.ch
    BY DEF Service, Waits
  <1>2. /\ ready.wait = "REPLY_READY" /\ ready.state = s.state /\ ready.apduState = s.apduState
        /\ ready.thrown = s.thrown /\ ready.fstate = s.fstate /\ ready.ch = s.ch
    BY DEF Service
  <1>3. /\ s.wait = "IDLE" => AutoReply(s, TRUE) = SendNotice(on, "PRESENCE")
        /\ s.wait = "ON" => AutoReply(s, FALSE) = ready
    BY DEF AutoReply
  <1> HIDE DEF on, ready
  <1>4. SameTurn(on, SendNotice(on, "PRESENCE")) /\ SendNotice(on, "PRESENCE").state = on.state
    BY <1>1, SendNoticeTurn
  <1> QED
    BY <1>1, <1>2, <1>3, <1>4 DEF SameTurn

\* A message that came while the device was free leaves it free, or is a command the
\* application now has.
Handled(s) == Free(s) \/ (Held(s, "ON") /\ s.apduLen > 0)

\* A reply, or an error, started while the device is free leaves it free.
LEMMA FreeGoes == ASSUME NEW s, Free(s), NEW t, Goes(s, t) PROVE Handled(t)
  BY DEF Free, Goes, Handled

\* A reply that starts while the device is free.
LEMMA FreeReply ==
    ASSUME NEW s \in Service, Free(s), NEW cmd \in Tags, NEW from \in Froms, NEW n \in Nat
    PROVE  LET t == MessageReply(s, cmd, from, n) IN Handled(t) /\ t.ch = s.ch
  <1>1. Repliable(s)
    BY DEF Free, Repliable
  <1>2. Goes(s, MessageReply(s, cmd, from, n))
    BY <1>1, MessageReplyTurn
  <1> QED
    BY <1>2, FreeGoes DEF Goes

\* A change of the buffer changes nobody's turn.
LEMMA MemoryTurn ==
    ASSUME NEW s \in Service, NEW mem \in Memory
    PROVE  LET t == [s EXCEPT !.mem = mem] IN t \in Service /\ SameTurn(s, t) /\ t.state = s.state
  BY DEF Service, SameTurn

\* What the application is given.
LEMMA GiveToAppTurn ==
    ASSUME NEW s \in Service, NEW by \in Nat, NEW n \in Nat, by + n <= BufLen
    PROVE  LET t == GiveToApp(s, by, n)
           IN /\ t \in Service /\ t.apduState = "U2F" /\ t.apduLen = n
              /\ t.wait = s.wait /\ t.state = s.state /\ t.thrown = s.thrown /\ t.fstate = s.fstate
              /\ t.ch = s.ch
  <1> DEFINE mem == Moved(s.mem, by, n)
             t == [s EXCEPT !.mem = mem, !.apduLen = n, !.apduMedia = "U2F", !.apduState = "U2F"]
  <1>1. mem \in Memory
    BY MovedType, ServiceFields
  <1>2. n \in Lengths /\ "U2F" \in AppStates /\ "U2F" \in AppMedias
    BY Sizes DEF Lengths, AppStates, AppMedias
  <1>3. GiveToApp(s, by, n) = t
    BY DEF GiveToApp
  <1> HIDE DEF mem
  <1>4. /\ t \in Service /\ t.apduState = "U2F" /\ t.apduLen = n
        /\ t.wait = s.wait /\ t.state = s.state /\ t.thrown = s.thrown /\ t.fstate = s.fstate
        /\ t.ch = s.ch
    BY <1>1, <1>2 DEF Service
  <1> QED
    BY <1>3, <1>4

\* Only the mask of the proxy, with an APDU behind it, brings a command to the application.
LEMMA SignTurn ==
    ASSUME NEW s \in Service, Free(s), s.state = "PROCESSING_COMMAND", s.len <= BufLen - 3,
           NEW n \in Nat, n > 0 => n + 7 <= s.len
    PROVE  Handled(Sign(s, n)) /\ Sign(s, n).ch = s.ch
  <1>0. "MSG" \in Tags /\ "const" \in Froms /\ "apdu" \in Froms /\ "magic" \in Origins
    BY DEF Tags, Froms, Origins
  <1> DEFINE Good(t) == Handled(t) /\ t.ch = s.ch
  <1>1. Good(MessageReply(s, "MSG", "const", 2))
    BY <1>0, FreeReply
  <1>2. Good(MessageReply([s EXCEPT !.mem = Written(@, "magic", 8)], "MSG", "apdu", 8))
    <2> DEFINE mem == Written(s.mem, "magic", 8)
               t == [s EXCEPT !.mem = mem]
    <2>1. mem \in Memory
      BY <1>0, WrittenType, ServiceFields
    <2> HIDE DEF mem
    <2>2. t \in Service /\ SameTurn(s, t)
      BY <2>1, MemoryTurn
    <2> HIDE DEF t
    <2>3. Free(t)
      BY <2>2 DEF SameTurn, Free
    <2>4. Good(MessageReply(t, "MSG", "apdu", 8))
      BY <1>0, <2>2, <2>3, FreeReply DEF SameTurn
    <2> QED
      BY <2>4 DEF t, mem
  <1>3. n >= SignHeader + 5 => Good(AutoReply(GiveToApp(s, 10 + SignHeader, n - SignHeader), TRUE))
    <2> SUFFICES ASSUME n >= SignHeader + 5
                 PROVE  Good(AutoReply(GiveToApp(s, 10 + SignHeader, n - SignHeader), TRUE))
      OBVIOUS
    <2> DEFINE t == GiveToApp(s, 10 + SignHeader, n - SignHeader)
    <2>1. /\ 10 + SignHeader \in Nat /\ n - SignHeader \in Nat /\ n - SignHeader > 0
          /\ (10 + SignHeader) + (n - SignHeader) <= BufLen
      BY Sizes, ServiceFields
    <2>2. /\ t \in Service /\ t.apduState = "U2F" /\ t.apduLen = n - SignHeader
          /\ t.wait = s.wait /\ t.state = s.state /\ t.thrown = s.thrown /\ t.fstate = s.fstate
          /\ t.ch = s.ch
      BY <2>1, GiveToAppTurn
    <2> HIDE DEF t
    <2>3. /\ AutoReply(t, TRUE).wait = "ON" /\ AutoReply(t, TRUE).state = t.state
          /\ AutoReply(t, TRUE).apduState = t.apduState /\ AutoReply(t, TRUE).apduLen = t.apduLen
          /\ AutoReply(t, TRUE).thrown = t.thrown /\ AutoReply(t, TRUE).fstate = t.fstate
          /\ AutoReply(t, TRUE).ch = t.ch
      BY <2>2, AutoReplyTurn DEF Free
    <2> HIDE DEF Good
    <2>4. Good(AutoReply(t, TRUE))
      BY <2>1, <2>2, <2>3 DEF Good, Handled, Held, Free
    <2> QED
      BY <2>4 DEF t
  <1>4. n < SignHeader + 5 \/ n >= SignHeader + 5
    BY Sizes
  <1> HIDE DEF Good
  <1>5. Good(Sign(s, n))
    BY <1>1, <1>2, <1>3, <1>4 DEF Sign
  <1> QED
    BY <1>5 DEF Good

\* u2f_handle_cmd_msg, while the device is free.
LEMMA CmdMsgTurn ==
    ASSUME proxy, NEW s \in Service, Free(s), s.state = "PROCESSING_COMMAND", s.len <= BufLen - 3
    PROVE  Handled(CmdMsg(s)) /\ CmdMsg(s).ch = s.ch
  <1> DEFINE n == DataLength(s.apdu, s.len)
             Good(t) == Handled(t) /\ t.ch = s.ch
  <1>0. s.apdu \in Apdu /\ s.len \in Nat
    BY ServiceFields
  <1>1. (n = -1 \/ n \in Nat) /\ (n > 0 => n + 7 <= s.len)
    BY <1>0, DataLengthBound, DataLengthRoom
  <1> HIDE DEF n
  <1>2. "MSG" \in Tags /\ "const" \in Froms
    BY DEF Tags, Froms
  <1>3. /\ Good(MessageReply(s, "MSG", "const", 2)) /\ Good(MessageReply(s, "MSG", "const", 8))
        /\ Good(MessageReply(s, "MSG", "const", 4))
    BY <1>2, FreeReply
  <1>4. ~(n < 0) => Good(Sign(s, n))
    BY <1>1, SignTurn
  <1>5. s.apdu.ins \in SignInstructions \cup {"ENROLL", "VERSION", "INFO", "CLASS", "INSTRUCTION"}
    BY <1>0 DEF Apdu
  <1> HIDE DEF Good
  <1>6. Good(CmdMsg(s))
    BY <1>3, <1>4, <1>5 DEF CmdMsg, n, SignInstructions
  <1> QED
    BY <1>6 DEF Good

\* u2f_handle_cmd_init, while the device is free.
LEMMA CmdInitTurn ==
    ASSUME NEW s \in Service, Free(s)
    PROVE  Handled(CmdInit(s)) /\ CmdInit(s).ch = s.ch
  <1> DEFINE mem == Written(s.mem, "init", 17)
             next == IF s.ch = Broadcast THEN s.next + 1 ELSE s.next
             t == [s EXCEPT !.next = next, !.mem = mem]
  <1>1. mem \in Memory /\ next \in Nat
    <2>1. s.mem \in Memory /\ s.next \in Nat /\ "init" \in Origins
      BY ServiceFields DEF Origins
    <2> QED
      BY <2>1, WrittenType
  <1>2. CmdInit(s) = MessageReply(t, "INIT", "apdu", 17)
    BY DEF CmdInit
  <1> HIDE DEF mem, next
  <1>3. t \in Service /\ SameTurn(s, t)
    BY <1>1 DEF Service, SameTurn
  <1> HIDE DEF t
  <1>4. Free(t) /\ t.ch = s.ch
    BY <1>3 DEF SameTurn, Free
  <1>5. "INIT" \in Tags /\ "apdu" \in Froms
    BY DEF Tags, Froms
  <1> QED
    BY <1>2, <1>3, <1>4, <1>5, FreeReply

\* A message, continued or complete, while the device is free.
LEMMA AdvanceTurn ==
    ASSUME proxy, NEW s, Underway(s), Free(s)
    PROVE  Handled(Advance(s)) /\ Advance(s).ch = s.ch
  <1> s \in Service
    BY DEF Underway
  <1>1. ASSUME NEW state \in States
        PROVE  LET t == [s EXCEPT !.state = state] IN
               t \in Service /\ t.state = state /\ SameTurn(s, t) /\ t.cmd = s.cmd /\ t.len = s.len
    BY DEF Service, SameTurn
  <1>2. LET t == [s EXCEPT !.state = "HANDLE_SEGMENTED"] IN Handled(t) /\ t.ch = s.ch
    BY <1>1 DEF States, SameTurn, Free, Handled
  <1>3. LET t == MessageComplete([s EXCEPT !.state = "PROCESSING_COMMAND"])
        IN Handled(t) /\ t.ch = s.ch
    <2> DEFINE t == [s EXCEPT !.state = "PROCESSING_COMMAND"]
    <2>1. t \in Service /\ t.state = "PROCESSING_COMMAND" /\ SameTurn(s, t) /\ t.cmd = s.cmd /\ t.len = s.len
      BY <1>1 DEF States
    <2> HIDE DEF t
    <2>2. /\ Free(t) /\ t.ch = s.ch /\ t.len <= BufLen - 3 /\ t.len \in Nat
          /\ t.cmd \in {"INIT", "PING", "MSG"}
      BY <2>1, ServiceFields DEF SameTurn, Free, Underway, Complete
    <2>3. LET m == MessageReply(t, "PING", "ping", t.len) IN Handled(m) /\ m.ch = t.ch
      BY <2>1, <2>2, FreeReply DEF Tags, Froms
    <2>4. /\ Handled(CmdInit(t)) /\ CmdInit(t).ch = t.ch
          /\ Handled(CmdMsg(t)) /\ CmdMsg(t).ch = t.ch
      BY <2>1, <2>2, CmdInitTurn, CmdMsgTurn
    <2>5. Handled(MessageComplete(t)) /\ MessageComplete(t).ch = s.ch
      BY <2>2, <2>3, <2>4 DEF MessageComplete
    <2> QED
      BY <2>5 DEF t
  <1> QED
    BY <1>2, <1>3 DEF Advance

\* The first packet of a message, while the device is free.
LEMMA FirstPacketTurn ==
    ASSUME proxy, NEW s, Bounded(s), s.state \notin Sending, Free(s), NEW p \in Packet, s.ch = p.ch,
           p.cmd = "INIT" /\ p.ch = Broadcast => s.next <= Allocations
    PROVE  Handled(FirstPacket(s, p))
  <1> s \in Service
    BY DEF Bounded
  <1>1. Handled(Error(s)) /\ Handled(s) /\ Handled(SendAlone(s, "BUSY"))
    BY ErrorTurn, FreeGoes, SendAloneTurn DEF SameTurn, Free, Handled
  <1>2. ASSUME p.size >= 7, p.cmd # "CONT", ~Refused(s, p)
        PROVE  Handled(Advance(Opening(s, p)))
    BY <1>2, Opened, AdvanceTurn DEF SameTurn, Free
  <1>3. p.size < 7 \/ p.size >= 7
    BY PacketFields
  <1> QED
    BY <1>1, <1>2, <1>3 DEF FirstPacket, Opening

\* A packet that follows, while the device is free.
LEMMA NextPacketTurn ==
    ASSUME proxy, NEW s, Bounded(s), Free(s), NEW p \in Packet, ~Opens(s, p)
    PROVE  Handled(NextPacket(s, p))
  <1> s \in Service
    BY DEF Bounded
  <1>1. Handled(Error(s))
    BY ErrorTurn, FreeGoes
  <1>2. Handled(Reset(s))
    <2>1. /\ Reset(s).apduState = s.apduState /\ Reset(s).wait = "IDLE" /\ Reset(s).thrown = s.thrown
          /\ Reset(s).fstate = "IDLE"
      BY DEF Service, Reset
    <2> QED
      BY <2>1 DEF Free, Handled
  <1>3. ASSUME p.size >= 6, s.state = "HANDLE_SEGMENTED"
        PROVE  Handled(Advance(Continuing(s, p)))
    BY <1>3, Continued, AdvanceTurn DEF SameTurn, Free
  <1>4. p.size < 6 \/ p.size >= 6
    BY PacketFields
  <1> QED
    BY <1>1, <1>2, <1>3, <1>4 DEF NextPacket, Continuing

\* Any packet, while the device is free.
LEMMA ReceivedFree ==
    ASSUME proxy, NEW s, Bounded(s), Free(s), NEW p \in Packet,
           p.cmd = "INIT" /\ p.ch = Broadcast => s.next <= Allocations
    PROVE  Handled(Received(s, p))
  <1> s \in Service
    BY DEF Bounded
  <1> DEFINE t == IF s.state = "SENDING_ERROR" THEN Reset(s) ELSE s
             r == [t EXCEPT !.ch = p.ch]
  <1>1. Bounded(t) /\ (s.state # "SENDING_RESPONSE" => t.state \notin Sending) /\ t.next = s.next
    BY ResetBounded DEF Sending
  <1>2. Free(t)
    <2>1. /\ Reset(s).apduState = s.apduState /\ Reset(s).wait = "IDLE" /\ Reset(s).thrown = s.thrown
          /\ Reset(s).fstate = "IDLE"
      BY DEF Service, Reset
    <2> QED
      BY <2>1 DEF Free
  <1> t \in Service
    BY <1>1 DEF Bounded
  <1> HIDE DEF t
  <1>3. /\ r \in Service /\ r.ch = p.ch
        /\ r.offset = t.offset /\ r.index = t.index /\ r.state = t.state /\ r.from = t.from
        /\ r.length = t.length /\ r.len = t.len /\ r.next = t.next /\ r.cmd = t.cmd /\ r.tch = t.tch
    <2>1. p.ch \in AllChannels
      BY PacketFields
    <2> QED
      BY <2>1 DEF Service
  <1>4. Bounded(r)
    BY <1>1, <1>3, Elsewhere DEF Alike
  <1>5. Free(r)
    BY <1>2 DEF Service, Free
  <1> HIDE DEF r
  <1>6. Handled(Error(s)) /\ Handled(Error(t))
    BY <1>2, ErrorTurn, FreeGoes
  <1>7. s.state # "SENDING_RESPONSE" => Handled(FirstPacket(r, p))
    BY <1>1, <1>3, <1>4, <1>5, FirstPacketTurn
  <1>8. ~Opens(r, p) => Handled(NextPacket(r, p))
    BY <1>4, <1>5, NextPacketTurn
  <1>9. ~Gated(s)
    BY DEF Gated, Free
  <1> QED
    BY <1>6, <1>7, <1>8, <1>9 DEF Received, r, t

\* What a poll leaves alone: all that tells whose turn it is, but for a refusal that
\* ends the application.
Polled(s, t) ==
    /\ t.apduState = s.apduState /\ t.wait = s.wait /\ t.ch = s.ch /\ t.state = s.state
    /\ t.thrown \/ (t.thrown = s.thrown /\ t.fstate # "INTERNAL_ERROR")

\* A packet of a poll changes nobody's turn.
LEMMA FakeCopiedTurn ==
    ASSUME NEW s, Bounded(s), NEW p \in Packet, ~FakeMismatch(s, p)
    PROVE  LET t == FakeCopied(s, p) IN Bounded(t) /\ SameTurn(s, t) /\ t.state = s.state
  <1> s \in Service
    BY DEF Bounded
  <1> DEFINE t == FakeCopied(s, p)
  <1>1. Bounded(t) /\ t \in Service
    BY FakeCopiedBounded DEF Bounded
  <1>2. CASE s.foffset = 0
    <2> DEFINE n == Smaller(p.size - 4, s.length) % Word
               crc == [of |-> p.apdu, n |-> n]
    <2>1. t = [s EXCEPT !.foffset = n, !.findex = 0, !.fcrc = crc]
      BY <1>2 DEF FakeCopied
    <2> HIDE DEF n, crc
    <2> QED
      BY <1>1, <2>1 DEF Service, SameTurn
  <1>3. CASE s.foffset # 0
    <2> DEFINE n == Smaller(p.size - 5, s.length - s.foffset) % Word
               at == (s.foffset + n) % Word
               crc == [s.fcrc EXCEPT !.n = s.fcrc.n + n]
    <2>1. t = [s EXCEPT !.foffset = at, !.findex = s.findex + 1, !.fcrc = crc]
      BY <1>3 DEF FakeCopied
    <2> HIDE DEF n, at, crc
    <2> QED
      BY <1>1, <2>1 DEF Service, SameTurn
  <1> QED
    BY <1>1, <1>2, <1>3

\* The end of a poll: the host is told to wait, may have the reply, or is refused.
LEMMA FakeCompleteTurn ==
    ASSUME NEW s, Bounded(s), s.fstate # "INTERNAL_ERROR"
    PROVE  Polled(s, FakeComplete(s))
  <1> s \in Service
    BY DEF Bounded
  <1> DEFINE t == [s EXCEPT !.fstate = "FAKE_RECEIVED", !.foffset = 0]
             refused == [s EXCEPT !.fstate = "INTERNAL_ERROR", !.thrown = TRUE]
             notice == SendNotice(t, "PRESENCE")
  <1>1. Polled(s, refused) /\ Polled(s, s)
    BY DEF Service, Polled
  <1>2. t \in Service /\ Polled(s, t)
    BY Choices DEF Service, Polled, FakeStates
  <1>3. FakeComplete(s) \in {s, refused, [notice EXCEPT !.fstate = "IDLE"], t}
    BY DEF FakeComplete
  <1> HIDE DEF t, refused
  <1>4. SameTurn(t, notice) /\ notice.state = t.state
    BY <1>2, SendNoticeTurn
  <1>5. notice \in Service
    <2>1. Bounded([s EXCEPT !.fstate = "FAKE_RECEIVED", !.foffset = 0]) /\ "PRESENCE" \in Tags
      BY FakeStateBounded DEF FakeStates, Tags
    <2> QED
      BY <2>1, SendNoticeBounded DEF t, Bounded
  <1> HIDE DEF notice
  <1>6. Polled(s, [notice EXCEPT !.fstate = "IDLE"])
    <2>1. LET r == [notice EXCEPT !.fstate = "IDLE"]
          IN /\ r.apduState = notice.apduState /\ r.wait = notice.wait /\ r.ch = notice.ch
             /\ r.state = notice.state /\ r.thrown = notice.thrown /\ r.fstate = "IDLE"
      BY <1>5 DEF Service
    <2> QED
      BY <1>2, <1>4, <2>1 DEF Polled, SameTurn
  <1> QED
    BY <1>1, <1>2, <1>3, <1>6

\* While the application works on a command the host may only poll.
LEMMA ReceiveFakeTurn ==
    ASSUME NEW s, Bounded(s), s.fstate # "INTERNAL_ERROR", NEW p \in Packet
    PROVE  Polled(s, ReceiveFake(s, p))
  <1> s \in Service
    BY DEF Bounded
  <1>1. Polled(s, [s EXCEPT !.fstate = "INTERNAL_ERROR", !.thrown = TRUE])
    BY DEF Service, Polled
  <1>2. Polled(s, SendNotice(s, "WINK"))
    BY SendNoticeTurn DEF Polled, SameTurn
  <1>3. ~FakeMismatch(s, p) => Polled(s, FakeComplete(FakeCopied(s, p)))
    BY FakeCopiedTurn, FakeCompleteTurn DEF Polled, SameTurn
  <1> QED
    BY <1>1, <1>2, <1>3 DEF ReceiveFake

\* Any packet, while a command is with the application or its reply is leaving.
LEMMA ReceivedHeld ==
    ASSUME NEW s, Bounded(s), s.wait # "IDLE", s.fstate # "INTERNAL_ERROR", NEW p \in Packet
    PROVE  IF s.state = "SENDING_RESPONSE" THEN Goes(s, Received(s, p)) ELSE Polled(s, Received(s, p))
  <1>1. Goes(s, Error(s))
    BY ErrorTurn DEF Bounded
  <1>2. Polled(s, ReceiveFake(s, p))
    BY ReceiveFakeTurn
  <1> QED
    BY <1>1, <1>2 DEF Received, Gated

\* A state of the thread and of the device that goes with it.
Fits(at, s) ==
    /\ at = "receive" => Free(s)
    /\ at = "app" => Held(s, "ON")
    /\ at = "poll" => Held(s, "REPLY_READY")
    /\ at = "wait" => Leaving(s) /\ s.thrown = FALSE /\ s.fstate # "INTERNAL_ERROR"

\* A reply that goes on, or is over, fits a thread that waits for its end.
LEMMA LeavingGoes ==
    ASSUME NEW s, s.apduState = "U2F", s.wait = "REPLY_READY", s.thrown = FALSE,
           s.fstate # "INTERNAL_ERROR", NEW t, Goes(s, t)
    PROVE  Fits("wait", t)
  BY DEF Goes, Leaving, Fits

\* What changes nobody's turn fits the thread as before.
LEMMA SameFits ==
    ASSUME NEW at, NEW s, Fits(at, s), NEW t, SameTurn(s, t), t.state = s.state
    PROVE  Fits(at, t)
  BY DEF Fits, SameTurn, Free, Held, Leaving

\* A poll that is not refused fits the thread as before.
LEMMA PolledFits ==
    ASSUME NEW at, NEW s, Fits(at, s), s.wait # "IDLE", NEW t, Polled(s, t), t.thrown = FALSE,
           at \in {"app", "poll", "wait"}
    PROVE  Fits(at, t)
  BY DEF Fits, Polled, Held, Leaving

\* The history variable is nobody's turn.
LEMMA ClientTurn ==
    ASSUME NEW s \in Service, NEW c
    PROVE  LET t == [s EXCEPT !.client = c] IN SameTurn(s, t) /\ t.state = s.state
  BY DEF Service, SameTurn

\* What the host has left unread is nobody's turn.
LEMMA OutTurn ==
    ASSUME NEW s \in Service, NEW out
    PROVE  LET t == [s EXCEPT !.out = out] IN SameTurn(s, t) /\ t.state = s.state
  BY DEF Service, SameTurn

\* A packet leaves the thread where it is, gives it a command, or ends it.
LEMMA DataOutTurn ==
    ASSUME UInv, proxy, Fits(pc, u), NEW p \in Packets, DataOut(p)
    PROVE  /\ pc' # "ended" => Fits(pc', u')
           /\ \/ pc' = "ended"
              \/ pc = "receive" /\ pc' = "app"
              \/ pc' = pc /\ (pc # "receive" => u'.ch = u.ch)
  <1> DEFINE s == Received(u, p)
  <1>1. Bounded(u) /\ p \in Packet /\ (p.cmd = "INIT" /\ p.ch = Broadcast => u.next <= Allocations)
    BY PacketsAssumption DEF DataOut, UInv
  <1>2. Bounded(s) /\ s \in Service
    BY <1>1, ReceivedBounded DEF Bounded
  <1>3. pc' = Thread(s) /\ u' = IF pc' = "app" /\ pc # "app" THEN [s EXCEPT !.client = s.tch] ELSE s
    BY DEF DataOut
  <1>4. pc = "receive" => Handled(s)
    BY <1>1, ReceivedFree DEF Fits
  <1>5. pc # "receive" => u.wait # "IDLE" /\ u.fstate # "INTERNAL_ERROR"
    BY DEF DataOut, Listening, Fits, Held, Leaving
  <1>6. pc # "receive" => IF u.state = "SENDING_RESPONSE" THEN Goes(u, s) ELSE Polled(u, s)
    BY <1>1, <1>5, ReceivedHeld
  <1> HIDE DEF s
  <1>7. SameTurn(s, u') /\ u'.state = s.state
    BY <1>2, <1>3, ClientTurn DEF SameTurn
  <1>8. CASE pc = "receive"
    <2>1. s.thrown = FALSE /\ s.apduLen \in Nat
      BY <1>2, <1>4, <1>8, ServiceFields, Sizes DEF Handled, Free, Held, Lengths
    <2>2. CASE Free(s)
      <3>1. pc' = "receive" /\ Fits("receive", s)
        BY <1>3, <1>8, <2>1, <2>2 DEF Thread, Free, Fits
      <3> QED
        BY <1>7, <1>8, <3>1, SameFits
    <2>3. CASE Held(s, "ON") /\ s.apduLen > 0
      <3>1. pc' = "app" /\ Fits("app", s)
        BY <1>3, <1>8, <2>1, <2>3 DEF Thread, Held, Fits
      <3> QED
        BY <1>7, <1>8, <3>1, SameFits
    <2> QED
      BY <1>4, <1>8, <2>2, <2>3 DEF Handled
  <1>9. CASE pc # "receive"
    <2>1. pc \in {"app", "poll", "wait"}
      BY <1>9 DEF DataOut, Listening
    <2>2. pc' = IF s.thrown THEN "ended" ELSE pc
      BY <1>3, <1>9 DEF Thread
    <2>3. u'.ch = u.ch
      BY <1>6, <1>7, <1>9 DEF Goes, Polled, SameTurn
    <2>4. s.thrown \in BOOLEAN
      BY <1>2, ServiceFields
    <2>5. s.thrown = FALSE => Fits(pc, s)
      <3>1. CASE u.state = "SENDING_RESPONSE"
        <4>1. pc = "wait" /\ u.apduState = "U2F" /\ u.wait = "REPLY_READY"
          BY <1>5, <1>9, <2>1, <3>1 DEF Fits, Held, Leaving
        <4> QED
          BY <1>6, <1>9, <3>1, <4>1, LeavingGoes DEF Fits
      <3>2. CASE u.state # "SENDING_RESPONSE"
        BY <1>5, <1>6, <1>9, <2>1, <3>2, PolledFits
      <3> QED
        BY <3>1, <3>2
    <2>6. s.thrown = FALSE => Fits(pc, u')
      BY <1>7, <2>5, SameFits
    <2> QED
      BY <1>9, <2>2, <2>3, <2>4, <2>6
  <1> QED
    BY <1>8, <1>9

\* An acknowledgement leaves the thread where it is: a reply goes on or is over.
LEMMA DataInTurn ==
    ASSUME UInv, Fits(pc, u), DataIn
    PROVE  Fits(pc, u') /\ u'.ch = u.ch
  <1> DEFINE out == Tail(u.out)
             t == [u EXCEPT !.out = out]
  <1>1. u \in Service /\ out \in Outs
    BY OutTail, ServiceFields DEF UInv, Bounded, DataIn
  <1>2. u' = Sent(t, "USB")
    BY DEF DataIn
  <1> HIDE DEF out
  <1>3. t \in Service /\ SameTurn(u, t) /\ t.state = u.state
    BY <1>1, OutTurn DEF Service
  <1> HIDE DEF t
  <1>4. Fits(pc, t)
    BY <1>3, SameFits
  <1>5. CASE t.state \notin Sending
    <2>1. SameTurn(t, u') /\ u'.state = t.state
      BY <1>2, <1>3, <1>5, SentTurn
    <2> QED
      BY <1>3, <1>4, <2>1, SameFits DEF SameTurn
  <1>6. CASE t.state \in Sending
    <2>1. Goes(t, u')
      BY <1>2, <1>3, <1>6, SentTurn
    <2>2. u'.ch = u.ch
      BY <1>3, <2>1 DEF Goes, SameTurn
    <2>3. pc \notin {"app", "poll"}
      BY <1>4, <1>6 DEF Fits, Held, Sending
    <2>4. Fits(pc, u')
      BY <1>4, <2>1, <2>3 DEF Fits, Free, Leaving, Goes
    <2> QED
      BY <2>2, <2>4
  <1> QED
    BY <1>5, <1>6

\* The reply of the application opens the way to the host's next poll.
LEMMA AppRepliesTurn ==
    ASSUME UInv, Fits(pc, u), NEW n \in ReplyLengths, AppReplies(n)
    PROVE  pc' = "poll" /\ Fits("poll", u') /\ u'.ch = u.ch
  <1>1. PICK lost \in {u.out, IF u.out = <<>> THEN u.out ELSE Tail(u.out)} :
           IF u.apduState = "IDLE"
             THEN pc' = "ended" /\ u' = [u EXCEPT !.out = lost] /\ UNCHANGED txLen
             ELSE /\ pc' = "poll" /\ txLen' = n
                  /\ u' = AutoReply([u EXCEPT !.mem = Written(@, "app", n), !.out = lost], FALSE)
    BY DEF AppReplies
  <1>2. u \in Service /\ Held(u, "ON") /\ lost \in Outs
    BY OutTail, ServiceFields DEF UInv, Bounded, AppReplies, Fits
  <1> DEFINE mem == Written(u.mem, "app", n)
             t == [u EXCEPT !.mem = mem, !.out = lost]
  <1>3. mem \in Memory
    BY <1>2, WrittenType, ServiceFields DEF Origins
  <1>4. pc' = "poll" /\ u' = AutoReply(t, FALSE)
    BY <1>1, <1>2 DEF Held
  <1> HIDE DEF mem
  <1>5. t \in Service /\ SameTurn(u, t) /\ t.state = u.state
    BY <1>2, <1>3 DEF Service, SameTurn
  <1> HIDE DEF t
  <1>6. /\ u'.wait = "REPLY_READY" /\ u'.state = t.state /\ u'.apduState = t.apduState
        /\ u'.thrown = t.thrown /\ u'.fstate = t.fstate /\ u'.ch = t.ch
    BY <1>2, <1>4, <1>5, AutoReplyTurn DEF Held, SameTurn
  <1> QED
    BY <1>2, <1>4, <1>5, <1>6 DEF Held, SameTurn, Fits

\* The reply starts to the channel that was held.
LEMMA SendReplyTurn ==
    ASSUME UInv, proxy, Fits(pc, u), SendReply
    PROVE  Fits("wait", u') /\ u'.ch = u.ch
  <1> DEFINE t == Wrapped(u, txLen)
  <1>1. u \in Service /\ Held(u, "REPLY_READY") /\ Repliable(u)
    BY DEF UInv, Bounded, SendReply, Fits
  <1>2. u' = MessageReply(t, "MSG", "apdu", txLen + 7)
    BY DEF SendReply
  <1>3. t \in Service /\ SameTurn(u, t) /\ t.state = u.state /\ t.sending = u.sending
    <2> DEFINE mem == [k \in DOMAIN u.mem |-> IF k < 5 THEN <<"zero", 0>>
                                             ELSE IF k < txLen + 7 THEN <<"app", k - 5>> ELSE u.mem[k]]
               r == [u EXCEPT !.mem = mem]
    <2>1. DOMAIN u.mem = 0..(BufLen - 1) /\ \A k \in 0..(BufLen - 1) : u.mem[k] \in Byte
      BY <1>1, ServiceFields DEF Memory
    <2>2. mem \in Memory
      BY <2>1, Sizes DEF Memory, Byte, Origins
    <2>3. t = r
      BY DEF Wrapped
    <2> HIDE DEF mem
    <2>4. r \in Service /\ SameTurn(u, r) /\ r.state = u.state /\ r.sending = u.sending
      BY <1>1, <2>2 DEF Service, SameTurn
    <2> QED
      BY <2>3, <2>4
  <1> HIDE DEF t
  <1>4. txLen + 7 \in Nat /\ "MSG" \in Tags /\ "apdu" \in Froms
    BY RepliesAssumption, Sizes DEF UInv, SendReply, Tags, Froms
  <1>5. Repliable(t)
    BY <1>1, <1>3 DEF Repliable, SameTurn
  <1>6. Goes(t, u')
    BY <1>2, <1>3, <1>4, <1>5, MessageReplyTurn
  <1>7. Fits("wait", u')
    BY <1>1, <1>3, <1>6, LeavingGoes DEF SameTurn, Held
  <1> QED
    BY <1>3, <1>6, <1>7 DEF Goes, SameTurn

\* With the proxy, each step keeps the device in the state the thread counts on, and is a
\* step of CommandResponse or none.
LEMMA ProxyTurn ==
    ASSUME UInv, UInv', proxy, Fits(pc, u), [Next]_vars
    PROVE  /\ Fits(pc', u')
           /\ Exchanged!Next \/ UNCHANGED Exchanged!vars
  <1> DEFINE Step == Exchanged!Next \/ UNCHANGED Exchanged!vars
  <1>0. /\ proxy' = proxy
        /\ pc \in {"receive", "app", "poll", "wait", "ended"}
        /\ u'.ch \in AllChannels
    <2>1. proxy' = proxy
      BY DEF Next, DataOut, DataIn, BusReset, AppReplies, SendReply, EndReply, Expire, Restart, vars
    <2> QED
      BY <2>1, ServiceFields DEF UInv, Bounded
  <1>1. pc # "ended" /\ pc' = "ended" => Step /\ Fits(pc', u')
    BY <1>0 DEF Phase, Exchanged!Next, Exchanged!Fail, Fits
  <1>2. pc' = pc /\ (pc # "receive" => u'.ch = u.ch) => Step
    BY <1>0 DEF Phase, Exchanged!vars
  <1>3. pc = "app" /\ pc' = "poll" /\ u'.ch = u.ch => Step
    BY <1>0 DEF Phase, Exchanged!vars
  <1>4. ASSUME NEW p \in Packets, DataOut(p) PROVE Step /\ Fits(pc', u')
    <2>1. CASE pc' = "ended"
      BY <1>1, <1>4, <2>1 DEF DataOut, Listening
    <2>2. CASE pc = "receive" /\ pc' = "app"
      <3>1. Step
        BY <1>0, <2>2 DEF Phase, Exchanged!Next, Exchanged!Take
      <3> QED
        BY <1>4, <2>2, <3>1, DataOutTurn
    <2>3. CASE pc' # "ended" /\ pc' = pc /\ (pc # "receive" => u'.ch = u.ch)
      BY <1>2, <1>4, <2>3, DataOutTurn
    <2> QED
      BY <1>4, <2>1, <2>2, <2>3, DataOutTurn
  <1>5. CASE DataIn
    <2>1. pc' = pc
      BY <1>5 DEF DataIn
    <2> QED
      BY <1>2, <1>5, <2>1, DataInTurn
  <1>6. CASE BusReset
    <2>1. SameTurn(u, u') /\ u'.state = u.state
      BY <1>6, OutTurn DEF BusReset, UInv, Bounded
    <2>2. pc' = pc => Fits(pc', u')
      BY <2>1, SameFits
    <2> QED
      BY <1>1, <1>2, <1>6, <2>1, <2>2 DEF BusReset, Listening, SameTurn
  <1>7. ASSUME NEW n \in ReplyLengths, AppReplies(n) PROVE Step /\ Fits(pc', u')
    BY <1>3, <1>7, AppRepliesTurn DEF AppReplies
  <1>8. CASE SendReply
    <2>1. pc = "poll" /\ pc' = "wait"
      BY <1>8 DEF SendReply
    <2>2. Fits("wait", u') /\ u'.ch = u.ch
      BY <1>8, SendReplyTurn
    <2>3. Exchanged!Answer
      BY <1>0, <2>1, <2>2 DEF Phase, Exchanged!Answer
    <2> QED
      BY <2>1, <2>2, <2>3 DEF Exchanged!Next
  <1>9. CASE EndReply
    <2>1. pc = "wait" /\ pc' = "receive" /\ u.apduState = "IDLE"
      BY <1>9 DEF EndReply
    <2>2. Free(u)
      BY <2>1 DEF Fits, Leaving, Free
    <2>3. Fits("receive", u')
      <3>1. /\ u'.apduState = u.apduState /\ u'.wait = u.wait /\ u'.thrown = u.thrown
            /\ u'.fstate = u.fstate
        BY <1>9 DEF EndReply, UInv, Bounded, Service
      <3> QED
        BY <2>2, <3>1 DEF Fits, Free
    <2>4. Exchanged!Close
      BY <1>0, <2>1 DEF Phase, Exchanged!Close
    <2> QED
      BY <2>1, <2>3, <2>4 DEF Exchanged!Next
  <1>10. CASE Expire
    BY <1>1, <1>10 DEF Expire
  <1>11. CASE Restart
    <2>1. pc = "ended" /\ pc' = "receive"
      BY <1>11 DEF Restart
    <2>2. Exchanged!Recover
      BY <1>0, <2>1 DEF Phase, Exchanged!Recover
    <2>3. Fits("receive", u')
      <3>1. /\ u'.apduState = "IDLE" /\ u'.wait = "IDLE" /\ u'.thrown = FALSE
            /\ u'.fstate = "IDLE"
        BY <1>11 DEF Restart, ServiceInit
      <3> QED
        BY <3>1 DEF Fits, Free
    <2> QED
      BY <2>1, <2>2, <2>3 DEF Exchanged!Next
  <1>12. CASE UNCHANGED vars
    BY <1>2, <1>12 DEF vars
  <1> QED
    BY <1>4, <1>5, <1>6, <1>7, <1>8, <1>9, <1>10, <1>11, <1>12 DEF Next

\* With the proxy, the device is in the state the thread counts on.
Holding == proxy => Fits(pc, u)

\* Every step keeps that, and is a step of CommandResponse or none.
LEMMA NextExchanged ==
    UInv /\ Holding /\ [Next]_vars => (UInv /\ Holding)' /\ [Exchanged!Next]_(Exchanged!vars)
  <1> SUFFICES ASSUME UInv, Holding, [Next]_vars
               PROVE  (UInv /\ Holding)' /\ (Exchanged!Next \/ UNCHANGED Exchanged!vars)
    OBVIOUS
  <1>1. UInv'
    BY NextUInv
  <1>2. proxy \in BOOLEAN /\ proxy' = proxy
    BY DEF UInv, Next, DataOut, DataIn, BusReset, AppReplies, SendReply, EndReply, Expire, Restart, vars
  <1>3. CASE proxy
    BY <1>1, <1>2, <1>3, ProxyTurn DEF Holding
  <1>4. CASE ~proxy
    BY <1>1, <1>2, <1>4 DEF Holding, Phase, Exchanged!vars
  <1> QED
    BY <1>2, <1>3, <1>4

\* With the proxy, each channel has the exchange of CommandResponse: the channel whose
\* command was taken stays the one replied to until the answer has left or the
\* application has ended, whatever any program of the host sends on any channel.
THEOREM ImplementsChannelExchange == Spec => ChannelExchange
  <1>1. Init => Holding /\ Exchanged!Init
    BY DEF Init, ServiceInit, Holding, Fits, Free, Phase, Exchanged!Init
  <1>2. UInv /\ Holding /\ [Next]_vars => (UInv /\ Holding)' /\ [Exchanged!Next]_(Exchanged!vars)
    BY NextExchanged
  <1>3. Spec => Exchanged!Spec
    BY <1>1, <1>2, InitUInv, PTL DEF Spec, Exchanged!Spec
  <1> QED
    BY <1>3 DEF ChannelExchange

-----------------------------------------------------------------------------
(* The contents of messages and replies. *)

\* How much of a message there is after its first packet and i more.
PartAt(i) == Segment - 4 + i * (Segment - 5)

\* How much of a reply there is after i packets.
ReplyAt(i) == IF i = 0 THEN 0 ELSE Segment - 7 + (i - 1) * (Segment - 5)

\* A packet tells the truth about its bytes: what ReplyIntact asks of each.
Faithful(p) ==
    \A k \in DOMAIN p.data :
        /\ FromApp(p) =>
             p.ch = p.to /\ (InReply(p) + k > 5 => p.data[k] = <<"app", InReply(p) + k - 6>>)
        /\ p.kind = "PING" => p.data[k] = <<p.ch, InReply(p) + k + 2>>
AllFaithful(out) == \A i \in DOMAIN out : Faithful(out[i])

\* A message that is open has whole packets behind it, each byte in its place.
Assembled(s) ==
    s.state = "HANDLE_SEGMENTED" =>
        /\ s.media = "USB" /\ s.length = s.len + 3 /\ s.offset = PartAt(s.index)
        /\ \A k \in 0..(s.offset - 1) : s.mem[k] = <<s.tch, k>>

\* What a reply is made of: the bytes of the ping it answers, the mask of the proxy, the
\* reply of the application behind the five bytes of the proxy.
Echo(s) == s.from = "ping" /\ \A k \in 0..(s.length - 1) : s.mem[k + 3] = <<s.ch, k + 3>>
Mask(s) == \A k \in 0..(s.length - 1) : s.mem[k] = <<"magic", k>>
FromProxy(s) ==
    /\ s.ch = s.client
    /\ \A k \in 0..(s.length - 1) : s.mem[k] = IF k < 5 THEN <<"zero", 0>> ELSE <<"app", k - 5>>
Made(s) ==
    /\ s.sendCmd \in {"PING", "MSG", "INIT"}
    /\ s.sendCmd = "PING" => Echo(s)
    /\ s.sendCmd = "MSG" => s.from = "const" \/ (s.from = "apdu" /\ (Mask(s) \/ FromProxy(s)))

\* A reply under way has whole packets behind it, and every packet in the endpoint is true.
Answering(s) ==
    /\ s.state \in {"HANDLE_SEGMENTED", "PROCESSING_COMMAND", "SENDING_RESPONSE"} => s.media = "USB"
    /\ s.state = "SENDING_ERROR" => s.sendCmd = "ERROR"
    /\ s.state = "SENDING_RESPONSE" => Made(s) /\ s.offset = Smaller(s.length, ReplyAt(s.index))
    /\ AllFaithful(s.out)

\* Each packet adds a whole one.
LEMMA PartNext ==
    ASSUME NEW i \in Nat
    PROVE  PartAt(i) \in Nat /\ PartAt(i + 1) = PartAt(i) + (Segment - 5)
  <1>1. i * (Segment - 5) \in Nat /\ (i + 1) * (Segment - 5) = i * (Segment - 5) + (Segment - 5)
    BY Sizes
  <1> QED BY <1>1, Sizes DEF PartAt

\* Each packet of a reply adds what its header leaves room for.
LEMMA ReplyNext ==
    ASSUME NEW i \in Nat
    PROVE  /\ ReplyAt(i) \in Nat
           /\ ReplyAt(i + 1) = ReplyAt(i) + (Segment - (4 + IF i = 0 THEN 3 ELSE 1))
  <1>1. CASE i = 0
    BY <1>1, Sizes DEF ReplyAt
  <1>2. CASE i # 0
    <2>1. i - 1 \in Nat /\ (i - 1) * (Segment - 5) \in Nat
      BY <1>2, Sizes
    <2>2. (i + 1 - 1) * (Segment - 5) = (i - 1) * (Segment - 5) + (Segment - 5)
      BY Sizes
    <2> QED BY <1>2, <2>1, <2>2, Sizes DEF ReplyAt
  <1> QED BY <1>1, <1>2

\* One true packet more in the endpoint, or one less.
LEMMA AppendFaithful ==
    ASSUME NEW out \in Outs, AllFaithful(out), NEW p \in OutPacket, Faithful(p)
    PROVE  AllFaithful(Append(out, p))
  <1>1. out \in Seq(OutPacket) /\ Len(out) \in Nat
    BY DEF Outs
  <1>2. ASSUME NEW i \in DOMAIN Append(out, p) PROVE Faithful(Append(out, p)[i])
    <2>1. CASE i = Len(out) + 1
      <3>1. Append(out, p)[i] = p
        BY <1>1, <2>1
      <3> QED BY <3>1
    <2>2. CASE i # Len(out) + 1
      <3>1. i \in DOMAIN out /\ Append(out, p)[i] = out[i]
        BY <1>1, <1>2, <2>2
      <3> QED BY <3>1 DEF AllFaithful
    <2> QED BY <2>1, <2>2
  <1> QED BY <1>2 DEF AllFaithful

\* What leaves once the first packet is taken is as faithful as it was.
LEMMA TailFaithful ==
    ASSUME NEW out \in Outs, AllFaithful(out), out # <<>>
    PROVE  AllFaithful(Tail(out))
  <1>1. out \in Seq(OutPacket)
    BY DEF Outs
  <1>2. ASSUME NEW i \in DOMAIN Tail(out) PROVE Faithful(Tail(out)[i])
    <2>1. i + 1 \in DOMAIN out /\ Tail(out)[i] = out[i + 1]
      BY <1>1, <1>2
    <2> QED BY <2>1 DEF AllFaithful
  <1> QED BY <1>2 DEF AllFaithful

\* The bytes of a reply that goes on are where its next packet says.
LEMMA PacketFaithful ==
    ASSUME NEW s, Bounded(s), s.state \in Sending, Answering(s), s.offset < s.length,
           NEW n \in Nat, s.offset + n <= s.length,
           NEW cmd, cmd = IF s.index = 0 THEN s.sendCmd ELSE "CONT"
    PROVE  Faithful([ch |-> s.ch, cmd |-> cmd, kind |-> s.sendCmd, seq |-> s.index - 1, to |-> s.client,
                     data |-> [k \in 1..n |-> Source(s, s.offset + k - 1)]])
  <1> DEFINE data == [k \in 1..n |-> Source(s, s.offset + k - 1)]
             p == [ch |-> s.ch, cmd |-> cmd, kind |-> s.sendCmd, seq |-> s.index - 1, to |-> s.client,
                   data |-> data]
  <1>1. s.offset \in Nat /\ s.length \in Nat /\ s.index \in Nat
    BY ServiceFields DEF Bounded
  <1>2. /\ DOMAIN data = 1..n
        /\ \A k \in 1..n : data[k] = Source(s, s.offset + k - 1) /\ s.offset + k - 1 \in 0..(s.length - 1)
    BY <1>1
  <1>3. /\ p.ch = s.ch /\ p.to = s.client /\ p.kind = s.sendCmd /\ p.data = data
        /\ p.cmd = cmd /\ p.seq = s.index - 1
    OBVIOUS
  <1> SUFFICES Faithful(p)
    OBVIOUS
  <1>4. CASE s.state = "SENDING_ERROR"
    <2>1. p.kind = "ERROR"
      BY <1>3, <1>4 DEF Answering
    <2> HIDE DEF p
    <2> QED BY <2>1 DEF Faithful, FromApp
  <1>5. CASE s.state = "SENDING_RESPONSE"
    <2>1. Made(s) /\ s.offset = ReplyAt(s.index)
      BY <1>1, <1>5, ReplyNext DEF Answering, Smaller
    <2>2. InReply(p) = s.offset
      <3>1. CASE s.index = 0
        BY <1>3, <2>1, <3>1 DEF InReply, ReplyAt, Made
      <3>2. CASE s.index # 0
        BY <1>3, <2>1, <3>2 DEF InReply, ReplyAt
      <3> QED BY <3>1, <3>2
    <2> HIDE DEF p, data
    <2>3. CASE s.sendCmd = "PING"
      <3>1. ASSUME NEW k \in 1..n PROVE data[k] = <<p.ch, InReply(p) + k + 2>>
        <4> DEFINE j == s.offset + k - 1
        <4>1. j \in 0..(s.length - 1) /\ data[k] = Source(s, j)
          BY <1>2
        <4>2. Source(s, j) = s.mem[j + 3] /\ s.mem[j + 3] = <<s.ch, j + 3>>
          BY <2>1, <2>3, <4>1 DEF Source, Made, Echo
        <4>3. j + 3 = InReply(p) + k + 2
          BY <1>1, <2>2
        <4> QED BY <1>3, <4>1, <4>2, <4>3
      <3> QED BY <1>2, <1>3, <2>3, <3>1 DEF Faithful, FromApp
    <2>4. CASE s.sendCmd = "INIT"
      BY <1>3, <2>4 DEF Faithful, FromApp
    <2>5. CASE s.sendCmd = "MSG" /\ s.from = "const"
      <3>1. \A k \in DOMAIN p.data : p.data[k][1] = "const"
        BY <1>2, <1>3, <2>5 DEF Source
      <3> QED BY <1>3, <2>5, <3>1 DEF Faithful, FromApp
    <2>6. CASE s.sendCmd = "MSG" /\ s.from = "apdu" /\ Mask(s)
      <3>1. \A k \in DOMAIN p.data : p.data[k][1] = "magic"
        BY <1>2, <1>3, <2>6 DEF Source, Mask
      <3> QED BY <1>3, <2>6, <3>1 DEF Faithful, FromApp
    <2>7. CASE s.sendCmd = "MSG" /\ s.from = "apdu" /\ FromProxy(s)
      <3>1. ASSUME NEW k \in 1..n, InReply(p) + k > 5 PROVE data[k] = <<"app", InReply(p) + k - 6>>
        <4> DEFINE j == s.offset + k - 1
        <4>1. j \in 0..(s.length - 1) /\ data[k] = Source(s, j)
          BY <1>2
        <4>2. ~(j < 5) /\ j - 5 = InReply(p) + k - 6
          BY <1>1, <2>2, <3>1
        <4>3. Source(s, j) = s.mem[j] /\ s.mem[j] = <<"app", j - 5>>
          BY <2>7, <4>1, <4>2 DEF Source, FromProxy
        <4> QED BY <4>1, <4>2, <4>3
      <3>2. p.ch = p.to
        BY <1>3, <2>7 DEF FromProxy
      <3> QED BY <1>2, <1>3, <2>7, <3>1, <3>2 DEF Faithful
    <2> QED BY <2>1, <2>3, <2>4, <2>5, <2>6, <2>7 DEF Made
  <1> QED BY <1>4, <1>5 DEF Sending

\* A packet of a reply under way is true, and leaves whole packets behind.
LEMMA SendPacketAnswers ==
    ASSUME NEW s, Bounded(s), s.state \in Sending, Answering(s), s.offset < s.length
    PROVE  Answering(SendPacket(s, "USB"))
  <1> s \in Service /\ Extents(s)
    BY DEF Bounded
  <1> DEFINE first == s.index = 0
             header == (IF "USB" = "USB" THEN 4 ELSE 0) + (IF first THEN 3 ELSE 1)
             block == Smaller(s.length - s.offset, Segment - header)
             cmd == IF first THEN s.sendCmd ELSE "CONT"
             packet == [ch |-> s.ch, cmd |-> cmd, kind |-> s.sendCmd,
                        seq |-> s.index - 1, to |-> s.client,
                        data |-> [k \in 1..block |-> Source(s, s.offset + k - 1)]]
             at == s.offset + block
             out == Append(s.out, packet)
             t == [s EXCEPT !.offset = at, !.index = @ + 1, !.out = out]
  <1>1. s.offset \in Nat /\ s.length \in Nat /\ s.index \in Nat /\ s.out \in Outs
    BY ServiceFields
  <1>2. block \in Nat /\ block >= 1 /\ at <= s.length
    BY <1>1, Sizes DEF Smaller
  <1>3. s.state = "SENDING_RESPONSE" => at = Smaller(s.length, ReplyAt(s.index + 1))
    <2> SUFFICES ASSUME s.state = "SENDING_RESPONSE"
                 PROVE  at = Smaller(s.length, ReplyAt(s.index + 1))
      OBVIOUS
    <2>1. s.offset = ReplyAt(s.index)
      BY <1>1, ReplyNext DEF Answering, Smaller
    <2>2. ReplyAt(s.index + 1) = s.offset + (Segment - header)
      BY <1>1, <2>1, ReplyNext
    <2> QED BY <1>1, <2>2, Sizes DEF Smaller
  <1>4. s.from # "receive"
    BY DEF Extents
  <1>5. packet \in OutPacket
    <2>1. s.ch \in AllChannels /\ s.sendCmd \in Tags /\ s.client \in AllChannels
      BY ServiceFields
    <2>2. s.index - 1 \in Int
      BY <1>1
    <2>3. cmd \in Tags
      BY <2>1 DEF Tags
    <2>4. [k \in 1..block |-> Source(s, s.offset + k - 1)] \in Seq(Byte)
      BY <1>2, <1>4, Packed
    <2> QED BY <2>1, <2>2, <2>3, <2>4, PacketType
  <1>6. Faithful(packet)
    BY <1>2, PacketFaithful
  <1>7. SendPacket(s, "USB") = [s EXCEPT !.offset = @ + block, !.index = @ + 1,
                                         !.out = IF "USB" = "USB" THEN Append(@, packet) ELSE @]
    BY DEF SendPacket
  <1> HIDE DEF packet, block
  <1>8. SendPacket(s, "USB") = t
    BY <1>7
  <1>9. AllFaithful(out)
    BY <1>1, <1>5, <1>6, AppendFaithful DEF Answering
  <1> HIDE DEF at, out
  <1>10. /\ t.state = s.state /\ t.media = s.media /\ t.sendCmd = s.sendCmd /\ t.from = s.from
         /\ t.length = s.length /\ t.mem = s.mem /\ t.ch = s.ch /\ t.client = s.client
         /\ t.offset = at /\ t.index = s.index + 1 /\ t.out = out
    BY DEF Service
  <1> HIDE DEF t
  <1>11. Made(s) => Made(t)
    BY <1>10 DEF Made, Echo, Mask, FromProxy
  <1>12. Answering(t)
    BY <1>3, <1>9, <1>10, <1>11 DEF Answering
  <1> QED BY <1>8, <1>12

\* An acknowledgement brings the next packet of the reply, or its end.
LEMMA SentAnswers ==
    ASSUME NEW s, Bounded(s), Answering(s)
    PROVE  Answering(Sent(s, "USB")) /\ Sent(s, "USB").state \in {s.state, "IDLE"}
  <1> s \in Service
    BY DEF Bounded
  <1> DEFINE t == [s EXCEPT !.sending = FALSE]
             r == [Reset(t) EXCEPT !.apduState = "IDLE"]
  <1>1. t \in Service /\ Alike(s, t)
    BY DEF Service, Alike
  <1>2. /\ t.media = s.media /\ t.sendCmd = s.sendCmd /\ t.out = s.out
        /\ t.mem = s.mem /\ t.ch = s.ch /\ t.client = s.client
    BY DEF Service
  <1> HIDE DEF t
  <1>3. Bounded(t)
    BY <1>1, Elsewhere
  <1>4. Answering(t) /\ t.state = s.state
    <2>1. Made(s) => Made(t)
      BY <1>1, <1>2 DEF Made, Echo, Mask, FromProxy, Alike
    <2> QED BY <1>1, <1>2, <2>1 DEF Answering, Alike
  <1>5. Answering(r) /\ r.state = "IDLE"
    <2>1. Reset(t) \in Service /\ Reset(t).state = "IDLE" /\ Reset(t).out = t.out
      BY <1>1, Choices DEF Reset, Service
    <2>2. r.state = "IDLE" /\ r.out = t.out
      BY <2>1 DEF Service
    <2> HIDE DEF r
    <2> QED BY <1>4, <2>2 DEF Answering
  <1> HIDE DEF r
  <1>6. t.state \in Sending /\ t.offset < t.length => Answering(SendPacket(t, "USB"))
    BY <1>3, <1>4, SendPacketAnswers
  <1>7. SendPacket(t, "USB").state = s.state
    BY <1>1, <1>4, SendPacketTurn
  <1> QED BY <1>4, <1>5, <1>6, <1>7 DEF Sent, t, r

\* An error is nothing that the application said.
LEMMA ErrorAnswers ==
    ASSUME NEW s, Bounded(s), AllFaithful(s.out)
    PROVE  Answering(Error(s)) /\ Error(s).state \in {"SENDING_ERROR", "IDLE"}
  <1> DEFINE t == [s EXCEPT !.state = "SENDING_ERROR", !.index = 0, !.from = "const", !.offset = 0,
                            !.length = 1, !.sendCmd = "ERROR"]
  <1>1. Bounded(t)
    <2>1. /\ "SENDING_ERROR" \in Sending /\ "const" \in Froms /\ "const" # "receive" /\ "const" # "ping"
          /\ 1 \in Nat /\ 1 <= BufLen
      BY Sizes DEF Sending, Froms
    <2>2. "ERROR" \in Tags
      BY DEF Tags
    <2> QED BY <2>1, <2>2, StartReply
  <1>2. t.state = "SENDING_ERROR" /\ t.sendCmd = "ERROR" /\ t.out = s.out
    BY DEF Service, Bounded
  <1>3. Error(s) = Sent(t, "USB")
    BY DEF Error
  <1> HIDE DEF t
  <1>4. Answering(t)
    BY <1>2 DEF Answering
  <1> QED BY <1>1, <1>2, <1>3, <1>4, SentAnswers

\* A reply that is made of what it says goes out that way.
LEMMA MessageReplyAnswers ==
    ASSUME NEW s, Bounded(s), Answering(s), s.media = "USB", s.state # "HANDLE_SEGMENTED",
           NEW cmd \in {"PING", "MSG", "INIT"}, NEW from \in Froms, from # "receive",
           NEW n \in Nat, n <= BufLen, from = "ping" => n + 3 <= BufLen,
           cmd = "PING" => /\ from = "ping"
                           /\ \A k \in 0..(n - 1) : s.mem[k + 3] = <<s.ch, k + 3>>,
           cmd = "MSG" => \/ from = "const"
                          \/ /\ from = "apdu"
                             /\ \/ \A k \in 0..(n - 1) : s.mem[k] = <<"magic", k>>
                                \/ /\ s.ch = s.client
                                   /\ \A k \in 0..(n - 1) :
                                        s.mem[k] = IF k < 5 THEN <<"zero", 0>> ELSE <<"app", k - 5>>
    PROVE  LET t == MessageReply(s, cmd, from, n)
           IN Answering(t) /\ t.state # "HANDLE_SEGMENTED"
  <1> DEFINE t == [s EXCEPT !.state = "SENDING_RESPONSE", !.index = 0, !.from = from, !.offset = 0,
                            !.length = n, !.sendCmd = cmd]
  <1>1. Bounded(t)
    BY StartReply DEF Sending, Tags
  <1>2. /\ t.state = "SENDING_RESPONSE" /\ t.sendCmd = cmd /\ t.out = s.out /\ t.media = "USB"
        /\ t.from = from /\ t.offset = 0 /\ t.index = 0 /\ t.length = n /\ t.mem = s.mem
        /\ t.ch = s.ch /\ t.client = s.client
    BY DEF Service, Bounded
  <1>3. MessageReply(s, cmd, from, n) = IF Repliable(s) THEN Sent(t, "USB") ELSE s
    BY DEF MessageReply
  <1> HIDE DEF t
  <1>4. cmd = "PING" => Echo(t)
    BY <1>2 DEF Echo
  <1>5. cmd = "MSG" => t.from = "const" \/ (t.from = "apdu" /\ (Mask(t) \/ FromProxy(t)))
    BY <1>2 DEF Mask, FromProxy
  <1>6. Made(t)
    BY <1>2, <1>4, <1>5 DEF Made
  <1>7. t.offset = Smaller(t.length, ReplyAt(t.index))
    BY <1>2 DEF Smaller, ReplyAt
  <1>8. Answering(t)
    BY <1>2, <1>6, <1>7 DEF Answering
  <1>9. Answering(Sent(t, "USB")) /\ Sent(t, "USB").state \in {"SENDING_RESPONSE", "IDLE"}
    BY <1>1, <1>2, <1>8, SentAnswers
  <1> QED BY <1>3, <1>9

\* What neither the message nor the reply under way is disturbed by.
Still(s, t) ==
    /\ t.state = s.state /\ t.offset = s.offset /\ t.length = s.length /\ t.index = s.index
    /\ t.from = s.from /\ t.media = s.media /\ t.sendCmd = s.sendCmd /\ t.len = s.len
    /\ t.ch = s.ch /\ t.tch = s.tch /\ t.client = s.client /\ t.mem = s.mem
    /\ t.apduState = s.apduState /\ t.apduLen = s.apduLen
    /\ AllFaithful(s.out) => AllFaithful(t.out)

\* Contents that nothing disturbs stay what they are.
LEMMA StillContents ==
    ASSUME NEW s, NEW t, Still(s, t)
    PROVE  /\ Assembled(s) => Assembled(t)
           /\ Answering(s) => Answering(t)
           /\ Intact(s) => Intact(t)
  <1>1. Assembled(s) => Assembled(t)
    BY DEF Still, Assembled
  <1>2. Made(s) => Made(t)
    BY DEF Still, Made, Echo, Mask, FromProxy
  <1>3. Answering(s) => Answering(t)
    BY <1>2 DEF Still, Answering
  <1>4. Intact(s) => Intact(t)
    BY DEF Still, Intact
  <1> QED BY <1>1, <1>3, <1>4

\* A packet of its own carries no byte of a reply.
LEMMA SendAloneStill ==
    ASSUME NEW s \in Service, NEW cmd \in Tags
    PROVE  Still(s, SendAlone(s, cmd)) /\ Still(s, SendNotice(s, cmd))
  <1>1. ASSUME NEW r \in Service PROVE Still(r, SendAlone(r, cmd))
    <2> DEFINE none == <<>>
               packet == [ch |-> r.ch, cmd |-> cmd, kind |-> "alone", seq |-> -1, to |-> r.client,
                          data |-> none]
               out == Append(r.out, packet)
               t == [r EXCEPT !.out = out]
    <2>1. none \in Seq(Byte)
      OBVIOUS
    <2>2. r.ch \in AllChannels /\ r.client \in AllChannels /\ r.out \in Outs /\ -1 \in Int
      BY ServiceFields
    <2>3. "alone" \in Tags
      BY DEF Tags
    <2>4. t = SendAlone(r, cmd)
      BY DEF SendAlone
    <2> HIDE DEF none
    <2>5. packet \in OutPacket
      BY <2>1, <2>2, <2>3, PacketType
    <2>6. Faithful(packet)
      <3>1. packet.kind = "alone"
        OBVIOUS
      <3> HIDE DEF packet
      <3> QED BY <3>1 DEF Faithful, FromApp
    <2> HIDE DEF packet
    <2>7. AllFaithful(r.out) => AllFaithful(out)
      BY <2>2, <2>5, <2>6, AppendFaithful
    <2> HIDE DEF out
    <2>8. Still(r, t)
      BY <2>7 DEF Still, Service
    <2> QED BY <2>4, <2>8
  <1> DEFINE t == [s EXCEPT !.sending = TRUE]
  <1>2. t \in Service /\ Still(s, t)
    BY DEF Service, Still
  <1> HIDE DEF t
  <1>3. Still(t, SendAlone(t, cmd)) /\ SendNotice(s, cmd) = SendAlone(t, cmd)
    BY <1>1, <1>2 DEF SendNotice, t
  <1> QED BY <1>1, <1>2, <1>3 DEF Still

\* The wait for the user is told beside the reply.
LEMMA AutoReplyStill ==
    ASSUME NEW s \in Service, NEW enabled \in BOOLEAN
    PROVE  Still(s, AutoReply(s, enabled))
  <1>1. ASSUME NEW wait \in Waits
        PROVE  [s EXCEPT !.wait = wait] \in Service /\ Still(s, [s EXCEPT !.wait = wait])
    BY DEF Service, Still
  <1> DEFINE on == [s EXCEPT !.wait = "ON"]
             ready == [s EXCEPT !.wait = "REPLY_READY"]
  <1>2. on \in Service /\ Still(s, on) /\ Still(s, ready)
    BY <1>1 DEF Waits
  <1>3. AutoReply(s, enabled) \in {SendNotice(on, "PRESENCE"), ready, s}
    BY DEF AutoReply
  <1> HIDE DEF on, ready
  <1>4. Still(on, SendNotice(on, "PRESENCE"))
    BY <1>2, SendAloneStill DEF Tags
  <1>5. Still(s, s)
    BY DEF Still
  <1> QED BY <1>2, <1>3, <1>4, <1>5 DEF Still

\* A poll disturbs nothing.
LEMMA ReceiveFakeStill ==
    ASSUME NEW s, Bounded(s), s.fstate # "INTERNAL_ERROR", NEW p \in Packet
    PROVE  Still(s, ReceiveFake(s, p))
  <1> s \in Service
    BY DEF Bounded
  <1>1. Still(s, [s EXCEPT !.fstate = "INTERNAL_ERROR", !.thrown = TRUE])
    BY DEF Service, Still
  <1>2. Still(s, SendNotice(s, "WINK"))
    BY SendAloneStill DEF Tags
  <1>3. ASSUME ~FakeMismatch(s, p)
        PROVE  Bounded(FakeCopied(s, p)) /\ Still(s, FakeCopied(s, p))
    <2> DEFINE t == FakeCopied(s, p)
    <2>1. Bounded(t)
      BY <1>3, FakeCopiedBounded
    <2>2. CASE s.foffset = 0
      <3> DEFINE n == Smaller(p.size - 4, s.length) % Word
                 crc == [of |-> p.apdu, n |-> n]
      <3>1. t = [s EXCEPT !.foffset = n, !.findex = 0, !.fcrc = crc]
        BY <2>2 DEF FakeCopied
      <3> HIDE DEF n, crc
      <3> QED BY <2>1, <3>1 DEF Service, Still
    <2>3. CASE s.foffset # 0
      <3> DEFINE n == Smaller(p.size - 5, s.length - s.foffset) % Word
                 at == (s.foffset + n) % Word
                 crc == [s.fcrc EXCEPT !.n = s.fcrc.n + n]
      <3>1. t = [s EXCEPT !.foffset = at, !.findex = s.findex + 1, !.fcrc = crc]
        BY <2>3 DEF FakeCopied
      <3> HIDE DEF n, at, crc
      <3> QED BY <2>1, <3>1 DEF Service, Still
    <2> QED BY <2>1, <2>2, <2>3
  <1>4. ASSUME NEW r, Bounded(r) PROVE Still(r, FakeComplete(r))
    <2> r \in Service
      BY <1>4 DEF Bounded
    <2> DEFINE t == [r EXCEPT !.fstate = "FAKE_RECEIVED", !.foffset = 0]
               refused == [r EXCEPT !.fstate = "INTERNAL_ERROR", !.thrown = TRUE]
               notice == SendNotice(t, "PRESENCE")
    <2>1. Still(r, refused) /\ Still(r, r)
      BY DEF Service, Still
    <2>2. Bounded(t) /\ t \in Service
      BY <1>4, FakeStateBounded DEF FakeStates, Bounded
    <2>3. Still(r, t)
      BY DEF Service, Still
    <2>4. FakeComplete(r) \in {r, refused, [notice EXCEPT !.fstate = "IDLE"], t}
      BY DEF FakeComplete
    <2> HIDE DEF t, refused
    <2>5. Still(t, notice) /\ notice \in Service
      BY <2>2, SendAloneStill, SendNoticeBounded DEF Tags, Bounded
    <2> HIDE DEF notice
    <2>6. Still(notice, [notice EXCEPT !.fstate = "IDLE"])
      BY <2>5 DEF Service, Still
    <2>7. Still(r, [notice EXCEPT !.fstate = "IDLE"])
      BY <2>3, <2>5, <2>6 DEF Still
    <2> QED BY <2>1, <2>3, <2>4, <2>7
  <1>5. ~FakeMismatch(s, p) => Still(s, FakeComplete(FakeCopied(s, p)))
    BY <1>3, <1>4 DEF Still
  <1> QED BY <1>1, <1>2, <1>5 DEF ReceiveFake

\* The APDU of a message is with the application, each byte in its place.
Delivered(t) ==
    t.ch = t.tch /\ t.apduLen > 0 /\ \A k \in 0..(t.apduLen - 1) : t.mem[k] = <<t.tch, ApduAt + k>>

\* What a message or an error makes of the device: no message is open, a command that
\* has come is whole, and replies stay true.
Outcome(s, t) ==
    /\ t.state # "HANDLE_SEGMENTED"
    /\ s.apduState = "IDLE" => t.apduState = "IDLE" \/ Delivered(t)
    /\ Answering(s) => Answering(t)

\* A message that is whole, of the channel that is replied to.
Whole(s) ==
    /\ Bounded(s) /\ s.state = "PROCESSING_COMMAND" /\ s.media = "USB" /\ s.ch = s.tch
    /\ \A k \in 0..(s.len + 2) : s.mem[k] = <<s.tch, k>>

\* An acknowledgement opens no message.
LEMMA SentState ==
    ASSUME NEW s \in Service, NEW media
    PROVE  Sent(s, media).state \in {s.state, "IDLE"} /\ Sent(s, media).apduState \in {s.apduState, "IDLE"}
  <1> DEFINE t == [s EXCEPT !.sending = FALSE]
             q == Reset(t)
             r == [q EXCEPT !.apduState = "IDLE"]
  <1>1. t \in Service /\ t.state = s.state /\ t.apduState = s.apduState
    BY DEF Service
  <1> HIDE DEF t
  <1>2. SendPacket(t, media).state = s.state /\ SendPacket(t, media).apduState = s.apduState
    BY <1>1, SendPacketTurn DEF SameTurn
  <1>3. q \in Service /\ q.state = "IDLE"
    BY <1>1, Choices DEF Reset, Service
  <1> HIDE DEF q
  <1>4. r.state = "IDLE" /\ r.apduState = "IDLE"
    BY <1>3 DEF Service
  <1>5. Sent(s, media) \in {t, SendPacket(t, media), r}
    BY DEF Sent, t, r, q
  <1> HIDE DEF r
  <1> QED BY <1>1, <1>2, <1>4, <1>5

\* An error opens no message and brings no command.
LEMMA ErrorOutcome == ASSUME NEW s, Bounded(s) PROVE Outcome(s, Error(s))
  <1> s \in Service
    BY DEF Bounded
  <1> DEFINE t == [s EXCEPT !.state = "SENDING_ERROR", !.index = 0, !.from = "const", !.offset = 0,
                            !.length = 1, !.sendCmd = "ERROR"]
  <1>1. t \in Service /\ t.state = "SENDING_ERROR" /\ t.apduState = s.apduState
    <2>1. "SENDING_ERROR" \in States /\ "const" \in Froms /\ "ERROR" \in Tags
      BY DEF States, Sending, Froms, Tags
    <2> QED BY <2>1 DEF Service
  <1>2. Error(s) = Sent(t, "USB")
    BY DEF Error
  <1> HIDE DEF t
  <1>3. Error(s).state # "HANDLE_SEGMENTED" /\ Error(s).apduState \in {s.apduState, "IDLE"}
    BY <1>1, <1>2, SentState
  <1>4. Answering(s) => Answering(Error(s))
    BY ErrorAnswers DEF Answering
  <1> QED BY <1>3, <1>4 DEF Outcome

\* What a reply says is in the buffer it is sent from.
Says(s, cmd, from, n) ==
    /\ cmd \in {"PING", "MSG", "INIT"} /\ from \in Froms /\ from # "receive"
    /\ n \in Nat /\ n <= BufLen /\ (from = "ping" => n + 3 <= BufLen)
    /\ cmd = "PING" => from = "ping" /\ \A k \in 0..(n - 1) : s.mem[k + 3] = <<s.ch, k + 3>>
    /\ cmd = "MSG" => \/ from = "const"
                      \/ from = "apdu" /\ \A k \in 0..(n - 1) : s.mem[k] = <<"magic", k>>

\* A reply opens no message and brings no command.
LEMMA ReplyOutcome ==
    ASSUME NEW s, Bounded(s), s.media = "USB", s.state # "HANDLE_SEGMENTED",
           NEW cmd, NEW from, NEW n, Says(s, cmd, from, n)
    PROVE  Outcome(s, MessageReply(s, cmd, from, n))
  <1> s \in Service
    BY DEF Bounded
  <1> DEFINE t == [s EXCEPT !.state = "SENDING_RESPONSE", !.index = 0, !.from = from, !.offset = 0,
                            !.length = n, !.sendCmd = cmd]
             r == MessageReply(s, cmd, from, n)
  <1>1. t \in Service /\ t.state = "SENDING_RESPONSE" /\ t.apduState = s.apduState
    <2>1. "SENDING_RESPONSE" \in States /\ from \in Froms /\ cmd \in Tags /\ n \in Nat
      BY DEF States, Sending, Tags, Says
    <2> QED BY <2>1 DEF Service
  <1>2. r = IF Repliable(s) THEN Sent(t, s.media) ELSE s
    BY DEF MessageReply
  <1>3. Answering(s) => Answering(r)
    BY MessageReplyAnswers DEF Says
  <1> HIDE DEF t, r
  <1>4. r.state # "HANDLE_SEGMENTED" /\ r.apduState \in {s.apduState, "IDLE"}
    BY <1>1, <1>2, SentState
  <1> QED BY <1>3, <1>4 DEF Outcome, r

\* Constants that say nothing of the application.
LEMMA ConstOutcome ==
    ASSUME NEW s, Whole(s), NEW n \in Nat, n <= BufLen
    PROVE  Outcome(s, MessageReply(s, "MSG", "const", n))
  <1>1. Says(s, "MSG", "const", n)
    BY DEF Says, Froms
  <1> QED BY <1>1, ReplyOutcome DEF Whole

\* The APDU inside a message goes to the application byte by byte.
LEMMA GiveToAppOutcome ==
    ASSUME NEW s, Whole(s), NEW n \in Nat, n > 0, ApduAt \in Nat, ApduAt + n <= s.len + 3
    PROVE  LET t == GiveToApp(s, ApduAt, n)
           IN t \in Service /\ Outcome(s, t) /\ Delivered(t) /\ t.state = "PROCESSING_COMMAND"
  <1> s \in Service /\ Extents(s)
    BY DEF Bounded, Whole
  <1> DEFINE at == ApduAt
             mem == Moved(s.mem, at, n)
             t == [s EXCEPT !.mem = mem, !.apduLen = n, !.apduMedia = "U2F", !.apduState = "U2F"]
  <1>1. s.len \in Nat /\ s.len + 3 <= BufLen /\ s.mem \in Memory /\ at \in Nat /\ at + n <= s.len + 3
    BY ServiceFields, Sizes DEF Extents
  <1>2. mem \in Memory /\ n \in Lengths
    BY <1>1, MovedType, Sizes DEF Lengths
  <1>3. ASSUME NEW k \in 0..(n - 1) PROVE mem[k] = <<s.tch, at + k>>
    <2>1. k + at \in 0..(s.len + 2) /\ k \in 0..(BufLen - 1) /\ k < n /\ k + at = at + k
      BY <1>1, Sizes
    <2>2. DOMAIN s.mem = 0..(BufLen - 1)
      BY <1>1 DEF Memory
    <2>3. mem[k] = s.mem[k + at]
      BY <2>1, <2>2 DEF Moved
    <2> QED BY <2>1, <2>3 DEF Whole
  <1>4. GiveToApp(s, ApduAt, n) = t
    BY DEF GiveToApp
  <1> HIDE DEF mem
  <1>5. /\ t \in Service /\ t.apduLen = n /\ t.tch = s.tch /\ t.mem = mem /\ t.state = s.state
        /\ t.media = s.media /\ t.out = s.out /\ t.ch = s.ch
    BY <1>2 DEF Service, AppStates, AppMedias
  <1> HIDE DEF t
  <1>6. Delivered(t)
    BY <1>3, <1>5 DEF Delivered, Whole
  <1>7. Answering(s) => Answering(t)
    BY <1>5 DEF Answering, Whole
  <1> QED BY <1>4, <1>5, <1>6, <1>7 DEF Outcome, Whole

\* A buffer that holds no message any more.
LEMMA MemoryAnswers ==
    ASSUME NEW s, Whole(s), NEW mem \in Memory, NEW next \in Nat
    PROVE  LET t == [s EXCEPT !.next = next, !.mem = mem]
           IN /\ t.state = s.state /\ t.media = s.media /\ t.apduState = s.apduState /\ t.mem = mem
              /\ Answering(s) => Answering(t)
  <1> s \in Service
    BY DEF Bounded, Whole
  <1> DEFINE t == [s EXCEPT !.next = next, !.mem = mem]
  <1>1. /\ t.state = s.state /\ t.media = s.media /\ t.apduState = s.apduState /\ t.out = s.out /\ t.mem = mem
    BY DEF Service
  <1> HIDE DEF t
  <1>2. Answering(s) => Answering(t)
    BY <1>1 DEF Answering, Whole
  <1> QED BY <1>1, <1>2 DEF t

\* What is written over the start of the buffer.
LEMMA WrittenContent ==
    ASSUME NEW mem \in Memory, NEW o, NEW n \in Nat, n <= BufLen
    PROVE  \A k \in 0..(n - 1) : Written(mem, o, n)[k] = <<o, k>>
  <1>1. DOMAIN mem = 0..(BufLen - 1)
    BY DEF Memory
  <1> QED BY <1>1, Sizes DEF Written

\* u2f_apdu_sign.
LEMMA SignOutcome ==
    ASSUME proxy, NEW s, Whole(s), NEW n \in Nat, n > 0 => n + 7 <= s.len
    PROVE  Outcome(s, Sign(s, n))
  <1> s \in Service /\ Bounded(s)
    BY DEF Bounded, Whole
  <1>1. Outcome(s, MessageReply(s, "MSG", "const", 2))
    BY ConstOutcome, Sizes
  <1>2. Outcome(s, MessageReply([s EXCEPT !.mem = Written(@, "magic", 8)], "MSG", "apdu", 8))
    <2> DEFINE mem == Written(s.mem, "magic", 8)
               t == [s EXCEPT !.mem = mem]
               same == [s EXCEPT !.next = s.next, !.mem = mem]
    <2>1. s.mem \in Memory /\ s.next \in Nat
      BY ServiceFields
    <2>2. mem \in Memory
      BY <2>1, WrittenType DEF Origins
    <2>3. \A k \in 0..7 : mem[k] = <<"magic", k>>
      BY <2>1, WrittenContent, Sizes
    <2> HIDE DEF mem
    <2>4. t = same
      BY DEF Service
    <2>5. /\ same.state = s.state /\ same.media = s.media /\ same.apduState = s.apduState /\ same.mem = mem
          /\ Answering(s) => Answering(same)
      BY <2>1, <2>2, MemoryAnswers
    <2>6. Bounded(t)
      BY <2>2, MemoryBounded
    <2> HIDE DEF t, same
    <2>7. Says(t, "MSG", "apdu", 8)
      BY <2>3, <2>4, <2>5, Sizes DEF Says, Froms
    <2>8. Outcome(t, MessageReply(t, "MSG", "apdu", 8))
      BY <2>4, <2>5, <2>6, <2>7, ReplyOutcome DEF Whole
    <2>9. Outcome(s, MessageReply(t, "MSG", "apdu", 8))
      BY <2>4, <2>5, <2>8 DEF Outcome
    <2> QED BY <2>9 DEF t, mem
  <1>3. n >= SignHeader + 5 => Outcome(s, AutoReply(GiveToApp(s, 10 + SignHeader, n - SignHeader), TRUE))
    <2> SUFFICES ASSUME n >= SignHeader + 5
                 PROVE  Outcome(s, AutoReply(GiveToApp(s, 10 + SignHeader, n - SignHeader), TRUE))
      OBVIOUS
    <2> DEFINE m == n - SignHeader
               t == GiveToApp(s, 10 + SignHeader, m)
    <2>1. ApduAt = 10 + SignHeader /\ ApduAt \in Nat
      BY Sizes DEF ApduAt
    <2>2. m \in Nat /\ m > 0 /\ ApduAt + m <= s.len + 3
      BY <2>1, Sizes, ServiceFields
    <2> HIDE DEF m
    <2>3. t \in Service /\ Outcome(s, t) /\ Delivered(t) /\ t.state = "PROCESSING_COMMAND"
      BY <2>1, <2>2, GiveToAppOutcome
    <2> HIDE DEF t
    <2>4. Still(t, AutoReply(t, TRUE))
      BY <2>3, AutoReplyStill
    <2>5. Delivered(AutoReply(t, TRUE))
      BY <2>3, <2>4 DEF Still, Delivered
    <2>6. Outcome(s, AutoReply(t, TRUE))
      BY <2>3, <2>4, <2>5, StillContents DEF Outcome, Still
    <2> QED BY <2>6 DEF t, m
  <1>4. n < SignHeader + 5 \/ n >= SignHeader + 5
    BY Sizes
  <1> QED BY <1>1, <1>2, <1>3, <1>4 DEF Sign

\* u2f_handle_cmd_msg.
LEMMA CmdMsgOutcome ==
    ASSUME proxy \in BOOLEAN, NEW s, Whole(s)
    PROVE  Outcome(s, CmdMsg(s))
  <1> s \in Service /\ Extents(s)
    BY DEF Bounded, Whole
  <1> DEFINE n == DataLength(s.apdu, s.len)
  <1>0. s.apdu \in Apdu /\ s.len \in Nat /\ s.len + 3 <= BufLen
    BY ServiceFields, Sizes DEF Extents
  <1>1. (n = -1 \/ n \in Nat) /\ (n > 0 => n + 7 <= s.len)
    BY <1>0, DataLengthBound, DataLengthRoom
  <1>2. ~(n < 0) => s.len > 0
    BY <1>0 DEF DataLength
  <1> HIDE DEF n
  <1>3. /\ Outcome(s, MessageReply(s, "MSG", "const", 2)) /\ Outcome(s, MessageReply(s, "MSG", "const", 8))
        /\ Outcome(s, MessageReply(s, "MSG", "const", 4))
    BY ConstOutcome, Sizes
  <1>4. ~(n < 0) /\ proxy => Outcome(s, Sign(s, n))
    BY <1>1, SignOutcome
  <1>5. ~(n < 0) /\ ~proxy => Outcome(s, GiveToApp(s, 3, s.len))
    <2> SUFFICES ASSUME ~(n < 0), ~proxy PROVE Outcome(s, GiveToApp(s, 3, s.len))
      OBVIOUS
    <2>1. ApduAt = 3
      BY DEF ApduAt
    <2>2. ApduAt \in Nat /\ ApduAt + s.len <= s.len + 3 /\ s.len > 0
      BY <1>0, <1>2, <2>1
    <2> QED BY <1>0, <2>1, <2>2, GiveToAppOutcome
  <1>6. s.apdu.ins \in SignInstructions \cup {"ENROLL", "VERSION", "INFO", "CLASS", "INSTRUCTION"}
    BY <1>0 DEF Apdu
  <1> QED BY <1>3, <1>4, <1>5, <1>6 DEF CmdMsg, n, SignInstructions

\* u2f_handle_cmd_init.
LEMMA CmdInitOutcome ==
    ASSUME NEW s, Whole(s), s.ch = Broadcast => s.next <= Allocations
    PROVE  Outcome(s, CmdInit(s))
  <1> s \in Service /\ Extents(s) /\ Allocated(s) /\ Bounded(s)
    BY DEF Bounded, Whole
  <1> DEFINE mem == Written(s.mem, "init", 17)
             next == IF s.ch = Broadcast THEN s.next + 1 ELSE s.next
             t == [s EXCEPT !.next = next, !.mem = mem]
  <1>1. s.mem \in Memory /\ s.next \in Nat
    BY ServiceFields
  <1>2. mem \in Memory
    BY <1>1, WrittenType DEF Origins
  <1>3. next \in Nat /\ next >= 1 /\ next <= Allocations + 1
    BY <1>1, Sizes DEF Allocated
  <1>4. CmdInit(s) = MessageReply(t, "INIT", "apdu", 17)
    BY DEF CmdInit
  <1> HIDE DEF mem, next
  <1>5. /\ t.state = s.state /\ t.media = s.media /\ t.apduState = s.apduState
        /\ Answering(s) => Answering(t)
    BY <1>2, <1>3, MemoryAnswers, ZenonT(60)
  <1>6. /\ t \in Service /\ t.next = next
        /\ t.offset = s.offset /\ t.index = s.index /\ t.from = s.from
        /\ t.length = s.length /\ t.len = s.len /\ t.cmd = s.cmd /\ t.tch = s.tch
    BY <1>2, <1>3 DEF Service
  <1> HIDE DEF t
  <1>7. Bounded(t)
    BY <1>3, <1>5, <1>6 DEF Bounded, Extents, Allocated, Whole
  <1>8. Says(t, "INIT", "apdu", 17)
    BY Sizes DEF Says, Froms
  <1>9. Outcome(t, MessageReply(t, "INIT", "apdu", 17))
    BY <1>5, <1>7, <1>8, ReplyOutcome DEF Whole
  <1> QED BY <1>4, <1>5, <1>9 DEF Outcome

\* u2f_message_complete.
LEMMA MessageCompleteOutcome ==
    ASSUME proxy \in BOOLEAN, NEW s, Whole(s), s.cmd \in Complete,
           s.cmd = "INIT" /\ s.ch = Broadcast => s.next <= Allocations
    PROVE  Outcome(s, MessageComplete(s))
  <1> s \in Service /\ Extents(s) /\ Bounded(s)
    BY DEF Bounded, Whole
  <1>1. CASE s.cmd = "INIT"
    BY <1>1, CmdInitOutcome DEF MessageComplete
  <1>2. CASE s.cmd = "PING"
    <2>1. s.len \in Nat /\ s.len <= BufLen /\ s.len + 3 <= BufLen
      BY ServiceFields, Sizes DEF Extents
    <2>2. \A k \in 0..(s.len - 1) : s.mem[k + 3] = <<s.ch, k + 3>>
      <3>1. \A k \in 0..(s.len - 1) : k + 3 \in 0..(s.len + 2)
        BY <2>1
      <3> QED BY <3>1 DEF Whole
    <2>3. Says(s, "PING", "ping", s.len)
      BY <2>1, <2>2 DEF Says, Froms
    <2>4. Outcome(s, MessageReply(s, "PING", "ping", s.len))
      BY <2>3, ReplyOutcome DEF Whole
    <2> QED BY <1>2, <2>4 DEF MessageComplete
  <1>3. CASE s.cmd = "MSG"
    BY <1>3, CmdMsgOutcome DEF MessageComplete
  <1> QED BY <1>1, <1>2, <1>3 DEF Complete

\* A message that has been opened or continued, each byte in its place.
Gathered(s) ==
    /\ s.media = "USB" /\ s.length = s.len + 3
    /\ s.offset < s.length => s.offset = PartAt(s.index)
    /\ \A k \in 0..(s.offset - 1) : s.mem[k] = <<s.tch, k>>

\* What a packet makes of the device: a message that is open is sound, a command that
\* has come is whole, and replies stay true.
Progress(s, t) ==
    /\ Assembled(t)
    /\ s.apduState = "IDLE" => t.apduState = "IDLE" \/ Delivered(t)
    /\ Answering(s) => Answering(t)

\* An outcome is progress, and so is what disturbs nothing.
LEMMA OutcomeProgress == ASSUME NEW s, NEW t, Outcome(s, t) PROVE Progress(s, t)
  BY DEF Outcome, Progress, Assembled

\* A step that leaves the message and what leaves for it keeps the message assembled.
LEMMA StillProgress == ASSUME NEW s, NEW t, Assembled(s), Still(s, t) PROVE Progress(s, t)
  BY StillContents DEF Progress, Still

\* A message that is not whole stays open, one that is whole is handled.
LEMMA AdvanceProgress ==
    ASSUME proxy \in BOOLEAN, NEW s, Underway(s), Gathered(s)
    PROVE  Progress(s, Advance(s))
  <1> s \in Service
    BY DEF Underway
  <1>1. s.offset \in Nat /\ s.length \in Nat /\ s.len \in Nat /\ s.offset <= s.length
    BY ServiceFields DEF Underway
  <1>2. ASSUME NEW state \in {"HANDLE_SEGMENTED", "PROCESSING_COMMAND"}
        PROVE  LET t == [s EXCEPT !.state = state]
               IN /\ t \in Service /\ t.state = state /\ t.apduState = s.apduState
                  /\ t.offset = s.offset /\ t.index = s.index /\ t.from = s.from /\ t.ch = s.ch
                  /\ t.length = s.length /\ t.len = s.len /\ t.next = s.next /\ t.cmd = s.cmd
                  /\ t.tch = s.tch /\ t.mem = s.mem /\ t.media = s.media
                  /\ Answering(s) => Answering(t)
    <2> DEFINE t == [s EXCEPT !.state = state]
    <2>1. /\ t \in Service /\ t.state = state /\ t.apduState = s.apduState
          /\ t.offset = s.offset /\ t.index = s.index /\ t.from = s.from /\ t.ch = s.ch
          /\ t.length = s.length /\ t.len = s.len /\ t.next = s.next /\ t.cmd = s.cmd
          /\ t.tch = s.tch /\ t.mem = s.mem /\ t.media = s.media /\ t.out = s.out
      BY <1>2 DEF Service, States
    <2> HIDE DEF t
    <2>2. Answering(s) => Answering(t)
      BY <1>2, <2>1 DEF Answering, Gathered
    <2> QED BY <2>1, <2>2 DEF t
  <1>3. CASE s.offset < s.length
    <2> DEFINE t == [s EXCEPT !.state = "HANDLE_SEGMENTED"]
    <2>1. Advance(s) = t
      BY <1>1, <1>3 DEF Advance
    <2>2. /\ t.apduState = s.apduState /\ t.offset = s.offset /\ t.index = s.index
          /\ t.length = s.length /\ t.len = s.len /\ t.tch = s.tch /\ t.mem = s.mem
          /\ t.media = s.media /\ (Answering(s) => Answering(t))
      BY <1>2
    <2> HIDE DEF t
    <2>3. Assembled(t)
      BY <1>3, <2>2 DEF Assembled, Gathered
    <2> QED BY <2>1, <2>2, <2>3 DEF Progress
  <1>4. CASE ~(s.offset < s.length)
    <2> DEFINE t == [s EXCEPT !.state = "PROCESSING_COMMAND"]
    <2>1. Advance(s) = MessageComplete(t)
      BY <1>1, <1>4 DEF Advance
    <2>2. /\ t \in Service /\ t.state = "PROCESSING_COMMAND" /\ t.apduState = s.apduState
          /\ t.offset = s.offset /\ t.index = s.index /\ t.from = s.from /\ t.ch = s.ch
          /\ t.length = s.length /\ t.len = s.len /\ t.next = s.next /\ t.cmd = s.cmd
          /\ t.tch = s.tch /\ t.mem = s.mem /\ t.media = s.media
          /\ Answering(s) => Answering(t)
      BY <1>2
    <2> HIDE DEF t
    <2>3. Bounded(t)
      BY <2>2 DEF Bounded, Extents, Allocated, Underway, Sending
    <2>4. s.offset = s.len + 3 /\ s.offset - 1 = s.len + 2
      BY <1>1, <1>4 DEF Gathered
    <2>5. Whole(t)
      BY <2>2, <2>3, <2>4 DEF Whole, Gathered, Underway
    <2>6. Outcome(t, MessageComplete(t))
      BY <2>2, <2>5, MessageCompleteOutcome DEF Underway
    <2>7. Outcome(s, MessageComplete(t))
      BY <2>2, <2>6 DEF Outcome
    <2> QED BY <2>1, <2>7, OutcomeProgress
  <1> QED BY <1>3, <1>4

\* The bytes of a packet go where the packet says they belong.
LEMMA CopiedContent ==
    ASSUME NEW s \in Service, NEW p \in Packet, NEW n \in Nat, s.offset + n <= BufLen,
           InMessage(p) = s.offset, \A k \in 0..(s.offset - 1) : s.mem[k] = <<p.ch, k>>
    PROVE  LET t == Copied(s, p, n)
           IN /\ \A k \in 0..(s.offset + n - 1) : t.mem[k] = <<p.ch, k>>
              /\ t.media = s.media /\ t.out = s.out /\ t.sendCmd = s.sendCmd
  <1> DEFINE mem == [k \in DOMAIN s.mem |-> IF k \in s.offset..(s.offset + n - 1)
                                            THEN <<p.ch, InMessage(p) + k - s.offset>> ELSE s.mem[k]]
             at == s.offset + n
             t == [s EXCEPT !.offset = at, !.mem = mem]
  <1>1. s.offset \in Nat /\ DOMAIN s.mem = 0..(BufLen - 1)
    BY ServiceFields DEF Memory
  <1>2. ASSUME NEW k \in 0..(s.offset + n - 1) PROVE mem[k] = <<p.ch, k>>
    <2>1. k \in DOMAIN s.mem
      BY <1>1, Sizes
    <2>2. CASE k \in s.offset..(s.offset + n - 1)
      <3>1. InMessage(p) + k - s.offset = k
        BY <1>1
      <3> QED BY <2>1, <2>2, <3>1
    <2>3. CASE k \notin s.offset..(s.offset + n - 1)
      <3>1. k \in 0..(s.offset - 1)
        BY <1>1, <2>3
      <3> QED BY <2>1, <2>3, <3>1
    <2> QED BY <2>2, <2>3
  <1>3. Copied(s, p, n) = t
    BY DEF Copied
  <1> HIDE DEF mem, at
  <1>4. t.mem = mem /\ t.media = s.media /\ t.out = s.out /\ t.sendCmd = s.sendCmd
    BY DEF Service
  <1> HIDE DEF t
  <1> QED BY <1>2, <1>3, <1>4

\* A first packet that is full, or holds all of its message, leaves a message well begun.
LEMMA OpenedGathered ==
    ASSUME NEW s, Bounded(s), s.state \notin Sending, NEW p \in Packet, s.ch = p.ch,
           p.size >= 7, p.cmd # "CONT", ~Refused(s, p), Framed(p)
    PROVE  LET t == Opening(s, p)
           IN Gathered(t) /\ t.apduState = s.apduState /\ (Answering(s) => Answering(t))
  <1> s \in Service /\ Extents(s) /\ Allocated(s)
    BY DEF Bounded
  <1> DEFINE n == Smaller(p.size - 4, p.len + 3)
             crc == [of |-> p.apdu, n |-> n]
             t == [s EXCEPT !.offset = 0, !.length = p.len + 3, !.media = "USB", !.index = 0,
                            !.tch = s.ch, !.crc = crc, !.cmd = p.cmd, !.len = p.len, !.apdu = p.apdu]
             r == Copied(t, p, n)
  <1>0. Opening(s, p) = r
    BY DEF Opening
  <1>1. p.len \in Nat /\ p.len <= BufLen - 3 /\ p.size \in Nat /\ p.size <= Segment
    BY PacketFields, Sizes DEF Refused, Words
  <1>2. p.cmd \in Commands
    BY PacketFields
  <1>3. n \in Nat /\ n <= p.len + 3 /\ n <= BufLen /\ (n < p.len + 3 => n = Segment - 4)
    BY <1>1, Sizes DEF Smaller, Framed
  <1>4. p.apdu \in Apdu /\ s.ch \in AllChannels
    BY PacketFields, ServiceFields
  <1> HIDE DEF n
  <1>5. crc \in Crc
    BY <1>3, <1>4 DEF Crc
  <1>6. p.len + 3 \in Nat /\ "USB" \in Medias
    BY <1>1 DEF Medias
  <1> HIDE DEF crc
  <1>7. t \in Service
    BY <1>1, <1>2, <1>4, <1>5, <1>6 DEF Service
  <1>8. /\ t.offset = 0 /\ t.index = 0 /\ t.ch = s.ch /\ t.tch = s.ch /\ t.state = s.state
        /\ t.length = p.len + 3 /\ t.len = p.len /\ t.media = "USB" /\ t.out = s.out
        /\ t.apduState = s.apduState
    BY DEF Service
  <1> HIDE DEF t
  <1>9. /\ r \in Service /\ r.offset = t.offset + n /\ SameTurn(t, r)
        /\ r.index = t.index /\ r.length = t.length /\ r.state = t.state
        /\ r.len = t.len /\ r.tch = t.tch
    BY <1>3, <1>7, CopiedService
  <1>10. InMessage(p) = t.offset
    BY <1>8 DEF InMessage
  <1>11. /\ \A k \in 0..(t.offset + n - 1) : r.mem[k] = <<p.ch, k>>
         /\ r.media = t.media /\ r.out = t.out
    <2>1. t.offset + n <= BufLen /\ \A k \in 0..(t.offset - 1) : t.mem[k] = <<p.ch, k>>
      BY <1>3, <1>8
    <2> QED BY <1>3, <1>7, <1>10, <2>1, CopiedContent
  <1> HIDE DEF r
  <1>12. r.offset < r.length => r.offset = PartAt(r.index)
    BY <1>1, <1>3, <1>8, <1>9, Sizes DEF PartAt
  <1>13. Gathered(r)
    <2>1. r.media = "USB" /\ r.length = r.len + 3
      BY <1>8, <1>9, <1>11
    <2>2. r.offset - 1 = t.offset + n - 1 /\ r.tch = p.ch
      BY <1>3, <1>8, <1>9
    <2>3. \A k \in 0..(r.offset - 1) : r.mem[k] = <<r.tch, k>>
      BY <1>11, <2>2
    <2> QED BY <1>12, <2>1, <2>3 DEF Gathered
  <1>14. Answering(s) => Answering(r)
    BY <1>8, <1>9, <1>11 DEF Answering, Sending
  <1> QED BY <1>0, <1>8, <1>9, <1>13, <1>14 DEF SameTurn

\* So does a packet that follows.
LEMMA ContinuedGathered ==
    ASSUME NEW s, Bounded(s), Assembled(s), NEW p \in Packet, s.ch = p.ch, ~Opens(s, p),
           p.size >= 6, s.state = "HANDLE_SEGMENTED", p.cmd = "CONT", p.seq = s.index, Framed(p)
    PROVE  LET t == Continuing(s, p)
           IN Gathered(t) /\ t.apduState = s.apduState /\ (Answering(s) => Answering(t))
  <1> s \in Service /\ Extents(s) /\ Allocated(s)
    BY DEF Bounded
  <1> DEFINE n == Smaller(p.size - 5, s.length - s.offset)
             c == Copied(s, p, n)
             crc == [c.crc EXCEPT !.n = c.crc.n + n]
             i == c.index + 1
             r == [c EXCEPT !.index = i, !.crc = crc]
  <1>0. Continuing(s, p) = r
    BY DEF Continuing
  <1>1. /\ s.offset \in Nat /\ s.length \in Nat /\ s.index \in Nat /\ s.offset < s.length
        /\ s.length <= BufLen /\ p.size = Segment
    BY ServiceFields, PacketFields DEF Extents, Framed
  <1>2. n \in Nat /\ s.offset + n <= BufLen /\ s.offset + n <= s.length
        /\ (s.offset + n < s.length => n = Segment - 5)
    BY <1>1, Sizes DEF Smaller
  <1> HIDE DEF n
  <1>3. s.tch = p.ch /\ s.offset = PartAt(s.index) /\ InMessage(p) = s.offset
        /\ s.media = "USB" /\ s.length = s.len + 3
        /\ \A k \in 0..(s.offset - 1) : s.mem[k] = <<p.ch, k>>
    <2>1. s.ch = s.tch
      BY DEF Opens
    <2> QED BY <2>1 DEF Assembled, InMessage, PartAt
  <1>4. /\ c \in Service /\ c.offset = s.offset + n /\ SameTurn(s, c) /\ c.state = s.state
        /\ c.index = s.index /\ c.length = s.length /\ c.len = s.len /\ c.tch = s.tch
    BY <1>2, CopiedService
  <1>5. /\ \A k \in 0..(s.offset + n - 1) : c.mem[k] = <<p.ch, k>>
        /\ c.media = s.media /\ c.out = s.out
    BY <1>2, <1>3, CopiedContent
  <1> HIDE DEF c
  <1>6. i = s.index + 1
    BY <1>4
  <1> HIDE DEF i, crc
  <1>7. /\ r.offset = c.offset /\ r.index = i /\ r.length = c.length /\ r.len = c.len /\ r.tch = c.tch
        /\ r.state = c.state /\ r.mem = c.mem /\ r.media = c.media /\ r.out = c.out
        /\ r.apduState = c.apduState
    BY <1>4 DEF Service
  <1> HIDE DEF r
  <1>8. r.offset < r.length => r.offset = PartAt(r.index)
    <2>1. PartAt(s.index + 1) = PartAt(s.index) + (Segment - 5)
      BY <1>1, PartNext
    <2> QED BY <1>1, <1>2, <1>3, <1>4, <1>6, <1>7, <2>1
  <1>9. Gathered(r)
    <2>1. r.media = "USB" /\ r.length = r.len + 3
      BY <1>3, <1>4, <1>5, <1>7
    <2>2. r.offset - 1 = s.offset + n - 1 /\ r.tch = p.ch
      BY <1>1, <1>2, <1>3, <1>4, <1>7
    <2>3. \A k \in 0..(r.offset - 1) : r.mem[k] = <<r.tch, k>>
      BY <1>5, <1>7, <2>2
    <2> QED BY <1>8, <2>1, <2>3 DEF Gathered
  <1>10. Answering(s) => Answering(r)
    BY <1>4, <1>5, <1>7 DEF Answering
  <1> QED BY <1>0, <1>4, <1>5, <1>7, <1>9, <1>10 DEF SameTurn

\* A first packet, in any state that is not sending.
LEMMA FirstPacketProgress ==
    ASSUME proxy \in BOOLEAN, NEW s, Bounded(s), s.state \notin Sending, Assembled(s),
           NEW p \in Packet, s.ch = p.ch, Framed(p),
           p.cmd = "INIT" /\ p.ch = Broadcast => s.next <= Allocations
    PROVE  Progress(s, FirstPacket(s, p))
  <1>1. Progress(s, Error(s))
    BY ErrorOutcome, OutcomeProgress
  <1>2. Progress(s, SendAlone(s, "BUSY")) /\ Progress(s, s)
    <2>1. Still(s, SendAlone(s, "BUSY")) /\ Still(s, s)
      BY SendAloneStill DEF Bounded, Tags, Still
    <2> QED BY <2>1, StillProgress
  <1>3. ASSUME p.size >= 7, p.cmd # "CONT", ~Refused(s, p)
        PROVE  Progress(s, Advance(Opening(s, p)))
    <2> DEFINE t == Opening(s, p)
    <2>1. Underway(t)
      BY <1>3, Opened
    <2>2. Gathered(t) /\ t.apduState = s.apduState /\ (Answering(s) => Answering(t))
      BY <1>3, OpenedGathered
    <2> HIDE DEF t
    <2>3. Progress(t, Advance(t))
      BY <2>1, <2>2, AdvanceProgress
    <2> QED BY <2>2, <2>3 DEF Progress, t
  <1>4. p.size < 7 \/ p.size >= 7
    BY PacketFields
  <1> QED BY <1>1, <1>2, <1>3, <1>4 DEF FirstPacket, Opening

\* A packet that follows, in any state.
LEMMA NextPacketProgress ==
    ASSUME proxy \in BOOLEAN, NEW s, Bounded(s), Assembled(s), NEW p \in Packet, s.ch = p.ch,
           Framed(p), ~Opens(s, p)
    PROVE  Progress(s, NextPacket(s, p))
  <1>1. Progress(s, Error(s))
    BY ErrorOutcome, OutcomeProgress
  <1>2. Progress(s, Reset(s))
    <2>1. /\ Reset(s).state = "IDLE" /\ Reset(s).apduState = s.apduState /\ Reset(s).out = s.out
      BY DEF Reset, Service, Bounded
    <2> QED BY <2>1 DEF Progress, Assembled, Answering
  <1>3. ASSUME p.size >= 6, s.state = "HANDLE_SEGMENTED", p.cmd = "CONT", p.seq = s.index
        PROVE  Progress(s, Advance(Continuing(s, p)))
    <2> DEFINE t == Continuing(s, p)
    <2>1. Underway(t)
      BY <1>3, Continued
    <2>2. Gathered(t) /\ t.apduState = s.apduState /\ (Answering(s) => Answering(t))
      BY <1>3, ContinuedGathered
    <2> HIDE DEF t
    <2>3. Progress(t, Advance(t))
      BY <2>1, <2>2, AdvanceProgress
    <2> QED BY <2>2, <2>3 DEF Progress, t
  <1>4. p.size < 6 \/ p.size >= 6
    BY PacketFields
  <1> QED BY <1>1, <1>2, <1>3, <1>4 DEF NextPacket, Continuing

\* Any packet, in any state of the transport.
LEMMA ReceivedProgress ==
    ASSUME proxy \in BOOLEAN, NEW s, Bounded(s), Assembled(s), NEW p \in Packet, Framed(p),
           p.cmd = "INIT" /\ p.ch = Broadcast => s.next <= Allocations
    PROVE  Progress(s, Received(s, p))
  <1> s \in Service
    BY DEF Bounded
  <1> DEFINE t == IF s.state = "SENDING_ERROR" THEN Reset(s) ELSE s
             r == [t EXCEPT !.ch = p.ch]
  <1>1. Progress(s, Error(s))
    BY ErrorOutcome, OutcomeProgress
  <1>2. Progress(s, ReceiveFake(s, p))
    <2>1. CASE s.fstate = "INTERNAL_ERROR"
      BY <1>1, <2>1 DEF ReceiveFake
    <2>2. CASE s.fstate # "INTERNAL_ERROR"
      BY <2>2, ReceiveFakeStill, StillProgress
    <2> QED BY <2>1, <2>2
  <1>3. /\ Bounded(t) /\ (s.state # "SENDING_RESPONSE" => t.state \notin Sending) /\ t.next = s.next
    BY ResetBounded DEF Sending
  <1>4. Assembled(t) /\ t.apduState = s.apduState /\ (Answering(s) => Answering(t))
    <2>1. /\ Reset(s).state = "IDLE" /\ Reset(s).apduState = s.apduState /\ Reset(s).out = s.out
      BY DEF Reset, Service
    <2> QED BY <2>1 DEF Assembled, Answering
  <1> t \in Service
    BY <1>3 DEF Bounded
  <1> HIDE DEF t
  <1>5. /\ r \in Service /\ r.ch = p.ch
        /\ r.offset = t.offset /\ r.index = t.index /\ r.state = t.state /\ r.from = t.from
        /\ r.length = t.length /\ r.len = t.len /\ r.next = t.next /\ r.cmd = t.cmd /\ r.tch = t.tch
        /\ r.media = t.media /\ r.mem = t.mem /\ r.out = t.out /\ r.apduState = t.apduState
        /\ r.sendCmd = t.sendCmd
    <2>1. p.ch \in AllChannels
      BY PacketFields
    <2> QED BY <2>1 DEF Service
  <1> HIDE DEF r
  <1>6. Bounded(r)
    BY <1>3, <1>5, Elsewhere DEF Alike
  <1>7. Assembled(r) /\ (s.state # "SENDING_RESPONSE" /\ Answering(t) => Answering(r))
    <2>1. Assembled(r)
      BY <1>4, <1>5 DEF Assembled
    <2> QED BY <1>3, <1>5, <2>1 DEF Answering, Sending
  <1>8. Progress(t, Error(t))
    BY <1>3, ErrorOutcome, OutcomeProgress
  <1>9. s.state # "SENDING_RESPONSE" => Progress(r, FirstPacket(r, p))
    BY <1>3, <1>5, <1>6, <1>7, FirstPacketProgress
  <1>10. ~Opens(r, p) => Progress(r, NextPacket(r, p))
    BY <1>5, <1>6, <1>7, NextPacketProgress
  <1>11. Progress(s, Error(t))
    BY <1>4, <1>8 DEF Progress
  <1>12. ASSUME s.state # "SENDING_RESPONSE", NEW q, Progress(r, q) PROVE Progress(s, q)
    BY <1>4, <1>5, <1>7, <1>12 DEF Progress
  <1>13. s.state # "SENDING_RESPONSE" => Progress(s, FirstPacket(r, p))
    BY <1>9, <1>12
  <1>14. s.state # "SENDING_RESPONSE" /\ ~Opens(r, p) => Progress(s, NextPacket(r, p))
    BY <1>10, <1>12
  <1> QED BY <1>1, <1>2, <1>11, <1>13, <1>14 DEF Received, r, t

\* The invariant of the contents: nothing is held while the thread receives; an open message
\* is sound until the reply is written over it; with the proxy, what goes out is true,
\* and the command the application works on is the whole one of the channel replied to.
Contents ==
    /\ pc = "receive" => u.apduState = "IDLE"
    /\ pc \notin {"poll", "ended"} => Assembled(u)
    /\ proxy => Answering(u)
    /\ proxy /\ pc = "app" => Intact(u)
    /\ proxy /\ pc \in {"app", "poll"} => u.client = u.ch

\* A packet brings a whole command or none, and disturbs no command that is held.
LEMMA DataOutContents ==
    ASSUME UInv, Holding, Holding', Contents, NEW p \in Packets, Framed(p), DataOut(p)
    PROVE  Contents' /\ (pc = "receive" /\ pc' = "app" => Intact(u'))
  <1> DEFINE s == Received(u, p)
  <1>1. /\ Bounded(u) /\ p \in Packet /\ (p.cmd = "INIT" /\ p.ch = Broadcast => u.next <= Allocations)
        /\ proxy \in BOOLEAN /\ pc \in {"receive", "app", "poll", "wait"}
    BY PacketsAssumption DEF DataOut, UInv, Listening
  <1>2. Bounded(s) /\ s \in Service
    BY <1>1, ReceivedBounded DEF Bounded
  <1>3. /\ pc' = Thread(s) /\ proxy' = proxy
        /\ u' = IF pc' = "app" /\ pc # "app" THEN [s EXCEPT !.client = s.tch] ELSE s
    BY DEF DataOut
  <1>4. proxy /\ pc \in {"app", "poll"} => Still(u, s)
    <2> SUFFICES ASSUME proxy, pc \in {"app", "poll"} PROVE Still(u, s)
      OBVIOUS
    <2>1. u.wait # "IDLE" /\ u.fstate # "INTERNAL_ERROR" /\ u.state = "PROCESSING_COMMAND"
      BY DEF Holding, Fits, Held
    <2>2. s = ReceiveFake(u, p)
      BY <2>1 DEF Received, Gated
    <2> QED BY <1>1, <2>1, <2>2, ReceiveFakeStill
  <1>5. proxy \/ pc # "poll" => Progress(u, s)
    <2>1. proxy \/ pc # "poll" => Assembled(u)
      BY <1>1 DEF Contents, Holding, Fits, Held, Assembled
    <2> QED BY <1>1, <2>1, ReceivedProgress
  <1>6. /\ pc' \in {"ended", "app", pc}
        /\ pc' = "app" /\ pc # "app" => pc = "receive" /\ s.apduState # "IDLE"
        /\ pc' = "receive" => pc = "receive" /\ ~(s.apduState # "IDLE" /\ s.apduLen > 0)
    BY <1>1, <1>3 DEF Thread
  <1> HIDE DEF s
  <1>7. CASE pc' = "app" /\ pc # "app"
    <2>1. pc = "receive" /\ Progress(u, s) /\ Delivered(s)
      BY <1>5, <1>6, <1>7 DEF Contents, Progress
    <2>2. u' = [s EXCEPT !.client = s.tch]
      BY <1>3, <1>7
    <2>3. /\ u'.client = s.tch /\ u'.ch = s.ch /\ u'.tch = s.tch /\ u'.state = s.state /\ u'.media = s.media
          /\ u'.out = s.out /\ u'.mem = s.mem /\ u'.apduLen = s.apduLen /\ u'.offset = s.offset
          /\ u'.length = s.length /\ u'.len = s.len /\ u'.index = s.index
      BY <1>2, <2>2 DEF Service
    <2>4. u'.client = u'.ch /\ (\A k \in 0..(u'.apduLen - 1) : u'.mem[k] = <<u'.client, ApduAt + k>>)
      BY <2>1, <2>3 DEF Delivered
    <2>5. ApduAt' = ApduAt
      BY <1>3 DEF ApduAt
    <2>6. Intact(u') /\ Intact(u)' /\ u.client' = u.ch'
      BY <2>4, <2>5 DEF Intact
    <2>7. Assembled(u')
      BY <2>1, <2>3 DEF Progress, Assembled
    <2>8. proxy => Answering(u')
      <3>1. proxy => u'.state = "PROCESSING_COMMAND" /\ Answering(s)
        BY <1>3, <1>7, <2>1 DEF Holding, Fits, Held, Contents, Progress
      <3> QED BY <2>3, <3>1 DEF Answering
    <2> QED BY <1>3, <1>7, <2>6, <2>7, <2>8 DEF Contents, Assembled, Answering
  <1>8. CASE ~(pc' = "app" /\ pc # "app")
    <2>1. u' = s /\ pc' \in {"ended", pc}
      BY <1>3, <1>6, <1>8
    <2>2. pc' = "receive" => s.apduState = "IDLE"
      BY <1>5, <1>6 DEF Contents, Progress, Delivered
    <2>3. pc' \notin {"poll", "ended"} => Assembled(s)
      BY <1>5, <2>1 DEF Progress
    <2>4. proxy => Answering(s)
      BY <1>5 DEF Contents, Progress
    <2>5. proxy /\ pc' = "app" => Intact(s) /\ Intact(u)'
      <3>1. proxy /\ pc' = "app" => Intact(s)
        BY <1>4, <2>1, StillContents DEF Contents
      <3>2. ApduAt' = ApduAt
        BY <1>3 DEF ApduAt
      <3> QED BY <2>1, <3>1, <3>2 DEF Intact
    <2>6. proxy /\ pc' \in {"app", "poll"} => s.client = s.ch
      BY <1>4, <2>1 DEF Contents, Still
    <2> QED BY <1>3, <1>8, <2>1, <2>2, <2>3, <2>4, <2>5, <2>6 DEF Contents, Assembled, Answering
  <1> QED BY <1>7, <1>8

\* What an acknowledgement does to the contents: the next packet, or the end of the reply.
LEMMA DataInContents ==
    ASSUME UInv, Holding, Contents, DataIn
    PROVE  Contents'
  <1> DEFINE out == Tail(u.out)
             t == [u EXCEPT !.out = out]
  <1>1. u \in Service /\ Bounded(u) /\ u.out \in Outs /\ u.out # <<>> /\ pc' = pc /\ proxy' = proxy
    BY ServiceFields DEF UInv, Bounded, DataIn
  <1>2. out \in Outs /\ (AllFaithful(u.out) => AllFaithful(out))
    BY <1>1, OutTail, TailFaithful
  <1>3. u' = Sent(t, "USB")
    BY DEF DataIn
  <1> HIDE DEF out
  <1>4. Bounded(t) /\ t \in Service
    BY <1>1, <1>2, OutBounded DEF Bounded
  <1>5. Still(u, t)
    BY <1>1, <1>2 DEF Service, Still
  <1> HIDE DEF t
  <1>6. Sent(t, "USB").state \in {t.state, "IDLE"} /\ Sent(t, "USB").apduState \in {t.apduState, "IDLE"}
    BY <1>4, SentState
  <1>7. t.state \notin Sending => Still(t, u')
    <2> SUFFICES ASSUME t.state \notin Sending PROVE Still(t, u')
      OBVIOUS
    <2> DEFINE r == [t EXCEPT !.sending = FALSE]
    <2>1. Still(t, r) /\ r.state = t.state
      BY <1>4 DEF Service, Still
    <2>2. Sent(t, "USB") = r
      BY <2>1 DEF Sent
    <2> QED BY <1>3, <2>1, <2>2
  <1>8. proxy => Answering(u')
    BY <1>3, <1>4, <1>5, StillContents, SentAnswers DEF Contents
  <1>9. pc \notin {"poll", "ended"} => Assembled(u')
    <2>1. CASE t.state \notin Sending
      BY <1>5, <1>7, <2>1, StillContents DEF Contents
    <2>2. CASE t.state \in Sending
      BY <1>3, <1>6, <2>2 DEF Assembled, Sending
    <2> QED BY <2>1, <2>2
  <1>10. pc = "receive" => u'.apduState = "IDLE"
    BY <1>3, <1>5, <1>6 DEF Contents, Still
  <1>11. proxy /\ pc \in {"app", "poll"} => Still(t, u')
    BY <1>5, <1>7 DEF Holding, Fits, Held, Still, Sending
  <1>12. proxy /\ pc \in {"app", "poll"} => u'.client = u'.ch
    BY <1>5, <1>11 DEF Contents, Still
  <1>13. proxy /\ pc = "app" => Intact(u)'
    <2>1. proxy /\ pc = "app" => Intact(u')
      BY <1>5, <1>11, StillContents DEF Contents
    <2>2. ApduAt' = ApduAt
      BY <1>1 DEF ApduAt
    <2> QED BY <2>1, <2>2 DEF Intact
  <1> QED BY <1>1, <1>8, <1>9, <1>10, <1>12, <1>13 DEF Contents, Assembled, Answering

\* A reset of the bus loses the packets in the endpoint and nothing else.
LEMMA BusResetContents ==
    ASSUME UInv, Contents, BusReset
    PROVE  Contents'
  <1> DEFINE none == <<>>
             t == [u EXCEPT !.out = none]
  <1>1. u \in Service /\ u' = t /\ pc' \in {pc, "ended"} /\ proxy' = proxy
    BY DEF UInv, Bounded, BusReset
  <1>2. AllFaithful(none)
    BY DEF AllFaithful
  <1> HIDE DEF none
  <1>3. Still(u, t)
    BY <1>1, <1>2 DEF Service, Still
  <1> HIDE DEF t
  <1>4. /\ Assembled(u) => Assembled(u')
        /\ Answering(u) => Answering(u')
        /\ Intact(u) => Intact(u')
    BY <1>1, <1>3, StillContents
  <1>5. u'.client = u.client /\ u'.ch = u.ch /\ u'.apduState = u.apduState
    BY <1>1, <1>3 DEF Still
  <1>6. ApduAt' = ApduAt
    BY <1>1 DEF ApduAt
  <1>7. Intact(u') => Intact(u)'
    BY <1>6 DEF Intact
  <1> QED BY <1>1, <1>4, <1>5, <1>7 DEF Contents, Assembled, Answering

\* The application writes its reply while no message is open and none is leaving.
LEMMA AppRepliesContents ==
    ASSUME UInv, Holding, Contents, NEW n \in ReplyLengths, AppReplies(n)
    PROVE  Contents'
  <1>1. PICK lost \in {u.out, IF u.out = <<>> THEN u.out ELSE Tail(u.out)} :
           IF u.apduState = "IDLE"
             THEN pc' = "ended" /\ u' = [u EXCEPT !.out = lost] /\ UNCHANGED txLen
             ELSE /\ pc' = "poll" /\ txLen' = n
                  /\ u' = AutoReply([u EXCEPT !.mem = Written(@, "app", n), !.out = lost], FALSE)
    BY DEF AppReplies
  <1>2. u \in Service /\ u.out \in Outs /\ pc = "app" /\ proxy' = proxy /\ pc' \in {"poll", "ended"}
    BY <1>1, ServiceFields DEF UInv, Bounded, AppReplies
  <1>3. lost \in Outs /\ (AllFaithful(u.out) => AllFaithful(lost))
    BY <1>2, OutTail, TailFaithful
  <1> DEFINE mem == Written(u.mem, "app", n)
             t == [u EXCEPT !.mem = mem, !.out = lost]
  <1>4. mem \in Memory
    BY <1>2, WrittenType, ServiceFields DEF Origins
  <1>5. proxy => pc' = "poll" /\ u' = AutoReply(t, FALSE) /\ u.state = "PROCESSING_COMMAND"
    BY <1>1, <1>2 DEF Holding, Fits, Held
  <1> HIDE DEF mem
  <1>6. /\ t \in Service /\ t.state = u.state /\ t.media = u.media /\ t.out = lost
        /\ t.client = u.client /\ t.ch = u.ch
    BY <1>2, <1>3, <1>4 DEF Service
  <1> HIDE DEF t
  <1>7. Still(t, AutoReply(t, FALSE))
    BY <1>6, AutoReplyStill
  <1>8. proxy => Answering(t) /\ t.client = t.ch
    BY <1>2, <1>3, <1>5, <1>6 DEF Contents, Answering
  <1>9. proxy => Answering(u') /\ u'.client = u'.ch
    BY <1>5, <1>7, <1>8, StillContents DEF Still
  <1> QED BY <1>2, <1>9 DEF Contents, Assembled, Answering

\* The reply of the application leaves behind the five bytes of the proxy, to the channel
\* that asked.
LEMMA SendReplyContents ==
    ASSUME UInv, Holding, Contents, SendReply
    PROVE  Contents'
  <1>1. u \in Service /\ Bounded(u) /\ pc = "poll" /\ pc' = "wait" /\ proxy' = proxy /\ Repliable(u)
        /\ txLen \in Nat /\ txLen + 7 \in Nat /\ txLen + 7 <= BufLen
    BY RepliesAssumption, Sizes DEF UInv, Bounded, SendReply
  <1> DEFINE mem == [k \in DOMAIN u.mem |-> IF k < 5 THEN <<"zero", 0>>
                                           ELSE IF k < txLen + 7 THEN <<"app", k - 5>> ELSE u.mem[k]]
             t == [u EXCEPT !.mem = mem]
  <1>2. DOMAIN u.mem = 0..(BufLen - 1) /\ \A k \in 0..(BufLen - 1) : u.mem[k] \in Byte
    BY <1>1, ServiceFields DEF Memory
  <1>3. mem \in Memory
    BY <1>2, Sizes DEF Memory, Byte, Origins
  <1>4. Wrapped(u, txLen) = t
    BY DEF Wrapped
  <1>5. \A k \in 0..(txLen + 7 - 1) : mem[k] = IF k < 5 THEN <<"zero", 0>> ELSE <<"app", k - 5>>
    <2>1. ASSUME NEW k \in 0..(txLen + 7 - 1)
          PROVE  mem[k] = IF k < 5 THEN <<"zero", 0>> ELSE <<"app", k - 5>>
      <3>1. k \in 0..(BufLen - 1) /\ k < txLen + 7
        BY <1>1, Sizes
      <3> QED BY <1>2, <3>1
    <2> QED BY <2>1
  <1> HIDE DEF mem
  <1>6. /\ t \in Service /\ t.state = u.state /\ t.media = u.media /\ t.out = u.out /\ t.mem = mem
        /\ t.client = u.client /\ t.ch = u.ch /\ t.wait = u.wait /\ t.fstate = u.fstate
        /\ t.sending = u.sending
    BY <1>1, <1>3 DEF Service
  <1>7. Bounded(t)
    BY <1>1, <1>3, MemoryBounded
  <1> HIDE DEF t
  <1>8. CASE proxy
    <2>1. u.state = "PROCESSING_COMMAND" /\ u.client = u.ch /\ Answering(u)
      BY <1>1, <1>8 DEF Holding, Fits, Held, Contents
    <2>2. Answering(t) /\ t.media = "USB" /\ t.state # "HANDLE_SEGMENTED"
      BY <1>6, <2>1 DEF Answering
    <2>3. "apdu" \in Froms /\ "apdu" # "receive" /\ "apdu" # "ping" /\ "MSG" \in {"PING", "MSG", "INIT"}
      BY DEF Froms
    <2>4. LET r == MessageReply(t, "MSG", "apdu", txLen + 7)
          IN Answering(r) /\ r.state # "HANDLE_SEGMENTED"
      BY <1>1, <1>5, <1>6, <1>7, <2>1, <2>2, <2>3, MessageReplyAnswers
    <2>5. u' = MessageReply(t, "MSG", "apdu", txLen + 7)
      BY <1>4, <1>8 DEF SendReply
    <2> QED BY <1>1, <1>8, <2>4, <2>5 DEF Contents, Assembled, Answering
  <1>9. CASE ~proxy
    <2> DEFINE r == [u EXCEPT !.state = "SENDING_RESPONSE", !.index = 0, !.from = "apdu", !.offset = 0,
                              !.length = txLen, !.sendCmd = "MSG"]
    <2>1. u' = Sent(r, u.media)
      BY <1>1, <1>9 DEF SendReply, MessageReply
    <2>2. r \in Service /\ r.state = "SENDING_RESPONSE"
      <3>1. "SENDING_RESPONSE" \in States /\ "apdu" \in Froms /\ "MSG" \in Tags
        BY DEF States, Sending, Froms, Tags
      <3> QED BY <1>1, <3>1 DEF Service
    <2> HIDE DEF r
    <2>3. u'.state # "HANDLE_SEGMENTED"
      BY <2>1, <2>2, SentState
    <2> QED BY <1>1, <1>9, <2>3 DEF Contents, Assembled
  <1> QED BY <1>8, <1>9 DEF UInv

\* The end of a reply leaves the contents alone.
LEMMA EndReplyContents ==
    ASSUME UInv, Contents, EndReply
    PROVE  Contents'
  <1> DEFINE t == [u EXCEPT !.apduMedia = "NONE", !.apduLen = 0]
  <1>1. u \in Service /\ u' = t /\ pc = "wait" /\ pc' = "receive" /\ proxy' = proxy /\ u.apduState = "IDLE"
    BY DEF UInv, Bounded, EndReply
  <1>2. /\ t.state = u.state /\ t.offset = u.offset /\ t.length = u.length /\ t.index = u.index
        /\ t.from = u.from /\ t.media = u.media /\ t.sendCmd = u.sendCmd /\ t.len = u.len
        /\ t.ch = u.ch /\ t.tch = u.tch /\ t.client = u.client /\ t.mem = u.mem
        /\ t.apduState = u.apduState /\ t.out = u.out
    BY <1>1 DEF Service
  <1> HIDE DEF t
  <1>3. Assembled(u')
    BY <1>1, <1>2 DEF Contents, Assembled
  <1>4. Made(u) => Made(u')
    BY <1>1, <1>2 DEF Made, Echo, Mask, FromProxy
  <1>5. proxy => Answering(u')
    BY <1>1, <1>2, <1>4 DEF Contents, Answering
  <1> QED BY <1>1, <1>2, <1>3, <1>5 DEF Contents, Assembled, Answering

\* A restart forgets every message and reply.
LEMMA RestartContents ==
    ASSUME Restart
    PROVE  Contents'
  <1>1. u'.state = "IDLE" /\ u'.apduState = "IDLE" /\ u'.out = <<>> /\ pc' = "receive"
    BY DEF Restart, ServiceInit
  <1>2. AllFaithful(u'.out)
    BY <1>1 DEF AllFaithful
  <1>3. Assembled(u') /\ Answering(u')
    BY <1>1, <1>2 DEF Assembled, Answering
  <1> QED BY <1>1, <1>3 DEF Contents, Assembled, Answering

\* A command that comes, or that the proxy holds, is whole.
CommandStep == pc' = "app" /\ (pc = "receive" \/ proxy) => Intact(u')

\* Every step keeps the contents, and brings a whole command or none.
LEMMA NextContents ==
    ASSUME FullPackets, UInv, Holding, Holding', Contents, [Next]_vars
    PROVE  Contents' /\ (CommandStep \/ UNCHANGED vars)
  <1>1. ASSUME Contents', proxy' = proxy, ~(pc = "receive" /\ pc' = "app") PROVE CommandStep
    <2>1. ApduAt' = ApduAt
      BY <1>1 DEF ApduAt
    <2>2. Intact(u)' => Intact(u')
      BY <2>1 DEF Intact
    <2> QED BY <1>1, <2>2 DEF CommandStep, Contents
  <1>2. ASSUME NEW p \in Packets, DataOut(p) PROVE Contents' /\ CommandStep
    <2>1. Framed(p)
      BY DEF FullPackets
    <2>2. Contents' /\ (pc = "receive" /\ pc' = "app" => Intact(u'))
      BY <1>2, <2>1, DataOutContents
    <2>3. proxy' = proxy
      BY <1>2 DEF DataOut
    <2>4. ~(pc = "receive" /\ pc' = "app") => CommandStep
      BY <1>1, <2>2, <2>3
    <2> QED BY <2>2, <2>4 DEF CommandStep
  <1>3. CASE DataIn
    BY <1>1, <1>3, DataInContents DEF DataIn
  <1>4. CASE BusReset
    BY <1>1, <1>4, BusResetContents DEF BusReset
  <1>5. ASSUME NEW n \in ReplyLengths, AppReplies(n) PROVE Contents' /\ CommandStep
    BY <1>1, <1>5, AppRepliesContents DEF AppReplies
  <1>6. CASE SendReply
    BY <1>1, <1>6, SendReplyContents DEF SendReply
  <1>7. CASE EndReply
    BY <1>1, <1>7, EndReplyContents DEF EndReply
  <1>8. CASE Expire
    <2>1. Contents' /\ proxy' = proxy /\ pc' = "ended"
      BY <1>8 DEF Expire, Contents, Assembled, Answering
    <2> QED BY <1>1, <2>1
  <1>9. CASE Restart
    BY <1>1, <1>9, RestartContents DEF Restart
  <1>10. CASE UNCHANGED vars
    BY <1>10 DEF vars, Contents, Assembled, Answering, Intact, ApduAt
  <1> QED BY <1>2, <1>3, <1>4, <1>5, <1>6, <1>7, <1>8, <1>9, <1>10 DEF Next

\* The contents hold in every state, by every step.
LEMMA AlwaysContents ==
    ASSUME FullPackets
    PROVE  Spec => [](UInv /\ Holding /\ Contents) /\ [][CommandStep]_vars
  <1>1. Init => UInv /\ Holding /\ Contents
    <2>1. Init => Holding
      BY DEF Init, ServiceInit, Holding, Fits, Free
    <2>2. Init => Contents
      <3>1. AllFaithful(<<>>)
        BY DEF AllFaithful
      <3>2. Init => u.state = "IDLE" /\ u.apduState = "IDLE" /\ u.out = <<>> /\ pc = "receive"
        BY DEF Init, ServiceInit
      <3> QED BY <3>1, <3>2 DEF Contents, Assembled, Answering
    <2> QED BY <2>1, <2>2, InitUInv
  <1>2. UInv /\ Holding /\ [Next]_vars => (UInv /\ Holding)'
    BY NextExchanged
  <1>3. UInv /\ Holding /\ Contents /\ [Next]_vars => (UInv /\ Holding /\ Contents)' /\ [CommandStep]_vars
    BY <1>2, NextContents
  <1> QED BY <1>1, <1>3, PTL DEF Spec

\* Whatever packets the programs of the host send on whatever channels, as long as they
\* fill them, each byte of a reply of the proxy is where its packet says: the answer of
\* the application reaches the channel that asked, and the echo of a ping its own.
THEOREM ReplyIntactAlways ==
    ASSUME FullPackets
    PROVE  Spec => []ReplyIntact
  <1>1. Contents => ReplyIntact
    BY DEF Contents, ReplyIntact, Answering, AllFaithful, Faithful
  <1>2. Spec => []Contents
    BY AlwaysContents, PTL
  <1> QED BY <1>1, <1>2, PTL

\* A command that reaches the application is one whole message of one channel, each byte
\* in its place; with the proxy it stays so as long as the application works on it.
THEOREM CommandIntactAlways ==
    ASSUME FullPackets
    PROVE  Spec => CommandIntact
  <1>1. CommandStep => (pc' = "app" /\ (pc = "receive" \/ proxy) => Intact(u'))
    BY DEF CommandStep
  <1> QED BY <1>1, AlwaysContents, PTL DEF CommandIntact
=============================================================================
