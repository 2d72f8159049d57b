------------------------------- MODULE Ccid_proofs -------------------------------
(***************************************************************************)
(* Proofs about Ccid: for any sizes, commands, replies, PIN operations and *)
(* numbers of the host within the assumptions.                             *)
(***************************************************************************)
EXTENDS Ccid, SequenceTheorems, TLAPS

\* The fields of the device and of a header, whatever they hold.
DeviceFields == {"bulk", "card", "change", "intrDone", "abort", "src", "pos", "len", "hdr", "buf",
                 "media", "state", "alen", "in", "intr"}
HeaderFields == {"type", "len", "slot", "seq", "b7", "b8", "b9"}
IsDevice(e) == DOMAIN e = DeviceFields /\ DOMAIN e.hdr = HeaderFields

\* What the interrupt endpoint depends on stays.
SameNotice(e, f) ==
    f.card = e.card /\ f.change = e.change /\ f.intrDone = e.intrDone /\ f.intr = e.intr

\* So do the command at work, its message and the transfer it is in.
SameTransfer(e, f) ==
    /\ f.bulk = e.bulk /\ f.in = e.in /\ f.hdr.seq = e.hdr.seq /\ f.hdr.type = e.hdr.type
    /\ DOMAIN f.buf = DOMAIN e.buf

Quiet(e, f) ==
    /\ IsDevice(f) /\ SameNotice(e, f) /\ SameTransfer(e, f)
    /\ f.media = e.media /\ f.state = e.state
    /\ e.hdr.len \in Nat => f.hdr.len \in Nat

\* The same, but for a block given to the application.
Given(e, f) ==
    /\ IsDevice(f) /\ SameNotice(e, f) /\ SameTransfer(e, f)
    /\ f.media = "CCID" /\ f.state = "CCID"

\* The sizes, as the provers need them.
LEMMA Sizes == /\ HeaderLen \in Nat /\ HeaderLen > 0 /\ EpSize \in Nat /\ EpSize > HeaderLen
               /\ RateLen \in Nat /\ BufLen \in Nat /\ ParamsLen \in Nat /\ Seqs \in Nat /\ Seqs > 0
  BY SizesAssumption

\* A change of status.
LEMMA StatusQuiet == ASSUME NEW e, IsDevice(e), NEW st PROVE Quiet(e, Status(e, st))
  BY DEF Status, Quiet, IsDevice, DeviceFields, HeaderFields, SameNotice, SameTransfer

\* Content put in the buffer.
LEMMA PutQuiet == ASSUME NEW e, IsDevice(e), NEW at, NEW cells
                  PROVE  Quiet(e, Put(e, at, cells)) /\ Put(e, at, cells).hdr = e.hdr
  <1> DEFINE buf == [i \in DOMAIN e.buf |->
                        IF i \in at .. at + Len(cells) - 1 THEN cells[i - at + 1] ELSE e.buf[i]]
             t == [e EXCEPT !.buf = buf]
  <1>1. Put(e, at, cells) = t
    BY DEF Put
  <1>3. DOMAIN buf = DOMAIN e.buf
    OBVIOUS
  <1> HIDE DEF buf
  <1>2. Quiet(e, t) /\ t.hdr = e.hdr
    BY <1>3 DEF Quiet, IsDevice, DeviceFields, HeaderFields, SameNotice, SameTransfer
  <1> QED
    BY <1>1, <1>2

\* Only the content of the buffer changes.
LEMMA PutRest == ASSUME NEW e, IsDevice(e), NEW at, NEW cells
                 PROVE  Put(e, at, cells).in = e.in /\ Put(e, at, cells).len = e.len
  <1> DEFINE buf == [i \in DOMAIN e.buf |->
                        IF i \in at .. at + Len(cells) - 1 THEN cells[i - at + 1] ELSE e.buf[i]]
             t == [e EXCEPT !.buf = buf]
  <1>1. Put(e, at, cells) = t
    BY DEF Put
  <1> HIDE DEF buf
  <1>2. t.in = e.in /\ t.len = e.len
    BY DEF IsDevice, DeviceFields
  <1> QED
    BY <1>1, <1>2

\* The length of the data of a message.
LEMMA LengthQuiet == ASSUME NEW e, IsDevice(e), NEW n \in Nat
                     PROVE  Quiet(e, [e EXCEPT !.hdr.len = n])
  BY DEF Quiet, IsDevice, DeviceFields, HeaderFields, SameNotice, SameTransfer

\* One step of a command after another.
LEMMA QuietTwice == ASSUME NEW e, NEW f, NEW g, Quiet(e, f), Quiet(f, g) PROVE Quiet(e, g)
  BY DEF Quiet, SameNotice, SameTransfer

\* The parameters of a command are checked.
LEMMA CheckQuiet == ASSUME NEW e, IsDevice(e), NEW asked PROVE Quiet(e, Check(e, asked).dev)
  <1> DEFINE no == Refusals(e, asked)
  <1>1. Check(e, asked).dev = IF no = << >> THEN Status(e, Active) ELSE Status(e, no[1].st)
    BY DEF Check
  <1> HIDE DEF no
  <1> QED
    BY <1>1, StatusQuiet

\* A block given to the application, from wherever it is in the buffer.
LEMMA BlockGiven ==
    ASSUME NEW e, IsDevice(e), NEW n, NEW at, NEW m
    PROVE  Given(e, GiveBlock([e EXCEPT !.hdr.len = n], at, m))
  <1> DEFINE s == [e EXCEPT !.hdr.len = n]
             p == Put(s, 0, Slice(s, at, m))
             t == [p EXCEPT !.alen = m, !.media = "CCID", !.state = "CCID"]
  <1>1. IsDevice(s) /\ SameNotice(e, s) /\ SameTransfer(e, s)
    BY DEF IsDevice, DeviceFields, HeaderFields, SameNotice, SameTransfer
  <1> HIDE DEF s
  <1>2. Quiet(s, p)
    BY <1>1, PutQuiet
  <1> HIDE DEF p
  <1>3. Given(p, t)
    BY <1>2 DEF Quiet, IsDevice, DeviceFields, HeaderFields, SameNotice, SameTransfer, Given
  <1>4. GiveBlock(s, at, m) = t
    BY DEF GiveBlock, p
  <1> HIDE DEF t
  <1>5. Given(e, t)
    BY <1>1, <1>2, <1>3 DEF Quiet, Given, SameNotice, SameTransfer
  <1> QED
    BY <1>4, <1>5 DEF s

\* A block given before or after the rest of its command.
LEMMA GivenQuiet ==
    ASSUME NEW e, NEW f, NEW g,
           (Given(e, f) /\ Quiet(f, g)) \/ (Quiet(e, f) /\ Given(f, g))
    PROVE  Given(e, g)
  BY DEF Given, Quiet, SameNotice, SameTransfer

\* A command that succeeds or fails of itself.
LEMMA EndQuiet == ASSUME NEW e, IsDevice(e), NEW err PROVE Quiet(e, Done(e).dev) /\ Quiet(e, Fails(e, err).dev)
  BY StatusQuiet DEF Done, Fails

\* The card is powered on: its presence is checked twice.
LEMMA IccPowerOnQuiet == ASSUME NEW e, IsDevice(e) PROVE Quiet(e, IccPowerOn(e).dev)
  <1> DEFINE s == [e EXCEPT !.hdr.len = 2]
             on == Put(s, 0, Cells("atr", 2))
             k == Check(on, {"ACTIVE"})
  <1>1. Quiet(e, s)
    BY LengthQuiet
  <1> HIDE DEF s
  <1>2. Quiet(s, on)
    BY <1>1, PutQuiet DEF Quiet
  <1>3. Quiet(e, on)
    BY <1>1, <1>2, QuietTwice
  <1> HIDE DEF on
  <1>4. Quiet(e, k.dev)
    BY <1>3, CheckQuiet, QuietTwice DEF Quiet
  <1> HIDE DEF k
  <1>5. Quiet(e, Done(k.dev).dev)
    BY <1>4, EndQuiet, QuietTwice DEF Quiet
  <1>6. Quiet(e, Fails(e, 7).dev)
    BY EndQuiet
  <1>7. IccPowerOn(e).dev \in {Fails(e, 7).dev, k.dev, Done(k.dev).dev}
    BY DEF IccPowerOn, k, on, s
  <1> QED
    BY <1>4, <1>5, <1>6, <1>7

\* The card is powered off.
LEMMA IccPowerOffQuiet == ASSUME NEW e, IsDevice(e) PROVE Quiet(e, IccPowerOff(e).dev)
  <1> DEFINE s == Status(e, Active)
             st == IF e.card THEN Inactive ELSE NoIcc
  <1>1. Quiet(e, s)
    BY StatusQuiet
  <1>2. IccPowerOff(e).dev = Status(s, st)
    BY DEF IccPowerOff, Done, Status
  <1> HIDE DEF s
  <1>3. Quiet(s, Status(s, st))
    BY <1>1, StatusQuiet DEF Quiet
  <1> QED
    BY <1>1, <1>2, <1>3, QuietTwice

\* An abort is requested or ends.
LEMMA CmdAbortQuiet == ASSUME NEW e, IsDevice(e), NEW slot, NEW seq PROVE Quiet(e, CmdAbort(e, slot, seq))
  <1> DEFINE a == IF e.abort = << >> THEN <<slot, seq>>
                  ELSE IF e.abort = <<slot, seq>> THEN << >> ELSE e.abort
  <1>1. CmdAbort(e, slot, seq) = [e EXCEPT !.abort = a]
    BY DEF CmdAbort
  <1> HIDE DEF a
  <1> QED
    BY <1>1 DEF Quiet, IsDevice, DeviceFields, HeaderFields, SameNotice, SameTransfer

\* A command leaves the transfer as it is; two of them give the application a block.
Executed(e, f) == Quiet(e, f) \/ (Given(e, f) /\ e.hdr.type \in {"XFRBLOCK", "SECURE"})

\* A PIN operation gives the application an APDU or fails.
LEMMA SecureExecuted ==
    ASSUME NEW e, IsDevice(e) PROVE Quiet(e, Secure(e).dev) \/ Given(e, Secure(e).dev)
  <1> DEFINE at == PinOffset[e.buf[0][1]]
             p == Put(e, at, Cells("cla", 1))
             b == GiveBlock([p EXCEPT !.hdr.len = PinLen], at, PinLen)
  <1>1. Quiet(e, p) /\ IsDevice(p)
    BY PutQuiet DEF Quiet
  <1> HIDE DEF p
  <1>2. Given(p, b) /\ IsDevice(b)
    BY <1>1, BlockGiven DEF Given
  <1> HIDE DEF b
  <1>3. Given(e, Done(b).dev)
    BY <1>1, <1>2, EndQuiet, GivenQuiet
  <1>4. Secure(e).dev \in {Fails(e, 8).dev, Done(b).dev}
    BY DEF Secure, PinApdu, b, p
  <1> QED
    BY <1>3, <1>4, EndQuiet

\* Every command, once its parameters are checked.
LEMMA ExecuteExecuted == ASSUME NEW e, IsDevice(e) PROVE Executed(e, Execute(e).dev)
  <1>1. Quiet(e, IccPowerOn(e).dev) /\ Quiet(e, IccPowerOff(e).dev)
    BY IccPowerOnQuiet, IccPowerOffQuiet
  <1>2. Quiet(e, Done(CmdAbort(e, e.hdr.slot, e.hdr.seq)).dev)
    <2> DEFINE a == CmdAbort(e, e.hdr.slot, e.hdr.seq)
    <2>1. Quiet(e, a) /\ IsDevice(a)
      BY CmdAbortQuiet DEF Quiet
    <2> HIDE DEF a
    <2>2. Quiet(e, Done(a).dev)
      BY <2>1, EndQuiet, QuietTwice
    <2> QED
      BY <2>2 DEF a
  <1>3. Quiet(e, SetDataRate(e).dev)
    BY EndQuiet DEF SetDataRate
  <1>4. Given(e, XfrBlock(e).dev)
    <2> DEFINE b == GiveBlock([e EXCEPT !.hdr.len = 256 * e.hdr.b9 + e.hdr.b8], 0, e.hdr.len)
    <2>1. Given(e, b)
      BY BlockGiven
    <2>2. XfrBlock(e).dev = Done(b).dev
      BY DEF XfrBlock
    <2> HIDE DEF b
    <2> QED
      BY <2>1, <2>2, EndQuiet, GivenQuiet DEF Given
  <1>5. Quiet(e, Secure(e).dev) \/ Given(e, Secure(e).dev)
    BY SecureExecuted
  <1>6. Quiet(e, Status(e, Active)) /\ Quiet(e, Status(e, Failed + Active))
    BY StatusQuiet
  <1> DEFINE t == e.hdr.type
  <1>7. \/ t \notin {"XFRBLOCK", "SECURE"}
           /\ Execute(e).dev \in {Status(e, Active), Status(e, Failed + Active), SetDataRate(e).dev,
                    IccPowerOn(e).dev, IccPowerOff(e).dev, Done(CmdAbort(e, e.hdr.slot, e.hdr.seq)).dev}
        \/ t = "XFRBLOCK" /\ Execute(e) = XfrBlock(e)
        \/ t = "SECURE" /\ Execute(e) = Secure(e)
    <2>1. /\ Done(e).dev = Status(e, Active)
          /\ \A err : Fails(e, err).dev = Status(e, Failed + Active)
      BY DEF Done, Fails
    <2> QED
      BY <2>1 DEF Execute
  <1> QED
    BY <1>1, <1>2, <1>3, <1>4, <1>5, <1>6, <1>7 DEF Executed

\* Every command, its parameters checked first.
LEMMA ProcessExecuted == ASSUME NEW e, IsDevice(e) PROVE Executed(e, Process(e).dev)
  <1> DEFINE ready == IF e.hdr.type = "ICCPOWERON" THEN [e EXCEPT !.hdr.len = 0] ELSE e
             k == Check(ready, Asked[e.hdr.type])
  <1>1. Quiet(e, ready)
    BY LengthQuiet DEF Quiet, SameNotice, SameTransfer
  <1> HIDE DEF ready
  <1>2. Quiet(e, k.dev) /\ IsDevice(k.dev)
    BY <1>1, CheckQuiet, QuietTwice DEF Quiet
  <1> HIDE DEF k
  <1>3. Executed(k.dev, Execute(k.dev).dev)
    BY <1>2, ExecuteExecuted
  <1>4. Executed(e, Execute(k.dev).dev)
    BY <1>2, <1>3, QuietTwice, GivenQuiet DEF Executed, Quiet, SameTransfer
  <1>5. Process(e).dev \in {k.dev, Execute(k.dev).dev}
    BY DEF Process, k, ready
  <1> QED
    BY <1>2, <1>4, <1>5 DEF Executed

-----------------------------------------------------------------------------

\* A function on 1 .. n is a sequence of that length.
LEMMA Sequence == ASSUME NEW S, NEW n \in Nat, NEW s \in [1 .. n -> S] PROVE s \in Seq(S) /\ Len(s) = n
  <1>1. s \in Seq(S)
    OBVIOUS
  <1> QED
    BY <1>1

\* The length of a piece of the buffer.
LEMMA SliceLen == ASSUME NEW e, NEW at, NEW n \in Nat PROVE Len(Slice(e, at, n)) = n
  <1> DEFINE S == {e.buf[at + i - 1] : i \in 1 .. n}
  <1>1. Slice(e, at, n) \in [1 .. n -> S]
    BY DEF Slice
  <1> HIDE DEF S
  <1> QED
    BY <1>1, Sequence

\* The first packet of a response is in the endpoint: it tells the type and the number of
\* the command, and is as full as the response allows.
Answering(e, f, type) ==
    /\ IsDevice(f) /\ SameNotice(e, f) /\ f.media = e.media /\ f.state = e.state
    /\ f.bulk = "SEND_RESP" /\ f.hdr.seq = e.hdr.seq /\ f.hdr.type = type
    /\ \E p : /\ f.in = <<p>> /\ p.hdr.seq = f.hdr.seq /\ p.hdr.type = type
              /\ e.hdr.len \in Nat => f.len \in Nat /\ Size(p) = Least(EpSize, f.len)

\* A response that begins.
LEMMA RespondAnswers ==
    ASSUME NEW e, IsDevice(e), NEW type, type # "NONE", NEW err
    PROVE  Answering(e, SendReply(Respond(e, type, err)), type)
  <1> DEFINE n == IF err # SlotNoError \/ type = "SLOTSTATUS" THEN 0
                  ELSE IF type = "PARAMETERS" THEN ParamsLen ELSE e.hdr.len
             buf == IF type = "PARAMETERS" THEN Put(e, 0, Cells("params", ParamsLen)).buf ELSE e.buf
             r == [e EXCEPT !.bulk = "SEND_RESP", !.hdr.type = type, !.hdr.b8 = err, !.hdr.b9 = 0,
                            !.hdr.len = n, !.buf = buf]
             len == r.hdr.len + HeaderLen
             p == [hdr |-> r.hdr, data |-> Slice(r, 0, Least(EpSize, len) - HeaderLen)]
             f == [r EXCEPT !.len = len, !.src = "header", !.in = <<p>>]
  <1>1. e.hdr.len \in Nat => n \in Nat
    BY Sizes
  <1>2. Respond(e, type, err) = r
    BY DEF Respond
  <1> HIDE DEF n, buf
  <1>3. /\ IsDevice(r) /\ SameNotice(e, r) /\ r.media = e.media /\ r.state = e.state
        /\ r.bulk = "SEND_RESP" /\ r.hdr.seq = e.hdr.seq /\ r.hdr.type = type /\ r.hdr.len = n
    BY DEF IsDevice, DeviceFields, HeaderFields, SameNotice
  <1> HIDE DEF r
  <1>4. e.hdr.len \in Nat =>
          len \in Nat /\ Least(EpSize, len) - HeaderLen \in Nat /\ Least(EpSize, len) \in Nat
    BY <1>1, <1>3, Sizes DEF Least
  <1>5. e.hdr.len \in Nat => Size(p) = Least(EpSize, len)
    BY <1>3, <1>4, SliceLen, Sizes DEF Size
  <1>6. SendReply(r) = f
    <2>1. SendReply(r) = [[r EXCEPT !.len = len, !.src = "header"] EXCEPT !.in = <<p>>]
      BY <1>3 DEF SendReply, SendData, Slice
    <2> QED
      BY <2>1
  <1>7. p.hdr = r.hdr
    OBVIOUS
  <1> HIDE DEF p, len
  <1>8. /\ IsDevice(f) /\ SameNotice(r, f) /\ f.media = r.media /\ f.state = r.state
        /\ f.bulk = r.bulk /\ f.hdr = r.hdr /\ f.len = len /\ f.in = <<p>>
    BY <1>3 DEF IsDevice, DeviceFields, HeaderFields, SameNotice
  <1> HIDE DEF f
  <1>9. Answering(e, f, type)
    BY <1>3, <1>4, <1>5, <1>7, <1>8 DEF Answering, SameNotice
  <1> QED
    BY <1>2, <1>6, <1>9

\* A whole command: it is answered, given to the application, or refused without a word.
Decoded(e, f) ==
    \/ Answering(e, f, IF e.hdr.type \in DOMAIN Asked THEN Answer[e.hdr.type] ELSE "SLOTSTATUS")
    \/ e.hdr.type \in {"XFRBLOCK", "SECURE"} /\ (Given(e, f) \/ Quiet(e, f))

\* Every response has a type.
LEMMA AnswerTypes == \A t \in DOMAIN Asked : Answer[t] # "NONE"
  BY DEF Answer

\* A command received whole.
LEMMA CmdDecodeDecoded ==
    ASSUME NEW e, IsDevice(e), e.bulk # "SEND_RESP"
    PROVE  Decoded(e, CmdDecode(e))
  <1> DEFINE k == Process(e)
             refused == [k.dev EXCEPT !.hdr.len = 0]
             t == e.hdr.type
  <1>1. Executed(e, k.dev)
    BY ProcessExecuted
  <1> HIDE DEF k
  <1>2. Quiet(e, k.dev) \/ Given(e, k.dev) => SendReply(k.dev) = k.dev
    BY DEF SendReply, Quiet, Given, SameTransfer
  <1>3. ASSUME Quiet(e, k.dev)
        PROVE  Quiet(e, refused) /\ SendReply(refused) = refused
    <2>1. Quiet(k.dev, refused)
      BY <1>3, LengthQuiet DEF Quiet
    <2> HIDE DEF refused
    <2>2. Quiet(e, refused)
      BY <1>3, <2>1, QuietTwice
    <2> QED
      BY <2>2 DEF SendReply, Quiet, SameTransfer
  <1>4. ASSUME Given(e, k.dev)
        PROVE  Given(e, refused) /\ SendReply(refused) = refused
    <2>1. Given(e, refused)
      BY <1>4 DEF Given, IsDevice, DeviceFields, HeaderFields, SameNotice, SameTransfer
    <2> HIDE DEF refused
    <2> QED
      BY <2>1 DEF SendReply, Given, SameTransfer
  <1>5. CASE t \notin DOMAIN Asked
    <2>1. CmdDecode(e) = SendReply(Respond(e, "SLOTSTATUS", CmdNotSupported))
      BY <1>5 DEF CmdDecode
    <2> QED
      BY <1>5, <2>1, RespondAnswers DEF Decoded
  <1>6. CASE t \in {"XFRBLOCK", "SECURE"}
    <2>1. t \in DOMAIN Asked
      BY <1>6 DEF Asked
    <2>2. CmdDecode(e) \in {SendReply(k.dev), SendReply(refused)}
      BY <1>6, <2>1 DEF CmdDecode, k
    <2> QED
      BY <1>1, <1>2, <1>3, <1>4, <1>6, <2>2 DEF Decoded, Executed
  <1>7. CASE t \in DOMAIN Asked /\ t \notin {"XFRBLOCK", "SECURE"}
    <2>1. CmdDecode(e) = SendReply(Respond(k.dev, Answer[t], k.err))
      BY <1>7 DEF CmdDecode, k
    <2>2. Quiet(e, k.dev)
      BY <1>1, <1>7 DEF Executed
    <2>3. Answering(k.dev, CmdDecode(e), Answer[t])
      BY <1>7, <2>1, <2>2, RespondAnswers, AnswerTypes DEF Quiet
    <2>4. Answering(e, CmdDecode(e), Answer[t])
      BY <2>2, <2>3 DEF Answering, Quiet, SameNotice, SameTransfer
    <2> QED
      BY <1>7, <2>4 DEF Decoded
  <1> QED
    BY <1>5, <1>6, <1>7

-----------------------------------------------------------------------------

\* What comes before a message is decoded or goes on: the transfer to the host and the exchange
\* of the application are not concerned.
Begun(e, g) == /\ IsDevice(g) /\ SameNotice(e, g)
               /\ g.media = e.media /\ g.state = e.state /\ g.in = e.in

\* A first packet: a message of this packet is decoded, another one goes on or is too long.
FirstTaken(e, p, f) == \E g :
    /\ Begun(e, g) /\ g.hdr = p.hdr
    /\ \/ p.hdr.len > BufLen /\ Begun(g, f) /\ f.bulk = "UNCORRECT_LENGTH"
       \/ Size(p) = p.hdr.len + HeaderLen /\ g.bulk = "IDLE" /\ f = CmdDecode(g)
       \/ /\ Size(p) # p.hdr.len + HeaderLen
          /\ Begun(g, f) /\ f.hdr = g.hdr /\ f.bulk = "RECEIVE_DATA" /\ f.len = Size(p)

\* The first packet of a message is taken.
LEMMA FirstPacketTaken ==
    ASSUME NEW e, IsDevice(e), NEW p, DOMAIN p.hdr = HeaderFields PROVE FirstTaken(e, p, FirstPacket(e, p))
  <1> DEFINE s == [e EXCEPT !.bulk = "IDLE", !.len = Size(p), !.hdr = p.hdr, !.pos = Len(p.data)]
             g == Put(s, 0, p.data)
             long == [g EXCEPT !.bulk = "UNCORRECT_LENGTH"]
             more == [g EXCEPT !.bulk = "RECEIVE_DATA"]
  <1>1. Begun(e, s) /\ s.bulk = "IDLE" /\ s.hdr = p.hdr /\ s.len = Size(p)
    BY DEF Begun, IsDevice, DeviceFields, SameNotice
  <1>2. FirstPacket(e, p) = IF p.hdr.len > BufLen THEN long
                            ELSE IF Size(p) = p.hdr.len + HeaderLen THEN CmdDecode(g) ELSE more
    BY DEF FirstPacket
  <1> HIDE DEF s
  <1>3. /\ Begun(e, g) /\ g.bulk = "IDLE" /\ g.hdr = p.hdr /\ g.len = Size(p)
    <2>1. Quiet(s, g) /\ g.hdr = s.hdr
      BY <1>1, PutQuiet DEF Begun
    <2>2. g.in = s.in /\ g.len = s.len
      BY PutRest, <1>1 DEF Begun
    <2> QED
      BY <1>1, <2>1, <2>2 DEF Begun, Quiet, SameTransfer, SameNotice
  <1> HIDE DEF g
  <1>4. Begun(g, long) /\ long.bulk = "UNCORRECT_LENGTH"
    BY <1>3 DEF Begun, IsDevice, DeviceFields, SameNotice
  <1>5. Begun(g, more) /\ more.bulk = "RECEIVE_DATA" /\ more.hdr = g.hdr /\ more.len = Size(p)
    BY <1>3 DEF Begun, IsDevice, DeviceFields, SameNotice
  <1> HIDE DEF long, more
  <1> QED
    BY <1>2, <1>3, <1>4, <1>5 DEF FirstTaken

\* A following packet: the last one has the message decoded, a packet too many is refused.
NextTaken(e, p, f) ==
    LET total == e.len + Size(p)
        last == Size(p) < EpSize \/ total = e.hdr.len + HeaderLen
    IN \/ last /\ \E g : Begun(e, g) /\ g.hdr = e.hdr /\ g.bulk = e.bulk /\ f = CmdDecode(g)
       \/ /\ ~last /\ total < e.hdr.len + HeaderLen
          /\ Begun(e, f) /\ f.hdr = e.hdr /\ f.bulk = e.bulk /\ f.len = total
       \/ /\ ~last /\ ~(total < e.hdr.len + HeaderLen)
          /\ Begun(e, f) /\ f.bulk = "UNCORRECT_LENGTH"

\* A following packet of a message is taken.
LEMMA NextPacketTaken == ASSUME NEW e, IsDevice(e), NEW p PROVE NextTaken(e, p, NextPacket(e, p))
  <1> DEFINE total == e.len + Size(p)
             s == [e EXCEPT !.len = total]
             g == Put(s, e.pos, Bytes(p))
             more == [g EXCEPT !.pos = g.pos + Size(p)]
             long == [e EXCEPT !.len = total, !.bulk = "UNCORRECT_LENGTH"]
             last == Size(p) < EpSize \/ total = e.hdr.len + HeaderLen
  <1>1. Begun(e, s) /\ s.bulk = e.bulk /\ s.hdr = e.hdr /\ s.len = total
    BY DEF Begun, IsDevice, DeviceFields, SameNotice
  <1>2. NextPacket(e, p) = IF last THEN CmdDecode(g)
                           ELSE IF total < e.hdr.len + HeaderLen THEN more ELSE long
    BY DEF NextPacket
  <1>3. Begun(e, long) /\ long.bulk = "UNCORRECT_LENGTH"
    BY DEF Begun, IsDevice, DeviceFields, SameNotice
  <1> HIDE DEF s, long
  <1>4. Begun(e, g) /\ g.bulk = e.bulk /\ g.hdr = e.hdr /\ g.len = total
    <2>1. Quiet(s, g) /\ g.hdr = s.hdr
      BY <1>1, PutQuiet DEF Begun
    <2>2. g.in = s.in /\ g.len = s.len
      BY PutRest, <1>1 DEF Begun
    <2> QED
      BY <1>1, <2>1, <2>2 DEF Begun, Quiet, SameTransfer, SameNotice
  <1> HIDE DEF g
  <1>5. Begun(e, more) /\ more.bulk = e.bulk /\ more.hdr = e.hdr /\ more.len = total
    BY <1>4 DEF Begun, IsDevice, DeviceFields, SameNotice
  <1> HIDE DEF more
  <1> QED
    BY <1>2, <1>3, <1>4, <1>5 DEF NextTaken

-----------------------------------------------------------------------------
(***************************************************************************)
(* The presence of the card.  Commands and transfers leave it alone, the   *)
(* notification on its way tells the truth as long as no change is         *)
(* recorded, and a change is recorded when it cannot be told at once.      *)
(***************************************************************************)

HostFields == {"phase", "seq", "cmd", "out", "got", "data"}
Shapes == /\ IsDevice(d) /\ DOMAIN host = HostFields
          /\ host.phase = "sending" =>
               \E S : host.out \in Seq(S) /\ host.out # << >> /\ \A p \in S : DOMAIN p.hdr = HeaderFields
Notice == /\ d.intrDone <=> d.intr = << >>
          /\ d.intr # << >> /\ ~d.change => d.intr = <<d.card>>
NoticeInv == Shapes /\ Notice

\* A message decoded.
LEMMA DecodedNotice ==
    ASSUME NEW e, NEW f, IsDevice(e), Decoded(e, f) PROVE IsDevice(f) /\ SameNotice(e, f)
  BY DEF Decoded, Answering, Given, Quiet

\* A packet from the host, whichever it is.
LEMMA BulkOutNotice ==
    ASSUME NEW e, IsDevice(e), NEW p, DOMAIN p.hdr = HeaderFields
    PROVE  IsDevice(BulkOut(e, p)) /\ SameNotice(e, BulkOut(e, p))
  <1> DEFINE f == BulkOut(e, p)
  <1>1. \A g : Begun(e, g) /\ g.bulk # "SEND_RESP" /\ f = CmdDecode(g) =>
                 IsDevice(f) /\ SameNotice(e, f)
    BY CmdDecodeDecoded, DecodedNotice DEF Begun, SameNotice
  <1>2. CASE e.bulk = "RECEIVE_DATA"
    <2>1. NextTaken(e, p, f)
      BY <1>2, NextPacketTaken DEF BulkOut
    <2> QED
      BY <1>1, <1>2, <2>1 DEF NextTaken, Begun
  <1>3. CASE e.bulk # "RECEIVE_DATA" /\ Size(p) < HeaderLen
    <2> DEFINE t == [e EXCEPT !.bulk = "IDLE"]
    <2>1. f = t
      BY <1>3 DEF BulkOut
    <2>2. IsDevice(t) /\ SameNotice(e, t)
      BY DEF IsDevice, DeviceFields, SameNotice
    <2> QED
      BY <2>1, <2>2
  <1>4. CASE e.bulk # "RECEIVE_DATA" /\ ~(Size(p) < HeaderLen)
    <2>1. FirstTaken(e, p, f)
      BY <1>4, FirstPacketTaken DEF BulkOut
    <2> QED
      BY <1>1, <2>1 DEF FirstTaken, Begun, SameNotice
  <1> QED
    BY <1>2, <1>3, <1>4

\* A packet to the host.
LEMMA BulkInNotice ==
    ASSUME NEW e, IsDevice(e) PROVE IsDevice(BulkIn(e)) /\ SameNotice(e, BulkIn(e))
  <1> DEFINE n == Least(EpSize, e.len)
             left == e.len - n
             at == IF e.src = "header" THEN n - HeaderLen ELSE e.pos + n
             next == [e EXCEPT !.src = "data", !.pos = at, !.len = left]
             Data(m) == SendData(next, [hdr |-> NoHeader, data |-> Slice(e, at, m)])
  <1>1. BulkIn(e) \in {e, Data(EpSize), LastXfer(Data(left)), LastXfer(next)}
    BY DEF BulkIn
  <1>2. IsDevice(next) /\ SameNotice(e, next)
    BY DEF IsDevice, DeviceFields, SameNotice
  <1> HIDE DEF next, at, left, n
  <1>3. \A m : IsDevice(Data(m)) /\ SameNotice(e, Data(m))
    <2> TAKE m
    <2> DEFINE p == [hdr |-> NoHeader, data |-> Slice(e, at, m)]
    <2>1. Data(m) = [next EXCEPT !.in = <<p>>]
      BY DEF SendData
    <2> HIDE DEF p
    <2> QED
      BY <1>2, <2>1 DEF IsDevice, DeviceFields, SameNotice
  <1>4. \A f : IsDevice(f) /\ SameNotice(e, f) => IsDevice(LastXfer(f)) /\ SameNotice(e, LastXfer(f))
    BY DEF LastXfer, IsDevice, DeviceFields, SameNotice
  <1> HIDE DEF Data
  <1> QED
    BY <1>1, <1>2, <1>3, <1>4 DEF SameNotice

\* io_exchange looks at the exchange of the application only.
LEMMA PumpNotice ==
    ASSUME NEW e, IsDevice(e) PROVE IsDevice(Pump(e).dev) /\ SameNotice(e, Pump(e).dev)
  <1> DEFINE f == [e EXCEPT !.media = "NONE", !.alen = 0]
  <1>1. Pump(e).dev \in {e, f}
    BY DEF Pump
  <1>2. IsDevice(f) /\ SameNotice(e, f)
    BY DEF IsDevice, DeviceFields, SameNotice
  <1> HIDE DEF f
  <1> QED
    BY <1>1, <1>2 DEF SameNotice

\* A step that does not concern the interrupt endpoint keeps the invariant.
LEMMA NoticeKept ==
    ASSUME NoticeInv, IsDevice(d'), SameNotice(d, d') PROVE Notice'
  BY DEF NoticeInv, Notice, SameNotice

\* The device as it is configured: the presence of the card is being notified.
LEMMA ConfiguredIs ==
    /\ IsDevice(Configured)
    /\ Configured.intr = <<Configured.card>> /\ Configured.card = TRUE
    /\ Configured.intrDone = FALSE /\ Configured.change = FALSE
    /\ Configured.bulk = "IDLE" /\ Configured.in = << >>
    /\ Configured.media = "NONE" /\ Configured.state = "IDLE"
    /\ DOMAIN Configured.buf = 0 .. BufLen - 1
  <1> DEFINE buf == [i \in 0 .. BufLen - 1 |-> <<"zero", 0>>]
             c == [bulk |-> "IDLE", card |-> FALSE, change |-> TRUE, intrDone |-> TRUE, abort |-> << >>,
                   src |-> "data", pos |-> 0, len |-> 0, hdr |-> NoHeader, buf |-> buf,
                   media |-> "NONE", state |-> "IDLE", alen |-> 0, in |-> << >>, intr |-> << >>]
             i == [c EXCEPT !.card = TRUE, !.change = TRUE]
  <1>1. Configured = IntMessage(i)
    BY DEF Configured, Inserted
  <1> HIDE DEF buf
  <1>2. /\ IsDevice(i) /\ i.card = TRUE /\ i.change = TRUE /\ i.intrDone = TRUE
        /\ i.bulk = "IDLE" /\ i.in = << >> /\ i.media = "NONE" /\ i.state = "IDLE" /\ i.buf = buf
    BY DEF IsDevice, DeviceFields, HeaderFields, NoHeader
  <1> HIDE DEF i, c
  <1>3. Configured = [i EXCEPT !.intr = <<TRUE>>, !.intrDone = FALSE, !.change = FALSE]
    BY <1>1, <1>2 DEF IntMessage
  <1>4. DOMAIN buf = 0 .. BufLen - 1
    BY DEF buf
  <1> QED
    BY <1>2, <1>3, <1>4 DEF IsDevice, DeviceFields

\* What is left of a message to send: full packets, then one that is not empty.
Remaining(out, left) ==
    /\ Len(out) >= 1
    /\ \A i \in 1 .. Len(out) : i < Len(out) => Size(out[i]) = EpSize
    /\ Size(out[Len(out)]) = left - (Len(out) - 1) * EpSize
    /\ Size(out[Len(out)]) \in 1 .. EpSize

\* As many packets as it takes.
LEMMA Pieces ==
    ASSUME NEW n \in Nat, NEW size \in Nat, size > 0, n > 0
    PROVE  LET m == (n + size - 1) \div size
           IN m \in Nat /\ m >= 1 /\ (m - 1) * size < n /\ n <= m * size
  <1>1. (n + size - 1) \div size \in Nat
    OBVIOUS
  <1> DEFINE m == (n + size - 1) \div size
  <1>2. m * size <= n + size - 1 /\ n + size - 1 < (m + 1) * size
    OBVIOUS
  <1> HIDE DEF m
  <1>3. (m - 1) * size = m * size - size /\ (m + 1) * size = m * size + size
    BY <1>1 DEF m
  <1>4. m \in Nat
    BY <1>1 DEF m
  <1>5. (m - 1) * size < n /\ n <= m * size
    BY <1>2, <1>3, <1>4
  <1>6. m # 0
    BY <1>5
  <1> QED
    BY <1>4, <1>5, <1>6 DEF m

\* Full pieces come before the last.
LEMMA PieceEnds ==
    ASSUME NEW size \in Nat, NEW m \in Nat, NEW k \in 1 .. m, k < m
    PROVE  k * size <= (m - 1) * size
  OBVIOUS

\* The packets of a message: the header in the first, all but the last full.
LEMMA PacketsShape ==
    ASSUME NEW c, c.len \in Nat, c.type # "NONE", NEW seq
    PROVE  LET ps == Packets(c, seq) IN
           /\ ps # << >> /\ \E S : ps \in Seq(S) /\ \A p \in S : DOMAIN p.hdr = HeaderFields
           /\ ps[1].hdr.type = c.type /\ ps[1].hdr.len = c.len /\ ps[1].hdr.seq = seq
           /\ \A i \in 1 .. Len(ps) : i > 1 => ps[i].hdr = NoHeader
           /\ Remaining(ps, c.len + HeaderLen)
  <1> DEFINE hdr == [type |-> c.type, len |-> c.len, slot |-> c.slot, seq |-> seq,
                     b7 |-> c.b7, b8 |-> c.b8, b9 |-> c.b9]
             room == EpSize - HeaderLen
             cells == Block(c)
             more == IF c.len > room THEN (c.len - room + EpSize - 1) \div EpSize ELSE 0
             first == [hdr |-> hdr, data |-> SubSeq(cells, 1, Least(room, c.len))]
             Piece(k) == [hdr |-> NoHeader,
                          data |-> SubSeq(cells, room + (k - 1) * EpSize + 1, Least(room + k * EpSize, c.len))]
             rest == [k \in 1 .. more |-> Piece(k)]
             ps == <<first>> \o rest
             S == {first} \cup {Piece(k) : k \in 1 .. more}
             C == {Block(c)[i] : i \in 1 .. c.len}
  <1>1. Packets(c, seq) = ps
    BY DEF Packets
  <1>2. cells \in Seq(C) /\ Len(cells) = c.len
    <2>1. cells \in [1 .. c.len -> C]
      BY DEF Block
    <2> HIDE DEF cells, C
    <2> QED
      BY <2>1, Sequence
  <1>3. room \in Nat /\ room >= 1 /\ EpSize \in Nat /\ EpSize > 0 /\ HeaderLen \in Nat
    BY Sizes
  <1>4. /\ more \in Nat
        /\ c.len > room => more >= 1 /\ (more - 1) * EpSize < c.len - room /\ c.len - room <= more * EpSize
        /\ ~(c.len > room) => more = 0
    <2>1. CASE c.len > room
      <3>1. c.len - room \in Nat /\ c.len - room > 0
        BY <1>3, <2>1
      <3> QED
        BY <2>1, <3>1, <1>3, Pieces
    <2> QED
      BY <2>1, <1>3
  <1> HIDE DEF more, room, cells, C
  <1>5. /\ Size(first) = HeaderLen + Least(room, c.len)
        /\ first.hdr = hdr
    <2>1. Least(room, c.len) \in Nat /\ Least(room, c.len) <= c.len
      BY <1>3 DEF Least
    <2>2. Len(SubSeq(cells, 1, Least(room, c.len))) = Least(room, c.len)
      BY <1>2, <2>1
    <2> QED
      BY <2>1, <2>2, <1>3 DEF Size
  <1>6. ASSUME NEW k \in 1 .. more
        PROVE  /\ Piece(k).hdr = NoHeader
               /\ k < more => Size(Piece(k)) = EpSize
               /\ k = more => Size(Piece(k)) = c.len - room - (more - 1) * EpSize
    <2> DEFINE a == (k - 1) * EpSize
               b == Least(room + k * EpSize, c.len)
    <2>1. a \in Nat /\ k * EpSize = a + EpSize /\ k * EpSize \in Nat
      BY <1>3, <1>4
    <2>2. c.len > room /\ a <= (more - 1) * EpSize /\ (more - 1) * EpSize \in Nat
      BY <1>3, <1>4, PieceEnds
    <2>3. k < more => k * EpSize <= (more - 1) * EpSize
      BY <1>3, <1>4, PieceEnds
    <2>4. k < more => b = room + a + EpSize
      BY <1>3, <1>4, <2>1, <2>2, <2>3 DEF Least
    <2>5. k = more => b = c.len
      BY <1>3, <1>4, <2>1, <2>2 DEF Least
    <2> HIDE DEF b
    <2>6. b \in Nat /\ b <= c.len /\ b >= room + a
      BY <1>3, <1>4, <2>1, <2>2, <2>3, <2>4, <2>5
    <2>7. Len(SubSeq(cells, room + a + 1, b)) = b - (room + a)
      BY <1>2, <1>3, <2>1, <2>6
    <2> DEFINE cut == SubSeq(cells, room + a + 1, b)
    <2>8. Piece(k).hdr = NoHeader /\ Size(Piece(k)) = Len(cut)
      <3>1. Piece(k).hdr = NoHeader /\ Piece(k).data = cut
        BY DEF b
      <3>2. Len(cut) \in Int
        BY <2>1, <2>6, <2>7, <1>3
      <3> HIDE DEF cut, Piece
      <3> QED
        BY <3>1, <3>2 DEF Size, NoHeader
    <2>9. k = more => a = (more - 1) * EpSize
      OBVIOUS
    <2> HIDE DEF a
    <2> QED
      BY <1>3, <2>1, <2>4, <2>5, <2>7, <2>8, <2>9
  <1> HIDE DEF first, Piece
  <1>7. rest \in Seq(S) /\ Len(rest) = more /\ \A k \in 1 .. more : rest[k] = Piece(k)
    <2>1. rest \in [1 .. more -> S]
      OBVIOUS
    <2>2. \A k \in 1 .. more : rest[k] = Piece(k)
      OBVIOUS
    <2> HIDE DEF rest, S
    <2> QED
      BY <2>1, <2>2, <1>4, Sequence
  <1>8. \A p \in S : DOMAIN p.hdr = HeaderFields
    BY <1>5, <1>6 DEF HeaderFields, NoHeader
  <1>9. <<first>> \in Seq(S)
    OBVIOUS
  <1> HIDE DEF rest, S
  <1>10. /\ ps \in Seq(S) /\ Len(ps) = more + 1 /\ ps[1] = first
         /\ \A i \in 1 .. Len(ps) : i > 1 => i - 1 \in 1 .. more /\ ps[i] = Piece(i - 1)
    BY <1>4, <1>7, <1>9
  <1> HIDE DEF ps
  <1>11. Remaining(ps, c.len + HeaderLen)
    <2>1. CASE more = 0
      <3>1. ~(c.len > room) /\ Size(first) = HeaderLen + c.len
        BY <2>1, <1>3, <1>4, <1>5 DEF Least
      <3>2. HeaderLen + c.len \in 1 .. EpSize
        BY <3>1, Sizes DEF room
      <3> QED
        BY <2>1, <3>1, <3>2, <1>10, Sizes DEF Remaining
    <2>2. CASE more # 0
      <3>1. c.len > room /\ Size(first) = EpSize
        BY <2>2, <1>3, <1>4, <1>5, Sizes DEF Least, room
      <3>2. \A i \in 1 .. Len(ps) : i < Len(ps) => Size(ps[i]) = EpSize
        <4> TAKE i \in 1 .. Len(ps)
        <4>1. CASE i = 1
          BY <4>1, <3>1, <1>10
        <4>2. CASE i > 1
          BY <4>2, <1>4, <1>6, <1>10
        <4> QED
          BY <4>1, <4>2
      <3>3. Len(ps) \in 1 .. Len(ps) /\ Len(ps) > 1 /\ Len(ps) - 1 = more
        BY <2>2, <1>4, <1>10
      <3>4. Size(ps[Len(ps)]) = c.len - room - (more - 1) * EpSize
        BY <3>3, <1>6, <1>10
      <3>5. (more - 1) * EpSize = more * EpSize - EpSize
        BY <1>3, <1>4
      <3>6. more * EpSize \in Nat
        BY <1>3, <1>4
      <3> HIDE DEF Piece
      <3>7. Size(ps[Len(ps)]) = (c.len + HeaderLen) - more * EpSize
        BY <3>4, <3>5, <3>6, Sizes DEF room
      <3>8. Size(ps[Len(ps)]) \in 1 .. EpSize
        BY <3>1, <3>4, <3>5, <3>6, <1>3, <1>4
      <3>9. Size(ps[Len(ps)]) = (c.len + HeaderLen) - (Len(ps) - 1) * EpSize
        BY <3>3, <3>7
      <3>10. Len(ps) >= 1
        BY <3>3, <1>4
      <3> QED
        BY <3>2, <3>8, <3>9, <3>10 DEF Remaining
    <2> QED
      BY <2>1, <2>2
  <1>12. ps[1].hdr.type = c.type /\ ps[1].hdr.len = c.len /\ ps[1].hdr.seq = seq
    BY <1>5, <1>10
  <1>13. \A i \in 1 .. Len(ps) : i > 1 => ps[i].hdr = NoHeader
    BY <1>6, <1>10
  <1>14. ps # << >>
    BY <1>4, <1>10
  <1>15. \E T : ps \in Seq(T) /\ \A p \in T : DOMAIN p.hdr = HeaderFields
    BY <1>8, <1>10
  <1> QED
    BY <1>1, <1>11, <1>12, <1>13, <1>14, <1>15

\* The messages of the host are made of packets.
LEMMA PacketsSent ==
    ASSUME NEW c \in Commands \cup {AbortCommand}, NEW seq
    PROVE  /\ c.len \in Nat /\ c.type # "NONE" /\ Packets(c, seq) # << >>
           /\ \E S : Packets(c, seq) \in Seq(S) /\ \A p \in S : DOMAIN p.hdr = HeaderFields
  <1>1. c.len \in Nat /\ c.type # "NONE"
    BY CommandsAssumption, Sizes DEF AbortCommand
  <1> QED
    BY <1>1, PacketsShape

\* The first packet of those left, and the others.
LEMMA Shift ==
    ASSUME NEW S, NEW s \in Seq(S), s # << >>
    PROVE  /\ Head(s) \in S /\ Head(s) = s[1] /\ Tail(s) \in Seq(S)
           /\ Len(s) \in Nat /\ Len(s) >= 1 /\ Len(Tail(s)) = Len(s) - 1
           /\ \A i \in 1 .. Len(Tail(s)) : Tail(s)[i] = s[i + 1]
           /\ Len(s) # 1 => Tail(s) # << >>
  <1>1. /\ Head(s) \in S /\ Tail(s) \in Seq(S) /\ Len(Tail(s)) = Len(s) - 1
        /\ \A i \in 1 .. Len(Tail(s)) : Tail(s)[i] = s[i + 1]
    BY HeadTailProperties
  <1>2. Len(s) \in Nat /\ Len(s) >= 1 /\ Head(s) = s[1]
    OBVIOUS
  <1>3. Len(s) # 1 => Len(Tail(s)) # 0
    BY <1>1, <1>2
  <1> QED
    BY <1>1, <1>2, <1>3

\* Every step keeps what the host was told true.
LEMMA NoticeStep == ASSUME NoticeInv, [Next]_vars PROVE NoticeInv'
  <1> USE DEF NoticeInv
  <1>1. ASSUME NEW c \in Commands, HostCommand(c) PROVE NoticeInv'
    <2> DEFINE seq == (host.seq + 1) % Seqs
               ps == Packets(c, seq)
    <2>1. ps # << >> /\ \E S : ps \in Seq(S) /\ \A p \in S : DOMAIN p.hdr = HeaderFields
      BY PacketsSent
    <2>2. d' = d /\ host' = [host EXCEPT !.phase = "sending", !.seq = seq, !.cmd = c, !.got = << >>,
                               !.data = << >>, !.out = ps]
      BY <1>1 DEF HostCommand
    <2> HIDE DEF seq, ps
    <2>3. DOMAIN host' = HostFields /\ host'.out = ps
      BY <2>2 DEF Shapes, HostFields
    <2> QED
      BY <2>1, <2>2, <2>3, NoticeKept DEF Shapes, SameNotice, IsDevice
  <1>2. ASSUME HostSend PROVE NoticeInv'
    <2>1. PICK S : /\ host.out \in Seq(S) /\ host.out # << >>
                   /\ \A p \in S : DOMAIN p.hdr = HeaderFields
      BY <1>2 DEF HostSend, Shapes
    <2>2. /\ Head(host.out) \in S /\ Tail(host.out) \in Seq(S)
          /\ Len(host.out) # 1 => Tail(host.out) # << >>
      BY <2>1, Shift
    <2> DEFINE f == BulkOut(d, Head(host.out))
    <2>3. IsDevice(f) /\ SameNotice(d, f)
      BY <2>1, <2>2, BulkOutNotice DEF Shapes
    <2>4. d' = Pump(f).dev
      BY <1>2 DEF HostSend, Event
    <2>5. host' = [host EXCEPT !.out = Tail(host.out),
                               !.phase = IF Len(host.out) = 1 THEN "waiting" ELSE host.phase]
      BY <1>2 DEF HostSend
    <2> HIDE DEF f
    <2>6. IsDevice(d') /\ SameNotice(d, d')
      BY <2>3, <2>4, PumpNotice DEF SameNotice
    <2>7. /\ DOMAIN host' = HostFields
          /\ host'.out = Tail(host.out)
          /\ host'.phase = IF Len(host.out) = 1 THEN "waiting" ELSE host.phase
      BY <2>5 DEF Shapes, HostFields
    <2>8. Shapes'
      BY <2>1, <2>2, <2>6, <2>7 DEF Shapes, IsDevice
    <2> QED
      BY <2>6, <2>7, <2>8, NoticeKept
  <1>3. ASSUME HostRead PROVE NoticeInv'
    <2> DEFINE e == [d EXCEPT !.in = << >>]
               f == BulkIn(e)
               phase == IF Size(d.in[1]) < EpSize THEN "done" ELSE host.phase
               all == host.data \o d.in[1].data
    <2>1. IsDevice(e) /\ SameNotice(d, e)
      BY DEF Shapes, IsDevice, DeviceFields, SameNotice
    <2>2. d' = Pump(f).dev
      BY <1>3 DEF HostRead, Event
    <2>3. /\ host.phase = "waiting"
          /\ host' = [host EXCEPT !.got = Append(host.got, d.in[1]), !.data = all, !.phase = phase]
      BY <1>3 DEF HostRead
    <2> HIDE DEF e
    <2>4. IsDevice(f) /\ SameNotice(d, f)
      BY <2>1, BulkInNotice DEF SameNotice
    <2> HIDE DEF f
    <2>5. IsDevice(d') /\ SameNotice(d, d')
      BY <2>2, <2>4, PumpNotice DEF SameNotice
    <2>6. phase # "sending"
      BY <2>3
    <2> HIDE DEF phase, all
    <2>7. DOMAIN host' = HostFields /\ host'.phase = phase
      BY <2>3 DEF Shapes, HostFields
    <2> QED
      BY <2>5, <2>6, <2>7, NoticeKept DEF Shapes, IsDevice
  <1>4. ASSUME HostNext PROVE NoticeInv'
    <2>1. d' = d /\ host' = [host EXCEPT !.phase = "idle", !.cmd = NoHeader, !.got = << >>, !.data = << >>]
      BY <1>4 DEF HostNext
    <2>2. DOMAIN host' = HostFields /\ host'.phase = "idle"
      BY <2>1 DEF Shapes, HostFields
    <2> QED
      BY <2>1, <2>2, NoticeKept DEF Shapes, SameNotice, IsDevice
  <1>5. ASSUME ClassAbort PROVE NoticeInv'
    <2> DEFINE ps == Packets(AbortCommand, host.seq)
    <2>1. ps # << >> /\ \E S : ps \in Seq(S) /\ \A p \in S : DOMAIN p.hdr = HeaderFields
      BY PacketsSent
    <2>2. IsDevice(d') /\ SameNotice(d, d')
      BY <1>5, CmdAbortQuiet DEF ClassAbort, Quiet, Shapes
    <2>3. host' = [host EXCEPT !.phase = "sending", !.cmd = AbortCommand, !.out = ps]
      BY <1>5 DEF ClassAbort
    <2> HIDE DEF ps
    <2>4. DOMAIN host' = HostFields /\ host'.out = ps
      BY <2>3 DEF Shapes, HostFields
    <2> QED
      BY <2>1, <2>2, <2>4, NoticeKept DEF Shapes, IsDevice
  <1>6. ASSUME NEW phase \in {"idle", "restarted"}, Reconfigure(phase) PROVE NoticeInv'
    <2> DEFINE f == [Configured EXCEPT !.buf = d.buf]
    <2>1. /\ IsDevice(f) /\ f.intr = <<f.card>>
          /\ f.intrDone = FALSE /\ f.change = FALSE
      BY ConfiguredIs DEF IsDevice, DeviceFields
    <2>2. d' = f /\ host' = [host EXCEPT !.phase = phase, !.out = << >>,
                               !.got = << >>, !.data = << >>]
      BY <1>6 DEF Reconfigure
    <2> HIDE DEF f
    <2>3. DOMAIN host' = HostFields /\ host'.phase # "sending"
      BY <2>2 DEF Shapes, HostFields
    <2> QED
      BY <2>1, <2>2, <2>3 DEF Shapes, IsDevice, Notice
  <1>7. ASSUME HostInterrupt PROVE NoticeInv'
    <2>1. d.intr # << >> /\ d' = [d EXCEPT !.intr = << >>, !.intrDone = TRUE]
      BY <1>7 DEF HostInterrupt
    <2>2. host' = host
      BY <1>7 DEF HostInterrupt
    <2>3. /\ IsDevice(d') /\ d'.intr = << >> /\ d'.intrDone = TRUE
          /\ d'.card = d.card /\ d'.change = d.change
      BY <2>1 DEF Shapes, IsDevice, DeviceFields
    <2> QED
      BY <2>2, <2>3 DEF Shapes, IsDevice, Notice
  <1>8. ASSUME NEW n \in Replies, Reply(n) PROVE NoticeInv'
    <2> DEFINE p == Put(d, 0, Cells("reply", n))
               s == [p EXCEPT !.hdr.len = n]
    <2>1. Quiet(d, p)
      BY PutQuiet DEF Shapes
    <2> HIDE DEF p
    <2>2. n \in Nat
      BY RepliesAssumption, Sizes
    <2>3. Quiet(d, s)
      BY <2>1, <2>2, LengthQuiet, QuietTwice, ZenonT(60) DEF Quiet
    <2> HIDE DEF s
    <2>4. Answering(s, SendReply(Respond(s, "DATABLOCK", SlotNoError)), "DATABLOCK")
      BY <2>3, RespondAnswers DEF Quiet
    <2>5. d' = SendReply(Respond(s, "DATABLOCK", SlotNoError)) /\ host' = host
      BY <1>8 DEF Reply, s, p
    <2>6. IsDevice(d') /\ SameNotice(d, d')
      BY <2>3, <2>4, <2>5 DEF Answering, Quiet, SameNotice
    <2> QED
      BY <2>5, <2>6, NoticeKept DEF Shapes, IsDevice
  <1>9. ASSUME NEW present \in BOOLEAN, SetCard(present) PROVE NoticeInv'
    <2> DEFINE e == [d EXCEPT !.card = present, !.change = TRUE]
    <2>1. d' = IntMessage(e) /\ host' = host
      BY <1>9 DEF SetCard, Inserted
    <2>2. IsDevice(e) /\ e.change = TRUE /\ e.intr = d.intr /\ e.intrDone = d.intrDone
      BY DEF Shapes, IsDevice, DeviceFields
    <2> HIDE DEF e
    <2>3. CASE e.intrDone
      <3>1. d' = [e EXCEPT !.intr = <<e.card>>, !.intrDone = FALSE, !.change = FALSE]
        BY <2>1, <2>2, <2>3 DEF IntMessage
      <3>2. IsDevice(d') /\ d'.intr = <<d'.card>> /\ d'.intrDone = FALSE /\ d'.change = FALSE
        BY <2>2, <3>1 DEF IsDevice, DeviceFields
      <3> QED
        BY <2>1, <3>2 DEF Shapes, IsDevice, Notice
    <2>4. CASE ~e.intrDone
      BY <2>1, <2>2, <2>4 DEF IntMessage, Shapes, IsDevice, Notice
    <2> QED
      BY <2>3, <2>4
  <1>10. ASSUME UNCHANGED vars PROVE NoticeInv'
    BY <1>10 DEF vars, Shapes, IsDevice, Notice
  <1> QED
    BY <1>1, <1>2, <1>3, <1>4, <1>5, <1>6, <1>7, <1>8, <1>9, <1>10
       DEF Next, HostReset, GiveUp

\* The first state.
LEMMA NoticeInit == ASSUME Init PROVE NoticeInv
  <1>1. DOMAIN host = HostFields /\ host.phase = "idle"
    BY DEF Init, Idle, HostFields
  <1>2. /\ IsDevice(d) /\ d.intr = <<d.card>>
        /\ d.intrDone = FALSE /\ d.change = FALSE
    BY ConfiguredIs DEF Init
  <1> QED
    BY <1>1, <1>2 DEF NoticeInv, Shapes, Notice

\* A change of the card is notified in the step that makes it, to a driver that has read the
\* notice before it: the flag of the transfer follows the endpoint through every command,
\* abort, reset and restart, and only an application or a configuration changes the card.
LEMMA ChangeStep ==
    ASSUME NoticeInv, [Next]_vars, d.intr = << >>, d'.card # d.card PROVE d'.intr = <<d'.card>>
  <1> USE DEF NoticeInv
  <1>1. ASSUME SameNotice(d, d') PROVE FALSE
    BY <1>1 DEF SameNotice
  <1>2. ASSUME NEW c \in Commands, HostCommand(c) PROVE FALSE
    BY <1>2 DEF HostCommand
  <1>3. ASSUME HostSend PROVE FALSE
    <2>1. PICK S : /\ host.out \in Seq(S) /\ host.out # << >>
                   /\ \A p \in S : DOMAIN p.hdr = HeaderFields
      BY <1>3 DEF HostSend, Shapes
    <2>2. Head(host.out) \in S
      BY <2>1, Shift
    <2> DEFINE f == BulkOut(d, Head(host.out))
    <2>3. IsDevice(f) /\ SameNotice(d, f)
      BY <2>1, <2>2, BulkOutNotice DEF Shapes
    <2>4. d' = Pump(f).dev
      BY <1>3 DEF HostSend, Event
    <2> HIDE DEF f
    <2> QED
      BY <1>1, <2>3, <2>4, PumpNotice DEF SameNotice
  <1>4. ASSUME HostRead PROVE FALSE
    <2> DEFINE e == [d EXCEPT !.in = << >>]
               f == BulkIn(e)
    <2>1. IsDevice(e) /\ SameNotice(d, e)
      BY DEF Shapes, IsDevice, DeviceFields, SameNotice
    <2>2. d' = Pump(f).dev
      BY <1>4 DEF HostRead, Event
    <2> HIDE DEF e
    <2>3. IsDevice(f) /\ SameNotice(d, f)
      BY <2>1, BulkInNotice DEF SameNotice
    <2> HIDE DEF f
    <2> QED
      BY <1>1, <2>2, <2>3, PumpNotice DEF SameNotice
  <1>5. ASSUME HostNext PROVE FALSE
    BY <1>5 DEF HostNext
  <1>6. ASSUME ClassAbort PROVE FALSE
    BY <1>1, <1>6, CmdAbortQuiet DEF ClassAbort, Quiet, Shapes
  <1>7. ASSUME NEW phase \in {"idle", "restarted"}, Reconfigure(phase) PROVE d'.intr = <<d'.card>>
    <2> DEFINE f == [Configured EXCEPT !.buf = d.buf]
    <2>1. f.intr = <<f.card>>
      BY ConfiguredIs DEF IsDevice, DeviceFields
    <2>2. d' = f
      BY <1>7 DEF Reconfigure
    <2> HIDE DEF f
    <2> QED
      BY <2>1, <2>2
  <1>8. ASSUME HostInterrupt PROVE FALSE
    BY <1>8 DEF HostInterrupt
  <1>9. ASSUME NEW n \in Replies, Reply(n) PROVE FALSE
    <2> DEFINE p == Put(d, 0, Cells("reply", n))
               s == [p EXCEPT !.hdr.len = n]
    <2>1. Quiet(d, p)
      BY PutQuiet DEF Shapes
    <2> HIDE DEF p
    <2>2. n \in Nat
      BY RepliesAssumption, Sizes
    <2>3. Quiet(d, s)
      BY <2>1, <2>2, LengthQuiet, QuietTwice, ZenonT(60) DEF Quiet
    <2> HIDE DEF s
    <2>4. Answering(s, SendReply(Respond(s, "DATABLOCK", SlotNoError)), "DATABLOCK")
      BY <2>3, RespondAnswers DEF Quiet
    <2>5. d' = SendReply(Respond(s, "DATABLOCK", SlotNoError))
      BY <1>9 DEF Reply, s, p
    <2> QED
      BY <1>1, <2>3, <2>4, <2>5 DEF Answering, Quiet, SameNotice
  <1>10. ASSUME NEW present \in BOOLEAN, SetCard(present) PROVE d'.intr = <<d'.card>>
    <2> DEFINE e == [d EXCEPT !.card = present, !.change = TRUE]
    <2>1. d' = IntMessage(e)
      BY <1>10 DEF SetCard, Inserted
    <2>2. IsDevice(e) /\ e.change = TRUE /\ e.intrDone = d.intrDone
      BY DEF Shapes, IsDevice, DeviceFields
    <2> HIDE DEF e
    <2>3. e.intrDone = TRUE
      BY <2>2 DEF Notice
    <2>4. d' = [e EXCEPT !.intr = <<e.card>>, !.intrDone = FALSE, !.change = FALSE]
      BY <2>1, <2>2, <2>3 DEF IntMessage
    <2> QED
      BY <2>2, <2>4 DEF IsDevice, DeviceFields
  <1>11. ASSUME UNCHANGED vars PROVE FALSE
    BY <1>11 DEF vars
  <1> QED
    BY <1>2, <1>3, <1>4, <1>5, <1>6, <1>7, <1>8, <1>9, <1>10, <1>11
       DEF Next, HostReset, GiveUp

\* A driver that has read its notices is told of every change by the step that makes it,
\* whatever the commands, the aborts, the resets and the restarts (CCID_IntMessage,
\* CCID_SetIntrTransferStatus, io_usb_ccid_set_card_inserted).
THEOREM ChangeNotifiedAlways == Spec => ChangeNotified
  <1>1. Init => NoticeInv
    BY NoticeInit
  <1>2. NoticeInv /\ [Next]_vars => NoticeInv'
    BY NoticeStep
  <1>3. NoticeInv /\ [Next]_vars => [d.intr = << >> /\ d'.card # d.card => d'.intr = <<d'.card>>]_vars
    BY ChangeStep
  <1> QED
    BY <1>1, <1>2, <1>3, PTL DEF Spec, ChangeNotified

-----------------------------------------------------------------------------
(***************************************************************************)
(* The response and its command.  Header, buffer and transfer are shared,  *)
(* so the invariant follows the message: where it is being sent, what the  *)
(* device holds of it, and who is to answer it.  One hypothesis on the     *)
(* host is needed: a message of several packets that stays without         *)
(* response leaves the device in the middle of a reception, where the      *)
(* message of an abort would be taken for data, so the host resets.        *)
(***************************************************************************)

LongReset == \A c \in Commands : c.len + HeaderLen > EpSize => Recover(c) # "abort"

Good(h, p) == /\ p.hdr.seq = h.seq
              /\ h.cmd.type \in DOMAIN Answer => p.hdr.type = Answer[h.cmd.type]
Named(hdr, h) == hdr.type = h.cmd.type /\ hdr.len = h.cmd.len /\ hdr.seq = h.seq
Still(e, w) == /\ e.in = << >> /\ e.bulk # "SEND_RESP"
               /\ w = "wait" /\ e.media = "NONE" /\ e.state = "IDLE"

\* A message begins, or goes on after what the device has of it.
Sending(e, w, h) ==
    /\ Still(e, w) /\ h.got = << >> /\ h.cmd \in Commands \cup {AbortCommand}
    /\ \A i \in 1 .. Len(h.out) : i > 1 => h.out[i].hdr = NoHeader
    /\ \/ /\ e.bulk # "RECEIVE_DATA" /\ Named(h.out[1].hdr, h)
          /\ Remaining(h.out, h.cmd.len + HeaderLen)
       \/ /\ e.bulk = "RECEIVE_DATA" /\ Named(e.hdr, h) /\ Recover(h.cmd) # "abort"
          /\ e.len \in Nat /\ Remaining(h.out, (h.cmd.len + HeaderLen) - e.len)

\* A message sent is without response, in the hands of the application, or being answered,
\* the last packet of the response perhaps in the endpoint already.
Refused(e, w, h) ==
    Still(e, w) /\ h.got = << >> /\ (e.bulk = "RECEIVE_DATA" => Recover(h.cmd) # "abort")
Working(e, w, h) ==
    /\ e.in = << >> /\ e.bulk # "SEND_RESP" /\ e.media = "CCID" /\ e.state = "CCID"
    /\ w \in {"wait", "working"} /\ h.got = << >>
    /\ h.cmd.type \in {"XFRBLOCK", "SECURE"} /\ e.hdr.seq = h.seq
Responding(e, w, h) ==
    /\ e.bulk = "SEND_RESP" /\ e.len \in Nat
    /\ \E p : /\ e.in = <<p>> /\ Size(p) = Least(EpSize, e.len)
              /\ h.got = << >> => Good(h, p)
    /\ \/ w = "sending" /\ e.media = "CCID" /\ e.state = "CCID"
       \/ w = "wait" /\ e.media = "NONE" /\ e.state = "IDLE"
Ending(e, w, h) ==
    /\ e.bulk = "IDLE" /\ w = "wait" /\ e.media = "NONE" /\ e.state = "IDLE"
    /\ h.got # << >> /\ \E p : e.in = <<p>> /\ Size(p) < EpSize
Waiting(e, w, h) == Refused(e, w, h) \/ Working(e, w, h) \/ Responding(e, w, h) \/ Ending(e, w, h)

ResponseOf(e, w, h) ==
    /\ \E S : h.got \in Seq(S)
    /\ h.got # << >> => Good(h, h.got[1])
    /\ \/ h.phase \in {"idle", "done", "restarted"} /\ Still(e, w) /\ e.bulk # "RECEIVE_DATA"
       \/ h.phase = "sending" /\ Sending(e, w, h)
       \/ h.phase = "waiting" /\ Waiting(e, w, h)
ResponseInv == ResponseOf(d, doing, host)

\* What does not touch the transfer does not touch the response.
SameWork(e, f) == /\ f.bulk = e.bulk /\ f.in = e.in /\ f.hdr = e.hdr /\ f.len = e.len
                  /\ f.media = e.media /\ f.state = e.state
SameHost(h, k) == /\ k.phase = h.phase /\ k.seq = h.seq /\ k.cmd = h.cmd
                  /\ k.out = h.out /\ k.got = h.got

\* A step that leaves the transfer and the message alone keeps the invariant.
LEMMA ResponseKept ==
    ASSUME NEW e, NEW w, NEW h, ResponseOf(e, w, h), NEW f, NEW k, SameWork(e, f), SameHost(h, k)
    PROVE  ResponseOf(f, w, k)
  <1>1. \A p : Good(k, p) <=> Good(h, p)
    BY DEF SameHost, Good
  <1>2. Still(f, w) <=> Still(e, w)
    BY DEF SameWork, Still
  <1>3. Sending(e, w, h) => Sending(f, w, k)
    BY <1>2 DEF SameWork, SameHost, Sending, Named
  <1>4. Waiting(e, w, h) => Waiting(f, w, k)
    BY <1>1, <1>2 DEF SameWork, SameHost, Waiting, Refused, Working, Responding, Ending
  <1> QED
    BY <1>1, <1>2, <1>3, <1>4 DEF SameWork, SameHost, ResponseOf

\* What io_exchange makes of an event while the application waits.
LEMMA PumpWaiting ==
    ASSUME doing = "wait", NEW e
    PROVE  /\ Pump(e).dev = e /\ Pump(e).doing \in {"wait", "working"}
           /\ e.state = "IDLE" => Pump(e).doing = "wait"
  BY DEF Pump

\* A message received whole is without response, given to the application or being answered.
LEMMA DecodedWaiting ==
    ASSUME NEW h, NEW g, IsDevice(g), g.in = << >>, g.bulk # "SEND_RESP",
           g.media = "NONE", g.state = "IDLE", g.hdr.len \in Nat,
           g.hdr.seq = h.seq, g.hdr.type = h.cmd.type, h.got = << >>,
           g.bulk = "RECEIVE_DATA" => Recover(h.cmd) # "abort",
           NEW f, Decoded(g, f), doing = "wait"
    PROVE  Waiting(Pump(f).dev, Pump(f).doing, h)
  <1>1. /\ Pump(f).dev = f /\ Pump(f).doing \in {"wait", "working"}
        /\ f.state = "IDLE" => Pump(f).doing = "wait"
    BY PumpWaiting
  <1> DEFINE type == IF g.hdr.type \in DOMAIN Asked THEN Answer[g.hdr.type] ELSE "SLOTSTATUS"
  <1>2. CASE Answering(g, f, type)
    <2>1. DOMAIN Answer = DOMAIN Asked
      BY DEF Answer
    <2>2. Responding(f, "wait", h)
      BY <1>2, <2>1 DEF Answering, Responding, Good
    <2> QED
      BY <1>1, <1>2, <2>2 DEF Answering, Waiting
  <1>3. CASE g.hdr.type \in {"XFRBLOCK", "SECURE"} /\ Given(g, f)
    BY <1>1, <1>3 DEF Given, SameTransfer, Working, Waiting
  <1>4. CASE Quiet(g, f)
    BY <1>1, <1>4 DEF Quiet, SameTransfer, Refused, Still, Waiting
  <1> QED
    BY <1>2, <1>3, <1>4 DEF Decoded

\* The first of the packets left: it is the last one, or full and followed by others.
LEMMA RemainingHead ==
    ASSUME NEW S, NEW out \in Seq(S), out # << >>, NEW left \in Int, Remaining(out, left)
    PROVE  /\ Len(out) = 1 => Size(out[1]) = left
           /\ Len(out) # 1 => /\ Size(out[1]) = EpSize /\ left > EpSize
                              /\ Remaining(Tail(out), left - EpSize)
  <1>1. EpSize \in Nat /\ EpSize > 0 /\ Len(out) \in Nat /\ Len(out) >= 1
    BY Sizes DEF Remaining
  <1>2. CASE Len(out) = 1
    BY <1>1, <1>2 DEF Remaining
  <1>3. CASE Len(out) # 1
    <2> DEFINE t == Tail(out)
               m == Len(t)
    <2>1. /\ m = Len(out) - 1 /\ m \in Nat /\ m >= 1
          /\ \A i \in 1 .. m : t[i] = out[i + 1]
      BY <1>1, <1>3, Shift
    <2>2. Size(out[1]) = EpSize
      <3> DEFINE n == Len(out)
      <3>1. n \in Nat /\ n >= 1 /\ n # 1
        BY <1>1, <1>3
      <3> HIDE DEF n
      <3>2. 1 \in 1 .. n /\ 1 < n
        BY <3>1
      <3>3. 1 \in 1 .. Len(out) /\ 1 < Len(out)
        BY <3>2 DEF n
      <3>4. \A i \in 1 .. Len(out) : i < Len(out) => Size(out[i]) = EpSize
        BY DEF Remaining
      <3> QED
        BY <3>3, <3>4
    <2>3. t[m] = out[Len(out)]
      BY <2>1
    <2>4. \A i \in 1 .. m : i < m => Size(t[i]) = EpSize
      <3> TAKE i \in 1 .. m
      <3>1. i + 1 \in 1 .. Len(out) /\ (i < m => i + 1 < Len(out))
        BY <2>1
      <3> QED
        BY <2>1, <3>1 DEF Remaining
    <2> HIDE DEF t, m
    <2>5. Size(t[m]) = left - m * EpSize /\ Size(t[m]) \in 1 .. EpSize
      BY <2>1, <2>3 DEF Remaining
    <2>6. m * EpSize = (m - 1) * EpSize + EpSize /\ (m - 1) * EpSize \in Nat
      BY <1>1, <2>1
    <2>7. left > EpSize
      BY <1>1, <2>5, <2>6
    <2>8. Size(t[m]) = (left - EpSize) - (m - 1) * EpSize
      BY <1>1, <2>5, <2>6
    <2>9. Remaining(t, left - EpSize)
      BY <2>1, <2>4, <2>5, <2>8 DEF Remaining, m
    <2> QED
      BY <1>3, <2>2, <2>7, <2>9 DEF t
  <1> QED
    BY <1>2, <1>3

\* A packet of a message is sent.
LEMMA SendStep ==
    ASSUME LongReset, Shapes, ResponseInv, HostSend PROVE ResponseInv'
  <1>1. /\ host.phase = "sending" /\ Sending(d, doing, host) /\ host.got = << >>
        /\ IsDevice(d) /\ d.in = << >> /\ doing = "wait" /\ d.media = "NONE" /\ d.state = "IDLE"
        /\ d.bulk # "SEND_RESP"
    BY DEF HostSend, ResponseInv, ResponseOf, Sending, Still, Shapes
  <1>2. PICK S : /\ host.out \in Seq(S) /\ host.out # << >>
                 /\ \A p \in S : DOMAIN p.hdr = HeaderFields
    BY DEF HostSend, Shapes
  <1> DEFINE out == host.out
             p == out[1]
             rest == Tail(out)
             c == host.cmd
             total == c.len + HeaderLen
             f == BulkOut(d, p)
             phase == IF Len(out) = 1 THEN "waiting" ELSE host.phase
  <1>3. /\ DOMAIN p.hdr = HeaderFields /\ Head(out) = p /\ rest \in Seq(S)
        /\ Len(out) \in Nat /\ Len(out) >= 1 /\ Len(rest) = Len(out) - 1
        /\ \A i \in 1 .. Len(rest) : rest[i] = out[i + 1]
    BY <1>2, Shift
  <1>4. d' = Pump(f).dev /\ doing' = Pump(f).doing
    BY <1>3 DEF HostSend, Event
  <1>5. host' = [host EXCEPT !.out = rest, !.phase = phase]
    BY DEF HostSend
  <1>6. c \in Commands \cup {AbortCommand} /\ c.len \in 0 .. BufLen /\ total \in Nat
    BY <1>1, CommandsAssumption, Sizes DEF Sending, AbortCommand
  <1>7. total > EpSize => Recover(c) # "abort"
    BY <1>6, Sizes DEF LongReset, AbortCommand
  <1> HIDE DEF phase
  <1>8. /\ host'.phase = phase /\ host'.out = rest /\ host'.got = host.got
        /\ host'.cmd = c /\ host'.seq = host.seq
    BY <1>5 DEF Shapes, HostFields
  <1>9. \A i \in 1 .. Len(rest) : rest[i].hdr = NoHeader
    <2> TAKE i \in 1 .. Len(rest)
    <2>1. i + 1 \in 1 .. Len(out) /\ i + 1 > 1 /\ rest[i] = out[i + 1]
      BY <1>3
    <2> QED
      BY <1>1, <2>1 DEF Sending
  <1> HIDE DEF rest, f, total
  <1>10. ASSUME Len(out) = 1,
                NEW g, Begun(d, g), g.hdr.seq = host.seq, g.hdr.type = c.type, g.hdr.len = c.len,
                g.bulk # "SEND_RESP", g.bulk = "RECEIVE_DATA" => Recover(c) # "abort",
                f = CmdDecode(g)
         PROVE  ResponseInv'
    <2>1. Decoded(g, f)
      BY <1>10, CmdDecodeDecoded DEF Begun
    <2>2. /\ IsDevice(g) /\ g.in = << >> /\ g.media = "NONE" /\ g.state = "IDLE"
          /\ g.hdr.len \in Nat
      BY <1>1, <1>6, <1>10, Sizes DEF Begun
    <2>3. g.hdr.seq = host'.seq /\ g.hdr.type = host'.cmd.type /\ host'.got = << >>
      BY <1>1, <1>8, <1>10
    <2>4. g.bulk = "RECEIVE_DATA" => Recover(host'.cmd) # "abort"
      BY <1>8, <1>10
    <2> DEFINE h == host'
    <2> HIDE DEF h
    <2>5. Waiting(Pump(f).dev, Pump(f).doing, h)
      BY <1>1, <1>10, <2>1, <2>2, <2>3, <2>4, DecodedWaiting DEF h
    <2> QED
      BY <1>1, <1>4, <1>8, <1>10, <2>5 DEF h, ResponseInv, ResponseOf, phase
  <1>11. ASSUME Len(out) # 1, total > EpSize,
                Begun(d, f), f.bulk = "RECEIVE_DATA", Named(f.hdr, host),
                f.len \in Nat, Remaining(rest, total - f.len)
         PROVE  ResponseInv'
    <2>1. d' = f /\ doing' = "wait"
      BY <1>1, <1>4, <1>11, PumpWaiting DEF Begun
    <2>2. Sending(d', doing', host')
      BY <1>1, <1>6, <1>7, <1>8, <1>9, <1>11, <2>1 DEF Sending, Still, Begun, Named, total
    <2> QED
      BY <1>1, <1>8, <1>11, <2>2 DEF ResponseInv, ResponseOf, phase
  <1>12. CASE d.bulk # "RECEIVE_DATA"
    <2>1. Named(p.hdr, host) /\ Remaining(out, total)
      BY <1>1, <1>12 DEF Sending, total
    <2>2. /\ Len(out) = 1 => Size(p) = total
          /\ Len(out) # 1 => Size(p) = EpSize /\ total > EpSize /\ Remaining(rest, total - EpSize)
      BY <1>2, <1>6, <2>1, RemainingHead DEF rest
    <2>3. Size(p) \in Nat /\ Size(p) >= HeaderLen /\ (Size(p) = total <=> Len(out) = 1)
      BY <1>6, <2>2, Sizes DEF total
    <2>4. FirstTaken(d, p, f)
      BY <1>1, <1>3, <1>12, <2>3, FirstPacketTaken, Sizes DEF BulkOut, f
    <2>5. PICK g : /\ Begun(d, g) /\ g.hdr = p.hdr
                   /\ \/ p.hdr.len > BufLen /\ Begun(g, f) /\ f.bulk = "UNCORRECT_LENGTH"
                      \/ Size(p) = p.hdr.len + HeaderLen /\ g.bulk = "IDLE" /\ f = CmdDecode(g)
                      \/ /\ Size(p) # p.hdr.len + HeaderLen
                         /\ Begun(g, f) /\ f.hdr = g.hdr /\ f.bulk = "RECEIVE_DATA" /\ f.len = Size(p)
      BY <2>4 DEF FirstTaken
    <2>6. p.hdr.len = c.len /\ p.hdr.type = c.type /\ p.hdr.seq = host.seq /\ ~(c.len > BufLen)
      BY <1>6, <2>1, Sizes DEF Named
    <2>7. CASE Len(out) = 1
      <3>1. Size(p) = p.hdr.len + HeaderLen
        BY <2>2, <2>6, <2>7 DEF total
      <3> QED
        BY <1>10, <2>5, <2>6, <2>7, <3>1
    <2>8. CASE Len(out) # 1
      <3>1. Size(p) # p.hdr.len + HeaderLen
        BY <2>3, <2>6, <2>8 DEF total
      <3>2. Begun(g, f) /\ f.hdr = p.hdr /\ f.bulk = "RECEIVE_DATA" /\ f.len = EpSize
        BY <2>2, <2>5, <2>6, <2>8, <3>1
      <3>3. Begun(d, f) /\ Named(f.hdr, host)
        BY <2>1, <2>5, <3>2 DEF Begun, SameNotice
      <3> QED
        BY <1>11, <2>2, <2>8, <3>2, <3>3, Sizes
    <2> QED
      BY <2>7, <2>8
  <1>13. CASE d.bulk = "RECEIVE_DATA"
    <2>1. /\ Named(d.hdr, host) /\ d.len \in Nat /\ Remaining(out, total - d.len)
          /\ Recover(c) # "abort"
      BY <1>1, <1>13 DEF Sending, total
    <2>2. total - d.len \in Int
      BY <1>6, <2>1
    <2>3. /\ Len(out) = 1 => Size(p) = total - d.len
          /\ Len(out) # 1 => /\ Size(p) = EpSize /\ total - d.len > EpSize
                             /\ Remaining(rest, (total - d.len) - EpSize)
      BY <1>2, <2>1, <2>2, RemainingHead DEF rest
    <2>4. NextTaken(d, p, f)
      BY <1>1, <1>13, NextPacketTaken DEF BulkOut, f
    <2>5. d.hdr.len = c.len /\ d.hdr.type = c.type /\ d.hdr.seq = host.seq
      BY <2>1 DEF Named
    <2>6. CASE Len(out) = 1
      <3>1. d.len + Size(p) = d.hdr.len + HeaderLen
        BY <1>6, <2>1, <2>3, <2>5, <2>6 DEF total
      <3>2. PICK g : Begun(d, g) /\ g.hdr = d.hdr /\ g.bulk = d.bulk /\ f = CmdDecode(g)
        BY <2>4, <3>1 DEF NextTaken
      <3> QED
        BY <1>10, <1>13, <2>1, <2>5, <2>6, <3>2
    <2>7. CASE Len(out) # 1
      <3>1. /\ ~(Size(p) < EpSize) /\ d.len + Size(p) < d.hdr.len + HeaderLen
            /\ d.len + Size(p) \in Nat /\ total > EpSize
            /\ total - (d.len + Size(p)) = (total - d.len) - EpSize
        BY <1>6, <2>1, <2>3, <2>5, <2>7, Sizes DEF total
      <3>2. Begun(d, f) /\ f.hdr = d.hdr /\ f.bulk = d.bulk /\ f.len = d.len + Size(p)
        BY <2>4, <3>1 DEF NextTaken
      <3> QED
        BY <1>11, <1>13, <2>1, <2>3, <2>7, <3>1, <3>2
    <2> QED
      BY <2>6, <2>7
  <1> QED
    BY <1>12, <1>13

\* The next packet of a response: a full one before others, the last one, or none.
LEMMA BulkInTaken ==
    ASSUME NEW e, IsDevice(e), e.bulk = "SEND_RESP", e.len \in Nat
    PROVE  LET f == BulkIn(e)
               n == Least(EpSize, e.len)
           IN /\ f.media = e.media /\ n \in Nat /\ n <= EpSize
              /\ \/ /\ n = EpSize /\ f.bulk = "SEND_RESP" /\ f.len \in Nat /\ f.state = e.state
                    /\ \E p : f.in = <<p>> /\ Size(p) = Least(EpSize, f.len)
                 \/ /\ n = EpSize /\ f.bulk = "IDLE" /\ f.state = "IDLE"
                    /\ \E p : f.in = <<p>> /\ Size(p) < EpSize
                 \/ n < EpSize /\ f.bulk = "IDLE" /\ f.state = "IDLE" /\ f.in = e.in
  <1> DEFINE n == Least(EpSize, e.len)
             left == e.len - n
             at == IF e.src = "header" THEN n - HeaderLen ELSE e.pos + n
             next == [e EXCEPT !.src = "data", !.pos = at, !.len = left]
             Data(m) == SendData(next, [hdr |-> NoHeader, data |-> Slice(e, at, m)])
  <1>1. BulkIn(e) = IF left >= EpSize THEN Data(EpSize)
                    ELSE IF left > 0 \/ e.len = EpSize THEN LastXfer(Data(left))
                    ELSE LastXfer(next)
    BY DEF BulkIn
  <1>2. /\ n \in Nat /\ n <= EpSize /\ left \in Nat /\ EpSize \in Nat
        /\ left > 0 \/ e.len = EpSize => n = EpSize
        /\ ~(left > 0 \/ e.len = EpSize) => n < EpSize
    BY Sizes DEF Least
  <1> HIDE DEF at, left, n
  <1>3. /\ IsDevice(next) /\ next.media = e.media /\ next.state = e.state
        /\ next.bulk = "SEND_RESP" /\ next.len = left /\ next.in = e.in
    BY DEF IsDevice, DeviceFields
  <1> HIDE DEF next
  <1>4. ASSUME NEW m \in Nat
        PROVE  /\ IsDevice(Data(m)) /\ Data(m).media = e.media /\ Data(m).state = e.state
               /\ Data(m).bulk = "SEND_RESP" /\ Data(m).len = left
               /\ \E p : Data(m).in = <<p>> /\ Size(p) = m
    <2> DEFINE p == [hdr |-> NoHeader, data |-> Slice(e, at, m)]
    <2>1. Data(m) = [next EXCEPT !.in = <<p>>]
      BY DEF SendData
    <2>2. Size(p) = m
      BY SliceLen DEF Size, NoHeader
    <2> HIDE DEF p
    <2>3. Data(m).in = <<p>>
      BY <1>3, <2>1 DEF IsDevice, DeviceFields
    <2> QED
      BY <1>3, <2>1, <2>2, <2>3 DEF IsDevice, DeviceFields
  <1>5. \A f : IsDevice(f) => /\ LastXfer(f).media = f.media /\ LastXfer(f).in = f.in
                              /\ LastXfer(f).bulk = "IDLE" /\ LastXfer(f).state = "IDLE"
    BY DEF LastXfer, IsDevice, DeviceFields
  <1> HIDE DEF Data
  <1>6. CASE left >= EpSize
    <2>1. n = EpSize /\ Least(EpSize, left) = EpSize
      BY <1>2, <1>6, Sizes DEF Least
    <2>2. BulkIn(e) = Data(EpSize)
      BY <1>1, <1>6
    <2> QED
      BY <1>2, <1>4, <2>1, <2>2 DEF n
  <1>7. CASE ~(left >= EpSize) /\ (left > 0 \/ e.len = EpSize)
    <2>1. n = EpSize /\ left < EpSize
      BY <1>2, <1>7
    <2>2. BulkIn(e) = LastXfer(Data(left))
      BY <1>1, <1>7
    <2> QED
      BY <1>2, <1>4, <1>5, <2>1, <2>2 DEF n
  <1>8. CASE ~(left >= EpSize) /\ ~(left > 0 \/ e.len = EpSize)
    <2>1. BulkIn(e) = LastXfer(next)
      BY <1>1, <1>8
    <2> QED
      BY <1>2, <1>3, <1>5, <1>8, <2>1 DEF n
  <1> QED
    BY <1>6, <1>7, <1>8

\* The end of a transfer: io_exchange returns to an application that was sending.
LEMMA PumpEnd ==
    ASSUME NEW e, IsDevice(e), e.state = "IDLE",
           doing = "sending" \/ (doing = "wait" /\ e.media = "NONE")
    PROVE  /\ Pump(e).doing = "wait" /\ Pump(e).dev.media = "NONE" /\ Pump(e).dev.state = "IDLE"
           /\ Pump(e).dev.bulk = e.bulk /\ Pump(e).dev.in = e.in
  BY DEF Pump, IsDevice, DeviceFields

\* A packet is read.
LEMMA ReadStep == ASSUME Shapes, ResponseInv, HostRead PROVE ResponseInv'
  <1>1. /\ host.phase = "waiting" /\ d.in # << >> /\ IsDevice(d)
        /\ Responding(d, doing, host) \/ Ending(d, doing, host)
    BY DEF HostRead, ResponseInv, ResponseOf, Waiting, Refused, Working, Still, Shapes
  <1>2. PICK p : /\ d.in = <<p>>
                 /\ \/ Responding(d, doing, host) /\ Size(p) = Least(EpSize, d.len)
                       /\ (host.got = << >> => Good(host, p))
                    \/ Ending(d, doing, host) /\ Size(p) < EpSize
    BY <1>1 DEF Responding, Ending
  <1> DEFINE e == [d EXCEPT !.in = << >>]
             f == BulkIn(e)
             got == Append(host.got, p)
             phase == IF Size(p) < EpSize THEN "done" ELSE host.phase
             all == host.data \o p.data
  <1>3. /\ IsDevice(e) /\ e.in = << >> /\ e.bulk = d.bulk /\ e.len = d.len
        /\ e.media = d.media /\ e.state = d.state
    BY <1>1 DEF IsDevice, DeviceFields
  <1>4. d' = Pump(f).dev /\ doing' = Pump(f).doing
    BY DEF HostRead, Event
  <1>5. host' = [host EXCEPT !.got = got, !.data = all, !.phase = phase]
    BY <1>2 DEF HostRead
  <1> HIDE DEF e
  <1>6. PICK S : host.got \in Seq(S)
    BY DEF ResponseInv, ResponseOf
  <1>7. got \in Seq(S \cup {p}) /\ got # << >> /\ got[1] = IF host.got = << >> THEN p ELSE host.got[1]
    <2>1. host.got \in Seq(S \cup {p})
      BY <1>6
    <2> DEFINE h == host.got
    <2> HIDE DEF h
    <2>2. got \in Seq(S \cup {p}) /\ Len(got) = Len(h) + 1 /\ Len(h) \in Nat
      BY <2>1 DEF h
    <2>3. CASE h = << >>
      BY <2>2, <2>3 DEF h
    <2>4. CASE h # << >>
      <3>1. 1 \in 1 .. Len(h)
        BY <2>1, <2>2, <2>4 DEF h
      <3>2. got[1] = h[1]
        BY <2>1, <3>1 DEF h
      <3> QED
        BY <2>2, <2>4, <3>2 DEF h
    <2> QED
      BY <2>3, <2>4
  <1>8. Good(host, got[1])
    <2>1. host.got # << >> => Good(host, host.got[1])
      BY DEF ResponseInv, ResponseOf
    <2>2. host.got = << >> => Good(host, p)
      BY <1>2 DEF Ending
    <2> QED
      BY <1>7, <2>1, <2>2
  <1> HIDE DEF got, phase, all
  <1>9. /\ host'.phase = phase /\ host'.got = got
        /\ host'.cmd = host.cmd /\ host'.seq = host.seq
    BY <1>5 DEF Shapes, HostFields
  <1>10. (\E T : host'.got \in Seq(T)) /\ host'.got # << >> /\ Good(host', host'.got[1])
    BY <1>7, <1>8, <1>9 DEF Good
  <1>11. IsDevice(f)
    BY <1>3, BulkInNotice
  <1>12. CASE Ending(d, doing, host) /\ Size(p) < EpSize
    <2>1. f = e
      BY <1>3, <1>12 DEF Ending, BulkIn
    <2> HIDE DEF f
    <2>2. Still(d', doing') /\ d'.bulk = "IDLE"
      BY <1>3, <1>4, <1>12, <2>1, PumpEnd DEF Ending, Still
    <2>3. host'.phase = "done"
      BY <1>9, <1>12 DEF phase
    <2> QED
      BY <1>10, <2>2, <2>3 DEF ResponseInv, ResponseOf
  <1>13. CASE Responding(d, doing, host) /\ Size(p) = Least(EpSize, d.len)
    <2>1. /\ e.bulk = "SEND_RESP" /\ e.len \in Nat
          /\ \/ doing = "sending" /\ e.media = "CCID" /\ e.state = "CCID"
             \/ doing = "wait" /\ e.media = "NONE" /\ e.state = "IDLE"
      BY <1>3, <1>13 DEF Responding
    <2>2. /\ f.media = e.media /\ Size(p) \in Nat /\ Size(p) <= EpSize
          /\ \/ /\ Size(p) = EpSize /\ f.bulk = "SEND_RESP" /\ f.len \in Nat /\ f.state = e.state
                /\ \E q : f.in = <<q>> /\ Size(q) = Least(EpSize, f.len)
             \/ /\ Size(p) = EpSize /\ f.bulk = "IDLE" /\ f.state = "IDLE"
                /\ \E q : f.in = <<q>> /\ Size(q) < EpSize
             \/ Size(p) < EpSize /\ f.bulk = "IDLE" /\ f.state = "IDLE" /\ f.in = e.in
      BY <1>3, <1>13, <2>1, BulkInTaken
    <2> HIDE DEF f
    <2>3. CASE f.bulk = "SEND_RESP"
      <3>1. d' = f /\ doing' = doing
        BY <1>4, <2>1, <2>2, <2>3 DEF Pump
      <3>2. host'.phase = "waiting"
        BY <1>1, <1>9, <2>2, <2>3, Sizes DEF phase
      <3>3. Responding(d', doing', host')
        BY <1>10, <2>1, <2>2, <2>3, <3>1 DEF Responding
      <3> QED
        BY <1>10, <3>2, <3>3 DEF ResponseInv, ResponseOf, Waiting
    <2>4. CASE f.bulk = "IDLE"
      <3>1. /\ doing' = "wait" /\ d'.media = "NONE" /\ d'.state = "IDLE"
            /\ d'.bulk = "IDLE" /\ d'.in = f.in
        BY <1>4, <1>11, <2>1, <2>2, <2>4, PumpEnd
      <3>2. CASE Size(p) = EpSize
        <4>1. host'.phase = "waiting"
          BY <1>1, <1>9, <3>2, Sizes DEF phase
        <4>2. Ending(d', doing', host')
          BY <1>10, <2>2, <2>4, <3>1, <3>2, Sizes DEF Ending
        <4> QED
          BY <1>10, <4>1, <4>2 DEF ResponseInv, ResponseOf, Waiting
      <3>3. CASE Size(p) < EpSize
        <4>1. host'.phase = "done"
          BY <1>9, <3>3 DEF phase
        <4>2. Still(d', doing')
          BY <1>3, <2>2, <2>4, <3>1, <3>3, Sizes DEF Still
        <4> QED
          BY <1>10, <3>1, <4>1, <4>2 DEF ResponseInv, ResponseOf
      <3> QED
        BY <2>2, <3>2, <3>3
    <2> QED
      BY <2>2, <2>3, <2>4
  <1> QED
    BY <1>2, <1>12, <1>13

\* A message begins on a device at rest.
LEMMA MessageBegins ==
    ASSUME NEW c \in Commands \cup {AbortCommand}, NEW e, NEW h, Still(e, "wait"),
           e.bulk # "RECEIVE_DATA",
           h.phase = "sending", h.cmd = c, h.got = << >>, h.out = Packets(c, h.seq)
    PROVE  ResponseOf(e, "wait", h)
  <1>1. c.len \in Nat /\ c.type # "NONE"
    BY PacketsSent
  <1>2. /\ h.out[1].hdr.type = c.type /\ h.out[1].hdr.len = c.len /\ h.out[1].hdr.seq = h.seq
        /\ \A i \in 1 .. Len(h.out) : i > 1 => h.out[i].hdr = NoHeader
        /\ Remaining(h.out, c.len + HeaderLen)
    BY <1>1, PacketsShape
  <1>3. Sending(e, "wait", h)
    BY <1>2 DEF Sending, Named
  <1>4. \E S : h.got \in Seq(S)
    <2>1. << >> \in Seq({})
      OBVIOUS
    <2> QED
      BY <2>1
  <1> QED
    BY <1>3, <1>4 DEF ResponseOf

\* The application answers the block it was given.
LEMMA ReplyStep ==
    ASSUME Shapes, ResponseInv, NEW n \in Replies, Reply(n) PROVE ResponseInv'
  <1>1. doing = "working" /\ d.state = "CCID" /\ doing' = "sending" /\ host' = host
    BY DEF Reply
  <1>2. host.phase = "waiting" /\ Working(d, doing, host)
    BY <1>1 DEF ResponseInv, ResponseOf, Sending, Still, Waiting, Refused, Responding, Ending
  <1> DEFINE p == Put(d, 0, Cells("reply", n))
             s == [p EXCEPT !.hdr.len = n]
             f == SendReply(Respond(s, "DATABLOCK", SlotNoError))
  <1>3. Quiet(d, p)
    BY PutQuiet DEF Shapes
  <1> HIDE DEF p
  <1>4. n \in Nat
    BY RepliesAssumption, Sizes
  <1>5. Quiet(p, s) /\ s.hdr.len = n
    <2>1. DOMAIN p = DeviceFields /\ DOMAIN p.hdr = HeaderFields
      BY <1>3 DEF Quiet, IsDevice
    <2> QED
      BY <1>3, <1>4, <2>1, LengthQuiet DEF Quiet, DeviceFields, HeaderFields
  <1>6. d' = f
    BY DEF Reply, s, p
  <1> HIDE DEF s
  <1>7. Quiet(d, s)
    BY <1>3, <1>5, QuietTwice
  <1>8. Answering(s, f, "DATABLOCK")
    BY <1>7, RespondAnswers DEF Quiet
  <1>9. PICK q : /\ f.in = <<q>> /\ q.hdr.seq = f.hdr.seq /\ q.hdr.type = "DATABLOCK"
                 /\ f.len \in Nat /\ Size(q) = Least(EpSize, f.len)
    BY <1>4, <1>5, <1>8 DEF Answering
  <1>10. Good(host, q)
    <2>1. q.hdr.seq = host.seq
      BY <1>2, <1>7, <1>8, <1>9 DEF Answering, Quiet, SameTransfer, Working
    <2>2. host.cmd.type \in {"XFRBLOCK", "SECURE"} /\ Answer[host.cmd.type] = "DATABLOCK"
      BY <1>2 DEF Working, Answer, Asked
    <2> QED
      BY <1>9, <2>1, <2>2 DEF Good
  <1>11. /\ f.bulk = "SEND_RESP" /\ f.media = "CCID" /\ f.state = "CCID"
    BY <1>2, <1>7, <1>8 DEF Answering, Quiet, Working
  <1> HIDE DEF f
  <1>12. Responding(f, "sending", host)
    BY <1>9, <1>10, <1>11 DEF Responding
  <1> QED
    BY <1>1, <1>2, <1>6, <1>12 DEF ResponseInv, ResponseOf, Waiting

\* Every step keeps the response that of its command.
LEMMA ResponseStep ==
    ASSUME LongReset, Shapes, ResponseInv, [Next]_vars PROVE ResponseInv'
  <1>1. ASSUME NEW c \in Commands, HostCommand(c) PROVE ResponseInv'
    <2> DEFINE seq == (host.seq + 1) % Seqs
               ps == Packets(c, seq)
               h == host'
    <2>1. d' = d /\ doing' = doing /\ host.phase = "idle"
      BY <1>1 DEF HostCommand
    <2>2. host' = [host EXCEPT !.phase = "sending", !.seq = seq, !.cmd = c, !.got = << >>,
                               !.data = << >>, !.out = ps]
      BY <1>1 DEF HostCommand
    <2>3. doing = "wait" /\ Still(d, "wait") /\ d.bulk # "RECEIVE_DATA"
      BY <2>1 DEF ResponseInv, ResponseOf, Still
    <2> HIDE DEF seq
    <2>4. h.phase = "sending" /\ h.seq = seq /\ h.cmd = c /\ h.got = << >> /\ h.out = Packets(c, seq)
      BY <2>2 DEF Shapes, HostFields
    <2> HIDE DEF h
    <2>5. ResponseOf(d, "wait", h)
      BY <2>3, <2>4, MessageBegins
    <2> QED
      BY <2>1, <2>3, <2>5 DEF ResponseInv, h
  <1>2. ASSUME HostNext PROVE ResponseInv'
    <2>1. host.phase \in {"done", "restarted"} /\ d' = d /\ doing' = doing
      BY <1>2 DEF HostNext
    <2>2. host' = [host EXCEPT !.phase = "idle", !.cmd = NoHeader, !.got = << >>, !.data = << >>]
      BY <1>2 DEF HostNext
    <2>3. host'.phase = "idle" /\ host'.got = << >>
      BY <2>2 DEF Shapes, HostFields
    <2>4. << >> \in Seq({})
      OBVIOUS
    <2> QED
      BY <2>1, <2>3, <2>4 DEF ResponseInv, ResponseOf
  <1>3. ASSUME ClassAbort PROVE ResponseInv'
    <2> DEFINE h == host'
               f == CmdAbort(d, 0, host.seq)
    <2>1. Unanswered /\ Recover(host.cmd) = "abort" /\ d' = f /\ doing' = doing
      BY <1>3 DEF ClassAbort
    <2>2. Refused(d, doing, host)
      BY <2>1 DEF Unanswered, ResponseInv, ResponseOf, Waiting, Working, Responding, Ending
    <2>3. Quiet(d, f)
      BY CmdAbortQuiet DEF Shapes
    <2> HIDE DEF f
    <2>4. doing = "wait" /\ Still(f, "wait") /\ f.bulk # "RECEIVE_DATA"
      BY <2>1, <2>2, <2>3 DEF Refused, Still, Quiet, SameTransfer
    <2>5. host' = [host EXCEPT !.phase = "sending", !.cmd = AbortCommand,
                               !.out = Packets(AbortCommand, host.seq)]
      BY <1>3 DEF ClassAbort
    <2>6. /\ h.phase = "sending" /\ h.seq = host.seq /\ h.cmd = AbortCommand
          /\ h.got = << >> /\ h.out = Packets(AbortCommand, host.seq)
      BY <2>2, <2>5 DEF Shapes, HostFields, Refused
    <2> HIDE DEF h
    <2>7. ResponseOf(f, "wait", h)
      BY <2>4, <2>6, MessageBegins
    <2> QED
      BY <2>1, <2>4, <2>7 DEF ResponseInv, h
  <1>4. ASSUME NEW phase \in {"idle", "restarted"}, Reconfigure(phase) PROVE ResponseInv'
    <2> DEFINE f == [Configured EXCEPT !.buf = d.buf]
    <2>1. /\ f.bulk = "IDLE" /\ f.in = << >> /\ f.media = "NONE" /\ f.state = "IDLE"
      BY ConfiguredIs DEF IsDevice, DeviceFields
    <2>2. d' = f /\ doing' = "wait" /\ host' = [host EXCEPT !.phase = phase, !.out = << >>,
                               !.got = << >>, !.data = << >>]
      BY <1>4 DEF Reconfigure
    <2> HIDE DEF f
    <2>3. host'.phase = phase /\ host'.got = << >>
      BY <2>2 DEF Shapes, HostFields
    <2>4. << >> \in Seq({})
      OBVIOUS
    <2> QED
      BY <2>1, <2>2, <2>3, <2>4 DEF ResponseInv, ResponseOf, Still
  <1>5. ASSUME SameWork(d, d'), doing' = doing, SameHost(host, host') PROVE ResponseInv'
    <2> DEFINE f == d'
               k == host'
    <2>1. SameWork(d, f) /\ SameHost(host, k)
      BY <1>5
    <2> HIDE DEF f, k
    <2>2. ResponseOf(f, doing, k)
      BY <2>1, ResponseKept DEF ResponseInv
    <2> QED
      BY <1>5, <2>2 DEF ResponseInv, f, k
  <1>6. ASSUME HostInterrupt PROVE ResponseInv'
    <2>1. d' = [d EXCEPT !.intr = << >>, !.intrDone = TRUE] /\ doing' = doing
      BY <1>6 DEF HostInterrupt
    <2>2. host' = host
      BY <1>6 DEF HostInterrupt
    <2>3. SameWork(d, d')
      BY <2>1 DEF Shapes, IsDevice, DeviceFields, SameWork
    <2>4. SameHost(host, host')
      BY <2>2 DEF Shapes, HostFields, SameHost
    <2> QED
      BY <1>5, <2>1, <2>3, <2>4
  <1>7. ASSUME NEW present \in BOOLEAN, SetCard(present) PROVE ResponseInv'
    <2> DEFINE e == [d EXCEPT !.card = present, !.change = TRUE]
    <2>1. d' = IntMessage(e) /\ host' = host /\ doing' = doing
      BY <1>7 DEF SetCard, Inserted
    <2>2. IsDevice(e) /\ SameWork(d, e)
      BY DEF Shapes, IsDevice, DeviceFields, SameWork
    <2> HIDE DEF e
    <2>3. SameWork(e, IntMessage(e))
      BY <2>2 DEF IntMessage, IsDevice, DeviceFields, SameWork
    <2>4. SameWork(d, d') /\ SameHost(host, host')
      BY <2>1, <2>2, <2>3 DEF SameWork, SameHost
    <2> QED
      BY <1>5, <2>1, <2>4
  <1>8. ASSUME UNCHANGED vars PROVE ResponseInv'
    BY <1>5, <1>8 DEF vars, SameWork, SameHost
  <1> QED
    BY <1>1, <1>2, <1>3, <1>4, <1>6, <1>7, <1>8, SendStep, ReadStep, ReplyStep
       DEF Next, HostReset, GiveUp

-----------------------------------------------------------------------------
(***************************************************************************)
(* The contents.  The buffer holds the message as far as it was received,  *)
(* the block or the APDU of a PIN operation while the application works,   *)
(* then the response; a packet carries the bytes at its place.  Where a    *)
(* packet is in its message is known from what was received or read        *)
(* before it, since all packets but the last are full.                     *)
(***************************************************************************)

ToApp == {"XFRBLOCK", "SECURE"}
BlockCell(c, i) == <<IF i = 1 /\ c.type = "SECURE" THEN c.op ELSE "block", i>>
BlockCells(c) == {BlockCell(c, i) : i \in 1 .. c.len}

\* The buffer holds the first n bytes of the data of a command.
Holds(e, c, n) == \A k \in 0 .. n - 1 : e.buf[k] = BlockCell(c, k + 1)

\* How much data is before a packet, when so many bytes of the message were received.
Before(got, i) == IF got = 0 /\ i = 1 THEN 0 ELSE got + (i - 1) * EpSize - HeaderLen
Carried(out, got, c) == \A i \in 1 .. Len(out) :
    /\ out[i].data \in Seq(BlockCells(c))
    /\ \A k \in 1 .. Len(out[i].data) : out[i].data[k] = BlockCell(c, Before(got, i) + k)

\* The packets left to send, and what was received of the message.
SendsIt(e, h) ==
    \/ e.bulk # "RECEIVE_DATA" /\ Carried(h.out, 0, h.cmd)
    \/ /\ e.bulk = "RECEIVE_DATA" /\ Carried(h.out, e.len, h.cmd) /\ h.out[1].hdr = NoHeader
       /\ e.len \in Nat /\ e.len >= EpSize /\ e.pos = e.len - HeaderLen /\ Holds(e, h.cmd, e.pos)

\* A response as it begins, and as it goes on after what was read of it.
Offered(e) ==
    /\ e.src = "header" /\ e.len = e.hdr.len + HeaderLen
    /\ e.in = <<[hdr |-> e.hdr, data |-> Slice(e, 0, Least(EpSize, e.len) - HeaderLen)]>>
Chunk(e, at, n) == [hdr |-> NoHeader, data |-> Slice(e, at, n)]
Follows(e, h, n) ==
    /\ h.got # << >> /\ h.got[1].hdr.len = e.hdr.len
    /\ n \in Nat /\ e.in = <<Chunk(e, Len(h.data), n)>>

\* The buffer holds the response, of which the host has read the beginning.
Response(e, h) ==
    /\ e.hdr.len \in Nat
    /\ h.cmd.type \in ToApp => \A k \in 1 .. e.hdr.len : e.buf[k - 1] = <<"reply", k>>
    /\ \A k \in 1 .. Len(h.data) : h.data[k] = e.buf[k - 1]
AnswersIt(e, h) ==
    /\ Response(e, h)
    /\ \/ h.got = << >> /\ Offered(e)
       \/ /\ e.src = "data" /\ e.pos = Len(h.data) /\ e.pos + e.len = e.hdr.len
          /\ Follows(e, h, Least(EpSize, e.len))
EndsIt(e, h) ==
    /\ Response(e, h) /\ Len(h.data) <= e.hdr.len
    /\ Follows(e, h, e.hdr.len - Len(h.data))
WholeRead(h) == /\ Len(h.data) = h.got[1].hdr.len
                /\ h.cmd.type \in ToApp => h.data = Cells("reply", Len(h.data))

ContentsOf(e, h) ==
    /\ DOMAIN e.buf = 0 .. BufLen - 1
    /\ \E S : h.data \in Seq(S)
    /\ h.got = << >> => h.data = << >>
    /\ h.phase = "sending" => SendsIt(e, h)
    /\ h.phase = "waiting" =>
         /\ e.media = "CCID" /\ e.bulk # "SEND_RESP" => Slice(e, 0, e.alen) = Apdu(h.cmd)
         /\ e.bulk = "SEND_RESP" => AnswersIt(e, h)
         /\ e.bulk # "SEND_RESP" /\ e.in # << >> => EndsIt(e, h)
    /\ h.phase = "done" => WholeRead(h)
ContentsInv == ContentsOf(d, host)

\* A buffer in which some content is put.
Patched(old, new, at, cells) ==
    /\ DOMAIN new = DOMAIN old
    /\ \A i \in DOMAIN old :
         new[i] = IF i \in at .. at + Len(cells) - 1 THEN cells[i - at + 1] ELSE old[i]

\* What a buffer holds once some content is put in it; the other fields stay.
LEMMA PutContent ==
    ASSUME NEW e, IsDevice(e), NEW at, NEW cells
    PROVE  LET f == Put(e, at, cells) IN
           /\ Patched(e.buf, f.buf, at, cells)
           /\ f.alen = e.alen /\ f.pos = e.pos /\ f.media = e.media
  <1> DEFINE buf == [i \in DOMAIN e.buf |->
                        IF i \in at .. at + Len(cells) - 1 THEN cells[i - at + 1] ELSE e.buf[i]]
             t == [e EXCEPT !.buf = buf]
  <1>1. Put(e, at, cells) = t
    BY DEF Put
  <1>2. Patched(e.buf, buf, at, cells)
    BY DEF Patched
  <1> HIDE DEF buf
  <1>3. t.buf = buf /\ t.alen = e.alen /\ t.pos = e.pos /\ t.media = e.media
    BY DEF IsDevice, DeviceFields
  <1> HIDE DEF t
  <1> QED
    BY <1>1, <1>2, <1>3

\* A slice is a sequence of what the buffer holds.
LEMMA SliceContent ==
    ASSUME NEW e, NEW at, NEW n \in Nat
    PROVE  /\ Len(Slice(e, at, n)) = n
           /\ \A i \in 1 .. n : Slice(e, at, n)[i] = e.buf[at + i - 1]
           /\ \E S : Slice(e, at, n) \in Seq(S)
  <1> DEFINE S == {e.buf[at + i - 1] : i \in 1 .. n}
  <1>1. Slice(e, at, n) \in [1 .. n -> S] /\ \A i \in 1 .. n : Slice(e, at, n)[i] = e.buf[at + i - 1]
    BY DEF Slice
  <1> HIDE DEF S
  <1>2. Slice(e, at, n) \in Seq(S) /\ Len(Slice(e, at, n)) = n
    BY <1>1, Sequence
  <1> QED
    BY <1>1, <1>2

\* Two sequences of the same bytes are the same.
LEMMA SameSequence ==
    ASSUME NEW S, NEW T, NEW s \in Seq(S), NEW t \in Seq(T), Len(s) = Len(t),
           \A i \in 1 .. Len(s) : s[i] = t[i]
    PROVE  s = t
  OBVIOUS

\* A slice is the sequence of the same bytes.
LEMMA SliceEquals ==
    ASSUME NEW e, NEW at, NEW n \in Nat, NEW S, NEW t \in Seq(S), Len(t) = n,
           \A i \in 1 .. n : t[i] = e.buf[at + i - 1]
    PROVE  Slice(e, at, n) = t
  <1>1. t \in [1 .. n -> S]
    OBVIOUS
  <1>2. t = [i \in 1 .. n |-> e.buf[at + i - 1]]
    BY <1>1
  <1> QED
    BY <1>2 DEF Slice

\* Constant bytes and the block of a command, as sequences.
LEMMA CellsContent ==
    ASSUME NEW what, NEW n \in Nat
    PROVE  /\ Len(Cells(what, n)) = n /\ \A i \in 1 .. n : Cells(what, n)[i] = <<what, i>>
           /\ \E S : Cells(what, n) \in Seq(S)
  <1> DEFINE S == {<<what, i>> : i \in 1 .. n}
  <1>1. Cells(what, n) \in [1 .. n -> S] /\ \A i \in 1 .. n : Cells(what, n)[i] = <<what, i>>
    BY DEF Cells
  <1> HIDE DEF S
  <1>2. Cells(what, n) \in Seq(S) /\ Len(Cells(what, n)) = n
    BY <1>1, Sequence
  <1> QED
    BY <1>1, <1>2 DEF S

\* The block of a command is the sequence of its bytes.
LEMMA BlockContent ==
    ASSUME NEW c, c.len \in Nat
    PROVE  /\ Block(c) \in Seq(BlockCells(c)) /\ Len(Block(c)) = c.len
           /\ \A i \in 1 .. c.len : Block(c)[i] = BlockCell(c, i)
  <1>1. Block(c) = [i \in 1 .. c.len |-> BlockCell(c, i)]
    BY DEF Block, BlockCell
  <1>2. Block(c) \in [1 .. c.len -> BlockCells(c)] /\ \A i \in 1 .. c.len : Block(c)[i] = BlockCell(c, i)
    BY <1>1 DEF BlockCells
  <1> QED
    BY <1>2, Sequence

-----------------------------------------------------------------------------

\* A block given to the application is at the start of the buffer, from where it was.
LEMMA GiveBlockContent ==
    ASSUME NEW e, IsDevice(e), DOMAIN e.buf = 0 .. BufLen - 1,
           NEW at \in Nat, NEW n \in Nat, n <= BufLen
    PROVE  LET f == GiveBlock(e, at, n) IN
           f.alen = n /\ \A i \in 1 .. n : f.buf[i - 1] = e.buf[at + i - 1]
  <1> DEFINE s == Slice(e, at, n)
             p == Put(e, 0, s)
             t == [p EXCEPT !.alen = n, !.media = "CCID", !.state = "CCID"]
  <1>1. Len(s) = n /\ \A i \in 1 .. n : s[i] = e.buf[at + i - 1]
    BY SliceContent
  <1> HIDE DEF s
  <1>2. Patched(e.buf, p.buf, 0, s)
    BY PutContent
  <1>3. IsDevice(p)
    BY PutQuiet DEF Quiet
  <1> HIDE DEF p
  <1>4. \A i \in 1 .. n : p.buf[i - 1] = e.buf[at + i - 1]
    <2> TAKE i \in 1 .. n
    <2>1. i - 1 \in 0 .. BufLen - 1 /\ i - 1 \in 0 .. 0 + Len(s) - 1 /\ (i - 1) - 0 + 1 = i
      BY <1>1, Sizes
    <2>2. p.buf[i - 1] = s[i]
      BY <1>2, <2>1 DEF Patched
    <2> QED
      BY <1>1, <2>2
  <1>5. t.alen = n /\ t.buf = p.buf
    BY <1>3 DEF IsDevice, DeviceFields
  <1>6. GiveBlock(e, at, n) = t
    BY DEF GiveBlock, p, s
  <1> HIDE DEF t
  <1> QED
    BY <1>4, <1>5, <1>6

\* The application is given what the host meant for it.
ToTheApp(f, c) == f.media = "CCID" => Slice(f, 0, f.alen) = Apdu(c)

\* A status, and a length, change nothing of what the application is given.
LEMMA StatusContent ==
    ASSUME NEW e, IsDevice(e), NEW st, NEW n
    PROVE  /\ Status(e, st).buf = e.buf /\ Status(e, st).alen = e.alen /\ Status(e, st).media = e.media
           /\ Status(e, st).hdr.len = e.hdr.len
           /\ [e EXCEPT !.hdr.len = n].buf = e.buf /\ [e EXCEPT !.hdr.len = n].alen = e.alen
           /\ [e EXCEPT !.hdr.len = n].media = e.media
           /\ IsDevice([e EXCEPT !.hdr.len = n])
  BY DEF Status, IsDevice, DeviceFields, HeaderFields

\* A device with the data of a command in its buffer.
Loaded(e, c) ==
    /\ IsDevice(e) /\ DOMAIN e.buf = 0 .. BufLen - 1
    /\ e.hdr.type = c.type /\ e.hdr.len = c.len /\ Holds(e, c, c.len)

\* A block is the APDU.
LEMMA XfrBlockWork ==
    ASSUME NEW c \in Commands, c.type = "XFRBLOCK", NEW e, Loaded(e, c)
    PROVE  ToTheApp(XfrBlock(e).dev, c)
  <1> DEFINE n == e.hdr.len
             s == [e EXCEPT !.hdr.len = 256 * e.hdr.b9 + e.hdr.b8]
             g == GiveBlock(s, 0, n)
             f == Status(g, Active)
  <1>1. n = c.len /\ n \in Nat /\ n <= BufLen
    BY CommandsAssumption, Sizes DEF Loaded
  <1>2. IsDevice(s) /\ s.buf = e.buf
    BY StatusContent DEF Loaded
  <1>3. IsDevice(g)
    BY BlockGiven DEF Loaded, Given
  <1>4. XfrBlock(e).dev = f
    BY DEF XfrBlock, Done
  <1> HIDE DEF n, s
  <1>5. g.alen = n /\ \A i \in 1 .. n : g.buf[i - 1] = s.buf[0 + i - 1]
    BY <1>1, <1>2, GiveBlockContent DEF Loaded
  <1> HIDE DEF g
  <1>6. f.alen = n /\ f.buf = g.buf
    BY <1>3, <1>5, StatusContent
  <1> HIDE DEF f
  <1>7. \A i \in 1 .. n : f.buf[0 + i - 1] = BlockCell(c, i)
    <2> TAKE i \in 1 .. n
    <2>1. i - 1 \in 0 .. c.len - 1 /\ 0 + i - 1 = i - 1 /\ (i - 1) + 1 = i
      BY <1>1
    <2> QED
      BY <1>2, <1>5, <1>6, <2>1 DEF Loaded, Holds
  <1>8. Slice(f, 0, n) = Block(c)
    <2>1. /\ Block(c) \in Seq(BlockCells(c)) /\ Len(Block(c)) = n
          /\ \A i \in 1 .. n : Block(c)[i] = BlockCell(c, i)
      BY <1>1, BlockContent
    <2>2. \A i \in 1 .. n : Block(c)[i] = f.buf[0 + i - 1]
      BY <1>7, <2>1
    <2> QED
      BY <1>1, <2>1, <2>2, SliceEquals
  <1>9. Apdu(c) = Block(c)
    BY DEF Apdu
  <1> QED
    BY <1>4, <1>6, <1>8, <1>9 DEF ToTheApp

\* A piece of a sequence, and a sequence after another.
LEMMA PieceContent ==
    ASSUME NEW S, NEW s \in Seq(S), NEW m \in Nat, NEW n \in Nat, m >= 1, n <= Len(s), m <= n + 1
    PROVE  /\ SubSeq(s, m, n) \in Seq(S) /\ Len(SubSeq(s, m, n)) = n - m + 1
           /\ \A i \in 1 .. n - m + 1 : SubSeq(s, m, n)[i] = s[m + i - 1]
  OBVIOUS

\* The bytes of a sequence, then those of the other.
LEMMA JoinContent ==
    ASSUME NEW S, NEW s \in Seq(S), NEW t \in Seq(S)
    PROVE  /\ s \o t \in Seq(S) /\ Len(s \o t) = Len(s) + Len(t)
           /\ \A i \in 1 .. Len(s) : (s \o t)[i] = s[i]
           /\ \A i \in 1 .. Len(t) : (s \o t)[Len(s) + i] = t[i]
  OBVIOUS

\* The APDU of a PIN operation has its class replaced, wherever the operation has it.
LEMMA PinApduWork ==
    ASSUME PinsWhole, NEW c \in Commands, c.type = "SECURE", NEW e, Loaded(e, c)
    PROVE  IsDevice(PinApdu(e)) /\ ToTheApp(PinApdu(e), c)
  <1> DEFINE at == PinOffset[e.buf[0][1]]
             cla == Cells("cla", 1)
             p == Put(e, at, cla)
             s == [p EXCEPT !.hdr.len = PinLen]
             g == GiveBlock(s, at, PinLen)
  <1>1. /\ PinOffset[c.op] \in Nat /\ PinLen \in Nat /\ PinLen > 0
        /\ PinOffset[c.op] + PinLen <= c.len /\ c.len \in Nat /\ c.len <= BufLen
    BY CommandsAssumption, Sizes DEF PinsWhole
  <1>2. at = PinOffset[c.op]
    <2>1. 0 \in 0 .. c.len - 1 /\ 0 + 1 = 1
      BY <1>1
    <2>2. e.buf[0] = BlockCell(c, 1)
      BY <2>1 DEF Loaded, Holds
    <2> QED
      BY <2>2 DEF BlockCell
  <1>3. PinApdu(e) = g
    BY DEF PinApdu
  <1> HIDE DEF at
  <1>4. PICK T : Len(cla) = 1 /\ cla[1] = <<"cla", 1>> /\ cla \in Seq(T)
    <2>1. /\ Len(cla) = 1 /\ \A i \in 1 .. 1 : cla[i] = <<"cla", i>>
          /\ \E S : cla \in Seq(S)
      BY CellsContent
    <2> HIDE DEF cla
    <2>2. 1 \in 1 .. 1
      OBVIOUS
    <2> QED
      BY <2>1, <2>2
  <1> HIDE DEF cla
  <1>5. IsDevice(p) /\ Patched(e.buf, p.buf, at, cla)
    BY PutContent, PutQuiet DEF Quiet, Loaded
  <1> HIDE DEF p
  <1>6. IsDevice(s) /\ s.buf = p.buf
    BY <1>5, StatusContent
  <1>7. DOMAIN s.buf = 0 .. BufLen - 1
    BY <1>5, <1>6 DEF Patched, Loaded
  <1>8. IsDevice(g)
    BY <1>5, BlockGiven DEF Given
  <1> HIDE DEF s
  <1>9. g.alen = PinLen /\ \A i \in 1 .. PinLen : g.buf[i - 1] = s.buf[at + i - 1]
    <2>1. at \in Nat /\ PinLen \in Nat /\ PinLen <= BufLen
      BY <1>1, <1>2, Sizes
    <2> QED
      BY <1>6, <1>7, <2>1, GiveBlockContent
  <1> HIDE DEF g
  <1> DEFINE rest == SubSeq(Block(c), at + 2, at + PinLen)
             apdu == cla \o rest
  <1>10. /\ rest \in Seq(BlockCells(c)) /\ Len(rest) = PinLen - 1
         /\ \A i \in 1 .. PinLen - 1 : rest[i] = BlockCell(c, at + 1 + i)
    <2> DEFINE b == Block(c)
    <2>1. /\ b \in Seq(BlockCells(c)) /\ Len(b) = c.len
          /\ \A i \in 1 .. c.len : b[i] = BlockCell(c, i)
      BY <1>1, BlockContent
    <2> HIDE DEF b
    <2>2. /\ SubSeq(b, at + 2, at + PinLen) \in Seq(BlockCells(c))
          /\ Len(SubSeq(b, at + 2, at + PinLen)) = PinLen - 1
          /\ \A i \in 1 .. PinLen - 1 : SubSeq(b, at + 2, at + PinLen)[i] = b[at + 2 + i - 1]
      <3>1. /\ at + 2 \in Nat /\ at + PinLen \in Nat /\ at + 2 >= 1 /\ at + PinLen <= Len(b)
            /\ at + 2 <= at + PinLen + 1 /\ (at + PinLen) - (at + 2) + 1 = PinLen - 1
        BY <1>1, <1>2, <2>1
      <3> QED
        BY <2>1, <3>1, PieceContent
    <2>3. \A i \in 1 .. PinLen - 1 : at + 2 + i - 1 = at + 1 + i /\ at + 1 + i \in 1 .. c.len
      BY <1>1, <1>2
    <2> QED
      BY <2>1, <2>2, <2>3 DEF b
  <1> HIDE DEF rest
  <1> DEFINE S == BlockCells(c) \cup T
  <1>11. /\ apdu \in Seq(S) /\ Len(apdu) = PinLen
         /\ apdu[1] = <<"cla", 1>> /\ \A i \in 2 .. PinLen : apdu[i] = rest[i - 1]
    <2>1. cla \in Seq(S) /\ rest \in Seq(S)
      BY <1>4, <1>10
    <2> HIDE DEF S
    <2>2. /\ apdu \in Seq(S) /\ Len(apdu) = 1 + (PinLen - 1) /\ apdu[1] = cla[1]
          /\ \A i \in 1 .. PinLen - 1 : apdu[1 + i] = rest[i]
      <3>1. /\ apdu \in Seq(S) /\ Len(apdu) = Len(cla) + Len(rest)
            /\ \A i \in 1 .. Len(cla) : apdu[i] = cla[i]
            /\ \A i \in 1 .. Len(rest) : apdu[Len(cla) + i] = rest[i]
        BY <2>1, JoinContent
      <3> HIDE DEF apdu
      <3>2. 1 \in 1 .. 1
        OBVIOUS
      <3> QED
        BY <1>4, <1>10, <3>1, <3>2
    <2> HIDE DEF apdu
    <2>3. \A i \in 2 .. PinLen : i - 1 \in 1 .. PinLen - 1 /\ 1 + (i - 1) = i
      BY <1>1
    <2> QED
      BY <1>1, <1>4, <2>2, <2>3
  <1> HIDE DEF apdu, S
  <1>12. \A i \in 1 .. PinLen : apdu[i] = g.buf[0 + i - 1]
    <2> TAKE i \in 1 .. PinLen
    <2>1. /\ 0 + i - 1 = i - 1 /\ g.buf[i - 1] = p.buf[at + i - 1]
          /\ at + i - 1 \in 0 .. BufLen - 1 /\ at + i - 1 \in 0 .. c.len - 1 /\ (at + i - 1) + 1 = at + i
      BY <1>1, <1>2, <1>6, <1>9, Sizes
    <2>2. p.buf[at + i - 1] = IF at + i - 1 \in at .. at + Len(cla) - 1
                              THEN cla[(at + i - 1) - at + 1] ELSE e.buf[at + i - 1]
      BY <1>5, <2>1 DEF Patched, Loaded
    <2>3. CASE i = 1
      <3>1. at + i - 1 \in at .. at + Len(cla) - 1 /\ (at + i - 1) - at + 1 = 1
        BY <1>1, <1>2, <1>4, <2>3
      <3> QED
        BY <1>4, <1>11, <2>1, <2>2, <2>3, <3>1
    <2>4. CASE i # 1
      <3>1. i \in 2 .. PinLen /\ i - 1 \in 1 .. PinLen - 1 /\ at + 1 + (i - 1) = at + i
        BY <1>1, <1>2, <2>4
      <3>2. apdu[i] = BlockCell(c, at + i)
        BY <1>10, <1>11, <3>1
      <3>3. ~(at + i - 1 \in at .. at + Len(cla) - 1)
        BY <1>2, <1>1, <1>4, <3>1
      <3>4. e.buf[at + i - 1] = BlockCell(c, at + i)
        BY <2>1 DEF Loaded, Holds
      <3> QED
        BY <2>1, <2>2, <3>2, <3>3, <3>4
    <2> QED
      BY <2>3, <2>4
  <1>13. Slice(g, 0, PinLen) = apdu
    BY <1>1, <1>11, <1>12, SliceEquals
  <1>14. Apdu(c) = apdu
    BY <1>2 DEF Apdu, apdu, rest, cla
  <1> QED
    BY <1>3, <1>8, <1>9, <1>13, <1>14 DEF ToTheApp

\* A status leaves the data where it is.
LEMMA StatusLoaded ==
    ASSUME NEW c, NEW e, Loaded(e, c), NEW st PROVE Loaded(Status(e, st), c)
  <1>1. Quiet(e, Status(e, st)) /\ Status(e, st).buf = e.buf /\ Status(e, st).hdr.len = e.hdr.len
    BY StatusQuiet, StatusContent DEF Loaded
  <1> QED
    BY <1>1 DEF Quiet, SameTransfer, Loaded, Holds

\* Whatever becomes of a block or a PIN operation, the application is given what the host
\* meant for it.
LEMMA ProcessWork ==
    ASSUME PinsWhole, NEW c \in Commands, c.type \in ToApp, NEW e, Loaded(e, c), e.media = "NONE"
    PROVE  ToTheApp(Process(e).dev, c)
  <1> DEFINE k == Check(e, Asked[e.hdr.type])
  <1>1. Process(e) = IF k.err # 0 THEN k ELSE Execute(k.dev)
    BY DEF Process, Loaded, ToApp
  <1>2. PICK st : k.dev = Status(e, st)
    <2> DEFINE no == Refusals(e, Asked[e.hdr.type])
    <2>1. k.dev = IF no = << >> THEN Status(e, Active) ELSE Status(e, no[1].st)
      BY DEF Check
    <2> HIDE DEF no, k
    <2> QED
      BY <2>1
  <1> HIDE DEF k
  <1>3. Loaded(k.dev, c) /\ k.dev.media = "NONE"
    <2>1. Loaded(Status(e, st), c) /\ IsDevice(e)
      BY StatusLoaded DEF Loaded
    <2>2. Status(e, st).media = e.media
      BY <2>1, StatusContent
    <2> QED
      BY <1>2, <2>1, <2>2
  <1> DEFINE g == k.dev
  <1> HIDE DEF g
  <1>4. Loaded(g, c) /\ g.media = "NONE"
    BY <1>3 DEF g
  <1>5. CASE c.type = "XFRBLOCK"
    <2>1. Execute(g) = XfrBlock(g)
      BY <1>4, <1>5 DEF Execute, Loaded
    <2>2. ToTheApp(XfrBlock(g).dev, c)
      BY <1>4, <1>5, XfrBlockWork
    <2> QED
      BY <1>1, <1>4, <2>1, <2>2 DEF g, ToTheApp
  <1>6. CASE c.type = "SECURE"
    <2>1. Execute(g) = Secure(g)
      BY <1>4, <1>6 DEF Execute, Loaded
    <2> DEFINE pin == PinApdu(g)
    <2>2. IsDevice(pin) /\ ToTheApp(pin, c)
      BY <1>4, <1>6, PinApduWork
    <2>3. Secure(g).dev \in {Status(g, Failed + Active), Status(pin, Active)}
      BY DEF Secure, Fails, Done
    <2> HIDE DEF pin
    <2>4. /\ Status(pin, Active).buf = pin.buf /\ Status(pin, Active).alen = pin.alen
          /\ Status(pin, Active).media = pin.media
      BY <2>2, StatusContent
    <2>5. Status(g, Failed + Active).media = "NONE"
      BY <1>4, StatusContent DEF Loaded
    <2>6. ToTheApp(Status(pin, Active), c)
      BY <2>2, <2>4 DEF ToTheApp, Slice
    <2>7. ToTheApp(Secure(g).dev, c)
      BY <2>3, <2>5, <2>6 DEF ToTheApp
    <2> QED
      BY <1>1, <1>4, <2>1, <2>7 DEF g, ToTheApp
  <1> QED
    BY <1>5, <1>6 DEF ToApp

-----------------------------------------------------------------------------

\* A response begins with its header and as much of the buffer as the first packet takes.
LEMMA RespondOffers ==
    ASSUME NEW e, IsDevice(e), NEW type, NEW err
    PROVE  LET f == SendReply(Respond(e, type, err)) IN
           /\ Offered(f) /\ DOMAIN f.buf = DOMAIN e.buf
           /\ e.hdr.len \in Nat => f.hdr.len \in Nat
           /\ type = "DATABLOCK" /\ err = SlotNoError => f.buf = e.buf /\ f.hdr.len = e.hdr.len
  <1> DEFINE n == IF err # SlotNoError \/ type = "SLOTSTATUS" THEN 0
                  ELSE IF type = "PARAMETERS" THEN ParamsLen ELSE e.hdr.len
             buf == IF type = "PARAMETERS" THEN Put(e, 0, Cells("params", ParamsLen)).buf ELSE e.buf
             r == [e EXCEPT !.bulk = "SEND_RESP", !.hdr.type = type, !.hdr.b8 = err, !.hdr.b9 = 0,
                            !.hdr.len = n, !.buf = buf]
             len == r.hdr.len + HeaderLen
             p == [hdr |-> r.hdr, data |-> Slice(r, 0, Least(EpSize, len) - HeaderLen)]
             f == [r EXCEPT !.len = len, !.src = "header", !.in = <<p>>]
  <1>1. /\ e.hdr.len \in Nat => n \in Nat
        /\ type = "DATABLOCK" /\ err = SlotNoError => n = e.hdr.len
    BY Sizes
  <1>2. /\ DOMAIN buf = DOMAIN e.buf
        /\ type = "DATABLOCK" => buf = e.buf
    BY PutContent DEF Patched
  <1>3. Respond(e, type, err) = r
    BY DEF Respond
  <1> HIDE DEF n, buf
  <1>4. IsDevice(r) /\ r.bulk = "SEND_RESP" /\ r.buf = buf /\ r.hdr.len = n
    BY DEF IsDevice, DeviceFields, HeaderFields
  <1> HIDE DEF r
  <1>5. SendReply(r) = f
    <2>1. SendReply(r) = [[r EXCEPT !.len = len, !.src = "header"] EXCEPT !.in = <<p>>]
      BY <1>4 DEF SendReply, SendData, Slice
    <2> QED
      BY <2>1
  <1>6. p = [hdr |-> r.hdr, data |-> Slice(r, 0, Least(EpSize, len) - HeaderLen)]
    OBVIOUS
  <1> HIDE DEF p
  <1>7. /\ f.len = r.hdr.len + HeaderLen /\ f.src = "header" /\ f.in = <<p>>
        /\ f.hdr = r.hdr /\ f.buf = r.buf /\ f.len = len
    BY <1>4 DEF IsDevice, DeviceFields
  <1> HIDE DEF f
  <1>8. Slice(f, 0, Least(EpSize, len) - HeaderLen) = Slice(r, 0, Least(EpSize, len) - HeaderLen)
    BY <1>7 DEF Slice
  <1>9. Offered(f)
    BY <1>6, <1>7, <1>8 DEF Offered
  <1> QED
    BY <1>1, <1>2, <1>3, <1>4, <1>5, <1>7, <1>9

\* A message decoded: the application is given what the host meant, or a response begins.
DecodesIt(f, c) ==
    /\ DOMAIN f.buf = 0 .. BufLen - 1 /\ ToTheApp(f, c)
    /\ f.bulk = "SEND_RESP" => Offered(f) /\ f.hdr.len \in Nat /\ c.type \notin ToApp

\* What CCID_CmdDecode does of the content of a message received whole.
LEMMA CmdDecodeContent ==
    ASSUME PinsWhole, NEW c \in Commands \cup {AbortCommand}, NEW e, Loaded(e, c),
           e.media = "NONE", e.bulk # "SEND_RESP"
    PROVE  DecodesIt(CmdDecode(e), c)
  <1> DEFINE k == Process(e)
             refused == [k.dev EXCEPT !.hdr.len = 0]
             t == e.hdr.type
             f == CmdDecode(e)
  <1>1. IsDevice(e) /\ DOMAIN e.buf = 0 .. BufLen - 1 /\ t = c.type /\ e.hdr.len \in Nat
    BY CommandsAssumption, Sizes DEF Loaded, AbortCommand
  <1>2. Executed(e, k.dev)
    BY <1>1, ProcessExecuted
  <1>3. Decoded(e, f)
    BY <1>1, CmdDecodeDecoded
  <1>4. CASE c.type \in ToApp
    <2>1. t \in DOMAIN Asked /\ c \in Commands
      BY <1>1, <1>4 DEF Asked, ToApp, AbortCommand
    <2>2. f \in {SendReply(k.dev), SendReply(refused)}
      BY <1>1, <1>4, <2>1 DEF CmdDecode, ToApp
    <2>3. ToTheApp(k.dev, c)
      BY <1>4, <2>1, ProcessWork
    <2> HIDE DEF k, f
    <2>4. IsDevice(k.dev) /\ k.dev.bulk = e.bulk /\ DOMAIN k.dev.buf = DOMAIN e.buf
      BY <1>2 DEF Executed, Quiet, Given, SameTransfer
    <2>5. /\ refused.buf = k.dev.buf /\ refused.alen = k.dev.alen /\ refused.media = k.dev.media
          /\ refused.bulk = k.dev.bulk
      BY <2>4, StatusContent DEF IsDevice, DeviceFields
    <2> HIDE DEF refused
    <2>6. SendReply(k.dev) = k.dev /\ SendReply(refused) = refused
      BY <2>4, <2>5 DEF SendReply
    <2>7. ToTheApp(refused, c)
      BY <2>3, <2>5 DEF ToTheApp, Slice
    <2>8. f.bulk # "SEND_RESP" /\ DOMAIN f.buf = 0 .. BufLen - 1 /\ ToTheApp(f, c)
      BY <1>1, <2>2, <2>3, <2>4, <2>5, <2>6, <2>7
    <2> QED
      BY <2>8 DEF DecodesIt, f
  <1>5. CASE c.type \notin ToApp
    <2>1. f \in {SendReply(Respond(e, "SLOTSTATUS", CmdNotSupported)),
                 SendReply(Respond(k.dev, Answer[t], k.err))}
      BY <1>1, <1>5 DEF CmdDecode, ToApp
    <2>2. Quiet(e, k.dev)
      BY <1>1, <1>2, <1>5 DEF Executed, ToApp
    <2> HIDE DEF k, f
    <2>3. IsDevice(k.dev) /\ DOMAIN k.dev.buf = DOMAIN e.buf /\ k.dev.hdr.len \in Nat
      BY <1>1, <2>2 DEF Quiet, SameTransfer
    <2>4. Offered(f) /\ DOMAIN f.buf = DOMAIN e.buf /\ f.hdr.len \in Nat
      BY <1>1, <2>1, <2>3, RespondOffers
    <2>5. f.media = "NONE"
      BY <1>1, <1>3, <1>5 DEF Decoded, Answering, Quiet, ToApp
    <2> QED
      BY <1>1, <1>5, <2>4, <2>5 DEF DecodesIt, ToTheApp, f
  <1> QED
    BY <1>4, <1>5

-----------------------------------------------------------------------------

\* The packets of a message carry its data in order.
LEMMA PacketsCarry ==
    ASSUME NEW c, c.len \in Nat, NEW seq PROVE Carried(Packets(c, seq), 0, c)
  <1> DEFINE hdr == [type |-> c.type, len |-> c.len, slot |-> c.slot, seq |-> seq,
                     b7 |-> c.b7, b8 |-> c.b8, b9 |-> c.b9]
             room == EpSize - HeaderLen
             cells == Block(c)
             more == IF c.len > room THEN (c.len - room + EpSize - 1) \div EpSize ELSE 0
             first == [hdr |-> hdr, data |-> SubSeq(cells, 1, Least(room, c.len))]
             Piece(k) == [hdr |-> NoHeader,
                          data |-> SubSeq(cells, room + (k - 1) * EpSize + 1, Least(room + k * EpSize, c.len))]
             rest == [k \in 1 .. more |-> Piece(k)]
             ps == <<first>> \o rest
             S == {first} \cup {Piece(k) : k \in 1 .. more}
  <1>1. Packets(c, seq) = ps
    BY DEF Packets
  <1>2. /\ cells \in Seq(BlockCells(c)) /\ Len(cells) = c.len
        /\ \A i \in 1 .. c.len : cells[i] = BlockCell(c, i)
    BY BlockContent
  <1>3. room \in Nat /\ room >= 1 /\ EpSize \in Nat /\ EpSize > 0 /\ HeaderLen \in Nat
        /\ EpSize - HeaderLen = room
    BY Sizes
  <1>4. more \in Nat /\ (more # 0 => c.len > room /\ (more - 1) * EpSize < c.len - room)
    <2>1. CASE c.len > room
      <3>1. c.len - room \in Nat /\ c.len - room > 0
        BY <1>3, <2>1
      <3> QED
        BY <2>1, <3>1, <1>3, Pieces
    <2> QED
      BY <2>1, <1>3
  <1> HIDE DEF more, room, cells
  <1>5. /\ first.data \in Seq(BlockCells(c))
        /\ \A k \in 1 .. Len(first.data) : first.data[k] = BlockCell(c, 0 + k)
    <2> DEFINE n == Least(room, c.len)
    <2>1. n \in Nat /\ n <= c.len /\ 1 \in Nat /\ 1 <= n + 1 /\ n - 1 + 1 = n
      BY <1>3 DEF Least
    <2>2. first.data = SubSeq(cells, 1, n)
      OBVIOUS
    <2> HIDE DEF n, first
    <2>3. /\ SubSeq(cells, 1, n) \in Seq(BlockCells(c)) /\ Len(SubSeq(cells, 1, n)) = n
          /\ \A i \in 1 .. n : SubSeq(cells, 1, n)[i] = cells[1 + i - 1]
      BY <1>2, <2>1, PieceContent
    <2>4. \A i \in 1 .. n : 1 + i - 1 = i /\ 0 + i = i /\ i \in 1 .. c.len
      BY <2>1
    <2> QED
      BY <1>2, <2>2, <2>3, <2>4
  <1>6. ASSUME NEW k \in 1 .. more
        PROVE  /\ Piece(k).data \in Seq(BlockCells(c))
               /\ \A i \in 1 .. Len(Piece(k).data) :
                    Piece(k).data[i] = BlockCell(c, room + (k - 1) * EpSize + i)
    <2> DEFINE a == (k - 1) * EpSize
               b == Least(room + k * EpSize, c.len)
    <2>1. a \in Nat /\ k * EpSize = a + EpSize /\ k * EpSize \in Nat
      BY <1>3, <1>4
    <2>2. c.len > room /\ a <= (more - 1) * EpSize /\ (more - 1) * EpSize \in Nat
          /\ (more - 1) * EpSize < c.len - room
      BY <1>3, <1>4, PieceEnds
    <2>3. Piece(k).data = SubSeq(cells, room + a + 1, b)
      OBVIOUS
    <2>4. b \in Nat /\ b <= c.len /\ b >= room + a
      BY <1>3, <2>1, <2>2 DEF Least
    <2> HIDE DEF a, b, Piece
    <2> DEFINE m == room + a + 1
    <2>5. m \in Nat /\ m >= 1 /\ b <= Len(cells) /\ m <= b + 1
      BY <1>2, <1>3, <2>1, <2>4
    <2>6. \A i \in 1 .. b - m + 1 : m + i - 1 = room + a + i /\ room + a + i \in 1 .. c.len
      BY <1>3, <2>1, <2>4
    <2> HIDE DEF m
    <2>7. /\ SubSeq(cells, m, b) \in Seq(BlockCells(c)) /\ Len(SubSeq(cells, m, b)) = b - m + 1
          /\ \A i \in 1 .. b - m + 1 : SubSeq(cells, m, b)[i] = cells[m + i - 1]
      BY <1>2, <2>4, <2>5, PieceContent
    <2> QED
      BY <1>2, <2>3, <2>6, <2>7 DEF m, a
  <1> HIDE DEF first, Piece
  <1>7. rest \in Seq(S) /\ Len(rest) = more /\ \A k \in 1 .. more : rest[k] = Piece(k)
    <2>1. rest \in [1 .. more -> S]
      OBVIOUS
    <2>2. \A k \in 1 .. more : rest[k] = Piece(k)
      OBVIOUS
    <2> HIDE DEF rest, S
    <2> QED
      BY <2>1, <2>2, <1>4, Sequence
  <1>8. <<first>> \in Seq(S)
    OBVIOUS
  <1> HIDE DEF rest, S
  <1>9. /\ Len(ps) = more + 1 /\ ps[1] = first
        /\ \A i \in 1 .. Len(ps) : i # 1 => i - 1 \in 1 .. more /\ ps[i] = Piece(i - 1)
    BY <1>4, <1>7, <1>8
  <1> HIDE DEF ps
  <1>10. ASSUME NEW i \in 1 .. Len(ps)
         PROVE  /\ ps[i].data \in Seq(BlockCells(c))
                /\ \A k \in 1 .. Len(ps[i].data) : ps[i].data[k] = BlockCell(c, Before(0, i) + k)
    <2>1. CASE i = 1
      BY <1>5, <1>9, <2>1 DEF Before
    <2>2. CASE i # 1
      <3>1. i - 1 \in 1 .. more /\ ps[i] = Piece(i - 1)
        BY <1>9, <2>2
      <3>2. Before(0, i) = room + ((i - 1) - 1) * EpSize
        <4>1. (i - 1) * EpSize = ((i - 1) - 1) * EpSize + EpSize /\ ((i - 1) - 1) * EpSize \in Int
          BY <1>3, <1>4, <3>1
        <4>2. Before(0, i) = 0 + (i - 1) * EpSize - HeaderLen
          BY <2>2 DEF Before
        <4> QED
          BY <1>3, <4>1, <4>2
      <3> QED
        BY <1>6, <3>1, <3>2
    <2> QED
      BY <2>1, <2>2
  <1> QED
    BY <1>1, <1>10 DEF Carried

\* The first packet of those left, and the others.
LEMMA CarriedTail ==
    ASSUME NEW c, NEW S, NEW out \in Seq(S), out # << >>, NEW got \in Nat, Carried(out, got, c)
    PROVE  /\ out[1].data \in Seq(BlockCells(c))
           /\ \A k \in 1 .. Len(out[1].data) :
                out[1].data[k] = BlockCell(c, (IF got = 0 THEN 0 ELSE got - HeaderLen) + k)
           /\ Carried(Tail(out), got + EpSize, c)
  <1>1. Len(out) \in Nat /\ Len(out) >= 1 /\ 1 \in 1 .. Len(out)
    OBVIOUS
  <1>2. Before(got, 1) = IF got = 0 THEN 0 ELSE got - HeaderLen
    <2>1. got + (1 - 1) * EpSize - HeaderLen = got - HeaderLen
      BY Sizes
    <2> QED
      BY <2>1 DEF Before
  <1> DEFINE t == Tail(out)
  <1>3. Len(t) = Len(out) - 1 /\ \A i \in 1 .. Len(t) : t[i] = out[i + 1]
    BY Shift
  <1> HIDE DEF t
  <1>4. ASSUME NEW i \in 1 .. Len(t)
        PROVE  i + 1 \in 1 .. Len(out) /\ t[i] = out[i + 1] /\ Before(got + EpSize, i) = Before(got, i + 1)
    <2>1. i \in Nat /\ i + 1 \in 1 .. Len(out) /\ i + 1 # 1 /\ (i + 1) - 1 = i
      BY <1>1, <1>3
    <2>2. i * EpSize = (i - 1) * EpSize + EpSize /\ (i - 1) * EpSize \in Int
      BY <2>1, Sizes
    <2>3. Before(got, i + 1) = got + i * EpSize - HeaderLen
      BY <2>1 DEF Before
    <2>4. got + EpSize # 0
      BY Sizes
    <2>5. Before(got + EpSize, i) = got + EpSize + (i - 1) * EpSize - HeaderLen
      BY <2>4 DEF Before
    <2>6. Before(got + EpSize, i) = Before(got, i + 1)
      BY <2>2, <2>3, <2>5, Sizes
    <2> QED
      BY <1>3, <2>1, <2>6
  <1>5. Carried(t, got + EpSize, c)
    BY <1>4 DEF Carried
  <1> QED
    BY <1>1, <1>2, <1>5 DEF Carried, t

\* The bytes of a packet follow those received.
LEMMA HoldsMore ==
    ASSUME NEW c, NEW e, DOMAIN e.buf = 0 .. BufLen - 1, NEW at \in Nat, Holds(e, c, at),
           NEW S, NEW data \in Seq(S), at + Len(data) <= BufLen,
           \A k \in 1 .. Len(data) : data[k] = BlockCell(c, at + k),
           NEW f, Patched(e.buf, f.buf, at, data)
    PROVE  Holds(f, c, at + Len(data))
  <1>1. Len(data) \in Nat
    OBVIOUS
  <1> DEFINE n == Len(data)
  <1> SUFFICES ASSUME NEW k \in 0 .. at + n - 1 PROVE f.buf[k] = BlockCell(c, k + 1)
    BY DEF Holds
  <1>2. f.buf[k] = IF k \in at .. at + n - 1 THEN data[k - at + 1] ELSE e.buf[k]
    <2>1. k \in DOMAIN e.buf
      BY <1>1, Sizes
    <2> QED
      BY <2>1 DEF Patched
  <1>3. CASE k < at
    <2>1. k \in 0 .. at - 1 /\ ~(k \in at .. at + n - 1)
      BY <1>1, <1>3
    <2> QED
      BY <1>2, <2>1 DEF Holds
  <1>4. CASE ~(k < at)
    <2>1. k \in at .. at + n - 1 /\ k - at + 1 \in 1 .. n /\ at + (k - at + 1) = k + 1
      BY <1>1, <1>4
    <2> QED
      BY <1>2, <2>1
  <1> QED
    BY <1>3, <1>4

\* What a part of a message leaves: the data so far, and where the next packet goes.
Partial(f, c) ==
    /\ DOMAIN f.buf = 0 .. BufLen - 1 /\ f.bulk = "RECEIVE_DATA"
    /\ f.pos = f.len - HeaderLen /\ Holds(f, c, f.pos)

\* The first packet of a message.
LEMMA FirstContent ==
    ASSUME PinsWhole, NEW c \in Commands \cup {AbortCommand},
           NEW e, IsDevice(e), DOMAIN e.buf = 0 .. BufLen - 1, e.media = "NONE",
           NEW p, DOMAIN p.hdr = HeaderFields, p.hdr.type = c.type, p.hdr.len = c.len,
           p.data \in Seq(BlockCells(c)), Len(p.data) <= c.len,
           \A k \in 1 .. Len(p.data) : p.data[k] = BlockCell(c, 0 + k)
    PROVE  IF Size(p) = c.len + HeaderLen THEN DecodesIt(FirstPacket(e, p), c)
           ELSE Partial(FirstPacket(e, p), c) /\ FirstPacket(e, p).len = Size(p)
  <1> DEFINE s == [e EXCEPT !.bulk = "IDLE", !.len = Size(p), !.hdr = p.hdr, !.pos = Len(p.data)]
             g == Put(s, 0, p.data)
             more == [g EXCEPT !.bulk = "RECEIVE_DATA"]
  <1>1. /\ c.len \in Nat /\ c.len <= BufLen /\ c.type # "NONE"
        /\ Len(p.data) \in Nat /\ Size(p) = Len(p.data) + HeaderLen
    <2>1. c.len \in Nat /\ c.len <= BufLen /\ c.type # "NONE"
      BY CommandsAssumption, Sizes DEF AbortCommand
    <2>2. Len(p.data) \in Nat
      OBVIOUS
    <2> QED
      BY <2>1, <2>2 DEF Size
  <1>2. /\ IsDevice(s) /\ s.bulk = "IDLE" /\ s.hdr = p.hdr /\ s.len = Size(p)
        /\ s.pos = Len(p.data) /\ s.buf = e.buf /\ s.media = "NONE"
    BY DEF IsDevice, DeviceFields
  <1>3. FirstPacket(e, p) = IF p.hdr.len > BufLen THEN [g EXCEPT !.bulk = "UNCORRECT_LENGTH"]
                            ELSE IF Size(p) = p.hdr.len + HeaderLen THEN CmdDecode(g) ELSE more
    BY DEF FirstPacket
  <1>4. FirstPacket(e, p) = IF Size(p) = c.len + HeaderLen THEN CmdDecode(g) ELSE more
    BY <1>1, <1>3, Sizes
  <1> HIDE DEF s
  <1>5. /\ IsDevice(g) /\ g.bulk = "IDLE" /\ g.hdr = p.hdr /\ g.len = Size(p)
        /\ g.pos = Len(p.data) /\ g.media = "NONE"
        /\ Patched(e.buf, g.buf, 0, p.data)
    <2>1. Quiet(s, g) /\ g.hdr = s.hdr /\ g.len = s.len
      BY <1>2, PutQuiet, PutRest
    <2>2. g.pos = s.pos /\ g.media = s.media /\ Patched(s.buf, g.buf, 0, p.data)
      BY <1>2, PutContent
    <2> QED
      BY <1>2, <2>1, <2>2 DEF Quiet, SameTransfer
  <1> HIDE DEF g
  <1>6. DOMAIN g.buf = 0 .. BufLen - 1
    BY <1>5 DEF Patched
  <1>7. Holds(g, c, 0 + Len(p.data))
    <2>1. 0 + Len(p.data) <= BufLen
      BY <1>1, Sizes
    <2>2. Holds(e, c, 0)
      BY DEF Holds
    <2> QED
      BY <1>5, <2>1, <2>2, HoldsMore
  <1>8. 0 + Len(p.data) = Len(p.data)
    BY <1>1
  <1>9. CASE Size(p) = c.len + HeaderLen
    <2>1. Len(p.data) = c.len
      BY <1>1, <1>9, Sizes
    <2>2. Loaded(g, c)
      BY <1>5, <1>6, <1>7, <1>8, <2>1 DEF Loaded
    <2>3. DecodesIt(CmdDecode(g), c)
      BY <1>5, <2>2, CmdDecodeContent
    <2> QED
      BY <1>4, <1>9, <2>3
  <1>10. CASE Size(p) # c.len + HeaderLen
    <2>1. /\ more.bulk = "RECEIVE_DATA" /\ more.buf = g.buf /\ more.pos = Len(p.data)
          /\ more.len = Size(p)
      BY <1>5 DEF IsDevice, DeviceFields
    <2> HIDE DEF more
    <2>2. Len(p.data) = Size(p) - HeaderLen
      BY <1>1, Sizes
    <2>3. Partial(more, c)
      BY <1>6, <1>7, <1>8, <2>1, <2>2 DEF Partial, Holds
    <2> QED
      BY <1>4, <1>10, <2>1, <2>3
  <1> QED
    BY <1>9, <1>10

\* A packet carries the data of a command from a place on.
Carries(p, c, at) ==
    p.data \in Seq(BlockCells(c)) /\ \A k \in 1 .. Len(p.data) : p.data[k] = BlockCell(c, at + k)

\* A following packet: none is longer than what is left.
LEMMA NextContent ==
    ASSUME PinsWhole, NEW c \in Commands \cup {AbortCommand},
           NEW e, IsDevice(e), DOMAIN e.buf = 0 .. BufLen - 1, e.media = "NONE",
           e.bulk = "RECEIVE_DATA", e.hdr.type = c.type, e.hdr.len = c.len,
           e.len \in Nat, e.len >= HeaderLen, e.pos = e.len - HeaderLen, Holds(e, c, e.pos),
           NEW p, p.hdr = NoHeader, Carries(p, c, e.pos),
           \/ e.len + Size(p) = c.len + HeaderLen
           \/ Size(p) = EpSize /\ e.len + Size(p) < c.len + HeaderLen
    PROVE  IF e.len + Size(p) = c.len + HeaderLen THEN DecodesIt(NextPacket(e, p), c)
           ELSE Partial(NextPacket(e, p), c) /\ NextPacket(e, p).len = e.len + Size(p)
  <1> DEFINE total == e.len + Size(p)
             s == [e EXCEPT !.len = total]
             g == Put(s, e.pos, p.data)
             more == [g EXCEPT !.pos = g.pos + Size(p)]
  <1>1. /\ c.len \in Nat /\ c.len <= BufLen /\ c.type # "NONE"
        /\ Len(p.data) \in Nat /\ Size(p) = Len(p.data) /\ e.pos \in Nat
    <2>1. c.len \in Nat /\ c.len <= BufLen /\ c.type # "NONE"
      BY CommandsAssumption, Sizes DEF AbortCommand
    <2>2. Len(p.data) \in Nat
      BY DEF Carries
    <2>3. e.pos \in Nat
      BY Sizes
    <2> QED
      BY <2>1, <2>2, <2>3 DEF Size, NoHeader
  <1>2. /\ e.pos + Len(p.data) <= c.len /\ e.pos + Len(p.data) <= BufLen
        /\ e.pos + Len(p.data) = total - HeaderLen
        /\ total = c.len + HeaderLen => e.pos + Len(p.data) = c.len
        /\ total # c.len + HeaderLen => ~(Size(p) < EpSize) /\ total < c.len + HeaderLen
    <2> DEFINE pos == e.pos
               size == Len(p.data)
               all == c.len
               len == e.len
    <2>1. /\ pos \in Nat /\ size \in Nat /\ all \in Nat /\ all <= BufLen /\ len \in Nat
          /\ pos = len - HeaderLen /\ Size(p) = size
      BY <1>1
    <2>2. \/ len + size = all + HeaderLen
          \/ size = EpSize /\ len + size < all + HeaderLen
      BY <2>1
    <2>3. total = len + size
      BY <2>1
    <2> HIDE DEF pos, size, all, len, total
    <2>4. /\ pos + size <= all /\ pos + size <= BufLen /\ pos + size = total - HeaderLen
          /\ total = all + HeaderLen => pos + size = all
          /\ total # all + HeaderLen => ~(size < EpSize) /\ total < all + HeaderLen
      BY <2>1, <2>2, <2>3, Sizes
    <2> QED
      BY <2>1, <2>4 DEF pos, size, all, len
  <1> HIDE DEF total
  <1>3. /\ IsDevice(s) /\ s.bulk = "RECEIVE_DATA" /\ s.hdr = e.hdr /\ s.len = total
        /\ s.pos = e.pos /\ s.buf = e.buf /\ s.media = "NONE"
    BY DEF IsDevice, DeviceFields
  <1>4. Bytes(p) = p.data
    <2>1. Len(Cells("header", 0)) = 0 /\ \E S : Cells("header", 0) \in Seq(S)
      BY CellsContent
    <2>2. Cells("header", 0) = << >>
      BY <2>1
    <2>3. Size(p) - Len(p.data) = 0
      BY <1>1
    <2>4. Bytes(p) = Cells("header", 0) \o p.data
      BY <2>3 DEF Bytes
    <2> QED
      BY <2>2, <2>4 DEF Carries
  <1>5. NextPacket(e, p) = IF total = c.len + HeaderLen THEN CmdDecode(g) ELSE more
    <2>1. NextPacket(e, p) = IF Size(p) < EpSize \/ total = e.hdr.len + HeaderLen THEN CmdDecode(g)
                             ELSE IF total < e.hdr.len + HeaderLen THEN more
                             ELSE [e EXCEPT !.len = total, !.bulk = "UNCORRECT_LENGTH"]
      BY <1>4 DEF NextPacket, total
    <2> HIDE DEF g, more
    <2> QED
      BY <1>2, <2>1
  <1> HIDE DEF s
  <1>6. /\ IsDevice(g) /\ g.bulk = "RECEIVE_DATA" /\ g.hdr = e.hdr /\ g.len = total
        /\ g.pos = e.pos /\ g.media = "NONE"
        /\ Patched(e.buf, g.buf, e.pos, p.data)
    <2>1. Quiet(s, g) /\ g.hdr = s.hdr /\ g.len = s.len
      BY <1>3, PutQuiet, PutRest
    <2>2. g.pos = s.pos /\ g.media = s.media /\ Patched(s.buf, g.buf, e.pos, p.data)
      BY <1>3, PutContent
    <2> QED
      BY <1>3, <2>1, <2>2 DEF Quiet, SameTransfer
  <1> HIDE DEF g
  <1>7. DOMAIN g.buf = 0 .. BufLen - 1
    BY <1>6 DEF Patched
  <1>8. Holds(g, c, e.pos + Len(p.data))
    BY <1>1, <1>2, <1>6, HoldsMore DEF Carries
  <1>9. CASE total = c.len + HeaderLen
    <2>1. e.pos + Len(p.data) = c.len
      BY <1>2, <1>9
    <2>2. Loaded(g, c)
      BY <1>6, <1>7, <1>8, <2>1 DEF Loaded
    <2>3. DecodesIt(CmdDecode(g), c)
      BY <1>6, <2>2, CmdDecodeContent
    <2> QED
      BY <1>5, <1>9, <2>3 DEF total
  <1>10. CASE total # c.len + HeaderLen
    <2>1. /\ more.bulk = "RECEIVE_DATA" /\ more.buf = g.buf /\ more.pos = e.pos + Size(p)
          /\ more.len = total
      BY <1>6 DEF IsDevice, DeviceFields
    <2> HIDE DEF more
    <2>2. more.pos = e.pos + Len(p.data)
      BY <1>1, <2>1
    <2>3. Partial(more, c)
      BY <1>2, <1>7, <1>8, <2>1, <2>2 DEF Partial, Holds
    <2> QED
      BY <1>5, <1>10, <2>1, <2>3 DEF total
  <1> QED
    BY <1>9, <1>10

-----------------------------------------------------------------------------

\* A message decoded while the host begins to wait.
LEMMA DecodedWaits ==
    ASSUME NEW f, NEW w, NEW h, DecodesIt(f, h.cmd), h.phase = "waiting", h.got = << >>,
           h.data = << >>, ResponseOf(f, w, h)
    PROVE  ContentsOf(f, h)
  <1>1. Len(h.data) = 0 /\ h.data \in Seq({})
    OBVIOUS
  <1>2. f.bulk = "SEND_RESP" => AnswersIt(f, h)
    BY <1>1 DEF DecodesIt, AnswersIt, Response
  <1>3. f.bulk # "SEND_RESP" => f.in = << >>
    BY DEF ResponseOf, Waiting, Refused, Still, Working, Responding, Ending
  <1> QED
    BY <1>1, <1>2, <1>3 DEF ContentsOf, DecodesIt, ToTheApp

\* A packet sent is received at its place, and the last one completes the message.
LEMMA SendContents ==
    ASSUME PinsWhole, Shapes, ResponseInv, ResponseInv', ContentsInv, HostSend PROVE ContentsInv'
  <1>1. /\ host.phase = "sending" /\ Sending(d, doing, host) /\ host.got = << >>
        /\ IsDevice(d) /\ doing = "wait" /\ d.media = "NONE" /\ d.bulk # "SEND_RESP"
        /\ host.data = << >> /\ DOMAIN d.buf = 0 .. BufLen - 1 /\ SendsIt(d, host)
    BY DEF HostSend, ResponseInv, ResponseOf, Sending, Still, Shapes, ContentsInv, ContentsOf
  <1>2. PICK S : /\ host.out \in Seq(S) /\ host.out # << >>
                 /\ \A p \in S : DOMAIN p.hdr = HeaderFields
    BY DEF HostSend, Shapes
  <1> DEFINE out == host.out
             p == out[1]
             rest == Tail(out)
             c == host.cmd
             total == c.len + HeaderLen
             f == BulkOut(d, p)
             phase == IF Len(out) = 1 THEN "waiting" ELSE host.phase
  <1>3. /\ DOMAIN p.hdr = HeaderFields /\ Head(out) = p /\ rest \in Seq(S)
        /\ Len(out) \in Nat /\ Len(out) >= 1 /\ Len(rest) = Len(out) - 1
        /\ \A i \in 1 .. Len(rest) : rest[i] = out[i + 1]
    BY <1>2, Shift
  <1>4. d' = f
    <2>1. d' = Pump(f).dev
      BY <1>3 DEF HostSend, Event
    <2> HIDE DEF f
    <2> QED
      BY <1>1, <2>1, PumpWaiting
  <1>5. host' = [host EXCEPT !.out = rest, !.phase = phase]
    BY DEF HostSend
  <1>6. c \in Commands \cup {AbortCommand} /\ c.len \in 0 .. BufLen /\ c.type # "NONE" /\ total \in Nat
    BY <1>1, CommandsAssumption, Sizes DEF Sending, AbortCommand
  <1> HIDE DEF phase
  <1>7. /\ host'.phase = phase /\ host'.out = rest /\ host'.got = << >>
        /\ host'.cmd = c /\ host'.data = << >>
    BY <1>1, <1>5 DEF Shapes, HostFields
  <1>8. \A i \in 1 .. Len(rest) : rest[i].hdr = NoHeader
    <2> TAKE i \in 1 .. Len(rest)
    <2>1. i + 1 \in 1 .. Len(out) /\ i + 1 > 1 /\ rest[i] = out[i + 1]
      BY <1>3
    <2> QED
      BY <1>1, <2>1 DEF Sending
  <1>9. Len(out) # 1 => rest[1].hdr = NoHeader
    <2> DEFINE n == Len(out)
               m == Len(rest)
    <2>1. n \in Nat /\ n >= 1 /\ m = n - 1
      BY <1>3
    <2> HIDE DEF n, m
    <2>2. n # 1 => 1 \in 1 .. m
      BY <2>1
    <2>3. Len(out) # 1 => 1 \in 1 .. Len(rest)
      BY <2>2 DEF n, m
    <2> HIDE DEF rest
    <2> QED
      BY <1>8, <2>3
  <1> HIDE DEF rest, f, total
  <1>10. ASSUME Len(out) = 1, DecodesIt(f, c) PROVE ContentsInv'
    <2> DEFINE h == host'
               w == doing'
    <2>1. h.phase = "waiting" /\ h.got = << >> /\ h.data = << >> /\ h.cmd = c
      BY <1>7, <1>10 DEF phase
    <2>2. ResponseOf(f, w, h)
      BY <1>4 DEF ResponseInv
    <2> HIDE DEF h, w
    <2>3. ContentsOf(f, h)
      BY <1>10, <2>1, <2>2, DecodedWaits
    <2> QED
      BY <1>4, <2>3 DEF ContentsInv, h
  <1>11. ASSUME Len(out) # 1, Partial(f, c), f.len \in Nat, f.len >= EpSize, Carried(rest, f.len, c)
         PROVE  ContentsInv'
    <2> DEFINE h == host'
    <2>1. /\ h.phase = "sending" /\ h.got = << >> /\ h.data = << >> /\ h.cmd = c /\ h.out = rest
      BY <1>1, <1>7, <1>11 DEF phase
    <2> HIDE DEF h
    <2>2. SendsIt(f, h)
      BY <1>9, <1>11, <2>1 DEF SendsIt, Partial
    <2>3. << >> \in Seq({})
      OBVIOUS
    <2>4. ContentsOf(f, h)
      BY <1>11, <2>1, <2>2, <2>3 DEF ContentsOf, Partial
    <2> QED
      BY <1>4, <2>4 DEF ContentsInv, h
  <1>12. CASE d.bulk # "RECEIVE_DATA"
    <2>1. Named(p.hdr, host) /\ Remaining(out, total)
      BY <1>1, <1>12 DEF Sending, total
    <2>2. /\ Len(out) = 1 => Size(p) = total
          /\ Len(out) # 1 => Size(p) = EpSize /\ total > EpSize
      BY <1>2, <1>6, <2>1, RemainingHead
    <2>3. /\ p.data \in Seq(BlockCells(c))
          /\ \A k \in 1 .. Len(p.data) : p.data[k] = BlockCell(c, 0 + k)
          /\ Carried(rest, 0 + EpSize, c)
      <3>1. Carried(out, 0, c) /\ 0 \in Nat
        BY <1>1, <1>12 DEF SendsIt
      <3> QED
        BY <1>2, <3>1, CarriedTail DEF rest
    <2>4. p.hdr.type = c.type /\ p.hdr.len = c.len
      BY <2>1 DEF Named
    <2>5. Len(p.data) \in Nat /\ Size(p) = Len(p.data) + HeaderLen
      <3>1. Len(p.data) \in Nat
        BY <2>3
      <3> QED
        BY <1>6, <2>4, <3>1 DEF Size
    <2>6. /\ Size(p) <= total /\ (Size(p) = total <=> Len(out) = 1) /\ ~(Size(p) < HeaderLen)
          /\ Len(p.data) <= c.len
      <3> DEFINE n == Size(p)
                 m == Len(p.data)
                 one == Len(out) = 1
                 all == c.len
      <3>1. /\ one => n = total
            /\ ~one => n = EpSize /\ total > EpSize
            /\ m \in Nat /\ n = m + HeaderLen /\ all \in Nat /\ total = all + HeaderLen
        BY <1>6, <2>2, <2>5, Sizes DEF total
      <3> HIDE DEF n, m, one, all
      <3>2. n <= total /\ (n = total <=> one) /\ ~(n < HeaderLen) /\ m <= all
        BY <3>1, Sizes
      <3> QED
        BY <3>2 DEF n, m, one, all
    <2>7. f = FirstPacket(d, p)
      BY <1>12, <2>6 DEF BulkOut, f
    <2>8. IF Size(p) = total THEN DecodesIt(f, c) ELSE Partial(f, c) /\ f.len = Size(p)
      BY <1>1, <1>3, <1>6, <2>3, <2>4, <2>6, <2>7, FirstContent DEF total
    <2> QED
      BY <1>10, <1>11, <2>2, <2>3, <2>6, <2>8, Sizes
  <1>13. CASE d.bulk = "RECEIVE_DATA"
    <2>1. /\ Named(d.hdr, host) /\ d.len \in Nat /\ Remaining(out, total - d.len)
          /\ Carried(out, d.len, c) /\ p.hdr = NoHeader /\ d.len >= EpSize
          /\ d.pos = d.len - HeaderLen /\ Holds(d, c, d.pos)
      BY <1>1, <1>13 DEF Sending, SendsIt, total
    <2>2. total - d.len \in Int
      BY <1>6, <2>1
    <2>3. /\ Len(out) = 1 => Size(p) = total - d.len
          /\ Len(out) # 1 => Size(p) = EpSize /\ total - d.len > EpSize
      BY <1>2, <2>1, <2>2, RemainingHead
    <2>4. Carries(p, c, d.pos) /\ Carried(rest, d.len + EpSize, c)
      <3>1. (IF d.len = 0 THEN 0 ELSE d.len - HeaderLen) = d.pos
        BY <2>1, Sizes
      <3>2. /\ p.data \in Seq(BlockCells(c))
            /\ \A k \in 1 .. Len(p.data) :
                 p.data[k] = BlockCell(c, (IF d.len = 0 THEN 0 ELSE d.len - HeaderLen) + k)
            /\ Carried(rest, d.len + EpSize, c)
        BY <1>2, <2>1, CarriedTail DEF rest
      <3> QED
        BY <3>1, <3>2 DEF Carries
    <2>5. d.hdr.len = c.len /\ d.hdr.type = c.type
      BY <2>1 DEF Named
    <2>6. d.len >= HeaderLen
      BY <2>1, Sizes
    <2>7. /\ Len(out) = 1 => d.len + Size(p) = total
          /\ Len(out) # 1 => Size(p) = EpSize /\ d.len + Size(p) < total
      BY <1>6, <2>1, <2>3, Sizes
    <2>8. f = NextPacket(d, p)
      BY <1>13 DEF BulkOut, f
    <2>9. IF d.len + Size(p) = total THEN DecodesIt(f, c)
          ELSE Partial(f, c) /\ f.len = d.len + Size(p)
      <3>1. \/ d.len + Size(p) = c.len + HeaderLen
            \/ Size(p) = EpSize /\ d.len + Size(p) < c.len + HeaderLen
        BY <2>7 DEF total
      <3> HIDE DEF p
      <3> QED
        BY <1>1, <1>6, <1>13, <2>1, <2>4, <2>5, <2>6, <2>8, <3>1, NextContent DEF total
    <2>10. CASE Len(out) = 1
      BY <1>10, <2>7, <2>9, <2>10
    <2>11. CASE Len(out) # 1
      <3>1. d.len + Size(p) # total /\ d.len + Size(p) \in Nat /\ d.len + Size(p) >= EpSize
            /\ d.len + Size(p) = d.len + EpSize
        BY <1>6, <2>1, <2>7, <2>11, Sizes
      <3> QED
        BY <1>11, <2>4, <2>9, <2>11, <3>1
    <2> QED
      BY <2>10, <2>11
  <1> QED
    BY <1>12, <1>13

-----------------------------------------------------------------------------

\* The next packet of a response is the slice of the buffer that follows the one read.
LEMMA BulkInContent ==
    ASSUME NEW e, IsDevice(e), e.bulk = "SEND_RESP", e.len \in Nat
    PROVE  LET f == BulkIn(e)
               n == Least(EpSize, e.len)
               left == e.len - n
               at == IF e.src = "header" THEN n - HeaderLen ELSE e.pos + n
           IN /\ f.buf = e.buf /\ f.hdr = e.hdr
              /\ \/ /\ left >= EpSize /\ f.bulk = "SEND_RESP" /\ f.src = "data" /\ f.pos = at
                    /\ f.len = left /\ f.in = <<Chunk(f, at, EpSize)>>
                 \/ left < EpSize /\ n = EpSize /\ f.bulk = "IDLE" /\ f.in = <<Chunk(f, at, left)>>
                 \/ left = 0 /\ n < EpSize /\ f.bulk = "IDLE" /\ f.in = e.in
  <1> DEFINE n == Least(EpSize, e.len)
             left == e.len - n
             at == IF e.src = "header" THEN n - HeaderLen ELSE e.pos + n
             next == [e EXCEPT !.src = "data", !.pos = at, !.len = left]
             Data(m) == SendData(next, [hdr |-> NoHeader, data |-> Slice(e, at, m)])
  <1>1. BulkIn(e) = IF left >= EpSize THEN Data(EpSize)
                    ELSE IF left > 0 \/ e.len = EpSize THEN LastXfer(Data(left))
                    ELSE LastXfer(next)
    BY DEF BulkIn
  <1>2. /\ n \in Nat /\ n <= EpSize /\ left \in Nat /\ EpSize \in Nat
        /\ left > 0 \/ e.len = EpSize => n = EpSize
        /\ ~(left > 0 \/ e.len = EpSize) => n < EpSize /\ left = 0
    BY Sizes DEF Least
  <1> HIDE DEF at, left, n
  <1>3. /\ IsDevice(next) /\ next.buf = e.buf /\ next.hdr = e.hdr /\ next.src = "data"
        /\ next.pos = at /\ next.bulk = "SEND_RESP" /\ next.len = left /\ next.in = e.in
    BY DEF IsDevice, DeviceFields
  <1> HIDE DEF next
  <1>4. ASSUME NEW m
        PROVE  /\ IsDevice(Data(m)) /\ Data(m).buf = e.buf /\ Data(m).hdr = e.hdr
               /\ Data(m).src = "data" /\ Data(m).pos = at
               /\ Data(m).bulk = "SEND_RESP" /\ Data(m).len = left
               /\ Data(m).in = <<Chunk(Data(m), at, m)>>
    <2> DEFINE p == [hdr |-> NoHeader, data |-> Slice(e, at, m)]
               t == [next EXCEPT !.in = <<p>>]
    <2>1. Data(m) = t
      BY DEF SendData
    <2>2. p = [hdr |-> NoHeader, data |-> Slice(e, at, m)]
      OBVIOUS
    <2> HIDE DEF p
    <2>3. /\ IsDevice(t) /\ t.buf = e.buf /\ t.hdr = e.hdr /\ t.src = "data" /\ t.pos = at
          /\ t.bulk = "SEND_RESP" /\ t.len = left /\ t.in = <<p>>
      BY <1>3 DEF IsDevice, DeviceFields
    <2> HIDE DEF t
    <2>4. p = Chunk(t, at, m)
      BY <2>2, <2>3 DEF Chunk, Slice
    <2> QED
      BY <2>1, <2>3, <2>4
  <1>5. ASSUME NEW f, IsDevice(f)
        PROVE  /\ LastXfer(f).buf = f.buf /\ LastXfer(f).in = f.in /\ LastXfer(f).hdr = f.hdr
               /\ LastXfer(f).bulk = "IDLE"
               /\ \A m : Chunk(LastXfer(f), at, m) = Chunk(f, at, m)
    <2>1. /\ LastXfer(f).buf = f.buf /\ LastXfer(f).in = f.in /\ LastXfer(f).hdr = f.hdr
          /\ LastXfer(f).bulk = "IDLE"
      BY <1>5 DEF LastXfer, IsDevice, DeviceFields
    <2> QED
      BY <2>1 DEF Chunk, Slice
  <1> HIDE DEF Data
  <1>6. CASE left >= EpSize
    <2>1. BulkIn(e) = Data(EpSize)
      BY <1>1, <1>6
    <2> QED
      BY <1>4, <1>6, <2>1 DEF at, left, n
  <1>7. CASE ~(left >= EpSize) /\ (left > 0 \/ e.len = EpSize)
    <2>1. n = EpSize /\ left < EpSize
      BY <1>2, <1>7
    <2>2. BulkIn(e) = LastXfer(Data(left))
      BY <1>1, <1>7
    <2> QED
      BY <1>4, <1>5, <2>1, <2>2 DEF at, left, n
  <1>8. CASE ~(left >= EpSize) /\ ~(left > 0 \/ e.len = EpSize)
    <2>1. BulkIn(e) = LastXfer(next)
      BY <1>1, <1>8
    <2>2. left = 0 /\ n < EpSize
      BY <1>2, <1>8
    <2> QED
      BY <1>3, <1>5, <2>1, <2>2 DEF at, left, n
  <1> QED
    BY <1>6, <1>7, <1>8

\* io_exchange touches neither the buffer nor the transfer.
LEMMA PumpContent ==
    ASSUME NEW e, IsDevice(e)
    PROVE  LET f == Pump(e).dev IN
           /\ f.buf = e.buf /\ f.hdr = e.hdr /\ f.bulk = e.bulk /\ f.src = e.src
           /\ f.pos = e.pos /\ f.len = e.len /\ f.in = e.in
           /\ f.media = "CCID" => f.alen = e.alen /\ e.media = "CCID"
  <1> DEFINE f == [e EXCEPT !.media = "NONE", !.alen = 0]
  <1>1. Pump(e).dev \in {e, f}
    BY DEF Pump
  <1>2. /\ f.buf = e.buf /\ f.hdr = e.hdr /\ f.bulk = e.bulk /\ f.src = e.src
        /\ f.pos = e.pos /\ f.len = e.len /\ f.in = e.in /\ f.media = "NONE"
    BY DEF IsDevice, DeviceFields
  <1> HIDE DEF f
  <1> QED
    BY <1>1, <1>2

\* What the host has read grows by the slice that follows it.
LEMMA DataGrows ==
    ASSUME NEW e, NEW S, NEW data \in Seq(S), NEW m \in Nat,
           \A k \in 1 .. Len(data) : data[k] = e.buf[k - 1]
    PROVE  LET all == data \o Slice(e, Len(data), m) IN
           /\ Len(all) = Len(data) + m
           /\ \E T : all \in Seq(T)
           /\ \A k \in 1 .. Len(all) : all[k] = e.buf[k - 1]
  <1> DEFINE piece == Slice(e, Len(data), m)
             n == Len(data)
             all == data \o piece
  <1>1. n \in Nat
    OBVIOUS
  <1>2. PICK R : /\ Len(piece) = m /\ \A i \in 1 .. m : piece[i] = e.buf[n + i - 1]
                 /\ piece \in Seq(R)
    <2> HIDE DEF n
    <2>1. piece = Slice(e, n, m)
      BY DEF n
    <2> DEFINE s == Slice(e, n, m)
    <2>2. /\ Len(s) = m /\ \A i \in 1 .. m : s[i] = e.buf[n + i - 1]
          /\ \E R : s \in Seq(R)
      BY SliceContent
    <2> HIDE DEF s
    <2>3. piece = s
      BY <2>1 DEF s
    <2> QED
      BY <2>2, <2>3
  <1> DEFINE T == S \cup R
  <1>3. data \in Seq(T) /\ piece \in Seq(T)
    BY <1>2
  <1> HIDE DEF T
  <1>4. /\ all \in Seq(T) /\ Len(all) = n + m
        /\ \A i \in 1 .. n : all[i] = data[i]
        /\ \A i \in 1 .. m : all[n + i] = piece[i]
    <2> HIDE DEF n
    <2>1. n = Len(data)
      BY DEF n
    <2>2. /\ all \in Seq(T) /\ Len(all) = Len(data) + Len(piece)
          /\ \A i \in 1 .. Len(data) : all[i] = data[i]
          /\ \A i \in 1 .. Len(piece) : all[Len(data) + i] = piece[i]
      BY <1>3, JoinContent
    <2> HIDE DEF all
    <2> QED
      BY <1>2, <2>1, <2>2
  <1> HIDE DEF all
  <1>5. ASSUME NEW k \in 1 .. n + m PROVE all[k] = e.buf[k - 1]
    <2>1. CASE k <= n
      <3>1. k \in 1 .. n
        BY <1>1, <2>1
      <3> QED
        BY <1>4, <3>1
    <2>2. CASE ~(k <= n)
      <3>1. k - n \in 1 .. m /\ n + (k - n) = k /\ n + (k - n) - 1 = k - 1
        BY <1>1, <2>2
      <3> DEFINE i == k - n
      <3>2. all[n + i] = piece[i] /\ piece[i] = e.buf[n + i - 1]
        BY <1>2, <1>4, <3>1
      <3> QED
        BY <3>1, <3>2
    <2> QED
      BY <2>1, <2>2
  <1> QED
    BY <1>4, <1>5 DEF all, n

\* The host has read the whole response.
LEMMA AllRead ==
    ASSUME NEW e, NEW h, Response(e, h), NEW S, h.data \in Seq(S), Len(h.data) = e.hdr.len,
           h.got[1].hdr.len = e.hdr.len
    PROVE  WholeRead(h)
  <1> DEFINE n == Len(h.data)
             reply == Cells("reply", n)
  <1>1. ASSUME h.cmd.type \in ToApp PROVE h.data = reply
    <2>1. n \in Nat
      OBVIOUS
    <2>2. \A k \in 1 .. n : h.data[k] = <<"reply", k>>
      BY <1>1 DEF Response
    <2> HIDE DEF n
    <2>3. Len(reply) = n /\ (\A k \in 1 .. n : reply[k] = <<"reply", k>>) /\ \E T : reply \in Seq(T)
      BY <2>1, CellsContent
    <2> HIDE DEF reply
    <2>4. Len(h.data) = n
      BY DEF n
    <2>5. PICK T : reply \in Seq(T)
      BY <2>3
    <2> DEFINE data == h.data
    <2>6. data \in Seq(S) /\ Len(data) = Len(reply) /\ \A k \in 1 .. Len(data) : data[k] = reply[k]
      BY <2>2, <2>3, <2>4
    <2> HIDE DEF data
    <2>7. data = reply
      BY <2>5, <2>6, SameSequence
    <2> QED
      BY <2>7 DEF data
  <1> QED
    BY <1>1 DEF WholeRead

\* Where the packet the host reads is in the response, and what is left after it.
InPlace(e, h, p, m) ==
    /\ m \in Nat /\ p.data = Slice(e, Len(h.data), m)
    /\ Len(h.data) + m = IF e.src = "header" THEN Least(EpSize, e.len) - HeaderLen
                         ELSE e.pos + Least(EpSize, e.len)
    /\ Len(h.data) + m + (e.len - Least(EpSize, e.len)) = e.hdr.len
    /\ (IF h.got = << >> THEN p ELSE h.got[1]).hdr.len = e.hdr.len

\* The packet offered is the one that follows what the host has read.
LEMMA PacketInPlace ==
    ASSUME NEW e, NEW h, AnswersIt(e, h), h.got = << >> => h.data = << >>, Len(h.data) \in Nat,
           e.len \in Nat, NEW p, e.in = <<p>>
    PROVE  \E m : InPlace(e, h, p, m)
  <1> DEFINE n == Least(EpSize, e.len)
  <1>1. e.hdr.len \in Nat
    BY DEF AnswersIt, Response
  <1>2. CASE h.got = << >> /\ Offered(e)
    <2> DEFINE m == n - HeaderLen
    <2>1. Len(h.data) = 0
      BY <1>2
    <2>2. e.src = "header" /\ e.len = e.hdr.len + HeaderLen
      BY <1>2 DEF Offered
    <2>3. p = [hdr |-> e.hdr, data |-> Slice(e, 0, m)]
      BY <1>2 DEF Offered
    <2>4. m \in Nat /\ 0 + m = m /\ m + (e.len - n) = e.hdr.len
      BY <1>1, <2>2, Sizes DEF Least
    <2> HIDE DEF m
    <2>5. p.data = Slice(e, 0, m) /\ p.hdr = e.hdr
      BY <2>3
    <2>6. m = Least(EpSize, e.len) - HeaderLen
      BY DEF m
    <2> QED
      BY <1>2, <2>1, <2>2, <2>4, <2>5, <2>6 DEF InPlace
  <1>3. CASE /\ e.src = "data" /\ e.pos = Len(h.data) /\ e.pos + e.len = e.hdr.len
             /\ Follows(e, h, n)
    <2>1. p = Chunk(e, Len(h.data), n) /\ n \in Nat /\ h.got # << >> /\ h.got[1].hdr.len = e.hdr.len
      BY <1>3 DEF Follows
    <2>2. Len(h.data) + n + (e.len - n) = e.hdr.len
      BY <1>1, <1>3, <2>1
    <2> QED
      BY <1>3, <2>1, <2>2 DEF InPlace, Chunk
  <1> QED
    BY <1>2, <1>3 DEF AnswersIt

\* A packet is read, and the host has that much more of the response.
LEMMA ReadContents ==
    ASSUME Shapes, ResponseInv, ResponseInv', ContentsInv, HostRead PROVE ContentsInv'
  <1>1. /\ host.phase = "waiting" /\ d.in # << >> /\ IsDevice(d)
        /\ Responding(d, doing, host) \/ Ending(d, doing, host)
    BY DEF HostRead, ResponseInv, ResponseOf, Waiting, Refused, Working, Still, Shapes
  <1>2. /\ DOMAIN d.buf = 0 .. BufLen - 1 /\ (host.got = << >> => host.data = << >>)
        /\ d.bulk = "SEND_RESP" => AnswersIt(d, host)
        /\ d.bulk # "SEND_RESP" => EndsIt(d, host)
    BY <1>1 DEF ContentsInv, ContentsOf
  <1>3. PICK p : /\ d.in = <<p>>
                 /\ \/ Responding(d, doing, host) /\ Size(p) = Least(EpSize, d.len)
                    \/ Ending(d, doing, host) /\ Size(p) < EpSize
    BY <1>1 DEF Responding, Ending
  <1>4. PICK S : host.data \in Seq(S)
    BY DEF ContentsInv, ContentsOf
  <1>5. PICK T : host.got \in Seq(T)
    BY DEF ResponseInv, ResponseOf
  <1> DEFINE e == [d EXCEPT !.in = << >>]
             f == BulkIn(e)
             got == Append(host.got, p)
             phase == IF Size(p) < EpSize THEN "done" ELSE host.phase
             all == host.data \o p.data
             g == d'
             h == host'
  <1>6. /\ IsDevice(e) /\ e.in = << >> /\ e.bulk = d.bulk /\ e.len = d.len
        /\ e.buf = d.buf /\ e.hdr = d.hdr /\ e.src = d.src /\ e.pos = d.pos
    BY <1>1 DEF IsDevice, DeviceFields
  <1>7. g = Pump(f).dev
    BY DEF HostRead, Event
  <1>8. host' = [host EXCEPT !.got = got, !.data = all, !.phase = phase]
    BY <1>3 DEF HostRead
  <1> HIDE DEF e
  <1>9. got # << >> /\ got[1] = IF host.got = << >> THEN p ELSE host.got[1]
    <2> DEFINE old == host.got
    <2>1. old \in Seq(T)
      BY <1>5
    <2> HIDE DEF old
    <2>2. Append(old, p) # << >> /\ Append(old, p)[1] = IF old = << >> THEN p ELSE old[1]
      <3>1. Len(old) \in Nat /\ Len(Append(old, p)) = Len(old) + 1
        BY <2>1
      <3>2. CASE old = << >>
        BY <2>1, <3>2
      <3>3. CASE old # << >>
        <4>1. 1 \in 1 .. Len(old)
          BY <2>1, <3>1, <3>3
        <4>2. Append(old, p)[1] = old[1]
          BY <2>1, <4>1
        <4> QED
          BY <3>1, <3>3, <4>2
      <3> QED
        BY <3>1, <3>2, <3>3
    <2> QED
      BY <2>2 DEF old
  <1> HIDE DEF got, phase, all
  <1>10. h.phase = phase /\ h.got = got /\ h.cmd = host.cmd /\ h.data = all
    BY <1>8 DEF Shapes, HostFields
  <1>11. IsDevice(f)
    BY <1>6, BulkInNotice
  <1>12. /\ g.buf = f.buf /\ g.hdr = f.hdr /\ g.bulk = f.bulk /\ g.src = f.src
         /\ g.pos = f.pos /\ g.len = f.len /\ g.in = f.in
    BY <1>7, <1>11, PumpContent
  <1>13. ASSUME NEW m \in Nat, p.data = Slice(d, Len(host.data), m), Response(d, host)
         PROVE  /\ Len(h.data) = Len(host.data) + m /\ \E R : h.data \in Seq(R)
                /\ Response(d, h)
    <2>1. \A k \in 1 .. Len(host.data) : host.data[k] = d.buf[k - 1]
      BY <1>13 DEF Response
    <2> DEFINE piece == p.data
               old == host.data
    <2>2. piece = Slice(d, Len(old), m) /\ old \in Seq(S) /\ \A k \in 1 .. Len(old) : old[k] = d.buf[k - 1]
      BY <1>4, <1>13, <2>1
    <2>3. all = old \o piece
      BY DEF all
    <2> HIDE DEF piece, old
    <2>4. /\ Len(all) = Len(old) + m /\ \E R : all \in Seq(R)
          /\ \A k \in 1 .. Len(all) : all[k] = d.buf[k - 1]
      <3> DEFINE more == old \o Slice(d, Len(old), m)
      <3>1. /\ Len(more) = Len(old) + m /\ \E R : more \in Seq(R)
            /\ \A k \in 1 .. Len(more) : more[k] = d.buf[k - 1]
        BY <2>2, DataGrows, ZenonT(60)
      <3>2. all = more
        BY <2>2, <2>3
      <3> HIDE DEF more
      <3> QED
        BY <3>1, <3>2
    <2> QED
      BY <1>10, <1>13, <2>4 DEF Response, old
  <1>14. ResponseOf(g, doing', h)
    BY DEF ResponseInv
  <1> HIDE DEF g, h
  <1>15. SUFFICES ContentsOf(g, h)
    BY DEF ContentsInv, g, h
  <1>16. Len(host.data) \in Nat
    BY <1>4
  <1>17. CASE Ending(d, doing, host) /\ Size(p) < EpSize
    <2> DEFINE m == d.hdr.len - Len(host.data)
    <2>1. f = e
      BY <1>6, <1>17 DEF Ending, BulkIn
    <2> HIDE DEF f
    <2>2. EndsIt(d, host)
      BY <1>2, <1>17 DEF Ending
    <2>3. /\ m \in Nat /\ p.data = Slice(d, Len(host.data), m) /\ Response(d, host)
          /\ host.got # << >> /\ host.got[1].hdr.len = d.hdr.len
      BY <1>3, <2>2 DEF EndsIt, Follows, Chunk
    <2>4. Len(host.data) + m = d.hdr.len
      BY <1>16, <2>3 DEF Response
    <2> HIDE DEF m
    <2>5. Len(h.data) = d.hdr.len /\ (\E R : h.data \in Seq(R)) /\ Response(d, h)
      BY <1>13, <2>3, <2>4
    <2>6. h.phase = "done" /\ h.got # << >> /\ h.got[1].hdr.len = d.hdr.len
      BY <1>9, <1>10, <1>17, <2>3 DEF phase
    <2>7. WholeRead(h)
      BY <2>5, <2>6, AllRead
    <2> QED
      BY <1>2, <1>6, <1>12, <2>1, <2>5, <2>6, <2>7 DEF ContentsOf
  <1>18. CASE Responding(d, doing, host) /\ Size(p) = Least(EpSize, d.len)
    <2>1. e.bulk = "SEND_RESP" /\ e.len \in Nat /\ AnswersIt(d, host)
      BY <1>2, <1>6, <1>18 DEF Responding
    <2>2. PICK m : InPlace(d, host, p, m)
      BY <1>2, <1>3, <1>6, <1>16, <2>1, PacketInPlace
    <2> DEFINE n == Least(EpSize, d.len)
               left == d.len - n
               at == IF d.src = "header" THEN n - HeaderLen ELSE d.pos + n
    <2>3. /\ f.buf = d.buf /\ f.hdr = d.hdr
          /\ \/ /\ left >= EpSize /\ f.bulk = "SEND_RESP" /\ f.src = "data" /\ f.pos = at
                /\ f.len = left /\ f.in = <<Chunk(f, at, EpSize)>>
             \/ left < EpSize /\ n = EpSize /\ f.bulk = "IDLE" /\ f.in = <<Chunk(f, at, left)>>
             \/ left = 0 /\ n < EpSize /\ f.bulk = "IDLE" /\ f.in = << >>
      BY <1>6, <2>1, BulkInContent
    <2>4. /\ Len(h.data) = at /\ (\E R : h.data \in Seq(R)) /\ Response(d, h)
          /\ h.got # << >> /\ h.got[1].hdr.len = d.hdr.len /\ at + left = d.hdr.len
      <3>1. Response(d, host)
        BY <2>1 DEF AnswersIt
      <3>2. /\ m \in Nat /\ p.data = Slice(d, Len(host.data), m) /\ Len(host.data) + m = at
            /\ Len(host.data) + m + left = d.hdr.len
            /\ (IF host.got = << >> THEN p ELSE host.got[1]).hdr.len = d.hdr.len
        BY <2>2 DEF InPlace
      <3> HIDE DEF at, left
      <3> QED
        BY <1>9, <1>10, <1>13, <3>1, <3>2
    <2>5. Response(g, h) /\ DOMAIN g.buf = 0 .. BufLen - 1 /\ g.hdr.len = d.hdr.len
      BY <1>2, <1>12, <2>3, <2>4 DEF Response
    <2>6. \A k : Chunk(f, at, k) = Chunk(g, at, k)
      BY <1>12 DEF Chunk, Slice
    <2>7. Size(p) = n /\ n \in Nat /\ left \in Nat /\ EpSize \in Nat /\ (left >= EpSize => n = EpSize)
      BY <1>6, <1>18, <2>1, Sizes DEF Least
    <2>8. at \in Nat
      BY <1>16, <2>2 DEF InPlace
    <2> HIDE DEF f, at, left, n
    <2>9. CASE /\ left >= EpSize /\ f.bulk = "SEND_RESP" /\ f.src = "data" /\ f.pos = at
               /\ f.len = left /\ f.in = <<Chunk(f, at, EpSize)>>
      <3>1. h.phase = "waiting"
        BY <1>1, <1>10, <2>7, <2>9 DEF phase
      <3>2. Least(EpSize, g.len) = EpSize
        BY <1>12, <2>7, <2>9 DEF Least
      <3>3. Follows(g, h, Least(EpSize, g.len))
        BY <1>12, <2>4, <2>5, <2>6, <2>7, <2>9, <3>2 DEF Follows
      <3>4. AnswersIt(g, h)
        BY <1>12, <2>4, <2>5, <2>9, <3>3 DEF AnswersIt
      <3> QED
        BY <1>12, <2>4, <2>5, <2>9, <3>1, <3>4 DEF ContentsOf
    <2>10. CASE left < EpSize /\ n = EpSize /\ f.bulk = "IDLE" /\ f.in = <<Chunk(f, at, left)>>
      <3>1. h.phase = "waiting" /\ g.bulk = "IDLE" /\ g.in # << >>
        BY <1>1, <1>10, <1>12, <2>7, <2>10 DEF phase
      <3>2. g.media = "NONE"
        BY <1>14, <3>1 DEF ResponseOf, Waiting, Refused, Still, Working, Responding, Ending
      <3>3. g.hdr.len - Len(h.data) = left /\ Len(h.data) <= g.hdr.len
        BY <2>4, <2>5, <2>7, <2>8
      <3>4. EndsIt(g, h)
        BY <1>12, <2>4, <2>5, <2>6, <2>7, <2>10, <3>3 DEF EndsIt, Follows
      <3> QED
        BY <2>4, <2>5, <3>1, <3>2, <3>4 DEF ContentsOf
    <2>11. CASE left = 0 /\ n < EpSize /\ f.bulk = "IDLE" /\ f.in = << >>
      <3>1. h.phase = "done"
        BY <1>10, <2>7, <2>11 DEF phase
      <3>2. Len(h.data) = d.hdr.len
        BY <2>4, <2>8, <2>11
      <3>3. WholeRead(h)
        BY <2>4, <3>2, AllRead
      <3> QED
        BY <2>4, <2>5, <3>1, <3>3 DEF ContentsOf
    <2> QED
      BY <2>3, <2>9, <2>10, <2>11
  <1> QED
    BY <1>3, <1>17, <1>18

-----------------------------------------------------------------------------

\* A message begins.
LEMMA BeginContents ==
    ASSUME NEW c \in Commands \cup {AbortCommand}, NEW e, DOMAIN e.buf = 0 .. BufLen - 1,
           e.bulk # "RECEIVE_DATA",
           NEW h, h.phase = "sending", h.cmd = c, h.data = << >>, h.out = Packets(c, h.seq)
    PROVE  ContentsOf(e, h)
  <1>1. c.len \in Nat
    BY PacketsSent
  <1>2. SendsIt(e, h)
    BY <1>1, PacketsCarry DEF SendsIt
  <1>3. << >> \in Seq({})
    OBVIOUS
  <1> QED
    BY <1>2, <1>3 DEF ContentsOf

\* The reply of the application is in the buffer as its response begins.
LEMMA ReplyContents ==
    ASSUME Shapes, ResponseInv, ContentsInv, NEW n \in Replies, Reply(n) PROVE ContentsInv'
  <1>1. doing = "working" /\ d.state = "CCID" /\ host' = host
    BY DEF Reply
  <1>2. /\ host.phase = "waiting" /\ host.got = << >> /\ host.data = << >>
        /\ DOMAIN d.buf = 0 .. BufLen - 1 /\ IsDevice(d)
    <2>1. host.phase = "waiting" /\ host.got = << >>
      BY <1>1 DEF ResponseInv, ResponseOf, Sending, Still, Waiting, Refused, Working, Responding, Ending
    <2> QED
      BY <2>1 DEF ContentsInv, ContentsOf, Shapes
  <1> DEFINE reply == Cells("reply", n)
             p == Put(d, 0, reply)
             s == [p EXCEPT !.hdr.len = n]
             f == SendReply(Respond(s, "DATABLOCK", SlotNoError))
  <1>3. d' = f
    BY DEF Reply
  <1>4. n \in Nat /\ n <= BufLen
    BY RepliesAssumption, Sizes
  <1>5. Len(reply) = n /\ \A i \in 1 .. n : reply[i] = <<"reply", i>>
    BY <1>4, CellsContent
  <1> HIDE DEF reply
  <1>6. Patched(d.buf, p.buf, 0, reply) /\ IsDevice(p)
    <2>1. Patched(d.buf, p.buf, 0, reply)
      BY <1>2, PutContent
    <2>2. Quiet(d, p)
      BY <1>2, PutQuiet
    <2> QED
      BY <2>1, <2>2 DEF Quiet
  <1> HIDE DEF p
  <1>7. IsDevice(s) /\ s.buf = p.buf /\ s.hdr.len = n
    BY <1>6 DEF IsDevice, DeviceFields, HeaderFields
  <1> HIDE DEF s
  <1>8. Offered(f) /\ f.buf = s.buf /\ f.hdr.len = n
    BY <1>7, RespondOffers
  <1>9. f.bulk = "SEND_RESP"
    <2>1. Answering(s, f, "DATABLOCK")
      BY <1>7, RespondAnswers
    <2> HIDE DEF f
    <2> QED
      BY <2>1 DEF Answering
  <1> HIDE DEF f
  <1>10. DOMAIN f.buf = 0 .. BufLen - 1
    BY <1>2, <1>6, <1>7, <1>8 DEF Patched
  <1>11. \A k \in 1 .. n : f.buf[k - 1] = <<"reply", k>>
    <2> TAKE k \in 1 .. n
    <2>1. k - 1 \in 0 .. BufLen - 1 /\ k - 1 \in 0 .. 0 + n - 1 /\ (k - 1) - 0 + 1 = k
      BY <1>4, Sizes
    <2>2. p.buf[k - 1] = reply[k]
      BY <1>2, <1>5, <1>6, <2>1 DEF Patched
    <2> QED
      BY <1>5, <1>7, <1>8, <2>2
  <1>12. AnswersIt(f, host)
    <2>1. Len(host.data) = 0
      BY <1>2
    <2>2. f.hdr.len \in Nat /\ \A k \in 1 .. f.hdr.len : f.buf[k - 1] = <<"reply", k>>
      BY <1>4, <1>8, <1>11
    <2>3. \A k \in 1 .. Len(host.data) : host.data[k] = f.buf[k - 1]
      BY <2>1
    <2>4. Response(f, host)
      BY <2>2, <2>3 DEF Response
    <2> QED
      BY <1>2, <1>8, <2>4 DEF AnswersIt
  <1>13. << >> \in Seq({})
    OBVIOUS
  <1> QED
    BY <1>1, <1>2, <1>3, <1>9, <1>10, <1>12, <1>13 DEF ContentsInv, ContentsOf

\* What does not touch the buffer nor the transfer does not touch the contents.
SameContent(e, f) == SameWork(e, f) /\ f.buf = e.buf /\ f.alen = e.alen /\ f.src = e.src /\ f.pos = e.pos

\* A step that leaves the buffer and the transfer alone keeps the contents.
LEMMA ContentsKept ==
    ASSUME NEW e, NEW h, ContentsOf(e, h), NEW f, NEW k,
           SameContent(e, f), SameHost(h, k), k.data = h.data
    PROVE  ContentsOf(f, k)
  <1>1. \A at, n : Slice(f, at, n) = Slice(e, at, n) /\ Chunk(f, at, n) = Chunk(e, at, n)
    BY DEF SameContent, Slice, Chunk
  <1>2. SendsIt(e, h) => SendsIt(f, k)
    BY DEF SameContent, SameWork, SameHost, SendsIt, Holds
  <1>3. Response(e, h) => Response(f, k)
    BY DEF SameContent, SameWork, SameHost, Response
  <1>4. \A n : Follows(e, h, n) => Follows(f, k, n)
    BY <1>1 DEF SameContent, SameWork, SameHost, Follows
  <1>5. Offered(e) => Offered(f)
    BY <1>1 DEF SameContent, SameWork, Offered
  <1>6. AnswersIt(e, h) => AnswersIt(f, k)
    BY <1>3, <1>4, <1>5 DEF SameContent, SameWork, SameHost, AnswersIt
  <1>7. EndsIt(e, h) => EndsIt(f, k)
    BY <1>3, <1>4 DEF SameContent, SameWork, SameHost, EndsIt
  <1>8. WholeRead(h) => WholeRead(k)
    BY DEF SameHost, WholeRead
  <1> QED
    BY <1>1, <1>2, <1>6, <1>7, <1>8 DEF SameContent, SameWork, SameHost, ContentsOf

\* Every step keeps the contents.
LEMMA ContentsStep ==
    ASSUME LongReset, PinsWhole, Shapes, ResponseInv, ContentsInv, [Next]_vars PROVE ContentsInv'
  <1>0. ResponseInv'
    BY ResponseStep
  <1>1. ASSUME NEW c \in Commands, HostCommand(c) PROVE ContentsInv'
    <2> DEFINE seq == (host.seq + 1) % Seqs
               ps == Packets(c, seq)
               h == host'
    <2>1. d' = d /\ host.phase = "idle"
      BY <1>1 DEF HostCommand
    <2>2. host' = [host EXCEPT !.phase = "sending", !.seq = seq, !.cmd = c, !.got = << >>,
                               !.data = << >>, !.out = ps]
      BY <1>1 DEF HostCommand
    <2>3. d.bulk # "RECEIVE_DATA" /\ DOMAIN d.buf = 0 .. BufLen - 1
      BY <2>1 DEF ResponseInv, ResponseOf, ContentsInv, ContentsOf
    <2> HIDE DEF seq
    <2>4. h.phase = "sending" /\ h.seq = seq /\ h.cmd = c /\ h.data = << >> /\ h.out = Packets(c, seq)
      BY <2>2 DEF Shapes, HostFields
    <2> HIDE DEF h
    <2>5. ContentsOf(d, h)
      BY <2>3, <2>4, BeginContents
    <2> QED
      BY <2>1, <2>5 DEF ContentsInv, h
  <1>2. ASSUME HostNext PROVE ContentsInv'
    <2>1. host' = [host EXCEPT !.phase = "idle", !.cmd = NoHeader, !.got = << >>, !.data = << >>]
          /\ d' = d
      BY <1>2 DEF HostNext
    <2>2. host'.phase = "idle" /\ host'.data = << >>
      BY <2>1 DEF Shapes, HostFields
    <2>3. << >> \in Seq({})
      OBVIOUS
    <2> QED
      BY <2>1, <2>2, <2>3 DEF ContentsInv, ContentsOf
  <1>3. ASSUME ClassAbort PROVE ContentsInv'
    <2> DEFINE h == host'
               f == CmdAbort(d, 0, host.seq)
    <2>1. Unanswered /\ d' = f
      BY <1>3 DEF ClassAbort
    <2>2. Refused(d, doing, host) /\ Recover(host.cmd) = "abort"
      BY <1>3, <2>1 DEF ClassAbort, Unanswered, ResponseInv, ResponseOf, Waiting, Working,
                        Responding, Ending
    <2>3. Quiet(d, f)
      BY CmdAbortQuiet DEF Shapes
    <2> HIDE DEF f
    <2>4. f.bulk # "RECEIVE_DATA" /\ DOMAIN f.buf = 0 .. BufLen - 1
      BY <2>2, <2>3 DEF Refused, Quiet, SameTransfer, ContentsInv, ContentsOf
    <2>5. host.data = << >>
      BY <2>2 DEF Refused, ContentsInv, ContentsOf
    <2>6. host' = [host EXCEPT !.phase = "sending", !.cmd = AbortCommand,
                               !.out = Packets(AbortCommand, host.seq)]
      BY <1>3 DEF ClassAbort
    <2>7. /\ h.phase = "sending" /\ h.seq = host.seq /\ h.cmd = AbortCommand
          /\ h.data = << >> /\ h.out = Packets(AbortCommand, host.seq)
      BY <2>5, <2>6 DEF Shapes, HostFields
    <2> HIDE DEF h
    <2>8. ContentsOf(f, h)
      BY <2>4, <2>7, BeginContents
    <2> QED
      BY <2>1, <2>8 DEF ContentsInv, h
  <1>4. ASSUME NEW phase \in {"idle", "restarted"}, Reconfigure(phase) PROVE ContentsInv'
    <2> DEFINE f == [Configured EXCEPT !.buf = d.buf]
    <2>1. d' = f /\ host' = [host EXCEPT !.phase = phase, !.out = << >>, !.got = << >>, !.data = << >>]
      BY <1>4 DEF Reconfigure
    <2>2. f.buf = d.buf
      BY ConfiguredIs DEF IsDevice, DeviceFields
    <2> HIDE DEF f
    <2>3. host'.phase = phase /\ host'.data = << >>
      BY <2>1 DEF Shapes, HostFields
    <2>4. << >> \in Seq({})
      OBVIOUS
    <2> QED
      BY <2>1, <2>2, <2>3, <2>4 DEF ContentsInv, ContentsOf
  <1>5. ASSUME SameContent(d, d'), SameHost(host, host'), host'.data = host.data PROVE ContentsInv'
    <2> DEFINE f == d'
               k == host'
    <2>1. SameContent(d, f) /\ SameHost(host, k) /\ k.data = host.data
      BY <1>5
    <2> HIDE DEF f, k
    <2>2. ContentsOf(f, k)
      BY <2>1, ContentsKept DEF ContentsInv
    <2> QED
      BY <2>2 DEF ContentsInv, f, k
  <1>6. ASSUME HostInterrupt PROVE ContentsInv'
    <2>1. d' = [d EXCEPT !.intr = << >>, !.intrDone = TRUE]
      BY <1>6 DEF HostInterrupt
    <2>2. host' = host
      BY <1>6 DEF HostInterrupt
    <2>3. SameContent(d, d')
      BY <2>1 DEF Shapes, IsDevice, DeviceFields, SameWork, SameContent
    <2>4. SameHost(host, host') /\ host'.data = host.data
      BY <2>2 DEF Shapes, HostFields, SameHost
    <2> QED
      BY <1>5, <2>3, <2>4
  <1>7. ASSUME NEW present \in BOOLEAN, SetCard(present) PROVE ContentsInv'
    <2> DEFINE e == [d EXCEPT !.card = present, !.change = TRUE]
    <2>1. d' = IntMessage(e) /\ host' = host
      BY <1>7 DEF SetCard, Inserted
    <2>2. IsDevice(e) /\ SameContent(d, e)
      BY DEF Shapes, IsDevice, DeviceFields, SameWork, SameContent
    <2> HIDE DEF e
    <2>3. SameContent(e, IntMessage(e))
      BY <2>2 DEF IntMessage, IsDevice, DeviceFields, SameWork, SameContent
    <2>4. SameContent(d, d') /\ SameHost(host, host') /\ host'.data = host.data
      BY <2>1, <2>2, <2>3 DEF SameContent, SameWork, SameHost
    <2> QED
      BY <1>5, <2>4
  <1>8. ASSUME UNCHANGED vars PROVE ContentsInv'
    BY <1>5, <1>8 DEF vars, SameContent, SameWork, SameHost
  <1> QED
    BY <1>0, <1>1, <1>2, <1>3, <1>4, <1>6, <1>7, <1>8, SendContents, ReadContents, ReplyContents
       DEF Next, HostReset, GiveUp

\* Messages arrive whole, both ways, whatever their length, the number of their packets, the
\* aborts, the resets, the reader without its card and the application that takes its time: the
\* application works on the block the host sent and the host reads every byte of the response,
\* provided that the host resets after a message of several packets left without response and
\* that the driver sends a PIN operation with the whole of its APDU (CCID_BulkMessage_Out,
\* CCID_BulkMessage_In, SC_XferBlock, SC_Secure).
THEOREM MessagesWholeAlways == ASSUME LongReset, PinsWhole PROVE Spec => []MessagesWhole
  <1>1. Init => NoticeInv /\ ResponseInv /\ ContentsInv
    <2> SUFFICES ASSUME Init PROVE NoticeInv /\ ResponseInv /\ ContentsInv
      OBVIOUS
    <2>1. host.phase = "idle" /\ host.got = << >> /\ host.data = << >> /\ doing = "wait"
      BY DEF Init, Idle
    <2>2. << >> \in Seq({})
      OBVIOUS
    <2>3. Still(d, "wait") /\ d.bulk # "RECEIVE_DATA" /\ DOMAIN d.buf = 0 .. BufLen - 1
      BY ConfiguredIs DEF Init, Still
    <2> QED
      BY <2>1, <2>2, <2>3, NoticeInit DEF ResponseInv, ResponseOf, ContentsInv, ContentsOf
  <1>2. NoticeInv /\ ResponseInv /\ ContentsInv /\ [Next]_vars
          => (NoticeInv /\ ResponseInv /\ ContentsInv)'
    BY NoticeStep, ResponseStep, ContentsStep DEF NoticeInv
  <1>3. ResponseInv /\ ContentsInv => MessagesWhole
    <2> SUFFICES ASSUME ResponseInv, ContentsInv PROVE MessagesWhole
      OBVIOUS
    <2>1. doing = "working" => host.phase = "waiting" /\ d.media = "CCID" /\ d.bulk # "SEND_RESP"
      BY DEF ResponseInv, ResponseOf, Sending, Still, Waiting, Refused, Working, Responding, Ending
    <2> QED
      BY <2>1 DEF ContentsInv, ContentsOf, WholeRead, MessagesWhole, ToApp
  <1> QED
    BY <1>1, <1>2, <1>3, PTL DEF Spec
=============================================================================
