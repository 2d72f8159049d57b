---------------------------------- MODULE Ccid ----------------------------------
(* The smart card reader class (CCID) of the USB stack: bulk messages of a      *)
(* header and data cut in packets, their fourteen commands, the abort sequence, *)
(* the interrupt endpoint that reports the presence of the card, and the        *)
(* application that answers the blocks it is given.  The header is a union: the *)
(* fields b7, b8 and b9 are bSpecific_0, _1 and _2 of a command and bStatus,    *)
(* bError and bSpecific of its response, and the length is shared.  The data    *)
(* buffer is the APDU buffer of the application.                                *)
EXTENDS Integers, Sequences

CONSTANTS
    EpSize,      \* size of a bulk packet
    HeaderLen,   \* size of the header of a message
    BufLen,      \* size of the data buffer
    ParamsLen,   \* size of the parameters of the card
    RateLen,     \* size of a data rate and clock frequency
    Seqs,        \* sequence numbers of the host, 0 .. Seqs - 1
    Commands,    \* what the host sends: [type, len, slot, b7, b8, b9, op]
    Replies,     \* lengths of the answers of the application
    Recover(_),  \* what the host does of a command without response: abort, reset
    PinOffset,   \* where the APDU of a Secure message starts, by PIN operation
    PinLen       \* length of that APDU

ASSUME SizesAssumption == /\ HeaderLen \in Nat \ {0} /\ EpSize \in Nat /\ EpSize > HeaderLen
                          /\ RateLen \in 0 .. BufLen
                          /\ BufLen \in Nat /\ ParamsLen \in 0 .. BufLen /\ Seqs \in Nat \ {0}
(* A message fits the length the reader declares and a PIN operation is a known *)
(* one: the length of the answer to another is read uninitialised by the code.  *)
ASSUME CommandsAssumption == \A c \in Commands :
    /\ c.len \in 0 .. BufLen /\ c.type # "NONE"
    /\ c.type = "SECURE" => c.op \in DOMAIN PinOffset
ASSUME RepliesAssumption == Replies \subseteq 0 .. BufLen

(* The driver sends a PIN operation with the whole of its APDU: the code reads  *)
(* the APDU where the operation has it, whatever the length of the message.     *)
PinsWhole == \A c \in Commands : c.type = "SECURE" =>
    /\ PinOffset[c.op] \in Nat /\ PinLen \in Nat \ {0}
    /\ PinOffset[c.op] + PinLen <= c.len

VARIABLES d,     \* the device: G_io_ccid, the buffer, G_io_app and the two IN endpoints
                 \* (abort: << >> or the slot and the sequence number of a pending one)
          doing, \* the application: waiting, working on a command, sending its reply
          host   \* the driver of the host: the packets of a response and its data so far
vars == <<d, doing, host>>

NoHeader == [type |-> "NONE", len |-> 0, slot |-> 0, seq |-> 0, b7 |-> 0, b8 |-> 0, b9 |-> 0]
Least(a, b) == IF a < b THEN a ELSE b
Size(p) == Len(p.data) + IF p.hdr.type = "NONE" THEN 0 ELSE HeaderLen

(*---------------------------------------------------------------------------*)
(* Status and error bytes.                                                    *)
Active == 0
Inactive == 1
NoIcc == 2
Failed == 64
SlotNoError == 129
CmdNotSupported == 0

(* Bytes are told apart by what they belong to and their place in it. *)
Cells(what, n) == [i \in 1 .. n |-> <<what, i>>]
Put(e, at, cells) == [e EXCEPT !.buf = [i \in DOMAIN @ |->
                        IF i \in at .. at + Len(cells) - 1 THEN cells[i - at + 1] ELSE @[i]]]
Status(e, st) == [e EXCEPT !.hdr.b7 = st]

(* The tests of CCID_CheckCommandParams, in its order. *)
Checks(e) ==
    << [ask |-> "SLOT", bad |-> e.hdr.slot > 0, st |-> Failed + NoIcc, err |-> 5],
       [ask |-> "CARD", bad |-> ~e.card, st |-> Failed + NoIcc, err |-> 254],
       [ask |-> "LENGTH", bad |-> e.hdr.len # 0, st |-> Failed + Active, err |-> 1],
       [ask |-> "RFU2", bad |-> e.hdr.b8 # 0 \/ e.hdr.b9 # 0, st |-> Failed + Active, err |-> 8],
       [ask |-> "RFU3", bad |-> e.hdr.b7 # 0 \/ e.hdr.b8 # 0 \/ e.hdr.b9 # 0,
        st |-> Failed + Active, err |-> 7],
       [ask |-> "ABORT", bad |-> e.abort # << >>, st |-> Failed + Inactive, err |-> 255],
       [ask |-> "ACTIVE", bad |-> ~e.card, st |-> Failed + Inactive, err |-> 251] >>

(* The status is cleared first: with it the first byte specific to the command, *)
(* which no later test sees.                                                    *)
Refusals(e, asked) == SelectSeq(Checks(Status(e, Active)), LAMBDA k : k.ask \in asked /\ k.bad)
Check(e, asked) == LET no == Refusals(e, asked) IN
    IF no = << >> THEN [dev |-> Status(e, Active), err |-> 0]
    ELSE [dev |-> Status(e, no[1].st), err |-> no[1].err]

Asked == [ICCPOWERON |-> {"SLOT", "LENGTH", "RFU2", "CARD", "ABORT"},
          ICCPOWEROFF |-> {"SLOT", "RFU3", "LENGTH"},
          GETSLOTSTATUS |-> {"SLOT", "LENGTH", "CARD", "RFU3"},
          XFRBLOCK |-> {"SLOT", "CARD", "RFU3", "ABORT", "ACTIVE"},
          GETPARAMETERS |-> {"SLOT", "LENGTH", "CARD", "RFU3"},
          RESETPARAMETERS |-> {"SLOT", "LENGTH", "CARD", "RFU3", "ACTIVE"},
          SETPARAMETERS |-> {"SLOT", "CARD", "RFU2", "ACTIVE"},
          ESCAPE |-> {"SLOT", "CARD", "RFU3", "ABORT", "ACTIVE"},
          ICCCLOCK |-> {"SLOT", "CARD", "RFU2", "LENGTH", "ACTIVE"},
          ABORT |-> {"SLOT", "RFU3", "LENGTH"},
          T0APDU |-> {"SLOT", "CARD", "LENGTH", "ABORT"},
          MECHANICAL |-> {"SLOT", "CARD", "RFU2", "LENGTH"},
          SETDATARATE |-> {"SLOT", "CARD", "RFU3"},
          SECURE |-> {"SLOT", "CARD", "ABORT"}]

(* The message each command is answered with. *)
Answer == [t \in DOMAIN Asked |->
    CASE t \in {"ICCPOWERON", "XFRBLOCK", "SECURE"} -> "DATABLOCK"
      [] t \in {"GETPARAMETERS", "RESETPARAMETERS", "SETPARAMETERS"} -> "PARAMETERS"
      [] t = "ESCAPE" -> "ESCAPED"
      [] t = "SETDATARATE" -> "DATARATE"
      [] OTHER -> "SLOTSTATUS"]

(*---------------------------------------------------------------------------*)
(* Packets to the host.                                                       *)
SendData(e, p) == [e EXCEPT !.in = <<p>>]
Slice(e, at, n) == [i \in 1 .. n |-> e.buf[at + i - 1]]

SendReply(e) ==
    IF e.bulk # "SEND_RESP" THEN e
    ELSE LET len == e.hdr.len + HeaderLen IN
         SendData([e EXCEPT !.len = len, !.src = "header"],
                  [hdr |-> e.hdr, data |-> Slice(e, 0, Least(EpSize, len) - HeaderLen)])

(* The RDR_to_PC functions: an error voids the data. *)
Respond(e, type, err) ==
    [e EXCEPT !.bulk = "SEND_RESP",
              !.hdr.type = type, !.hdr.b8 = err, !.hdr.b9 = 0,
              !.hdr.len = IF err # SlotNoError \/ type = "SLOTSTATUS" THEN 0
                          ELSE IF type = "PARAMETERS" THEN ParamsLen ELSE @,
              !.buf = IF type = "PARAMETERS" THEN Put(e, 0, Cells("params", ParamsLen)).buf ELSE @]

(*---------------------------------------------------------------------------*)
(* Commands, once their parameters are checked.                               *)
Done(e) == [dev |-> Status(e, Active), err |-> SlotNoError]
Fails(e, err) == [dev |-> Status(e, Failed + Active), err |-> err]

(* Checking again that the card is there after the answer to reset. *)
IccPowerOn(e) ==
    IF e.hdr.b7 >= 3 THEN Fails(e, 7)
    ELSE LET on == Put([e EXCEPT !.hdr.len = 2], 0, Cells("atr", 2))
             k == Check(on, {"ACTIVE"}) IN
         IF k.err # 0 THEN k ELSE Done(k.dev)

IccPowerOff(e) == [Done(e) EXCEPT !.dev.hdr.b7 = IF e.card THEN Inactive ELSE NoIcc]

(* SC_XferBlock: the buffer is the same, an APDU elsewhere in it is moved. *)
GiveBlock(e, at, n) ==
    [Put(e, 0, Slice(e, at, n)) EXCEPT !.alen = n, !.media = "CCID", !.state = "CCID"]
XfrBlock(e) == LET n == e.hdr.len IN
    Done(GiveBlock([e EXCEPT !.hdr.len = 256 * e.hdr.b9 + e.hdr.b8], 0, n))


(* The second request of an abort, the one that matches the first, ends it. *)
CmdAbort(e, slot, seq) ==
    [e EXCEPT !.abort = IF @ = << >> THEN <<slot, seq>>
                        ELSE IF @ = <<slot, seq>> THEN << >> ELSE @]

SetDataRate(e) == IF e.hdr.len # RateLen THEN Fails(e, 1) ELSE Done(e)

(* The APDU of a PIN operation, its class replaced. *)
PinApdu(e) == LET at == PinOffset[e.buf[0][1]] IN
    GiveBlock([Put(e, at, Cells("cla", 1)) EXCEPT !.hdr.len = PinLen], at, PinLen)
Secure(e) == IF e.hdr.b8 # 0 \/ e.hdr.b9 # 0 THEN Fails(e, 8) ELSE Done(PinApdu(e))

(* The others succeed: the verdict on new parameters is overwritten by that of the card. *)
Execute(e) == LET t == e.hdr.type IN
    CASE t = "ICCPOWERON" -> IccPowerOn(e)
      [] t = "ICCPOWEROFF" -> IccPowerOff(e)
      [] t = "XFRBLOCK" -> XfrBlock(e)
      [] t = "ESCAPE" -> Fails(e, CmdNotSupported)
      [] t = "ICCCLOCK" -> IF e.hdr.b7 > 1 THEN Fails(e, 7) ELSE Done(e)
      [] t = "ABORT" -> Done(CmdAbort(e, e.hdr.slot, e.hdr.seq))
      [] t = "T0APDU" -> Fails(e, IF e.hdr.b7 > 3 THEN 7 ELSE CmdNotSupported)
      [] t = "MECHANICAL" -> Fails(e, IF e.hdr.b7 > 5 THEN 7 ELSE CmdNotSupported)
      [] t = "SETDATARATE" -> SetDataRate(e)
      [] t = "SECURE" -> Secure(e)
      [] OTHER -> Done(e)

Process(e) == LET
        ready == IF e.hdr.type = "ICCPOWERON" THEN [e EXCEPT !.hdr.len = 0] ELSE e
        k == Check(ready, Asked[e.hdr.type])
    IN IF k.err # 0 THEN k ELSE Execute(k.dev)

(* Blocks and PIN operations leave their answer to the application, the refused *)
(* ones too.                                                                    *)
CmdDecode(e) == SendReply(
    IF e.hdr.type \notin DOMAIN Asked THEN Respond(e, "SLOTSTATUS", CmdNotSupported)
    ELSE LET k == Process(e) IN
         IF e.hdr.type = "XFRBLOCK" \/ (e.hdr.type = "SECURE" /\ k.err = SlotNoError) THEN k.dev
         ELSE IF e.hdr.type = "SECURE" THEN [k.dev EXCEPT !.hdr.len = 0]
         ELSE Respond(k.dev, Answer[e.hdr.type], k.err))

(*---------------------------------------------------------------------------*)
(* Bulk endpoints.                                                            *)
FirstPacket(e, p) == LET
        got == Put([e EXCEPT !.bulk = "IDLE", !.len = Size(p), !.hdr = p.hdr, !.pos = Len(p.data)],
                   0, p.data)
    IN IF p.hdr.len > BufLen THEN [got EXCEPT !.bulk = "UNCORRECT_LENGTH"]
       ELSE IF Size(p) = p.hdr.len + HeaderLen THEN CmdDecode(got)
       ELSE [got EXCEPT !.bulk = "RECEIVE_DATA"]

(* A header received in the middle of a message is data like any other. *)
Bytes(p) == Cells("header", Size(p) - Len(p.data)) \o p.data

NextPacket(e, p) == LET
        total == e.len + Size(p)
        got == Put([e EXCEPT !.len = total], e.pos, Bytes(p))
    IN IF Size(p) < EpSize \/ total = e.hdr.len + HeaderLen THEN CmdDecode(got)
       ELSE IF total < e.hdr.len + HeaderLen THEN [got EXCEPT !.pos = @ + Size(p)]
       ELSE [e EXCEPT !.len = total, !.bulk = "UNCORRECT_LENGTH"]

(* Whatever the state but that one, a packet that can hold a header begins a message. *)
BulkOut(e, p) ==
    IF e.bulk = "RECEIVE_DATA" THEN NextPacket(e, p)
    ELSE IF Size(p) < HeaderLen THEN [e EXCEPT !.bulk = "IDLE"]
    ELSE FirstPacket(e, p)

(* The transfer is over for the application when its last packet is prepared. *)
LastXfer(e) == [e EXCEPT !.bulk = "IDLE", !.state = "IDLE"]

(* Mutant: no leap from the header to the data. *)
BulkInNoLeap(e) == LET
        n == Least(EpSize, e.len)
        left == e.len - n
        next == [e EXCEPT !.src = "data", !.pos = @ + n, !.len = left]
        Data(m) == SendData(next, [hdr |-> NoHeader, data |-> Slice(e, next.pos % (BufLen - m), m)])
    IN IF e.bulk # "SEND_RESP" THEN e
       ELSE IF left >= EpSize THEN Data(EpSize)
       ELSE IF left > 0 \/ e.len = EpSize THEN LastXfer(Data(left))
       ELSE LastXfer(next)

(* Mutant: no empty packet after a full last one. *)
BulkInNoZlp(e) == LET
        n == Least(EpSize, e.len)
        left == e.len - n
        at == IF e.src = "header" THEN n - HeaderLen ELSE e.pos + n
        next == [e EXCEPT !.src = "data", !.pos = at, !.len = left]
        Data(m) == SendData(next, [hdr |-> NoHeader, data |-> Slice(e, at, m)])
    IN IF e.bulk # "SEND_RESP" THEN e
       ELSE IF left >= EpSize THEN Data(EpSize)
       ELSE IF left > 0 THEN LastXfer(Data(left))
       ELSE LastXfer(next)

BulkIn(e) == LET
        n == Least(EpSize, e.len)
        left == e.len - n
        at == IF e.src = "header" THEN n - HeaderLen ELSE e.pos + n
        next == [e EXCEPT !.src = "data", !.pos = at, !.len = left]
        Data(m) == SendData(next, [hdr |-> NoHeader, data |-> Slice(e, at, m)])
    IN IF e.bulk # "SEND_RESP" THEN e
       ELSE IF left >= EpSize THEN Data(EpSize)
       ELSE IF left > 0 \/ e.len = EpSize THEN LastXfer(Data(left))
       ELSE LastXfer(next)

(*---------------------------------------------------------------------------*)
(* Presence of the card, and initialisation.                                  *)
IntMessage(e) == IF e.change /\ e.intrDone
                 THEN [e EXCEPT !.intr = <<e.card>>, !.intrDone = FALSE, !.change = FALSE]
                 ELSE e

Inserted(e, present) == IntMessage([e EXCEPT !.card = present, !.change = TRUE])

Configured == Inserted(
    [bulk |-> "IDLE", card |-> FALSE, change |-> TRUE, intrDone |-> TRUE, abort |-> << >>,
     src |-> "data", pos |-> 0, len |-> 0, hdr |-> NoHeader,
     buf |-> [i \in 0 .. BufLen - 1 |-> <<"zero", 0>>],
     media |-> "NONE", state |-> "IDLE", alen |-> 0, in |-> << >>, intr |-> << >>], TRUE)

Idle == [phase |-> "idle", seq |-> 0, cmd |-> NoHeader, out |-> << >>, got |-> << >>,
         data |-> << >>]

(*---------------------------------------------------------------------------*)
(* io_exchange looks at what each event did of the exchange.                  *)
Pump(e) == IF doing = "sending" /\ e.state = "IDLE"
           THEN [dev |-> [e EXCEPT !.media = "NONE", !.alen = 0], doing |-> "wait"]
           ELSE IF doing = "wait" /\ e.state # "IDLE" /\ e.alen > 0
           THEN [dev |-> e, doing |-> "working"]
           ELSE [dev |-> e, doing |-> doing]
Event(e) == \E after \in {Pump(e)} : d' = after.dev /\ doing' = after.doing

Init == d = Configured /\ doing = "wait" /\ host = Idle

(*---------------------------------------------------------------------------*)
(* The driver of the host.                                                    *)
Block(c) == [i \in 1 .. c.len |-> <<IF i = 1 /\ c.type = "SECURE" THEN c.op ELSE "block", i>>]

Packets(c, seq) == LET
        hdr == [type |-> c.type, len |-> c.len, slot |-> c.slot, seq |-> seq,
                b7 |-> c.b7, b8 |-> c.b8, b9 |-> c.b9]
        room == EpSize - HeaderLen
        cells == Block(c)
        more == IF c.len > room THEN (c.len - room + EpSize - 1) \div EpSize ELSE 0
    IN <<[hdr |-> hdr, data |-> SubSeq(cells, 1, Least(room, c.len))]>>
       \o [k \in 1 .. more |-> [hdr |-> NoHeader,
              data |-> SubSeq(cells, room + (k - 1) * EpSize + 1, Least(room + k * EpSize, c.len))]]

HostCommand(c) ==
    /\ host.phase = "idle"
    /\ LET seq == (host.seq + 1) % Seqs IN
       host' = [host EXCEPT !.phase = "sending", !.seq = seq, !.cmd = c, !.got = << >>,
                            !.data = << >>, !.out = Packets(c, seq)]
    /\ UNCHANGED <<d, doing>>

HostSend ==
    /\ host.phase = "sending"
    /\ Event(BulkOut(d, Head(host.out)))
    /\ host' = [host EXCEPT !.out = Tail(@), !.phase = IF Len(host.out) = 1 THEN "waiting" ELSE @]

(* A packet read and its acknowledgement to the device; a short one ends the message. *)
HostRead ==
    /\ host.phase = "waiting" /\ d.in # << >>
    /\ Event(BulkIn([d EXCEPT !.in = << >>]))
    /\ host' = [host EXCEPT !.got = Append(@, d.in[1]), !.data = @ \o d.in[1].data,
                            !.phase = IF Size(d.in[1]) < EpSize THEN "done" ELSE @]

HostNext == /\ host.phase \in {"done", "restarted"}
            /\ host' = [host EXCEPT !.phase = "idle", !.cmd = NoHeader,
                                       !.got = << >>, !.data = << >>]
            /\ UNCHANGED <<d, doing>>

(* The host waits as long as the application or a transfer is at work. *)
Unanswered == /\ host.phase = "waiting"
              /\ d.in = << >> /\ d.bulk # "SEND_RESP" /\ d.media = "NONE"

AbortCommand == [type |-> "ABORT", len |-> 0, slot |-> 0, b7 |-> 0, b8 |-> 0, b9 |-> 0, op |-> "none"]

(* The control request that starts an abort, then its bulk message. *)
ClassAbort ==
    /\ Unanswered /\ Recover(host.cmd) = "abort"
    /\ d' = CmdAbort(d, 0, host.seq)
    /\ host' = [host EXCEPT !.phase = "sending", !.cmd = AbortCommand,
                            !.out = Packets(AbortCommand, host.seq)]
    /\ UNCHANGED doing

(* A reset of the bus and a new configuration; an application at work restarts. *)
Reconfigure(phase) == /\ d' = [Configured EXCEPT !.buf = d.buf]
                      /\ doing' = "wait"
                      /\ host' = [host EXCEPT !.phase = phase, !.out = << >>,
                                            !.got = << >>, !.data = << >>]

HostReset == Unanswered /\ Recover(host.cmd) = "reset" /\ Reconfigure("idle")

(* Mutant: the end of the transfer is not recorded. *)
HostInterruptUnseen ==
    /\ d.intr # << >>
    /\ d' = [d EXCEPT !.intr = << >>]
    /\ UNCHANGED <<doing, host>>

HostInterrupt ==
    /\ d.intr # << >>
    /\ d' = [d EXCEPT !.intr = << >>, !.intrDone = TRUE]
    /\ UNCHANGED <<doing, host>>

(*---------------------------------------------------------------------------*)
(* The application.                                                           *)
Reply(n) ==
    /\ doing = "working" /\ d.state = "CCID"
    /\ d' = SendReply(Respond([Put(d, 0, Cells("reply", n)) EXCEPT !.hdr.len = n],
                              "DATABLOCK", SlotNoError))
    /\ doing' = "sending"
    /\ UNCHANGED host

(* Two seconds without the end of the reply: the application restarts the USB. *)
GiveUp == doing = "sending" /\ Reconfigure("restarted")

(* An application presents or removes the card it emulates. *)
SetCard(present) == /\ d.card # present
                    /\ d' = Inserted(d, present)
                    /\ UNCHANGED <<doing, host>>

HostStep == HostSend \/ HostRead \/ HostNext \/ ClassAbort \/ HostReset
AppStep == \E n \in Replies : Reply(n)

Next == \/ \E c \in Commands : HostCommand(c)
        \/ HostSend
        \/ HostRead
        \/ HostNext
        \/ ClassAbort
        \/ HostReset
        \/ HostInterrupt
        \/ \E n \in Replies : Reply(n)
        \/ GiveUp
        \/ \E present \in BOOLEAN : SetCard(present)

Spec == Init /\ [][Next]_vars
(* The host sends what it began and reads what is offered, the application      *)
(* answers: the weak fairness of both, their enabling conditions spelled out.   *)
HostReady == \/ host.phase \in {"sending", "done", "restarted"}
             \/ host.phase = "waiting" /\ d.in # << >>
             \/ Unanswered
AppReady == doing = "working" /\ d.state = "CCID"
FairSpec == /\ Spec
            /\ []<>(~HostReady) \/ []<><<HostStep>>_vars
            /\ []<>(~AppReady) \/ []<><<AppStep>>_vars


Apdu(c) == IF c.type # "SECURE" THEN Block(c)
           ELSE LET at == PinOffset[c.op] IN Cells("cla", 1) \o SubSeq(Block(c), at + 2, at + PinLen)

(* Messages arrive whole: the application works on the block the host sent, of  *)
(* its length and in its order, and the host ends up with the header and every  *)
(* byte of the answer, whatever the number of packets, the empty one after a    *)
(* full one included (CCID_BulkMessage_Out, CCID_BulkMessage_In).               *)
MessagesWhole ==
    /\ doing = "working" => Slice(d, 0, d.alen) = Apdu(host.cmd)
    /\ host.phase = "done" =>
         /\ Len(host.data) = host.got[1].hdr.len
         /\ host.cmd.type \in {"XFRBLOCK", "SECURE"} => host.data = Cells("reply", Len(host.data))

(* A change of the card is told at once to a driver that has read the notice of  *)
(* the one before, through removals, resets and restarts.  A change made while   *)
(* one is unread is not: the flag that records it is looked at by the next       *)
(* change only, not when the notice is read                                      *)
(* (CCID_IntMessage, CCID_SetIntrTransferStatus, io_usb_ccid_set_card_inserted). *)
ChangeNotified == [][d.intr = << >> /\ d'.card # d.card => d'.intr = <<d'.card>>]_vars

(* A command given to the application or being answered is read to its end by   *)
(* the host, unless the application gives up and restarts the USB.              *)
Answered == (host.phase = "waiting" /\ (d.bulk = "SEND_RESP" \/ d.media = "CCID"))
              ~> host.phase \in {"done", "restarted"}

(* A block received is answered or given to the application: "Response to this  *)
(* command message is the RDR_to_PC_DataBlock" (usbd_ccid_cmd.c:216).           *)
BlockAnswered == [][host.phase = "sending" /\ host'.phase = "waiting" /\ host.cmd.type = "XFRBLOCK"
                      => d'.bulk = "SEND_RESP" \/ d'.media = "CCID"]_vars
=================================================================================
