------------------------------ MODULE Usb_proofs -------------------------------
(* Proofs about the control endpoint.  What a request makes of the device is     *)
(* stated once (Handled) and proved of each function that answers one; the       *)
(* invariant then follows the answer through its packets, and the halts and the  *)
(* endpoints of the classes through configuration, reset and restart.            *)
EXTENDS Usb, TLAPS

(*---------------------------------------------------------------------------*)
(* The device. *)
States == {"DEFAULT", "ADDRESSED", "CONFIGURED"}
Stages == {"IDLE", "SETUP", "DATA_IN", "STATUS_IN", "STATUS_OUT"}
Ends == {"IN", "OUT"} \X Nat
Contents == {"nothing", "zero", "0", "1", "status", "halted", "running", "more"} \cup DescriptorNames
Packet == [what : Contents, at : Nat, n : Nat]
Mail == {<< >>} \cup {<<p>> : p \in Packet}
Opening == [kind : {"closed", "INTR", "BULK"}, size : Nat]
Device == [on : BOOLEAN, state : States, config : {"0", "1"}, wakeup : BOOLEAN, ep0 : Stages,
           total : Nat, rem : Nat, at : Nat, dataLen : Nat, stalls : SUBSET Ends,
           mail : Mail, armed : BOOLEAN, halted : SUBSET Ends, open : [Endpoints -> Opening]]

\* An endpoint stalled in usbd_conf.c is the one the MCU halts, in the builds
\* whose classes do not open endpoints on a request.
Plain == Classes(build) \cap {"U2F", "CCID"} = {}
Truthful(e) == Plain => \A ep \in ClassEndpoints : ep \in e.stalls <=> ep \in e.halted
\* The endpoints of the classes are open, as their class has it.
Opened(e) == \A class \in Classes(build) : \A ep \in EndpointsOf(class) :
    /\ e.open[ep].kind \in {"INTR", "BULK"} /\ e.open[ep].size = EpSize
    /\ (ep = <<"OUT", 2>> /\ Has("CCID")) \/ e.open[ep].kind = TypeOf[class]
Ready(e) == e.state = "CONFIGURED" => Truthful(e) /\ Opened(e)

\* All there is to send, its first packet on its way.
Wanted(r) == Least(Whole(r), r.length)
Loaded(t, r) == /\ t.ep0 = "DATA_IN" /\ t.total = Wanted(r) /\ t.rem = t.total /\ t.at = 0
                /\ t.mail[1].at = 0 /\ t.mail[1].n = Least(t.total, MaxPacket)
Goal(r) == IF r.name = "SET_ADDRESS" THEN IF r.value # "0" THEN "ADDRESSED" ELSE "DEFAULT"
           ELSE IF r.value # "0" THEN "CONFIGURED" ELSE "ADDRESSED"

\* What a request makes of a device.
Settling(e) == e \in Device /\ e.mail = << >> /\ <<"IN", 0>> \notin e.halted
Sound(e, t) == t \in Device /\ t.on = e.on /\ t.dataLen = e.dataLen /\ (Ready(e) => Ready(t))
Answering(r, t) == t.mail # << >> /\ r.length > 0 => Loaded(t, r)
Moving(e, r, t) == /\ t.state = IF t.mail # << >> /\ Moves(r) THEN Goal(r) ELSE e.state
                   /\ t.mail # << >> /\ Moves(r) => r.length = 0 /\ <<"IN", 0>> \notin t.halted
Telling(e, r, t) ==
    t.mail # << >> /\ r.to = "endpoint" /\ r.length > 0 /\ Plain /\ r.index \in ClassEndpoints
    /\ Ready(e)
      => t.state = "CONFIGURED" /\ (t.mail[1].what = "halted" <=> r.index \in t.halted)
Heard(e, r, t) == ~Ignored(e.state, r) => t.mail # << >> \/ <<"IN", 0>> \in t.halted
Handled(e, r, t) == /\ Sound(e, t) /\ Answering(r, t) /\ Moving(e, r, t)
                    /\ Telling(e, r, t) /\ Heard(e, r, t)

\* All fields but those of the data stage and the mail.
Beside(e, t) ==
    /\ t \in Device /\ t.on = e.on /\ t.state = e.state /\ t.config = e.config
    /\ t.wakeup = e.wakeup /\ t.dataLen = e.dataLen /\ t.stalls = e.stalls
    /\ t.halted = e.halted /\ t.open = e.open

(*---------------------------------------------------------------------------*)
(* The operations of usbd_conf.c and usbd_ioreq.c. *)

\* A device put together of fields in their ranges, read back.
LEMMA Fields ==
    ASSUME NEW e \in Device
    PROVE  /\ e.on \in BOOLEAN /\ e.state \in States /\ e.config \in {"0", "1"}
           /\ e.wakeup \in BOOLEAN /\ e.ep0 \in Stages /\ e.total \in Nat /\ e.rem \in Nat
           /\ e.at \in Nat /\ e.dataLen \in Nat /\ e.stalls \in SUBSET Ends /\ e.mail \in Mail
           /\ e.armed \in BOOLEAN /\ e.halted \in SUBSET Ends /\ e.open \in [Endpoints -> Opening]
  BY DEF Device

\* A packet in the endpoint.
LEMMA OnePacket ==
    ASSUME NEW p \in Packet
    PROVE  <<p>> \in Mail /\ <<p>> # << >> /\ <<p>>[1] = p
  BY DEF Mail

\* Data: the first packet leaves and the rest waits.
LEMMA DataSent ==
    ASSUME NEW e \in Device, NEW what \in Contents, NEW len \in Nat
    PROVE  LET t == CtlSendData(e, what, len) IN
           /\ Beside(e, t)
           /\ t.ep0 = "DATA_IN" /\ t.total = len /\ t.rem = len /\ t.at = 0 /\ t.armed = e.armed
           /\ t.mail # << >> /\ t.mail[1].what = what /\ t.mail[1].at = 0
           /\ t.mail[1].n = Least(len, MaxPacket)
  <1> DEFINE n == Least(len, MaxPacket)
             p == [what |-> what, at |-> 0, n |-> n]
             m == <<p>>
             t == CtlSendData(e, what, len)
  <1>1. n \in Nat
    BY SizesAssumption DEF Least
  <1>2. p \in Packet /\ p.what = what /\ p.at = 0 /\ p.n = n
    BY <1>1 DEF Packet
  <1>3. t = [e EXCEPT !.ep0 = "DATA_IN", !.total = len, !.rem = len, !.at = 0, !.mail = m]
    BY DEF CtlSendData, Transmit, Device
  <1> HIDE DEF p, n
  <1>m. m \in Mail /\ m # << >> /\ m[1] = p
    BY <1>2, OnePacket
  <1> HIDE DEF m, t
  <1>4. t \in Device
    BY <1>m, <1>3 DEF Device, Stages
  <1>5. /\ t.on = e.on /\ t.state = e.state /\ t.config = e.config
        /\ t.wakeup = e.wakeup /\ t.dataLen = e.dataLen /\ t.stalls = e.stalls
        /\ t.halted = e.halted /\ t.open = e.open /\ t.armed = e.armed
        /\ t.ep0 = "DATA_IN" /\ t.total = len /\ t.rem = len /\ t.at = 0 /\ t.mail = m
    BY <1>3 DEF Device
  <1> QED
    BY <1>2, <1>m, <1>4, <1>5 DEF Beside, n, t

\* The empty packet of a status.
LEMMA StatusSent ==
    ASSUME NEW e \in Device
    PROVE  LET t == CtlSendStatus(e) IN
           /\ Beside(e, t) /\ t.ep0 = "STATUS_IN"
           /\ t.mail # << >> /\ t.mail[1].what = "nothing" /\ t.mail[1].n = 0
  <1> DEFINE p == [what |-> "nothing", at |-> 0, n |-> 0]
             m == <<p>>
             t == CtlSendStatus(e)
  <1>1. p \in Packet /\ p.what = "nothing" /\ p.n = 0
    BY DEF Packet, Contents
  <1>2. t = [e EXCEPT !.ep0 = "STATUS_IN", !.mail = m]
    BY DEF CtlSendStatus, Transmit, Device
  <1> HIDE DEF p
  <1>m. m \in Mail /\ m # << >> /\ m[1] = p
    BY <1>1, OnePacket
  <1> HIDE DEF m, t
  <1>3. t \in Device /\ t.ep0 = "STATUS_IN" /\ t.mail = m
    BY <1>m, <1>2 DEF Device, Stages
  <1>4. /\ t.on = e.on /\ t.state = e.state /\ t.config = e.config
        /\ t.wakeup = e.wakeup /\ t.dataLen = e.dataLen /\ t.stalls = e.stalls
        /\ t.halted = e.halted /\ t.open = e.open
    BY <1>2 DEF Device
  <1> QED
    BY <1>1, <1>m, <1>3, <1>4 DEF Beside, t

\* The device waits for the empty packet of the host.
LEMMA StatusAwaited ==
    ASSUME NEW e \in Device
    PROVE  LET t == CtlReceiveStatus(e) IN
           /\ Beside(e, t) /\ t.ep0 = "STATUS_OUT" /\ t.armed /\ t.mail = e.mail
           /\ t.total = e.total /\ t.rem = e.rem /\ t.at = e.at
  BY DEF CtlReceiveStatus, Device, Beside, Stages

\* All fields but the stalls.
Unstalled(e, t) ==
    /\ t \in Device /\ t.on = e.on /\ t.state = e.state /\ t.config = e.config
    /\ t.wakeup = e.wakeup /\ t.dataLen = e.dataLen /\ t.ep0 = e.ep0 /\ t.mail = e.mail
    /\ t.total = e.total /\ t.rem = e.rem /\ t.at = e.at /\ t.armed = e.armed

\* An endpoint is stalled on both sides, or on neither.
LEMMA Stalled ==
    ASSUME NEW e \in Device, NEW ep \in Ends
    PROVE  /\ Unstalled(e, StallEP(e, ep)) /\ StallEP(e, ep).open = e.open
           /\ StallEP(e, ep).stalls = e.stalls \cup {ep} /\ StallEP(e, ep).halted = e.halted \cup {ep}
           /\ Unstalled(e, ClearStallEP(e, ep)) /\ ClearStallEP(e, ep).open = e.open
           /\ ClearStallEP(e, ep).stalls = e.stalls \ {ep} /\ ClearStallEP(e, ep).halted = e.halted \ {ep}
  BY DEF StallEP, ClearStallEP, Unstalled, Device

\* A refusal stalls both directions of endpoint 0.
LEMMA Refused ==
    ASSUME NEW e \in Device
    PROVE  LET t == CtlStall(e) IN
           /\ Unstalled(e, t) /\ t.open = e.open
           /\ t.stalls = e.stalls \cup Ep0 /\ t.halted = e.halted \cup Ep0
  <1> DEFINE s == StallEP(e, <<"IN", 0>>)
  <1>1. <<"IN", 0>> \in Ends /\ <<"OUT", 0>> \in Ends
    BY DEF Ends
  <1>2. Unstalled(e, s) /\ s.open = e.open /\ s.stalls = e.stalls \cup {<<"IN", 0>>}
        /\ s.halted = e.halted \cup {<<"IN", 0>>}
    BY <1>1, Stalled
  <1>3. CtlStall(e) = StallEP(s, <<"OUT", 0>>)
    BY DEF CtlStall
  <1> HIDE DEF s
  <1>4. s \in Device
    BY <1>2 DEF Unstalled
  <1>5. LET t == StallEP(s, <<"OUT", 0>>) IN
        /\ Unstalled(s, t) /\ t.open = s.open
        /\ t.stalls = s.stalls \cup {<<"OUT", 0>>} /\ t.halted = s.halted \cup {<<"OUT", 0>>}
    BY <1>1, <1>4, Stalled
  <1> QED
    BY <1>2, <1>3, <1>5 DEF Unstalled, Ep0

\* Endpoints opened: the others stay as they are.
LEMMA OpenedEPs ==
    ASSUME NEW e \in Device, NEW eps, eps \subseteq Ends,
           NEW types, \A ep \in eps : types[ep] \in {"INTR", "BULK"}
    PROVE  LET t == OpenEPs(e, eps, types, EpSize) IN
           Unstalled(e, t) /\ t.stalls = {} /\ t.halted = e.halted \ eps
  <1> DEFINE t == OpenEPs(e, eps, types, EpSize)
             o == [ep \in Endpoints |-> IF ep \in eps THEN [kind |-> types[ep], size |-> EpSize]
                                        ELSE e.open[ep]]
  <1>1. t = [e EXCEPT !.stalls = {}, !.halted = e.halted \ eps, !.open = o]
    BY DEF OpenEPs, Device
  <1>2. \A ep \in eps : [kind |-> types[ep], size |-> EpSize] \in Opening
    BY DEF Opening, EpSize
  <1>3. o \in [Endpoints -> Opening]
    BY <1>2, Fields
  <1> HIDE DEF o
  <1>4. t \in Device
    BY <1>1, <1>3, ZenonT(60) DEF Device
  <1>5. /\ t.on = e.on /\ t.state = e.state /\ t.config = e.config
        /\ t.wakeup = e.wakeup /\ t.dataLen = e.dataLen /\ t.ep0 = e.ep0 /\ t.mail = e.mail
        /\ t.total = e.total /\ t.rem = e.rem /\ t.at = e.at /\ t.armed = e.armed
        /\ t.stalls = {} /\ t.halted = e.halted \ eps
    BY <1>1 DEF Device
  <1> QED
    BY <1>4, <1>5 DEF Unstalled

\* One of the endpoints then.
LEMMA OpenedEP ==
    ASSUME NEW e \in Device, NEW eps, NEW types, NEW ep \in Endpoints
    PROVE  LET t == OpenEPs(e, eps, types, EpSize) IN
           /\ ep \notin eps => t.open[ep] = e.open[ep]
           /\ ep \in eps => t.open[ep].kind = types[ep] /\ t.open[ep].size = EpSize
  <1> DEFINE t == OpenEPs(e, eps, types, EpSize)
  <1>1. t.open = [end \in Endpoints |-> IF end \in eps THEN [kind |-> types[end], size |-> EpSize]
                                        ELSE e.open[end]]
    BY DEF OpenEPs, Device
  <1>2. t.open[ep] = IF ep \in eps THEN [kind |-> types[ep], size |-> EpSize] ELSE e.open[ep]
    BY <1>1
  <1> QED
    BY <1>2

(*---------------------------------------------------------------------------*)
(* The endpoints of the classes. *)

\* Each class has the two endpoints of its number, which no other class of the
\* build has, and none has endpoint 0.
LEMMA ClassEnds ==
    ASSUME build \in Builds
    PROVE  /\ \A class \in Classes(build) :
                 /\ class \in {"HID", "U2F", "WEBUSB", "CCID"} /\ NumberOf[class] \in 1 .. 3
                 /\ TypeOf[class] \in {"INTR", "BULK"}
           /\ \A c1, c2 \in Classes(build) : NumberOf[c1] = NumberOf[c2] => c1 = c2
  <1>1. \A class \in Classes(build) : class \in {"HID", "U2F", "WEBUSB", "CCID"}
    <2> SUFFICES ASSUME NEW class \in Classes(build) PROVE class \in {"HID", "U2F", "WEBUSB", "CCID"}
      OBVIOUS
    <2>1. PICK i \in DOMAIN build.itf : class = build.itf[i]
      BY DEF Classes, Range
    <2> QED
      BY <2>1, BuildsAssumption
  <1>2. ~("CCID" \in Classes(build) /\ "WEBUSB" \in Classes(build))
    BY BuildsAssumption
  <1>3. /\ NumberOf["HID"] = 2 /\ NumberOf["U2F"] = 1 /\ NumberOf["WEBUSB"] = 3 /\ NumberOf["CCID"] = 3
        /\ TypeOf["HID"] = "INTR" /\ TypeOf["U2F"] = "INTR" /\ TypeOf["WEBUSB"] = "INTR"
        /\ TypeOf["CCID"] = "BULK"
    BY DEF NumberOf, TypeOf
  <1> QED
    BY <1>1, <1>2, <1>3

\* They are endpoints of the device.
LEMMA ClassEndsOpen ==
    ASSUME build \in Builds
    PROVE  /\ ClassEndpoints \subseteq Ends /\ ClassEndpoints \subseteq Endpoints
           /\ <<"IN", 0>> \notin ClassEndpoints /\ <<"OUT", 0>> \notin ClassEndpoints
           /\ \A ep \in ClassEndpoints : ep[2] # 0
           /\ \A class \in Classes(build) : EndpointsOf(class) \subseteq ClassEndpoints
  <1>1. \A class \in Classes(build) : \A ep \in EndpointsOf(class) :
            ep \in {"IN", "OUT"} \X (1 .. 3)
    BY ClassEnds DEF EndpointsOf
  <1>2. \A ep \in ClassEndpoints : ep \in {"IN", "OUT"} \X (1 .. 3)
    BY <1>1 DEF ClassEndpoints
  <1>3. \A ep \in {"IN", "OUT"} \X (1 .. 3) : ep \in Ends /\ ep \in Endpoints /\ ep[2] # 0
    BY SizesAssumption DEF Ends, Endpoints
  <1> QED
    BY <1>2, <1>3 DEF ClassEndpoints

\* The class of an endpoint.
LEMMA ClassOfEnd ==
    ASSUME build \in Builds, NEW class \in Classes(build), NEW ep \in EndpointsOf(class)
    PROVE  ClassOf(ep) = class
  <1>1. ClassOf(ep) \in Classes(build) /\ ep \in EndpointsOf(ClassOf(ep))
    BY DEF ClassOf
  <1>2. ep[2] = NumberOf[class] /\ ep[2] = NumberOf[ClassOf(ep)]
    BY <1>1 DEF EndpointsOf
  <1> QED
    BY <1>1, <1>2, ClassEnds

\* What sends changes no endpoint.
LEMMA BesideReady == ASSUME NEW e, NEW t, Beside(e, t), Ready(e) PROVE Ready(t)
  BY DEF Beside, Ready, Truthful, Opened

\* A stall of both sides keeps them the same.
LEMMA StallReady ==
    ASSUME NEW e, NEW t, Unstalled(e, t), t.open = e.open, Ready(e), NEW eps,
           \/ t.stalls = e.stalls \cup eps /\ t.halted = e.halted \cup eps
           \/ t.stalls = e.stalls \ eps /\ t.halted = e.halted \ eps
    PROVE  Ready(t)
  BY DEF Unstalled, Ready, Truthful, Opened

\* The CCID class reopens its endpoint, or the one it takes for it; U2F its own.
LEMMA ReopenReady ==
    ASSUME build \in Builds, NEW e \in Device, Ready(e), NEW eps, NEW type,
           \/ eps = EndpointsOf("U2F") /\ type = "INTR" /\ Has("U2F")
           \/ eps = {<<"OUT", 2>>} /\ type = "BULK" /\ Has("CCID")
    PROVE  Unstalled(e, OpenEP(e, eps, type, EpSize)) /\ Ready(OpenEP(e, eps, type, EpSize))
           /\ OpenEP(e, eps, type, EpSize).halted \subseteq e.halted
  <1> DEFINE types == [ep \in eps |-> type]
             t == OpenEP(e, eps, type, EpSize)
  <1>1. <<"OUT", 2>> \in Ends
    BY DEF Ends
  <1>2. eps \subseteq Ends /\ type \in {"INTR", "BULK"}
    BY <1>1, ClassEndsOpen DEF Has
  <1>3. \A ep \in eps : types[ep] = type
    OBVIOUS
  <1>5. t = OpenEPs(e, eps, types, EpSize)
    BY DEF OpenEP
  <1> HIDE DEF types, t
  <1>6. Unstalled(e, t) /\ t.halted = e.halted \ eps
    <2>1. \A ep \in eps : types[ep] \in {"INTR", "BULK"}
      BY <1>2, <1>3
    <2> QED
      BY <1>2, <1>5, <2>1, OpenedEPs
  <1>7. ~Plain
    BY DEF Plain, Has
  <1>8. ASSUME Opened(e) PROVE Opened(t)
    <2> SUFFICES ASSUME NEW class \in Classes(build), NEW ep \in EndpointsOf(class)
                 PROVE  /\ t.open[ep].kind \in {"INTR", "BULK"} /\ t.open[ep].size = EpSize
                        /\ (ep = <<"OUT", 2>> /\ Has("CCID")) \/ t.open[ep].kind = TypeOf[class]
      BY DEF Opened
    <2>1. ep \in Endpoints
      BY ClassEndsOpen
    <2>2. CASE ep \notin eps
      BY <1>5, <1>8, <2>1, <2>2, OpenedEP DEF Opened
    <2>3. CASE ep \in eps
      <3>2. t.open[ep].kind = type /\ t.open[ep].size = EpSize
        BY <1>3, <1>5, <2>1, <2>3, OpenedEP
      <3>3. CASE eps = EndpointsOf("U2F") /\ type = "INTR" /\ Has("U2F")
        <4>1. class = "U2F"
          BY <2>3, <3>3, ClassOfEnd DEF Has
        <4> QED
          BY <3>2, <3>3, <4>1 DEF TypeOf
      <3>4. CASE eps = {<<"OUT", 2>>} /\ type = "BULK" /\ Has("CCID")
        BY <2>3, <3>2, <3>4
      <3> QED
        BY <3>3, <3>4
    <2> QED
      BY <2>2, <2>3
  <1> QED
    BY <1>6, <1>7, <1>8 DEF Ready, Truthful, Unstalled, t

\* Configuration opens the endpoints of all classes and forgets their halts.
LEMMA ConfigReady ==
    ASSUME build \in Builds, NEW e \in Device
    PROVE  LET t == SetClassConfig(e) IN
           Unstalled(e, t) /\ Ready(t) /\ t.halted \subseteq e.halted
  <1> DEFINE types == [ep \in ClassEndpoints |-> TypeOf[ClassOf(ep)]]
             t == SetClassConfig(e)
  <1>1. \A class \in Classes(build) : \A ep \in EndpointsOf(class) :
            ep \in ClassEndpoints /\ ep \in Endpoints /\ types[ep] = TypeOf[class]
    BY ClassEndsOpen, ClassOfEnd
  <1>2. \A ep \in ClassEndpoints : types[ep] \in {"INTR", "BULK"}
    <2> SUFFICES ASSUME NEW ep \in ClassEndpoints PROVE TypeOf[ClassOf(ep)] \in {"INTR", "BULK"}
      OBVIOUS
    <2>1. PICK class \in Classes(build) : ep \in EndpointsOf(class)
      BY DEF ClassEndpoints
    <2> QED
      BY <2>1, ClassOfEnd, ClassEnds
  <1>3. t = OpenEPs(e, ClassEndpoints, types, EpSize)
    BY DEF SetClassConfig
  <1> HIDE DEF types, t
  <1>4. Unstalled(e, t) /\ t.stalls = {} /\ t.halted = e.halted \ ClassEndpoints
    BY <1>2, <1>3, ClassEndsOpen, OpenedEPs
  <1>5. Opened(t)
    <2> SUFFICES ASSUME NEW class \in Classes(build), NEW ep \in EndpointsOf(class)
                 PROVE  /\ t.open[ep].kind = TypeOf[class] /\ t.open[ep].size = EpSize
                        /\ TypeOf[class] \in {"INTR", "BULK"}
      BY DEF Opened
    <2>1. t.open[ep].kind = TypeOf[class] /\ t.open[ep].size = EpSize
      BY <1>1, <1>3, OpenedEP
    <2> QED
      BY <2>1, ClassEnds
  <1> QED
    BY <1>4, <1>5 DEF Ready, Truthful, t

(*---------------------------------------------------------------------------*)
(* What a request asks for. *)

\* The descriptors of the platforms and the others are told apart by their names.
LEMMA Named ==
    /\ DOMAIN PlatformLengths(build) = {"BOS", "MSFT100", "WCID", "GUID", "MSOS20", "URL"}
    /\ DOMAIN Lengths(build) = {"DEVICE", "CONFIG", "QUALIFIER", "HID", "LANGID", "MFC", "PRODUCT",
                                "SERIAL", "CONFIGURATION", "INTERFACE"}
    /\ DOMAIN StringIndex = {"LANGID", "MFC", "PRODUCT", "SERIAL", "CONFIGURATION", "INTERFACE"}
  <1>1. DOMAIN PlatformLengths(build) = {"BOS", "MSFT100", "WCID", "GUID", "MSOS20", "URL"}
    BY DEF PlatformLengths
  <1>3. DOMAIN StringIndex = {"LANGID", "MFC", "PRODUCT", "SERIAL", "CONFIGURATION", "INTERFACE"}
    BY DEF StringIndex
  <1>4. DOMAIN Lengths(build) = {"DEVICE", "CONFIG", "QUALIFIER", "HID"} \cup DOMAIN StringIndex
    BY DEF Lengths
  <1> QED
    BY <1>1, <1>3, <1>4

\* The length of a descriptor of a platform.
LEMMA WholePlatform ==
    ASSUME build \in Builds, NEW r, Wellformed(r),
           r.value \in {"BOS", "MSFT100", "WCID", "GUID", "MSOS20", "URL"}
    PROVE  /\ Whole(r) = PlatformLengths(build)[r.value] /\ Whole(r) \in Nat \ {0}
           /\ r.value \in Contents
  <1>1. /\ r.value \in DOMAIN PlatformLengths(build) /\ r.value \notin DOMAIN Lengths(build)
        /\ r.value # "REPORT"
    BY Named
  <1>2. PlatformLengths(build)[r.value] \in Nat \ {0}
    BY <1>1, BuildsAssumption
  <1>3. r.value \in DescriptorNames /\ r.value \in Contents
    BY DEF Contents, DescriptorNames
  <1>4. r.name # "GET_STATUS"
    BY <1>3 DEF Wellformed
  <1> QED
    BY <1>1, <1>2, <1>3, <1>4 DEF Whole

\* Of a descriptor of the device, of a string, or of the HID class.
LEMMA WholeDescriptor ==
    ASSUME build \in Builds, NEW r, Wellformed(r),
           r.value \in {"DEVICE", "CONFIG", "QUALIFIER", "HID"} \cup DOMAIN StringIndex
    PROVE  /\ Whole(r) = Lengths(build)[r.value] /\ Whole(r) \in Nat \ {0}
           /\ r.value \in Contents
  <1>1. /\ r.value \in DOMAIN Lengths(build) /\ r.value \notin DOMAIN PlatformLengths(build)
        /\ r.value # "REPORT"
    BY Named
  <1>2. Lengths(build)[r.value] \in Nat \ {0}
    BY <1>1, BuildsAssumption
  <1>3. r.value \in DescriptorNames /\ r.value \in Contents
    BY DEF Contents, DescriptorNames
  <1>4. r.name # "GET_STATUS"
    BY <1>3 DEF Wellformed
  <1> QED
    BY <1>1, <1>2, <1>3, <1>4 DEF Whole

\* Of a report descriptor.
LEMMA WholeReport ==
    ASSUME build \in Builds, NEW r, Wellformed(r), r.to = "interface", r.value = "REPORT",
           r.index \in DOMAIN build.itf
    PROVE  /\ Whole(r) = ReportLen(ReportOf(build, build.itf[r.index])) /\ Whole(r) \in Nat \ {0}
           /\ "REPORT" \in Contents
  <1>1. build.itf[r.index] \in Classes(build)
    BY DEF Classes, Range
  <1>2. ReportLen(ReportOf(build, build.itf[r.index])) \in Nat \ {0}
    BY <1>1, BuildsAssumption
  <1>3. "REPORT" \in DescriptorNames /\ "REPORT" \in Contents
    BY DEF Contents, DescriptorNames
  <1>4. r.name # "GET_STATUS"
    BY <1>3 DEF Wellformed
  <1>5. "REPORT" \notin DOMAIN PlatformLengths(build) /\ "REPORT" \notin DOMAIN Lengths(build)
    BY Named
  <1> QED
    BY <1>2, <1>3, <1>4, <1>5 DEF Whole

\* Of anything else: two bytes of status, or one byte.
LEMMA WholeOther ==
    ASSUME NEW r, r.value \notin DescriptorNames
    PROVE  Whole(r) = IF r.name = "GET_STATUS" THEN 2 ELSE 1
  <1>1. /\ r.value \notin DOMAIN PlatformLengths(build) /\ r.value \notin DOMAIN Lengths(build)
        /\ r.value # "REPORT"
    BY Named DEF DescriptorNames
  <1> QED
    BY <1>1 DEF Whole

(*---------------------------------------------------------------------------*)
(* The ways a request ends. *)

\* Data are sent: as many as there are, or as asked for.
LEMMA DataHandled ==
    ASSUME NEW e, Settling(e), NEW s, Sound(e, s), s.state = e.state, NEW r, ~Moves(r),
           NEW what \in Contents, NEW len \in Nat, r.length > 0 => len = Wanted(r),
           r.to = "endpoint" /\ Ready(e) /\ Plain /\ r.index \in ClassEndpoints
             => s.state = "CONFIGURED" /\ (what = "halted" <=> r.index \in s.halted)
    PROVE  Handled(e, r, CtlSendData(s, what, len))
  <1> DEFINE t == CtlSendData(s, what, len)
  <1>1. /\ Beside(s, t)
        /\ t.ep0 = "DATA_IN" /\ t.total = len /\ t.rem = len /\ t.at = 0
        /\ t.mail # << >> /\ t.mail[1].what = what /\ t.mail[1].at = 0
        /\ t.mail[1].n = Least(len, MaxPacket)
    BY DataSent DEF Sound
  <1> HIDE DEF t
  <1>2. Sound(e, t)
    BY <1>1, BesideReady DEF Sound, Beside
  <1>3. Answering(r, t)
    BY <1>1 DEF Answering, Loaded
  <1>4. Moving(e, r, t) /\ Telling(e, r, t) /\ Heard(e, r, t)
    BY <1>1 DEF Moving, Telling, Heard, Beside
  <1> QED
    BY <1>2, <1>3, <1>4 DEF Handled, t

\* The status is sent, for a request without data.
LEMMA StatusHandled ==
    ASSUME NEW e, Settling(e), NEW s, Sound(e, s), NEW r, r.length = 0,
           s.state = IF Moves(r) THEN Goal(r) ELSE e.state,
           Moves(r) => <<"IN", 0>> \notin s.halted
    PROVE  Handled(e, r, CtlSendStatus(s))
  <1> DEFINE t == CtlSendStatus(s)
  <1>1. Beside(s, t) /\ t.mail # << >>
    BY StatusSent DEF Sound
  <1> HIDE DEF t
  <1>2. Sound(e, t)
    BY <1>1, BesideReady DEF Sound, Beside
  <1>3. Answering(r, t) /\ Moving(e, r, t) /\ Telling(e, r, t) /\ Heard(e, r, t)
    BY <1>1 DEF Answering, Moving, Telling, Heard, Beside
  <1> QED
    BY <1>2, <1>3 DEF Handled, t

\* Nothing is sent: the request is refused, or none the host needs.
LEMMA SilentHandled ==
    ASSUME NEW e, Settling(e), NEW t, Sound(e, t), t.mail = << >>, t.state = e.state, NEW r,
           Ignored(e.state, r) \/ <<"IN", 0>> \in t.halted
    PROVE  Handled(e, r, t)
  BY DEF Handled, Answering, Moving, Telling, Heard

\* A request that is refused, or one of a platform that is answered instead.
LEMMA ErrorHandled ==
    ASSUME build \in Builds, NEW e, Settling(e), NEW r \in Requests
    PROVE  Handled(e, r, CtlError(e, r))
  <1>1. e \in Device /\ Sound(e, e) /\ Wellformed(r)
    BY RequestsAssumption DEF Settling, Sound
  <1>2. CASE Has("WEBUSB") /\ Platform(r)
    <2> DEFINE len == Least(r.length, PlatformLengths(build)[r.value])
    <2>1. /\ r.value \in {"BOS", "MSFT100", "WCID", "GUID", "MSOS20", "URL"}
          /\ ~Moves(r) /\ r.to # "endpoint"
      BY <1>1, <1>2 DEF Platform, Moves, Wellformed
    <2>2. /\ Whole(r) = PlatformLengths(build)[r.value] /\ Whole(r) \in Nat \ {0}
          /\ r.value \in Contents
      BY <1>1, <2>1, WholePlatform
    <2>3. len \in Nat /\ len = Wanted(r)
      BY <1>1, <2>2 DEF Wellformed, Least, Wanted
    <2>4. CtlError(e, r) = CtlSendData(e, r.value, len)
      BY <1>2 DEF CtlError
    <2> HIDE DEF len
    <2> QED
      BY <1>1, <2>1, <2>2, <2>3, <2>4, DataHandled
  <1>3. CASE ~(Has("WEBUSB") /\ Platform(r))
    <2> DEFINE t == CtlStall(e)
    <2>1. /\ Unstalled(e, t) /\ t.open = e.open
          /\ t.stalls = e.stalls \cup Ep0 /\ t.halted = e.halted \cup Ep0
      BY <1>1, Refused
    <2>2. CtlError(e, r) = t
      BY <1>3 DEF CtlError
    <2> HIDE DEF t
    <2>3. Sound(e, t) /\ t.mail = << >> /\ t.state = e.state /\ <<"IN", 0>> \in t.halted
      BY <2>1, StallReady DEF Sound, Unstalled, Settling, Ep0
    <2> QED
      BY <2>2, <2>3, SilentHandled
  <1> QED
    BY <1>2, <1>3

(*---------------------------------------------------------------------------*)
(* Requests to the device. *)

\* A device whose endpoints are those of another is as ready.
LEMMA SameReady ==
    ASSUME NEW e, NEW t, t.state = e.state, t.stalls = e.stalls, t.halted = e.halted,
           t.open = e.open, Ready(e)
    PROVE  Ready(t)
  BY DEF Ready, Truthful, Opened

\* Descriptors of the device.
LEMMA GetDescriptorHandled ==
    ASSUME build \in Builds, NEW e, Settling(e), NEW r \in Requests,
           r.to = "device", r.name = "GET_DESCRIPTOR"
    PROVE  Handled(e, r, GetDescriptor(e, r))
  <1> DEFINE len == DescriptorLen(r.value)
             wanted == Least(len, r.length)
  <1>1. e \in Device /\ Sound(e, e) /\ e.mail = << >> /\ Wellformed(r) /\ ~Moves(r) /\ r.length \in Nat
    BY RequestsAssumption DEF Settling, Sound, Wellformed, Moves
  <1>2. CASE r.value \notin {"BOS", "DEVICE", "CONFIG"} \cup DOMAIN StringIndex
    BY <1>2, ErrorHandled DEF GetDescriptor
  <1>3. CASE r.value \in {"BOS", "DEVICE", "CONFIG"} \cup DOMAIN StringIndex
    <2>1. /\ Whole(r) \in Nat \ {0} /\ r.value \in Contents
          /\ len = IF r.value = "BOS" /\ ~Has("WEBUSB") THEN 0 ELSE Whole(r)
      <3>1. CASE r.value = "BOS"
        <4>1. Whole(r) = PlatformLengths(build).BOS /\ Whole(r) \in Nat \ {0} /\ r.value \in Contents
          BY <1>1, <3>1, WholePlatform
        <4> QED
          BY <3>1, <4>1 DEF DescriptorLen
      <3>2. CASE r.value # "BOS"
        <4>1. Whole(r) = Lengths(build)[r.value] /\ Whole(r) \in Nat \ {0} /\ r.value \in Contents
          BY <1>1, <1>3, <3>2, WholeDescriptor
        <4> QED
          BY <3>2, <4>1 DEF DescriptorLen
      <3> QED
        BY <3>1, <3>2
    <2>2. GetDescriptor(e, r) = IF len # 0 /\ r.length # 0 THEN CtlSendData(e, r.value, wanted) ELSE e
      BY <1>3 DEF GetDescriptor
    <2>3. CASE len # 0 /\ r.length # 0
      <3>1. wanted \in Nat /\ wanted = Wanted(r)
        BY <1>1, <2>1, <2>3 DEF Wanted, Least
      <3> HIDE DEF wanted, len
      <3>2. Handled(e, r, CtlSendData(e, r.value, wanted))
        BY <1>1, <2>1, <3>1, DataHandled
      <3> QED
        BY <2>2, <2>3, <3>2
    <2>4. CASE ~(len # 0 /\ r.length # 0)
      <3>1. Ignored(e.state, r)
        BY <1>1, <2>1, <2>4 DEF Ignored
      <3> HIDE DEF len
      <3> QED
        BY <1>1, <2>2, <2>4, <3>1, SilentHandled
    <2> QED
      BY <2>3, <2>4
  <1> QED
    BY <1>2, <1>3

\* The address.
LEMMA SetAddressHandled ==
    ASSUME build \in Builds, NEW e, Settling(e), NEW r \in Requests, r.name = "SET_ADDRESS"
    PROVE  Handled(e, r, SetAddress(e, r))
  <1>1. e \in Device /\ r.length \in Nat /\ Moves(r)
    BY RequestsAssumption DEF Settling, Wellformed, Moves
  <1>2. CASE r.length # 0 \/ e.state = "CONFIGURED"
    BY <1>2, ErrorHandled DEF SetAddress
  <1>3. CASE r.length = 0 /\ e.state # "CONFIGURED"
    <2> DEFINE s == CtlSendStatus(e)
               state == IF r.value # "0" THEN "ADDRESSED" ELSE "DEFAULT"
               t == SetAddress(e, r)
    <2>1. Beside(e, s) /\ s.mail # << >>
      BY <1>1, StatusSent
    <2>2. t = [s EXCEPT !.state = state]
      BY <1>3 DEF SetAddress
    <2>3. state \in States /\ state # "CONFIGURED" /\ state = Goal(r)
      BY DEF States, Goal
    <2> HIDE DEF s, state, t
    <2>4. /\ t \in Device /\ t.state = state /\ t.on = e.on /\ t.dataLen = e.dataLen
          /\ t.mail # << >> /\ t.halted = e.halted
      BY <2>1, <2>2, <2>3 DEF Device, Beside
    <2>5. Sound(e, t) /\ Answering(r, t) /\ Moving(e, r, t)
      BY <1>1, <1>3, <2>3, <2>4 DEF Sound, Ready, Answering, Moving, Settling
    <2>6. Telling(e, r, t) /\ Heard(e, r, t)
      BY <1>3, <2>4 DEF Telling, Heard
    <2> QED
      BY <2>5, <2>6 DEF Handled, t
  <1> QED
    BY <1>1, <1>2, <1>3

\* The configuration.
LEMMA SetConfigHandled ==
    ASSUME build \in Builds, NEW e, Settling(e), NEW r \in Requests, r.name = "SET_CONFIGURATION"
    PROVE  Handled(e, r, SetConfig(e, r))
  <1>1. /\ e \in Device /\ e.state \in States /\ Sound(e, e) /\ r.length = 0 /\ Moves(r)
        /\ <<"IN", 0>> \notin e.halted
    BY RequestsAssumption, Fields DEF Settling, Sound, Wellformed, Moves
  <1>2. CASE r.value \notin {"0", "1"} \/ e.state = "DEFAULT"
    <2>1. SetConfig(e, r) = CtlError(e, r)
      BY <1>2 DEF SetConfig
    <2> QED
      BY <2>1, ErrorHandled
  <1>3. CASE r.value = "0" /\ e.state = "ADDRESSED"
    <2>1. SetConfig(e, r) = CtlSendStatus(e)
      BY <1>3 DEF SetConfig
    <2>2. e.state = Goal(r)
      BY <1>3 DEF Goal
    <2> QED
      BY <1>1, <2>1, <2>2, StatusHandled
  <1>4. ASSUME NEW x \in Device, x.on = e.on, x.dataLen = e.dataLen, x.halted = e.halted,
               x.state = "CONFIGURED", r.value = "1"
        PROVE  Handled(e, r, CtlSendStatus(SetClassConfig(x)))
    <2> DEFINE s == SetClassConfig(x)
    <2>1. Unstalled(x, s) /\ Ready(s) /\ s.halted \subseteq x.halted
      BY ConfigReady
    <2> HIDE DEF s
    <2>2. Sound(e, s) /\ s.state = Goal(r) /\ <<"IN", 0>> \notin s.halted
      BY <1>1, <1>4, <2>1 DEF Sound, Unstalled, Goal
    <2>3. Handled(e, r, CtlSendStatus(s))
      BY <1>1, <2>2, StatusHandled
    <2> QED
      BY <2>3 DEF s
  <1>5. CASE r.value = "1" /\ e.state = "ADDRESSED"
    <2> DEFINE x == [e EXCEPT !.config = r.value, !.state = "CONFIGURED"]
    <2>1. SetConfig(e, r) = CtlSendStatus(SetClassConfig(x))
      BY <1>5 DEF SetConfig
    <2>2. /\ x \in Device /\ x.on = e.on /\ x.dataLen = e.dataLen /\ x.halted = e.halted
          /\ x.state = "CONFIGURED"
      BY <1>1, <1>5 DEF Device, States
    <2> HIDE DEF x
    <2> QED
      BY <1>4, <1>5, <2>1, <2>2
  <1>6. CASE r.value = "0" /\ e.state = "CONFIGURED"
    <2> DEFINE x == [e EXCEPT !.config = "0", !.state = "ADDRESSED"]
               s == CtlSendStatus(x)
    <2>1. SetConfig(e, r) = CtlSendStatus(s)
      BY <1>6 DEF SetConfig
    <2>2. /\ x \in Device /\ x.on = e.on /\ x.dataLen = e.dataLen /\ x.halted = e.halted
          /\ x.state = "ADDRESSED"
      BY <1>1 DEF Device, States
    <2> HIDE DEF x
    <2>3. Beside(x, s)
      BY <2>2, StatusSent
    <2> HIDE DEF s
    <2>4. Sound(e, s) /\ s.state = Goal(r) /\ <<"IN", 0>> \notin s.halted
      BY <1>1, <1>6, <2>2, <2>3 DEF Sound, Beside, Goal, Ready
    <2> QED
      BY <1>1, <2>1, <2>4, StatusHandled
  <1>7. CASE r.value = "1" /\ e.state = "CONFIGURED"
    <2>1. CASE r.value # e.config
      <3> DEFINE x == [e EXCEPT !.config = r.value]
      <3>1. SetConfig(e, r) = CtlSendStatus(SetClassConfig(x))
        BY <1>7, <2>1 DEF SetConfig
      <3>2. /\ x \in Device /\ x.on = e.on /\ x.dataLen = e.dataLen /\ x.halted = e.halted
            /\ x.state = "CONFIGURED"
        BY <1>1, <1>7 DEF Device
      <3> HIDE DEF x
      <3> QED
        BY <1>4, <1>7, <3>1, <3>2
    <2>2. CASE r.value = e.config
      <3>1. SetConfig(e, r) = CtlSendStatus(e)
        BY <1>7, <2>2 DEF SetConfig
      <3>2. e.state = Goal(r)
        BY <1>7 DEF Goal
      <3> QED
        BY <1>1, <3>1, <3>2, StatusHandled
    <2> QED
      BY <2>1, <2>2
  <1> QED
    BY <1>1, <1>2, <1>3, <1>5, <1>6, <1>7 DEF States

\* The number of the configuration.
LEMMA GetConfigHandled ==
    ASSUME build \in Builds, NEW e, Settling(e), NEW r \in Requests,
           r.to = "device", r.name = "GET_CONFIGURATION"
    PROVE  Handled(e, r, GetConfig(e, r))
  <1>1. /\ e \in Device /\ e.config \in {"0", "1"} /\ Sound(e, e) /\ ~Moves(r)
        /\ r.value \notin DescriptorNames
    BY RequestsAssumption, Fields DEF Settling, Sound, Wellformed, Moves
  <1>2. CASE r.length # 1 \/ e.state = "DEFAULT"
    BY <1>2, ErrorHandled DEF GetConfig
  <1>3. CASE r.length = 1 /\ e.state # "DEFAULT"
    <2> DEFINE what == IF e.state = "ADDRESSED" THEN "0" ELSE e.config
    <2>1. GetConfig(e, r) = CtlSendData(e, what, 1)
      BY <1>3 DEF GetConfig
    <2>2. what \in Contents
      BY <1>1 DEF Contents
    <2>3. 1 = Wanted(r)
      BY <1>1, <1>3, WholeOther DEF Wanted, Least
    <2> HIDE DEF what
    <2> QED
      BY <1>1, <2>1, <2>2, <2>3, DataHandled
  <1> QED
    BY <1>2, <1>3

\* The status of the device.
LEMMA GetStatusHandled ==
    ASSUME build \in Builds, NEW e, Settling(e), NEW r \in Requests,
           r.to = "device", r.name = "GET_STATUS"
    PROVE  Handled(e, r, GetStatus(e, r))
  <1>1. /\ e \in Device /\ Sound(e, e) /\ ~Moves(r) /\ r.value \notin DescriptorNames /\ r.length = 2
    BY RequestsAssumption DEF Settling, Sound, Wellformed, Moves
  <1>2. CASE e.state = "DEFAULT"
    BY <1>2, ErrorHandled DEF GetStatus
  <1>3. CASE e.state # "DEFAULT"
    <2> DEFINE s == IF e.wakeup THEN CtlReceiveStatus(e) ELSE e
    <2>1. GetStatus(e, r) = CtlSendData(s, "status", 2)
      BY <1>3 DEF GetStatus
    <2>2. Sound(e, s) /\ s.state = e.state
      BY <1>1, StatusAwaited, BesideReady DEF Sound, Beside
    <2>3. 2 = Wanted(r) /\ "status" \in Contents
      BY <1>1, WholeOther DEF Wanted, Least, Contents
    <2> HIDE DEF s
    <2> QED
      BY <1>1, <2>1, <2>2, <2>3, DataHandled
  <1> QED
    BY <1>2, <1>3

\* The features of the device: the one it has is set or cleared, the other ignored.
LEMMA FeatureHandled ==
    ASSUME build \in Builds, NEW e, Settling(e), NEW r \in Requests, r.to = "device",
           r.name \in {"SET_FEATURE", "CLEAR_FEATURE"}
    PROVE  /\ r.name = "SET_FEATURE" => Handled(e, r, SetFeature(e, r))
           /\ r.name = "CLEAR_FEATURE" => Handled(e, r, ClrFeature(e, r))
  <1>1. /\ e \in Device /\ e.mail = << >> /\ Sound(e, e) /\ ~Moves(r) /\ r.length = 0
        /\ r.value \in {"WAKEUP", "TEST_MODE"} /\ (r.name = "CLEAR_FEATURE" => r.value = "WAKEUP")
    BY RequestsAssumption DEF Settling, Sound, Wellformed, Moves
  <1>2. ASSUME NEW wakeup \in BOOLEAN
        PROVE  Handled(e, r, CtlSendStatus([e EXCEPT !.wakeup = wakeup]))
    <2> DEFINE s == [e EXCEPT !.wakeup = wakeup]
    <2>1. /\ s \in Device /\ s.on = e.on /\ s.dataLen = e.dataLen /\ s.halted = e.halted
          /\ s.state = e.state /\ s.stalls = e.stalls /\ s.open = e.open
      BY <1>1 DEF Device
    <2> HIDE DEF s
    <2>2. Sound(e, s)
      BY <2>1, SameReady DEF Sound
    <2>3. Handled(e, r, CtlSendStatus(s))
      BY <1>1, <2>1, <2>2, StatusHandled
    <2> QED
      BY <2>3 DEF s
  <1>3. ASSUME r.name = "SET_FEATURE" PROVE Handled(e, r, SetFeature(e, r))
    <2>1. CASE r.value = "WAKEUP"
      BY <1>2, <2>1 DEF SetFeature
    <2>2. CASE r.value = "TEST_MODE"
      <3>1. Ignored(e.state, r)
        BY <1>3, <2>2 DEF Ignored
      <3>2. SetFeature(e, r) = e
        BY <2>2 DEF SetFeature
      <3> QED
        BY <1>1, <3>1, <3>2, SilentHandled
    <2> QED
      BY <1>1, <2>1, <2>2
  <1>4. ASSUME r.name = "CLEAR_FEATURE" PROVE Handled(e, r, ClrFeature(e, r))
    <2>1. CASE e.state = "DEFAULT"
      BY <2>1, ErrorHandled DEF ClrFeature
    <2>2. CASE e.state # "DEFAULT"
      BY <1>1, <1>2, <1>4, <2>2 DEF ClrFeature
    <2> QED
      BY <2>1, <2>2
  <1> QED
    BY <1>3, <1>4

\* All requests to the device.
LEMMA StdDevHandled ==
    ASSUME build \in Builds, NEW e, Settling(e), NEW r \in Requests, r.to = "device"
    PROVE  Handled(e, r, StdDevReq(e, r))
  <1>1. CASE r.name = "GET_DESCRIPTOR"
    BY <1>1, GetDescriptorHandled DEF StdDevReq
  <1>2. CASE r.name = "SET_ADDRESS"
    BY <1>2, SetAddressHandled DEF StdDevReq
  <1>3. CASE r.name = "SET_CONFIGURATION"
    BY <1>3, SetConfigHandled DEF StdDevReq
  <1>4. CASE r.name = "GET_CONFIGURATION"
    BY <1>4, GetConfigHandled DEF StdDevReq
  <1>5. CASE r.name = "GET_STATUS"
    BY <1>5, GetStatusHandled DEF StdDevReq
  <1>6. CASE r.name = "SET_FEATURE"
    BY <1>6, FeatureHandled DEF StdDevReq
  <1>7. CASE r.name = "CLEAR_FEATURE"
    BY <1>7, FeatureHandled DEF StdDevReq
  <1>8. CASE r.name \notin {"GET_DESCRIPTOR", "SET_ADDRESS", "SET_CONFIGURATION", "GET_CONFIGURATION",
                            "GET_STATUS", "SET_FEATURE", "CLEAR_FEATURE"}
    BY <1>8, ErrorHandled DEF StdDevReq
  <1> QED
    BY <1>1, <1>2, <1>3, <1>4, <1>5, <1>6, <1>7, <1>8

(*---------------------------------------------------------------------------*)
(* Requests to an interface. *)

\* The interfaces of a build.
LEMMA Interfaces ==
    ASSUME build \in Builds, NEW i \in DOMAIN build.itf
    PROVE  /\ i \in 0 .. 3 /\ build.itf[i] \in {"HID", "U2F", "WEBUSB", "CCID"}
           /\ build.itf[i] \in Classes(build) /\ (build.itf[i] = "CCID" => i = 2)
  BY BuildsAssumption DEF Classes, Range

\* A refusal is sound.
LEMMA ErrorSound ==
    ASSUME build \in Builds, NEW e, Settling(e), NEW r \in Requests, ~Moves(r)
    PROVE  Sound(e, CtlError(e, r)) /\ CtlError(e, r).state = e.state
  <1>1. Handled(e, r, CtlError(e, r))
    BY ErrorHandled
  <1> QED
    BY <1>1 DEF Handled, Moving

\* The HID class answers all the host needs of it.
LEMMA HidHandled ==
    ASSUME build \in Builds, NEW e, Settling(e), NEW r \in Requests, r.to = "interface", e.state = "CONFIGURED",
           r.index \in DOMAIN build.itf, build.itf[r.index] \in {"HID", "U2F"}
    PROVE  LET t == HidSetup(e, build.itf[r.index], r) IN
           /\ Sound(e, t) /\ t.state = e.state
           /\ r.length > 0 => Handled(e, r, t)
  <1> DEFINE class == build.itf[r.index]
             t == HidSetup(e, class, r)
  <1>1. /\ e \in Device /\ e.mail = << >> /\ Sound(e, e) /\ ~Moves(r) /\ Wellformed(r)
        /\ r.length \in Nat /\ r.index \in 0 .. 3 /\ class \in Classes(build)
    BY RequestsAssumption, Interfaces DEF Settling, Sound, Wellformed, Moves
  <1>2. r.type = "std" \/ r.type = "class"
    BY <1>1 DEF Wellformed
  <1>3. ASSUME NEW s, Sound(e, s), s.state = e.state, NEW what \in Contents, NEW len \in Nat,
               r.length > 0 => len = Wanted(r), t = CtlSendData(s, what, len)
        PROVE  Sound(e, t) /\ t.state = e.state /\ Handled(e, r, t)
    <2> HIDE DEF t
    <2>1. Handled(e, r, t)
      BY <1>1, <1>3, DataHandled
    <2> QED
      BY <1>1, <2>1 DEF Handled, Moving
  <1>4. ASSUME r.name \in {"GET_IDLE", "GET_PROTOCOL", "GET_INTERFACE"}, r.length > 0
        PROVE  1 = Wanted(r)
    <2>1. r.value \notin DescriptorNames
      BY <1>1, <1>4 DEF Wellformed
    <2> QED
      BY <1>1, <1>4, <2>1, WholeOther DEF Wanted, Least
  <1>5. "zero" \in Contents
    BY DEF Contents
  <1>6. CASE r.type = "class"
    <2>1. CASE r.name \in {"SET_IDLE", "SET_PROTOCOL"}
      <3>1. t = e /\ r.length = 0
        BY <1>1, <1>6, <2>1 DEF HidSetup, Wellformed
      <3> QED
        BY <1>1, <3>1
    <2>2. CASE r.name \in {"GET_IDLE", "GET_PROTOCOL"}
      <3>1. t = CtlSendData(e, "zero", 1)
        BY <1>6, <2>2 DEF HidSetup
      <3> HIDE DEF t
      <3> QED
        BY <1>1, <1>3, <1>4, <1>5, <2>2, <3>1 DEF t
    <2>3. CASE r.name \notin {"SET_IDLE", "SET_PROTOCOL", "GET_IDLE", "GET_PROTOCOL"}
      <3>1. t = CtlError(e, r)
        BY <1>6, <2>3 DEF HidSetup
      <3> QED
        BY <1>1, <3>1, ErrorSound, ErrorHandled
    <2> QED
      BY <2>1, <2>2, <2>3
  <1>7. CASE r.type = "std" /\ r.name = "GET_DESCRIPTOR"
    <2> DEFINE ready == IF class = "U2F" /\ r.value = "REPORT"
                        THEN OpenEP(e, EndpointsOf("U2F"), "INTR", EpSize) ELSE e
               len == CASE r.value = "REPORT" -> ReportLen(ReportOf(build, class))
                        [] r.value = "HID" -> Lengths(build).HID
                        [] OTHER -> 0
               wanted == Least(len, r.length)
    <2>1. t = CtlSendData(ready, r.value, wanted)
      BY <1>7 DEF HidSetup
    <2>2. Sound(e, ready) /\ ready.state = e.state
      <3>1. CASE class = "U2F" /\ r.value = "REPORT"
        <4> DEFINE s == OpenEP(e, EndpointsOf("U2F"), "INTR", EpSize)
        <4>1. ASSUME Ready(e) PROVE Unstalled(e, s) /\ Ready(s)
          BY <1>1, <3>1, <4>1, ReopenReady DEF Has
        <4>2. Unstalled(e, s)
          <5>1. EndpointsOf("U2F") \subseteq Ends
            BY <1>1, <3>1, ClassEndsOpen
          <5> DEFINE types == [ep \in EndpointsOf("U2F") |-> "INTR"]
          <5>2. \A ep \in EndpointsOf("U2F") : types[ep] \in {"INTR", "BULK"}
            OBVIOUS
          <5>3. s = OpenEPs(e, EndpointsOf("U2F"), types, EpSize)
            BY DEF OpenEP
          <5> HIDE DEF types, s
          <5> QED
            BY <1>1, <5>1, <5>2, <5>3, OpenedEPs
        <4>3. ready = s
          BY <3>1
        <4> HIDE DEF s
        <4> QED
          BY <4>1, <4>2, <4>3 DEF Sound, Unstalled
      <3>2. CASE ~(class = "U2F" /\ r.value = "REPORT")
        BY <1>1, <3>2
      <3> QED
        BY <3>1, <3>2
    <2>3. len = Whole(r) /\ len \in Nat /\ r.value \in Contents
      <3>1. CASE r.value = "REPORT"
        BY <1>1, <3>1, WholeReport
      <3>2. CASE r.value = "HID"
        BY <1>1, <3>2, WholeDescriptor
      <3> QED
        BY <1>1, <1>7, <3>1, <3>2 DEF Wellformed
    <2>4. wanted \in Nat /\ wanted = Wanted(r)
      BY <1>1, <2>3 DEF Wanted, Least
    <2> HIDE DEF ready, len, wanted
    <2> QED
      BY <1>3, <2>1, <2>2, <2>3, <2>4
  <1>8. CASE r.type = "std" /\ r.name = "SET_INTERFACE"
    <2>1. t = CtlSendStatus(e) /\ r.length = 0
      BY <1>1, <1>8 DEF HidSetup, Wellformed
    <2>2. Beside(e, CtlSendStatus(e))
      BY <1>1, StatusSent
    <2> HIDE DEF t
    <2> QED
      BY <1>1, <2>1, <2>2, BesideReady DEF Sound, Beside, t
  <1>9. CASE r.type = "std" /\ r.name = "GET_INTERFACE"
    <2>1. t = CtlSendData(e, "zero", 1)
      BY <1>9 DEF HidSetup
    <2> HIDE DEF t
    <2> QED
      BY <1>1, <1>3, <1>4, <1>5, <1>9, <2>1 DEF t
  <1>10. CASE r.type = "std" /\ r.name = "GET_STATUS"
    <2>1. t = e
      BY <1>10 DEF HidSetup
    <2>2. r.length > 0 => Ignored(e.state, r)
      BY <1>1, <1>10 DEF Ignored
    <2> QED
      BY <1>1, <2>1, <2>2, SilentHandled
  <1> QED
    BY <1>1, <1>2, <1>6, <1>7, <1>8, <1>9, <1>10 DEF Wellformed

\* The CCID class has no request the host needs.
LEMMA CcidHandled ==
    ASSUME build \in Builds, NEW e, Settling(e), NEW r \in Requests, r.to = "interface", e.state = "CONFIGURED",
           r.index \in DOMAIN build.itf, build.itf[r.index] = "CCID"
    PROVE  LET t == CcidSetup(e, r) IN
           /\ Sound(e, t) /\ t.state = e.state
           /\ r.length > 0 => Handled(e, r, t)
  <1>1. /\ e \in Device /\ e.mail = << >> /\ Sound(e, e) /\ ~Moves(r) /\ Wellformed(r)
        /\ r.index \in 0 .. 3
    BY RequestsAssumption, Interfaces DEF Settling, Sound, Wellformed, Moves
  <1>2. CASE r.type = "class" /\ ~(r.name = "ABORT" /\ r.length = 0 /\ r.value = "0")
    <2>1. CcidSetup(e, r) = CtlError(e, r)
      BY <1>2 DEF CcidSetup
    <2> QED
      BY <1>1, <2>1, ErrorSound, ErrorHandled
  <1>3. CASE r.type = "class" /\ r.name = "ABORT" /\ r.length = 0 /\ r.value = "0"
    <2>1. CcidSetup(e, r) = e
      BY <1>3 DEF CcidSetup
    <2> QED
      BY <1>1, <1>3, <2>1
  <1>4. CASE r.type = "std"
    <2>1. CcidSetup(e, r) = e
      BY <1>1, <1>4 DEF CcidSetup, Wellformed
    <2>2. r.length > 0 => Ignored(e.state, r)
      BY <1>4 DEF Ignored
    <2> QED
      BY <1>1, <2>1, <2>2, SilentHandled
  <1> QED
    BY <1>1, <1>2, <1>3, <1>4 DEF Wellformed

\* Whichever class has the interface.
LEMMA SetupHandled ==
    ASSUME build \in Builds, NEW e, Settling(e), NEW r \in Requests, r.to = "interface", e.state = "CONFIGURED",
           r.index \in DOMAIN build.itf
    PROVE  LET t == Setup(e, build.itf[r.index], r) IN
           /\ Sound(e, t) /\ t.state = e.state
           /\ r.length > 0 => Handled(e, r, t)
  <1> DEFINE class == build.itf[r.index]
  <1>1. e \in Device /\ e.mail = << >> /\ Sound(e, e)
    BY DEF Settling, Sound
  <1>2. CASE class \in {"HID", "U2F"}
    <2>1. Setup(e, class, r) = HidSetup(e, class, r)
      BY <1>2 DEF Setup
    <2> QED
      BY <1>2, <2>1, HidHandled
  <1>3. CASE class = "CCID"
    <2>1. Setup(e, class, r) = CcidSetup(e, r)
      BY <1>3 DEF Setup
    <2> QED
      BY <1>3, <2>1, CcidHandled
  <1>4. CASE class = "WEBUSB"
    <2>1. Setup(e, class, r) = e
      BY <1>4 DEF Setup
    <2>2. r.length > 0 => Ignored(e.state, r)
      BY <1>4 DEF Ignored
    <2> QED
      BY <1>1, <2>1, <2>2, SilentHandled
  <1> QED
    BY <1>2, <1>3, <1>4, Interfaces

\* All requests to an interface.
LEMMA StdItfHandled ==
    ASSUME build \in Builds, NEW e, Settling(e), NEW r \in Requests, r.to = "interface"
    PROVE  Handled(e, r, StdItfReq(e, r))
  <1>1. ~Moves(r) /\ r.length \in Nat
    BY RequestsAssumption DEF Wellformed, Moves
  <1>2. CASE e.state # "CONFIGURED" \/ r.index \notin DOMAIN build.itf
    BY <1>2, ErrorHandled DEF StdItfReq
  <1>3. CASE e.state = "CONFIGURED" /\ r.index \in DOMAIN build.itf
    <2> DEFINE s == Setup(e, build.itf[r.index], r)
    <2>1. Sound(e, s) /\ s.state = e.state /\ (r.length > 0 => Handled(e, r, s))
      BY <1>3, SetupHandled
    <2>2. StdItfReq(e, r) = IF r.length = 0 THEN CtlSendStatus(s) ELSE s
      BY <1>3 DEF StdItfReq
    <2> HIDE DEF s
    <2>3. r.length = 0 => Handled(e, r, CtlSendStatus(s))
      BY <1>1, <2>1, StatusHandled
    <2> QED
      BY <1>1, <2>1, <2>2, <2>3
  <1> QED
    BY <1>2, <1>3

(*---------------------------------------------------------------------------*)
(* Requests to an endpoint. *)

\* Of the classes told of a halt, only CCID does something: it reopens the endpoint.
LEMMA NotifySound ==
    ASSUME build \in Builds, NEW e, NEW s \in Device, Sound(e, s), s.state = e.state,
           NEW r \in Requests, r.to = "endpoint", r.name \in {"SET_FEATURE", "CLEAR_FEATURE"}
    PROVE  Sound(e, Notify(s, r)) /\ Notify(s, r).state = e.state
  <1>1. r.type = "std" /\ r.index \in {"IN", "OUT"} \X Nat
    BY RequestsAssumption DEF Wellformed
  <1> DEFINE i == r.index[2]
  <1>2. CASE ~(r.index[1] = "OUT" /\ i \in DOMAIN build.itf)
    BY <1>2 DEF Notify
  <1>3. CASE r.index[1] = "OUT" /\ i \in DOMAIN build.itf
    <2>1. Notify(s, r) = Setup(s, build.itf[i], r)
      BY <1>3 DEF Notify
    <2>2. CASE build.itf[i] \in {"HID", "U2F"}
      <3>1. Setup(s, build.itf[i], r) = s
        BY <1>1, <2>2 DEF Setup, HidSetup
      <3> QED
        BY <2>1, <3>1
    <2>3. CASE build.itf[i] = "WEBUSB"
      BY <2>1, <2>3 DEF Setup
    <2>4. CASE build.itf[i] = "CCID"
      <3>1. r.index = <<"OUT", 2>> /\ Has("CCID")
        BY <1>1, <1>3, <2>4, Interfaces DEF Has
      <3>2. CASE r.name = "SET_FEATURE"
        <4>1. Setup(s, build.itf[i], r) = s
          BY <1>1, <2>4, <3>2 DEF Setup, CcidSetup
        <4> QED
          BY <2>1, <4>1
      <3>3. CASE r.name = "CLEAR_FEATURE"
        <4> DEFINE t == OpenEP(s, {<<"OUT", 2>>}, "BULK", EpSize)
        <4>1. Setup(s, build.itf[i], r) = t
          BY <1>1, <2>4, <3>1, <3>3 DEF Setup, CcidSetup
        <4>2. Unstalled(s, t)
          <5> DEFINE types == [ep \in {<<"OUT", 2>>} |-> "BULK"]
          <5>1. {<<"OUT", 2>>} \subseteq Ends
            BY DEF Ends
          <5>2. \A ep \in {<<"OUT", 2>>} : types[ep] \in {"INTR", "BULK"}
            OBVIOUS
          <5>3. t = OpenEPs(s, {<<"OUT", 2>>}, types, EpSize)
            BY DEF OpenEP
          <5> HIDE DEF types, t
          <5> QED
            BY <5>1, <5>2, <5>3, OpenedEPs
        <4>3. ASSUME Ready(s) PROVE Ready(t)
          BY <3>1, <4>3, ReopenReady
        <4> HIDE DEF t
        <4> QED
          BY <2>1, <4>1, <4>2, <4>3 DEF Sound, Unstalled
      <3> QED
        BY <3>2, <3>3
    <2> QED
      BY <1>3, <2>2, <2>3, <2>4, Interfaces
  <1> QED
    BY <1>2, <1>3

\* All requests to an endpoint.
LEMMA StdEPHandled ==
    ASSUME build \in Builds, NEW e, Settling(e), NEW r \in Requests, r.to = "endpoint"
    PROVE  Handled(e, r, StdEPReq(e, r))
  <1> DEFINE ep == r.index
             stalled == IF ep[2] # 0 THEN StallEP(e, ep) ELSE e
             cleared == ClearStallEP(e, ep)
  <1>1. /\ e \in Device /\ e.state \in States /\ e.mail = << >> /\ Sound(e, e) /\ ~Moves(r)
        /\ r.type = "std" /\ ep \in Ends /\ ep[2] \in Nat /\ MaxEndpoint \in Nat
        /\ \/ r.name = "GET_STATUS" /\ r.length = 2 /\ r.value \notin DescriptorNames
           \/ r.name \in {"SET_FEATURE", "CLEAR_FEATURE"} /\ r.value = "HALT" /\ r.length = 0
    BY RequestsAssumption, SizesAssumption, Fields DEF Settling, Sound, Wellformed, Moves, Ends
  <1>2. Sound(e, stalled) /\ stalled.state = e.state /\ stalled.mail = << >> /\ stalled \in Device
    <2>1. CASE ep[2] # 0
      <3> DEFINE s == StallEP(e, ep)
      <3>1. /\ Unstalled(e, s) /\ s.open = e.open /\ s.stalls = e.stalls \cup {ep}
            /\ s.halted = e.halted \cup {ep}
        BY <1>1, Stalled
      <3> HIDE DEF s
      <3>2. Ready(e) => Ready(s)
        BY <3>1, StallReady
      <3>3. Sound(e, s) /\ s.state = e.state /\ s.mail = << >> /\ s \in Device
        BY <1>1, <3>1, <3>2 DEF Sound, Unstalled
      <3> QED
        BY <2>1, <3>3 DEF s
    <2>2. CASE ep[2] = 0
      BY <1>1, <2>2
    <2> QED
      BY <2>1, <2>2
  <1>3. Sound(e, cleared) /\ cleared.state = e.state /\ cleared \in Device
    <2>1. /\ Unstalled(e, cleared) /\ cleared.open = e.open /\ cleared.stalls = e.stalls \ {ep}
          /\ cleared.halted = e.halted \ {ep}
      BY <1>1, Stalled
    <2> HIDE DEF cleared
    <2>2. Ready(e) => Ready(cleared)
      BY <2>1, StallReady
    <2> QED
      BY <2>1, <2>2 DEF Sound, Unstalled
  <1>4. CASE ep[2] > MaxEndpoint \/ e.state = "DEFAULT"
    <2>1. StdEPReq(e, r) = CtlError(e, r)
      BY <1>1, <1>4 DEF StdEPReq
    <2> QED
      BY <2>1, ErrorHandled
  <1>5. CASE ep[2] <= MaxEndpoint /\ e.state = "ADDRESSED"
    <2>1. StdEPReq(e, r) = stalled
      BY <1>1, <1>5 DEF StdEPReq
    <2>2. Ignored(e.state, r)
      BY <1>5 DEF Ignored
    <2> HIDE DEF stalled
    <2> QED
      BY <1>2, <2>1, <2>2, SilentHandled
  <1>6. CASE ep[2] <= MaxEndpoint /\ e.state = "CONFIGURED"
    <2>1. CASE r.name = "SET_FEATURE"
      <3>1. StdEPReq(e, r) = CtlSendStatus(Notify(stalled, r))
        BY <1>1, <1>6, <2>1 DEF StdEPReq
      <3> HIDE DEF stalled
      <3>2. Sound(e, Notify(stalled, r)) /\ Notify(stalled, r).state = e.state
        BY <1>2, <2>1, NotifySound
      <3> QED
        BY <1>1, <2>1, <3>1, <3>2, StatusHandled
    <2>2. CASE r.name = "CLEAR_FEATURE"
      <3> DEFINE s == IF ep[2] # 0 THEN Notify(cleared, r) ELSE e
      <3>1. StdEPReq(e, r) = CtlSendStatus(s)
        BY <1>1, <1>6, <2>2 DEF StdEPReq
      <3> HIDE DEF cleared
      <3>2. Sound(e, Notify(cleared, r)) /\ Notify(cleared, r).state = e.state
        BY <1>3, <2>2, NotifySound
      <3>3. Sound(e, s) /\ s.state = e.state
        BY <1>1, <3>2
      <3> HIDE DEF s
      <3> QED
        BY <1>1, <2>2, <3>1, <3>3, StatusHandled
    <2>3. CASE r.name = "GET_STATUS"
      <3> DEFINE what == IF ep \in e.stalls THEN "halted" ELSE "running"
      <3>1. StdEPReq(e, r) = CtlSendData(e, what, 2)
        BY <1>1, <1>6, <2>3 DEF StdEPReq
      <3>2. 2 = Wanted(r) /\ what \in Contents
        BY <1>1, <2>3, WholeOther DEF Wanted, Least, Contents
      <3>3. Ready(e) /\ Plain /\ ep \in ClassEndpoints => (what = "halted" <=> ep \in e.halted)
        BY <1>6 DEF Ready, Truthful
      <3> HIDE DEF what
      <3> QED
        BY <1>1, <1>6, <3>1, <3>2, <3>3, DataHandled
    <2> QED
      BY <1>1, <2>1, <2>2, <2>3
  <1> QED
    BY <1>1, <1>4, <1>5, <1>6 DEF States

(*---------------------------------------------------------------------------*)
(* The setup stage. *)

\* What is forgotten out of the data stage is not in what a request makes of a device.
LEMMA SettledFields ==
    ASSUME NEW t \in Device
    PROVE  LET s == Settled(t) IN
           /\ s \in Device /\ s.on = t.on /\ s.state = t.state /\ s.config = t.config
           /\ s.wakeup = t.wakeup /\ s.ep0 = t.ep0 /\ s.stalls = t.stalls /\ s.mail = t.mail
           /\ s.armed = t.armed /\ s.halted = t.halted /\ s.open = t.open
           /\ t.ep0 = "DATA_IN" => s = t
  <1>1. CASE t.ep0 = "DATA_IN"
    BY <1>1 DEF Settled
  <1>2. CASE t.ep0 # "DATA_IN"
    <2> DEFINE s == [t EXCEPT !.total = 0, !.rem = 0, !.at = 0, !.dataLen = 0]
    <2>1. Settled(t) = s
      BY <1>2 DEF Settled
    <2>2. /\ s \in Device /\ s.on = t.on /\ s.state = t.state /\ s.config = t.config
          /\ s.wakeup = t.wakeup /\ s.ep0 = t.ep0 /\ s.stalls = t.stalls /\ s.mail = t.mail
          /\ s.armed = t.armed /\ s.halted = t.halted /\ s.open = t.open
      BY DEF Device
    <2> HIDE DEF s
    <2> QED
      BY <1>2, <2>1, <2>2
  <1> QED
    BY <1>1, <1>2

\* What a request makes of a device at rest, whatever it is.
LEMMA SetupStageHandled ==
    ASSUME build \in Builds, NEW e \in Device, e.mail = << >>, <<"IN", 0>> \notin e.halted,
           NEW r \in Requests
    PROVE  LET t == SetupStage(e, r) IN
           /\ t \in Device /\ t.on = e.on /\ (Ready(e) => Ready(t))
           /\ Answering(r, t) /\ Moving(e, r, t) /\ Telling(e, r, t) /\ Heard(e, r, t)
           /\ t.ep0 = "DATA_IN" => t.dataLen = r.length
  <1> DEFINE s == [e EXCEPT !.ep0 = "SETUP", !.dataLen = r.length]
             u == CASE r.to = "device" -> StdDevReq(s, r)
                    [] r.to = "interface" -> StdItfReq(s, r)
                    [] r.to = "endpoint" -> StdEPReq(s, r)
                    [] r.to = "other" -> StallEP(s, <<IF r.length > 0 THEN "IN" ELSE "OUT", 0>>)
             t == SetupStage(e, r)
  <1>1. Wellformed(r) /\ r.length \in Nat
    BY RequestsAssumption DEF Wellformed
  <1>2. t = Settled(u)
    BY DEF SetupStage
  <1>3. /\ s \in Device /\ s.on = e.on /\ s.dataLen = r.length /\ s.mail = << >>
        /\ s.halted = e.halted /\ s.state = e.state /\ s.stalls = e.stalls /\ s.open = e.open
    BY <1>1 DEF Device, Stages
  <1> HIDE DEF s
  <1>4. Settling(s)
    BY <1>3 DEF Settling
  <1>5. Handled(s, r, u)
    <2>1. CASE r.to = "device"
      <3>1. u = StdDevReq(s, r)
        BY <2>1
      <3> QED
        BY <1>4, <2>1, <3>1, StdDevHandled
    <2>2. CASE r.to = "interface"
      <3>1. u = StdItfReq(s, r)
        BY <2>2
      <3> QED
        BY <1>4, <2>2, <3>1, StdItfHandled
    <2>3. CASE r.to = "endpoint"
      <3>1. u = StdEPReq(s, r)
        BY <2>3
      <3> QED
        BY <1>4, <2>3, <3>1, StdEPHandled
    <2>4. CASE r.to = "other"
      <3> DEFINE ep == <<IF r.length > 0 THEN "IN" ELSE "OUT", 0>>
      <3>1. u = StallEP(s, ep)
        BY <2>4
      <3>2. ep \in Ends
        BY DEF Ends
      <3> HIDE DEF u, ep
      <3>3. /\ Unstalled(s, u) /\ u.open = s.open /\ u.stalls = s.stalls \cup {ep}
            /\ u.halted = s.halted \cup {ep}
        BY <1>3, <3>1, <3>2, Stalled
      <3>4. Ready(s) => Ready(u)
        BY <3>3, StallReady
      <3>5. Sound(s, u) /\ u.mail = << >> /\ u.state = s.state
        BY <1>3, <3>3, <3>4 DEF Sound, Unstalled
      <3>6. Ignored(s.state, r) \/ <<"IN", 0>> \in u.halted
        <4>1. CASE r.length > 0
          BY <3>3, <4>1 DEF ep
        <4>2. CASE r.length = 0
          BY <2>4, <4>2 DEF Ignored
        <4> QED
          BY <1>1, <4>1, <4>2
      <3> QED
        BY <1>4, <3>5, <3>6, SilentHandled
    <2> QED
      BY <1>1, <2>1, <2>2, <2>3, <2>4 DEF Wellformed
  <1> HIDE DEF u, t
  <1>6. u \in Device /\ u.on = e.on /\ u.dataLen = r.length
    BY <1>3, <1>5 DEF Handled, Sound
  <1>7. /\ t \in Device /\ t.on = u.on /\ t.state = u.state /\ t.ep0 = u.ep0
        /\ t.stalls = u.stalls /\ t.mail = u.mail /\ t.halted = u.halted /\ t.open = u.open
        /\ u.ep0 = "DATA_IN" => t = u
    BY <1>2, <1>6, SettledFields
  <1>8. ASSUME Ready(e) PROVE Ready(s) /\ Ready(u) /\ Ready(t)
    <2>1. Ready(s)
      BY <1>3, <1>8, SameReady
    <2>2. Ready(u)
      BY <1>5, <2>1 DEF Handled, Sound
    <2> QED
      BY <1>7, <2>1, <2>2, SameReady
  <1>9. Answering(r, t)
    BY <1>5, <1>7 DEF Handled, Answering, Loaded
  <1>10. Moving(e, r, t) /\ Heard(e, r, t)
    BY <1>3, <1>5, <1>7 DEF Handled, Moving, Heard
  <1>11. Telling(e, r, t)
    BY <1>5, <1>7, <1>8 DEF Handled, Telling
  <1> QED
    BY <1>6, <1>7, <1>8, <1>9, <1>10, <1>11 DEF t

(*---------------------------------------------------------------------------*)
(* The data stage. *)

\* A number of whole packets.
Multiple(x) == \E k \in 0 .. x : x = k * MaxPacket

\* One packet more.
LEMMA MultipleNext ==
    /\ Multiple(0)
    /\ \A x \in Nat : Multiple(x) => Multiple(x + MaxPacket)
  <1>1. Multiple(0)
    BY SizesAssumption DEF Multiple
  <1>2. ASSUME NEW x \in Nat, Multiple(x) PROVE Multiple(x + MaxPacket)
    <2>1. PICK k \in 0 .. x : x = k * MaxPacket
      BY <1>2 DEF Multiple
    <2>2. (k + 1) * MaxPacket = x + MaxPacket /\ k + 1 \in 0 .. (x + MaxPacket)
      BY <2>1, SizesAssumption
    <2> QED
      BY <2>2 DEF Multiple
  <1> QED
    BY <1>1, <1>2

\* After whole packets, one that is not empty ends on a whole number exactly when it is full.
LEMMA LastFull ==
    ASSUME NEW at \in Nat, Multiple(at), NEW rem \in Nat, rem <= MaxPacket
    PROVE  (at + rem) % MaxPacket = 0 <=> rem = 0 \/ rem = MaxPacket
  <1>1. MaxPacket \in Nat \ {0}
    BY SizesAssumption
  <1>2. PICK k \in 0 .. at : at = k * MaxPacket
    BY DEF Multiple
  <1>3. ASSUME NEW q \in Int, NEW m \in 0 .. (MaxPacket - 1) PROVE (q * MaxPacket + m) % MaxPacket = m
    BY <1>1
  <1>4. CASE rem < MaxPacket
    BY <1>1, <1>2, <1>3, <1>4
  <1>5. CASE rem = MaxPacket
    <2>1. at + rem = (k + 1) * MaxPacket + 0 /\ k + 1 \in Int /\ 0 \in 0 .. (MaxPacket - 1)
      BY <1>1, <1>2, <1>5
    <2> QED
      BY <1>1, <1>3, <1>5, <2>1
  <1> QED
    BY <1>1, <1>4, <1>5

\* A packet read by the host: nothing to do, the next one, an empty one, or the status.
LEMMA DataInFields ==
    ASSUME NEW e \in Device
    PROVE  LET t == DataInStage(e) IN
           /\ t \in Device /\ t.on = e.on /\ t.state = e.state
           /\ t.stalls = e.stalls /\ t.halted = e.halted /\ t.open = e.open
           /\ e.ep0 = "DATA_IN" /\ e.rem > MaxPacket =>
                 /\ t.ep0 = "DATA_IN" /\ t.total = e.total /\ t.dataLen = e.dataLen
                 /\ t.rem = e.rem - MaxPacket /\ t.at = e.at + MaxPacket
                 /\ t.mail # << >> /\ t.mail[1].at = t.at /\ t.mail[1].n = Least(t.rem, MaxPacket)
           /\ e.ep0 = "DATA_IN" /\ e.rem <= MaxPacket
              /\ (e.total % MaxPacket = 0 /\ e.total >= MaxPacket /\ e.total < e.dataLen) =>
                 /\ t.ep0 = "DATA_IN" /\ t.total = e.total /\ t.dataLen = 0 /\ t.rem = e.rem
                 /\ t.at = e.at /\ t.mail # << >> /\ t.mail[1].n = 0
           /\ e.ep0 = "DATA_IN" /\ e.rem <= MaxPacket
              /\ ~(e.total % MaxPacket = 0 /\ e.total >= MaxPacket /\ e.total < e.dataLen) =>
                 t.ep0 = "STATUS_OUT" /\ t.armed /\ t.mail = e.mail
           /\ e.ep0 # "DATA_IN" => t = e
  <1> DEFINE t == DataInStage(e)
             last == e.total % MaxPacket = 0 /\ e.total >= MaxPacket /\ e.total < e.dataLen
  <1>1. /\ MaxPacket \in Nat /\ MaxPacket > 0 /\ e.rem \in Nat /\ e.at \in Nat /\ e.total \in Nat
        /\ e.dataLen \in Nat
    BY SizesAssumption, Fields
  <1>2. CASE e.ep0 # "DATA_IN"
    BY <1>2 DEF DataInStage
  <1>3. CASE e.ep0 = "DATA_IN" /\ e.rem > MaxPacket
    <2> DEFINE rem == e.rem - MaxPacket
               at == e.at + MaxPacket
               p == [what |-> "more", at |-> at, n |-> Least(rem, MaxPacket)]
               m == <<p>>
    <2>1. rem \in Nat /\ at \in Nat /\ Least(rem, MaxPacket) \in Nat
      BY <1>1, <1>3 DEF Least
    <2>2. p \in Packet /\ p.at = at /\ p.n = Least(rem, MaxPacket)
      BY <2>1 DEF Packet, Contents
    <2>3. t = [e EXCEPT !.rem = rem, !.at = at, !.mail = m]
      BY <1>3 DEF DataInStage, Transmit, Device
    <2> HIDE DEF p
    <2>4. m \in Mail /\ m # << >> /\ m[1] = p
      BY <2>2, OnePacket
    <2> HIDE DEF m, t, rem, at
    <2>5. /\ t \in Device /\ t.on = e.on /\ t.state = e.state
          /\ t.stalls = e.stalls /\ t.halted = e.halted /\ t.open = e.open
          /\ t.ep0 = e.ep0 /\ t.total = e.total /\ t.dataLen = e.dataLen
          /\ t.rem = rem /\ t.at = at /\ t.mail = m
      BY <2>1, <2>3, <2>4 DEF Device
    <2>6. t.rem = e.rem - MaxPacket /\ t.at = e.at + MaxPacket
      BY <2>5 DEF rem, at
    <2> QED
      BY <1>1, <1>3, <2>2, <2>4, <2>5, <2>6 DEF t
  <1>4. CASE e.ep0 = "DATA_IN" /\ ~(e.rem > MaxPacket) /\ last
    <2> DEFINE p == [what |-> "nothing", at |-> 0, n |-> 0]
               m == <<p>>
    <2>1. p \in Packet /\ p.n = 0
      BY DEF Packet, Contents
    <2>2. t = [e EXCEPT !.dataLen = 0, !.mail = m]
      BY <1>4 DEF DataInStage, Transmit, Device
    <2> HIDE DEF p
    <2>3. m \in Mail /\ m # << >> /\ m[1] = p
      BY <2>1, OnePacket
    <2> HIDE DEF m, t
    <2>4. /\ t \in Device /\ t.on = e.on /\ t.state = e.state
          /\ t.stalls = e.stalls /\ t.halted = e.halted /\ t.open = e.open
          /\ t.ep0 = e.ep0 /\ t.total = e.total /\ t.dataLen = 0
          /\ t.rem = e.rem /\ t.at = e.at /\ t.mail = m
      BY <2>2, <2>3 DEF Device
    <2> QED
      BY <1>1, <1>4, <2>1, <2>3, <2>4 DEF t
  <1>5. CASE e.ep0 = "DATA_IN" /\ ~(e.rem > MaxPacket) /\ ~last
    <2> DEFINE s == CtlReceiveStatus(e)
    <2>1. t = Settled(s)
      BY <1>5 DEF DataInStage
    <2>2. Beside(e, s) /\ s.ep0 = "STATUS_OUT" /\ s.armed /\ s.mail = e.mail
      BY StatusAwaited
    <2> HIDE DEF s
    <2>3. s \in Device
      BY <2>2 DEF Beside
    <2> HIDE DEF t
    <2>4. /\ t \in Device /\ t.on = s.on /\ t.state = s.state /\ t.ep0 = s.ep0
          /\ t.stalls = s.stalls /\ t.mail = s.mail /\ t.armed = s.armed
          /\ t.halted = s.halted /\ t.open = s.open
      BY <2>1, <2>3, SettledFields
    <2> QED
      BY <1>1, <1>5, <2>2, <2>4 DEF Beside, t
  <1> QED
    BY <1>1, <1>2, <1>3, <1>4, <1>5

(*---------------------------------------------------------------------------*)
(* The invariant. *)
Knowable == States \cup {"nothing"}
Host == [phase : {"idle", "data", "status_in", "status_out"}, req : Requests \cup {NoRequest},
         got : Nat, inOrder : BOOLEAN, knows : Knowable]

UsbTypeOK == /\ build \in Builds /\ d \in Device /\ host \in Host
             /\ host.phase # "idle" => host.req \in Requests
             /\ host.phase = "data" => host.req.length > 0

\* The packet on its way is the next part of what was asked for, or the empty one
\* after the last, when that was full and more was asked for.
Chunk == /\ d.mail[1].at = d.at /\ d.mail[1].at = host.got /\ d.mail[1].n = Least(d.rem, MaxPacket)
         /\ d.dataLen = host.req.length
Extra == /\ d.mail[1].n = 0 /\ host.got = d.total /\ d.dataLen = 0 /\ d.rem <= MaxPacket
Midway == host.phase = "data" /\ d.mail # << >> =>
    /\ d.ep0 = "DATA_IN" /\ host.inOrder
    /\ d.total = Wanted(host.req) /\ d.total <= host.req.length
    /\ Multiple(d.at) /\ d.at + d.rem = d.total /\ (d.rem = 0 => d.total = 0)
    /\ Chunk \/ Extra
Ended == host.phase = "status_out" =>
    /\ host.got = Wanted(host.req) /\ host.inOrder /\ d.ep0 = "STATUS_OUT" /\ d.armed
    /\ ~Moves(host.req)

\* What the host is told of an endpoint.
Told == host.phase = "data" /\ host.req.to = "endpoint" /\ d.mail # << >> /\ Plain
        /\ host.req.index \in ClassEndpoints
          => (d.mail[1].what = "halted" <=> host.req.index \in d.halted)

\* The state is the one the host knows, unless the request that changes it was
\* obeyed and its status is on its way.
Obeyed == host.phase # "idle" /\ Moves(host.req) /\ d.mail # << >>
Knows == /\ ~Obeyed /\ host.knows # "nothing" => d.state = host.knows
         /\ Obeyed => d.state = Goal(host.req) /\ host.req.length = 0 /\ <<"IN", 0>> \notin d.halted
Heeded == host.phase \in {"data", "status_in"} /\ ~Ignored(d.state, host.req)
            => d.mail # << >> \/ <<"IN", 0>> \in d.halted

Inv == UsbTypeOK /\ Ready(d) /\ Midway /\ Ended /\ Told /\ Knows /\ Heeded

(*---------------------------------------------------------------------------*)
(* The invariant in the next state. *)

\* What depends on the build only, and on the request, is the same next.
LEMMA SameNext ==
    ASSUME build' = build, NEW e, NEW r, d' = e, host'.req = r
    PROVE  /\ Ready(d)' <=> Ready(e)
           /\ Plain' <=> Plain
           /\ ClassEndpoints' = ClassEndpoints
           /\ Wanted(host.req)' = Wanted(r)
           /\ Ignored(d.state, host.req)' <=> Ignored(e.state, r)
  <1>1. (Plain' <=> Plain) /\ ClassEndpoints' = ClassEndpoints
    BY DEF Plain, ClassEndpoints
  <1>2. Truthful(d)' <=> Truthful(e)
    BY <1>1 DEF Truthful
  <1>3. Opened(d)' <=> Opened(e)
    BY DEF Opened, Has
  <1>4. Ready(d)' <=> Ready(e)
    BY <1>2, <1>3 DEF Ready
  <1>5. Wanted(host.req)' = Wanted(r)
    BY DEF Wanted, Whole
  <1>6. Ignored(d.state, host.req)' <=> Ignored(e.state, r)
    BY DEF Ignored, Has
  <1> QED
    BY <1>1, <1>4, <1>5, <1>6

\* With no request in progress, only the state the host knows is of interest.
LEMMA IdleNext ==
    ASSUME build \in Builds, build' = build, d' \in Device, host' \in Host,
           host'.phase = "idle", NEW e, d' = e, Ready(e),
           host'.knows # "nothing" => d'.state = host'.knows
    PROVE  Inv'
  <1>1. UsbTypeOK' /\ Midway' /\ Ended' /\ Told' /\ Knows' /\ Heeded'
    BY DEF UsbTypeOK, Midway, Ended, Told, Knows, Obeyed, Heeded
  <1>2. PICK r : host'.req = r
    OBVIOUS
  <1>3. Ready(d)'
    BY <1>2, SameNext
  <1> QED
    BY <1>1, <1>3 DEF Inv

\* What the host holds, read back.
LEMMA HostFields ==
    ASSUME NEW h \in Host
    PROVE  /\ h.phase \in {"idle", "data", "status_in", "status_out"}
           /\ h.req \in Requests \cup {NoRequest} /\ h.got \in Nat /\ h.inOrder \in BOOLEAN
           /\ h.knows \in Knowable
  BY DEF Host

\* A host that starts over.
LEMMA FreshHost == Fresh \in Host /\ Fresh.phase = "idle" /\ Fresh.knows = "DEFAULT"
  BY DEF Fresh, Host, Knowable, States

\* A device that starts has nothing in the endpoint and no endpoint open.
LEMMA StartedDevice ==
    Started \in Device /\ Started.state = "DEFAULT" /\ Started.mail = << >>
  <1> DEFINE o == [ep \in Endpoints |-> Closed]
  <1>1. Closed \in Opening
    BY DEF Closed, Opening
  <1>2. o \in [Endpoints -> Opening]
    BY <1>1
  <1>3. << >> \in Mail /\ {} \in SUBSET Ends
    BY DEF Mail
  <1>4. Started = [on |-> TRUE, state |-> "DEFAULT", config |-> "0", wakeup |-> FALSE,
                   ep0 |-> "IDLE", total |-> 0, rem |-> 0, at |-> 0, dataLen |-> 0, stalls |-> {},
                   mail |-> << >>, armed |-> FALSE, halted |-> {}, open |-> o]
    BY DEF Started
  <1> HIDE DEF o
  <1> QED
    BY <1>2, <1>3, <1>4 DEF Device, States, Stages

\* The invariant holds at first.
LEMMA InitInv == Init => Inv
  <1> SUFFICES ASSUME Init PROVE Inv
    OBVIOUS
  <1>1. build \in Builds /\ d = Started /\ host = Fresh
    BY DEF Init
  <1>2. /\ d \in Device /\ d.state = "DEFAULT" /\ host \in Host /\ host.phase = "idle"
        /\ host.knows = "DEFAULT"
    BY <1>1, FreshHost, StartedDevice
  <1> QED
    BY <1>1, <1>2 DEF Inv, UsbTypeOK, Ready, Midway, Ended, Told, Knows, Obeyed, Heeded

(*---------------------------------------------------------------------------*)
(* The steps that end a request. *)

\* A reset, a start and a stop leave a device in its default state to a fresh host.
LEMMA RestartInv == ASSUME Inv, HostReset \/ Power \/ PowerOff PROVE Inv'
  <1>1. build \in Builds /\ d \in Device
    BY DEF Inv, UsbTypeOK
  <1>2. build' = build /\ host' = Fresh
    BY DEF HostReset, Power, PowerOff
  <1>3. d' \in Device /\ d'.state = "DEFAULT"
    <2>1. CASE HostReset
      <3> DEFINE o == [ep \in Endpoints |-> Closed]
      <3>1. Closed \in Opening
        BY DEF Closed, Opening
      <3>2. o \in [Endpoints -> Opening]
        BY <3>1
      <3>3. << >> \in Mail /\ {} \in SUBSET Ends
        BY DEF Mail
      <3>4. d' = [d EXCEPT !.state = "DEFAULT", !.mail = << >>, !.armed = FALSE, !.halted = {},
                           !.open = o]
        BY <2>1 DEF HostReset, LLReset
      <3> HIDE DEF o
      <3> QED
        BY <1>1, <3>2, <3>3, <3>4 DEF Device, States
    <2>2. CASE Power
      BY <2>2, StartedDevice DEF Power
    <2>3. CASE PowerOff
      <3> DEFINE s == Started
      <3>1. d' = [s EXCEPT !.on = FALSE, !.stalls = d.stalls]
        BY <2>3 DEF PowerOff
      <3>2. s \in Device /\ s.state = "DEFAULT"
        BY StartedDevice
      <3>3. d.stalls \in SUBSET Ends
        BY <1>1, Fields
      <3> HIDE DEF s
      <3> QED
        BY <3>1, <3>2, <3>3 DEF Device
    <2> QED
      BY <2>1, <2>2, <2>3
  <1>4. PICK e : d' = e
    OBVIOUS
  <1>5. Ready(e)
    BY <1>3, <1>4 DEF Ready
  <1>6. host' \in Host /\ host'.phase = "idle" /\ host'.knows = "DEFAULT"
    BY <1>2, FreshHost
  <1> QED
    BY <1>1, <1>2, <1>3, <1>4, <1>5, <1>6, IdleNext

\* The host is told of a refusal: the state has not changed.
LEMMA HostStalledInv == ASSUME Inv, HostStalled PROVE Inv'
  <1>1. build \in Builds /\ d \in Device /\ host \in Host /\ Ready(d)
    BY DEF Inv, UsbTypeOK
  <1>2. /\ build' = build /\ d' = d
        /\ host' = [host EXCEPT !.phase = "idle", !.req = NoRequest, !.got = 0]
    BY DEF HostStalled
  <1>3. host' \in Host /\ host'.phase = "idle" /\ host'.knows = host.knows
    BY <1>1, <1>2 DEF Host
  <1>4. host.knows # "nothing" => d.state = host.knows
    BY DEF HostStalled, Inv, Knows
  <1>5. PICK e : e = d
    OBVIOUS
  <1> QED
    BY <1>1, <1>2, <1>3, <1>4, <1>5, IdleNext

\* The end of a data stage: no such request changes the state.
LEMMA HostStatusOutInv == ASSUME Inv, HostStatusOut PROVE Inv'
  <1>1. build \in Builds /\ d \in Device /\ host \in Host /\ Ready(d)
    BY DEF Inv, UsbTypeOK
  <1>2. /\ build' = build /\ d' = [d EXCEPT !.armed = FALSE]
        /\ host' = [host EXCEPT !.phase = "idle", !.req = NoRequest, !.got = 0]
    BY DEF HostStatusOut
  <1>3. host' \in Host /\ host'.phase = "idle" /\ host'.knows = host.knows
    BY <1>1, <1>2 DEF Host
  <1>4. host.knows # "nothing" => d.state = host.knows
    BY DEF HostStatusOut, Inv, Ended, Knows, Obeyed
  <1>5. PICK e : e = d'
    OBVIOUS
  <1>6. /\ e \in Device /\ e.state = d.state /\ e.stalls = d.stalls /\ e.halted = d.halted
        /\ e.open = d.open
    BY <1>1, <1>2, <1>5 DEF Device
  <1>7. Ready(e)
    BY <1>1, <1>6, SameReady
  <1> QED
    BY <1>1, <1>2, <1>3, <1>4, <1>5, <1>6, <1>7, IdleNext

\* The end of a request without data: the host knows the state it asked for.
LEMMA HostStatusInInv == ASSUME Inv, HostStatusIn PROVE Inv'
  <1> DEFINE s == [d EXCEPT !.mail = << >>]
  <1>1. build \in Builds /\ d \in Device /\ host \in Host /\ Ready(d)
    BY DEF Inv, UsbTypeOK
  <1>2. /\ build' = build /\ d' = DataInStage(s) /\ d.mail # << >> /\ host.phase = "status_in"
        /\ host' = [host EXCEPT !.phase = "idle", !.req = NoRequest, !.knows = Reached(host.req)]
    BY DEF HostStatusIn
  <1>3. /\ s \in Device /\ s.state = d.state /\ s.stalls = d.stalls /\ s.halted = d.halted
        /\ s.open = d.open
    BY <1>1 DEF Device, Mail
  <1> HIDE DEF s
  <1>4. PICK e : e = DataInStage(s)
    OBVIOUS
  <1>5. /\ e \in Device /\ e.state = s.state /\ e.stalls = s.stalls /\ e.halted = s.halted
        /\ e.open = s.open
    BY <1>3, <1>4, DataInFields
  <1>6. Ready(e)
    BY <1>1, <1>3, <1>5, SameReady
  <1>7. Reached(host.req) \in Knowable
        /\ (Reached(host.req) # "nothing" => d.state = Reached(host.req))
    <2>1. CASE Moves(host.req)
      <3>1. Reached(host.req) = Goal(host.req) /\ Goal(host.req) \in States
        BY <2>1 DEF Moves, Reached, Goal, States
      <3>2. d.state = Goal(host.req)
        BY <1>2, <2>1 DEF Inv, Knows, Obeyed
      <3> QED
        BY <3>1, <3>2 DEF Knowable
    <2>2. CASE ~Moves(host.req)
      <3>1. Reached(host.req) = host.knows
        BY <2>2 DEF Moves, Reached
      <3> QED
        BY <1>1, <2>2, <3>1, HostFields DEF Inv, Knows, Obeyed
    <2> QED
      BY <2>1, <2>2
  <1>8. host' \in Host /\ host'.phase = "idle" /\ host'.knows = Reached(host.req)
    BY <1>1, <1>2, <1>7 DEF Host
  <1> QED
    BY <1>1, <1>2, <1>3, <1>4, <1>5, <1>6, <1>7, <1>8, IdleNext

(*---------------------------------------------------------------------------*)
(* The steps of a request. *)

\* A new request: what it makes of the device, and nothing of the one before.
LEMMA HostSetupInv == ASSUME Inv, NEW r \in Requests, HostSetup(r) PROVE Inv'
  <1> DEFINE s == [d EXCEPT !.mail = << >>, !.armed = FALSE, !.halted = d.halted \ Ep0]
  <1>1. build \in Builds /\ d \in Device /\ host \in Host /\ Ready(d)
    BY DEF Inv, UsbTypeOK
  <1>2. /\ build' = build
        /\ host' = [host EXCEPT !.phase = IF r.length > 0 THEN "data" ELSE "status_in",
                                !.req = r, !.got = 0, !.inOrder = TRUE,
                                !.knows = IF host.phase # "idle" /\ Moves(host.req)
                                          THEN "nothing" ELSE host.knows]
    BY <1>1 DEF HostSetup, Host
  <1>3. d' = SetupStage(s, r)
    BY <1>1 DEF HostSetup, Device
  <1>4. /\ s \in Device /\ s.mail = << >> /\ s.state = d.state /\ s.stalls = d.stalls
        /\ s.open = d.open /\ s.halted = d.halted \ Ep0
    <2>1. << >> \in Mail
      BY DEF Mail
    <2> QED
      BY <1>1, <2>1 DEF Device
  <1> HIDE DEF s
  <1>5. <<"IN", 0>> \notin s.halted
    BY <1>4 DEF Ep0
  <1>6. Ready(s)
    <2>1. \A ep \in ClassEndpoints : ep \in s.halted <=> ep \in d.halted
      BY <1>1, <1>4, ClassEndsOpen DEF Ep0
    <2> QED
      BY <1>1, <1>4, <2>1 DEF Ready, Truthful, Opened
  <1>7. PICK t : t = SetupStage(s, r)
    OBVIOUS
  <1>8. /\ t \in Device /\ Ready(t) /\ Answering(r, t) /\ Moving(s, r, t) /\ Telling(s, r, t)
        /\ Heard(s, r, t) /\ (t.ep0 = "DATA_IN" => t.dataLen = r.length)
    BY <1>1, <1>4, <1>5, <1>6, <1>7, SetupStageHandled
  <1>9. d' = t
    BY <1>3, <1>7
  <1>10. /\ host'.phase = IF r.length > 0 THEN "data" ELSE "status_in"
         /\ host'.req = r /\ host'.got = 0 /\ host'.inOrder
         /\ host'.knows = IF host.phase # "idle" /\ Moves(host.req) THEN "nothing" ELSE host.knows
         /\ host' \in Host
    BY <1>1, <1>2 DEF Host, Knowable
  <1>11. r.length \in Nat
    BY RequestsAssumption DEF Wellformed
  <1>12. /\ Ready(d)' /\ (Plain' <=> Plain) /\ ClassEndpoints' = ClassEndpoints
         /\ Wanted(host.req)' = Wanted(r)
         /\ (Ignored(d.state, host.req)' <=> Ignored(t.state, r))
    BY <1>2, <1>8, <1>9, <1>10, SameNext
  <1>13. UsbTypeOK'
    BY <1>1, <1>2, <1>8, <1>9, <1>10 DEF UsbTypeOK
  <1>14. Midway'
    <2>1. SUFFICES ASSUME host'.phase = "data", t.mail # << >>
                   PROVE  /\ t.ep0 = "DATA_IN" /\ t.total = Wanted(r) /\ t.total <= r.length
                          /\ Multiple(t.at) /\ t.at + t.rem = t.total /\ (t.rem = 0 => t.total = 0)
                          /\ t.mail[1].at = t.at /\ t.mail[1].at = 0
                          /\ t.mail[1].n = Least(t.rem, MaxPacket) /\ t.dataLen = r.length
      BY <1>9, <1>10, <1>12 DEF Midway, Chunk, Extra
    <2>2. Loaded(t, r)
      BY <1>8, <1>10, <2>1 DEF Answering
    <2>3. t.total \in Nat
      BY <1>8, Fields
    <2>4. t.total <= r.length
      BY <1>11, <2>2, <2>3 DEF Loaded, Wanted, Least
    <2> QED
      BY <1>8, <2>2, <2>3, <2>4, MultipleNext DEF Loaded
  <1>15. Ended'
    BY <1>10 DEF Ended
  <1>16. Told'
    <2>1. SUFFICES ASSUME host'.phase = "data", r.to = "endpoint", t.mail # << >>, Plain,
                          r.index \in ClassEndpoints
                   PROVE  t.mail[1].what = "halted" <=> r.index \in t.halted
      BY <1>9, <1>10, <1>12 DEF Told
    <2> QED
      BY <1>6, <1>8, <1>10, <1>11, <2>1 DEF Telling
  <1>17. Knows'
    <2>1. Obeyed' <=> Moves(r) /\ t.mail # << >>
      BY <1>9, <1>10 DEF Obeyed
    <2>2. Obeyed' => t.state = Goal(r) /\ r.length = 0 /\ <<"IN", 0>> \notin t.halted
      BY <1>8, <2>1 DEF Moving
    <2>3. ASSUME ~Obeyed', host'.knows # "nothing" PROVE t.state = host'.knows
      <3>1. t.state = d.state
        BY <1>4, <1>8, <2>1, <2>3 DEF Moving
      <3>2. host'.knows = host.knows /\ ~Obeyed
        BY <1>10, <2>3 DEF Obeyed
      <3> QED
        BY <2>3, <3>1, <3>2 DEF Inv, Knows
    <2> QED
      BY <1>9, <1>10, <2>2, <2>3 DEF Knows
  <1>18. Heeded'
    <2>1. SUFFICES ASSUME ~Ignored(t.state, r) PROVE t.mail # << >> \/ <<"IN", 0>> \in t.halted
      BY <1>9, <1>12 DEF Heeded
    <2>2. t.mail = << >> => t.state = s.state
      BY <1>8 DEF Moving
    <2> QED
      BY <1>8, <2>1, <2>2 DEF Heard
  <1> QED
    BY <1>12, <1>13, <1>14, <1>15, <1>16, <1>17, <1>18 DEF Inv

\* A packet read: the next one follows, the empty one, or the status.
LEMMA HostInInv == ASSUME Inv, HostIn PROVE Inv'
  <1> DEFINE e == [d EXCEPT !.mail = << >>]
             r == host.req
             p == d.mail[1]
             inOrder == host.inOrder /\ (p.n > 0 => p.at = host.got)
             phase == IF p.n < MaxPacket \/ host.got + p.n >= r.length THEN "status_out" ELSE "data"
             last == e.total % MaxPacket = 0 /\ e.total >= MaxPacket /\ e.total < e.dataLen
  <1>1. build \in Builds /\ d \in Device /\ host \in Host /\ Ready(d)
    BY DEF Inv, UsbTypeOK
  <1>2. /\ build' = build /\ d' = DataInStage(e) /\ d.mail # << >> /\ host.phase = "data"
        /\ host' = [host EXCEPT !.got = host.got + p.n, !.inOrder = inOrder, !.phase = phase]
    BY <1>1 DEF HostIn, Host
  <1>3. /\ e \in Device /\ e.state = d.state /\ e.stalls = d.stalls /\ e.halted = d.halted
        /\ e.open = d.open /\ e.ep0 = d.ep0 /\ e.total = d.total /\ e.rem = d.rem /\ e.at = d.at
        /\ e.dataLen = d.dataLen /\ e.mail = << >>
    BY <1>1 DEF Device, Mail
  <1>4. p \in Packet /\ p.n \in Nat
    <2>1. p \in Packet
      BY <1>1, <1>2, Fields DEF Mail
    <2> QED
      BY <2>1 DEF Packet
  <1>5. /\ MaxPacket \in Nat /\ MaxPacket >= 8 /\ d.rem \in Nat /\ d.at \in Nat /\ d.total \in Nat
        /\ d.dataLen \in Nat /\ host.got \in Nat
    BY <1>1, SizesAssumption, Fields, HostFields
  <1>6. r \in Requests /\ r.length \in Nat /\ r.length > 0
    <2>1. r \in Requests /\ r.length > 0
      BY <1>2 DEF Inv, UsbTypeOK
    <2> QED
      BY <2>1, RequestsAssumption DEF Wellformed
  <1>7. /\ d.ep0 = "DATA_IN" /\ host.inOrder /\ d.total = Wanted(r) /\ d.total <= r.length
        /\ Multiple(d.at) /\ d.at + d.rem = d.total /\ (d.rem = 0 => d.total = 0)
        /\ Chunk \/ Extra
    BY <1>2 DEF Inv, Midway
  <1>8. ~Moves(r) /\ (host.knows # "nothing" => d.state = host.knows)
    BY <1>2, <1>6 DEF Inv, Knows, Obeyed
  <1>9. /\ host'.got = host.got + p.n /\ host'.req = r /\ host'.knows = host.knows
        /\ (p.n > 0 => p.at = host.got) => host'.inOrder
        /\ host'.phase = IF p.n < MaxPacket \/ host.got + p.n >= r.length
                         THEN "status_out" ELSE "data"
        /\ host' \in Host
    <2>1. inOrder \in BOOLEAN /\ phase \in {"data", "status_out"} /\ host.got + p.n \in Nat
      BY <1>4, <1>5
    <2>2. (p.n > 0 => p.at = host.got) => inOrder = TRUE
      BY <1>7
    <2>3. phase = IF p.n < MaxPacket \/ host.got + p.n >= r.length THEN "status_out" ELSE "data"
      OBVIOUS
    <2> HIDE DEF inOrder, phase
    <2>4. /\ host'.got = host.got + p.n /\ host'.req = r /\ host'.knows = host.knows
          /\ host'.inOrder = inOrder /\ host'.phase = phase /\ host' \in Host
      BY <1>1, <1>2, <2>1 DEF Host
    <2> QED
      BY <2>2, <2>3, <2>4
  <1>11. PICK t : t = DataInStage(e)
    OBVIOUS
  <1>12. PICK q : q = r
    OBVIOUS
  <1> HIDE DEF e, p
  <1>13. /\ t \in Device /\ t.state = d.state /\ t.stalls = d.stalls /\ t.halted = d.halted
         /\ t.open = d.open
    BY <1>3, <1>11, DataInFields
  <1>14. Ready(t)
    BY <1>1, <1>13, SameReady
  <1>15. d' = t
    BY <1>2, <1>11
  <1>16. /\ Ready(d)' /\ (Plain' <=> Plain) /\ ClassEndpoints' = ClassEndpoints
         /\ Wanted(host.req)' = Wanted(q)
    BY <1>2, <1>9, <1>12, <1>14, <1>15, SameNext
  <1>17. UsbTypeOK'
    BY <1>1, <1>2, <1>6, <1>9, <1>13, <1>15 DEF UsbTypeOK
  <1>18. Knows'
    BY <1>8, <1>9, <1>13, <1>15 DEF Knows, Obeyed
  <1>19. ASSUME r.to = "endpoint" PROVE d.total < MaxPacket
    <2>1. r.length = 2
      BY <1>6, <1>19, RequestsAssumption DEF Wellformed
    <2> QED
      BY <1>5, <1>7, <2>1
  <1>20. CASE d.rem > MaxPacket
    <2>1. Chunk
      BY <1>5, <1>7, <1>20 DEF Extra
    <2>2. p.n = MaxPacket /\ p.at = d.at /\ host.got = d.at /\ d.dataLen = r.length
      BY <1>5, <1>20, <2>1 DEF Chunk, Least, p
    <2>3. host'.phase = "data" /\ host'.inOrder /\ host'.got = d.at + MaxPacket
      BY <1>5, <1>6, <1>7, <1>9, <1>20, <2>2
    <2>4. /\ t.ep0 = "DATA_IN" /\ t.total = d.total /\ t.dataLen = d.dataLen
          /\ t.rem = d.rem - MaxPacket /\ t.at = d.at + MaxPacket
          /\ t.mail # << >> /\ t.mail[1].at = t.at /\ t.mail[1].n = Least(t.rem, MaxPacket)
      BY <1>3, <1>7, <1>11, <1>20, DataInFields
    <2>5. Multiple(t.at) /\ t.at + t.rem = t.total /\ t.rem # 0
      <3>1. Multiple(d.at + MaxPacket)
        BY <1>5, <1>7, MultipleNext
      <3>2. t.at + t.rem = t.total /\ t.rem # 0
        BY <1>5, <1>7, <1>20, <2>4
      <3> QED
        BY <2>4, <3>1, <3>2
    <2>6. Midway'
      BY <1>7, <1>9, <1>12, <1>15, <1>16, <2>2, <2>3, <2>4, <2>5 DEF Midway, Chunk
    <2>7. Told'
      BY <1>5, <1>7, <1>9, <1>19, <1>20 DEF Told
    <2>8. Ended' /\ Heeded'
      BY <1>15, <2>3, <2>4 DEF Ended, Heeded
    <2> QED
      BY <1>16, <1>17, <1>18, <2>6, <2>7, <2>8 DEF Inv
  <1>21. CASE d.rem <= MaxPacket /\ last
    <2>1. /\ d.total % MaxPacket = 0 /\ d.total >= MaxPacket /\ d.total < d.dataLen
      BY <1>3, <1>21
    <2>2. Chunk
      BY <1>5, <1>7, <2>1 DEF Extra
    <2>3. p.n = d.rem /\ p.at = d.at /\ host.got = d.at /\ d.dataLen = r.length
      BY <1>5, <1>21, <2>2 DEF Chunk, Least, p
    <2>4. d.rem = MaxPacket
      BY <1>5, <1>7, <1>21, <2>1, LastFull
    <2>5. host'.phase = "data" /\ host'.inOrder /\ host'.got = d.total
      BY <1>5, <1>6, <1>7, <1>9, <2>1, <2>3, <2>4
    <2>6. /\ t.ep0 = "DATA_IN" /\ t.total = d.total /\ t.dataLen = 0 /\ t.rem = d.rem
          /\ t.at = d.at /\ t.mail # << >> /\ t.mail[1].n = 0
      BY <1>3, <1>7, <1>11, <1>21, DataInFields
    <2>7. Midway'
      BY <1>7, <1>9, <1>12, <1>15, <1>16, <1>21, <2>5, <2>6 DEF Midway, Extra
    <2>8. Told'
      BY <1>5, <1>9, <1>19, <2>1 DEF Told
    <2>9. Ended' /\ Heeded'
      BY <1>15, <2>5, <2>6 DEF Ended, Heeded
    <2> QED
      BY <1>16, <1>17, <1>18, <2>7, <2>8, <2>9 DEF Inv
  <1>22. CASE d.rem <= MaxPacket /\ ~last
    <2>1. t.ep0 = "STATUS_OUT" /\ t.armed /\ t.mail = << >>
      BY <1>3, <1>7, <1>11, <1>22, DataInFields
    <2>2. host'.phase = "status_out" /\ host'.inOrder /\ host'.got = d.total
      <3>1. CASE Extra
        <4>1. p.n = 0 /\ host.got = d.total
          BY <3>1 DEF Extra, p
        <4> QED
          BY <1>5, <1>7, <1>9, <4>1
      <3>2. CASE Chunk
        <4>1. p.n = d.rem /\ p.at = d.at /\ host.got = d.at /\ d.dataLen = r.length
          BY <1>5, <1>22, <3>2 DEF Chunk, Least, p
        <4>2. host'.inOrder /\ host'.got = d.total
          BY <1>5, <1>7, <1>9, <4>1
        <4>3. p.n < MaxPacket \/ host.got + p.n >= r.length
          <5>1. ASSUME ~(p.n < MaxPacket), ~(host.got + p.n >= r.length) PROVE FALSE
            <6>1. d.rem = MaxPacket /\ d.total >= MaxPacket /\ d.total < d.dataLen
              BY <1>5, <1>6, <1>7, <1>22, <4>1, <5>1
            <6>2. d.total % MaxPacket = 0
              BY <1>5, <1>7, <6>1, LastFull
            <6> QED
              BY <1>3, <1>22, <6>1, <6>2
          <5> QED
            BY <5>1
        <4> QED
          BY <1>9, <4>2, <4>3
      <3> QED
        BY <1>7, <3>1, <3>2
    <2>3. Midway' /\ Told' /\ Heeded'
      BY <2>2 DEF Midway, Told, Heeded
    <2>4. Ended'
      BY <1>7, <1>8, <1>9, <1>12, <1>15, <1>16, <2>1, <2>2 DEF Ended
    <2> QED
      BY <1>16, <1>17, <1>18, <2>3, <2>4 DEF Inv
  <1> QED
    BY <1>5, <1>20, <1>21, <1>22

(*---------------------------------------------------------------------------*)
(* The endpoints a configuration describes. *)

\* The elements of two sequences joined.
LEMMA Joined ==
    ASSUME NEW S, NEW s \in Seq(S), NEW t \in Seq(S)
    PROVE  s \o t \in Seq(S) /\ Range(s \o t) = Range(s) \cup Range(t)
  <1>1. s \o t \in Seq(S)
    OBVIOUS
  <1>2. ASSUME NEW x \in Range(s \o t) PROVE x \in Range(s) \cup Range(t)
    <2>1. PICK i \in 1 .. Len(s) + Len(t) : x = (s \o t)[i]
      BY <1>2 DEF Range
    <2>2. CASE i <= Len(s)
      BY <2>1, <2>2 DEF Range
    <2>3. CASE i > Len(s)
      <3>1. i - Len(s) \in 1 .. Len(t) /\ x = t[i - Len(s)]
        BY <2>1, <2>3
      <3> QED
        BY <3>1 DEF Range
    <2> QED
      BY <2>1, <2>2, <2>3
  <1>3. ASSUME NEW x \in Range(s) PROVE x \in Range(s \o t)
    <2>1. PICK i \in 1 .. Len(s) : x = s[i]
      BY <1>3 DEF Range
    <2>2. i \in 1 .. Len(s \o t) /\ (s \o t)[i] = x
      BY <2>1
    <2> QED
      BY <1>1, <2>2 DEF Range
  <1>4. ASSUME NEW x \in Range(t) PROVE x \in Range(s \o t)
    <2>1. PICK i \in 1 .. Len(t) : x = t[i]
      BY <1>4 DEF Range
    <2>2. i + Len(s) \in 1 .. Len(s \o t) /\ (s \o t)[i + Len(s)] = x
      BY <2>1
    <2> QED
      BY <1>1, <2>2 DEF Range
  <1> QED
    BY <1>1, <1>2, <1>3, <1>4

\* The elements of the sequences a configuration is put together from.
LEMMA Elements ==
    /\ << >> \in Seq({}) /\ Range(<< >>) = {}
    /\ \A x : <<x>> \in Seq({x}) /\ Range(<<x>>) = {x}
    /\ \A x, y, z : <<x, y, z>> \in Seq({x, y, z}) /\ Range(<<x, y, z>>) = {x, y, z}
    /\ \A x, y, z, w : <<x, y, z, w>> \in Seq({x, y, z, w}) /\ Range(<<x, y, z, w>>) = {x, y, z, w}
  <1>1. << >> \in Seq({}) /\ Range(<< >>) = {}
    BY DEF Range
  <1>2. ASSUME NEW x PROVE <<x>> \in Seq({x}) /\ Range(<<x>>) = {x}
    BY DEF Range
  <1>3. ASSUME NEW x, NEW y, NEW z PROVE <<x, y, z>> \in Seq({x, y, z}) /\ Range(<<x, y, z>>) = {x, y, z}
    BY DEF Range
  <1>4. ASSUME NEW x, NEW y, NEW z, NEW w
        PROVE <<x, y, z, w>> \in Seq({x, y, z, w}) /\ Range(<<x, y, z, w>>) = {x, y, z, w}
    BY DEF Range
  <1> QED
    BY <1>1, <1>2, <1>3, <1>4

\* A part that describes the endpoint of a class.
Describes(p, class) == /\ p.at \in EndpointsOf(class) /\ p.kind = TypeOf[class]
                       /\ p.size = IF class = "HID" /\ build.kbd THEN 8 ELSE EpSize

\* The endpoints of a class, as the functions of usbd_impl.c describe them.
LEMMA BlockDescribes ==
    /\ \A class \in {"HID", "U2F"} :
          /\ \E S : HidBlock(build, class) \in Seq(S)
          /\ \A p \in Range(HidBlock(build, class)) : p.type = "endpoint" => Describes(p, class)
    /\ \E S : CcidBlock(build) \in Seq(S)
    /\ \A p \in Range(CcidBlock(build)) : p.type = "endpoint" => Describes(p, "CCID")
    /\ \E S : WebUsbBlock(build) \in Seq(S)
    /\ \A p \in Range(WebUsbBlock(build)) : p.type = "endpoint" => Describes(p, "WEBUSB")
  <1>1. \A class, n : Interface(build, class, n).type = "interface"
    BY DEF Interface
  <1>2. CcidPart.type = "ccid" /\ \A class : HidPart(build, class).type = "hid"
    BY DEF CcidPart, HidPart
  <1>3. \A class, n : \A dir \in {"IN", "OUT"} :
            /\ Endpoint(dir, class, n).at = <<dir, NumberOf[class]>>
            /\ Endpoint(dir, class, n).kind = TypeOf[class] /\ Endpoint(dir, class, n).size = n
    BY DEF Endpoint
  <1>4. ASSUME NEW class, NEW n, NEW dir \in {"IN", "OUT"}
        PROVE  Endpoint(dir, class, n).at \in EndpointsOf(class)
    <2>1. <<dir, NumberOf[class]>> \in EndpointsOf(class)
      BY DEF EndpointsOf
    <2> QED
      BY <1>3, <2>1
  <1>5. ASSUME NEW class \in {"HID", "U2F"}
        PROVE  /\ \E S : HidBlock(build, class) \in Seq(S)
               /\ \A p \in Range(HidBlock(build, class)) : p.type = "endpoint" => Describes(p, class)
    <2> DEFINE n == IF class = "HID" /\ build.kbd THEN 8 ELSE EpSize
    <2>1. HidBlock(build, class) = <<Interface(build, class, StringIndex.PRODUCT), HidPart(build, class),
                                     Endpoint("IN", class, n), Endpoint("OUT", class, n)>>
      BY DEF HidBlock
    <2>2. ASSUME NEW dir \in {"IN", "OUT"} PROVE Describes(Endpoint(dir, class, n), class)
      BY <1>3, <1>4 DEF Describes
    <2> HIDE DEF n
    <2> QED
      BY <1>1, <1>2, <2>1, <2>2, Elements
  <1>6. ASSUME NEW class \in {"CCID", "WEBUSB"}, NEW dir \in {"IN", "OUT"}
        PROVE  Describes(Endpoint(dir, class, EpSize), class)
    BY <1>3, <1>4 DEF Describes
  <1>7. /\ \E S : CcidBlock(build) \in Seq(S)
        /\ \A p \in Range(CcidBlock(build)) : p.type = "endpoint" => Describes(p, "CCID")
    <2>1. CcidBlock(build) = <<Interface(build, "CCID", 5), CcidPart,
                               Endpoint("IN", "CCID", EpSize), Endpoint("OUT", "CCID", EpSize)>>
      BY DEF CcidBlock
    <2>2. ASSUME NEW dir \in {"IN", "OUT"} PROVE Describes(Endpoint(dir, "CCID", EpSize), "CCID")
      BY <1>6
    <2> QED
      BY <1>1, <1>2, <2>1, <2>2, Elements
  <1>8. /\ \E S : WebUsbBlock(build) \in Seq(S)
        /\ \A p \in Range(WebUsbBlock(build)) : p.type = "endpoint" => Describes(p, "WEBUSB")
    <2>1. WebUsbBlock(build) = <<Interface(build, "WEBUSB", StringIndex.PRODUCT),
                                 Endpoint("IN", "WEBUSB", EpSize), Endpoint("OUT", "WEBUSB", EpSize)>>
      BY DEF WebUsbBlock
    <2>2. ASSUME NEW dir \in {"IN", "OUT"} PROVE Describes(Endpoint(dir, "WEBUSB", EpSize), "WEBUSB")
      BY <1>6
    <2> QED
      BY <1>1, <1>2, <2>1, <2>2, Elements, SMTT(60)
  <1> QED
    BY <1>5, <1>7, <1>8

\* An endpoint of the configuration is one of a class of the build.
LEMMA PartDescribes ==
    ASSUME build \in Builds, NEW p \in PartsOf(build, "endpoint")
    PROVE  \E class \in Classes(build) : Describes(p, class)
  <1> DEFINE head == <<Header(build)>>
             hid == HidBlock(build, "HID")
             u2f == IF "U2F" \in Classes(build) THEN HidBlock(build, "U2F") ELSE << >>
             ccid == IF "CCID" \in Classes(build) THEN CcidBlock(build) ELSE << >>
             web == IF "WEBUSB" \in Classes(build) THEN WebUsbBlock(build) ELSE << >>
  <1>1. CfgDesc(build) = head \o hid \o u2f \o ccid \o web
    BY DEF CfgDesc
  <1>2. "HID" \in Classes(build)
    BY BuildsAssumption
  <1>3. Header(build).type = "config"
    BY DEF Header
  <1>4. \A x \in Range(head) : x.type # "endpoint"
    BY <1>3, Elements
  <1>5. \A x \in Range(hid) : x.type = "endpoint" => \E class \in Classes(build) : Describes(x, class)
    BY <1>2, BlockDescribes
  <1>6. \A x \in Range(u2f) : x.type = "endpoint" => \E class \in Classes(build) : Describes(x, class)
    BY BlockDescribes, Elements
  <1>7. \A x \in Range(ccid) : x.type = "endpoint" => \E class \in Classes(build) : Describes(x, class)
    BY BlockDescribes, Elements
  <1>8. \A x \in Range(web) : x.type = "endpoint" => \E class \in Classes(build) : Describes(x, class)
    BY BlockDescribes, Elements
  <1>9. /\ \E S : head \in Seq(S)
        /\ \E S : hid \in Seq(S)
        /\ \E S : u2f \in Seq(S)
        /\ \E S : ccid \in Seq(S)
        /\ \E S : web \in Seq(S)
    BY BlockDescribes, Elements
  <1> HIDE DEF head, hid, u2f, ccid, web
  <1>10. PICK S1, S2, S3, S4, S5 : /\ head \in Seq(S1) /\ hid \in Seq(S2) /\ u2f \in Seq(S3)
                                   /\ ccid \in Seq(S4) /\ web \in Seq(S5)
    BY <1>9
  <1> DEFINE S == S1 \cup S2 \cup S3 \cup S4 \cup S5
  <1>11. /\ head \in Seq(S) /\ hid \in Seq(S) /\ u2f \in Seq(S) /\ ccid \in Seq(S)
         /\ web \in Seq(S)
    BY <1>10
  <1> HIDE DEF S
  <1>12. Range(CfgDesc(build)) = Range(head) \cup Range(hid) \cup Range(u2f) \cup Range(ccid) \cup Range(web)
    <2> DEFINE s2 == head \o hid
               s3 == s2 \o u2f
               s4 == s3 \o ccid
    <2>1. CfgDesc(build) = s4 \o web
      BY <1>1
    <2>2. s2 \in Seq(S) /\ Range(s2) = Range(head) \cup Range(hid)
      BY <1>11, Joined
    <2> HIDE DEF s2
    <2>3. s3 \in Seq(S) /\ Range(s3) = Range(s2) \cup Range(u2f)
      BY <1>11, <2>2, Joined
    <2> HIDE DEF s3
    <2>4. s4 \in Seq(S) /\ Range(s4) = Range(s3) \cup Range(ccid)
      BY <1>11, <2>3, Joined
    <2> HIDE DEF s4
    <2>5. Range(s4 \o web) = Range(s4) \cup Range(web)
      BY <1>11, <2>4, Joined
    <2> QED
      BY <2>1, <2>2, <2>3, <2>4, <2>5
  <1>13. p \in Range(CfgDesc(build)) /\ p.type = "endpoint"
    BY DEF PartsOf
  <1> QED
    BY <1>4, <1>5, <1>6, <1>7, <1>8, <1>12, <1>13

(*---------------------------------------------------------------------------*)
(* The theorems. *)

\* Every step keeps the invariant.
LEMMA NextInv == Inv /\ [Next]_vars => Inv'
  <1> SUFFICES ASSUME Inv, [Next]_vars PROVE Inv'
    OBVIOUS
  <1>1. ASSUME NEW r \in Requests, HostSetup(r) PROVE Inv'
    BY <1>1, HostSetupInv
  <1>2. CASE HostIn
    BY <1>2, HostInInv
  <1>3. CASE HostStatusOut
    BY <1>3, HostStatusOutInv
  <1>4. CASE HostStatusIn
    BY <1>4, HostStatusInInv
  <1>5. CASE HostStalled
    BY <1>5, HostStalledInv
  <1>6. CASE HostReset \/ Power \/ PowerOff
    BY <1>6, RestartInv
  <1>7. CASE UNCHANGED vars
    <2>1. build' = build /\ d' = d /\ host' = host
      BY <1>7 DEF vars
    <2>2. PICK e, r : e = d /\ r = host.req
      OBVIOUS
    <2>3. /\ (Ready(d)' <=> Ready(d)) /\ (Plain' <=> Plain) /\ ClassEndpoints' = ClassEndpoints
          /\ Wanted(host.req)' = Wanted(host.req)
          /\ (Ignored(d.state, host.req)' <=> Ignored(d.state, host.req))
      BY <2>1, <2>2, SameNext
    <2>4. UsbTypeOK' /\ Midway' /\ Ended' /\ Knows'
      BY <2>1, <2>3 DEF Inv, UsbTypeOK, Midway, Chunk, Extra, Ended, Knows, Obeyed
    <2>5. Told' /\ Heeded'
      BY <2>1, <2>3 DEF Inv, Told, Heeded
    <2> QED
      BY <2>3, <2>4, <2>5 DEF Inv
  <1> QED
    BY <1>1, <1>2, <1>3, <1>4, <1>5, <1>6, <1>7 DEF Next

\* The invariant holds in every state, for every build, every set of requests and every size.
THEOREM Invariant == Spec => []Inv
  BY InitInv, NextInv, PTL DEF Spec

\* What the host is told of the halt of an endpoint, from what the SDK keeps, is
\* what the MCU has (USBD_LL_StallEP, USBD_LL_OpenEP, USBD_LL_IsStallEP).
THEOREM HaltsReported == Spec => []HaltReported
  <1>1. Inv => HaltReported
    BY DEF Inv, Told, Plain, HaltReported
  <1> QED
    BY <1>1, Invariant, PTL

\* A host that ended its data stage has all it asked for or all there is, in order,
\* and the device is at the status stage (USBD_LL_DataInStage, USBD_CtlSendData).
THEOREM DataStageExact == Spec => []DataExact
  <1>1. Inv => DataExact
    BY DEF Inv, Ended, Wanted, DataExact
  <1> QED
    BY <1>1, Invariant, PTL

\* A request a host needs is answered or refused (USBD_LL_SetupStage).
THEOREM OthersAnsweredAlways == Spec => []OthersAnswered
  <1>1. Inv => OthersAnswered
    BY DEF Inv, Heeded, OthersAnswered
  <1> QED
    BY <1>1, Invariant, PTL

\* A configured device has open what it describes.
LEMMA OpenAsDescribed ==
    ASSUME Inv, d.state = "CONFIGURED", NEW p \in PartsOf(build, "endpoint")
    PROVE  /\ d.open[p.at] # Closed
           /\ p.at # <<"OUT", 2>> \/ ~Has("CCID") => d.open[p.at].kind = p.kind
           /\ p.at[2] # NumberOf.HID \/ ~build.kbd => d.open[p.at].size = p.size
  <1>1. build \in Builds /\ Opened(d)
    BY DEF Inv, UsbTypeOK, Ready
  <1>2. PICK class \in Classes(build) : Describes(p, class)
    BY <1>1, PartDescribes
  <1>3. /\ p.at \in EndpointsOf(class) /\ p.kind = TypeOf[class]
        /\ p.size = IF class = "HID" /\ build.kbd THEN 8 ELSE EpSize
    BY <1>2 DEF Describes
  <1>4. /\ d.open[p.at].kind \in {"INTR", "BULK"} /\ d.open[p.at].size = EpSize
        /\ (p.at = <<"OUT", 2>> /\ Has("CCID")) \/ d.open[p.at].kind = TypeOf[class]
    BY <1>1, <1>3 DEF Opened
  <1>5. d.open[p.at] # Closed
    BY <1>4 DEF Closed
  <1>6. class = "HID" => p.at[2] = NumberOf.HID
    BY <1>3 DEF EndpointsOf, NumberOf
  <1> QED
    BY <1>3, <1>4, <1>5, <1>6

\* The state of the device is the one a host that ended its requests knows, and a
\* configured device has open the endpoints it describes, in builds whose
\* descriptors can be followed (USBD_SetAddress, USBD_SetConfig, USBD_LL_Reset,
\* USB_power, USBD_CfgDesc).
THEOREM StatesKept ==
    ASSUME \A b \in Builds : Readable(b, Builds)
    PROVE  Spec => []StatesAgree
  <1>1. ASSUME Inv PROVE StatesAgree
    <2>1. host.phase = "idle" /\ host.knows # "nothing" => d.state = host.knows
      BY <1>1 DEF Inv, Knows, Obeyed
    <2>2. Readable(build, Builds)
      BY <1>1 DEF Inv, UsbTypeOK
    <2> QED
      BY <1>1, <2>1, <2>2, OpenAsDescribed DEF StatesAgree
  <1> QED
    BY <1>1, Invariant, PTL
================================================================================
