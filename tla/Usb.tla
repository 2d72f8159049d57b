----------------------------------- MODULE Usb -----------------------------------
(* The USB device core: the states of a device, the standard requests, the      *)
(* control endpoint that carries them, and the classes of the SDK as far as     *)
(* they answer requests.  What the secure element keeps of the endpoints, and   *)
(* what the MCU, which runs them, was told, are both in d.  The host sends its  *)
(* requests in any order and may drop one for the next.  It resets the bus      *)
(* before anything else, so the speed is full, never the high one of a zeroed   *)
(* handle.                                                                      *)
EXTENDS Descriptors

CONSTANTS
    MaxPacket,    \* USB_MAX_EP0_SIZE
    MaxEndpoint,  \* IO_USB_MAX_ENDPOINTS
    Builds,       \* the builds of the SDK, see Descriptors
    Requests      \* [to, type, name, value, index, length], as the host sends them

Endpoints == {"IN", "OUT"} \X (0 .. MaxEndpoint)
Ep0 == {<<"IN", 0>>, <<"OUT", 0>>}

(* A packet of endpoint 0 holds eight bytes at least, in any device; the classes  *)
(* use three endpoints.                                                          *)
ASSUME SizesAssumption == MaxPacket \in Nat /\ MaxPacket >= 8 /\ MaxEndpoint \in Nat /\ MaxEndpoint >= 3
(* A build has the HID class, gives the CCID class interface 2 and does not have *)
(* CCID and WebUSB together, whose endpoints have the same number.  Whatever it  *)
(* describes has a length.                                                       *)
ASSUME BuildsAssumption == \A b \in Builds :
    /\ \A i \in DOMAIN b.itf : /\ i \in 0 .. 3 /\ b.itf[i] \in {"HID", "U2F", "WEBUSB", "CCID"}
                               /\ b.itf[i] = "CCID" => i = 2
    /\ "HID" \in Classes(b) /\ ~{"CCID", "WEBUSB"} \subseteq Classes(b)
    /\ \A v \in DOMAIN Lengths(b) : Lengths(b)[v] \in Nat \ {0}
    /\ \A v \in DOMAIN PlatformLengths(b) : PlatformLengths(b)[v] \in Nat \ {0}
    /\ \A c \in Classes(b) : ReportLen(ReportOf(b, c)) \in Nat \ {0}

(* A request as the USB specification has it (table 9-3) and the classes: the   *)
(* host sends no data to the control endpoint, for no request of the SDK takes  *)
(* any (USBD_CtlPrepareRx is not called); a status has two bytes; descriptors   *)
(* are named in requests for one; features are those of a device or the halt of *)
(* an endpoint.  Of a vendor request, name is its code and value its index; to  *)
(* an interface, that index is above any interface.                             *)
DescriptorNames ==
    {"DEVICE", "CONFIG", "QUALIFIER", "HID", "REPORT", "BOS", "MSFT100", "WCID", "GUID",
     "MSOS20", "URL"} \cup DOMAIN StringIndex
Wellformed(r) ==
    /\ r.length \in Nat
    /\ r.name \in {"SET_CONFIGURATION", "SET_FEATURE", "CLEAR_FEATURE", "SET_INTERFACE",
                   "SET_IDLE", "SET_PROTOCOL"} => r.length = 0
    /\ r.name = "GET_STATUS" => r.length = 2
    /\ r.value \in DescriptorNames => r.name \in {"GET_DESCRIPTOR", "WINUSB", "WEBUSB"}
    /\ r.name \in {"SET_ADDRESS", "SET_CONFIGURATION"} => r.to = "device"
    /\ \/ /\ r.to = "device" /\ r.index = 0
          /\ r.name \in {"SET_FEATURE", "CLEAR_FEATURE"} => r.value \in {"WAKEUP", "TEST_MODE"}
          /\ r.name = "CLEAR_FEATURE" => r.value = "WAKEUP"
       \/ /\ r.to = "interface" /\ r.index \in Nat
          /\ \/ /\ r.type = "std"
                /\ r.name \in {"GET_DESCRIPTOR", "GET_STATUS", "GET_INTERFACE", "SET_INTERFACE"}
                /\ r.name = "GET_DESCRIPTOR" => r.value \in {"HID", "REPORT"}
             \/ r.type = "class" /\ r.name # "GET_STATUS"
             \/ r.type = "vendor" /\ r.index > 3
       \/ /\ r.to = "endpoint" /\ r.type = "std" /\ r.index \in {"IN", "OUT"} \X Nat
          /\ \/ r.name = "GET_STATUS"
             \/ r.name \in {"SET_FEATURE", "CLEAR_FEATURE"} /\ r.value = "HALT"
       \/ r.to = "other"
ASSUME RequestsAssumption == \A r \in Requests : Wellformed(r)

VARIABLES build, \* chosen at build time
          d,     \* USBD_Device, the stall bits of usbd_conf.c and the endpoints of the MCU
          host   \* the request of the host
vars == <<build, d, host>>

Least(a, b) == IF a < b THEN a ELSE b
Has(class) == class \in Classes(build)

(*---------------------------------------------------------------------------*)
(* Endpoints.                                                                 *)
Closed == [kind |-> "closed", size |-> 0]
(* Opening any endpoint forgets all that are stalled. *)
OpenEPs(e, eps, types, size) ==
    [e EXCEPT !.stalls = {}, !.halted = @ \ eps,
              !.open = [ep \in Endpoints |-> IF ep \in eps THEN [kind |-> types[ep], size |-> size]
                                             ELSE @[ep]]]
OpenEP(e, eps, type, size) == OpenEPs(e, eps, [ep \in eps |-> type], size)

StallEP(e, ep) == [e EXCEPT !.stalls = @ \cup {ep}, !.halted = @ \cup {ep}]
(* mutant: the mask of the cleared bit is not inverted *)
ClearStallEPOthers(e, ep) == [e EXCEPT !.stalls = @ \cap {ep}, !.halted = @ \ {ep}]
ClearStallEP(e, ep) == [e EXCEPT !.stalls = @ \ {ep}, !.halted = @ \ {ep}]

Transmit(e, what, at, n) == [e EXCEPT !.mail = <<[what |-> what, at |-> at, n |-> n]>>]

CtlSendData(e, what, len) ==
    Transmit([e EXCEPT !.ep0 = "DATA_IN", !.total = len, !.rem = len, !.at = 0],
             what, 0, Least(len, MaxPacket))
CtlSendStatus(e) == Transmit([e EXCEPT !.ep0 = "STATUS_IN"], "nothing", 0, 0)
CtlReceiveStatus(e) == [e EXCEPT !.ep0 = "STATUS_OUT", !.armed = TRUE]

CtlStall(e) == StallEP(StallEP(e, <<"IN", 0>>), <<"OUT", 0>>)

(* With WebUSB, the browser asks for the page of the device and Windows for its  *)
(* own descriptors: these requests come here.                                    *)
Platform(r) ==
    \/ r.type = "vendor" /\ r.name = "WEBUSB" /\ r.value = "URL" /\ build.url > 0
    \/ r.type = "vendor" /\ r.name = "WINUSB" /\ r.value \in {"WCID", "GUID", "MSOS20"}
    \/ r.type = "std" /\ r.name = "GET_DESCRIPTOR" /\ r.value = "MSFT100"
CtlError(e, r) == IF Has("WEBUSB") /\ Platform(r)
                  THEN CtlSendData(e, r.value, Least(r.length, PlatformLengths(build)[r.value]))
                  ELSE CtlStall(e)

(*---------------------------------------------------------------------------*)
(* Classes.                                                                   *)
HidSetup(e, class, r) ==
    CASE r.type = "class" ->
           IF r.name \in {"SET_IDLE", "SET_PROTOCOL"} THEN e
           ELSE IF r.name \in {"GET_IDLE", "GET_PROTOCOL"} THEN CtlSendData(e, "zero", 1)
           ELSE CtlError(e, r)
      [] r.type = "std" /\ r.name = "GET_DESCRIPTOR" ->
           LET ready == IF class = "U2F" /\ r.value = "REPORT"
                        THEN OpenEP(e, EndpointsOf("U2F"), "INTR", EpSize) ELSE e
               len == CASE r.value = "REPORT" -> ReportLen(ReportOf(build, class))
                        [] r.value = "HID" -> Lengths(build).HID
                        [] OTHER -> 0
           IN CtlSendData(ready, r.value, Least(len, r.length))
      [] r.type = "std" /\ r.name = "SET_INTERFACE" -> CtlSendStatus(e)
      [] r.type = "std" /\ r.name = "GET_INTERFACE" -> CtlSendData(e, "zero", 1)
      [] OTHER -> e

(* The only slot is 0; an abort is recorded in module Ccid. *)
CcidSetup(e, r) ==
    CASE r.type = "class" -> IF r.name = "ABORT" /\ r.length = 0 /\ r.value = "0" THEN e ELSE CtlError(e, r)
      [] r.type = "std" /\ r.name = "CLEAR_FEATURE" -> OpenEP(e, {r.index}, "BULK", EpSize)
      [] OTHER -> e

Setup(e, class, r) ==
    CASE class \in {"HID", "U2F"} -> HidSetup(e, class, r)
      [] class = "WEBUSB" -> e
      [] class = "CCID" -> CcidSetup(e, r)

(* Each class opens its own endpoints. *)
ClassEndpoints == UNION {EndpointsOf(class) : class \in Classes(build)}
ClassOf(ep) == CHOOSE class \in Classes(build) : ep \in EndpointsOf(class)
SetClassConfig(e) == OpenEPs(e, ClassEndpoints, [ep \in ClassEndpoints |-> TypeOf[ClassOf(ep)]], EpSize)

(*---------------------------------------------------------------------------*)
(* Requests to the device.                                                    *)
DescriptorLen(value) == CASE value # "BOS" -> Lengths(build)[value]
                          [] value = "BOS" -> IF Has("WEBUSB") THEN PlatformLengths(build).BOS ELSE 0

(* The speed is never high: a qualifier is refused. *)
GetDescriptor(e, r) ==
    IF r.value \notin {"BOS", "DEVICE", "CONFIG"} \cup DOMAIN StringIndex THEN CtlError(e, r)
    ELSE LET len == DescriptorLen(r.value) IN
         IF len # 0 /\ r.length # 0 THEN CtlSendData(e, r.value, Least(len, r.length)) ELSE e

SetAddress(e, r) ==
    IF r.length # 0 \/ e.state = "CONFIGURED" THEN CtlError(e, r)
    ELSE [CtlSendStatus(e) EXCEPT !.state = IF r.value # "0" THEN "ADDRESSED" ELSE "DEFAULT"]

(* A status sent twice leaves one packet for the endpoint. *)
SetConfig(e, r) ==
    CASE r.value \notin {"0", "1"} \/ e.state = "DEFAULT" -> CtlError(e, r)
      [] e.state = "ADDRESSED" /\ r.value \in {"0", "1"} ->
           CtlSendStatus(IF r.value = "0" THEN e
                         ELSE SetClassConfig([e EXCEPT !.config = r.value, !.state = "CONFIGURED"]))
      [] e.state = "CONFIGURED" /\ r.value \in {"0", "1"} ->
           CtlSendStatus(IF r.value = "0" THEN CtlSendStatus([e EXCEPT !.config = "0", !.state = "ADDRESSED"])
                         ELSE IF r.value # e.config THEN SetClassConfig([e EXCEPT !.config = r.value])
                         ELSE e)

GetConfig(e, r) ==
    IF r.length # 1 \/ e.state = "DEFAULT" THEN CtlError(e, r)
    ELSE CtlSendData(e, IF e.state = "ADDRESSED" THEN "0" ELSE e.config, 1)

GetStatus(e, r) ==
    IF e.state = "DEFAULT" THEN CtlError(e, r)
    ELSE CtlSendData(IF e.wakeup THEN CtlReceiveStatus(e) ELSE e, "status", 2)

SetFeature(e, r) == IF r.value = "WAKEUP" THEN CtlSendStatus([e EXCEPT !.wakeup = TRUE]) ELSE e

(* mutant: nothing to clear, nothing to answer *)
ClrFeatureWhenSet(e, r) ==
    IF e.state = "DEFAULT" THEN CtlError(e, r)
    ELSE IF r.value = "WAKEUP" /\ e.wakeup THEN CtlSendStatus([e EXCEPT !.wakeup = FALSE]) ELSE e
ClrFeature(e, r) ==
    IF e.state = "DEFAULT" THEN CtlError(e, r)
    ELSE IF r.value = "WAKEUP" THEN CtlSendStatus([e EXCEPT !.wakeup = FALSE]) ELSE e

StdDevReq(e, r) ==
    CASE r.name = "GET_DESCRIPTOR" -> GetDescriptor(e, r)
      [] r.name = "SET_ADDRESS" -> SetAddress(e, r)
      [] r.name = "SET_CONFIGURATION" -> SetConfig(e, r)
      [] r.name = "GET_CONFIGURATION" -> GetConfig(e, r)
      [] r.name = "GET_STATUS" -> GetStatus(e, r)
      [] r.name = "SET_FEATURE" -> SetFeature(e, r)
      [] r.name = "CLEAR_FEATURE" -> ClrFeature(e, r)
      [] OTHER -> CtlError(e, r)

(* The failure of the class is not looked at. *)
StdItfReq(e, r) ==
    IF e.state # "CONFIGURED" \/ r.index \notin DOMAIN build.itf THEN CtlError(e, r)
    ELSE LET s == Setup(e, build.itf[r.index], r) IN IF r.length = 0 THEN CtlSendStatus(s) ELSE s

(*---------------------------------------------------------------------------*)
(* Requests to an endpoint: the number of an OUT endpoint is taken for that of  *)
(* its interface.                                                               *)
Notify(e, r) == IF r.index[1] = "OUT" /\ r.index[2] \in DOMAIN build.itf
                THEN Setup(e, build.itf[r.index[2]], r) ELSE e

StdEPReq(e, r) == LET
        ep == r.index
        stalled == IF ep[2] # 0 THEN StallEP(e, ep) ELSE e
    IN CASE ep[2] > MaxEndpoint -> CtlError(e, r)
         [] ep[2] <= MaxEndpoint /\ e.state = "DEFAULT" -> CtlError(e, r)
         [] ep[2] <= MaxEndpoint /\ e.state = "ADDRESSED" -> stalled
         [] OTHER ->
              CASE r.name = "SET_FEATURE" ->
                     CtlSendStatus(Notify(IF r.value = "HALT" THEN stalled ELSE e, r))
                [] r.name = "CLEAR_FEATURE" ->
                     IF r.value # "HALT" THEN e
                     ELSE CtlSendStatus(IF ep[2] # 0 THEN Notify(ClearStallEP(e, ep), r) ELSE e)
                [] r.name = "GET_STATUS" ->
                     CtlSendData(e, IF ep \in e.stalls THEN "halted" ELSE "running", 2)

(*---------------------------------------------------------------------------*)
(* Events of the MCU.                                                         *)
(* Lengths are read in the data stage only: out of it they are forgotten. *)
Settled(e) == IF e.ep0 = "DATA_IN" THEN e
              ELSE [e EXCEPT !.total = 0, !.rem = 0, !.at = 0, !.dataLen = 0]

SetupStage(e, r) == LET s == [e EXCEPT !.ep0 = "SETUP", !.dataLen = r.length] IN Settled(
    CASE r.to = "device" -> StdDevReq(s, r)
      [] r.to = "interface" -> StdItfReq(s, r)
      [] r.to = "endpoint" -> StdEPReq(s, r)
      [] r.to = "other" -> StallEP(s, <<IF r.length > 0 THEN "IN" ELSE "OUT", 0>>))

(* mutant: the length asked for is not compared *)
DataInStageAlwaysEmpty(e) ==
    IF e.ep0 # "DATA_IN" THEN e
    ELSE IF e.rem > MaxPacket
    THEN Transmit([e EXCEPT !.rem = @ - MaxPacket, !.at = @ + MaxPacket],
                  "more", e.at + MaxPacket, Least(e.rem - MaxPacket, MaxPacket))
    ELSE IF e.total % MaxPacket = 0 /\ e.total >= MaxPacket /\ e.dataLen # 0
    THEN Transmit([e EXCEPT !.dataLen = 0], "nothing", 0, 0)
    ELSE Settled(CtlReceiveStatus(e))
DataInStage(e) ==
    IF e.ep0 # "DATA_IN" THEN e
    ELSE IF e.rem > MaxPacket
    THEN Transmit([e EXCEPT !.rem = @ - MaxPacket, !.at = @ + MaxPacket],
                  "more", e.at + MaxPacket, Least(e.rem - MaxPacket, MaxPacket))
    ELSE IF e.total % MaxPacket = 0 /\ e.total >= MaxPacket /\ e.total < e.dataLen
    THEN Transmit([e EXCEPT !.dataLen = 0], "nothing", 0, 0)
    ELSE Settled(CtlReceiveStatus(e))

(* mutant: a device that has its address keeps it *)
LLResetKeepsState(e) == [e EXCEPT !.mail = << >>, !.armed = FALSE, !.halted = {},
                                  !.open = [ep \in Endpoints |-> Closed]]
(* Only the state is set back: the MCU forgets its endpoints. *)
LLReset(e) == [e EXCEPT !.state = "DEFAULT", !.mail = << >>, !.armed = FALSE, !.halted = {},
                        !.open = [ep \in Endpoints |-> Closed]]

Started == [on |-> TRUE, state |-> "DEFAULT", config |-> "0", wakeup |-> FALSE, ep0 |-> "IDLE", total |-> 0,
            rem |-> 0, at |-> 0, dataLen |-> 0, stalls |-> {},
            mail |-> << >>, armed |-> FALSE, halted |-> {},
            open |-> [ep \in Endpoints |-> Closed]]

(*---------------------------------------------------------------------------*)
(* The host.                                                                  *)
NoRequest == [to |-> "none", type |-> "none", name |-> "none", value |-> "none",
              index |-> 0, length |-> 0]
Fresh == [phase |-> "idle", req |-> NoRequest, got |-> 0, inOrder |-> TRUE, knows |-> "DEFAULT"]

Init == build \in Builds /\ d = Started /\ host = Fresh

Moves(r) == r.name \in {"SET_ADDRESS", "SET_CONFIGURATION"}

(* A new request ends the one in progress, and the stall of its refusal; the    *)
(* host no longer knows the state if that request was to change it.             *)
HostSetup(r) ==
    /\ d.on
    /\ d' = SetupStage([d EXCEPT !.mail = << >>, !.armed = FALSE, !.halted = @ \ Ep0], r)
    /\ host' = [host EXCEPT !.phase = IF r.length > 0 THEN "data" ELSE "status_in",
                            !.req = r, !.got = 0, !.inOrder = TRUE,
                            !.knows = IF host.phase # "idle" /\ Moves(host.req)
                                      THEN "nothing" ELSE @]
    /\ UNCHANGED build

(* Data are over at a packet that is not full or when all was asked for came. *)
HostIn ==
    /\ host.phase = "data" /\ d.mail # << >>
    /\ d' = DataInStage([d EXCEPT !.mail = << >>])
    /\ LET p == d.mail[1] IN
       host' = [host EXCEPT !.got = @ + p.n,
                            !.inOrder = @ /\ (p.n > 0 => p.at = host.got),
                            !.phase = IF p.n < MaxPacket \/ host.got + p.n >= host.req.length
                                      THEN "status_out" ELSE @]
    /\ UNCHANGED build

HostStatusOut ==
    /\ host.phase = "status_out" /\ d.armed
    /\ d' = [d EXCEPT !.armed = FALSE]
    /\ host' = [host EXCEPT !.phase = "idle", !.req = NoRequest, !.got = 0]
    /\ UNCHANGED build

Reached(r) == CASE r.name = "SET_ADDRESS" -> IF r.value # "0" THEN "ADDRESSED" ELSE "DEFAULT"
                [] r.name = "SET_CONFIGURATION" -> IF r.value # "0" THEN "CONFIGURED" ELSE "ADDRESSED"
                [] OTHER -> host.knows

HostStatusIn ==
    /\ host.phase = "status_in" /\ d.mail # << >>
    /\ d' = DataInStage([d EXCEPT !.mail = << >>])
    /\ host' = [host EXCEPT !.phase = "idle", !.req = NoRequest, !.knows = Reached(host.req)]
    /\ UNCHANGED build

HostStalled ==
    /\ host.phase \in {"data", "status_in"} /\ <<"IN", 0>> \in d.halted
    /\ host' = [host EXCEPT !.phase = "idle", !.req = NoRequest, !.got = 0]
    /\ UNCHANGED <<build, d>>

HostReset == d.on /\ d' = LLReset(d) /\ host' = Fresh /\ UNCHANGED build

(* The application starts or restarts the USB, or stops it: only the bits of    *)
(* the stalled endpoints remain.                                                *)
Power == d' = Started /\ host' = Fresh /\ UNCHANGED build
PowerOff == /\ d.on
            /\ d' = [Started EXCEPT !.on = FALSE, !.stalls = d.stalls]
            /\ host' = Fresh
            /\ UNCHANGED build

Next == \/ \E r \in Requests : HostSetup(r)
        \/ HostIn
        \/ HostStatusOut
        \/ HostStatusIn
        \/ HostStalled
        \/ HostReset
        \/ Power
        \/ PowerOff

Spec == Init /\ [][Next]_vars

(*---------------------------------------------------------------------------*)
(* The length of what a request asks for. *)
Whole(r) ==
    CASE r.to = "interface" /\ r.value = "REPORT" -> ReportLen(ReportOf(build, build.itf[r.index]))
      [] r.value \in DOMAIN PlatformLengths(build) -> PlatformLengths(build)[r.value]
      [] r.value \in DOMAIN Lengths(build) -> Lengths(build)[r.value]
      [] r.name = "GET_STATUS" -> 2
      [] OTHER -> 1

(* A host that has read all its data has read them in order and as many as it   *)
(* asked for or as there are, and the device too is at the status stage: the    *)
(* empty packet is sent when the last one was full and the host waits for more, *)
(* and only then, whatever request was dropped before                           *)
(* (USBD_LL_DataInStage, USBD_CtlSendData).                                     *)
DataExact == host.phase = "status_out" =>
    /\ host.got = Least(Whole(host.req), host.req.length)
    /\ host.inOrder
    /\ d.ep0 = "STATUS_OUT" /\ d.armed

(* The status of an endpoint, kept beside the MCU, is that of the MCU, in the   *)
(* builds whose classes do not open endpoints on a request                      *)
(* (USBD_LL_StallEP, USBD_LL_OpenEP, USBD_LL_IsStallEP).                        *)
HaltReported ==
    host.phase = "data" /\ host.req.to = "endpoint" /\ d.mail # << >>
    /\ Classes(build) \cap {"U2F", "CCID"} = {}
    /\ host.req.index \in ClassEndpoints
      => (d.mail[1].what = "halted" <=> host.req.index \in d.halted)

(* The device is in the state a host that followed its requests to their end    *)
(* knows.  A configured device has open the endpoints its configuration         *)
(* describes, as it describes them, but those of a keyboard, opened for longer   *)
(* reports, and the one the CCID class reopens as its own when the halt of the   *)
(* HID one is cleared.  What the host read of it is Readable                     *)
(* (USBD_SetAddress, USBD_SetConfig, USBD_LL_Reset, USB_power, USBD_CfgDesc).    *)
StatesAgree ==
    /\ host.phase = "idle" /\ host.knows # "nothing" => d.state = host.knows
    /\ d.state = "CONFIGURED" => \A p \in PartsOf(build, "endpoint") :
          /\ d.open[p.at] # Closed
          /\ p.at # <<"OUT", 2>> \/ ~Has("CCID") => d.open[p.at].kind = p.kind
          /\ p.at[2] # NumberOf.HID \/ ~build.kbd => d.open[p.at].size = p.size
    /\ d = Started => Readable(build, Builds)

(* The requests the code leaves without a word, in the state they find: the     *)
(* test mode of the device, a descriptor of no length or the BOS of a build      *)
(* without WebUSB, data of an interface whose class has none for it, endpoints    *)
(* before the configuration, and what has no data and goes elsewhere.             *)
Ignored(state, r) ==
    \/ r.to = "device" /\ r.name = "SET_FEATURE" /\ r.value = "TEST_MODE"
    \/ /\ r.to = "device" /\ r.name = "GET_DESCRIPTOR"
       /\ r.length = 0 \/ (r.value = "BOS" /\ ~Has("WEBUSB"))
    \/ /\ r.to = "interface" /\ state = "CONFIGURED" /\ r.index \in DOMAIN build.itf /\ r.length > 0
       /\ CASE build.itf[r.index] = "WEBUSB" -> TRUE
            [] build.itf[r.index] = "CCID" -> r.type = "std"
            [] OTHER -> r.name = "GET_STATUS"
    \/ r.to = "endpoint" /\ state = "ADDRESSED" /\ r.index[2] <= MaxEndpoint
    \/ r.to = "other" /\ r.length = 0

(* Every other request is answered or refused, whatever was asked before and in *)
(* whatever state of the device, although its answer is left to a handler, a     *)
(* class or the platform (USBD_LL_SetupStage).  Some of those ignored are valid: *)
(* the code does not answer them.  Of two statuses sent for one request the      *)
(* endpoint keeps one.                                                           *)
OthersAnswered ==
    host.phase \in {"data", "status_in"} /\ ~Ignored(d.state, host.req)
      => d.mail # << >> \/ <<"IN", 0>> \in d.halted
=================================================================================
