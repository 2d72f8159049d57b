------------------------------ MODULE Descriptors ------------------------------
(* What the device tells the USB host of itself: its descriptors, of which the   *)
(* lengths, the numbers and the addresses a host reads in them are kept and the  *)
(* other bytes only counted.  A build is                                         *)
(*   [itf |-> the class of each interface, kbd |-> HAVE_USB_HIDKBD,              *)
(*    url |-> WEBUSB_URL_SIZE_B, product |-> characters of the product's name].  *)
EXTENDS Integers, Sequences, TLC, Functions, FiniteSetsExt

Classes(b) == Range(b.itf)
Total(lengths) == FoldFunction(LAMBDA x, y : x + y, 0, lengths)

(*---------------------------------------------------------------------------*)
(* Numbers given at compilation.                                              *)
NumberOf == [HID |-> 2, U2F |-> 1, WEBUSB |-> 3, CCID |-> 3]
TypeOf == [HID |-> "INTR", U2F |-> "INTR", WEBUSB |-> "INTR", CCID |-> "BULK"]
EpSize == 64
EndpointsOf(class) == {"IN", "OUT"} \X {NumberOf[class]}
InterfaceOf(b, class) == CASE class = "HID" -> 0
                           [] class = "U2F" -> 1
                           [] class = "CCID" -> 2
                           [] class = "WEBUSB" -> IF "U2F" \in Classes(b) THEN 2 ELSE 1
StringIndex == [LANGID |-> 0, MFC |-> 1, PRODUCT |-> 2, SERIAL |-> 3, CONFIGURATION |-> 4, INTERFACE |-> 5]

(*---------------------------------------------------------------------------*)
(* Report descriptors, as items of a tag, a value and the bytes it takes.      *)
Field(count, tag) == <<<<"logical_min", 0, 1>>, <<"logical_max", 255, 2>>, <<"size", 8, 1>>,
                       <<"count", count, 1>>, <<tag, 8, 1>>>>
VendorReport == <<<<"page", 0, 2>>, <<"usage", 1, 1>>, <<"collection", 1, 1>>, <<"usage", 3, 1>>>>
                \o Field(EpSize, "input") \o <<<<"usage", 4, 1>>>> \o Field(EpSize, "output")
                \o <<<<"end", 0, 0>>>>
KeyboardReport ==
    <<<<"page", 1, 1>>, <<"usage", 6, 1>>, <<"collection", 1, 1>>,
      <<"page", 7, 1>>, <<"usage_min", 224, 1>>, <<"usage_max", 231, 1>>, <<"logical_min", 0, 1>>,
      <<"logical_max", 1, 1>>, <<"size", 1, 1>>, <<"count", 8, 1>>, <<"input", 2, 1>>,
      <<"count", 1, 1>>, <<"size", 8, 1>>, <<"input", 1, 1>>,
      <<"count", 5, 1>>, <<"size", 1, 1>>, <<"page", 8, 1>>, <<"usage_min", 1, 1>>,
      <<"usage_max", 5, 1>>, <<"output", 2, 1>>,
      <<"count", 1, 1>>, <<"size", 3, 1>>, <<"output", 1, 1>>,
      <<"count", 6, 1>>, <<"size", 8, 1>>, <<"logical_min", 0, 1>>, <<"logical_max", 101, 1>>,
      <<"page", 7, 1>>, <<"usage_min", 0, 1>>, <<"usage_max", 101, 1>>, <<"input", 0, 1>>,
      <<"end", 0, 0>>>>
ReportOf(b, class) == IF class = "HID" /\ b.kbd THEN KeyboardReport ELSE VendorReport
ReportLen(report) == Total([i \in DOMAIN report |-> 1 + report[i][3]])

(*---------------------------------------------------------------------------*)
(* The configuration.                                                          *)
Interface(b, class, string) == [type |-> "interface", len |-> 9, number |-> InterfaceOf(b, class),
                                class |-> class, endpoints |-> 2, string |-> string]
HidPart(b, class) == [type |-> "hid", len |-> 9, report |-> ReportLen(ReportOf(b, class))]
Endpoint(dir, class, size) == [type |-> "endpoint", len |-> 7, at |-> <<dir, NumberOf[class]>>,
                               kind |-> TypeOf[class], size |-> size]

(* The fields of the CCID class descriptor and their sizes. *)
CcidFields ==
    <<<<"bLength", 1>>, <<"bDescriptorType", 1>>, <<"bcdCCID", 2>>, <<"bMaxSlotIndex", 1>>,
      <<"bVoltageSupport", 1>>, <<"dwProtocols", 4>>, <<"dwDefaultClock", 4>>,
      <<"dwMaximumClock", 4>>, <<"bNumClockSupported", 1>>, <<"dwDataRate", 4>>,
      <<"dwMaxDataRate", 4>>, <<"bNumDataRatesSupported", 1>>, <<"dwMaxIFSD", 4>>,
      <<"dwSynchProtocols", 4>>, <<"dwMechanical", 4>>, <<"dwFeatures", 4>>,
      <<"dwMaxCCIDMessageLength", 4>>, <<"bClassGetResponse", 1>>, <<"bClassEnvelope", 1>>,
      <<"wLcdLayout", 2>>, <<"bPINSupport", 1>>, <<"bMaxCCIDBusySlots", 1>>>>
CcidPart == [type |-> "ccid", len |-> 54]

HidBlock(b, class) == LET size == IF class = "HID" /\ b.kbd THEN 8 ELSE EpSize IN
    <<Interface(b, class, StringIndex.PRODUCT), HidPart(b, class),
      Endpoint("IN", class, size), Endpoint("OUT", class, size)>>
CcidBlock(b) == <<Interface(b, "CCID", 5), CcidPart,
                  Endpoint("IN", "CCID", EpSize), Endpoint("OUT", "CCID", EpSize)>>
WebUsbBlock(b) == <<Interface(b, "WEBUSB", StringIndex.PRODUCT),
                    Endpoint("IN", "WEBUSB", EpSize), Endpoint("OUT", "WEBUSB", EpSize)>>

(* CFG_HDR_LEN and the lengths of the blocks, as the total is announced with. *)
HeaderLen == 9
BlockLen == [HID |-> 9 + 9 + 7 + 7, U2F |-> 9 + 9 + 7 + 7, CCID |-> 9 + 54 + 7 + 7, WEBUSB |-> 9 + 7 + 7]
Header(b) == [type |-> "config", len |-> 9, interfaces |-> Cardinality(Classes(b)),
              total |-> HeaderLen + Total([c \in Classes(b) |-> BlockLen[c]]),
              string |-> StringIndex.PRODUCT]
CfgDesc(b) == LET when(class, block) == IF class \in Classes(b) THEN block ELSE << >> IN
    <<Header(b)>> \o HidBlock(b, "HID") \o when("U2F", HidBlock(b, "U2F"))
    \o when("CCID", CcidBlock(b)) \o when("WEBUSB", WebUsbBlock(b))
LenOf(parts) == Total([i \in DOMAIN parts |-> parts[i].len])
PartsOf(b, type) == {p \in Range(CfgDesc(b)) : p.type = type}

(* Where the application writes that it has a PIN pad. *)
PinPadOffset(b) == HeaderLen + BlockLen.HID + (IF "U2F" \in Classes(b) THEN BlockLen.U2F ELSE 0) + 61

(*---------------------------------------------------------------------------*)
(* The device, its strings and, with WebUSB, the descriptors of the platforms. *)
Pid(b) == (IF b.kbd THEN 2 ELSE 1) + (IF "U2F" \in Classes(b) THEN 4 ELSE 0)
          + (IF "CCID" \in Classes(b) THEN 8 ELSE 0) + (IF "WEBUSB" \in Classes(b) THEN 16 ELSE 0)
DeviceDesc(b) == [len |-> 18, packet |-> EpSize, pid |-> Pid(b), configurations |-> 1,
                  strings |-> {StringIndex.MFC, StringIndex.PRODUCT, StringIndex.SERIAL}]
OfChars(n) == 2 * n + 2
StringLen(b) == [LANGID |-> 4, MFC |-> OfChars(6), PRODUCT |-> OfChars(b.product),
                 SERIAL |-> OfChars(4), CONFIGURATION |-> OfChars(b.product),
                 INTERFACE |-> OfChars(b.product)]

Utf16(chars) == 2 * chars
PropertyName == Utf16(20 + 1)  \* DeviceInterfaceGUIDs, and its end
PropertyData == Utf16(38 + 2)  \* the identifier in braces, and both ends
Own(length, bytes) == [own |-> length, len |-> bytes]
Bos(b) == <<Own(5, 1 + 1 + 2 + 1) @@ [total |-> 57, capabilities |-> 2],
            Own(24, 4 + 16 + 2 + 1 + 1) @@ [landing |-> IF b.url > 0 THEN 1 ELSE 0],
            Own(28, 4 + 16 + 4 + 2 + 1 + 1) @@ [set |-> 178]>>
(* The size in a header is that of all that follows, with the header. *)
MsOs20(b) == <<Own(10, 2 + 2 + 4 + 2) @@ [size |-> 178],
               Own(8, 2 + 2 + 1 + 1 + 2) @@ [size |-> 168],
               Own(8, 2 + 2 + 1 + 1 + 2) @@ [size |-> 160, number |-> InterfaceOf(b, "WEBUSB")],
               Own(20, 2 + 2 + 8 + 8),
               Own(132, 2 + 2 + 2 + 2 + PropertyName + 2 + PropertyData)>>
Wcid(b) == <<Own(16, 4 + 2 + 2 + 1 + 7) @@ [size |-> 40],
             Own(24, 1 + 1 + 8 + 8 + 6) @@ [number |-> InterfaceOf(b, "WEBUSB")]>>
Guid == <<Own(10, 4 + 2 + 2 + 2) @@ [size |-> 146],
          Own(136, 4 + 4 + 2 + PropertyName + 4 + PropertyData)>>

(* What can be asked for, and its length. *)
Lengths(b) == LET
        other == [DEVICE |-> DeviceDesc(b).len, CONFIG |-> LenOf(CfgDesc(b)), QUALIFIER |-> 10, HID |-> 9]
    IN [v \in DOMAIN other \cup DOMAIN StringIndex |->
           IF v \in DOMAIN other THEN other[v] ELSE StringLen(b)[v]]
PlatformLengths(b) == [BOS |-> LenOf(Bos(b)), MSFT100 |-> 2 + Utf16(8), WCID |-> LenOf(Wcid(b)),
                       GUID |-> LenOf(Guid), MSOS20 |-> LenOf(MsOs20(b)), URL |-> 3 + b.url]

(*---------------------------------------------------------------------------*)
(* Which classes take the events of an endpoint: all are asked, and each looks  *)
(* at the number.                                                              *)
Takes(class, ep) == ep[2] = NumberOf[class]

(*---------------------------------------------------------------------------*)
(* Bits of the reports an interface sends. *)
BitsOf(report, tag) ==
    LET last(name, i) == LET at == {j \in 1 .. i : report[j][1] = name} IN report[Max(at)][2]
        fields == {i \in DOMAIN report : report[i][1] = tag}
    IN MapThenSumSet(LAMBDA i : last("size", i) * last("count", i), fields)

Nested(parts) == \A i \in DOMAIN parts :
    /\ parts[i].own = parts[i].len
    /\ "size" \in DOMAIN parts[i] => parts[i].size = LenOf(SubSeq(parts, i, Len(parts)))

(* A host can follow what it reads: the lengths announced are those of what     *)
(* comes, interfaces and endpoints are as many as announced and none is given   *)
(* twice, the interfaces are numbered from zero (but CCID, which is number two  *)
(* even when it is the second), every string named exists, the reports fit the  *)
(* endpoints, the product tells which interfaces there are, and the field the   *)
(* application writes to is the one of the PIN pad (usbd_impl.c).               *)
Readable(b, builds) == LET
        cfg == CfgDesc(b)
        itfs == PartsOf(b, "interface")
        eps == PartsOf(b, "endpoint")
        start(i) == LenOf(SubSeq(cfg, 1, i - 1))
        pin == CHOOSE i \in DOMAIN CcidFields : CcidFields[i][1] = "bPINSupport"
        sizes(fields) == Total([i \in DOMAIN fields |-> fields[i][2]])
    IN /\ cfg[1].total = LenOf(cfg)
       /\ Cardinality(itfs) = cfg[1].interfaces
       /\ ("CCID" \notin Classes(b) \/ "U2F" \in Classes(b))
             => {p.number : p \in itfs} = 0 .. cfg[1].interfaces - 1
       /\ \A p \in itfs : b.itf[p.number] = p.class /\ p.endpoints = Cardinality(EndpointsOf(p.class))
       /\ Cardinality({p.at : p \in eps}) = 2 * cfg[1].interfaces
       /\ \A p \in eps : Cardinality({c \in Classes(b) : Takes(c, p.at)}) = 1
       /\ {p.string : p \in itfs \cup {cfg[1]}} \cup DeviceDesc(b).strings
             \subseteq Range(StringIndex)
       /\ \A c \in Classes(b) \cap {"HID", "U2F"}, p \in eps :
             p.at = <<"IN", NumberOf[c]>> => BitsOf(ReportOf(b, c), "input") = 8 * p.size
       /\ \A other \in builds : Pid(other) = Pid(b)
             => Classes(other) = Classes(b) /\ other.kbd = b.kbd
       /\ "CCID" \in Classes(b) =>
             /\ sizes(CcidFields) = CcidPart.len
             /\ \A i \in DOMAIN cfg : cfg[i].type = "ccid" =>
                   PinPadOffset(b) = start(i) + sizes(SubSeq(CcidFields, 1, pin - 1))
       /\ "WEBUSB" \in Classes(b) =>
             /\ Bos(b)[1].total = LenOf(Bos(b)) /\ Bos(b)[1].capabilities = Len(Bos(b)) - 1
             /\ Bos(b)[3].set = LenOf(MsOs20(b))
             /\ \A set \in {Bos(b), MsOs20(b), Wcid(b), Guid} : Nested(set)
             /\ (Bos(b)[2].landing = 1 <=> b.url > 0)
             /\ \A p \in {MsOs20(b)[3], Wcid(b)[2]} : b.itf[p.number] = "WEBUSB"
================================================================================
