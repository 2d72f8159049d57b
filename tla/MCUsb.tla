--------------------------------- MODULE MCUsb ---------------------------------
(* The builds: one with a configuration of exactly a packet, one of three with   *)
(* CCID, one whose CCID has no U2F before it.  Descriptors of one, two and three *)
(* packets, the last one full or not, are asked for short, exactly and long.     *)
EXTENDS Usb

Build(itf, kbd, url) == [itf |-> itf, kbd |-> kbd, url |-> url, product |-> 6]
MCBuilds == {Build([i \in 0 .. 1 |-> <<"HID", "WEBUSB">>[i + 1]], TRUE, 18),
             Build([i \in 0 .. 2 |-> <<"HID", "U2F", "CCID">>[i + 1]], FALSE, 0),
             Build([i \in {0, 2} |-> <<"HID", "U2F", "CCID">>[i + 1]], FALSE, 0)}

Request(to, type, name, value, index, length) ==
    [to |-> to, type |-> type, name |-> name, value |-> value, index |-> index, length |-> length]
Device(name, value, length) == Request("device", "std", name, value, 0, length)

MCRequests ==
    {Device("GET_DESCRIPTOR", "DEVICE", n) : n \in {0, 8}}
    \cup {Device("GET_DESCRIPTOR", "CONFIG", n) : n \in {64, 255}}
    \cup {Device("GET_DESCRIPTOR", v, 64) : v \in {"BOS", "QUALIFIER", "MSFT100", "PRODUCT"}}
    \cup {Device("SET_ADDRESS", v, 0) : v \in {"0", "1"}}
    \cup {Device("SET_CONFIGURATION", v, 0) : v \in {"0", "1", "2"}}
    \cup {Device("GET_CONFIGURATION", "none", 1), Device("GET_STATUS", "none", 2),
          Device("SET_FEATURE", "WAKEUP", 0), Device("CLEAR_FEATURE", "WAKEUP", 0),
          Device("SET_FEATURE", "TEST_MODE", 0), Device("SET_DESCRIPTOR", "none", 0),
          Request("device", "vendor", "WINUSB", "MSOS20", 0, 178),
          Request("device", "vendor", "WEBUSB", "URL", 0, 64),
          Request("interface", "vendor", "WINUSB", "GUID", 5, 200),
          Request("other", "vendor", "none", "none", 0, 8)}
    \cup {Request("interface", "std", "GET_DESCRIPTOR", v, i, 64) : v \in {"REPORT", "HID"}, i \in {0, 1}}
    \cup {Request("interface", "std", "SET_INTERFACE", "0", 0, 0),
          Request("interface", "class", "SET_IDLE", "0", 0, 0),
          Request("interface", "class", "GET_IDLE", "none", 0, 1),
          Request("interface", "class", "SET_REPORT", "none", 0, 0),
          Request("interface", "class", "ABORT", "0", 2, 0)}
    \cup {Request("endpoint", "std", name, "HALT", <<"OUT", 2>>, 0) :
             name \in {"SET_FEATURE", "CLEAR_FEATURE"}}
    \cup {Request("endpoint", "std", "GET_STATUS", "none", ep, 2) :
             ep \in {<<"OUT", 2>>, <<"IN", 0>>, <<"IN", 5>>}}
=================================================================================
