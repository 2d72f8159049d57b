-------------------------------- MODULE MCCcid --------------------------------
(* Headers of two bytes and packets of three: messages of one, two and three    *)
(* packets, and answers that end in a short and an empty packet.  Every *)
(* command once, some refused for their length, slot or reserved bytes.         *)
EXTENDS Ccid

Command(type, len) == [type |-> type, len |-> len, slot |-> 0, b7 |-> 0, b8 |-> 0, b9 |-> 0, op |-> "none"]

MCCommands ==
    {Command(t, 0) : t \in {"ICCPOWERON", "ICCPOWEROFF", "GETSLOTSTATUS", "GETPARAMETERS",
                            "RESETPARAMETERS", "ICCCLOCK", "T0APDU", "MECHANICAL", "UNKNOWN"}}
    \cup {Command("XFRBLOCK", n) : n \in {3, 5}}
    \cup {Command("SETPARAMETERS", 1), Command("ESCAPE", 1), Command("SETDATARATE", 2), [Command("GETSLOTSTATUS", 0) EXCEPT !.slot = 1],
          [Command("XFRBLOCK", 1) EXCEPT !.b8 = 1], [Command("SECURE", 4) EXCEPT !.op = "verify"]}

(* A block that takes several packets leaves a refusal in the middle of the *)
(* reception, which only a reset ends.                                      *)
MCRecover(c) == IF c.len + HeaderLen > EpSize THEN "reset" ELSE "abort"
AlwaysAbort(c) == "abort"

MCPinOffset == [verify |-> 1]

ASSUME PinsAssumption == PinsWhole
=================================================================================
