---------------------------- MODULE MCU2fTransport ----------------------------
(***************************************************************************)
(* Small instances of U2fTransport: packets of 14 bytes carry seven bytes  *)
(* of a message when they are first and nine when they follow; messages    *)
(* have one, two and three packets, the answers to INIT two.               *)
(***************************************************************************)
EXTENDS U2fTransport

A(i, l, n) == [ins |-> i, long |-> l, lc |-> n]
First(c, cmd, len, size, a) ==
    [ch |-> c, cmd |-> cmd, seq |-> 0, len |-> len, size |-> size, apdu |-> a]
Next_(c, n, size) ==
    [ch |-> c, cmd |-> "CONT", seq |-> n, len |-> 0, size |-> size, apdu |-> NoApdu]

\* 13 bytes of message hold 6 bytes behind the header of an authentication.
SignOf(c) == First(c, "MSG", 13, 14, A("SIGN", TRUE, 6))

Messages ==
    {SignOf("c1"), First("c1", "PING", 17, 14, NoApdu),
     First("c2", "MSG", 7, 14, A("INFO", TRUE, 0)), First("c2", "MSG", 13, 14, A("MAGIC", TRUE, 6)),
     First("c2", "MSG", 6, 13, A("INFO", TRUE, 0)), First("c2", "PING", 2, 9, NoApdu)}
Inits == {First(c, "INIT", 8, 14, NoApdu) : c \in {Broadcast}}
Continuations == {Next_("c1", 0, 14), Next_("c1", 1, 14), Next_("c2", 0, 14)}
Malformed ==
    {First("c1", "MSG", BufLen, 14, NoApdu), First("c2", "WINK", 0, 7, NoApdu),
     First("c1", "WINK", 0, 7, NoApdu), First(Broadcast, "PING", 2, 9, NoApdu),
     First("c2", "PING", 2, 6, NoApdu), Next_("c1", 0, 5), Next_("c2", 1, 3)}

AllPackets == Messages \cup Inits \cup Continuations \cup Malformed

\* With the proxy a packet can come while a reply leaves, and another while the error that
\* takes its place does.
Unread == [build \in BOOLEAN |-> IF build THEN 3 ELSE 1]

ASSUME FramesAssumption == FullPackets
=============================================================================
