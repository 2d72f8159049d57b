---------------------------- MODULE MCLedgerProtocol ----------------------------
(***************************************************************************)
(* Packets of at most 8 bytes: one byte of an APDU in the first, three in  *)
(* the next ones; a buffer of 5 bytes.                                     *)
(***************************************************************************)
EXTENDS LedgerProtocol

Text == <<"r1", "r2", "r3", "r4", "r5", "r6", "r7", "r8">>
MCByte == {"zero", "x"} \cup {Text[k] : k \in 1..8}

Apdu(s, t, n) ==
    [tag |-> "APDU", channel |-> "c1", size |-> Header(s) + n, seq |-> s, total |-> t,
     data |-> [k \in 1..n |-> "x"]]
Cut(s, n) ==
    [tag |-> "APDU", channel |-> "c1", size |-> n, seq |-> s, total |-> 0, data |-> <<>>]
Request(tag, ch, n) ==
    [tag |-> tag, channel |-> ch, size |-> n, seq |-> 0, total |-> 0, data |-> <<>>]

\* First packets: an empty APDU, a short one, the longest, one too long; packets
\* that follow, with more and with fewer bytes than are expected, and with none;
\* packets cut in their header; control requests of two channels.
MCPackets ==
    {Apdu(0, t, n) : t \in {0, 1, 5, 6}, n \in 0..1}
    \cup {Apdu(s, 0, n) : s \in 1..3, n \in {0, 1, 3}}
    \cup {Cut(0, 4), Cut(0, 6), Cut(1, 4)}
    \cup {Request(t, "c2", 8) : t \in {"VERSION", "CHANNEL", "PING", "MTU", "OTHER"}}
    \cup {Request("PING", "c1", 20)}

MCReplies == {SubSeq(Text, 1, n) : n \in 0..8}
=============================================================================
