---------------------------- MODULE MCHidTransport ----------------------------
(***************************************************************************)
(* Small instances of HidTransport: reports of 8 bytes carry one byte of   *)
(* an APDU when they are first and three when they follow, and the buffer  *)
(* of 5 bytes is filled by three reports.                                  *)
(***************************************************************************)
EXTENDS HidTransport

\* Replies of every length, their bytes alike: positions are Segmentation's.
MCReplies == {[k \in 1..n |-> "reply"] : n \in 1..BufLen}

MCByte == {"zero", "host", "reply"}

Rep(tag, ch, s, t, sz, n) ==
    [tag |-> tag, channel |-> ch, seq |-> s, total |-> t, size |-> sz,
     data |-> [k \in 1..n |-> "host"]]

\* First reports: an empty APDU, one that fits, the longest, one too long; then
\* reports that follow, full or one byte long; one report cut in its header.
ApduReports ==
    {Rep("APDU", "c1", 0, t, 8, 1) : t \in {0, 1, 3, 5, 6}}
    \cup {Rep("APDU", "c2", 0, 3, 6, 0)}
    \cup {Rep("APDU", "c2", s, 0, 8, 3) : s \in 1..3}
    \cup {Rep("APDU", "c1", s, 0, 6, 1) : s \in 1..2}

ControlReports == {Rep(t, "c1", 0, 0, 8, 0) : t \in {"VERSION", "CHANNEL", "PING"}}
OtherReports == {Rep("OTHER", "c1", 0, 0, 8, 0)}

AllReports == ApduReports \cup ControlReports \cup OtherReports
=============================================================================
