----------------------------- MODULE MCIoExchange -----------------------------
(***************************************************************************)
(* IoExchange with commands of one report and of two, and replies of one   *)
(* and of two; a first report carries one byte, the next ones three.       *)
(***************************************************************************)
EXTENDS IoExchange

MCKind(c) ==
    CASE c[1] = "version" -> "version"
      [] c[1] = "exit"    -> "exit"
      [] OTHER            -> "app"

MCAppReplies == {<<"done">>, <<"done", "more">>}
MCVersionReply == <<"name", "flags">>
MCExitReply == <<"ok">>
MCLockedReply == <<"5515">>
MCReplies == MCAppReplies \cup {MCVersionReply, MCExitReply, MCLockedReply}

\* A raw command, an empty one, and one that is clipped.
MCRawCommands == {<<"raw">>, <<>>, <<"raw", "arg", "arg">>}

MCByte == {"zero", "version", "exit", "app", "arg", "raw", "name", "flags", "ok", "done", "more", "5515"}

First(t, b) == [tag |-> "APDU", channel |-> "c", seq |-> 0, total |-> t, size |-> 8, data |-> <<b>>]
Second == [tag |-> "APDU", channel |-> "c", seq |-> 1, total |-> 0, size |-> 8, data |-> <<"arg", "zero", "zero">>]
Ping == [tag |-> "PING", channel |-> "c", seq |-> 0, total |-> 0, size |-> 8, data |-> <<"zero">>]

\* Whole default commands, an application command of two reports, and a report out
\* of sequence.
ApduReports == {First(1, "version"), First(1, "exit"), First(1, "app"), First(2, "app"), Second}
WithPing == ApduReports \cup {Ping}
=============================================================================
