---------------------------- MODULE MCStandardAppIo ----------------------------
(***************************************************************************)
(* StandardAppIo on the commands and replies of MCIoExchange, with one     *)
(* response that does not fit the buffer.                                  *)
(***************************************************************************)
EXTENDS StandardAppIo

MCKind(c) ==
    CASE c[1] = "version" -> "version"
      [] c[1] = "exit"    -> "exit"
      [] OTHER            -> "app"

MCAppReplies == {<<"yes">>, <<"yes", "data">>}
MCResponses == MCAppReplies \cup {<<"a", "response", "far", "too", "long", "here">>}
MCReplies == {<<"yes">>, <<"yes", "data">>, <<"name", "flags">>, <<"ok">>, <<"5515">>, <<"b000">>}

MCByte == {"zero", "version", "exit", "app", "arg", "raw", "name", "flags", "ok", "yes", "data", "5515", "b000"}

First(t, b) == [tag |-> "APDU", channel |-> "c", seq |-> 0, total |-> t, size |-> 8, data |-> <<b>>]
Second == [tag |-> "APDU", channel |-> "c", seq |-> 1, total |-> 0, size |-> 8, data |-> <<"arg", "zero", "zero">>]

MCReports == {First(1, "version"), First(1, "app"), First(2, "app"), Second}
\* A raw command, an empty one, and one that is clipped.
MCRawCommands == {<<"raw">>, <<>>, <<"raw", "arg", "arg">>}
MCVersionReply == <<"name", "flags">>
MCExitReply == <<"ok">>
MCLockedReply == <<"5515">>
MCWrongLength == <<"b000">>
=============================================================================
