-------------------------------- MODULE HidHost --------------------------------
(***************************************************************************)
(* The transport of HidTransport used by host programs that follow the     *)
(* protocol: a program (a session, with a channel of its own) sends a      *)
(* command in order, one report after the other, and reads its reply; when *)
(* nothing moves any more it sends the command again; it may be killed at  *)
(* any time, and the next one starts while the device is where it was.     *)
(***************************************************************************)
EXTENDS HidTransport

CONSTANTS
    Commands,   \* the commands, sequences of bytes
    Answer(_),  \* the reply of the application to an APDU
    Sessions    \* bound: how many host programs follow one another

ASSUME CommandsAssumption == \A c \in Commands : c \in Seq(Byte) /\ Len(c) \in 1..BufLen
ASSUME SessionsAssumption == Sessions \in Nat \ {0} /\ Channels = 0..Sessions
ASSUME InterfaceAssumption == Interfaces # {}
ASSUME AnswerAssumption == \A c \in Commands : Answer(c) \in Replies

VARIABLES
    host,      \* what the program does: "idle", "sending", "waiting" or "pinging"
    session,   \* the program's number, and its channel; 0 before the first
    command,   \* the command it sends
    chunk,     \* the sequence number of the next report of the command
    expected,  \* the length announced by the reply it is reading, 0 before
    answer     \* the bytes of the reply read so far

hostVars == <<host, session, command, chunk, expected, answer>>
allVars == <<vars, hostVars>>

I == CHOOSE i \in Interfaces : TRUE

HostInit ==
    /\ Init /\ channel = 0
    /\ host = "idle" /\ session = 1
    /\ command \in Commands
    /\ chunk = 0 /\ expected = 0 /\ answer = <<>>

\* Where the content of report n of an APDU starts.
Offset(n) == IF n = 0 THEN 0 ELSE (EpLen - 7) + (n - 1) * (EpLen - 5)

ChunkReport(c, n) ==
    [tag |-> "APDU", channel |-> session, seq |-> n, total |-> IF n = 0 THEN Len(c) ELSE 0,
     size |-> EpLen, data |-> SubSeq(c, Offset(n) + 1, Smaller(Len(c), Offset(n + 1)))]

PingReport ==
    [tag |-> "PING", channel |-> session, seq |-> 0, total |-> 0, size |-> EpLen, data |-> <<>>]

\* The device takes a report, or drops it behind the closed gate.
Device(r) == IF apduMedia = NONE THEN HidReceive(I, r) ELSE UNCHANGED vars

\* The program starts a command.
Begin ==
    /\ host = "idle"
    /\ command' \in Commands
    /\ host' = "sending" /\ chunk' = 0 /\ expected' = 0 /\ answer' = <<>>
    /\ UNCHANGED <<vars, session>>

\* The next report of the command leaves.
SendReport ==
    /\ host = "sending"
    /\ Device(ChunkReport(command, chunk))
    /\ chunk' = chunk + 1
    /\ host' = IF Offset(chunk + 1) >= Len(command) THEN "waiting" ELSE "sending"
    /\ UNCHANGED <<session, command, expected, answer>>

\* The program checks that the device is there.
Ping ==
    /\ host = "idle" /\ Len(inEp[I]) < MaxIn
    /\ Device(PingReport)
    /\ host' = "pinging"
    /\ UNCHANGED <<session, command, chunk, expected, answer>>

\* The program reads a report; those of another channel are not for it.
Read ==
    /\ inEp[I] # <<>>
    /\ DataIn(I)
    /\ LET r    == Head(inEp[I])
           opens == r.tag = "APDU" /\ r.channel = session /\ r.seq = 0 /\ host = "waiting"
           goesOn == r.tag = "APDU" /\ r.channel = session /\ r.seq # 0 /\ host = "waiting" /\ expected # 0
       IN \/ /\ opens \/ goesOn
             /\ expected' = IF opens THEN r.total ELSE expected
             /\ answer' = IF opens THEN r.data ELSE answer \o r.data
             /\ host' = IF Len(answer') >= expected' THEN "idle" ELSE host
          \/ /\ ~opens /\ ~goesOn
             /\ host' = IF host = "pinging" /\ r.tag = "PING" THEN "idle" ELSE host
             /\ UNCHANGED <<expected, answer>>
    /\ UNCHANGED <<session, command, chunk>>

\* Nothing is in progress on the device and nothing is left to read: the
\* program's time is over and it sends the command again.
Resend ==
    /\ host \in {"waiting", "pinging"}
    /\ apduMedia = NONE /\ inEp[I] = <<>>
    /\ host' = IF host = "waiting" THEN "sending" ELSE "idle"
    /\ chunk' = 0 /\ expected' = 0 /\ answer' = <<>>
    /\ UNCHANGED <<vars, session, command>>

\* The program is killed, whatever it was doing, or it loses the device to a reset
\* of the bus; another one follows.
Killed ==
    /\ session < Sessions
    /\ session' = session + 1 /\ host' = "idle"
    /\ expected' = 0 /\ answer' = <<>>
    /\ UsbReset \/ UNCHANGED vars
    /\ UNCHANGED <<command, chunk>>

Application ==
    /\ \/ apduLength > 0 /\ Reply(Answer([k \in 1..apduLength |-> apduBuf[k - 1]]))
       \/ EndReply
       \/ ReplyRefused
    /\ UNCHANGED hostVars

HostNext == Begin \/ SendReport \/ Ping \/ Read \/ Resend \/ Killed \/ Application

HostSpec == HostInit /\ [][HostNext]_allVars

-----------------------------------------------------------------------------
\* The reports are read by the host's USB stack, the application replies, and a
\* program that has begun a command goes on with it.
Fairness ==
    /\ WF_allVars(SendReport) /\ WF_allVars(Read) /\ WF_allVars(Resend)
    /\ WF_allVars(Application)

FairSpec == HostSpec /\ Fairness

\* What the application gets is a command some program sent, whole and in order,
\* although programs are killed between two reports of a command and chunks are
\* sent out of the reception buffer by late acknowledgements.
DeliveredIntact ==
    apduMedia # NONE /\ ~replying /\ apduLength > 0
        => [k \in 1..apduLength |-> apduBuf[k - 1]] \in Commands

\* A program that has read a whole reply has read the reply to its own command.
AnswerMatches == host = "idle" /\ expected # 0 => answer = Answer(command)

\* A command is answered in the end, or its program killed.
Answered == host \in {"sending", "waiting"} ~> host = "idle"
=============================================================================
