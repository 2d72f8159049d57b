------------------------------- MODULE IoExchange -------------------------------
(***************************************************************************)
(* io_exchange and the event loop below it (src/os_io_seproxyhal.c): one   *)
(* thread that alternates between the application, the emission of a reply *)
(* and the wait for a command, and that gets one event of the MCU for each *)
(* status it sends.  The media are the HID transport of HidTransport and   *)
(* the raw APDUs of the MCU.                                               *)
(*                                                                         *)
(* A step receives one event and handles it: nothing else runs between the *)
(* two.  The application is any program that replies to the commands it    *)
(* gets, at once or after an asynchronous wait, and that may pump events.  *)
(***************************************************************************)
EXTENDS HidTransport

CONSTANTS
    TimeoutTicks,   \* IO_RAPDU_TRANSMIT_TIMEOUT_MS in ticker periods (2000 / 100)
    Kind(_),        \* "app", or the default command an APDU is: "version", "exit"
    AppReplies,     \* replies of the application
    VersionReply,   \* reply of io_process_default_apdus to GET_VERSION
    ExitReply,      \* and to APP_EXIT
    LockedReply,    \* SWO_SEC_PIN_15
    RawCommands,    \* APDUs the MCU may send without any transport
    Malformed       \* whether the MCU may send an event cut in several packets

RAW == "RAW"        \* IO_APDU_MEDIA_RAW, APDU_RAW

ASSUME TimeoutAssumption == TimeoutTicks \in Nat \ {0}
ASSUME OneInterface == \E i \in {"USB_HID", "USB_WEBUSB"} : Interfaces = {i}
ASSUME IoRepliesAssumption == AppReplies \cup {VersionReply, ExitReply, LockedReply} \subseteq Replies
ASSUME RawAssumption == BufLen > 3 /\ \A c \in RawCommands : c \in Seq(Byte)
ASSUME MalformedAssumption == Malformed \in BOOLEAN

VARIABLES
    pc,          \* "app", "turn", "drained", "wait", "receive", "ended"
    flags,       \* the flags of the channel argument of io_exchange
    tx,          \* the reply handed to io_exchange: tx_len, and as it was written
    nested,      \* io_exchange was called by the application from io_event
    statusSent,  \* a status was sent and its event not yet received
    epTimeout,   \* usb_ep_timeouts of the IN endpoint, in ticker periods
    waited,      \* ticker periods of G_io_app.ms since timeout_ms was set
    locked,      \* the device is onboarded and its PIN not validated
    owed         \* history: the media of the command taken and not answered, or NONE

ioVars == <<pc, flags, tx, nested, statusSent, epTimeout, waited, locked, owed>>
ioAll == <<vars, ioVars>>

Flags == {"ASYNCH_REPLY", "RETURN_AFTER_TX", "RESET_AFTER_REPLIED"}

Iface == CHOOSE i \in Interfaces : TRUE

IoTypeOK ==
    /\ TransportTypeOK
    /\ apduState \in Interfaces \cup {IDLE, RAW}
    /\ apduMedia \in Interfaces \cup {NONE, RAW}
    /\ replying \in BOOLEAN
    /\ pc \in {"app", "turn", "drained", "wait", "receive", "ended"}
    /\ flags \subseteq Flags /\ tx \in Seq(Byte)
    /\ nested \in BOOLEAN /\ statusSent \in BOOLEAN
    /\ locked \in BOOLEAN /\ owed \in Interfaces \cup {NONE, RAW}
    /\ epTimeout \in 0..TimeoutTicks /\ waited \in 0..TimeoutTicks

IoInit ==
    /\ Init /\ channel = CHOOSE c \in Channels : TRUE
    /\ pc = "app" /\ flags = {} /\ tx = <<>> /\ nested = FALSE
    /\ statusSent = FALSE /\ epTimeout = 0 /\ waited = 0
    /\ locked = FALSE /\ owed = NONE

\* G_io_apdu_buffer after bytes are written from its start, and the first n bytes of it.
Written(a) == [k \in DOMAIN apduBuf |-> IF k < Len(a) THEN a[k + 1] ELSE apduBuf[k]]
Output(n) == [k \in 1..n |-> apduBuf[k - 1]]

-----------------------------------------------------------------------------
(* io_seproxyhal_handle_event: one handler per kind of event. *)

\* EXCEPTION_IO_RESET, INVALID_STATE: the stack unwinds up to the main function of
\* the application, which ends.
Throw == pc' = "ended"

\* A report on the OUT endpoint; one that is answered at once arms the endpoint.
OutEvent ==
    \/ \E r \in Reports :
         /\ DataOut(Iface, r)
         /\ epTimeout' = IF inEp' = inEp THEN epTimeout ELSE TimeoutTicks
    \/ apduMedia # NONE /\ UNCHANGED <<vars, epTimeout>>

\* Mutant: the acknowledgement leaves the endpoint armed.
AckEventKeepsArmed == DataIn(Iface) /\ UNCHANGED epTimeout

\* An acknowledgement disarms the endpoint, and the chunk it may send arms it.
AckEvent ==
    /\ DataIn(Iface)
    /\ epTimeout' = IF Len(inEp'[Iface]) = Len(inEp[Iface]) THEN TimeoutTicks ELSE 0

\* A raw APDU is clipped three bytes short of the buffer and copied there.
TakeRaw(c) ==
    LET l == Smaller(Len(c), BufLen - 3)
    IN /\ apduState' = RAW /\ apduLength' = l
       /\ apduBuf' = Written(SubSeq(c, 1, l))
       /\ UNCHANGED <<hid, inEp, replying, epTimeout>>

\* Mutant: the state is not looked at.
CapduEventAlways == \E c \in RawCommands : TakeRaw(c) /\ apduMedia' = RAW

\* io_seproxyhal_handle_capdu_event.
CapduEvent ==
    \E c \in RawCommands :
      IF apduState = IDLE THEN TakeRaw(c) /\ apduMedia' = RAW
                         ELSE UNCHANGED <<vars, epTimeout>>

\* A reset of the bus while no APDU is in progress.
QuietReset == apduMedia = NONE /\ UsbReset /\ epTimeout' = 0

\* A reset while an APDU is in progress, or USB power lost while it came by HID.
LoudReset ==
    /\ apduMedia # NONE
    /\ inEp' = [i \in Interfaces |-> <<>>]
    /\ UNCHANGED <<hid, app, apduBuf, replying, epTimeout>>

\* A ticker event that lets no endpoint expire.
TickEvent ==
    /\ epTimeout # 1
    /\ epTimeout' = IF epTimeout = 0 THEN 0 ELSE epTimeout - 1
    /\ UNCHANGED vars

\* A ticker event that ends the wait for an acknowledgement.
ExpiryEvent ==
    /\ epTimeout = 1
    /\ epTimeout' = 0 /\ apduState' = IDLE
    /\ UNCHANGED <<hid, apduMedia, apduLength, apduBuf, inEp, replying>>

LaterNever == UNCHANGED waited                  \* mutant
Later == waited' = IF waited < TimeoutTicks THEN waited + 1 ELSE waited

\* The event received is handled and the thread goes on at next, unless a handler
\* throws.  Tickers and user-interface events end in io_event, which sends a
\* status; the others leave the status to the caller.
Handle(next) ==
    \/ /\ OutEvent \/ AckEvent \/ CapduEvent \/ QuietReset
       /\ pc' = next /\ statusSent' = FALSE /\ UNCHANGED waited
    \/ /\ TickEvent /\ Later
       /\ pc' = next /\ statusSent' = TRUE
    \/ /\ ExpiryEvent /\ Later
       /\ Throw /\ statusSent' = FALSE
    \/ /\ LoudReset
       /\ Throw /\ statusSent' = FALSE /\ UNCHANGED waited
    \/ /\ UNCHANGED <<vars, epTimeout, waited>>          \* a button, a display event
       /\ pc' = next /\ statusSent' = TRUE

\* The event received is thrown away: what it would have told is lost.
Drop ==
    /\ \/ UNCHANGED vars
       \/ /\ inEp[Iface] # <<>>
          /\ inEp' = [inEp EXCEPT ![Iface] = Tail(@)]
          /\ UNCHANGED <<hid, app, apduBuf, replying>>
    /\ UNCHANGED <<epTimeout, waited>>

-----------------------------------------------------------------------------
(* io_exchange. *)

\* Mutant: an asynchronous reply is forgotten.
EnterReceiveForgets ==
    /\ apduState' = IDLE /\ apduMedia' = NONE /\ apduLength' = 0
    /\ pc' = "receive"

\* From the end of the reply, or from the call when there is none to send, to the
\* loop that waits for a command.
EnterReceive ==
    /\ IF "ASYNCH_REPLY" \in flags' THEN UNCHANGED <<apduState, apduMedia>>
                                    ELSE apduState' = IDLE /\ apduMedia' = NONE
    /\ apduLength' = 0
    /\ pc' = "receive"

\* The reply a is written in the buffer and io_exchange(CHANNEL_APDU | f, Len(a)) is
\* called.
Exchange(f, a) ==
    /\ flags' = f /\ tx' = a /\ apduBuf' = Written(a)
    /\ IF a # <<>> /\ "ASYNCH_REPLY" \notin f
         THEN pc' = "turn" /\ UNCHANGED app
         ELSE EnterReceive
    /\ UNCHANGED <<hid, inEp, replying, epTimeout, waited, locked, owed>>

\* While a status has been sent, its event is received and thrown away, ...
TakeTurn ==
    /\ pc = "turn" /\ statusSent
    /\ Drop /\ pc' = "drained" /\ statusSent' = FALSE
    /\ UNCHANGED <<flags, tx, nested, locked, owed>>

\* ... a status is sent and one more event is received: tickers and events of the
\* user interface are not handled.
Drained ==
    /\ pc = "drained"
    /\ \/ /\ OutEvent \/ AckEvent \/ CapduEvent \/ QuietReset
          /\ pc' = "turn" /\ statusSent' = FALSE
       \/ LoudReset /\ Throw /\ statusSent' = FALSE
       \/ UNCHANGED <<vars, epTimeout>> /\ pc' = "turn" /\ statusSent' = FALSE
    /\ UNCHANGED <<flags, tx, nested, waited, locked, owed>>

\* What the buffer holds by now leaves by the media the state points to.
Send ==
    /\ pc = "turn" /\ ~statusSent
    /\ waited' = 0
    /\ \/ /\ apduState \in Interfaces
          /\ SendReply(Output(Len(tx))) /\ epTimeout' = TimeoutTicks /\ pc' = "wait"
       \/ /\ apduState = RAW
          /\ apduState' = IDLE /\ replying' = TRUE /\ pc' = "wait"
          /\ UNCHANGED <<hid, apduMedia, apduLength, apduBuf, inEp, epTimeout>>
       \/ apduState = IDLE /\ Throw /\ UNCHANGED <<vars, epTimeout>>
    /\ UNCHANGED <<flags, tx, nested, statusSent, locked, owed>>

\* One event of the wait for the end of the reply.  The time spent is looked at
\* before the event is.
Wait ==
    /\ pc = "wait" /\ (apduState # IDLE \/ statusSent)
    /\ IF waited >= TimeoutTicks
         THEN Throw /\ Drop /\ statusSent' = FALSE
         ELSE Handle("wait")
    /\ UNCHANGED <<flags, tx, nested, locked, owed>>

\* The reply has been sent: the exchange is closed and io_exchange returns, ends the
\* application, or waits for the next command.
EndSend ==
    /\ pc = "wait" /\ apduState = IDLE /\ ~statusSent
    /\ apduState' = IDLE /\ apduMedia' = NONE /\ apduLength' = 0
    /\ replying' = FALSE /\ owed' = NONE
    /\ IF "RETURN_AFTER_TX" \in flags
         THEN /\ pc' = IF nested THEN "receive" ELSE "app"
              /\ nested' = FALSE
         ELSE /\ pc' = IF "RESET_AFTER_REPLIED" \in flags THEN "ended" ELSE "receive"
              /\ UNCHANGED nested
    /\ flags' = {} /\ tx' = <<>>
    /\ statusSent' = nested
    /\ UNCHANGED <<hid, apduBuf, inEp, epTimeout, waited, locked>>

CommandReady == apduState # IDLE /\ apduLength > 0

\* One event of the wait for a command, after a status.
Receive ==
    /\ pc = "receive" /\ ~CommandReady /\ ~nested
    /\ \/ Handle("receive")
       \/ /\ Malformed
          /\ apduState' = IDLE /\ apduLength' = 0
          /\ pc' = pc /\ statusSent' = FALSE
          /\ UNCHANGED <<hid, apduMedia, apduBuf, inEp, replying, epTimeout, waited>>
    /\ UNCHANGED <<flags, tx, nested, locked, owed>>

AnswerItself(f, a) == flags' = f /\ tx' = a /\ apduBuf' = Written(a) /\ pc' = "turn"

Command == Output(apduLength)

\* A command has been received: the device refuses it while it is locked, answers
\* the default ones, and hands the others to the application.
Dispatch ==
    /\ pc = "receive" /\ CommandReady
    /\ \/ locked /\ AnswerItself({}, LockedReply)
       \/ ~locked /\ Kind(Command) = "version" /\ AnswerItself({}, VersionReply)
       \/ ~locked /\ Kind(Command) = "exit" /\ AnswerItself({"RESET_AFTER_REPLIED"}, ExitReply)
       \/ /\ ~locked /\ Kind(Command) = "app"
          /\ flags' = {} /\ tx' = <<>> /\ pc' = "app" /\ UNCHANGED apduBuf
    /\ owed' = apduMedia
    /\ UNCHANGED <<hid, app, inEp, replying, nested, statusSent, epTimeout, waited, locked>>

-----------------------------------------------------------------------------
(* The application, and what is around it. *)

AppAnswers ==
    /\ pc = "app" /\ owed # NONE
    /\ \E a \in AppReplies, f \in {{}, {"RETURN_AFTER_TX"}} : Exchange(f, a)
    /\ UNCHANGED <<nested, statusSent>>

AppWaits ==
    /\ pc = "app"
    /\ Exchange(IF owed # NONE THEN {"ASYNCH_REPLY"} ELSE {}, <<>>)
    /\ UNCHANGED <<nested, statusSent>>

\* From io_event, in the wait of an asynchronous reply, the application replies and
\* goes back to the wait.  What it has displayed may have sent a status.
AppAnswersInEvent ==
    /\ pc = "receive" /\ ~CommandReady /\ owed # NONE /\ ~nested
    /\ \E a \in AppReplies : Exchange({"RETURN_AFTER_TX"}, a)
    /\ nested' = TRUE /\ statusSent' \in BOOLEAN

\* os_io_seph_recv_and_process while the application works on a command, ...
AppPumps ==
    /\ pc = "app" /\ owed # NONE
    /\ \/ Handle("app")
       \/ UNCHANGED <<vars, epTimeout, waited>> /\ pc' = "app" /\ statusSent' = FALSE
    /\ UNCHANGED <<flags, tx, nested, locked, owed>>

\* The PIN is validated, or the device locks itself.
Lock ==
    /\ locked' = ~locked
    /\ UNCHANGED <<vars, pc, flags, tx, nested, statusSent, epTimeout, waited, owed>>

\* The application is started again: io_seproxyhal_init, USB power off and on.
Relaunch ==
    /\ pc = "ended"
    /\ Restart
    /\ pc' = "app" /\ flags' = {} /\ tx' = <<>> /\ nested' = FALSE
    /\ statusSent' = FALSE /\ epTimeout' = 0 /\ waited' = 0 /\ owed' = NONE
    /\ UNCHANGED locked

Progress == TakeTurn \/ Drained \/ Send \/ Wait \/ EndSend \/ Receive \/ Dispatch
Application == AppAnswers \/ AppWaits \/ AppAnswersInEvent \/ AppPumps

IoNext == Progress \/ Application \/ Lock \/ Relaunch

IoSpec == IoInit /\ [][IoNext]_ioAll

-----------------------------------------------------------------------------
(* Properties. *)

\* A command that is to be answered has a state that says where the answer goes:
\* io_exchange never meets APDU_IDLE and never throws INVALID_STATE.
ReplyPossible == pc \in {"turn", "drained"} => apduState # IDLE

\* From its dispatch to the end of its answer, a command keeps the media it came from
\* and, as long as there is a state, the state points there: an answer never leaves by
\* another media than its command's, whatever is pumped, dropped or waited for before
\* it may leave.
AnsweredWhereAsked ==
    owed # NONE /\ pc # "ended" => apduMedia = owed /\ apduState \in {owed, IDLE}

\* An endpoint counts down only for a report that has not been read: no
\* EXCEPTION_IO_RESET for a reply that was acknowledged.
ArmedMeansOutstanding == pc # "ended" /\ epTimeout > 0 => inEp[Iface] # <<>>

\* From its dispatch to the end of its answer, nothing is written over a command but
\* the answer, and nothing over the answer, whether the state is kept, zeroed by an
\* asynchronous wait or idled by an acknowledgement or a malformed event.
KeepsCommand ==
    owed # NONE /\ owed' = owed /\ pc' # "ended"
        => /\ UNCHANGED apduMedia
           /\ apduBuf' = apduBuf \/ (pc' = "turn" /\ pc \in {"app", "receive"})

CommandKept == [][KeepsCommand]_ioAll

\* io_exchange implements the exchange of CommandResponse: a command is owed from
\* its dispatch until the end of its answer.
Phase == CASE pc = "ended" -> "down"
           [] pc # "ended" /\ replying -> "answering"
           [] pc # "ended" /\ ~replying /\ owed # NONE -> "taken"
           [] OTHER -> "free"

Exchanged == INSTANCE CommandResponse
    WITH Media <- Interfaces \cup {RAW}, NoMedia <- NONE,
         phase <- Phase, media <- IF Phase \in {"taken", "answering"} THEN apduMedia ELSE NONE

CommandResponseSpec == Exchanged!Spec

\* What the scheduling of the device gives: the thread runs, and the MCU sends
\* ticker events whatever the host does.
IoFairness ==
    /\ WF_ioAll(TakeTurn) /\ WF_ioAll(Drained) /\ WF_ioAll(Send)
    /\ WF_ioAll(EndSend) /\ WF_ioAll(Dispatch)
    /\ WF_ioAll(Wait /\ (waited' # waited \/ waited >= TimeoutTicks))

IoFairSpec == IoSpec /\ IoFairness

\* A reply ends, sent or given up, even if the host never reads it.
ReplyEnds == pc \in {"turn", "drained", "wait"} ~> pc \notin {"turn", "drained", "wait"}
=============================================================================
