----------------------------- MODULE StandardAppIo -----------------------------
(***************************************************************************)
(* The application-side input and output of lib_standard_app/io.c on top   *)
(* of IoExchange: the main loop of an application that calls               *)
(* io_recv_command, handles the command, and answers with                  *)
(* io_send_response_buffers, at once or from a callback of the user        *)
(* interface.  The response is written in the APDU buffer at that moment   *)
(* and only its length is kept.                                            *)
(***************************************************************************)
EXTENDS IoExchange

CONSTANTS
    Responses,    \* data and status word the handler may want to answer, of any length
    WrongLength   \* SW_WRONG_RESPONSE_LENGTH, in place of a response too long

ASSUME WrongLengthAssumption == WrongLength \in Replies
ASSUME ResponsesAssumption ==
    \A a \in Responses : Len(a) <= BufLen => a \in Replies

VARIABLES
    ioState,    \* G_io_state: "READY", "RECEIVED" or "WAITING"
    outputLen,  \* G_output_len
    asynch,     \* io_recv_command is in its asynchronous io_exchange
    handler,    \* "idle", "handling" a command, or "screen": the user is asked
    response    \* history: the response accepted for the command, or <<>>

appVars == <<ioState, outputLen, asynch, handler, response>>
stdAll == <<ioAll, appVars>>

StdInit ==
    /\ IoInit
    /\ ioState = "READY" /\ outputLen = 0 /\ asynch = FALSE
    /\ handler = "idle" /\ response = <<>>

\* What io_send_response_buffers leaves in the buffer for a response: its
\* fragments one after the other if they fit, an error otherwise.
Accepted(a) == IF Len(a) <= BufLen THEN a ELSE WrongLength

WriteResponse(a) == apduBuf' = Written(a)

-----------------------------------------------------------------------------
\* Mutant: the call that waits for the user is an ordinary one.
RecvCommandSync ==
    /\ pc = "app" /\ handler # "handling"
    /\ \/ /\ ioState = "READY" /\ ioState' = "RECEIVED"
          /\ Exchange({}, Output(outputLen)) /\ asynch' = FALSE
       \/ /\ ioState = "RECEIVED" /\ ioState' = "WAITING"
          /\ Exchange({}, Output(outputLen)) /\ asynch' = TRUE
    /\ UNCHANGED <<nested, statusSent, outputLen, handler, response>>

\* io_recv_command: the response of the handler leaves with the call when there is
\* one, otherwise the call waits for the answer of the user interface.
RecvCommand ==
    /\ pc = "app" /\ handler # "handling"
    /\ \/ /\ ioState = "READY" /\ ioState' = "RECEIVED"
          /\ Exchange({}, Output(outputLen)) /\ asynch' = FALSE
       \/ /\ ioState = "RECEIVED" /\ ioState' = "WAITING"
          /\ Exchange({"ASYNCH_REPLY"}, Output(outputLen)) /\ asynch' = TRUE
    /\ UNCHANGED <<nested, statusSent, outputLen, handler, response>>

\* io_exchange returns a command to io_recv_command, and that one to the handler.
Handled ==
    /\ Dispatch /\ pc' = "app"
    /\ ioState' = IF asynch THEN "RECEIVED" ELSE ioState
    /\ handler' = "handling" /\ response' = <<>>
    /\ UNCHANGED <<outputLen, asynch>>

\* The handler calls io_send_response_buffers.
Respond ==
    /\ pc = "app" /\ handler = "handling"
    /\ \E a \in Responses :
         /\ WriteResponse(Accepted(a)) /\ outputLen' = Len(Accepted(a))
         /\ response' = IF ioState = "READY" THEN response ELSE Accepted(a)
    /\ ioState' = "READY"
    /\ handler' = "idle"
    /\ UNCHANGED <<hid, app, inEp, replying, ioVars, asynch>>

\* The handler shows a screen and returns: the user will decide.
Ask ==
    /\ pc = "app" /\ handler = "handling"
    /\ handler' = "screen"
    /\ UNCHANGED <<ioAll, ioState, outputLen, asynch, response>>

\* The user decides: the callback, run by io_event inside the asynchronous wait,
\* calls io_send_response_buffers, which replies from there.
Decide ==
    /\ pc = "receive" /\ handler = "screen" /\ ~CommandReady /\ ~nested
    /\ ioState = "WAITING"
    /\ \E a \in Responses :
         /\ Exchange({"RETURN_AFTER_TX"}, Accepted(a))
         /\ outputLen' = Len(Accepted(a)) /\ response' = Accepted(a)
    /\ nested' = TRUE /\ statusSent' \in BOOLEAN
    /\ handler' = "idle"
    /\ UNCHANGED <<ioState, asynch>>

\* The callback's io_exchange returns.
Decided ==
    /\ EndSend /\ nested
    /\ outputLen' = 0 /\ ioState' = "READY"
    /\ UNCHANGED <<asynch, handler, response>>

Below ==
    /\ \/ TakeTurn \/ Drained \/ Send \/ Wait \/ Receive \/ Lock
       \/ EndSend /\ ~nested
       \/ Dispatch /\ pc' # "app"
    /\ UNCHANGED appVars

\* The next application starts: main, io_init and the first screen.
Start ==
    /\ Relaunch
    /\ ioState' = "READY" /\ outputLen' = 0 /\ asynch' = FALSE
    /\ handler' = "idle" /\ response' = <<>>

StdNext == RecvCommand \/ Handled \/ Respond \/ Ask \/ Decide \/ Decided \/ Below \/ Start

StdSpec == StdInit /\ [][StdNext]_stdAll

-----------------------------------------------------------------------------
\* The command being answered is one the application was given, rather than one
\* io_exchange answers itself.
OwnAnswer == pc \in {"turn", "drained"} /\ tx \notin {VersionReply, ExitReply, LockedReply}

\* What the buffer holds when the answer of the application may leave, over the length
\* io_exchange was given, is the response accepted for this command: never a length
\* left from an earlier response, never bytes written over it by an event received
\* meanwhile, and never while the user is still asked.
SendsItsResponse == OwnAnswer => Output(Len(tx)) = response /\ response # <<>>

StdFairness ==
    /\ WF_stdAll(RecvCommand) /\ WF_stdAll(Respond \/ Ask) /\ WF_stdAll(Decide) /\ WF_stdAll(Decided)
    /\ WF_stdAll(Start) /\ WF_stdAll(Handled)
    /\ WF_stdAll(Below /\ (TakeTurn \/ Drained \/ Send \/ EndSend \/ Dispatch))
    /\ WF_stdAll(Below /\ Wait /\ (waited' # waited \/ waited >= TimeoutTicks))

StdFairSpec == StdSpec /\ StdFairness

\* A command given to the application is answered, whether the handler answers at
\* once or the user decides, unless the exchange fails and the application ends.
Answers == owed # NONE ~> owed = NONE
=============================================================================
