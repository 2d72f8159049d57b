----------------------------------- MODULE Pumps -----------------------------------
(* The loops in which an application waits for the user by receiving the        *)
(* events of the MCU itself: the screen of an application under review           *)
(* (checks.c, ux.h), a dialog of the system and the heartbeat                    *)
(* (os_io_seproxyhal.c).  The MCU sends an event for each status.  A pump goes   *)
(* by a script of events, "ticker", "display" (an element was), "both" (the     *)
(* buttons, released) and "usb", and stops when there is none left.             *)
EXTENDS Codec

CONSTANTS
    ReviewElements,      \* of ui_audited_elements
    ReviewTag, ReviewVal \* CHECK_NOT_AUDITED_TLV_TAG, CHECK_NOT_AUDITED_TLV_VAL

\* answers: io_event of the application sends the status that nothing else has sent, as
\* that of lib_standard_app does.  again, stuck: statuses sent for an event that had one,
\* receptions that no status asks for.
PumpStart(events, answers) ==
    [events |-> events, event |-> "none", sent |-> FALSE, answers |-> answers, shown |-> 0,
     callback |-> FALSE, over |-> FALSE, again |-> 0, stuck |-> 0]

SendStatus(s) ==
    IF s.over THEN s ELSE IF s.sent THEN [s EXCEPT !.again = @ + 1] ELSE [s EXCEPT !.sent = TRUE]
Recv(s) ==
    IF s.over \/ s.events = << >> THEN [s EXCEPT !.over = TRUE]
    ELSE [s EXCEPT !.events = Tail(@), !.sent = FALSE,
                   !.event = Head(s.events), !.stuck = IF s.sent THEN @ ELSE @ + 1]

\* UX_DISPLAY_NEXT_ELEMENT: an element is a status.
ShowNext(s) == IF s.shown < ReviewElements /\ ~s.sent /\ ~s.over THEN [SendStatus(s) EXCEPT !.shown = @ + 1] ELSE s
ElementsButton(s) == IF s.event = "both" THEN [s EXCEPT !.callback = FALSE] ELSE s

IoEvent(s) == LET shown == ShowNext(ElementsButton(s)) IN
    IF s.answers /\ ~shown.sent THEN SendStatus(shown) ELSE shown
HandleEvent(s) == IF s.over \/ s.event = "usb" THEN s ELSE IoEvent(s)

RECURSIVE WaitDisplayed(_)
WaitDisplayed(s) ==
    IF s.over THEN s
    ELSE IF s.shown >= ReviewElements THEN Recv(SendStatus(HandleEvent(Recv(s))))
    ELSE WaitDisplayed(ShowNext(HandleEvent(Recv(s))))

RECURSIVE WaitConfirmed(_)
WaitConfirmed(s) == LET t == SendStatus(HandleEvent(Recv(s))) IN
    IF ~t.over /\ t.sent /\ t.callback THEN WaitConfirmed(t) ELSE t

\* `parameters`: what the application was installed with.
UnderReview(parameters) ==
    \E found \in {ParseTlv(parameters, 0, ReviewTag, 0, "copy", << >>, 1)} :
        found.ret > 0 /\ found.out = <<ReviewVal>>
CheckAuditedApp(parameters, s) ==
    IF ~UnderReview(parameters) THEN s
    ELSE Recv(WaitConfirmed(SendStatus(WaitDisplayed(ShowNext([s EXCEPT !.callback = TRUE])))))

\* os_ux_blocking while no other task pumps: the user answers the dialog with the last event.
RECURSIVE OsUxBlocking(_)
OsUxBlocking(s) == IF s.events = << >> THEN s ELSE OsUxBlocking(IoEvent(Recv(SendStatus(s))))

\* io_seproxyhal_io_heartbeat
RECURSIVE Beat(_)
Beat(s) == LET t == Recv(s) u == IF t.event # "ticker" THEN HandleEvent(t) ELSE t IN
    IF u.sent /\ ~u.over THEN Beat(u) ELSE u
Heartbeat(s) == Beat(SendStatus(s))
RECURSIVE Beats(_)
Beats(s) == IF s.over THEN s ELSE Beats(Heartbeat(s))
\* assert_display_exit: until the button of its screen leaves the application.  A build whose
\* screen is a flow draws the first element of it before the first heartbeat (ux_flow_init).
AssertDisplayExit(flow, s) == Beats(IF flow THEN ShowNext(s) ELSE s)
=================================================================================
