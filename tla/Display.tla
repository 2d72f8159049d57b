---------------------------------- MODULE Display ----------------------------------
(* What an application sends to a screen that is not its own, and what it makes *)
(* of the touches (os_io_seproxyhal.c): the statuses that carry an element or   *)
(* the packets of an icon, and the elements pressed, left and tapped.          *)
EXTENDS Screen

CONSTANTS
    SpiBuffer,      \* IO_SEPROXYHAL_BUFFER_SIZE_B
    ComponentSize,  \* sizeof(bagl_component_t)
    TouchArrays     \* the screens: sequences of [x, y, width, height, brim, touchable]

(*---------------------------------------------------------------------------*)
(* Packets: the length they announce after their three first bytes, and what   *)
(* is in them: a header, colours, and `len` bytes of the bitmap from `from`.   *)
Packet(announced, header, colors, from, len) ==
    [announced |-> announced, header |-> header, colors |-> colors, from |-> from, len |-> len]
RawStart == 13      \* sizeof(raw)
RawContinued == 4
ColorTable(bpp) == 4 * 2 ^ bpp
BitmapLen(icon) == (icon.width * icon.height * icon.bpp + 7) \div 8

\* io_seproxyhal_display_icon_header_and_colors; the table of colours fits in the packet.
FirstLen(icon) == Least(SpiBuffer - RawStart, BitmapLen(icon) + ColorTable(icon.bpp)) - ColorTable(icon.bpp)
RawFirst(icon) == Packet(FirstLen(icon) + ColorTable(icon.bpp) + RawStart - 3, RawStart, ColorTable(icon.bpp),
                         0, FirstLen(icon))
RawNext(icon, from) == LET len == Least(SpiBuffer - RawContinued, BitmapLen(icon) - from) IN
    Packet(len + 1, RawContinued, 0, from, len)
\* Before each of the next packets an event is received, and dropped.
DisplayRaw(icon) == LET
        next[from \in 0 .. BitmapLen(icon)] ==
            IF from = BitmapLen(icon) THEN << >>
            ELSE <<RawNext(icon, from)>> \o next[from + RawNext(icon, from).len]
    IN <<RawFirst(icon)>> \o next[FirstLen(icon)]

\* A length is on two bytes.
DisplayIcon(icon, raw, sent) ==
    IF ~icon.bitmap THEN << >>
    ELSE IF raw THEN DisplayRaw(icon)
    ELSE IF sent THEN << >>
    ELSE <<Packet((ComponentSize + 1 + ColorTable(icon.bpp) + BitmapLen(icon)) % 65536,
                  3 + ComponentSize + 1, ColorTable(icon.bpp), 0, BitmapLen(icon))>>

DisplayBitmap(icon, raw, sent) ==
    IF icon.width = 0 \/ icon.height = 0 THEN << >> ELSE DisplayIcon(icon, raw, sent)

\* io_seproxyhal_display_default.  element: [type, id, text, length, icon]; the text of an
\* icon without an id is its bitmap, of anything else a string, known by its length.
DisplayDefault(element, raw, sent) == LET
        len == IF element.text THEN element.length ELSE 0
    IN CASE element.type = "none" -> << >>
         [] element.type = "icon" /\ element.id = 0 /\ element.text -> DisplayIcon(element.icon, raw, sent)
         [] element.type # "none" /\ ~(element.type = "icon" /\ element.id = 0 /\ element.text) ->
                IF sent THEN << >> ELSE <<Packet((ComponentSize + len) % 65536, 3 + ComponentSize, 0, 0, len)>>

(*---------------------------------------------------------------------------*)
(* Touches (TARGET_BLUE).  An element is named by its screen and its place in   *)
(* it.  touch: [last, pressed, ...]: the element remembered, those last drawn   *)
(* as pressed, and of the last event the statuses sent, the element tapped and *)
(* what was pressed before it.  event: [screen, x, y, kind, sent, out, in,      *)
(* agrees]: whether a status was already sent, what comes of the out callback  *)
(* and of the over or tap one, and whether before_display draws what is hit.  *)
(* A callback is "shown", or "refused", or it "drew" or "drew, refused"       *)
(* something of its own, which is the status there can be.                    *)
Nothing == <<0, 0>>
NoTouch == [last |-> Nothing, pressed |-> {}, statuses |-> 0, tapped |-> Nothing, before |-> {}, event |-> [kind |-> "none"]]

Hits(e, event) == LET el == TouchArrays[e[1]][e[2]] IN
    /\ el.touchable
    /\ event.x \in el.x - el.brim .. el.x + el.width + el.brim - 1
    /\ event.y \in el.y - el.brim .. el.y + el.height + el.brim - 1

Agrees(reaction) == reaction \in {"shown", "drew"}
Calls(touch, reaction) == IF reaction = "refused" THEN touch ELSE [touch EXCEPT !.statuses = @ + 1]

TouchOut(touch, event) == LET t == Calls(touch, event.out) IN
    IF Agrees(event.out) THEN [t EXCEPT !.last = Nothing, !.pressed = @ \ {touch.last}] ELSE t
TouchTap(touch, event, e) == LET t == Calls(touch, event.in) IN
    IF Agrees(event.in) THEN [t EXCEPT !.last = Nothing, !.pressed = @ \ {e}, !.tapped = e] ELSE t
TouchOver(touch, event, e) == LET t == Calls(touch, event.in) IN
    IF ~Agrees(event.in) THEN t
    ELSE [t EXCEPT !.last = e, !.pressed = IF event.in = "shown" THEN @ \cup {e} ELSE @]

\* One element of the screen: what becomes of the touch, and if the function returns.
TouchElement(touch, event, e) ==
    LET other == touch.last \notin {Nothing, e} IN
    CASE ~Hits(e, event) -> [touch |-> touch, returns |-> FALSE]
      [] Hits(e, event) /\ other /\ ~event.agrees -> [touch |-> touch, returns |-> FALSE]
      [] Hits(e, event) /\ other /\ event.agrees -> [touch |-> TouchOut(touch, event), returns |-> Agrees(event.out)]
      [] Hits(e, event) /\ ~other /\ event.kind = "RELEASE" ->
            [touch |-> TouchTap(touch, event, e), returns |-> Agrees(event.in)]
      [] Hits(e, event) /\ ~other /\ event.kind = "TOUCH" ->
            [touch |-> TouchOver(touch, event, e), returns |-> Agrees(event.in)]

\* io_seproxyhal_touch_element_callback.  `seen`: the element remembered is of this screen.
TouchScreen(touch, event) == LET
        sent(t) == event.sent \/ t.statuses > 0
        begun == [touch EXCEPT !.statuses = 0, !.tapped = Nothing, !.before = touch.pressed, !.event = event]
        after[k \in 0 .. Len(TouchArrays[event.screen])] ==
            IF k = 0 THEN [touch |-> begun, returns |-> FALSE, seen |-> FALSE]
            ELSE LET v == after[k - 1] e == <<event.screen, k>> d == TouchElement(v.touch, event, e) IN
                 IF v.returns \/ sent(v.touch) THEN v
                 ELSE [touch |-> d.touch, returns |-> d.returns, seen |-> v.seen \/ v.touch.last = e]
        v == after[Len(TouchArrays[event.screen])]
    IN IF v.returns \/ ~v.seen \/ v.touch.last = Nothing \/ sent(v.touch) THEN v.touch
       ELSE TouchOut(v.touch, event)
=================================================================================
