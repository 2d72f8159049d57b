---------------------------------- MODULE Screen ----------------------------------
(* Text on the screen: cut in lines and pages (ux_layout_paging_compute.c),     *)
(* drawn in a box, and scrolled when it is wider than its box (bagl.c).         *)
EXTENDS Codec

CONSTANTS
    Line,         \* PIXEL_PER_LINE
    XWord         \* a position in a text is a number below XWord

\* Widths in pixels, of the characters 32 to 127.
RegularWidths == <<
    3, 3, 4, 7, 6, 9, 8, 2, 3, 3, 6, 6, 3, 4, 3, 4, 6, 6, 6, 6, 8, 6, 6, 6, 6, 6, 3, 3, 6, 6, 6, 5,
    10, 7, 7, 7, 8, 6, 6, 8, 8, 3, 4, 7, 6, 10, 8, 9, 7, 9, 7, 6, 7, 8, 7, 10, 6, 6, 6, 4, 4, 4, 6, 5,
    6, 6, 7, 5, 7, 6, 5, 6, 7, 3, 4, 6, 3, 10, 7, 7, 7, 7, 4, 5, 4, 7, 6, 9, 6, 6, 5, 4, 6, 4, 6, 7>>
ExtraboldWidths == <<
    3, 3, 6, 7, 6, 10, 9, 3, 4, 4, 6, 6, 3, 4, 3, 5, 8, 6, 7, 7, 8, 6, 8, 7, 8, 8, 3, 3, 5, 6, 5, 6,
    10, 8, 7, 7, 8, 6, 6, 8, 8, 4, 5, 8, 6, 11, 9, 9, 7, 9, 8, 6, 6, 8, 6, 11, 8, 7, 7, 5, 5, 5, 7, 6,
    7, 7, 7, 6, 7, 7, 6, 7, 7, 4, 5, 7, 4, 10, 7, 7, 7, 7, 5, 6, 5, 7, 7, 10, 7, 7, 6, 5, 6, 5, 6, 6>>
CharHeight == 12
Baseline == 9
Kerning == 0

NL == 10
CR == 13
Newlines == {NL, CR}
Delims == {32, NL, 9, 45, 95}   \* space, newline, tab, dash, underscore
InFont(c) == c \in 32 .. 127
FontWidth(bold, c) == IF bold THEN ExtraboldWidths[c - 31] ELSE RegularWidths[c - 31]
\* What a font does not have takes no room, but for the extra space it may ask for.
WidthOf(bold, c) == CASE InFont(c) -> FontWidth(bold, c)
                      [] c >= 192 -> c % 64
                      [] OTHER -> 0
FirstLine(text) == LET ends == {k \in DOMAIN text : text[k] \in Newlines} IN
    IF ends = {} THEN text ELSE SubSeq(text, 1, (CHOOSE k \in ends : \A i \in ends : k <= i) - 1)
LineWidth(bold, text) == FoldLeft(LAMBDA w, c : w + WidthOf(bold, c), 0, FirstLine(text))

\* A device whose screen is not its own has the widths only: se_compute_line_width_light,
\* se_get_cropped_length (of printable characters).
LightWidth(bold, text) == FoldLeft(LAMBDA w, c : IF InFont(c) THEN w + FontWidth(bold, c) ELSE w, 0, FirstLine(text))
CroppedLength(bold, text, limit) ==
    LET over == {n \in DOMAIN text : FoldLeft(LAMBDA w, c : w + FontWidth(bold, c), 0, SubSeq(text, 1, n)) > limit}
    IN IF over = {} THEN Len(text) ELSE (CHOOSE n \in over : \A i \in over : n <= i) - 1

(*---------------------------------------------------------------------------*)
(* Lines and pages.  `light`: no font, and the text is measured in the font it  *)
(* is shown in; with fonts it is measured in the regular one.                   *)
Measured(light, bold, text) == IF light THEN LightWidth(bold, text) ELSE LineWidth(FALSE, text)

\* What fits in a line, up to the newline that ends it.
Fitting(light, bold, text) ==
    LET fit(n) == /\ Measured(light, bold, SubSeq(text, 1, n)) <= Line
                  /\ \A k \in 1 .. n - 1 : text[k] # NL
        fits == {n \in 0 .. Len(text) : \A k \in 0 .. n : fit(k)}
    IN CHOOSE n \in fits : \A k \in fits : k <= n

\* mutant: a line is cut at spaces only
CutAtSpaces(light, bold, text) ==
    LET n == Fitting(light, bold, text)
        spaces == {k \in 2 .. n : text[k] = 32}
    IN IF n < Len(text) /\ spaces # {} /\ text[n] \notin Delims /\ text[n + 1] \notin Delims
       THEN (CHOOSE k \in spaces : \A i \in spaces : i <= k) - 1 ELSE n
\* The length of a line.  The last delimiter is no place to cut when it starts the line.
Cut(light, bold, text) ==
    LET n == Fitting(light, bold, text)
        delims == {k \in 1 .. n : text[k] \in Delims}
        last == CHOOSE k \in delims : \A i \in delims : i <= k
    IN IF n < Len(text) /\ delims # {} /\ last # 1 /\ text[n] \notin Delims /\ text[n + 1] \notin Delims
       THEN last - 1 ELSE n

\* A character wider than a line would not end.
CutLines(light, bold, text) ==
    LET lines[k \in 0 .. Len(text)] ==
          IF k = Len(text) THEN << >>
          ELSE LET n == Cut(light, bold, SubSeq(text, k + 1, Len(text)))
               IN <<[offset |-> k, length |-> n]>> \o lines[k + n]
    IN lines[0]

\* ux_layout_paging_compute, for the number of pages of `per` lines, and for one of them.
Pages(lines, per) == IF lines = << >> THEN 1 ELSE (Len(lines) + per - 1) \div per
PageLines(lines, per, page) ==
    IF page >= Pages(lines, per) THEN << >>
    ELSE SubSeq(lines, page * per + 1, Least((page + 1) * per, Len(lines)))

(*---------------------------------------------------------------------------*)
(* bagl_draw_string.  pen: where it writes, what it has drawn, and `ch`, which  *)
(* holds the last character, less the first one of the font when it is printable *)
(* (so that "-" is then taken for "\r").                                        *)
StartPen(x, y) == [x |-> x, y |-> y, ch |-> 0, drawn |-> << >>, stopped |-> FALSE]
AsIndex(c) == IF InFont(c) THEN c - 32 ELSE c

NextLine(pen, x, bottom) ==
    [pen EXCEPT !.y = @ + CharHeight, !.x = IF pen.y + 2 * CharHeight > bottom THEN @ ELSE x,
                !.stopped = pen.y + 2 * CharHeight > bottom]

DrawChar(bold, pen, c, x, right, bottom) == LET
        wrapped == IF pen.x + WidthOf(bold, c) > right THEN NextLine(pen, x, bottom) ELSE pen
    IN CASE pen.stopped -> pen
         [] pen.ch = CR /\ c = NL -> [pen EXCEPT !.ch = NL]
         [] c \in Newlines /\ ~(pen.ch = CR /\ c = NL) -> [NextLine(pen, x, bottom) EXCEPT !.ch = c]
         [] c \notin Newlines /\ wrapped.stopped -> wrapped
         [] OTHER -> [wrapped EXCEPT
                !.ch = AsIndex(c),
                !.drawn = Append(@, [char |-> c, x |-> wrapped.x, y |-> wrapped.y]),
                !.x = @ + WidthOf(bold, c) + (IF InFont(c) THEN Kerning ELSE 0)]

DrawString(bold, x, y, width, height, text) ==
    FoldLeft(LAMBDA pen, c : DrawChar(bold, pen, c, x, x + width, y + height), StartPen(x, y), text)

\* The label of a component: aligned on the width of its first line.
Aligned(align, room, size) ==
    LET shift == CASE align = "left" -> 0
                   [] align = "right" -> room - size
                   [] align = "center" -> room \div 2 - size \div 2
    IN IF shift > 0 THEN shift ELSE 0
DrawLabel(bold, align, width, height, text) ==
    LET shift == Aligned(align, width, LineWidth(bold, text))
    IN DrawString(bold, shift, 0, width - shift, height, text)

(*---------------------------------------------------------------------------*)
(* bagl_animate: one call that is due.  x holds the position of the box in the *)
(* text, below XWord, and above it the phase of the scroll; both wrap.  `in`:   *)
(* text, width of the box, step in pixels, once.                              *)
Left == 0      \* towards the end of the text
AtEnd == 1
Right == 2     \* back to its start
AtStart == 3
Stalled == 4
Lost == 15     \* no phase: x went below 0
Phase(x) == x \div XWord
Low(x) == x % XWord
Wrapped(n) == (n + 16 * XWord) % (16 * XWord)
From(text, idx) == SubSeq(text, idx + 1, Len(text))
StartOf(text, idx) == LineWidth(FALSE, text) - LineWidth(FALSE, From(text, idx))

Animate(in, s) == LET
        total == LineWidth(FALSE, in.text)
        start == StartOf(in.text, s.idx)
        shown == Wrapped(Low(s.x) - start)
        past == shown >= LineWidth(FALSE, SubSeq(in.text, s.idx + 1, s.idx + 1))
        back == Low(s.x) - in.step
    IN CASE total <= in.width \/ Phase(s.x) \in {Stalled, Lost} -> s
         [] Phase(s.x) = Left /\ ~past -> [s EXCEPT !.x = @ + in.step]
         [] Phase(s.x) = Left /\ past ->
                [s EXCEPT !.idx = @ + 1,
                          !.x = IF Wrapped(total - start - shown) <= in.width
                                THEN start + shown + AtEnd * XWord ELSE @ + in.step]
         [] Phase(s.x) = AtEnd -> [s EXCEPT !.x = Low(@) + Right * XWord]
         [] Phase(s.x) = Right /\ past /\ start = 0 -> [idx |-> 0, x |-> AtStart * XWord]
         [] Phase(s.x) = Right /\ ~(past /\ start = 0) ->
                [idx |-> IF past THEN s.idx - 1 ELSE s.idx,
                 x |-> IF back < 0 THEN Wrapped(back) ELSE back + Right * XWord]
         [] Phase(s.x) = AtStart -> [s EXCEPT !.x = IF in.once THEN Stalled * XWord ELSE 0]

\* What an application reckons, in ms, for the label to go and come back: characters of
\* `average` pixels, `speed` pixels a second, pauses in tenths of a second.
RoundtripDuration(text, width, average, speed, pause) ==
    IF Len(text) * average <= width THEN 0
    ELSE (2 * (Len(text) * average - width) * 1000) \div speed + 2 * pause * 100
=================================================================================
