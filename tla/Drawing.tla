---------------------------------- MODULE Drawing ----------------------------------
(* A component drawn on the screen (bagl_draw_with_context): the rectangles it *)
(* fills, round corners and circles included, the text over them, and the      *)
(* bitmap of an icon.  component: [type, x, y, width, height, stroke, radius,   *)
(* filled, bold, align, valign].                                               *)
EXTENDS Screen

CONSTANTS
    Ellipsis,     \* HAVE_BAGL_ELLIPSIS
    DefaultGlyphs, CustomGlyphs  \* of the library, of the application: [id, width, height, bpp]

Rect(color, x, y, width, height) == [color |-> color, x |-> x, y |-> y, width |-> width, height |-> height]

(*---------------------------------------------------------------------------*)
(* bagl_draw_circle_helper: line y of an octant is x pixels long.  Octants 1 to *)
(* 4 are below the centre; the even ones have x and y swapped.  A circle with  *)
(* an inner radius is `color` on its outer `ring` pixels and `inside` in it.   *)
CircleLine(radius) == LET line[y \in 0 .. radius] ==
        IF y = 0 THEN [x |-> radius, over |-> 1 - radius, last |-> radius]
        ELSE LET p == line[y - 1] IN
             IF p.over <= 0 THEN [x |-> p.x, over |-> p.over + 2 * y + 1, last |-> p.x]
             ELSE [x |-> p.x - 1, over |-> p.over + 2 * (y - (p.x - 1)) + 1, last |-> p.x]
    IN line
InRing(radius, radiusint) == radiusint > 0 /\ radius > radiusint

OctantLine(k, y, p, cx, cy, color, ring, carved, inside) == LET
        steep == k % 2 = 0
        right == k \in {1, 2, 5, 6}
        long == IF steep THEN y ELSE p.x
        away == IF steep THEN p.x ELSE y
        row == IF k > 4 THEN cy - away ELSE IF carved THEN cy + away ELSE cy + away - 1
        left == IF right THEN cx ELSE cx - long
    IN IF carved
       THEN (IF ~steep \/ p.last # p.x THEN <<Rect(inside, left, row, long - (ring - 1), 1)>> ELSE << >>)
            \o <<Rect(color, (IF right THEN cx + long ELSE cx - long) - (ring - 1), row, ring, 1)>>
       ELSE <<Rect(color, left, row, long, 1)>>

Circle(color, cx, cy, radius, octants, radiusint, inside) == LET
        line == CircleLine(radius)
        drawn == SelectSeq([k \in 1 .. radius + 1 |-> k - 1], LAMBDA y : y <= line[y].x)
        asked == SelectSeq(<<1, 2, 3, 4, 5, 6, 7, 8>>, LAMBDA k : k \in octants)
    IN FlattenSeq([i \in DOMAIN drawn |-> FlattenSeq([j \in DOMAIN asked |->
          OctantLine(asked[j], drawn[i], line[drawn[i]], cx, cy, color,
                     radius - radiusint, InRing(radius, radiusint), inside)])])

\* A filled corner, or one whose stroke reaches the centre, has no inside.
InnerRadius(c, radius) == IF ~c.filled /\ c.stroke < radius THEN radius - c.stroke ELSE 0
Disc(c) == Circle("fg", c.x + c.radius, c.y + c.radius, c.radius, 1 .. 8, InnerRadius(c, c.radius), "bg")

Corners(c, r) == LET
        left == c.x + r
        right == c.x + c.width - r - c.stroke
        top == c.y + r
        bottom == c.y + c.height - r - c.stroke
        corner(cx, cy, octants) == Circle("fg", cx, cy, r, octants, InnerRadius(c, r), "bg")
    IN IF r <= 1 THEN << >>
       ELSE corner(left, top, {7, 8}) \o corner(right, top, {5, 6})
            \o corner(left, bottom, {3, 4}) \o corner(right, bottom, {1, 2})

Outline(c, r) ==
    <<Rect("fg", c.x + r, c.y, c.width - 2 * r, c.stroke),
      Rect("fg", c.x + r, c.y + c.height - 1, c.width - 2 * r, c.stroke),
      Rect("fg", c.x, c.y + r, c.stroke, c.height - 2 * r),
      Rect("fg", c.x + c.width - 1, c.y + r, c.stroke, c.height - 2 * r)>>
Inner(c, r) == LET color == IF c.filled THEN "fg" ELSE "bg" IN
    <<Rect(color, c.x + r, c.y, c.width - 2 * r, c.height),
      Rect(color, c.x, c.y + r, r, c.height - 2 * r),
      Rect(color, c.x + c.width - r - (IF c.filled THEN 0 ELSE 1), c.y + r, r, c.height - 2 * r)>>
CornerRadius(c) == Least(c.radius, Least(c.width \div 2, c.height \div 2))

\* What is under the text.  The y of a "labeline" is the one of its base line.
Shape(c) == LET r == CornerRadius(c) IN
    CASE c.type = "line" /\ c.radius = 0 -> <<Rect("fg", c.x, c.y, c.width, c.height)>>
      [] c.type = "label" -> <<Rect("bg", c.x, c.y, c.width, c.height)>>
      [] c.type = "labeline" -> <<Rect("bg", c.x, c.y - Baseline, c.width, c.height)>>
      [] c.type = "circle" -> Disc(c)
      [] OTHER -> Inner(c, r) \o (IF c.filled THEN << >> ELSE Outline(c, r)) \o Corners(c, r)

(*---------------------------------------------------------------------------*)
(* The text.  bagl_compute_line_width stops before a character that would not   *)
(* be within the limit.                                                       *)
WidthWithin(bold, limit, text) == LET
        line == FirstLine(text)
        width(n) == LineWidth(bold, SubSeq(line, 1, n))
        within == {n \in 0 .. Len(line) : width(n) <= limit}
    IN width(CHOOSE n \in within : \A k \in within : k <= n)
Dots == <<46, 46, 46>>

\* A text too long is cut in two halves; a character is taken from the end of the first
\* one, then from the start of the second one, and so on until both fit with the dots.
Half(text) == Len(text) \div 2
FirstPart(text, n) == SubSeq(text, 1, Half(text) - (n + 1) \div 2)
LastPart(text, n) == SubSeq(text, Half(text) + n \div 2 + 1, Len(text))
EllipsisWidth(bold, width, text, n) ==
    WidthWithin(bold, width, FirstPart(text, n)) + WidthWithin(bold, 100, Dots)
    + WidthWithin(bold, width, LastPart(text, n))
Removed(bold, width, text) == LET
        enough == {n \in 0 .. Len(text) : \/ EllipsisWidth(bold, width, text, n) <= width
                                          \/ FirstPart(text, n) = << >> \/ LastPart(text, n) = << >>}
    IN CHOOSE n \in enough : \A k \in enough : n <= k

Shortened(c, text) == Ellipsis /\ Len(text) > 4 /\ WidthWithin(c.bold, c.width + 100, text) > c.width
\* A width that does not fit aligns as the width of the box does.
TextWidth(c, text, n) ==
    IF Shortened(c, text) THEN Least(c.width, EllipsisWidth(c.bold, c.width, text, n))
    ELSE WidthWithin(c.bold, c.width + 100, text)
Lowered(c) == CASE c.type = "labeline" -> -Baseline
                [] c.valign = "top" -> 0
                [] c.valign = "bottom" -> c.height - Baseline
                [] c.valign = "middle" -> c.height \div 2 - Baseline \div 2 - 1

\* The pens that draw it: one, or one for each part and the dots between them.
TextPens(c, text, n, shift) == LET
        pen(x, part) == DrawString(c.bold, x, c.y + Lowered(c), c.width - shift,
                                   c.height - (IF c.type = "labeline" THEN 0 ELSE Lowered(c)), part)
        first == pen(c.x + shift, FirstPart(text, n))
        dots == pen(first.x % 65536, Dots)
    IN IF Shortened(c, text) THEN <<first, dots, pen(dots.x % 65536, LastPart(text, n))>>
       ELSE <<pen(c.x + shift, text)>>
DrawText(c, text) ==
    IF text = << >> \/ c.type \in {"line", "circle"} THEN << >>
    ELSE LET n == Removed(c.bold, c.width, text)
         IN TextPens(c, text, n, Aligned(c.align, c.width, TextWidth(c, text, n)))
Ink(c) == IF c.type \in {"button", "rectangle"} /\ c.filled THEN "bg" ELSE "fg"

DrawComponent(c, text) == [shape |-> Shape(c), pens |-> DrawText(c, text), ink |-> Ink(c)]
\* bagl_draw_bg
ScreenBox(width, height) ==
    [type |-> "rectangle", x |-> 0, y |-> 0, width |-> width, height |-> height, stroke |-> 0,
     radius |-> 0, filled |-> TRUE, bold |-> FALSE, align |-> "left", valign |-> "top"]

(*---------------------------------------------------------------------------*)
(* Icons.  context: how many bytes of colours come with the component, and if   *)
(* it is for the application's glyphs.                                        *)
GlyphOf(glyphs, id) == LET found == {k \in DOMAIN glyphs : glyphs[k].id = id} IN
    IF found = {} THEN "none" ELSE glyphs[CHOOSE k \in found : \A i \in found : i <= k]
Bitmap(x, y, width, height, bpp) ==
    [x |-> x, y |-> y, width |-> width, height |-> height, colors |-> 2 ^ bpp, bpp |-> bpp, bits |-> bpp * width * height]
DrawIcon(c, id, custom, colorbytes) == LET
        glyphs == IF custom /\ CustomGlyphs # << >> THEN CustomGlyphs ELSE DefaultGlyphs
        glyph == GlyphOf(glyphs, id)
    IN IF ~\E k \in DOMAIN glyphs : glyphs[k].id = id THEN << >>
       ELSE IF colorbytes \notin {0, 4 * 2 ^ glyph.bpp} THEN << >>
       ELSE <<Bitmap(c.x + c.width \div 2 - glyph.width \div 2, c.y + c.height \div 2 - glyph.height \div 2,
                     glyph.width, glyph.height, glyph.bpp)>>
=================================================================================
