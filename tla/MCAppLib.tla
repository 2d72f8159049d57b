--------------------------------- MODULE MCAppLib ---------------------------------
(* AppLib with bytes of eight values where they are numbers, so that a varint  *)
(* of nine bytes stays below 2^31; four of them make an unsigned int.                     *)
EXTENDS AppLib

MCInputs == {<< >>, <<4, 1, 2>>, <<5, 1, 2, 3, 4>>, <<6, 1, 2, 3, 4, 7, 7, 0, 3>>,
             <<7, 1, 2, 3, 4, 5, 6, 7, 1>>, <<3, 7, 7, 7, 7, 0, 0, 0, 5>>, <<7, 0, 1>>}
MCSizes == (0 .. 9) \cup {12, 16, 61, 63}
MCValues == {0, 1, 4, 5, 9, 10, 63, 64, 99, 100, 4095, 4096, 1000, 1000000, 16777215}
MCDecimals == {0, 1, 2, 3, 5}
MCPaths == {<< >>, <<0>>, <<2047>>, <<2048 + 44, 2048, 1234>>, <<1, 2, 3, 4>>, <<2048 + 44, 2048>>}

D(conv, value, width, fill) ==
    [conv |-> conv, chars |-> << >>, value |-> value, width |-> width, fill |-> fill, prec |-> -1]
S(conv, chars, width, prec) ==
    [conv |-> conv, chars |-> chars, value |-> 0, width |-> width, fill |-> " ", prec |-> prec]
Numbers == {D(c, v, w, f) : c \in {"d", "u", "x", "X"}, v \in {0, 9, 10, 16, 255, 2048, 3000, 4095},
                            w \in {0, 1, 4, 6, 15, 16}, f \in {" ", "0"}}
Strings == {S("s", <<"o", "k">>, 4, -1), S("s", <<"o", "k">>, 0, 1), S("*", << >>, 0, 3), S("*", <<"o">>, 0, 3),
            S("h", <<7, 255, 16>>, 0, -1), S("H", <<171, 0, 3>>, 0, 2), S("other", << >>, 0, -1)}
Literals == {S("text", <<"a", "b">>, 0, -1), S("%", <<"%">>, 0, -1), S("c", <<"z">>, 0, -1)}
MCFormats == {<<d>> : d \in Numbers}
             \cup {<<d, e, f>> : d \in Literals, e \in Strings, f \in {D("d", 2500, 0, " "), S("text", <<"!">>, 0, -1)}}

Upto(set, n) == UNION {[1 .. k -> set] : k \in 0 .. n}
MCBytes58 == Upto({0, 1, 57, 58, 255}, 3)
MCDigits58 == Upto({0, 1, 57, Bad}, 4)
MCCommands == {SubSeq(<<1, 2, 3, 4, lc, 9, 9, 9>>, 1, n) : lc \in 0 .. 3, n \in 0 .. 8}
MCConfigs == {SubSeq(<<n, 1, 2, 3, 4>>, 1, k) : n \in 0 .. 4, k \in 0 .. 5}

MCKeys == {[size |-> 12, bits |-> b] : b \in {96, 93, 90, 89}} \cup {[size |-> 13, bits |-> 104], [size |-> 11, bits |-> 88]}
\* An exponent of 65 by default; of no byte, of some, of all and of one too many.
MCDefaultE == <<0, 1, 0, 1>>
MCExponents == {<< >>, <<3>>, <<1, 3>>, <<0, 0, 0, 7>>, <<0, 0, 1, 1>>, <<0, 0, 0, 0, 5>>}
MCTags == {<< >>, <<1>>, <<2, 3>>, <<4, 5, 6, 7, 8>>}

MCHashLen == [h \in {"sha", "sha3", "other"} |-> IF h = "other" THEN 0 ELSE 2]
MCOid == [h \in {"sha", "sha3", "other"} |-> CASE h = "sha" -> <<48, 5>> [] h = "sha3" -> <<48, 6>> [] OTHER -> << >>]
MCLabel == [h \in {"sha", "sha3", "other"} |-> IF h = "sha" THEN <<209, 74>> ELSE << >>]
V(tag, bytes, long) == [tag |-> tag, bytes |-> bytes, long |-> long]
MCTlvLists == {<<V(1, <<8>>, FALSE), V(2, <<8, 9>>, FALSE), V(1, <<9, 9>>, FALSE)>>,
               <<V(2, << >>, FALSE), V(2, <<8, 9, 9>>, TRUE)>>, <<V(1, <<8, 9, 9>>, FALSE)>>, <<V(2, << >>, TRUE)>>,
               <<V(1, <<8, 9>>, TRUE), V(2, <<9>>, FALSE), V(2, << >>, FALSE)>>}
MCHashes == {<<0, 1>>, <<255, 0>>, <<0, 1, 2>>}
MCMessages == {<< >>, <<0>>, <<7, 0>>, <<1, 0, 36, 255>>, <<0, 0, 1, 2, 3, 4, 5, 6, 7>>}

\* Characters of 6 and 10 pixels, of 7 and 11 when bold; a space of 3, a dash of 4.
Narrow == 97
Wide == 87
Space == 32
MCTexts == Upto({Narrow, Wide, Space, Dash, NL}, 4) \cup Upto({Narrow, CR, NL}, 3)
           \cup {f \o g : f, g \in {<<Narrow, Narrow, Space>>, <<Wide, Dash, Narrow>>, <<Space, Wide, Narrow, Narrow>>}}
\* A step is no longer than a character; character 1 has no width.
MCScrolls == [text : {<<Narrow, Wide, Narrow, Narrow, Wide, Narrow>>, <<Wide, Wide, Narrow>>, <<1, Narrow, Wide, Wide>>},
              width : {12, 25, 60}, step : {2, 5}, once : BOOLEAN]

E(icon, line2, menu, userid, callback) ==
    [icon |-> icon, line2 |-> line2, menu |-> menu, userid |-> userid, callback |-> callback]
MCMenus == <<<<E(TRUE, TRUE, 0, 0, FALSE), E(FALSE, FALSE, 2, 1, FALSE), E(FALSE, FALSE, 3, 7, TRUE), E(FALSE, TRUE, 0, 0, TRUE)>>,
             <<E(FALSE, FALSE, 0, 4, TRUE), E(FALSE, FALSE, 0, 5, TRUE), E(FALSE, FALSE, 1, 1, FALSE)>>,
             <<E(TRUE, FALSE, 1, 2, FALSE)>>>>
Qr(n, min, max, mask, room) ==
    [data |-> [k \in 1 .. n |-> (37 * k * k + n) % 256], min |-> min, max |-> max, mask |-> mask, room |-> room]
\* One block and two, of one length (version 7) and of two (10), lengths of one byte and of two,
\* as much as a version holds and a byte more, a version too many, no room.
MCQrCalls == {Qr(n, 1, 10, m, 500) : n \in {0, 17, 18}, m \in {-1, 3}}
             \cup {Qr(53, 1, 40, m, 500) : m \in {0, 4, 7}}
             \cup {Qr(154, 1, 40, 5, 500), Qr(230, 8, 9, 6, 500), Qr(231, 1, 40, 2, 500), Qr(5, 6, 9, 1, 500)}
             \cup {Qr(18, 1, 1, 0, 500), Qr(400, 1, 10, -1, 500), Qr(17, 1, 40, 0, 56), Qr(17, 1, 40, 0, 57)}
Shaped(type, w, h, s, r, filled) ==
    [ScreenBox(w, h) EXCEPT !.type = type, !.x = 3, !.y = 2, !.stroke = s, !.radius = r, !.filled = filled]
MCComponents == {Shaped(type, w, h, IF f THEN 0 ELSE s, r, f) : type \in {"rectangle", "button"}, w \in {1, 6, 11, 12},
                                                         h \in {6, 9}, r \in {0, 1, 3, 4}, s \in {1, 2}, f \in BOOLEAN}
                \cup {Shaped("circle", 9, 9, IF f THEN 0 ELSE 1, r, f) : r \in 1 .. 7, f \in BOOLEAN}
                \cup {Shaped("line", 9, 1, 0, 0, TRUE), Shaped("line", 9, 5, 1, 2, FALSE)}
\* Texts of less and more than four characters, that fit and do not.
MCLabels == [component : {[Shaped(type, w, h, 0, 0, TRUE) EXCEPT !.align = align, !.valign = v] :
                type \in {"label", "labeline", "button"}, w \in {12, 18, 31, 44, 70}, h \in {14, 30},
                align \in {"left", "center", "right"}, v \in {"top", "middle", "bottom"}},
             text : {<<Narrow>>, <<Narrow, Wide, Narrow>>, <<Narrow, Wide, Dash, Narrow, Space>>,
                     <<Wide, Wide, Narrow, Space, Wide, Dash, Wide, Narrow>>, <<Narrow, Narrow, Narrow, Narrow, Wide, Wide, Wide>>}]
Glyph(id, w, h, bpp) == [id |-> id, width |-> w, height |-> h, bpp |-> bpp]
MCDefaultGlyphs == <<Glyph(1, 7, 8, 1), Glyph(2, 10, 12, 2), Glyph(1, 12, 5, 2)>>
MCCustomGlyphs == <<Glyph(2, 3, 3, 1), Glyph(4, 8, 8, 4)>>
MCIcons == {[bitmap |-> b, width |-> w, height |-> h, bpp |-> p] :
                b \in BOOLEAN, w \in {1, 7, 16, 33, 320}, h \in {1, 16, 57, 480}, p \in {1, 2, 4}}

\* Two elements that overlap and one that is not to be touched; another screen.
Touchable(x, y, w, h, t) == [x |-> x, y |-> y, width |-> w, height |-> h, brim |-> 1, touchable |-> t]
MCTouchArrays == <<<<Touchable(0, 0, 30, 10, FALSE), Touchable(0, 0, 10, 10, TRUE), Touchable(8, 0, 10, 10, TRUE)>>,
                   <<Touchable(0, 0, 10, 10, TRUE)>>>>
MCPoints == {<<3, 3>>, <<9, 10>>, <<18, 5>>, <<25, 5>>}

\* A TRY in another one; what throws, or leaves, is anywhere.
Mark(n) == <<[do |-> "mark", id |-> n]>>
Throw(ex) == <<[do |-> "throw", ex |-> ex]>>
Leave == <<[do |-> "leave"]>>
Try(body, catches, other, finally) ==
    <<[do |-> "try", body |-> body, catches |-> catches, other |-> other, finally |-> finally]>>
Clause(ex, body) == <<[ex |-> ex, body |-> body]>>
InnerBlocks == {Try(b, c, o, f) :
    b \in {Mark(1), Throw(1), Throw(2), <<[do |-> "close"]>> \o Leave, Leave},
    c \in {<< >>, Clause(1, Mark(2)), Clause(1, Throw(1)), Clause(2, Throw(1)), Clause(1, Leave)},
    o \in {<< >>, <<Mark(3)>>, <<Throw(2)>>}, f \in {Mark(4), Throw(1), Leave}}
MCBlocks == {Try(Mark(5) \o i \o Mark(6), c, o, Mark(9)) \o Mark(10) : i \in InnerBlocks,
                c \in {<< >>, Clause(1, Mark(7))}, o \in {<< >>, <<Mark(8)>>}}
            \cup {Try(Throw(2), << >>, <<i>>, Mark(9)) : i \in InnerBlocks}
            \cup {Try(b, Clause(1, Mark(7)), << >>, i) : b \in {Mark(1), Throw(1), Throw(2)}, i \in InnerBlocks}
\* Events enough to show the three elements of the screen and confirm it.
MCEvents == Upto({"ticker", "display", "both", "usb"}, 3)
            \cup {<<"display", a, "display">> \o s : a \in {"display", "usb"}, s \in [1 .. 4 -> {"display", "both", "usb"}]}
MCInstalled == {<<V(1, <<1>>, FALSE), V(159, <<1>>, FALSE)>>, <<V(159, <<2>>, FALSE), V(159, <<1>>, FALSE)>>,
                << >>, <<V(159, << >>, FALSE), V(1, <<1>>, FALSE)>>}
MCUnchanged == -1
MCTurners == {<<2000, 3000>>, <<1000>>}
=================================================================================
