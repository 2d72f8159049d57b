--------------------------------- MODULE Printf ---------------------------------
(* The formatted output of os_printf.c: snprintf, which stops where its         *)
(* destination ends, and the printf of the log, which does not.  A format is    *)
(* a sequence of directives, each with its argument: plain text, a character,   *)
(* numbers, strings, bytes in hexadecimal, and spaces in place of an empty      *)
(* string ("%*s").                                                              *)
EXTENDS Integers, Sequences, SequencesExt

CONSTANTS Word,   \* unsigned int and unsigned long are numbers below Word
          PcBuf   \* size of pcBuf, in which a number is converted (its capacity is not checked)

ASSUME WordAssumption == Word \in Nat /\ Word % 2 = 0 /\ PcBuf \in Nat

\* A directive: conv, chars (characters, or bytes for "h" and "H"), value below Word,
\* width, fill, and prec: the precision of "%.*s", -1 without one, or the count of "%*s".
Hex == <<"0", "1", "2", "3", "4", "5", "6", "7", "8", "9", "a", "b", "c", "d", "e", "f">>
HexCap == <<"0", "1", "2", "3", "4", "5", "6", "7", "8", "9", "A", "B", "C", "D", "E", "F">>
Shown(digits, cap) == [k \in DOMAIN digits |-> (IF cap THEN HexCap ELSE Hex)[digits[k] + 1]]
Copies(n, char) == [k \in 1 .. n |-> char]

(*---------------------------------------------------------------------------*)
(* Numbers.                                                                   *)
\* The power of the base in front of the first digit, found with a product that wraps.
RECURSIVE Highest(_, _, _)
Highest(value, base, idx) ==
    LET next == (idx * base) % Word IN
    IF next <= value /\ next \div base = idx THEN Highest(value, base, next) ELSE idx

RECURSIVE DigitsFrom(_, _, _)
DigitsFrom(value, base, idx) ==
    IF idx = 0 THEN << >>
    ELSE <<(value \div idx) % base>> \o DigitsFrom(value, base, idx \div base)

Negative(d) == d.conv = "d" /\ d.value >= Word \div 2
BaseOf(d) == IF d.conv \in {"d", "u"} THEN 10 ELSE 16

\* Padding is counted down with the digits, and wraps when there are more of them.
Convert(d) == LET
        value == IF Negative(d) THEN Word - d.value ELSE d.value
        sign == IF Negative(d) THEN <<"-">> ELSE << >>
        digits == DigitsFrom(value, BaseOf(d), Highest(value, BaseOf(d), 1))
        count == (d.width - (Len(digits) - 1) - Len(sign)) % Word
        pad == IF count \in 2 .. 15 THEN Copies(count - 1, d.fill) ELSE << >>
    IN (IF d.fill = "0" THEN sign \o pad ELSE pad \o sign) \o Shown(digits, d.conv = "X")

(*---------------------------------------------------------------------------*)
(* Strings.                                                                   *)
Given(d) == IF d.prec < 0 THEN d.chars ELSE SubSeq(d.chars, 1, d.prec)
HexByte(byte, cap) == Shown(<<byte \div 16, byte % 16>>, cap)
Padding(d) == Copies(IF d.width > Len(Given(d)) THEN d.width - Len(Given(d)) ELSE 0, " ")

(*---------------------------------------------------------------------------*)
(* snprintf: what has been written, and whether it has returned.              *)
Put(out, chars) == LET n == IF Len(chars) < out.room THEN Len(chars) ELSE out.room IN
    IF out.done THEN out
    ELSE [text |-> out.text \o SubSeq(chars, 1, n), room |-> out.room - n, done |-> n = out.room]

\* mutant: half a byte is written when there is room for no more
PutByteHalf(out, byte, cap) ==
    IF out.done \/ out.room < 1 THEN [out EXCEPT !.done = TRUE]
    ELSE LET n == out.room - 2
         IN [text |-> out.text \o HexByte(byte, cap), room |-> IF n > 0 THEN n ELSE 0, done |-> n <= 0]
PutByte(out, byte, cap) ==
    IF out.done \/ out.room < 2 THEN [out EXCEPT !.done = TRUE] ELSE Put(out, HexByte(byte, cap))

\* Bytes in hexadecimal are never padded: the width is their counter.
PutDirective(out, d) ==
    CASE d.conv \in {"text", "%", "c"} -> Put(out, d.chars)
      [] d.conv \in {"d", "u", "x", "p", "X"} -> Put(out, Convert(d))
      [] d.conv = "s" -> Put(Put(out, Given(d)), Padding(d))
      [] d.conv \in {"h", "H"} -> FoldLeft(LAMBDA o, b : PutByte(o, b, d.conv = "H"), out, Given(d))
      [] d.conv = "*" -> Put(out, IF d.chars = << >> THEN Copies(d.prec, " ") ELSE << >>)
      [] d.conv = "other" -> out

\* The destination is cleared first, and its last byte is never used.
Snprintf(size, format) ==
    IF size < 2 THEN << >>
    ELSE FoldLeft(PutDirective, [text |-> << >>, room |-> size - 1, done |-> FALSE], format).text

(*---------------------------------------------------------------------------*)
(* screen_printf: everything is sent, and what is unknown is said.            *)
LogNumber(d) == Convert(d)
LogBytes(d) == FlattenSeq([k \in DOMAIN Given(d) |-> HexByte(Given(d)[k], d.conv = "H")])
LogString(d) ==
    CASE d.conv = "s" -> Given(d) \o Padding(d)
      [] d.conv \in {"h", "H"} -> LogBytes(d)
      [] d.conv = "*" /\ d.chars = << >> -> Copies(d.prec + 1, " ")
      [] d.conv = "*" /\ d.chars # << >> -> <<"E", "R", "R", "O", "R">>
Logged(d) ==
    CASE d.conv \in {"text", "%", "c"} -> d.chars
      [] d.conv \in {"d", "u", "x", "p", "X"} -> LogNumber(d)
      [] d.conv \in {"s", "h", "H", "*"} -> LogString(d)
      [] d.conv = "other" -> <<"E", "R", "R", "O", "R">>

ScreenPrintf(format) == FlattenSeq([k \in DOMAIN format |-> Logged(format[k])])
=================================================================================
