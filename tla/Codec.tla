---------------------------------- MODULE Codec ----------------------------------
(* The conversions of lib_standard_app, as functions of their inputs: numbers   *)
(* and varints in bytes, BIP32 paths, base 58, and numbers as text.             *)
(* What a function writes is the sequence of cells it writes from the start of  *)
(* its destination, which the caller has cleared.  Base is the number of values *)
(* of a byte in what is read and written as numbers; characters, the bytes of   *)
(* base 58 and those shown in hexadecimal have their real values.               *)
EXTENDS Printf

CONSTANTS Base, MaxPath, MaxDecode, MaxEncode

NUL == "NUL"
Bad == 58
Least(a, b) == IF a < b THEN a ELSE b
Refused == [ok |-> FALSE, out |-> << >>]
Accepted(out) == [ok |-> TRUE, out |-> out]

(*---------------------------------------------------------------------------*)
(* Numbers and varints.                                                       *)
Number(bytes, order) ==
    FoldLeft(LAMBDA n, b : n * Base + b, 0, IF order = "BE" THEN bytes ELSE Reverse(bytes))
Written(n, value, order) ==
    LET bytes == [k \in 1 .. n |-> (value \div Base ^ (n - k)) % Base]
    IN IF order = "BE" THEN bytes ELSE Reverse(bytes)

VarintSize(value) ==
    CASE value <= Base - 4 -> 1
      [] value \in (Base - 3) .. (Base ^ 2 - 1) -> 3
      [] value \in (Base ^ 2) .. (Base ^ 4 - 1) -> 5
      [] OTHER -> 9

PrefixOf(n) == CASE n = 3 -> Base - 3 [] n = 5 -> Base - 2 [] n = 9 -> Base - 1
VarintWrite(value) == LET n == VarintSize(value) IN
    IF n = 1 THEN <<value>> ELSE <<PrefixOf(n)>> \o Written(n - 1, value, "LE")

VarintRead(in) ==
    IF in = << >> THEN [length |-> -1, value |-> 0]
    ELSE IF in[1] \notin {PrefixOf(n) : n \in {3, 5, 9}} THEN [length |-> 1, value |-> in[1]]
    ELSE LET n == CHOOSE n \in {3, 5, 9} : PrefixOf(n) = in[1] IN
         IF Len(in) < n THEN [length |-> -1, value |-> 0]
         ELSE [length |-> n, value |-> Number(SubSeq(in, 2, n), "LE")]

(*---------------------------------------------------------------------------*)
(* BIP32 paths: numbers of four bytes, their highest bit apart.               *)
PathRead(in, n) ==
    IF n \notin 1 .. MaxPath \/ 4 * n > Len(in) THEN Refused
    ELSE Accepted([i \in 1 .. n |-> Number(SubSeq(in, 4 * i - 3, 4 * i), "BE")])

Piece(conv, chars, value) ==
    [conv |-> conv, chars |-> chars, value |-> value, width |-> 0, fill |-> " ", prec |-> -1]
Pieces(path, i) ==
    <<Piece("u", << >>, path[i] % (Word \div 2))>>
    \o (IF path[i] >= Word \div 2 THEN <<Piece("text", <<"'">>, 0)>> ELSE << >>)
    \o (IF i # Len(path) THEN <<Piece("text", <<"/">>, 0)>> ELSE << >>)

\* A piece that snprintf has cut is shorter than its room too: the test passes it.
AppendPiece(outLen, r, piece) == LET text == Snprintf(outLen - Len(r.out), <<piece>>) IN
    IF ~r.ok \/ text = << >> \/ Len(text) >= outLen - Len(r.out) THEN Refused
    ELSE Accepted(r.out \o text)

PathFormat(path, outLen) ==
    IF Len(path) \notin 1 .. MaxPath THEN Refused
    ELSE LET r == FoldLeft(LAMBDA s, p : AppendPiece(outLen, s, p), Accepted(<< >>),
                           FlattenSeq([i \in DOMAIN path |-> Pieces(path, i)]))
         IN IF r.ok THEN Accepted(Append(r.out, NUL)) ELSE Refused

(*---------------------------------------------------------------------------*)
(* Base 58, on digits 0 .. 57 in place of characters (Bad: no digit).       *)
\* mutant: a zero counts wherever it is
LeadingZerosAnywhere(s) == Cardinality({k \in DOMAIN s : s[k] = 0})
LeadingZeros(s) == Cardinality({k \in DOMAIN s : \A i \in 1 .. k : s[i] = 0})
DropZeros(s) == SubSeq(s, LeadingZeros(s) + 1, Len(s))

\* tmp is divided by 256 from its digit `start`; the remainder is put in front of buffer.
DivideRound(s, start) ==
    LET Divide(r, k) == LET v == r.rem * 58 + r.tmp[k]
                        IN [tmp |-> [r.tmp EXCEPT ![k] = v \div 256], rem |-> v % 256]
        r == FoldLeft(Divide, [tmp |-> s.tmp, rem |-> 0], [k \in 1 .. Len(s.tmp) - start + 1 |-> start + k - 1])
    IN [tmp |-> r.tmp, buffer |-> <<r.rem>> \o s.buffer]

\* The first digit of a quotient is 0, so that each round starts one digit further.
Base58Decode(in, outLen) ==
    IF Len(in) \notin 2 .. MaxDecode \/ \E k \in DOMAIN in : in[k] = Bad THEN Refused
    ELSE LET zeros == LeadingZeros(in)
             start == [k \in 1 .. Len(in) - zeros |-> zeros + k]
             s == FoldLeft(DivideRound, [tmp |-> in, buffer |-> << >>], start)
             out == Copies(zeros, 0) \o DropZeros(s.buffer)
         IN IF outLen < Len(out) THEN Refused ELSE Accepted(out)

\* The inner loop, from cell j (counted from 0) down; stop_at - 1 wraps below 0, and j
\* is -1, which is the largest size_t, when the loop comes to its end.
RECURSIVE Carry(_, _, _, _)
Carry(buffer, j, carry, stopAt) ==
    IF j < 0 THEN [buffer |-> buffer, stopAt |-> -1]
    ELSE LET v == carry + 256 * buffer[j + 1]
             b == SubSeq(buffer, 1, j) \o <<v % 58>> \o SubSeq(buffer, j + 2, Len(buffer))
         IN IF v \div 58 = 0 /\ (stopAt <= 0 \/ j <= stopAt - 1)
            THEN [buffer |-> b, stopAt |-> j]
            ELSE Carry(b, j - 1, v \div 58, stopAt)

Base58Encode(in, outLen) ==
    IF Len(in) > MaxEncode THEN Refused
    ELSE LET zeros == LeadingZeros(in)
             size == ((Len(in) - zeros) * 138) \div 100 + 1
             s == FoldLeft(LAMBDA r, b : Carry(r.buffer, size - 1, b, r.stopAt),
                           [buffer |-> Copies(size, 0), stopAt |-> size - 1], DropZeros(in))
             out == Copies(zeros, 0) \o DropZeros(s.buffer)
         IN IF outLen < Len(out) THEN Refused ELSE Accepted(out)

(*---------------------------------------------------------------------------*)
(* Numbers as text.                                                           *)
RECURSIVE Decimal(_)
Decimal(n) == IF n > 9 THEN Append(Decimal(n \div 10), Hex[(n % 10) + 1]) ELSE <<Hex[n + 1]>>

FormatI64(value, dstLen) ==
    LET text == IF value < 0 THEN <<"-">> \o Decimal(-value) ELSE Decimal(value)
    IN IF dstLen < Len(text) + 1 THEN Refused ELSE Accepted(Append(text, NUL))

\* The room for a number of one digit and its NUL is not checked.
FormatU64(value, outLen) == LET text == Decimal(value) IN
    IF outLen = 0 \/ (Len(text) > 1 /\ Len(text) > outLen - 1) THEN Refused
    ELSE Accepted(Append(text, NUL))

\* strncpy
CopyPadded(s, n) == [k \in 1 .. n |-> IF k <= Len(s) THEN s[k] ELSE NUL]

FormatFpu64(value, decimals, dstLen) ==
    LET digits == Decimal(value)
        zeros == decimals - Len(digits)
    IN IF zeros >= 0
       THEN IF dstLen <= 2 + zeros THEN Refused
            ELSE Accepted(<<"0", ".">> \o Copies(zeros, "0") \o CopyPadded(digits, dstLen - 2 - zeros))
       ELSE IF dstLen <= Len(digits) + 1 + decimals THEN Refused
            ELSE Accepted(SubSeq(digits, 1, -zeros) \o <<".">> \o SubSeq(digits, 1 - zeros, Len(digits)))

\* The text in a destination that was clear before.
Text(cells) == SelectSeq(cells, LAMBDA c : c # NUL)
LastKept(text) ==
    LET kept == {k \in DOMAIN text : text[k] # "0" /\ \A i \in k + 1 .. Len(text) : text[i] = "0"}
    IN IF kept = {} THEN 0 ELSE CHOOSE k \in kept : TRUE

FormatFpu64Trimmed(value, decimals, dstLen) ==
    LET r == FormatFpu64(value, decimals, dstLen)
        text == Text(r.out)
        last == LastKept(text)
    IN IF ~r.ok THEN Refused
       ELSE IF last > 0 /\ text[last] = "." THEN Accepted(SubSeq(text, 1, last - 1))
       ELSE Accepted(SubSeq(text, 1, last))

FormatHex(in, outLen) ==
    IF outLen < 2 * Len(in) + 1 THEN Refused
    ELSE Accepted(FlattenSeq([k \in DOMAIN in |-> HexByte(in[k], TRUE)]) \o <<NUL>>)

(*---------------------------------------------------------------------------*)
(* Commands and what an exchange asks of an application.                      *)
ApduParse(buf) ==
    IF Len(buf) < 4 \/ (Len(buf) > 4 /\ Len(buf) - 5 # buf[5]) THEN Refused
    ELSE Accepted([header |-> SubSeq(buf, 1, 4), lc |-> IF Len(buf) = 4 THEN 0 ELSE buf[5],
                   data |-> SubSeq(buf, 6, Len(buf))])

SwapNumber(src) == IF Len(src) > 8 THEN Refused ELSE Accepted(Number(src, "BE"))

SwapConfig(config, tickerLen) ==
    IF config = << >> \/ config[1] = 0 \/ config[1] >= tickerLen - 1 \/ Len(config) - 1 < config[1] + 1
    THEN Refused
    ELSE Accepted([ticker |-> SubSeq(config, 2, config[1] + 1), decimals |-> config[config[1] + 2]])

\* The reply to GET_VERSION, in a buffer of `room` bytes.  The system gives a tag as far as
\* there is room after it was counted; what is left is a size, which wraps.
AppNameAndVersion(name, version, flags, room) == LET
        counted(tag, left) == LET n == IF left < 0 THEN Len(tag) ELSE Least(left, Len(tag))
                              IN <<n>> \o SubSeq(tag, 1, n)
        named == <<1>> \o counted(name, room - 2)
    IN named \o counted(version, room - Len(named) - 1) \o <<1, flags, 144, 0>>

(*---------------------------------------------------------------------------*)
(* os.c.                                                                      *)
\* os_parse_bertlv: the values in mem, until one has an encoding that is wrong or no byte
\* of its own.  The last one may be cut.
Tlvs(mem) ==
    LET long(k) == IF mem[k + 2] > 128 THEN mem[k + 2] - 128 ELSE 0
        whole(k) == mem[k + 2] # 128 /\ k + 2 + long(k) < Len(mem)
        at(k) == [tag |-> mem[k + 1], value |-> k + 2 + long(k),
                  length |-> IF long(k) = 0 THEN mem[k + 2]
                             ELSE FoldLeft(LAMBDA n, b : n * 256 + b, 0, SubSeq(mem, k + 3, k + 2 + long(k)))]
        from[k \in Nat] == IF k + 2 > Len(mem) \/ ~whole(k) THEN << >>
                           ELSE <<at(k)>> \o from[at(k).value + at(k).length]
    IN from[0]

\* The part asked for of the first value of the tag from `start` on: copied, compared with
\* `buffer`, or its length.  `start` becomes the place of the last one seen.  What is left
\* of mem is not reduced by `offset`.
TlvPart(mem, seen, wanted, start, offset, mode, buffer, max) == LET
        t == Head(wanted)
        left == Len(mem) - t.value
        n == Least(max, Least(t.length - offset, left))
        bytes == SubSeq(mem, t.value + offset + 1, t.value + offset + n)
        reached == CASE wanted # << >> -> t.value
                     [] wanted = << >> /\ seen # << >> -> Last(seen).value
                     [] OTHER -> start
        result(ret) == [start |-> reached, ret |-> ret, out |-> IF mode = "copy" THEN bytes ELSE << >>]
        none == [start |-> reached, ret |-> 0, out |-> << >>]
    IN CASE wanted = << >> -> none
         [] wanted # << >> /\ (offset > Least(t.length, left) \/ (mode = "compare" /\ t.length - offset # max)
                               \/ t.value + offset + n > Len(mem)) -> none
         [] mode = "compare" -> result(IF bytes = SubSeq(buffer, 1, n) THEN 1 ELSE 0)
         [] mode = "length" -> result(Least(t.length - offset, left))
         [] OTHER -> result(n)
ParseTlv(mem, start, tag, offset, mode, buffer, max) ==
    LET seen == SelectSeq(Tlvs(mem), LAMBDA t : t.tag = tag)
    IN TlvPart(mem, seen, SelectSeq(seen, LAMBDA t : t.value >= start), start, offset, mode, buffer, max)
=================================================================================
