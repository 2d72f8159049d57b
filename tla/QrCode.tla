---------------------------------- MODULE QrCode ----------------------------------
(* The QR codes an application shows (qrcodegen.c): bytes in codewords, with    *)
(* those that correct errors, drawn in a square of modules.  A bit is 0 or 1, a *)
(* codeword or a polynomial over two elements is the set of the positions of    *)
(* its ones, and a grid is the set of its black modules <<x, y>>.  The only    *)
(* level of correction there are tables for is the low one.                     *)
EXTENDS Integers, Sequences, SequencesExt, FiniteSetsExt

Versions == 1 .. 40
QrSize(v) == 4 * v + 17
BufferFor(v) == (QrSize(v) ^ 2 + 7) \div 8 + 1

\* By version: codewords of correction in a block, and blocks.
EccLen == <<7, 10, 15, 20, 26, 18, 20, 24, 30, 18, 20, 24, 26, 30, 22, 24, 28, 30, 28, 28,
            28, 28, 30, 30, 26, 28, 30, 30, 30, 30, 30, 30, 30, 30, 30, 30, 30, 30, 30, 30>>
EccBlocks == <<1, 1, 1, 1, 1, 2, 2, 2, 2, 4, 4, 4, 4, 4, 6, 6, 6, 6, 7, 8,
               8, 9, 9, 10, 12, 12, 12, 13, 14, 15, 16, 17, 18, 19, 19, 20, 21, 22, 24, 25>>

RawModules(v) == LET n == v \div 7 + 2 IN
    (16 * v + 128) * v + 64 - (IF v >= 2 THEN (25 * n - 10) * n - 55 ELSE 0) - (IF v >= 7 THEN 36 ELSE 0)
RawCodewords(v) == RawModules(v) \div 8
DataCodewords(v) == RawCodewords(v) - EccLen[v] * EccBlocks[v]

(*---------------------------------------------------------------------------*)
(* The bits of the data.                                                      *)
LengthBits(v) == IF v <= 9 THEN 8 ELSE 16
QrFits(v, n) == n < 2 ^ LengthBits(v) /\ 4 + LengthBits(v) + 8 * n <= 8 * DataCodewords(v)
FitVersion(min, max, n) == LET fit == {v \in min .. max : QrFits(v, n)} IN
    IF fit = {} THEN 0 ELSE Min(fit)

InBits(n, count) == [k \in 1 .. count |-> (n \div 2 ^ (count - k)) % 2]
Terminated(bits, capacity) ==
    LET ended == bits \o [k \in 1 .. Min({4, capacity - Len(bits)}) |-> 0]
        whole == ended \o [k \in 1 .. (8 - (Len(ended) % 8)) % 8 |-> 0]
    IN whole \o FlattenSeq([k \in 1 .. (capacity - Len(whole)) \div 8 |-> InBits(IF k % 2 = 1 THEN 236 ELSE 17, 8)])
QrDataBits(v, data) == Terminated(
    InBits(4, 4) \o InBits(Len(data), LengthBits(v)) \o FlattenSeq([k \in DOMAIN data |-> InBits(data[k], 8)]),
    8 * DataCodewords(v))
AsCodewords(bits) == [k \in 1 .. Len(bits) \div 8 |-> {i \in 0 .. 7 : bits[8 * k - i] = 1}]

(*---------------------------------------------------------------------------*)
(* Polynomials.                                                               *)
Ones(n) == {i \in 0 .. 17 : (n \div 2 ^ i) % 2 = 1}
Doubled(p, degree, modulus) == LET up == {i + 1 : i \in p} IN
    IF degree \in up THEN SymDiff(up, modulus) ELSE up
\* The remainder of x ^ degree * p.
Remainder(p, degree, modulus) == FoldLeft(LAMBDA r, i : Doubled(r, degree, modulus), p, [i \in 1 .. degree |-> i])
\* The field of the codewords.
DoubledByte == [z \in SUBSET (0 .. 7) |-> Doubled(z, 8, {0, 2, 3, 4, 8})]
Product(x, y) ==
    LET z[i \in 0 .. 8] == IF i = 8 THEN {} ELSE SymDiff(DoubledByte[z[i + 1]], IF i \in y THEN x ELSE {})
    IN z[0]
Power[i \in 0 .. 254] == CASE i = 0 -> {0}
                           [] i % 2 = 1 -> DoubledByte[Power[i - 1]]
                           [] OTHER -> LET half == Power[i \div 2] IN Product(half, half)

\* The generator: its first coefficient, 1, is not kept.
EccGenerator(degree) ==
    LET g[i \in 0 .. degree] ==
          IF i = 0 THEN <<{0}>>
          ELSE LET last == g[i - 1] up == Append(last, {}) down == <<{}>> \o last IN
               [j \in 1 .. i + 1 |-> SymDiff(up[j], Product(down[j], Power[i - 1]))]
    IN Tail(g[degree])
EccOf(block, generator) ==
    LET n == Len(generator)
        r[k \in 0 .. Len(block)] ==
          IF k = 0 THEN [j \in 1 .. n |-> {}]
          ELSE LET last == r[k - 1] shifted == Append(Tail(last), {}) factor == SymDiff(block[k], last[1]) IN
               IF block[k] = last[1] THEN shifted
               ELSE [j \in 1 .. n |-> SymDiff(shifted[j], Product(generator[j], factor))]
        rest == r[Len(block)]
    IN [j \in 1 .. n |-> rest[j]]

\* The blocks are of two lengths, the shorter ones first.
ShortBlocks(v) == EccBlocks[v] - (RawCodewords(v) % EccBlocks[v])
ShortLen(v) == RawCodewords(v) \div EccBlocks[v] - EccLen[v]
BlockStart(v, i) == (i - 1) * ShortLen(v) + Max({0, i - 1 - ShortBlocks(v)})
WithEcc(v, data) == LET generator == EccGenerator(EccLen[v]) IN
    data \o FlattenSeq([i \in 1 .. EccBlocks[v] |-> EccOf(SubSeq(data, BlockStart(v, i) + 1, BlockStart(v, i + 1)), generator)])

\* The first codewords of all blocks, the second ones, and so on.
Interleaved(v, data) == LET
        n == EccBlocks[v]
        all == WithEcc(v, data)
    IN FlattenSeq([j \in 1 .. ShortLen(v) |-> [i \in 1 .. n |-> all[BlockStart(v, i) + j]]])
       \o [i \in 1 .. n - ShortBlocks(v) |-> all[BlockStart(v, i + ShortBlocks(v)) + ShortLen(v) + 1]]
       \o FlattenSeq([j \in 1 .. EccLen[v] |-> [i \in 1 .. n |-> all[Len(data) + (i - 1) * EccLen[v] + j]]])

(*---------------------------------------------------------------------------*)
(* The modules that are no data.                                              *)
Filled(left, top, width, height) == (left .. left + width - 1) \X (top .. top + height - 1)
AlignPositions(v) == LET
        n == v \div 7 + 2
        step == IF v = 32 THEN 26 ELSE 2 * ((4 * v + 2 * n + 1) \div (2 * n - 2))
    IN IF v = 1 THEN {} ELSE {6} \cup {QrSize(v) - 7 - k * step : k \in 0 .. n - 2}
AlignCentres(v) == LET at == AlignPositions(v) last == QrSize(v) - 7 IN
    (at \X at) \ {<<6, 6>>, <<6, last>>, <<last, 6>>}
FunctionModules(v) == LET s == QrSize(v) IN
    UNION ({Filled(6, 0, 1, s), Filled(0, 6, s, 1), Filled(0, 0, 9, 9), Filled(s - 8, 0, 8, 9), Filled(0, s - 8, 9, 8)}
           \cup {Filled(c[1] - 2, c[2] - 2, 5, 5) : c \in AlignCentres(v)}
           \cup IF v >= 7 THEN {Filled(s - 11, 0, 3, 6), Filled(0, s - 11, 6, 3)} ELSE {})

Away(a, b) == Max({a - b, b - a})
Around(c, far) == {p \in Filled(c[1] - 4, c[2] - 4, 9, 9) : Max({Away(p[1], c[1]), Away(p[2], c[2])}) \in far}
WhiteModules(v) == LET s == QrSize(v) IN
    UNION {{<<6, i>>, <<i, 6>>} : i \in {i \in 7 .. s - 8 : i % 2 = 1}}
    \cup UNION {Around(c, {2, 4}) : c \in {<<3, 3>>, <<s - 4, 3>>, <<3, s - 4>>}}
    \cup UNION {Around(c, {1}) : c \in AlignCentres(v)}

\* The number of the version, twice.
VersionAt(v) == UNION {{[x |-> QrSize(v) - 11 + j, y |-> i, bit |-> 3 * i + j],
                        [x |-> i, y |-> QrSize(v) - 11 + j, bit |-> 3 * i + j]} : i \in 0 .. 5, j \in 0 .. 2}
VersionBits(v) == {i + 12 : i \in Ones(v)} \cup Remainder(Ones(v), 12, {0, 2, 5, 8, 9, 10, 11, 12})
FixedModules(v) ==
    IF v < 7 THEN FunctionModules(v) \ WhiteModules(v)
    ELSE (FunctionModules(v) \ WhiteModules(v)) \ {<<p.x, p.y>> : p \in {q \in VersionAt(v) : q.bit \notin VersionBits(v)}}

\* The level of correction and the mask, twice, and a module that is always black.
FormatAt(v) == LET s == QrSize(v) IN
    {[x |-> 8, y |-> i, bit |-> i] : i \in 0 .. 5}
    \cup {[x |-> 8, y |-> 7, bit |-> 6], [x |-> 8, y |-> 8, bit |-> 7], [x |-> 7, y |-> 8, bit |-> 8]}
    \cup {[x |-> 14 - i, y |-> 8, bit |-> i] : i \in 9 .. 14}
    \cup {[x |-> s - 1 - i, y |-> 8, bit |-> i] : i \in 0 .. 7}
    \cup {[x |-> 8, y |-> s - 15 + i, bit |-> i] : i \in 8 .. 14}
FormatBits(mask) == LET data == Ones(8 + mask) IN
    SymDiff({i + 10 : i \in data} \cup Remainder(data, 10, {0, 1, 2, 4, 5, 8, 10}), {1, 4, 10, 12, 14})
FormatDrawn(v, mask, black) == LET at == FormatAt(v) bits == FormatBits(mask) IN
    (black \ {<<p.x, p.y>> : p \in at}) \cup {<<p.x, p.y>> : p \in {q \in at : q.bit \in bits}} \cup {<<8, QrSize(v) - 8>>}

(*---------------------------------------------------------------------------*)
(* The modules of data, in the order they are drawn, and the mask.            *)
ScanPlace(v, k) == LET s == QrSize(v) turn == (k - 1) % (2 * s) even == s - 1 - 2 * ((k - 1) \div (2 * s))
                       right == IF even <= 6 THEN even - 1 ELSE even
                       up == ((right + 1) \div 2) % 2 = 0
    IN <<right - (turn % 2), IF up THEN s - 1 - (turn \div 2) ELSE turn \div 2>>
Scan(v) == LET reserved == FunctionModules(v) IN
    SelectSeq([k \in 1 .. QrSize(v) * (QrSize(v) - 1) |-> ScanPlace(v, k)], LAMBDA p : p \notin reserved)
CodewordsDrawn(v, codewords) == LET scan == Scan(v) IN
    {scan[i] : i \in {i \in 1 .. 8 * Len(codewords) : (8 - i) % 8 \in codewords[(i - 1) \div 8 + 1]}}

Inverted(mask, x, y) ==
    CASE mask = 0 -> (x + y) % 2 = 0
      [] mask = 1 -> y % 2 = 0
      [] mask = 2 -> x % 3 = 0
      [] mask = 3 -> (x + y) % 3 = 0
      [] mask = 4 -> ((x \div 3) + (y \div 2)) % 2 = 0
      [] mask = 5 -> ((x * y) % 2) + ((x * y) % 3) = 0
      [] mask = 6 -> (((x * y) % 2) + ((x * y) % 3)) % 2 = 0
      [] mask = 7 -> (((x + y) % 2) + ((x * y) % 3)) % 2 = 0
Masked(v, mask, black) == LET reserved == FunctionModules(v) IN
    SymDiff(black, {p \in Filled(0, 0, QrSize(v), QrSize(v)) : Inverted(mask, p[1], p[2]) /\ p \notin reserved})

(*---------------------------------------------------------------------------*)
(* The mask an application does not choose is the first of the lowest penalty. *)
Finderlike == {<<0, 0, 0, 0, 1, 0, 1, 1, 1, 0, 1>>, <<1, 0, 1, 1, 1, 0, 1, 0, 0, 0, 0>>}
LinePenalty(line) == LET
        five == {k \in 5 .. Len(line) : \A i \in k - 4 .. k - 1 : line[i] = line[k]}
        first == {k \in five : k = 5 \/ line[k - 5] # line[k]}
        like == {k \in 11 .. Len(line) : SubSeq(line, k - 10, k) \in Finderlike}
    IN Cardinality(five) + 2 * Cardinality(first) + 40 * Cardinality(like)
Penalty(v, black) == LET
        s == QrSize(v)
        rows == [y \in 1 .. s |-> [x \in 1 .. s |-> IF <<x - 1, y - 1>> \in black THEN 1 ELSE 0]]
        columns == [x \in 1 .. s |-> [y \in 1 .. s |-> rows[y][x]]]
        squares == {p \in (1 .. s - 1) \X (1 .. s - 1) :
            rows[p[2]][p[1]] + rows[p[2]][p[1] + 1] + rows[p[2] + 1][p[1]] + rows[p[2] + 1][p[1] + 1] \in {0, 4}}
        dark == 20 * Cardinality(black)
        near == Min({k \in 0 .. 9 : dark >= (9 - k) * s * s /\ dark <= (11 + k) * s * s})
    IN 10 * near + 3 * Cardinality(squares)
       + MapThenSumSet(LAMBDA k : LinePenalty(rows[k]) + LinePenalty(columns[k]), 1 .. s)

(*---------------------------------------------------------------------------*)
(* qrcodegen_encodeBinary, with two buffers of `room` bytes.  What it leaves in *)
(* the result is the size, 0 if it failed, and the modules.                     *)
AutoMask == -1
QrFailed == [size |-> 0, black |-> {}]
QrEncode(data, min, max, mask, room) == LET
        v == FitVersion(min, max, Len(data))
        plain == CodewordsDrawn(v, Interleaved(v, AsCodewords(QrDataBits(v, data)))) \cup FixedModules(v)
        drawn(m) == Masked(v, m, FormatDrawn(v, m, plain))
        tried == {<<Penalty(v, drawn(m)), m>> : m \in 0 .. 7}
        best == CHOOSE t \in tried : \A u \in tried : t[1] < u[1] \/ (t[1] = u[1] /\ t[2] <= u[2])
    IN IF v = 0 \/ BufferFor(v) > room THEN QrFailed
       ELSE [size |-> QrSize(v), black |-> drawn(IF mask = AutoMask THEN best[2] ELSE mask)]
QrModule(qr, x, y) == x \in 0 .. qr.size - 1 /\ y \in 0 .. qr.size - 1 /\ <<x, y>> \in qr.black

(*---------------------------------------------------------------------------*)
(* What a reader knows of the codes: the bytes a version holds, and the numbers  *)
(* that say which mask and which version it is, as the standard lists them.     *)
Holds == <<17, 32, 53, 78, 106, 134, 154, 192, 230, 271>>
FormatNumbers == <<30660, 29427, 32170, 30877, 26159, 25368, 27713, 26998>>
VersionNumbers == [v \in 7 .. 10 |-> <<31892, 34236, 39577, 42195>>[v - 6]]

\* All that is drawn fits: the modules left are as many as the codewords need, with less
\* than a byte to spare, the blocks share them, and the alignment marks touch neither
\* the finder marks nor each other, and are nowhere far apart.  The
\* modules are taken from the lower right corner on, each beside the last one.
AllDrawn(v) ==
    /\ Cardinality(Filled(0, 0, QrSize(v), QrSize(v)) \ FunctionModules(v)) = RawModules(v)
    /\ ShortBlocks(v) \in 1 .. EccBlocks[v] /\ ShortLen(v) > 0 /\ EccLen[v] <= 30
    /\ RawCodewords(v) < BufferFor(v)
    /\ v \in DOMAIN Holds => (8 * DataCodewords(v) - 4 - LengthBits(v)) \div 8 = Holds[v]
    /\ \A p \in AlignPositions(v) : p \in {6} \cup 16 .. QrSize(v) - 7 /\ p % 2 = 0
    /\ \A p, q \in AlignPositions(v) : p # q => Away(p, q) > 5
    /\ v = 32 => AlignPositions(v) = {6, 34, 60, 86, 112, 138}
    /\ ScanPlace(v, 1) = <<QrSize(v) - 1, QrSize(v) - 1>>
    /\ \A k \in 2 .. QrSize(v) * (QrSize(v) - 1) : LET p == ScanPlace(v, k - 1) q == ScanPlace(v, k) IN
          Away(p[2], q[2]) <= 1 /\ Away(p[1], q[1]) \in {1, IF p[1] = 7 /\ q[1] = 5 THEN 2 ELSE 1}
    /\ \A p \in AlignPositions(v) \ {QrSize(v) - 7} : \E q \in AlignPositions(v) : q - p \in 1 .. 28

\* The codewords of a block, from those of all blocks in the order they are drawn.
BlockRead(v, i, all) == LET n == EccBlocks[v] short == ShortLen(v) long == i > ShortBlocks(v) IN
    [j \in 1 .. short |-> all[(j - 1) * n + i]]
    \o (IF long THEN <<all[n * short + i - ShortBlocks(v)]>> ELSE << >>)
    \o [j \in 1 .. EccLen[v] |-> all[DataCodewords(v) + (j - 1) * n + i]]
\* The value of a polynomial at a root of the generator.
Syndrome(block, root) == LET
        term == [j \in DOMAIN block |-> Product(block[j], Power[(root * (Len(block) - j)) % 255])]
        terms == << >> \o term
    IN {i \in 0 .. 7 : Cardinality({j \in DOMAIN terms : i \in terms[j]}) % 2 = 1}

\* A reader finds the marks, the version, the mask and blocks without an error, and in
\* them the data.
QrReads(qr, v, mask, data) == LET
        s == qr.size
        bit(x, y) == QrModule(qr, x, y)
        marks == {<<3, 3>>, <<s - 4, 3>>, <<3, s - 4>>}
        scan == Scan(v)
        all == [k \in 1 .. RawCodewords(v) |-> {i \in 0 .. 7 : LET p == scan[8 * k - i] IN bit(p[1], p[2]) # Inverted(mask, p[1], p[2])}]
        block == [i \in 1 .. EccBlocks[v] |-> BlockRead(v, i, all)]
        kept == FlattenSeq([i \in 1 .. EccBlocks[v] |-> SubSeq(block[i], 1, Len(block[i]) - EccLen[v])])
        bits == FlattenSeq([k \in DOMAIN kept |-> [i \in 1 .. 8 |-> IF 8 - i \in kept[k] THEN 1 ELSE 0]])
        number(from, n) == FoldLeft(LAMBDA sum, b : 2 * sum + b, 0, SubSeq(bits, from + 1, from + n))
        header == 4 + LengthBits(v)
    IN /\ s = QrSize(v) /\ ~bit(s, 0) /\ ~bit(0, -1) /\ qr.black \subseteq Filled(0, 0, s, s)
       /\ \A c \in marks : \A p \in Around(c, 0 .. 4) \cap Filled(0, 0, s, s) :
             bit(p[1], p[2]) <=> p \in Around(c, {0, 1, 3})
       /\ \A i \in 8 .. s - 9 : bit(i, 6) = (i % 2 = 0) /\ bit(6, i) = (i % 2 = 0)
       /\ \A c \in AlignCentres(v) : \A p \in Around(c, 0 .. 2) : bit(p[1], p[2]) <=> p \in Around(c, {0, 2})
       /\ \A p \in FormatAt(v) : bit(p.x, p.y) <=> p.bit \in Ones(FormatNumbers[mask + 1])
       /\ bit(8, s - 8)
       /\ v \in 7 .. 10 => \A p \in VersionAt(v) : bit(p.x, p.y) <=> p.bit \in Ones(VersionNumbers[v])
       /\ \A i \in DOMAIN block : \A k \in 0 .. EccLen[v] - 1 : Syndrome(block[i], k) = {}
       /\ number(0, 4) = 4 /\ number(4, LengthBits(v)) = Len(data)
       /\ \A k \in DOMAIN data : number(header + 8 * (k - 1), 8) = data[k]
=================================================================================
